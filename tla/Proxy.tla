------------------------------- MODULE Proxy -------------------------------
(***************************************************************************)
(* The concurrent proxy of src/lab10/proxy.c with the wrappers of csapp.c: *)
(* the accept loop, one detached thread per connection that forwards a     *)
(* request and its reply, the file descriptors and the malloc'd arguments  *)
(* they share, and the mutex around the log.                               *)
(*                                                                         *)
(* A stream is a sequence of lines and, in a body, of bytes.  All that a   *)
(* peer will ever send is there at once: a thread that waits for more      *)
(* waits for ever or until the peer goes.  Rio's buffer belongs to one     *)
(* stream and one thread and changes no order, so it is left out, as are   *)
(* lines longer than MAXLINE and the rewriting of the URI in line 1.       *)
(***************************************************************************)
EXTENDS Integers, Sequences

CONSTANTS
  Conns,      \* the connections that clients open
  FDs,        \* the descriptors the process may have besides listenfd
  Args,       \* the addresses malloc returns for a struct addr_arg
  MaxAddrs,   \* most addresses getaddrinfo finds for a host
  Requests,   \* the streams clients send
  Replies,    \* the streams servers send
  None

\* "get": a request line that is accepted; "refused": one with a bad version
\* or URI; "junk": one that is cut off or has less than three words.
Item    == [kind : {"get", "refused", "junk", "header", "length", "blank", "byte"},
            n : Nat]
Sockets == [conn : Conns, side : {"client", "server"}]

\* struct addr_arg
Struct == [conn : Conns, connfd : FDs]

ASSUME ProxyAssumption ==
  /\ FDs \subseteq Nat /\ MaxAddrs \in Nat
  /\ Requests \subseteq Seq(Item) /\ Replies \subseteq Seq(Item)
  /\ None \notin Conns \cup FDs \cup Sockets \cup Struct

VARIABLES
  file,    \* the descriptor table: the socket of each descriptor, or None
  arg,     \* the struct at each address, or None if it is free
  thread,  \* the thread of each connection: where it is, and its locals
  peer,    \* the other end of each socket: what it sends and receives
  mutex,
  log,     \* what was printed
  died     \* why the whole process ended, or "no"

vars == <<file, arg, thread, peer, mutex, log, died>>

Client(c) == [conn |-> c, side |-> "client"]
Server(c) == [conn |-> c, side |-> "server"]

Locals == [pc |-> "none", vargp |-> None, connfd |-> None, serverfd |-> None,
           addr |-> None, url |-> None, addrs |-> 0, left |-> 0, total |-> 0,
           size |-> 0, closing |-> <<>>]

\* sends: the stream; read: how much of it the proxy has read; got: what the
\* proxy has written, item k of connection c's peer as <<c, k>>.
Silent == [state |-> "none", sends |-> <<>>, read |-> 0, got |-> <<>>]

Init ==
  /\ file = [f \in FDs |-> None]
  /\ arg = [a \in Args |-> None]
  /\ thread = [c \in Conns |-> Locals]
  /\ peer = [s \in Sockets |-> Silent]
  /\ mutex = 1 /\ log = {} /\ died = "no"

----------------------------------------------------------------------------
(* Descriptors, and what reading and writing them yields. *)

FreeFDs == {f \in FDs : file[f] = None}

\* The kernel hands out the lowest free descriptor.
NextFD == CHOOSE f \in FreeFDs : \A g \in FreeFDs : f <= g

\* Rio_readlineb_w and Rio_readnb_w return an item, or 0: the end of the
\* stream, or an error of a peer that is gone.
HasItem(s) == peer[s].read < Len(peer[s].sends)
NextItem(s) == peer[s].sends[peer[s].read + 1]
EOF(s) == \/ peer[s].state = "shut" /\ ~HasItem(s)
          \/ peer[s].state = "gone"

\* Rio_writen_w; what is written to a peer that is gone is lost, and the call
\* may fail (SIGPIPE is ignored).
WriteFails(d) == peer[d].state = "gone"

\* Read one item of s and write it to d.
Forward(s, d) ==
  peer' = [peer EXCEPT
             ![s].read = @ + 1,
             ![d].got  = IF peer[d].state = "gone" THEN @
                         ELSE Append(@, <<s.conn, peer[s].read + 1>>)]

\* unix_error and posix_error: exit(0) ends every thread and closes every file.
Exit(why) == /\ died' = why
             /\ file' = [f \in FDs |-> None]
             /\ arg' = [a \in Args |-> None]
             /\ thread' = [c \in Conns |-> Locals]
             /\ mutex' = 1
             /\ UNCHANGED <<peer, log>>

----------------------------------------------------------------------------
(* main *)

\* Mutant of Accept: one struct serves every connection.
AcceptSharedArg(c, request) ==
  /\ died = "no" /\ thread[c].pc = "none" /\ FreeFDs # {}
  /\ LET a == CHOOSE b \in Args : TRUE
     IN  /\ arg' = [arg EXCEPT ![a] = [conn |-> c, connfd |-> NextFD]]
         /\ thread' = [thread EXCEPT ![c].pc = "start", ![c].vargp = a]
  /\ file' = [file EXCEPT ![NextFD] = Client(c)]
  /\ peer' = [peer EXCEPT ![Client(c)].state = "open", ![Client(c)].sends = request]
  /\ UNCHANGED <<mutex, log, died>>

\* Malloc, Accept and Pthread_create; no other thread sees main in between.
Accept(c, request) ==
  /\ died = "no" /\ thread[c].pc = "none" /\ FreeFDs # {}
  /\ \E a \in {b \in Args : arg[b] = None} :
       /\ arg' = [arg EXCEPT ![a] = [conn |-> c, connfd |-> NextFD]]
       /\ thread' = [thread EXCEPT ![c].pc = "start", ![c].vargp = a]
  /\ file' = [file EXCEPT ![NextFD] = Client(c)]
  /\ peer' = [peer EXCEPT ![Client(c)].state = "open", ![Client(c)].sends = request]
  /\ UNCHANGED <<mutex, log, died>>

\* No descriptor is left, the connection was aborted, or no thread can be made.
AcceptFails(c) == died = "no" /\ thread[c].pc = "none" /\ Exit("accept")

----------------------------------------------------------------------------
(* thread and doit *)

At(c, pc) == died = "no" /\ thread[c].pc = pc

Cfd(c) == file[thread[c].connfd]
Sfd(c) == file[thread[c].serverfd]

Goto(c, pc) == thread' = [thread EXCEPT ![c].pc = pc]

\* Mutant of Leave: thread closes connfd again after doit has.
LeaveTwice(c, size, fds) == thread' = [thread EXCEPT
  ![c].pc = "close", ![c].size = size, ![c].closing = Append(fds, thread[c].connfd)]

\* Leave doit through a sequence of Closes.
Leave(c, size, fds) == thread' = [thread EXCEPT ![c].pc = "close", ![c].size = size,
                                                ![c].closing = fds]

Both(c) == <<thread[c].connfd, thread[c].serverfd>>

\* Copy the argument and free it.
Start(c) ==
  LET a == thread[c].vargp IN
  /\ At(c, "start")
  /\ thread' = [thread EXCEPT ![c].pc = "line", ![c].vargp = None,
                              ![c].connfd = arg[a].connfd, ![c].addr = arg[a].conn]
  /\ arg' = [arg EXCEPT ![a] = None]
  /\ UNCHANGED <<file, peer, mutex, log, died>>

\* The request line; only after sscanf has found a URI is url_log written.
RequestLine(c) ==
  LET s == Cfd(c) IN
  /\ At(c, "line")
  /\ \/ EOF(s) /\ Leave(c, 0, <<thread[c].connfd>>) /\ UNCHANGED peer
     \/ /\ HasItem(s)
        /\ peer' = [peer EXCEPT ![s].read = @ + 1]
        /\ \/ /\ NextItem(s).kind = "get"
              /\ \E n \in 0..MaxAddrs :
                   thread' = [thread EXCEPT ![c].pc = "socket", ![c].url = s.conn,
                                            ![c].addrs = n]
           \/ /\ NextItem(s).kind = "refused"
              /\ thread' = [thread EXCEPT ![c].pc = "close", ![c].url = s.conn,
                                          ![c].closing = <<thread[c].connfd>>]
           \/ /\ NextItem(s).kind \notin {"get", "refused"}
              /\ Leave(c, 0, <<thread[c].connfd>>)
  /\ UNCHANGED <<file, arg, mutex, log, died>>

\* Open_clientfd tries the addresses getaddrinfo has found, one after another,
\* and ends the process if there is none (left).
OpenSocket(c) ==
  /\ At(c, "socket")
  /\ \/ thread[c].addrs = 0 /\ Exit("connect")
     \/ /\ thread[c].addrs > 0 /\ FreeFDs = {}
        /\ thread' = [thread EXCEPT ![c].addrs = @ - 1]
        /\ UNCHANGED <<file, arg, peer, mutex, log, died>>
     \/ /\ thread[c].addrs > 0 /\ FreeFDs # {}
        /\ file' = [file EXCEPT ![NextFD] = Server(thread[c].url)]
        /\ thread' = [thread EXCEPT ![c].pc = "connect", ![c].serverfd = NextFD]
        /\ UNCHANGED <<arg, peer, mutex, log, died>>

Connect(c, reply) ==
  /\ At(c, "connect")
  /\ peer' = [peer EXCEPT ![Sfd(c)].state = "open", ![Sfd(c)].sends = reply]
  /\ Goto(c, "send")
  /\ UNCHANGED <<file, arg, mutex, log, died>>

ConnectFails(c) ==
  /\ At(c, "connect")
  /\ file' = [file EXCEPT ![thread[c].serverfd] = None]
  /\ thread' = [thread EXCEPT ![c].pc = "socket", ![c].serverfd = None,
                              ![c].addrs = @ - 1]
  /\ UNCHANGED <<arg, peer, mutex, log, died>>

\* The request line goes to the server; the result is not tested.
SendLine(c) ==
  LET d == Sfd(c) IN
  /\ At(c, "send")
  /\ peer' = [peer EXCEPT ![d].got = IF peer[d].state = "gone" THEN @
                                     ELSE Append(@, <<thread[c].url, 1>>)]
  /\ Goto(c, "headers")
  /\ UNCHANGED <<file, arg, mutex, log, died>>

\* Content-Length of the header lines so far: the last one counts.
Length(c, s) == IF NextItem(s).kind = "length" THEN NextItem(s).n
                                               ELSE thread[c].left

\* Mutant of Headers: the blank line ends the loop before it is written.
HeadersBreakFirst(c) ==
  LET s == Cfd(c)
      d == Sfd(c)
  IN
  /\ At(c, "headers")
  /\ \/ EOF(s) /\ Leave(c, 0, Both(c)) /\ UNCHANGED peer
     \/ /\ HasItem(s) /\ NextItem(s).kind # "blank" /\ Forward(s, d)
        /\ thread' = [thread EXCEPT ![c].left = Length(c, s)]
     \/ /\ HasItem(s) /\ NextItem(s).kind = "blank"
        /\ peer' = [peer EXCEPT ![s].read = @ + 1]
        /\ Goto(c, IF thread[c].left > 0 THEN "body" ELSE "reply")
  /\ UNCHANGED <<file, arg, mutex, log, died>>

Headers(c) ==
  LET s == Cfd(c)
      d == Sfd(c)
  IN
  /\ At(c, "headers")
  /\ \/ EOF(s) /\ Leave(c, 0, Both(c)) /\ UNCHANGED peer
     \/ HasItem(s) /\ WriteFails(d) /\ Forward(s, d) /\ Leave(c, 0, Both(c))
     \/ /\ HasItem(s) /\ Forward(s, d)
        /\ thread' = [thread EXCEPT
                        ![c].left = Length(c, s),
                        ![c].pc = IF NextItem(s).kind # "blank" THEN @
                                  ELSE IF Length(c, s) > 0 THEN "body" ELSE "reply"]
  /\ UNCHANGED <<file, arg, mutex, log, died>>

\* The request body, one byte after another
Body(c) ==
  LET s == Cfd(c)
      d == Sfd(c)
  IN
  /\ At(c, "body")
  /\ \/ EOF(s) /\ Leave(c, 0, Both(c)) /\ UNCHANGED peer
     \/ HasItem(s) /\ WriteFails(d) /\ Forward(s, d) /\ Leave(c, 0, Both(c))
     \/ /\ HasItem(s) /\ Forward(s, d)
        /\ thread' = [thread EXCEPT ![c].left = @ - 1,
                                    ![c].pc = IF thread[c].left = 1 THEN "reply" ELSE @]
  /\ UNCHANGED <<file, arg, mutex, log, died>>

\* Lines of the reply; failed writes to the client are not noticed here.
ReplyHeaders(c) ==
  LET s == Sfd(c)
      d == Cfd(c)
      total == thread[c].total + 1
  IN
  /\ At(c, "reply")
  /\ \/ EOF(s) /\ Leave(c, 0, Both(c)) /\ UNCHANGED peer
     \/ /\ HasItem(s) /\ Forward(s, d)
        /\ \/ /\ NextItem(s).kind # "blank"
              /\ thread' = [thread EXCEPT ![c].left = Length(c, s), ![c].total = total]
           \/ /\ NextItem(s).kind = "blank" /\ thread[c].left > 0
              /\ thread' = [thread EXCEPT ![c].pc = "replybody",
                                          ![c].total = total + thread[c].left]
           \/ /\ NextItem(s).kind = "blank" /\ thread[c].left <= 0
              /\ Leave(c, total, <<thread[c].serverfd, thread[c].connfd>>)
  /\ UNCHANGED <<file, arg, mutex, log, died>>

\* Mutant of ReplyBody: the size is stored before the body is read.
ReplyBodySizeFirst(c) ==
  LET s == Sfd(c)
      d == Cfd(c)
  IN
  /\ At(c, "replybody")
  /\ \/ EOF(s) /\ Leave(c, thread[c].total, Both(c)) /\ UNCHANGED peer
     \/ /\ HasItem(s) /\ Forward(s, d)
        /\ \/ thread[c].left > 1 /\ thread' = [thread EXCEPT ![c].left = @ - 1]
           \/ /\ thread[c].left <= 1
              /\ Leave(c, thread[c].total, <<thread[c].serverfd, thread[c].connfd>>)
  /\ UNCHANGED <<file, arg, mutex, log, died>>

\* The size is the caller's only after the last byte of the reply.
ReplyBody(c) ==
  LET s == Sfd(c)
      d == Cfd(c)
  IN
  /\ At(c, "replybody")
  /\ \/ EOF(s) /\ Leave(c, 0, Both(c)) /\ UNCHANGED peer
     \/ HasItem(s) /\ WriteFails(d) /\ Forward(s, d) /\ Leave(c, 0, Both(c))
     \/ /\ HasItem(s) /\ Forward(s, d)
        /\ \/ thread[c].left > 1 /\ thread' = [thread EXCEPT ![c].left = @ - 1]
           \/ /\ thread[c].left <= 1
              /\ Leave(c, thread[c].total, <<thread[c].serverfd, thread[c].connfd>>)
  /\ UNCHANGED <<file, arg, mutex, log, died>>

\* One Close after another; closing a descriptor that is not open is fatal.
CloseNext(c) ==
  LET f == Head(thread[c].closing) IN
  /\ At(c, "close")
  /\ \/ file[f] = None /\ Exit("close")
     \/ /\ file[f] # None
        /\ file' = [file EXCEPT ![f] = None]
        /\ thread' = [thread EXCEPT
             ![c].closing = Tail(@),
             ![c].connfd = IF f = @ THEN None ELSE @,
             ![c].serverfd = IF f = @ THEN None ELSE @,
             ![c].pc = IF Len(thread[c].closing) = 1 THEN "lock" ELSE @]
        /\ UNCHANGED <<arg, peer, mutex, log, died>>

\* P(&mutex)
Lock(c) ==
  /\ At(c, "lock") /\ mutex = 1
  /\ mutex' = 0
  /\ Goto(c, "print")
  /\ UNCHANGED <<file, arg, peer, log, died>>

Entry(c) == [addr |-> thread[c].addr, url |-> thread[c].url, size |-> thread[c].size]

\* Mutant of PrintLog: no V
PrintLogKeeps(c) ==
  /\ At(c, "print")
  /\ log' = log \cup {Entry(c)}
  /\ thread' = [thread EXCEPT ![c] = [Locals EXCEPT !.pc = "done"]]
  /\ UNCHANGED <<file, arg, peer, mutex, died>>

\* printf, V(&mutex), and the thread ends.
PrintLog(c) ==
  /\ At(c, "print")
  /\ log' = log \cup {Entry(c)}
  /\ mutex' = mutex + 1
  /\ thread' = [thread EXCEPT ![c] = [Locals EXCEPT !.pc = "done"]]
  /\ UNCHANGED <<file, arg, peer, died>>

----------------------------------------------------------------------------
(* The other ends.  A peer may stop sending and still listen, which shows  *)
(* only when all it has sent is read, or be gone.                          *)

Leaves(s, from, to) ==
  /\ died = "no" /\ peer[s].state \in from
  /\ \E f \in FDs : file[f] = s
  /\ peer' = [peer EXCEPT ![s].state = to]
  /\ UNCHANGED <<file, arg, thread, mutex, log, died>>

PeerShuts(s) == ~HasItem(s) /\ Leaves(s, {"open"}, "shut")
PeerGoes(s)  == Leaves(s, {"open", "shut"}, "gone")

----------------------------------------------------------------------------
Serve(c) ==
  \/ Start(c) \/ RequestLine(c) \/ OpenSocket(c)
  \/ (\E r \in Replies : Connect(c, r)) \/ ConnectFails(c)
  \/ SendLine(c) \/ Headers(c) \/ Body(c) \/ ReplyHeaders(c) \/ ReplyBody(c)
  \/ CloseNext(c) \/ PrintLog(c)

Next ==
  \/ \E c \in Conns : \/ \E r \in Requests : Accept(c, r)
                      \/ AcceptFails(c)
                      \/ Serve(c) \/ Lock(c)
  \/ \E s \in Sockets : PeerShuts(s) \/ PeerGoes(s)

Spec == Init /\ [][Next]_vars
----------------------------------------------------------------------------
(* Properties. *)

Working(c) == thread[c].pc \notin {"none", "start", "done"}

\* The descriptors that a thread, or the struct it has not copied yet, holds
Holds(c) == IF thread[c].pc = "start" THEN {arg[thread[c].vargp].connfd}
            ELSE {thread[c].connfd, thread[c].serverfd} \ {None}

\* Types; the loops over a body count down to zero and no further; only the
\* system calls whose failure the wrappers turn into exit(0) end the process.
TypeOK ==
  /\ file \in [FDs -> Sockets \cup {None}]
  /\ arg \in [Args -> Struct \cup {None}]
  /\ \A c \in Conns : /\ thread[c].left \in Nat /\ thread[c].addrs \in 0..MaxAddrs
                      /\ thread[c].connfd \in FDs \cup {None}
                      /\ thread[c].serverfd \in FDs \cup {None}
  /\ \A s \in Sockets : peer[s].read \in 0..Len(peer[s].sends)
  /\ mutex \in 0..1
  /\ died \in {"no", "accept", "connect"}

(***************************************************************************)
(* Each descriptor in use belongs to one thread and is a socket of that    *)
(* thread's connection: no early return of doit (proxy.c:137-263) leaks a  *)
(* descriptor or closes one that the kernel has given to another thread.   *)
(***************************************************************************)
DescriptorsOwned ==
  /\ \A f \in FDs : file[f] # None => \E c \in Conns : f \in Holds(c)
  /\ \A c \in Conns :
       /\ \A f \in Holds(c) : file[f] # None /\ file[f].conn = c
       /\ Working(c) /\ thread[c].connfd # None => file[thread[c].connfd] = Client(c)

(***************************************************************************)
(* What a server receives is the beginning of its own client's stream, and *)
(* what a client receives is the beginning of its own server's stream: in  *)
(* order, without gap or repetition, whatever the other threads do.        *)
(***************************************************************************)
ForwardsInOrder ==
  \A s \in Sockets :
    /\ peer[s].got = [k \in 1..Len(peer[s].got) |-> <<s.conn, k>>]
    /\ s.side = "server" => Len(peer[s].got) <= peer[Client(s.conn)].read
    /\ s.side = "client" => Len(peer[s].got) <= peer[Server(s.conn)].read

(***************************************************************************)
(* The log names the client's own URI, or none that was ever sent, and "the *)
(* number of bytes from the server" (proxy.c:322): 0, or all of a complete  *)
(* reply, which a client that has not gone then has received.               *)
(***************************************************************************)
LogsTheReply ==
  \A e \in log :
    LET s == Client(e.addr) IN
    /\ e.url \in {e.addr, None}
    /\ e.size > 0 => /\ e.size = peer[Server(e.addr)].read
                     /\ peer[s].state # "gone" => Len(peer[s].got) = e.size

(***************************************************************************)
(* No thread is stuck: once its two peers have stopped sending it can take *)
(* a step, or waits for a mutex whose holder can.  Each step is one toward *)
(* its end, so its descriptors are closed and its line is printed.         *)
(***************************************************************************)
Quiet(s) == peer[s].state # "open"

NeverStuck ==
  \A c \in Conns :
    /\ died = "no" /\ thread[c].pc \notin {"none", "done"}
    /\ Quiet(Client(c)) /\ Quiet(Server(c))
    => \/ ENABLED Serve(c)
       \/ thread[c].pc = "lock" /\ \E k \in Conns : ENABLED (Lock(k) \/ PrintLog(k))
=============================================================================
