---------------------------- MODULE ProxyProofs ----------------------------
(***************************************************************************)
(* Theorems about the proxy, for any number of connections, descriptors    *)
(* and structs, and any streams.                                           *)
(***************************************************************************)
EXTENDS Proxy, TLAPS, NatLemmas, SequenceTheorems

----------------------------------------------------------------------------
(* The inductive invariant. *)

Early   == {"start", "line", "socket", "connect"}   \* no server yet
Relay   == {"send", "headers", "body", "reply", "replybody"}
Late    == {"close", "lock", "print"}               \* doit is over, or about to be

Thread ==
  [pc : {"none", "done"} \cup Early \cup Relay \cup Late,
   vargp : Args \cup {None}, connfd : FDs \cup {None}, serverfd : FDs \cup {None},
   addr : Conns \cup {None}, url : Conns \cup {None}, addrs : 0..MaxAddrs,
   left : Nat, total : Nat, size : Nat, closing : Seq(FDs)]

Peer == [state : {"none", "open", "shut", "gone"}, sends : Seq(Item),
         read : Nat, got : Seq(Conns \X Nat)]

Types ==
  /\ file \in [FDs -> Sockets \cup {None}]
  /\ arg \in [Args -> Struct \cup {None}]
  /\ thread \in [Conns -> Thread]
  /\ peer \in [Sockets -> Peer]
  /\ \A s \in Sockets : peer[s].read <= Len(peer[s].sends)
  /\ mutex \in 0..1
  /\ died \in {"no", "accept", "connect"}

\* The Closes that are still to come are those of the descriptors that are open.
Closes(c) ==
  LET t == thread[c] IN
  \/ t.connfd # None /\ t.serverfd = None /\ t.closing = <<t.connfd>>
  \/ t.connfd = None /\ t.serverfd # None /\ t.closing = <<t.serverfd>>
  \/ /\ t.connfd # None /\ t.serverfd # None
     /\ t.closing \in {<<t.connfd, t.serverfd>>, <<t.serverfd, t.connfd>>}

\* What thread c holds, by where it is
Position(c) ==
  LET t == thread[c] IN
  /\ t.connfd # None => file[t.connfd] = Client(c)
  /\ t.serverfd # None => file[t.serverfd] = Server(c)
  /\ t.pc \in {"none", "start", "lock", "print", "done"} => t.connfd = None
  /\ t.pc \in {"none", "start", "line", "socket", "lock", "print", "done"} => t.serverfd = None
  /\ t.pc \in {"line", "socket", "connect"} \cup Relay => t.connfd # None
  /\ t.pc \in {"connect"} \cup Relay => t.serverfd # None
  /\ t.pc = "start" => /\ t.vargp \in Args /\ arg[t.vargp] # None
                       /\ arg[t.vargp].conn = c
                       /\ file[arg[t.vargp].connfd] = Client(c)
  /\ t.pc = "connect" => t.addrs > 0
  /\ t.pc = "close" => Closes(c)

\* How far the streams of connection c are
Progress(c) ==
  LET t  == thread[c]
      cl == peer[Client(c)]
      sv == peer[Server(c)]
  IN
  /\ t.pc = "none" => cl = Silent
  /\ t.pc \in {"none"} \cup Early => sv = Silent
  /\ t.pc \in {"none", "send", "headers", "body"} \cup Early =>
       cl.got = <<>> /\ sv.read = 0 /\ t.total = 0
  /\ t.pc \in {"none"} \cup Early \cup Relay => t.size = 0
  /\ t.pc \in {"start", "line"} => cl.read = 0
  /\ t.pc \in {"socket", "connect", "send"} => cl.read = 1
  /\ t.pc = "send" => sv.got = <<>>
  /\ t.pc \in {"headers", "body"} /\ sv.state # "gone" => Len(sv.got) = cl.read
  /\ t.pc \in {"body", "replybody"} => t.left > 0
  /\ t.pc \in {"reply", "replybody"} /\ cl.state # "gone" => Len(cl.got) = sv.read
  /\ t.pc = "reply" => t.total = sv.read
  /\ t.pc = "replybody" => t.total = sv.read + t.left
  /\ t.pc \in Late /\ t.size > 0 => /\ t.size = sv.read
                                    /\ cl.state # "gone" => Len(cl.got) = t.size
  /\ t.pc \notin {"none", "start", "done"} => t.addr = c
  /\ t.url \in {c, None}
  /\ t.pc \in {"socket", "connect"} \cup Relay => t.url = c

\* What connection c's peers have got is in order.
InOrder(c) ==
  LET cl == peer[Client(c)]
      sv == peer[Server(c)]
  IN
  /\ \A k \in 1..Len(cl.got) : cl.got[k] = <<c, k>>
  /\ \A k \in 1..Len(sv.got) : sv.got[k] = <<c, k>>
  /\ Len(cl.got) <= sv.read
  /\ Len(sv.got) <= cl.read

FilesOwned == \A f \in FDs, c \in Conns :
                file[f] # None /\ file[f].conn = c => f \in Holds(c)

ArgsOwned == \A a \in Args, c \in Conns :
               arg[a] # None /\ arg[a].conn = c =>
                 thread[c].pc = "start" /\ thread[c].vargp = a

MutexHeld == /\ \A c \in Conns : thread[c].pc = "print" => mutex = 0
             /\ \A c, k \in Conns : thread[c].pc = "print" /\ thread[k].pc = "print" => c = k

\* A line of the log is that of a thread that has ended.
Logged(e) ==
  /\ e.addr \in Conns /\ e.url \in {e.addr, None} /\ e.size \in Nat
  /\ died = "no" => thread[e.addr].pc = "done"
  /\ e.size > 0 => /\ e.size = peer[Server(e.addr)].read
                   /\ peer[Client(e.addr)].state # "gone" =>
                        Len(peer[Client(e.addr)].got) = e.size

Running == /\ \A c \in Conns : Position(c) /\ Progress(c)
           /\ FilesOwned /\ ArgsOwned /\ MutexHeld

Ended == file = [f \in FDs |-> None] /\ thread = [c \in Conns |-> Locals]

IInv == /\ Types
        /\ died = "no" => Running
        /\ died # "no" => Ended
        /\ \A c \in Conns : InOrder(c)
        /\ \A e \in log : Logged(e)

----------------------------------------------------------------------------
(* A step of connection c touches its own thread, peers, descriptors and   *)
(* struct, and nothing that belongs to another.                            *)

OnlyOf(c) ==
  /\ died = "no" /\ died' = "no" /\ thread[c].pc # "done"
  /\ \A k \in Conns \ {c} : /\ thread'[k] = thread[k]
                            /\ peer'[Client(k)] = peer[Client(k)]
                            /\ peer'[Server(k)] = peer[Server(k)]
  /\ \A f \in FDs : file'[f] = file[f] \/ /\ file[f] = None \/ file[f].conn = c
                                          /\ file'[f] = None \/ file'[f].conn = c
  /\ \A a \in Args : arg'[a] = arg[a] \/ /\ arg[a] = None \/ arg[a].conn = c
                                         /\ arg'[a] = None \/ arg'[a].conn = c

\* None is no descriptor, no socket, no struct and no connection.
LEMMA NoneFacts ==
  /\ None \notin Conns /\ None \notin FDs /\ None \notin Sockets /\ None \notin Struct
  /\ FDs \subseteq Nat /\ MaxAddrs \in Nat
BY ProxyAssumption

\* The sockets of a connection, and no two of them alike
LEMMA SocketFacts ==
  /\ \A c \in Conns : Client(c) \in Sockets /\ Server(c) \in Sockets
  /\ \A c, k \in Conns : Client(c) # Server(k)
  /\ \A c, k \in Conns : Client(c) = Client(k) => c = k
  /\ \A c, k \in Conns : Server(c) = Server(k) => c = k
  /\ \A c : Client(c).conn = c /\ Server(c).conn = c
  /\ \A s \in Sockets : s.conn \in Conns /\ (s = Client(s.conn) \/ s = Server(s.conn))
BY DEF Sockets, Client, Server

\* What another connection is told by the variables of its own stays true.
LEMMA OthersStay ==
  ASSUME IInv, NEW c \in Conns, OnlyOf(c), NEW k \in Conns, k # c
  PROVE  /\ Position(k)' /\ Progress(k)' /\ InOrder(k)'
         /\ Holds(k)' = Holds(k)
<1> USE NoneFacts, SocketFacts
<1>1. /\ thread'[k] = thread[k]
      /\ peer'[Client(k)] = peer[Client(k)]
      /\ peer'[Server(k)] = peer[Server(k)]
  BY DEF OnlyOf
<1>2. Position(k) /\ Progress(k) /\ InOrder(k) /\ Types
  BY DEF IInv, Running, OnlyOf
<1>3. Progress(k)' /\ InOrder(k)'
  BY <1>1, <1>2 DEF Progress, InOrder, Client, Server
<1>4. \A f \in FDs : file[f] \in {Client(k), Server(k)} => file'[f] = file[f]
  BY DEF OnlyOf
<1>5. thread[k].pc = "start" =>
        arg'[thread[k].vargp] = arg[thread[k].vargp] /\ arg[thread[k].vargp] \in Struct
  BY <1>2 DEF Position, OnlyOf, Types
<1>6. /\ thread[k].connfd \in FDs \cup {None} /\ thread[k].serverfd \in FDs \cup {None}
  BY <1>2 DEF Types, Thread
<1>7. Position(k)'
  <2>1. thread[k].pc = "start" =>
          file'[arg[thread[k].vargp].connfd] = file[arg[thread[k].vargp].connfd]
    BY <1>2, <1>4, <1>5 DEF Position, Struct
  <2>2. /\ thread[k].connfd # None => file'[thread[k].connfd] = file[thread[k].connfd]
        /\ thread[k].serverfd # None => file'[thread[k].serverfd] = file[thread[k].serverfd]
    BY <1>2, <1>4, <1>6 DEF Position
  <2> QED
    BY <1>1, <1>2, <1>5, <2>1, <2>2 DEF Position, Closes
<1>8. Holds(k)' = Holds(k)
  BY <1>1, <1>5 DEF Holds
<1> QED
  BY <1>3, <1>7, <1>8

\* So a step of c preserves the invariant if it does so for c.
LEMMA Local ==
  ASSUME IInv, NEW c \in Conns, OnlyOf(c), Types',
         Position(c)', Progress(c)', InOrder(c)',
         \A f \in FDs : file'[f] # None /\ file'[f].conn = c => f \in Holds(c)',
         \A a \in Args : arg'[a] # None /\ arg'[a].conn = c =>
                           thread'[c].pc = "start" /\ thread'[c].vargp = a,
         MutexHeld',
         \A e \in log' : e \in log \/ Logged(e)'
  PROVE  IInv'
<1> USE NoneFacts, SocketFacts
<1>1. Running /\ Types /\ died' = "no"
  BY DEF IInv, OnlyOf
<1>2. FilesOwned'
  <2>1. SUFFICES ASSUME NEW f \in FDs, NEW k \in Conns, k # c,
                        file'[f] # None, file'[f].conn = k
                 PROVE  f \in Holds(k)'
    BY DEF FilesOwned
  <2>2. file'[f] = file[f]
    BY <2>1 DEF OnlyOf
  <2>3. f \in Holds(k)
    BY <1>1, <2>1, <2>2 DEF Running, FilesOwned
  <2> QED
    BY <2>1, <2>3, OthersStay
<1>3. ArgsOwned'
  <2>1. SUFFICES ASSUME NEW a \in Args, NEW k \in Conns, k # c,
                        arg'[a] # None, arg'[a].conn = k
                 PROVE  thread'[k].pc = "start" /\ thread'[k].vargp = a
    BY DEF ArgsOwned
  <2>2. arg'[a] = arg[a]
    BY <2>1 DEF OnlyOf
  <2> QED
    BY <1>1, <2>1, <2>2 DEF Running, ArgsOwned, OnlyOf
<1>4. Running'
  BY <1>2, <1>3, OthersStay DEF Running
<1>5. \A e \in log' : Logged(e)'
  <2>1. SUFFICES ASSUME NEW e \in log PROVE Logged(e)'
    OBVIOUS
  <2>2. Logged(e)
    BY DEF IInv
  <2>3. e.addr \in Conns \ {c}
    BY <2>2 DEF Logged, OnlyOf
  <2>4. /\ thread'[e.addr] = thread[e.addr]
        /\ peer'[Client(e.addr)] = peer[Client(e.addr)]
        /\ peer'[Server(e.addr)] = peer[Server(e.addr)]
    BY <2>3 DEF OnlyOf
  <2> QED
    BY <2>2, <2>3, <2>4 DEF Logged, Client, Server, OnlyOf
<1>6. \A k \in Conns : InOrder(k)'
  BY OthersStay
<1> QED
  BY <1>1, <1>4, <1>5, <1>6 DEF IInv

\* accept and socket return a descriptor that is free.
LEMMA FreeFD ==
  ASSUME FreeFDs # {}
  PROVE  NextFD \in FDs /\ file[NextFD] = None
<1>1. \E f \in FreeFDs : \A g \in FreeFDs : f <= g
  BY NatMin, NoneFacts DEF FreeFDs
<1> QED
  BY <1>1 DEF NextFD, FreeFDs

----------------------------------------------------------------------------
(* Reading and writing. *)

\* What peer socket s has sent is not all read.
LEMMA ItemRead ==
  ASSUME Types, NEW s \in Sockets, HasItem(s)
  PROVE  NextItem(s) \in Item /\ peer[s].read + 1 <= Len(peer[s].sends)
BY DEF Types, Peer, HasItem, NextItem

\* One more item is read of a peer p.
LEMMA PeerReads ==
  ASSUME NEW p \in Peer, NEW q, q = [p EXCEPT !.read = @ + 1]
  PROVE  /\ q \in Peer /\ q.read = p.read + 1 /\ q.read \in Nat
         /\ q.state = p.state /\ q.sends = p.sends /\ q.got = p.got
BY DEF Peer

\* One peer changes, and nothing is read of it that it does not send.
LEMMA PeerChanges ==
  ASSUME Types, NEW s \in Sockets, peer'[s] \in Peer,
         peer'[s].read <= Len(peer'[s].sends),
         \A x \in Sockets \ {s} : peer'[x] = peer[x],
         peer' = [x \in Sockets |-> peer'[x]]
  PROVE  /\ peer' \in [Sockets -> Peer]
         /\ \A x \in Sockets : peer'[x].read <= Len(peer'[x].sends)
<1>1. \A x \in Sockets : peer[x] \in Peer /\ peer[x].read <= Len(peer[x].sends)
  BY DEF Types
<1>2. \A x \in Sockets : peer'[x] \in Peer /\ peer'[x].read <= Len(peer'[x].sends)
  BY <1>1
<1> QED
  BY <1>2

\* A peer begins to send a stream.
Opens(s, stream) == peer' = [peer EXCEPT ![s].state = "open", ![s].sends = stream]

\* A peer that opens its end is one peer more that sends its stream.
LEMMA PeerOpens ==
  ASSUME Types, NEW s \in Sockets, NEW stream \in Seq(Item), peer[s] = Silent,
         Opens(s, stream)
  PROVE  /\ peer' \in [Sockets -> Peer]
         /\ \A x \in Sockets : peer'[x].read <= Len(peer'[x].sends)
         /\ \A x \in Sockets \ {s} : peer'[x] = peer[x]
         /\ peer'[s].state = "open" /\ peer'[s].read = 0 /\ peer'[s].got = <<>>
<1>1. /\ \A x \in Sockets \ {s} : peer'[x] = peer[x]
      /\ peer' = [x \in Sockets |-> peer'[x]]
      /\ peer'[s] = [peer[s] EXCEPT !.state = "open", !.sends = stream]
  BY DEF Types, Opens
<1>2. peer[s] \in Peer /\ peer[s].read = 0 /\ peer[s].got = <<>>
  BY DEF Types, Silent
<1>3. /\ peer'[s] \in Peer /\ peer'[s].sends = stream
      /\ peer'[s].state = "open" /\ peer'[s].read = 0 /\ peer'[s].got = <<>>
  BY <1>1, <1>2 DEF Peer
<1>4. peer'[s].read <= Len(peer'[s].sends)
  BY <1>3
<1> QED
  BY <1>1, <1>3, <1>4, PeerChanges

\* One thread changes.
LEMMA ThreadChanges ==
  ASSUME Types, NEW c \in Conns, thread'[c] \in Thread,
         \A k \in Conns \ {c} : thread'[k] = thread[k],
         thread' = [k \in Conns |-> thread'[k]]
  PROVE  thread' \in [Conns -> Thread]
<1>1. \A k \in Conns : thread[k] \in Thread
  BY DEF Types
<1>2. \A k \in Conns : thread'[k] \in Thread
  BY <1>1
<1> QED
  BY <1>2

\* Goto changes the place of one thread, and none of its locals.
LEMMA Going ==
  ASSUME Types, NEW c \in Conns, NEW pc, Goto(c, pc),
         pc \in {"none", "done"} \cup Early \cup Relay \cup Late
  PROVE  /\ thread' \in [Conns -> Thread]
         /\ \A k \in Conns \ {c} : thread'[k] = thread[k]
         /\ thread'[c].pc = pc /\ thread'[c].vargp = thread[c].vargp
         /\ thread'[c].connfd = thread[c].connfd /\ thread'[c].serverfd = thread[c].serverfd
         /\ thread'[c].addr = thread[c].addr /\ thread'[c].url = thread[c].url
         /\ thread'[c].left = thread[c].left /\ thread'[c].total = thread[c].total
         /\ thread'[c].size = thread[c].size /\ thread'[c].closing = thread[c].closing
<1>1. /\ \A k \in Conns \ {c} : thread'[k] = thread[k]
      /\ thread' = [k \in Conns |-> thread'[k]]
      /\ thread'[c] = [thread[c] EXCEPT !.pc = pc]
  BY DEF Goto, Types
<1>2. thread[c] \in Thread
  BY DEF Types
<1>3. /\ thread'[c] \in Thread
      /\ thread'[c].pc = pc /\ thread'[c].vargp = thread[c].vargp
      /\ thread'[c].connfd = thread[c].connfd /\ thread'[c].serverfd = thread[c].serverfd
      /\ thread'[c].addr = thread[c].addr /\ thread'[c].url = thread[c].url
      /\ thread'[c].left = thread[c].left /\ thread'[c].total = thread[c].total
      /\ thread'[c].size = thread[c].size /\ thread'[c].closing = thread[c].closing
  BY <1>1, <1>2 DEF Thread
<1> QED
  BY <1>1, <1>3, ThreadChanges

\* The sequences of one and two Closes
LEMMA ClosesType ==
  ASSUME NEW f \in FDs, NEW g \in FDs
  PROVE  <<f>> \in Seq(FDs) /\ <<f, g>> \in Seq(FDs)
OBVIOUS

\* Append at the end of a sequence of pairs <<c, 1>>, <<c, 2>>, ...
LEMMA Appended ==
  ASSUME NEW c \in Conns, NEW got \in Seq(Conns \X Nat), NEW n \in Nat, n = Len(got),
         \A k \in 1..Len(got) : got[k] = <<c, k>>
  PROVE  /\ Append(got, <<c, n + 1>>) \in Seq(Conns \X Nat)
         /\ Len(Append(got, <<c, n + 1>>)) = n + 1
         /\ \A k \in 1..n + 1 : Append(got, <<c, n + 1>>)[k] = <<c, k>>
OBVIOUS

\* Such a sequence is equal to the function written so.
LEMMA InOrderSequence ==
  ASSUME NEW c, NEW T, NEW got \in Seq(T),
         \A k \in 1..Len(got) : got[k] = <<c, k>>
  PROVE  got = [k \in 1..Len(got) |-> <<c, k>>]
<1>1. got \in [1..Len(got) -> T]
  BY LenProperties
<1>2. got = [k \in 1..Len(got) |-> got[k]]
  BY <1>1
<1> QED
  BY <1>1, <1>2

\* Rio_readlineb_w or Rio_readnb_w, then Rio_writen_w: one item more of s is
\* read, and d has all that is read of s unless it is gone.
LEMMA Forwarding ==
  ASSUME Types, NEW c \in Conns, NEW s \in Sockets, NEW d \in Sockets,
         s # d, s.conn = c, HasItem(s), Forward(s, d),
         \A k \in 1..Len(peer[d].got) : peer[d].got[k] = <<c, k>>,
         Len(peer[d].got) <= peer[s].read,
         peer[d].state # "gone" => Len(peer[d].got) = peer[s].read
  PROVE  /\ peer' \in [Sockets -> Peer]
         /\ \A x \in Sockets : peer'[x].read <= Len(peer'[x].sends)
         /\ \A x \in Sockets \ {s, d} : peer'[x] = peer[x]
         /\ peer'[s].read = peer[s].read + 1 /\ peer'[s].got = peer[s].got
         /\ peer'[s].state = peer[s].state
         /\ peer'[d].read = peer[d].read /\ peer'[d].state = peer[d].state
         /\ \A k \in 1..Len(peer'[d].got) : peer'[d].got[k] = <<c, k>>
         /\ Len(peer'[d].got) <= peer[s].read + 1
         /\ peer[d].state # "gone" => Len(peer'[d].got) = peer[s].read + 1
<1> DEFINE got == IF peer[d].state = "gone" THEN peer[d].got
                  ELSE Append(peer[d].got, <<c, peer[s].read + 1>>)
<1>1. peer[s] \in Peer /\ peer[d] \in Peer /\ peer \in [Sockets -> Peer]
  BY DEF Types
<1>2. /\ got \in Seq(Conns \X Nat)
      /\ \A k \in 1..Len(got) : got[k] = <<c, k>>
      /\ Len(got) <= peer[s].read + 1
      /\ peer[d].state # "gone" => Len(got) = peer[s].read + 1
  <2>1. peer[s].read \in Nat /\ peer[d].got \in Seq(Conns \X Nat)
    BY <1>1 DEF Peer
  <2>2. CASE peer[d].state = "gone"
    BY <2>1, <2>2
  <2>3. CASE peer[d].state # "gone"
    BY <2>1, <2>3, Appended
  <2> QED
    BY <2>2, <2>3
<1>3. /\ peer'[s] = [peer[s] EXCEPT !.read = @ + 1]
      /\ peer'[d] = [peer[d] EXCEPT !.got = got]
      /\ \A x \in Sockets \ {s, d} : peer'[x] = peer[x]
      /\ DOMAIN peer' = Sockets /\ peer' = [x \in Sockets |-> peer'[x]]
  BY <1>1 DEF Forward
<1> HIDE DEF got
<1>4. /\ peer'[s] \in Peer /\ peer'[s].read = peer[s].read + 1
      /\ peer'[s].state = peer[s].state /\ peer'[s].got = peer[s].got
      /\ peer'[s].sends = peer[s].sends
  BY <1>1, <1>3, PeerReads
<1>5. /\ peer'[d] \in Peer /\ peer'[d].got = got /\ peer'[d].read = peer[d].read
      /\ peer'[d].state = peer[d].state /\ peer'[d].sends = peer[d].sends
  <2>1. peer[d] \in Peer /\ got \in Seq(Conns \X Nat) /\ peer'[d] = [peer[d] EXCEPT !.got = got]
    BY <1>1, <1>2, <1>3
  <2> QED
    BY <2>1 DEF Peer
<1>6. peer' \in [Sockets -> Peer]
  BY <1>1, <1>3, <1>4, <1>5
<1>7. \A x \in Sockets : peer'[x].read <= Len(peer'[x].sends)
  <2>1. SUFFICES ASSUME NEW x \in Sockets PROVE peer'[x].read <= Len(peer'[x].sends)
    OBVIOUS
  <2>2. CASE x = s
    BY <1>4, <2>2, ItemRead
  <2>3. CASE x # s
    <3>1. peer[x].read <= Len(peer[x].sends)
      BY DEF Types
    <3> QED
      BY <1>3, <1>5, <2>3, <3>1
  <2> QED
    BY <2>2, <2>3
<1> QED
  BY <1>2, <1>3, <1>4, <1>5, <1>6, <1>7

(***************************************************************************)
(* A step of doit that neither opens nor closes anything preserves the     *)
(* invariant if the streams of its connection do.                          *)
(***************************************************************************)
LEMMA Streaming ==
  ASSUME IInv, NEW c \in Conns,
         At(c, "line") \/ \E pc \in Relay : At(c, pc),
         UNCHANGED <<file, arg, mutex, log, died>>,
         thread' \in [Conns -> Thread],
         \A k \in Conns \ {c} : thread'[k] = thread[k],
         thread'[c].connfd = thread[c].connfd,
         thread'[c].serverfd = thread[c].serverfd,
         \/ thread[c].pc = "line" /\ thread'[c].pc = "socket"
         \/ thread[c].pc \in Relay /\ thread'[c].pc \in Relay
         \/ thread'[c].pc = "close" /\ Closes(c)',
         peer' \in [Sockets -> Peer],
         \A s \in Sockets \ {Client(c), Server(c)} : peer'[s] = peer[s],
         \A s \in Sockets : peer'[s].read <= Len(peer'[s].sends),
         Progress(c)', InOrder(c)'
  PROVE  IInv'
<1> USE NoneFacts, SocketFacts
<1>1. Types /\ Running /\ died = "no"
  BY DEF IInv, At
<1>2. thread[c].pc \in {"line"} \cup Relay /\ thread'[c].pc \in {"socket", "close"} \cup Relay
  BY DEF At
<1>3. OnlyOf(c)
  BY <1>1, <1>2 DEF OnlyOf, Relay
<1>4. Types'
  BY <1>1 DEF Types
<1>5. Position(c)'
  BY <1>1, <1>2 DEF Running, Position, Relay, Closes
<1>6. Holds(c)' = Holds(c)
  BY <1>2 DEF Holds, Relay
<1>7. MutexHeld'
  <2>1. \A k \in Conns : thread'[k].pc = "print" <=> thread[k].pc = "print"
    BY <1>2 DEF Relay
  <2> QED
    BY <1>1, <2>1 DEF Running, MutexHeld
<1>8. \A f \in FDs : file'[f] # None /\ file'[f].conn = c => f \in Holds(c)'
  BY <1>1, <1>6 DEF Running, FilesOwned
<1>9. \A a \in Args : arg'[a] # None /\ arg'[a].conn = c =>
                        thread'[c].pc = "start" /\ thread'[c].vargp = a
  BY <1>1, <1>2 DEF Running, ArgsOwned, Relay
<1> QED
  BY <1>3, <1>4, <1>5, <1>7, <1>8, <1>9, Local

----------------------------------------------------------------------------
(* The actions of a thread, one by one. *)

\* What holds where doit has both sockets.
LEMMA Connected ==
  ASSUME IInv, NEW c \in Conns, NEW pc \in Relay, At(c, pc)
  PROVE  /\ thread[c].connfd \in FDs /\ thread[c].serverfd \in FDs
         /\ Cfd(c) = Client(c) /\ Sfd(c) = Server(c)
         /\ thread[c].pc = pc /\ thread[c].url = c /\ thread[c].size = 0
         /\ Types /\ Position(c) /\ Progress(c) /\ InOrder(c)
<1>1. /\ thread[c].pc \in Relay /\ thread[c].pc = pc
      /\ Types /\ Position(c) /\ Progress(c) /\ InOrder(c)
  BY DEF IInv, Running, At
<1>2. thread[c].connfd # None /\ thread[c].serverfd # None
  BY <1>1 DEF Position
<1>3. thread[c].connfd \in FDs \cup {None} /\ thread[c].serverfd \in FDs \cup {None}
  BY <1>1 DEF Types, Thread
<1> QED
  BY <1>1, <1>2, <1>3 DEF Position, Progress, Cfd, Sfd

\* Leave with both sockets open
LEMMA Leaving ==
  ASSUME IInv, NEW c \in Conns, NEW pc \in Relay, At(c, pc),
         NEW size \in Nat, NEW fds, fds \in {Both(c), <<thread[c].serverfd, thread[c].connfd>>},
         Leave(c, size, fds)
  PROVE  /\ thread' \in [Conns -> Thread]
         /\ \A k \in Conns \ {c} : thread'[k] = thread[k]
         /\ thread'[c].connfd = thread[c].connfd /\ thread'[c].serverfd = thread[c].serverfd
         /\ thread'[c].addr = thread[c].addr /\ thread'[c].url = thread[c].url
         /\ thread'[c].pc = "close" /\ thread'[c].size = size
         /\ Closes(c)'
<1>1. /\ thread \in [Conns -> Thread] /\ thread[c] \in Thread
      /\ thread[c].connfd \in FDs /\ thread[c].serverfd \in FDs
  BY Connected DEF Types
<1>2. fds \in Seq(FDs)
  BY <1>1, ClosesType DEF Both
<1>3. /\ thread' \in [Conns -> Thread]
      /\ \A k \in Conns \ {c} : thread'[k] = thread[k]
      /\ thread'[c] = [thread[c] EXCEPT !.pc = "close", !.size = size, !.closing = fds]
  BY <1>1, <1>2 DEF Leave, Thread, Late
<1>4. /\ thread'[c].connfd = thread[c].connfd /\ thread'[c].serverfd = thread[c].serverfd
      /\ thread'[c].addr = thread[c].addr /\ thread'[c].url = thread[c].url
      /\ thread'[c].pc = "close" /\ thread'[c].size = size /\ thread'[c].closing = fds
  BY <1>1, <1>3 DEF Thread
<1> QED
  BY <1>1, <1>3, <1>4, NoneFacts DEF Closes, Both

\* The line of the request is the first item that the server gets.
LEMMA SendLineStep ==
  ASSUME IInv, NEW c \in Conns, SendLine(c)
  PROVE  IInv'
<1> USE SocketFacts
<1>1. At(c, "send") /\ "send" \in Relay
  BY DEF SendLine, Relay
<1>2. /\ Sfd(c) = Server(c) /\ thread[c].url = c /\ thread[c].pc = "send" /\ thread[c].size = 0
      /\ Types /\ Position(c) /\ Progress(c) /\ InOrder(c)
  BY <1>1, Connected
<1> DEFINE sv == peer[Server(c)]
           got == IF sv.state = "gone" THEN sv.got ELSE Append(sv.got, <<c, 1>>)
<1>3. sv.got = <<>> /\ peer[Client(c)].read = 1 /\ sv \in Peer /\ sv.read = 0
  BY <1>2 DEF Progress, Types
<1>4. /\ got \in Seq(Conns \X Nat)
      /\ Len(got) <= 1 /\ (sv.state # "gone" => Len(got) = 1)
      /\ \A k \in 1..Len(got) : got[k] = <<c, k>>
  BY <1>3
<1>5. /\ peer'[Server(c)] = [sv EXCEPT !.got = got]
      /\ \A s \in Sockets \ {Server(c)} : peer'[s] = peer[s]
      /\ DOMAIN peer' = Sockets /\ peer' = [s \in Sockets |-> peer'[s]]
  BY <1>2 DEF SendLine, Types
<1> HIDE DEF got
<1>6. /\ peer'[Server(c)] \in Peer /\ peer'[Server(c)].got = got
      /\ peer'[Server(c)].read = sv.read /\ peer'[Server(c)].state = sv.state
      /\ peer'[Server(c)].sends = sv.sends
  BY <1>3, <1>4, <1>5 DEF Peer
<1>7. peer' \in [Sockets -> Peer] /\ \A s \in Sockets : peer'[s].read <= Len(peer'[s].sends)
  <2>1. peer'[Server(c)].read <= Len(peer'[Server(c)].sends)
    BY <1>2, <1>6 DEF Types
  <2> QED
    BY <1>2, <1>5, <1>6, <2>1, PeerChanges
<1>8. Goto(c, "headers")
  BY DEF SendLine
<1>9. /\ thread' \in [Conns -> Thread]
      /\ \A k \in Conns \ {c} : thread'[k] = thread[k]
      /\ thread'[c].connfd = thread[c].connfd /\ thread'[c].serverfd = thread[c].serverfd
      /\ thread'[c].pc = "headers" /\ thread'[c].url = c /\ thread'[c].size = 0
      /\ thread'[c].total = thread[c].total /\ thread'[c].addr = thread[c].addr
  BY <1>2, <1>8, Going DEF Relay
<1>10. Progress(c)'
  <2>1. peer'[Client(c)] = peer[Client(c)]
    BY <1>5
  <2>2. /\ peer[Client(c)].got = <<>> /\ thread[c].total = 0
        /\ peer[Client(c)].read = 1 /\ thread[c].addr = c
    BY <1>2, <1>3 DEF Progress
  <2>3. /\ peer'[Client(c)].got = <<>> /\ peer'[Client(c)].read = 1
        /\ peer'[Server(c)].read = 0
        /\ peer'[Server(c)].state # "gone" => Len(peer'[Server(c)].got) = 1
    BY <1>3, <1>4, <1>6, <2>1, <2>2
  <2>4. /\ thread'[c].pc = "headers" /\ thread'[c].size = 0 /\ thread'[c].total = 0
        /\ thread'[c].addr = c /\ thread'[c].url = c
    BY <1>9, <2>2
  <2>5. "headers" \notin {"none", "start", "line", "socket", "connect", "send"} \cup Early \cup Late
    BY DEF Early, Late
  <2> QED
    BY <2>3, <2>4, <2>5, Zenon DEF Progress, Client, Server
<1>11. InOrder(c)'
  BY <1>2, <1>3, <1>4, <1>5, <1>6 DEF InOrder
<1>12. UNCHANGED <<file, arg, mutex, log, died>>
  BY DEF SendLine
<1> QED
  BY <1>1, <1>2, <1>5, <1>7, <1>9, <1>10, <1>11, <1>12, Streaming DEF Relay

\* From which socket the thread reads, and to which it writes, in each loop
Direction(c, pc, s, d) ==
  \/ pc \in {"headers", "body"} /\ s = Client(c) /\ d = Server(c)
  \/ pc \in {"reply", "replybody"} /\ s = Server(c) /\ d = Client(c)

\* Forward in a loop of doit keeps what the peers of c got in order.
LEMMA ForwardInOrder ==
  ASSUME IInv, NEW c \in Conns, NEW pc \in Relay, At(c, pc),
         NEW s, NEW d, Direction(c, pc, s, d), HasItem(s), Forward(s, d)
  PROVE  /\ peer' \in [Sockets -> Peer]
         /\ \A x \in Sockets : peer'[x].read <= Len(peer'[x].sends)
         /\ \A x \in Sockets \ {Client(c), Server(c)} : peer'[x] = peer[x]
         /\ peer'[s].read = peer[s].read + 1 /\ peer'[s].got = peer[s].got
         /\ peer'[s].state = peer[s].state
         /\ peer'[d].read = peer[d].read /\ peer'[d].state = peer[d].state
         /\ peer[d].state # "gone" => Len(peer'[d].got) = peer[s].read + 1
         /\ InOrder(c)'
<1> USE SocketFacts
<1>1. Types /\ Progress(c) /\ InOrder(c) /\ thread[c].pc = pc
  BY Connected
<1>2. s \in Sockets /\ d \in Sockets /\ s # d /\ s.conn = c /\ {s, d} = {Client(c), Server(c)}
  BY DEF Direction
<1>3. /\ \A k \in 1..Len(peer[d].got) : peer[d].got[k] = <<c, k>>
      /\ Len(peer[d].got) <= peer[s].read
      /\ peer[d].state # "gone" => Len(peer[d].got) = peer[s].read
  BY <1>1 DEF Direction, InOrder, Progress
<1>4. /\ peer' \in [Sockets -> Peer]
      /\ \A x \in Sockets : peer'[x].read <= Len(peer'[x].sends)
      /\ \A x \in Sockets \ {s, d} : peer'[x] = peer[x]
      /\ peer'[s].read = peer[s].read + 1 /\ peer'[s].got = peer[s].got
      /\ peer'[s].state = peer[s].state
      /\ peer'[d].read = peer[d].read /\ peer'[d].state = peer[d].state
      /\ \A k \in 1..Len(peer'[d].got) : peer'[d].got[k] = <<c, k>>
      /\ Len(peer'[d].got) <= peer[s].read + 1
      /\ peer[d].state # "gone" => Len(peer'[d].got) = peer[s].read + 1
  BY <1>1, <1>2, <1>3, Forwarding
<1>5. InOrder(c)'
  BY <1>1, <1>4 DEF InOrder, Direction
<1> QED
  BY <1>2, <1>4, <1>5

\* doit is left with size 0: at the end of a stream, or when a write fails.
LEMMA GivesUp ==
  ASSUME IInv, NEW c \in Conns, NEW pc \in Relay, At(c, pc), Leave(c, 0, Both(c)),
         \/ UNCHANGED peer
         \/ \E s, d : Direction(c, pc, s, d) /\ HasItem(s) /\ Forward(s, d),
         UNCHANGED <<file, arg, mutex, log, died>>
  PROVE  IInv'
<1>1. /\ thread' \in [Conns -> Thread]
      /\ \A k \in Conns \ {c} : thread'[k] = thread[k]
      /\ thread'[c].connfd = thread[c].connfd /\ thread'[c].serverfd = thread[c].serverfd
      /\ thread'[c].addr = thread[c].addr /\ thread'[c].url = thread[c].url
      /\ thread'[c].pc = "close" /\ thread'[c].size = 0
      /\ Closes(c)'
  BY Leaving
<1>2. /\ Types /\ Progress(c) /\ InOrder(c) /\ thread[c].url = c /\ thread[c].addr = c
  BY Connected DEF Progress, Relay
<1>3. /\ peer' \in [Sockets -> Peer]
      /\ \A x \in Sockets : peer'[x].read <= Len(peer'[x].sends)
      /\ \A x \in Sockets \ {Client(c), Server(c)} : peer'[x] = peer[x]
      /\ InOrder(c)'
  <2>1. CASE UNCHANGED peer
    BY <1>2, <2>1 DEF Types, InOrder, Client, Server
  <2>2. CASE \E s, d : Direction(c, pc, s, d) /\ HasItem(s) /\ Forward(s, d)
    BY <2>2, ForwardInOrder
  <2> QED
    BY <2>1, <2>2
<1>4. Progress(c)'
  BY <1>1, <1>2 DEF Progress, Early, Relay, Late
<1> QED
  BY <1>1, <1>3, <1>4, Streaming

\* In the loops of doit, a thread changes where it is, left and total.
Turns(c, left, total, pc) ==
  thread' = [thread EXCEPT ![c].left = left, ![c].total = total, ![c].pc = pc]

\* A turn of a copying loop changes the thread of its connection only.
LEMMA Looping ==
  ASSUME Types, NEW c \in Conns, NEW left \in Nat, NEW total \in Nat, NEW pc \in Relay,
         Turns(c, left, total, pc)
  PROVE  /\ thread' \in [Conns -> Thread]
         /\ \A k \in Conns \ {c} : thread'[k] = thread[k]
         /\ thread'[c].connfd = thread[c].connfd /\ thread'[c].serverfd = thread[c].serverfd
         /\ thread'[c].addr = thread[c].addr /\ thread'[c].url = thread[c].url
         /\ thread'[c].size = thread[c].size
         /\ thread'[c].left = left /\ thread'[c].total = total /\ thread'[c].pc = pc
<1>1. /\ \A k \in Conns \ {c} : thread'[k] = thread[k]
      /\ thread' = [k \in Conns |-> thread'[k]]
      /\ thread'[c] = [thread[c] EXCEPT !.left = left, !.total = total, !.pc = pc]
  BY DEF Types, Turns
<1>2. thread[c] \in Thread
  BY DEF Types
<1>3. /\ thread'[c] \in Thread
      /\ thread'[c].connfd = thread[c].connfd /\ thread'[c].serverfd = thread[c].serverfd
      /\ thread'[c].addr = thread[c].addr /\ thread'[c].url = thread[c].url
      /\ thread'[c].size = thread[c].size
      /\ thread'[c].left = left /\ thread'[c].total = total /\ thread'[c].pc = pc
  BY <1>1, <1>2 DEF Thread
<1> QED
  BY <1>1, <1>3, ThreadChanges

\* A step of a loop of doit that stays in doit
LEMMA LoopStep ==
  ASSUME IInv, NEW c \in Conns, NEW pc \in Relay, At(c, pc),
         NEW s, NEW d, Direction(c, pc, s, d), HasItem(s), Forward(s, d),
         NEW left \in Nat, NEW total \in Nat, NEW next \in Relay,
         Turns(c, left, total, next),
         \/ /\ pc \in {"headers", "body"} /\ next \in {"headers", "body"} /\ total = 0
            /\ next = "body" => left > 0
         \/ /\ pc \in {"headers", "body"} /\ next = "reply" /\ total = 0
         \/ /\ pc \in {"reply", "replybody"} /\ next \in {"reply", "replybody"}
            /\ next = "reply" => total = peer[s].read + 1
            /\ next = "replybody" => left > 0 /\ total = peer[s].read + 1 + left,
         UNCHANGED <<file, arg, mutex, log, died>>
  PROVE  IInv'
<1>1. /\ peer' \in [Sockets -> Peer]
      /\ \A x \in Sockets : peer'[x].read <= Len(peer'[x].sends)
      /\ \A x \in Sockets \ {Client(c), Server(c)} : peer'[x] = peer[x]
      /\ peer'[s].read = peer[s].read + 1 /\ peer'[s].got = peer[s].got
      /\ peer'[s].state = peer[s].state
      /\ peer'[d].read = peer[d].read /\ peer'[d].state = peer[d].state
      /\ peer[d].state # "gone" => Len(peer'[d].got) = peer[s].read + 1
      /\ InOrder(c)'
  BY ForwardInOrder
<1>2. Types /\ Progress(c) /\ thread[c].pc = pc /\ thread[c].url = c /\ thread[c].size = 0
  BY Connected
<1>3. /\ thread' \in [Conns -> Thread]
      /\ \A k \in Conns \ {c} : thread'[k] = thread[k]
      /\ thread'[c].connfd = thread[c].connfd /\ thread'[c].serverfd = thread[c].serverfd
      /\ thread'[c].addr = thread[c].addr /\ thread'[c].url = thread[c].url
      /\ thread'[c].size = thread[c].size
      /\ thread'[c].left = left /\ thread'[c].total = total /\ thread'[c].pc = next
  BY <1>2, Looping
<1>4. Progress(c)'
  <2>1. /\ thread'[c].url = c /\ thread'[c].addr = c /\ thread'[c].size = 0
        /\ next \notin {"none", "send", "done"} \cup Early \cup Late
    BY <1>2, <1>3 DEF Progress, Relay, Early, Late
  <2>2. /\ peer[Client(c)].read \in Nat /\ peer[Server(c)].read \in Nat
    BY <1>2, SocketFacts DEF Types, Peer
  <2>3. CASE pc \in {"headers", "body"} /\ next \in {"headers", "body"} /\ total = 0
    <3>1. /\ s = Client(c) /\ d = Server(c)
          /\ peer[Client(c)].got = <<>> /\ peer[Server(c)].read = 0
      BY <1>2, <2>3 DEF Direction, Progress
    <3> QED
      BY <1>1, <1>3, <2>1, <2>3, <3>1 DEF Progress
  <2>4. CASE pc \in {"headers", "body"} /\ next = "reply" /\ total = 0
    <3>1. /\ s = Client(c) /\ d = Server(c)
          /\ peer[Client(c)].got = <<>> /\ peer[Server(c)].read = 0
      BY <1>2, <2>4 DEF Direction, Progress
    <3> QED
      BY <1>1, <1>3, <2>1, <2>4, <3>1 DEF Progress
  <2>5. CASE pc \in {"reply", "replybody"} /\ next \in {"reply", "replybody"}
    <3>1. s = Server(c) /\ d = Client(c)
      BY <2>5 DEF Direction
    <3> QED
      BY <1>1, <1>3, <2>1, <2>5, <3>1 DEF Progress
  <2> QED
    BY <2>3, <2>4, <2>5
<1> QED
  BY <1>1, <1>2, <1>3, <1>4, Streaming

\* What a line says of the length of the body is a number.
LEMMA LengthType ==
  ASSUME Types, NEW c \in Conns, NEW s \in Sockets, HasItem(s)
  PROVE  Length(c, s) \in Nat /\ thread[c].left \in Nat
<1>1. NextItem(s) \in Item
  BY ItemRead
<1>2. thread[c] \in Thread
  BY DEF Types
<1> QED
  BY <1>1, <1>2 DEF Item, Thread, Length

\* The header lines of the request
LEMMA HeadersStep ==
  ASSUME IInv, NEW c \in Conns, Headers(c)
  PROVE  IInv'
<1>1. At(c, "headers") /\ "headers" \in Relay /\ UNCHANGED <<file, arg, mutex, log, died>>
  BY DEF Headers, Relay
<1>2. /\ Cfd(c) = Client(c) /\ Sfd(c) = Server(c) /\ thread[c].pc = "headers"
      /\ Types /\ Progress(c)
  BY <1>1, Connected
<1> DEFINE s == Client(c)
           d == Server(c)
<1>3. Direction(c, "headers", s, d) /\ s \in Sockets
  BY SocketFacts DEF Direction
<1>4. CASE EOF(s) /\ Leave(c, 0, Both(c)) /\ UNCHANGED peer
  BY <1>1, <1>4, GivesUp
<1>5. CASE HasItem(s) /\ WriteFails(d) /\ Forward(s, d) /\ Leave(c, 0, Both(c))
  BY <1>1, <1>3, <1>5, GivesUp
<1>6. CASE /\ HasItem(s) /\ Forward(s, d)
           /\ thread' = [thread EXCEPT
                           ![c].left = Length(c, s),
                           ![c].pc = IF NextItem(s).kind # "blank" THEN @
                                     ELSE IF Length(c, s) > 0 THEN "body" ELSE "reply"]
  <2> DEFINE left == Length(c, s)
             next == IF NextItem(s).kind # "blank" THEN "headers"
                     ELSE IF left > 0 THEN "body" ELSE "reply"
  <2>1. left \in Nat
    BY <1>2, <1>3, <1>6, LengthType
  <2>2. /\ next \in {"headers", "body", "reply"} /\ next \in Relay
        /\ next = "body" => left > 0
    BY DEF Relay
  <2>3. thread \in [Conns -> Thread] /\ thread[c] \in Thread /\ thread[c].total = 0
    BY <1>2 DEF Types, Progress
  <2>4. Turns(c, left, 0, next)
    BY <1>2, <1>6, <2>3 DEF Thread, Turns
  <2> HIDE DEF left, next
  <2>5. \/ next \in {"headers", "body"} /\ (next = "body" => left > 0)
        \/ next = "reply"
    BY <2>2
  <2> QED
    BY <1>1, <1>3, <1>6, <2>1, <2>2, <2>4, <2>5, LoopStep
<1> QED
  BY <1>2, <1>4, <1>5, <1>6 DEF Headers

\* A byte of the body of the request
LEMMA BodyStep ==
  ASSUME IInv, NEW c \in Conns, Body(c)
  PROVE  IInv'
<1>1. At(c, "body") /\ "body" \in Relay /\ UNCHANGED <<file, arg, mutex, log, died>>
  BY DEF Body, Relay
<1>2. /\ Cfd(c) = Client(c) /\ Sfd(c) = Server(c) /\ thread[c].pc = "body"
      /\ Types /\ Progress(c)
  BY <1>1, Connected
<1> DEFINE s == Client(c)
           d == Server(c)
<1>3. Direction(c, "body", s, d) /\ s \in Sockets
  BY SocketFacts DEF Direction
<1>4. CASE EOF(s) /\ Leave(c, 0, Both(c)) /\ UNCHANGED peer
  BY <1>1, <1>4, GivesUp
<1>5. CASE HasItem(s) /\ WriteFails(d) /\ Forward(s, d) /\ Leave(c, 0, Both(c))
  BY <1>1, <1>3, <1>5, GivesUp
<1>6. CASE /\ HasItem(s) /\ Forward(s, d)
           /\ thread' = [thread EXCEPT ![c].left = @ - 1,
                                       ![c].pc = IF thread[c].left = 1 THEN "reply" ELSE @]
  <2> DEFINE left == thread[c].left - 1
             next == IF thread[c].left = 1 THEN "reply" ELSE "body"
  <2>1. /\ thread \in [Conns -> Thread] /\ thread[c] \in Thread
        /\ thread[c].total = 0 /\ thread[c].left > 0
    BY <1>2 DEF Types, Progress
  <2>2. left \in Nat
    BY <2>1 DEF Thread
  <2>3. next \in Relay /\ (next = "reply" \/ (next = "body" /\ left > 0))
    BY <2>1, <2>2 DEF Relay, Thread
  <2>4. Turns(c, left, 0, next)
    BY <1>2, <1>6, <2>1 DEF Thread, Turns
  <2> HIDE DEF left, next
  <2> QED
    BY <1>1, <1>3, <1>6, <2>2, <2>3, <2>4, LoopStep
<1> QED
  BY <1>2, <1>4, <1>5, <1>6 DEF Body

\* doit is left with the size of the whole reply, which the client has got.
LEMMA Completes ==
  ASSUME IInv, NEW c \in Conns, NEW pc \in {"reply", "replybody"}, At(c, pc),
         HasItem(Server(c)), Forward(Server(c), Client(c)),
         NEW size \in Nat, size = peer[Server(c)].read + 1,
         Leave(c, size, <<thread[c].serverfd, thread[c].connfd>>),
         UNCHANGED <<file, arg, mutex, log, died>>
  PROVE  IInv'
<1>1. pc \in Relay /\ Direction(c, pc, Server(c), Client(c))
  BY DEF Relay, Direction
<1>2. /\ thread' \in [Conns -> Thread]
      /\ \A k \in Conns \ {c} : thread'[k] = thread[k]
      /\ thread'[c].connfd = thread[c].connfd /\ thread'[c].serverfd = thread[c].serverfd
      /\ thread'[c].addr = thread[c].addr /\ thread'[c].url = thread[c].url
      /\ thread'[c].pc = "close" /\ thread'[c].size = size
      /\ Closes(c)'
  BY <1>1, Leaving
<1>3. Types /\ Progress(c) /\ thread[c].url = c /\ thread[c].addr = c
  BY <1>1, Connected DEF Progress
<1>4. /\ peer' \in [Sockets -> Peer]
      /\ \A x \in Sockets : peer'[x].read <= Len(peer'[x].sends)
      /\ \A x \in Sockets \ {Client(c), Server(c)} : peer'[x] = peer[x]
      /\ peer'[Server(c)].read = size
      /\ peer'[Client(c)].state = peer[Client(c)].state
      /\ peer[Client(c)].state # "gone" => Len(peer'[Client(c)].got) = size
      /\ InOrder(c)'
  BY <1>1, ForwardInOrder
<1>5. Progress(c)'
  BY <1>2, <1>3, <1>4 DEF Progress, Early, Relay, Late
<1> QED
  BY <1>1, <1>2, <1>4, <1>5, Streaming

\* A line of the reply
LEMMA ReplyHeadersStep ==
  ASSUME IInv, NEW c \in Conns, ReplyHeaders(c)
  PROVE  IInv'
<1>1. At(c, "reply") /\ "reply" \in Relay /\ UNCHANGED <<file, arg, mutex, log, died>>
  BY DEF ReplyHeaders, Relay
<1>2. /\ Cfd(c) = Client(c) /\ Sfd(c) = Server(c) /\ thread[c].pc = "reply"
      /\ Types /\ Progress(c)
  BY <1>1, Connected
<1> DEFINE s == Server(c)
           d == Client(c)
           total == thread[c].total + 1
<1>3. Direction(c, "reply", s, d) /\ s \in Sockets
  BY SocketFacts DEF Direction
<1>4. /\ thread \in [Conns -> Thread] /\ thread[c] \in Thread /\ peer[s] \in Peer
      /\ total = peer[s].read + 1 /\ total \in Nat
  <2>1. thread \in [Conns -> Thread] /\ peer[s] \in Peer
    BY <1>2, <1>3 DEF Types
  <2>2. thread[c].total = peer[s].read
    BY <1>2 DEF Progress
  <2>3. thread[c] \in Thread /\ thread[c].total \in Nat
    BY <2>1 DEF Thread
  <2> QED
    BY <2>1, <2>2, <2>3
<1>5. CASE EOF(s) /\ Leave(c, 0, Both(c)) /\ UNCHANGED peer
  BY <1>1, <1>5, GivesUp
<1>6. CASE /\ HasItem(s) /\ Forward(s, d)
           /\ thread' = [thread EXCEPT ![c].left = Length(c, s), ![c].total = total]
  <2> DEFINE left == Length(c, s)
  <2>1. left \in Nat
    BY <1>2, <1>3, <1>6, LengthType
  <2>2. Turns(c, left, total, "reply")
    BY <1>2, <1>6, <1>4 DEF Thread, Turns
  <2> HIDE DEF left
  <2> QED
    BY <1>1, <1>3, <1>4, <1>6, <2>1, <2>2, LoopStep
<1>7. CASE /\ HasItem(s) /\ Forward(s, d) /\ thread[c].left > 0
           /\ thread' = [thread EXCEPT ![c].pc = "replybody",
                                       ![c].total = total + thread[c].left]
  <2> DEFINE left == thread[c].left
             whole == total + left
  <2>1. left \in Nat /\ whole \in Nat /\ whole = peer[s].read + 1 + left /\ left > 0
    <3>1. left \in Nat /\ left > 0 /\ total \in Nat /\ total = peer[s].read + 1
      BY <1>4, <1>7 DEF Thread
    <3> HIDE DEF left, total
    <3> QED
      BY ONLY <3>1 DEF whole
  <2>2. Turns(c, left, whole, "replybody") /\ "replybody" \in Relay
    BY <1>2, <1>7, <1>4 DEF Thread, Turns, Relay
  <2> HIDE DEF left, whole
  <2> QED
    BY <1>1, <1>3, <1>7, <2>1, <2>2, LoopStep
<1>8. CASE /\ HasItem(s) /\ Forward(s, d)
           /\ Leave(c, total, <<thread[c].serverfd, thread[c].connfd>>)
  BY <1>1, <1>4, <1>8, Completes
<1> QED
  BY <1>2, <1>5, <1>6, <1>7, <1>8 DEF ReplyHeaders

\* A byte of the body of the reply
LEMMA ReplyBodyStep ==
  ASSUME IInv, NEW c \in Conns, ReplyBody(c)
  PROVE  IInv'
<1>1. /\ At(c, "replybody") /\ "replybody" \in Relay
      /\ UNCHANGED <<file, arg, mutex, log, died>>
  BY DEF ReplyBody, Relay
<1>2. /\ Cfd(c) = Client(c) /\ Sfd(c) = Server(c) /\ thread[c].pc = "replybody"
      /\ Types /\ Progress(c)
  BY <1>1, Connected
<1> DEFINE s == Server(c)
           d == Client(c)
           total == thread[c].total
<1>3. Direction(c, "replybody", s, d) /\ s \in Sockets
  BY SocketFacts DEF Direction
<1>4. /\ thread \in [Conns -> Thread] /\ thread[c] \in Thread /\ peer[s] \in Peer
      /\ total = peer[s].read + thread[c].left /\ total \in Nat
      /\ thread[c].left \in Nat /\ thread[c].left > 0 /\ peer[s].read \in Nat
  BY <1>2, <1>3 DEF Types, Progress, Thread, Peer
<1>5. CASE EOF(s) /\ Leave(c, 0, Both(c)) /\ UNCHANGED peer
  BY <1>1, <1>5, GivesUp
<1>6. CASE HasItem(s) /\ WriteFails(d) /\ Forward(s, d) /\ Leave(c, 0, Both(c))
  BY <1>1, <1>3, <1>6, GivesUp
<1>7. CASE /\ HasItem(s) /\ Forward(s, d) /\ thread[c].left > 1
           /\ thread' = [thread EXCEPT ![c].left = @ - 1]
  <2> DEFINE left == thread[c].left - 1
  <2>1. left \in Nat /\ left > 0 /\ total = peer[s].read + 1 + left
    BY <1>4, <1>7
  <2>2. Turns(c, left, total, "replybody")
    BY <1>2, <1>7, <1>4 DEF Thread, Turns
  <2> HIDE DEF left, total
  <2> QED
    BY <1>1, <1>3, <1>4, <1>7, <2>1, <2>2, LoopStep
<1>8. CASE /\ HasItem(s) /\ Forward(s, d) /\ thread[c].left <= 1
           /\ Leave(c, total, <<thread[c].serverfd, thread[c].connfd>>)
  <2>1. total = peer[s].read + 1
    BY <1>4, <1>8
  <2> QED
    BY <1>1, <1>4, <1>8, <2>1, Completes
<1> QED
  BY <1>2, <1>5, <1>6, <1>7, <1>8 DEF ReplyBody

\* The process ends.
LEMMA ExitStep ==
  ASSUME IInv, NEW why \in {"accept", "connect"}, Exit(why)
  PROVE  IInv'
<1> USE NoneFacts
<1>1. /\ file' = [f \in FDs |-> None] /\ arg' = [a \in Args |-> None]
      /\ thread' = [c \in Conns |-> Locals] /\ mutex' = 1 /\ died' = why
      /\ peer' = peer /\ log' = log
  BY DEF Exit
<1>2. Locals \in Thread
  BY DEF Locals, Thread
<1>3. Types'
  BY <1>1, <1>2 DEF IInv, Types
<1>4. \A c \in Conns : InOrder(c)'
  BY <1>1 DEF IInv, InOrder, Client, Server
<1>5. \A e \in log' : Logged(e)'
  BY <1>1 DEF IInv, Logged, Client, Server
<1> QED
  BY <1>1, <1>3, <1>4, <1>5 DEF IInv, Ended

\* Malloc, Accept and Pthread_create
LEMMA AcceptStep ==
  ASSUME IInv, NEW c \in Conns, NEW request \in Requests, Accept(c, request)
  PROVE  IInv'
<1> USE NoneFacts, SocketFacts
<1>1. /\ died = "no" /\ thread[c].pc = "none" /\ Types /\ Running
      /\ Position(c) /\ Progress(c) /\ InOrder(c)
  BY DEF Accept, IInv, Running
<1>2. NextFD \in FDs /\ file[NextFD] = None
  BY FreeFD DEF Accept
<1>3. PICK a \in Args :
        /\ arg[a] = None
        /\ arg' = [arg EXCEPT ![a] = [conn |-> c, connfd |-> NextFD]]
        /\ thread' = [thread EXCEPT ![c].pc = "start", ![c].vargp = a]
  BY DEF Accept
<1>4. /\ file' = [file EXCEPT ![NextFD] = Client(c)]
      /\ peer' = [peer EXCEPT ![Client(c)].state = "open", ![Client(c)].sends = request]
      /\ UNCHANGED <<mutex, log, died>>
  BY DEF Accept
<1>5. /\ thread' \in [Conns -> Thread]
      /\ \A k \in Conns \ {c} : thread'[k] = thread[k]
      /\ thread'[c].pc = "start" /\ thread'[c].vargp = a
      /\ thread'[c].connfd = None /\ thread'[c].serverfd = None
      /\ thread'[c].url = thread[c].url /\ thread'[c].size = 0 /\ thread'[c].total = 0
  <2>1. /\ \A k \in Conns \ {c} : thread'[k] = thread[k]
        /\ thread' = [k \in Conns |-> thread'[k]]
        /\ thread'[c] = [thread[c] EXCEPT !.pc = "start", !.vargp = a]
    BY <1>1, <1>3 DEF Types
  <2>2. /\ thread[c] \in Thread /\ thread[c].connfd = None /\ thread[c].serverfd = None
        /\ thread[c].size = 0 /\ thread[c].total = 0
    BY <1>1 DEF Types, Position, Progress
  <2>3. /\ thread'[c] \in Thread
        /\ thread'[c].pc = "start" /\ thread'[c].vargp = a
        /\ thread'[c].connfd = None /\ thread'[c].serverfd = None
        /\ thread'[c].url = thread[c].url /\ thread'[c].size = 0 /\ thread'[c].total = 0
    BY <2>1, <2>2 DEF Thread, Early
  <2> QED
    BY <1>1, <2>1, <2>3, ThreadChanges
<1>6. /\ peer' \in [Sockets -> Peer]
      /\ \A s \in Sockets : peer'[s].read <= Len(peer'[s].sends)
      /\ \A s \in Sockets \ {Client(c)} : peer'[s] = peer[s]
      /\ peer'[Client(c)].read = 0 /\ peer'[Client(c)].got = <<>>
      /\ peer[Server(c)] = Silent /\ peer'[Server(c)] = Silent
  <2>1. peer[Client(c)] = Silent /\ peer[Server(c)] = Silent /\ request \in Seq(Item)
    BY <1>1, ProxyAssumption DEF Progress
  <2>2. Opens(Client(c), request)
    BY <1>4 DEF Opens
  <2> QED
    BY <1>1, <2>1, <2>2, PeerOpens
<1>7. /\ file' \in [FDs -> Sockets \cup {None}] /\ file'[NextFD] = Client(c)
      /\ \A f \in FDs \ {NextFD} : file'[f] = file[f]
  BY <1>1, <1>2, <1>4 DEF Types
<1>8. /\ arg' \in [Args -> Struct \cup {None}]
      /\ arg'[a] \in Struct /\ arg'[a].conn = c /\ arg'[a].connfd = NextFD
      /\ \A b \in Args \ {a} : arg'[b] = arg[b]
  BY <1>1, <1>2, <1>3 DEF Types, Struct
<1>9. OnlyOf(c)
  BY <1>1, <1>2, <1>3, <1>4, <1>5, <1>6, <1>7, <1>8 DEF OnlyOf
<1>10. Types'
  BY <1>1, <1>4, <1>5, <1>6, <1>7, <1>8 DEF Types
<1>11. Position(c)'
  BY <1>5, <1>7, <1>8 DEF Position, Relay
<1>12. Progress(c)'
  BY <1>1, <1>5, <1>6 DEF Progress, Early, Relay, Late, Silent
<1>13. InOrder(c)'
  BY <1>6 DEF InOrder, Silent
<1>14. \A f \in FDs : file'[f] # None /\ file'[f].conn = c => f \in Holds(c)'
  <2>1. Holds(c) = {}
    BY <1>1 DEF Holds, Position
  <2>2. Holds(c)' = {NextFD}
    BY <1>5, <1>8 DEF Holds
  <2> QED
    BY <1>1, <1>7, <2>1, <2>2 DEF Running, FilesOwned
<1>15. \A b \in Args : arg'[b] # None /\ arg'[b].conn = c =>
                         thread'[c].pc = "start" /\ thread'[c].vargp = b
  BY <1>1, <1>5, <1>8 DEF Running, ArgsOwned
<1>16. MutexHeld'
  <2>1. \A k \in Conns : thread'[k].pc = "print" <=> thread[k].pc = "print"
    BY <1>1, <1>5
  <2> QED
    BY <1>1, <1>4, <2>1 DEF Running, MutexHeld
<1> QED
  BY <1>4, <1>9, <1>10, <1>11, <1>12, <1>13, <1>14, <1>15, <1>16, Local

\* thread copies its argument and frees it.
LEMMA StartStep ==
  ASSUME IInv, NEW c \in Conns, Start(c)
  PROVE  IInv'
<1> USE NoneFacts, SocketFacts
<1> DEFINE a == thread[c].vargp
<1>1. /\ died = "no" /\ thread[c].pc = "start" /\ Types /\ Running
      /\ Position(c) /\ Progress(c) /\ InOrder(c)
  BY DEF Start, At, IInv, Running
<1>2. /\ a \in Args /\ arg[a] \in Struct /\ arg[a].conn = c /\ arg[a].connfd \in FDs
      /\ file[arg[a].connfd] = Client(c)
  BY <1>1 DEF Types, Position, Struct
<1>3. /\ thread' = [thread EXCEPT ![c].pc = "line", ![c].vargp = None,
                                  ![c].connfd = arg[a].connfd, ![c].addr = arg[a].conn]
      /\ arg' = [arg EXCEPT ![a] = None]
      /\ UNCHANGED <<file, peer, mutex, log, died>>
  BY DEF Start
<1>4. /\ thread' \in [Conns -> Thread]
      /\ \A k \in Conns \ {c} : thread'[k] = thread[k]
      /\ thread'[c].pc = "line" /\ thread'[c].addr = c
      /\ thread'[c].connfd = arg[a].connfd /\ thread'[c].serverfd = None
      /\ thread'[c].url = thread[c].url /\ thread'[c].size = 0 /\ thread'[c].total = 0
  <2>1. /\ \A k \in Conns \ {c} : thread'[k] = thread[k]
        /\ thread' = [k \in Conns |-> thread'[k]]
        /\ thread'[c] = [thread[c] EXCEPT !.pc = "line", !.vargp = None,
                                          !.connfd = arg[a].connfd, !.addr = arg[a].conn]
    BY <1>1, <1>3 DEF Types
  <2>2. /\ thread[c] \in Thread /\ thread[c].serverfd = None
        /\ thread[c].size = 0 /\ thread[c].total = 0
    BY <1>1 DEF Types, Position, Progress, Early
  <2>3. /\ thread'[c] \in Thread
        /\ thread'[c].pc = "line" /\ thread'[c].addr = c
        /\ thread'[c].connfd = arg[a].connfd /\ thread'[c].serverfd = None
        /\ thread'[c].url = thread[c].url /\ thread'[c].size = 0 /\ thread'[c].total = 0
    <3>1. thread'[c] \in Thread
      <4> DEFINE t1 == [thread[c] EXCEPT !.pc = "line"]
                 t2 == [t1 EXCEPT !.vargp = None]
                 t3 == [t2 EXCEPT !.connfd = arg[a].connfd]
      <4>1. thread'[c] = [t3 EXCEPT !.addr = arg[a].conn]
        BY <2>1
      <4>2. t1 \in Thread
        BY <2>2, Zenon DEF Thread, Early
      <4> HIDE DEF t1
      <4>3. t2 \in Thread
        BY <4>2 DEF Thread
      <4> HIDE DEF t2
      <4>4. t3 \in Thread
        BY <1>2, <4>3 DEF Thread
      <4> HIDE DEF t3
      <4> QED
        BY <1>2, <4>1, <4>4 DEF Thread
    <3>2. /\ thread'[c].pc = "line" /\ thread'[c].addr = c
          /\ thread'[c].connfd = arg[a].connfd /\ thread'[c].serverfd = None
          /\ thread'[c].url = thread[c].url /\ thread'[c].size = 0 /\ thread'[c].total = 0
      BY <1>2, <2>1, <2>2 DEF Thread, Early
    <3> QED
      BY <3>1, <3>2
  <2> QED
    BY <1>1, <2>1, <2>3, ThreadChanges
<1>5. /\ arg' \in [Args -> Struct \cup {None}]
      /\ arg'[a] = None /\ \A b \in Args \ {a} : arg'[b] = arg[b]
  BY <1>1, <1>2, <1>3 DEF Types
<1> HIDE DEF a
<1>6. OnlyOf(c)
  BY <1>1, <1>2, <1>3, <1>4, <1>5 DEF OnlyOf
<1>7. Types'
  BY <1>1, <1>3, <1>4, <1>5 DEF Types
<1>8. Position(c)'
  BY <1>2, <1>3, <1>4 DEF Position, Relay
<1>9. Progress(c)' /\ InOrder(c)'
  BY <1>1, <1>3, <1>4 DEF Progress, InOrder, Early, Relay, Late
<1>10. Holds(c)' = Holds(c)
  BY <1>1, <1>2, <1>4 DEF Holds, a
<1>11. \A f \in FDs : file'[f] # None /\ file'[f].conn = c => f \in Holds(c)'
  BY <1>1, <1>3, <1>10 DEF Running, FilesOwned
<1>12. \A b \in Args : arg'[b] # None /\ arg'[b].conn = c =>
                         thread'[c].pc = "start" /\ thread'[c].vargp = b
  BY <1>1, <1>5 DEF Running, ArgsOwned, a
<1>13. MutexHeld'
  <2>1. \A k \in Conns : thread'[k].pc = "print" <=> thread[k].pc = "print"
    BY <1>1, <1>4
  <2> QED
    BY <1>1, <1>3, <2>1 DEF Running, MutexHeld
<1> QED
  BY <1>3, <1>6, <1>7, <1>8, <1>9, <1>11, <1>12, <1>13, Local

\* The request line: an item of the client is read, and doit goes on or is left.
LEMMA RequestLineStep ==
  ASSUME IInv, NEW c \in Conns, RequestLine(c)
  PROVE  IInv'
<1> USE NoneFacts, SocketFacts
<1> DEFINE s == Client(c)
<1>1. /\ At(c, "line") /\ thread[c].pc = "line" /\ Types
      /\ Position(c) /\ Progress(c) /\ InOrder(c)
  BY DEF RequestLine, At, IInv, Running
<1>2. /\ thread[c].connfd \in FDs /\ thread[c].serverfd = None /\ Cfd(c) = s
      /\ thread[c] \in Thread
  BY <1>1 DEF Position, Types, Thread, Cfd
<1>3. UNCHANGED <<file, arg, mutex, log, died>>
  BY DEF RequestLine
<1>4. \/ UNCHANGED peer
      \/ HasItem(s) /\ peer' = [peer EXCEPT ![s].read = @ + 1]
  BY <1>2 DEF RequestLine
<1>5. /\ peer' \in [Sockets -> Peer]
      /\ \A x \in Sockets \ {s} : peer'[x] = peer[x]
      /\ \A x \in Sockets : peer'[x].read <= Len(peer'[x].sends)
      /\ peer'[s].got = <<>> /\ peer[s].got = <<>>
      /\ peer'[s].read \in {0, 1}
  <2>1. CASE peer' = peer
    BY <1>1, <2>1 DEF Types, Progress, Early
  <2>2. CASE HasItem(s) /\ peer' = [peer EXCEPT ![s].read = @ + 1]
    <3>1. /\ \A x \in Sockets \ {s} : peer'[x] = peer[x]
          /\ peer' = [x \in Sockets |-> peer'[x]]
          /\ peer'[s] = [peer[s] EXCEPT !.read = @ + 1]
      BY <1>1, <2>2 DEF Types
    <3>2. peer[s] \in Peer /\ peer[s].read = 0 /\ peer[s].got = <<>>
      BY <1>1 DEF Types, Progress, Early
    <3>3. /\ peer'[s] \in Peer /\ peer'[s].read = 1
          /\ peer'[s].sends = peer[s].sends /\ peer'[s].got = <<>>
      BY <3>1, <3>2, PeerReads
    <3>4. peer'[s].read <= Len(peer'[s].sends)
      BY <1>1, <2>2, <3>2, <3>3, ItemRead
    <3> QED
      BY <1>1, <3>1, <3>2, <3>3, <3>4, PeerChanges
  <2> QED
    BY <1>4, <2>1, <2>2
<1>6. InOrder(c)'
  BY <1>1, <1>5 DEF InOrder, Progress, Early
<1> DEFINE fds == <<thread[c].connfd>>
<1>7. CASE \/ Leave(c, 0, fds)
           \/ thread' = [thread EXCEPT ![c].pc = "close", ![c].url = c, ![c].closing = fds]
  <2>1. fds \in Seq(FDs)
    BY <1>2, ClosesType
  <2>2. /\ \A k \in Conns \ {c} : thread'[k] = thread[k]
        /\ thread' = [k \in Conns |-> thread'[k]]
        /\ \/ thread'[c] = [thread[c] EXCEPT !.pc = "close", !.size = 0, !.closing = fds]
           \/ thread'[c] = [thread[c] EXCEPT !.pc = "close", !.url = c, !.closing = fds]
    BY <1>1, <1>7 DEF Types, Leave
  <2>3. thread[c].size = 0 /\ thread[c].addr = c /\ thread[c].url \in {c, None}
    BY <1>1 DEF Progress, Early
  <2> HIDE DEF fds
  <2>4. /\ thread'[c] \in Thread /\ thread'[c].pc = "close" /\ thread'[c].size = 0
        /\ thread'[c].closing = fds
        /\ thread'[c].connfd = thread[c].connfd /\ thread'[c].serverfd = None
        /\ thread'[c].addr = c /\ thread'[c].url \in {c, None}
    <3>1. CASE thread'[c] = [thread[c] EXCEPT !.pc = "close", !.size = 0, !.closing = fds]
      <4>1. thread'[c] \in Thread
        <5> DEFINE t1 == [thread[c] EXCEPT !.pc = "close"]
                   t2 == [t1 EXCEPT !.size = 0]
        <5>1. thread'[c] = [t2 EXCEPT !.closing = fds]
          BY <3>1
        <5>2. t1 \in Thread
          BY <1>2 DEF Thread, Late
        <5> HIDE DEF t1
        <5>3. t2 \in Thread
          BY <5>2 DEF Thread
        <5> HIDE DEF t2
        <5> QED
          BY <2>1, <5>1, <5>3 DEF Thread
      <4> QED
        BY <1>2, <2>1, <2>3, <3>1, <4>1 DEF Thread
    <3>2. CASE thread'[c] = [thread[c] EXCEPT !.pc = "close", !.url = c, !.closing = fds]
      <4>1. thread'[c] \in Thread
        <5> DEFINE t1 == [thread[c] EXCEPT !.pc = "close"]
                   t2 == [t1 EXCEPT !.url = c]
        <5>1. thread'[c] = [t2 EXCEPT !.closing = fds]
          BY <3>2
        <5>2. t1 \in Thread
          BY <1>2 DEF Thread, Late
        <5> HIDE DEF t1
        <5>3. t2 \in Thread
          BY <5>2 DEF Thread
        <5> HIDE DEF t2
        <5> QED
          BY <2>1, <5>1, <5>3 DEF Thread
      <4> QED
        BY <1>2, <2>1, <2>3, <3>2, <4>1 DEF Thread
    <3> QED
      BY <2>2, <3>1, <3>2
  <2>5. Closes(c)'
    BY <1>2, <2>4 DEF Closes, fds
  <2>6. Progress(c)'
    BY <2>4 DEF Progress, Early, Relay, Late
  <2>7. thread' \in [Conns -> Thread]
    BY <1>1, <2>2, <2>4, ThreadChanges
  <2> QED
    BY <1>1, <1>2, <1>3, <1>5, <1>6, <2>2, <2>4, <2>5, <2>6, <2>7, Streaming
<1>8. CASE \E n \in 0..MaxAddrs :
             /\ peer' = [peer EXCEPT ![s].read = @ + 1]
             /\ HasItem(s)
             /\ thread' = [thread EXCEPT ![c].pc = "socket", ![c].url = c, ![c].addrs = n]
  <2>1. PICK n \in 0..MaxAddrs :
          thread' = [thread EXCEPT ![c].pc = "socket", ![c].url = c, ![c].addrs = n]
    BY <1>8
  <2>2. /\ \A k \in Conns \ {c} : thread'[k] = thread[k]
        /\ thread' = [k \in Conns |-> thread'[k]]
        /\ thread'[c] = [thread[c] EXCEPT !.pc = "socket", !.url = c, !.addrs = n]
    BY <1>1, <2>1 DEF Types
  <2>3. /\ thread[c].size = 0 /\ thread[c].addr = c /\ thread[c].total = 0
        /\ peer[Server(c)] = Silent
    BY <1>1 DEF Progress, Early
  <2>4. /\ thread'[c] \in Thread /\ thread'[c].pc = "socket" /\ thread'[c].size = 0
        /\ thread'[c].connfd = thread[c].connfd /\ thread'[c].serverfd = None
        /\ thread'[c].addr = c /\ thread'[c].url = c /\ thread'[c].total = 0
    <3>1. thread'[c] \in Thread
      BY <1>2, <2>2, <2>3, Zenon DEF Thread, Early
    <3>2. /\ thread'[c].pc = "socket" /\ thread'[c].size = 0
          /\ thread'[c].connfd = thread[c].connfd /\ thread'[c].serverfd = None
          /\ thread'[c].addr = c /\ thread'[c].url = c /\ thread'[c].total = 0
      BY <1>2, <2>2, <2>3 DEF Thread, Early
    <3> QED
      BY <3>1, <3>2
  <2>5. peer'[s].read = 1
    <3>1. peer[s] \in Peer /\ peer[s].read = 0 /\ peer'[s] = [peer[s] EXCEPT !.read = @ + 1]
      BY <1>1, <1>8 DEF Types, Progress
    <3> QED
      BY <3>1, PeerReads
  <2>6. Progress(c)'
    BY <1>5, <2>3, <2>4, <2>5 DEF Progress, Early, Relay, Late, Silent
  <2>7. thread' \in [Conns -> Thread]
    BY <1>1, <2>2, <2>4, ThreadChanges
  <2> QED
    BY <1>1, <1>2, <1>3, <1>5, <1>6, <2>2, <2>4, <2>6, <2>7, Streaming
<1> QED
  BY <1>2, <1>7, <1>8 DEF RequestLine, Client

(***************************************************************************)
(* A step of c that changes its locals and its descriptors and no stream.  *)
(***************************************************************************)
LEMMA StreamsStay ==
  ASSUME IInv, NEW c \in Conns, died = "no", UNCHANGED <<arg, peer, mutex, log, died>>,
         thread[c].pc \in {"socket", "connect", "close"},
         thread'[c].pc \in {"socket", "connect", "close", "lock"},
         thread' \in [Conns -> Thread],
         \A k \in Conns \ {c} : thread'[k] = thread[k],
         file' \in [FDs -> Sockets \cup {None}],
         \A f \in FDs : file'[f] = file[f] \/ /\ file[f] = None \/ file[f].conn = c
                                              /\ file'[f] = None \/ file'[f].conn = c,
         \A f \in FDs : file'[f] # None /\ file'[f].conn = c =>
                          f \in {thread'[c].connfd, thread'[c].serverfd},
         Position(c)', Progress(c)'
  PROVE  IInv'
<1> USE NoneFacts
<1>1. Types /\ Running /\ InOrder(c)
  BY DEF IInv
<1>2. OnlyOf(c)
  BY DEF OnlyOf
<1>3. Types'
  BY <1>1 DEF Types
<1>4. InOrder(c)'
  BY <1>1 DEF InOrder, Client, Server
<1>5. \A f \in FDs : file'[f] # None /\ file'[f].conn = c => f \in Holds(c)'
  BY DEF Holds
<1>6. \A a \in Args : arg'[a] # None /\ arg'[a].conn = c =>
                        thread'[c].pc = "start" /\ thread'[c].vargp = a
  BY <1>1 DEF Running, ArgsOwned
<1>7. MutexHeld'
  <2>1. \A k \in Conns : thread'[k].pc = "print" <=> thread[k].pc = "print"
    OBVIOUS
  <2> QED
    BY <1>1, <2>1 DEF Running, MutexHeld
<1> QED
  BY <1>2, <1>3, <1>4, <1>5, <1>6, <1>7, Local

\* Where a thread is in Open_clientfd
LEMMA Opening ==
  ASSUME IInv, NEW c \in Conns, NEW pc \in {"socket", "connect"}, At(c, pc)
  PROVE  /\ thread[c].pc = pc /\ died = "no" /\ Types
         /\ Position(c) /\ Progress(c) /\ InOrder(c)
         /\ thread \in [Conns -> Thread] /\ thread[c] \in Thread
         /\ thread[c].connfd \in FDs /\ file[thread[c].connfd] = Client(c)
         /\ thread[c].url = c /\ thread[c].addr = c
         /\ thread[c].size = 0 /\ thread[c].total = 0
         /\ peer[Server(c)] = Silent /\ peer[Client(c)].read = 1 /\ peer[Client(c)].got = <<>>
         /\ \A f \in FDs : file[f] # None /\ file[f].conn = c =>
                             f \in {thread[c].connfd, thread[c].serverfd}
<1>1. /\ thread[c].pc = pc /\ died = "no" /\ Types
      /\ Position(c) /\ Progress(c) /\ InOrder(c) /\ FilesOwned
  BY DEF IInv, Running, At
<1>2. thread \in [Conns -> Thread] /\ thread[c] \in Thread
  BY <1>1 DEF Types
<1>3. thread[c].connfd \in FDs /\ file[thread[c].connfd] = Client(c)
  BY <1>1, <1>2 DEF Position, Thread
<1>4. /\ thread[c].url = c /\ thread[c].addr = c
      /\ thread[c].size = 0 /\ thread[c].total = 0
      /\ peer[Server(c)] = Silent /\ peer[Client(c)].read = 1 /\ peer[Client(c)].got = <<>>
  BY <1>1 DEF Progress, Early
<1>5. \A f \in FDs : file[f] # None /\ file[f].conn = c =>
                       f \in {thread[c].connfd, thread[c].serverfd}
  BY <1>1 DEF FilesOwned, Holds
<1> QED
  BY <1>1, <1>2, <1>3, <1>4, <1>5

\* The locals of a thread in Open_clientfd after a step of it
LEMMA OpeningChanges ==
  ASSUME IInv, NEW c \in Conns, NEW pc \in {"socket", "connect"}, At(c, pc),
         thread'[c] \in Thread, thread' = [k \in Conns |-> thread'[k]],
         \A k \in Conns \ {c} : thread'[k] = thread[k],
         thread'[c].connfd = thread[c].connfd, thread'[c].url = thread[c].url,
         thread'[c].addr = thread[c].addr, thread'[c].size = thread[c].size,
         thread'[c].total = thread[c].total,
         thread'[c].pc \in {"socket", "connect"}, UNCHANGED peer
  PROVE  thread' \in [Conns -> Thread] /\ Progress(c)'
<1>1. /\ Types /\ thread[c].url = c /\ thread[c].addr = c
      /\ thread[c].size = 0 /\ thread[c].total = 0
      /\ peer[Server(c)] = Silent /\ peer[Client(c)].read = 1 /\ peer[Client(c)].got = <<>>
  BY Opening
<1>2. Progress(c)'
  BY <1>1 DEF Progress, Early, Relay, Late, Silent, Client, Server
<1> QED
  BY <1>1, <1>2, ThreadChanges

\* socket for the next address
LEMMA OpenSocketStep ==
  ASSUME IInv, NEW c \in Conns, OpenSocket(c)
  PROVE  IInv'
<1> USE NoneFacts, SocketFacts
<1>1. At(c, "socket")
  BY DEF OpenSocket
<1>2. /\ thread[c].pc = "socket" /\ died = "no" /\ Types
      /\ Position(c) /\ thread \in [Conns -> Thread] /\ thread[c] \in Thread
      /\ thread[c].connfd \in FDs /\ file[thread[c].connfd] = Client(c)
      /\ thread[c].url = c /\ thread[c].serverfd = None
      /\ \A f \in FDs : file[f] # None /\ file[f].conn = c =>
                          f \in {thread[c].connfd, thread[c].serverfd}
  BY <1>1, Opening DEF Position
<1>3. CASE Exit("connect")
  BY <1>3, ExitStep
<1>4. CASE /\ thread[c].addrs > 0
           /\ thread' = [thread EXCEPT ![c].addrs = @ - 1]
           /\ UNCHANGED <<file, arg, peer, mutex, log, died>>
  <2>1. /\ \A k \in Conns \ {c} : thread'[k] = thread[k]
        /\ thread' = [k \in Conns |-> thread'[k]]
        /\ thread'[c] = [thread[c] EXCEPT !.addrs = @ - 1]
    BY <1>2, <1>4
  <2>2. thread[c].addrs - 1 \in 0..MaxAddrs
    BY <1>2, <1>4 DEF Thread
  <2>3. /\ thread'[c] \in Thread /\ thread'[c].pc = "socket"
        /\ thread'[c].connfd = thread[c].connfd /\ thread'[c].serverfd = thread[c].serverfd
        /\ thread'[c].addr = thread[c].addr /\ thread'[c].url = thread[c].url
        /\ thread'[c].size = thread[c].size /\ thread'[c].total = thread[c].total
    BY <1>2, <2>1, <2>2, Zenon DEF Thread
  <2>4. thread' \in [Conns -> Thread] /\ Progress(c)'
    BY <1>1, <1>4, <2>1, <2>3, OpeningChanges, <1>2
  <2>5. Position(c)'
    BY <1>2, <1>4, <2>3 DEF Position, Relay
  <2> QED
    BY <1>2, <1>4, <2>1, <2>3, <2>4, <2>5, StreamsStay DEF Types
<1>5. CASE /\ thread[c].addrs > 0 /\ FreeFDs # {}
           /\ file' = [file EXCEPT ![NextFD] = Server(thread[c].url)]
           /\ thread' = [thread EXCEPT ![c].pc = "connect", ![c].serverfd = NextFD]
           /\ UNCHANGED <<arg, peer, mutex, log, died>>
  <2>1. NextFD \in FDs /\ file[NextFD] = None
    BY <1>5, FreeFD
  <2>2. /\ \A k \in Conns \ {c} : thread'[k] = thread[k]
        /\ thread' = [k \in Conns |-> thread'[k]]
        /\ thread'[c] = [thread[c] EXCEPT !.pc = "connect", !.serverfd = NextFD]
    BY <1>2, <1>5
  <2>3. /\ thread'[c] \in Thread /\ thread'[c].pc = "connect"
        /\ thread'[c].connfd = thread[c].connfd /\ thread'[c].serverfd = NextFD
        /\ thread'[c].addr = thread[c].addr /\ thread'[c].url = thread[c].url
        /\ thread'[c].size = thread[c].size /\ thread'[c].total = thread[c].total
        /\ thread'[c].addrs = thread[c].addrs
    <3>1. thread'[c] \in Thread
      <4> DEFINE t1 == [thread[c] EXCEPT !.pc = "connect"]
      <4>1. thread'[c] = [t1 EXCEPT !.serverfd = NextFD]
        BY <2>2
      <4>2. t1 \in Thread
        BY <1>2 DEF Thread, Early
      <4> HIDE DEF t1
      <4> QED
        BY <2>1, <4>1, <4>2, Zenon DEF Thread
    <3>2. /\ thread'[c].pc = "connect"
          /\ thread'[c].connfd = thread[c].connfd /\ thread'[c].serverfd = NextFD
          /\ thread'[c].addr = thread[c].addr /\ thread'[c].url = thread[c].url
          /\ thread'[c].size = thread[c].size /\ thread'[c].total = thread[c].total
          /\ thread'[c].addrs = thread[c].addrs
      BY <1>2, <2>1, <2>2 DEF Thread, Early
    <3> QED
      BY <3>1, <3>2
  <2>4. /\ file' \in [FDs -> Sockets \cup {None}] /\ file'[NextFD] = Server(c)
        /\ \A f \in FDs \ {NextFD} : file'[f] = file[f]
    BY <1>2, <1>5, <2>1 DEF Types
  <2>5. thread' \in [Conns -> Thread] /\ Progress(c)'
    BY <1>1, <1>5, <2>2, <2>3, OpeningChanges, <1>2
  <2>6. Position(c)'
    <3>1. /\ thread'[c].connfd # None /\ file'[thread'[c].connfd] = Client(c)
          /\ thread'[c].serverfd # None /\ file'[thread'[c].serverfd] = Server(c)
      <4>1. thread[c].connfd # None /\ thread[c].connfd \in FDs
            /\ file[thread[c].connfd] = Client(c)
        BY <1>2 DEF Position, Thread
      <4>2. thread[c].connfd # NextFD /\ NextFD # None
        BY <2>1, <4>1
      <4>3. thread'[c].connfd = thread[c].connfd /\ thread'[c].serverfd = NextFD
        BY <2>3
      <4>4. file'[thread[c].connfd] = Client(c)
        BY <2>4, <4>1, <4>2
      <4> QED
        BY <2>4, <4>1, <4>2, <4>3, <4>4
    <3> QED
      BY <1>5, <2>3, <3>1 DEF Position, Relay
  <2> QED
    BY <1>2, <1>5, <2>1, <2>2, <2>3, <2>4, <2>5, <2>6, StreamsStay
<1> QED
  BY <1>3, <1>4, <1>5 DEF OpenSocket

\* connect succeeds.
LEMMA ConnectStep ==
  ASSUME IInv, NEW c \in Conns, NEW reply \in Replies, Connect(c, reply)
  PROVE  IInv'
<1> USE NoneFacts, SocketFacts
<1>1. At(c, "connect")
  BY DEF Connect
<1>2. /\ thread[c].pc = "connect" /\ died = "no" /\ Types /\ Running /\ Position(c)
      /\ thread[c].url = c /\ thread[c].addr = c
      /\ thread[c].size = 0 /\ thread[c].total = 0 /\ InOrder(c)
      /\ peer[Server(c)] = Silent /\ peer[Client(c)].read = 1 /\ peer[Client(c)].got = <<>>
  BY <1>1, Opening DEF IInv
<1>3. Sfd(c) = Server(c)
  BY <1>2 DEF Position, Sfd
<1>4. /\ thread' \in [Conns -> Thread]
      /\ \A k \in Conns \ {c} : thread'[k] = thread[k]
      /\ thread'[c].pc = "send" /\ thread'[c].vargp = thread[c].vargp
      /\ thread'[c].connfd = thread[c].connfd /\ thread'[c].serverfd = thread[c].serverfd
      /\ thread'[c].addr = thread[c].addr /\ thread'[c].url = thread[c].url
      /\ thread'[c].total = thread[c].total /\ thread'[c].size = thread[c].size
  BY <1>2, Going DEF Connect, Relay
<1>5. /\ peer' \in [Sockets -> Peer]
      /\ \A s \in Sockets : peer'[s].read <= Len(peer'[s].sends)
      /\ \A s \in Sockets \ {Server(c)} : peer'[s] = peer[s]
      /\ peer'[Server(c)].read = 0 /\ peer'[Server(c)].got = <<>>
  <2>1. reply \in Seq(Item) /\ Opens(Server(c), reply)
    BY <1>3, ProxyAssumption DEF Connect, Opens
  <2> QED
    BY <1>2, <2>1, PeerOpens
<1>6. UNCHANGED <<file, arg, mutex, log, died>>
  BY DEF Connect
<1>7. Types'
  BY <1>2, <1>4, <1>5, <1>6 DEF Types
<1>8. OnlyOf(c)
  BY <1>2, <1>4, <1>5, <1>6 DEF OnlyOf
<1>9. Position(c)'
  BY <1>2, <1>4, <1>6 DEF Position, Relay
<1>10. Progress(c)'
  BY <1>2, <1>4, <1>5 DEF Progress, Early, Relay, Late
<1>11. InOrder(c)'
  BY <1>2, <1>5 DEF InOrder
<1>12. \A f \in FDs : file'[f] # None /\ file'[f].conn = c => f \in Holds(c)'
  BY <1>2, <1>4, <1>6 DEF Running, FilesOwned, Holds
<1>13. \A a \in Args : arg'[a] # None /\ arg'[a].conn = c =>
                         thread'[c].pc = "start" /\ thread'[c].vargp = a
  BY <1>2, <1>6 DEF Running, ArgsOwned
<1>14. MutexHeld'
  <2>1. \A k \in Conns : thread'[k].pc = "print" <=> thread[k].pc = "print"
    BY <1>2, <1>4
  <2> QED
    BY <1>2, <1>6, <2>1 DEF Running, MutexHeld
<1> QED
  BY <1>6, <1>7, <1>8, <1>9, <1>10, <1>11, <1>12, <1>13, <1>14, Local

\* connect fails: its socket is closed, and the next address is tried.
LEMMA ConnectFailsStep ==
  ASSUME IInv, NEW c \in Conns, ConnectFails(c)
  PROVE  IInv'
<1> USE NoneFacts, SocketFacts
<1>1. At(c, "connect")
  BY DEF ConnectFails
<1>2. /\ thread[c].pc = "connect" /\ died = "no" /\ Types
      /\ Position(c) /\ thread \in [Conns -> Thread] /\ thread[c] \in Thread
      /\ thread[c].connfd \in FDs /\ file[thread[c].connfd] = Client(c)
      /\ \A f \in FDs : file[f] # None /\ file[f].conn = c =>
                          f \in {thread[c].connfd, thread[c].serverfd}
  BY <1>1, Opening
<1>3. /\ thread[c].serverfd \in FDs /\ file[thread[c].serverfd] = Server(c)
      /\ thread[c].addrs > 0
  BY <1>2 DEF Position, Thread
<1>4. /\ file' = [file EXCEPT ![thread[c].serverfd] = None]
      /\ thread' = [thread EXCEPT ![c].pc = "socket", ![c].serverfd = None,
                                  ![c].addrs = @ - 1]
      /\ UNCHANGED <<arg, peer, mutex, log, died>>
  BY DEF ConnectFails
<1>5. /\ \A k \in Conns \ {c} : thread'[k] = thread[k]
      /\ thread' = [k \in Conns |-> thread'[k]]
      /\ thread'[c] = [thread[c] EXCEPT !.pc = "socket", !.serverfd = None, !.addrs = @ - 1]
  BY <1>2, <1>4
<1>6. thread[c].addrs - 1 \in 0..MaxAddrs
  BY <1>2, <1>3 DEF Thread
<1>7. /\ thread'[c] \in Thread /\ thread'[c].pc = "socket"
      /\ thread'[c].connfd = thread[c].connfd /\ thread'[c].serverfd = None
      /\ thread'[c].addr = thread[c].addr /\ thread'[c].url = thread[c].url
      /\ thread'[c].size = thread[c].size /\ thread'[c].total = thread[c].total
  <2>1. thread'[c] \in Thread
    <3> DEFINE n == thread[c].addrs - 1
               t1 == [thread[c] EXCEPT !.pc = "socket"]
               t2 == [t1 EXCEPT !.serverfd = None]
    <3>1. thread'[c] = [t2 EXCEPT !.addrs = n]
      BY <1>5
    <3>2. n \in 0..MaxAddrs
      BY <1>6
    <3> HIDE DEF n
    <3>3. t1 \in Thread
      BY <1>2 DEF Thread, Early
    <3> HIDE DEF t1
    <3>4. t2 \in Thread
      BY <3>3 DEF Thread
    <3> HIDE DEF t2
    <3> QED
      BY <3>1, <3>2, <3>4 DEF Thread
  <2>2. /\ thread'[c].pc = "socket"
        /\ thread'[c].connfd = thread[c].connfd /\ thread'[c].serverfd = None
        /\ thread'[c].addr = thread[c].addr /\ thread'[c].url = thread[c].url
        /\ thread'[c].size = thread[c].size /\ thread'[c].total = thread[c].total
    BY <1>2, <1>5, <1>6 DEF Thread, Early
  <2> QED
    BY <2>1, <2>2
<1>8. /\ file' \in [FDs -> Sockets \cup {None}] /\ file'[thread[c].serverfd] = None
      /\ \A f \in FDs \ {thread[c].serverfd} : file'[f] = file[f]
  BY <1>2, <1>3, <1>4 DEF Types
<1>9. thread' \in [Conns -> Thread] /\ Progress(c)'
  BY <1>1, <1>2, <1>4, <1>5, <1>7, OpeningChanges
<1>10. Position(c)'
  <2>1. thread[c].connfd # thread[c].serverfd
    BY <1>2, <1>3
  <2>2. file'[thread[c].connfd] = Client(c) /\ thread[c].connfd # None
    BY <1>2, <1>8, <2>1
  <2> QED
    BY <1>7, <2>2 DEF Position, Relay, Client
<1>11. \A f \in FDs : file'[f] # None /\ file'[f].conn = c =>
                        f \in {thread'[c].connfd, thread'[c].serverfd}
  BY <1>2, <1>7, <1>8
<1> QED
  BY <1>2, <1>3, <1>4, <1>5, <1>7, <1>8, <1>9, <1>10, <1>11, StreamsStay

\* Every descriptor that is still to be closed is open and the thread's own.
LEMMA ClosesOwn ==
  ASSUME IInv, NEW c \in Conns, At(c, "close")
  PROVE  /\ Head(thread[c].closing) \in FDs
         /\ Head(thread[c].closing) \in {thread[c].connfd, thread[c].serverfd}
         /\ file[Head(thread[c].closing)] # None
         /\ file[Head(thread[c].closing)].conn = c
<1>1. /\ Types /\ Position(c) /\ Closes(c) /\ thread[c] \in Thread
  BY DEF IInv, Running, At, Position, Types
<1>2. Head(thread[c].closing) \in {thread[c].connfd, thread[c].serverfd} \ {None}
  <2> DEFINE t == thread[c]
  <2>1. \A a, b : Head(<<a>>) = a /\ Head(<<a, b>>) = a
    OBVIOUS
  <2>2. \/ t.connfd # None /\ t.closing = <<t.connfd>>
        \/ t.serverfd # None /\ t.closing = <<t.serverfd>>
        \/ /\ t.connfd # None /\ t.serverfd # None
           /\ t.closing = <<t.connfd, t.serverfd>> \/ t.closing = <<t.serverfd, t.connfd>>
    BY <1>1, Zenon DEF Closes
  <2> QED
    BY ONLY <2>1, <2>2, Zenon
<1> QED
  BY <1>1, <1>2, NoneFacts, SocketFacts DEF Position, Thread

\* One Close
LEMMA CloseStep ==
  ASSUME IInv, NEW c \in Conns, CloseNext(c)
  PROVE  IInv'
<1> USE NoneFacts, SocketFacts
<1> DEFINE t == thread[c]
           f == Head(t.closing)
<1>1. /\ At(c, "close") /\ t.pc = "close" /\ died = "no" /\ Types /\ Running
      /\ Position(c) /\ Progress(c) /\ Closes(c)
      /\ t \in Thread /\ thread \in [Conns -> Thread]
  BY DEF CloseNext, At, IInv, Running, Position, Types
<1>2. f \in FDs /\ f \in {t.connfd, t.serverfd} /\ file[f] # None /\ file[f].conn = c
  BY <1>1, ClosesOwn
<1>3. /\ file' = [file EXCEPT ![f] = None]
      /\ thread' = [thread EXCEPT
           ![c].closing = Tail(@),
           ![c].connfd = IF f = @ THEN None ELSE @,
           ![c].serverfd = IF f = @ THEN None ELSE @,
           ![c].pc = IF Len(thread[c].closing) = 1 THEN "lock" ELSE @]
      /\ UNCHANGED <<arg, peer, mutex, log, died>>
  BY <1>2 DEF CloseNext
<1>4. t.connfd # None /\ t.serverfd # None => t.connfd # t.serverfd
  BY <1>1 DEF Position
<1> DEFINE connfd == IF f = t.connfd THEN None ELSE t.connfd
           serverfd == IF f = t.serverfd THEN None ELSE t.serverfd
           closing == Tail(t.closing)
           pc == IF Len(t.closing) = 1 THEN "lock" ELSE "close"
<1>5. /\ connfd \in FDs \cup {None} /\ serverfd \in FDs \cup {None} /\ closing \in Seq(FDs)
      /\ pc \in {"lock", "close"}
      /\ pc = "lock" => connfd = None /\ serverfd = None
      /\ pc = "close" => \/ connfd # None /\ serverfd = None /\ closing = <<connfd>>
                         \/ connfd = None /\ serverfd # None /\ closing = <<serverfd>>
  <2>1. t.connfd \in FDs \cup {None} /\ t.serverfd \in FDs \cup {None}
    BY <1>1 DEF Thread
  <2>2. CASE t.connfd # None /\ t.serverfd = None /\ t.closing = <<t.connfd>>
    BY <2>1, <2>2
  <2>3. CASE t.connfd = None /\ t.serverfd # None /\ t.closing = <<t.serverfd>>
    BY <2>1, <2>3
  <2>4. CASE t.connfd # None /\ t.serverfd # None /\ t.closing = <<t.connfd, t.serverfd>>
    BY <1>4, <2>1, <2>4
  <2>5. CASE t.connfd # None /\ t.serverfd # None /\ t.closing = <<t.serverfd, t.connfd>>
    BY <1>4, <2>1, <2>5
  <2> QED
    BY <1>1, <2>2, <2>3, <2>4, <2>5 DEF Closes
<1>6. /\ \A k \in Conns \ {c} : thread'[k] = thread[k]
      /\ thread' = [k \in Conns |-> thread'[k]]
      /\ thread'[c] = [t EXCEPT !.closing = closing, !.connfd = connfd,
                                !.serverfd = serverfd, !.pc = pc]
  BY <1>1, <1>3, Zenon DEF Thread
<1> HIDE DEF connfd, serverfd, closing, pc
<1>7. /\ thread'[c] \in Thread /\ thread'[c].pc = pc /\ thread'[c].closing = closing
      /\ thread'[c].connfd = connfd /\ thread'[c].serverfd = serverfd
      /\ thread'[c].addr = t.addr /\ thread'[c].url = t.url
      /\ thread'[c].size = t.size /\ thread'[c].total = t.total
  <2>1. thread'[c] \in Thread
    <3> DEFINE t1 == [t EXCEPT !.closing = closing]
               t2 == [t1 EXCEPT !.connfd = connfd]
               t3 == [t2 EXCEPT !.serverfd = serverfd]
    <3>1. thread'[c] = [t3 EXCEPT !.pc = pc]
      BY <1>6
    <3>2. t1 \in Thread
      BY <1>1, <1>5 DEF Thread
    <3> HIDE DEF t1
    <3>3. t2 \in Thread
      BY <1>5, <3>2 DEF Thread
    <3> HIDE DEF t2
    <3>4. t3 \in Thread
      BY <1>5, <3>3 DEF Thread
    <3> HIDE DEF t3
    <3> QED
      BY <1>5, <3>1, <3>4 DEF Thread, Late
  <2>2. /\ thread'[c].pc = pc /\ thread'[c].closing = closing
        /\ thread'[c].connfd = connfd /\ thread'[c].serverfd = serverfd
        /\ thread'[c].addr = t.addr /\ thread'[c].url = t.url
        /\ thread'[c].size = t.size /\ thread'[c].total = t.total
    BY <1>1, <1>5, <1>6 DEF Thread, Late
  <2> QED
    BY <2>1, <2>2
<1>8. /\ file' \in [FDs -> Sockets \cup {None}] /\ file'[f] = None
      /\ \A g \in FDs \ {f} : file'[g] = file[g]
  BY <1>1, <1>2, <1>3 DEF Types
<1>9. /\ connfd # None => connfd = t.connfd /\ connfd # f
      /\ serverfd # None => serverfd = t.serverfd /\ serverfd # f
      /\ {t.connfd, t.serverfd} \subseteq {connfd, serverfd, f, None}
  BY DEF connfd, serverfd
<1>10. Position(c)'
  <2>1. /\ connfd # None => file'[connfd] = Client(c)
        /\ serverfd # None => file'[serverfd] = Server(c)
    <3>1. /\ t.connfd # None => file[t.connfd] = Client(c)
          /\ t.serverfd # None => file[t.serverfd] = Server(c)
      BY <1>1, Zenon DEF Position
    <3> QED
      BY ONLY <1>5, <1>8, <1>9, <3>1
  <2> QED
    BY <1>5, <1>7, <2>1 DEF Position, Relay, Closes
<1>11. Progress(c)'
  BY <1>1, <1>3, <1>5, <1>7, Zenon DEF Progress, Early, Relay, Late, Client, Server
<1>12. \A g \in FDs : file'[g] # None /\ file'[g].conn = c =>
                        g \in {thread'[c].connfd, thread'[c].serverfd}
  <2>1. \A g \in FDs : file[g] # None /\ file[g].conn = c => g \in {t.connfd, t.serverfd}
    BY <1>1 DEF Running, FilesOwned, Holds
  <2> QED
    BY <1>7, <1>8, <1>9, <2>1
<1>13. thread' \in [Conns -> Thread]
  BY <1>1, <1>6, <1>7, ThreadChanges
<1> QED
  BY <1>1, <1>2, <1>3, <1>5, <1>6, <1>7, <1>8, <1>10, <1>11, <1>12, <1>13, StreamsStay, Zenon

\* What holds of a thread that has left doit and closed everything.
LEMMA AllClosed ==
  ASSUME IInv, NEW c \in Conns, NEW pc \in {"lock", "print"}, At(c, pc)
  PROVE  /\ thread[c].pc = pc /\ died = "no" /\ Types /\ Running
         /\ Position(c) /\ Progress(c) /\ InOrder(c)
         /\ thread[c].connfd = None /\ thread[c].serverfd = None
         /\ \A f \in FDs : ~(file[f] # None /\ file[f].conn = c)
         /\ \A a \in Args : ~(arg[a] # None /\ arg[a].conn = c)
<1>1. /\ thread[c].pc = pc /\ died = "no" /\ Types /\ Running
      /\ Position(c) /\ Progress(c) /\ InOrder(c)
  BY DEF IInv, Running, At
<1>2. thread[c].connfd = None /\ thread[c].serverfd = None
  BY <1>1 DEF Position
<1>3. Holds(c) = {}
  BY <1>1, <1>2 DEF Holds
<1> QED
  BY <1>1, <1>2, <1>3 DEF Running, FilesOwned, ArgsOwned

\* P(&mutex)
LEMMA LockStep ==
  ASSUME IInv, NEW c \in Conns, Lock(c)
  PROVE  IInv'
<1> USE NoneFacts
<1>1. At(c, "lock") /\ mutex = 1 /\ mutex' = 0 /\ UNCHANGED <<file, arg, peer, log, died>>
  BY DEF Lock
<1>2. /\ thread[c].pc = "lock" /\ died = "no" /\ Types /\ Running
      /\ Position(c) /\ Progress(c) /\ InOrder(c)
      /\ thread[c].connfd = None /\ thread[c].serverfd = None
      /\ \A f \in FDs : ~(file[f] # None /\ file[f].conn = c)
      /\ \A a \in Args : ~(arg[a] # None /\ arg[a].conn = c)
  BY <1>1, AllClosed
<1>3. /\ thread' \in [Conns -> Thread]
      /\ \A k \in Conns \ {c} : thread'[k] = thread[k]
      /\ thread'[c].pc = "print"
      /\ thread'[c].connfd = None /\ thread'[c].serverfd = None
      /\ thread'[c].addr = thread[c].addr /\ thread'[c].url = thread[c].url
      /\ thread'[c].total = thread[c].total /\ thread'[c].size = thread[c].size
  BY <1>2, Going DEF Lock, Late
<1>4. OnlyOf(c)
  BY <1>1, <1>2, <1>3 DEF OnlyOf
<1>5. Types'
  BY <1>1, <1>2, <1>3 DEF Types
<1>6. Position(c)'
  BY <1>3 DEF Position, Relay
<1>7. Progress(c)' /\ InOrder(c)'
  BY <1>1, <1>2, <1>3 DEF Progress, InOrder, Early, Relay, Late, Client, Server
<1>8. MutexHeld'
  BY <1>1, <1>2, <1>3 DEF Running, MutexHeld
<1> QED
  BY <1>1, <1>2, <1>4, <1>5, <1>6, <1>7, <1>8, Local

\* printf, V(&mutex), and the thread ends.
LEMMA PrintStep ==
  ASSUME IInv, NEW c \in Conns, PrintLog(c)
  PROVE  IInv'
<1> USE NoneFacts, SocketFacts
<1>1. /\ At(c, "print") /\ log' = log \cup {Entry(c)} /\ mutex' = mutex + 1
      /\ thread' = [thread EXCEPT ![c] = [Locals EXCEPT !.pc = "done"]]
      /\ UNCHANGED <<file, arg, peer, died>>
  BY DEF PrintLog
<1>2. /\ thread[c].pc = "print" /\ died = "no" /\ Types /\ Running
      /\ Position(c) /\ Progress(c) /\ InOrder(c)
      /\ thread[c].connfd = None /\ thread[c].serverfd = None
      /\ \A f \in FDs : ~(file[f] # None /\ file[f].conn = c)
      /\ \A a \in Args : ~(arg[a] # None /\ arg[a].conn = c)
  BY <1>1, AllClosed
<1>3. mutex' = 1
  BY <1>1, <1>2 DEF Running, MutexHeld
<1>4. /\ thread' \in [Conns -> Thread]
      /\ \A k \in Conns \ {c} : thread'[k] = thread[k]
      /\ thread'[c].pc = "done" /\ thread'[c].connfd = None /\ thread'[c].serverfd = None
      /\ thread'[c].url = None
  <2>1. /\ \A k \in Conns \ {c} : thread'[k] = thread[k]
        /\ thread' = [k \in Conns |-> thread'[k]]
        /\ thread'[c] = [Locals EXCEPT !.pc = "done"]
    BY <1>1, <1>2 DEF Types
  <2>2. /\ thread'[c] \in Thread
        /\ thread'[c].pc = "done" /\ thread'[c].connfd = None /\ thread'[c].serverfd = None
        /\ thread'[c].url = None
    <3>1. Locals \in Thread /\ Locals.connfd = None /\ Locals.serverfd = None /\ Locals.url = None
      BY DEF Thread, Locals
    <3> QED
      BY <2>1, <3>1 DEF Thread
  <2> QED
    BY <1>2, <2>1, <2>2, ThreadChanges
<1>5. OnlyOf(c)
  BY <1>1, <1>2, <1>4 DEF OnlyOf
<1>6. Types'
  BY <1>1, <1>2, <1>3, <1>4 DEF Types
<1>7. Position(c)'
  BY <1>4 DEF Position, Relay
<1>8. Progress(c)' /\ InOrder(c)'
  BY <1>1, <1>2, <1>4 DEF Progress, InOrder, Early, Relay, Late, Client, Server
<1>9. MutexHeld'
  BY <1>2, <1>4 DEF Running, MutexHeld
<1>10. \A e \in log' : e \in log \/ Logged(e)'
  <2>1. SUFFICES ASSUME NEW e, e = Entry(c) PROVE Logged(e)'
    BY <1>1
  <2>2. /\ thread[c].addr = c /\ thread[c].url \in {c, None} /\ thread[c].size \in Nat
        /\ thread[c].size > 0 => /\ thread[c].size = peer[Server(c)].read
                                 /\ peer[Client(c)].state # "gone" =>
                                      Len(peer[Client(c)].got) = thread[c].size
    BY <1>2 DEF Progress, Types, Thread, Late
  <2> QED
    BY <1>1, <1>4, <2>1, <2>2 DEF Logged, Entry, Client, Server
<1> QED
  BY <1>2, <1>1, <1>5, <1>6, <1>7, <1>8, <1>9, <1>10, Local

----------------------------------------------------------------------------
(* The peers. *)

\* A peer that stops sending, or is gone, has sent and got what it had.
LEMMA LeavesStep ==
  ASSUME IInv, NEW s \in Sockets, NEW from, NEW to \in {"shut", "gone"}, Leaves(s, from, to),
         from \subseteq {"open", "shut"}
  PROVE  IInv'
<1> USE NoneFacts, SocketFacts
<1>1. /\ died = "no" /\ peer[s].state \in {"open", "shut"}
      /\ peer' = [peer EXCEPT ![s].state = to]
      /\ UNCHANGED <<file, arg, thread, mutex, log, died>>
  BY DEF Leaves
<1>2. Types /\ Running
  BY <1>1 DEF IInv
<1>3. /\ \A x \in Sockets \ {s} : peer'[x] = peer[x]
      /\ peer' = [x \in Sockets |-> peer'[x]]
      /\ peer'[s] = [peer[s] EXCEPT !.state = to] /\ peer[s] \in Peer
  BY <1>1, <1>2 DEF Types
<1>4. /\ peer'[s] \in Peer /\ peer'[s].read = peer[s].read /\ peer'[s].got = peer[s].got
      /\ peer'[s].sends = peer[s].sends /\ peer'[s].state = to
  BY <1>3 DEF Peer
<1>5. Types'
  <2>1. peer'[s].read <= Len(peer'[s].sends)
    BY <1>2, <1>4 DEF Types
  <2> QED
    BY <1>1, <1>2, <1>3, <1>4, <2>1, PeerChanges DEF Types
<1>6. \A x \in Sockets : /\ peer'[x].read = peer[x].read /\ peer'[x].got = peer[x].got
                         /\ peer'[x].state # "gone" => peer[x].state # "gone"
                         /\ peer[x] = Silent => peer'[x] = Silent
  BY <1>1, <1>3, <1>4 DEF Silent
<1>7. \A c \in Conns : Position(c)' /\ Holds(c)' = Holds(c)
  <2>1. \A c \in Conns : Position(c)
    BY <1>2 DEF Running
  <2>2. \A c \in Conns : Closes(c)' <=> Closes(c)
    BY <1>1 DEF Closes
  <2>3. \A c \in Conns : Position(c)'
    BY <1>1, <2>1, <2>2 DEF Position, Client, Server
  <2> QED
    BY <1>1, <2>3 DEF Holds
<1>8. \A c \in Conns : Progress(c)' /\ InOrder(c)'
  <2>1. SUFFICES ASSUME NEW c \in Conns PROVE Progress(c)' /\ InOrder(c)'
    OBVIOUS
  <2>2. Progress(c) /\ InOrder(c)
    BY <1>2 DEF IInv, Running
  <2>3. Progress(c)'
    BY <1>1, <1>6, <2>2 DEF Progress, Client, Server
  <2>4. InOrder(c)'
    BY <1>6, <2>2, Zenon DEF InOrder, Client, Server
  <2> QED
    BY <2>3, <2>4
<1>9. FilesOwned' /\ ArgsOwned' /\ MutexHeld'
  BY <1>1, <1>2, <1>7 DEF Running, FilesOwned, ArgsOwned, MutexHeld
<1>10. \A e \in log' : Logged(e)'
  <2>1. SUFFICES ASSUME NEW e \in log PROVE Logged(e)'
    BY <1>1
  <2>2. Logged(e)
    BY DEF IInv
  <2> QED
    BY <1>1, <1>6, <2>2 DEF Logged, Client, Server
<1> QED
  BY <1>1, <1>5, <1>7, <1>8, <1>9, <1>10 DEF IInv, Running

----------------------------------------------------------------------------
(* The theorems. *)

\* The initial state has the invariant.
LEMMA InitIInv == Init => IInv
<1> USE NoneFacts, SocketFacts
<1> SUFFICES ASSUME Init PROVE IInv
  OBVIOUS
<1>1. /\ file = [f \in FDs |-> None] /\ arg = [a \in Args |-> None]
      /\ thread = [c \in Conns |-> Locals] /\ peer = [s \in Sockets |-> Silent]
      /\ mutex = 1 /\ log = {} /\ died = "no"
  BY DEF Init
<1>2. Locals \in Thread /\ Silent \in Peer
  BY DEF Locals, Thread, Silent, Peer
<1>3. Types
  BY <1>1, <1>2 DEF Types, Silent
<1>4. \A c \in Conns : Position(c) /\ Progress(c) /\ InOrder(c)
  <2>1. SUFFICES ASSUME NEW c \in Conns PROVE Position(c) /\ Progress(c) /\ InOrder(c)
    OBVIOUS
  <2>2. thread[c] = Locals /\ peer[Client(c)] = Silent /\ peer[Server(c)] = Silent
    BY <1>1
  <2>3. Position(c)
    BY <2>2 DEF Position, Locals, Relay
  <2>4. Progress(c) /\ InOrder(c)
    BY <2>2 DEF Progress, InOrder, Locals, Silent, Early, Relay, Late
  <2> QED
    BY <2>3, <2>4
<1>5. FilesOwned /\ ArgsOwned /\ MutexHeld
  BY <1>1 DEF FilesOwned, ArgsOwned, MutexHeld, Locals
<1> QED
  BY <1>1, <1>3, <1>4, <1>5 DEF IInv, Running

\* Every step keeps the invariant.
LEMMA NextIInv == IInv /\ [Next]_vars => IInv'
<1> SUFFICES ASSUME IInv, [Next]_vars PROVE IInv'
  OBVIOUS
<1>1. ASSUME NEW c \in Conns, NEW r \in Requests, Accept(c, r)
      PROVE  IInv'
  BY <1>1, AcceptStep
<1>2. ASSUME NEW c \in Conns, AcceptFails(c)
      PROVE  IInv'
  BY <1>2, ExitStep DEF AcceptFails
<1>3. ASSUME NEW c \in Conns, Serve(c)
      PROVE  IInv'
  <2>1. CASE \E r \in Replies : Connect(c, r)
    BY <2>1, ConnectStep
  <2>2. CASE \/ Start(c) \/ RequestLine(c) \/ OpenSocket(c) \/ ConnectFails(c)
             \/ SendLine(c) \/ Headers(c) \/ Body(c) \/ ReplyHeaders(c) \/ ReplyBody(c)
             \/ CloseNext(c) \/ PrintLog(c)
    BY <2>2, StartStep, RequestLineStep, OpenSocketStep, ConnectFailsStep, SendLineStep,
       HeadersStep, BodyStep, ReplyHeadersStep, ReplyBodyStep, CloseStep, PrintStep
  <2> QED
    BY <1>3, <2>1, <2>2 DEF Serve
<1>4. ASSUME NEW c \in Conns, Lock(c)
      PROVE  IInv'
  BY <1>4, LockStep
<1>5. ASSUME NEW s \in Sockets, PeerShuts(s) \/ PeerGoes(s)
      PROVE  IInv'
  <2>1. \/ Leaves(s, {"open"}, "shut")
        \/ Leaves(s, {"open", "shut"}, "gone")
    BY <1>5 DEF PeerShuts, PeerGoes
  <2>2. {"open"} \subseteq {"open", "shut"}
    OBVIOUS
  <2> QED
    BY <2>1, <2>2, LeavesStep
<1>6. CASE UNCHANGED vars
  <2>1. \A c \in Conns :
          /\ InOrder(c)' /\ Holds(c)' = Holds(c)
          /\ died = "no" => Position(c)' /\ Progress(c)'
    <3>1. SUFFICES ASSUME NEW c \in Conns
                   PROVE  /\ InOrder(c)' /\ Holds(c)' = Holds(c)
                          /\ died = "no" => Position(c)' /\ Progress(c)'
      OBVIOUS
    <3>2. InOrder(c) /\ (died = "no" => Position(c) /\ Progress(c))
      BY DEF IInv, Running
    <3>3. InOrder(c)' /\ Holds(c)' = Holds(c)
      BY <1>6, <3>2 DEF vars, InOrder, Holds, Client, Server
    <3>4. died = "no" => Position(c)'
      BY <1>6, <3>2 DEF vars, Position, Closes, Client, Server
    <3>5. died = "no" => Progress(c)'
      BY <1>6, <3>2 DEF vars, Progress, Client, Server
    <3> QED
      BY <3>3, <3>4, <3>5
  <2>2. Types' /\ (died # "no" => Ended)'
    BY <1>6 DEF vars, IInv, Types, Ended
  <2>3. \A e \in log' : Logged(e)'
    BY <1>6 DEF vars, IInv, Logged, Client, Server
  <2>4. died = "no" => FilesOwned' /\ ArgsOwned' /\ MutexHeld'
    BY <1>6, <2>1 DEF vars, IInv, Running, FilesOwned, ArgsOwned, MutexHeld
  <2> QED
    BY <1>6, <2>1, <2>2, <2>3, <2>4 DEF vars, IInv, Running
<1> QED
  BY <1>1, <1>2, <1>3, <1>4, <1>5, <1>6 DEF Next

(***************************************************************************)
(* The invariant of the proxy: what every thread holds and how far its     *)
(* streams are, wherever the others are.                                   *)
(***************************************************************************)
THEOREM Invariance == Spec => []IInv
BY InitIInv, NextIInv, PTL DEF Spec

(***************************************************************************)
(* Types; a body is counted down to zero and no further; no Close finds    *)
(* its descriptor closed, so only accept and connect end the process.      *)
(***************************************************************************)
THEOREM TypeCorrect == Spec => []TypeOK
<1>1. IInv => TypeOK
  <2>1. SUFFICES ASSUME IInv PROVE TypeOK
    OBVIOUS
  <2>2. Types
    BY <2>1 DEF IInv
  <2>3. \A c \in Conns : thread[c] \in Thread
    BY <2>2 DEF Types
  <2>4. \A s \in Sockets : peer[s].read \in 0..Len(peer[s].sends)
    BY <2>2 DEF Types, Peer
  <2> QED
    BY <2>2, <2>3, <2>4 DEF TypeOK, Types, Thread
<1> QED
  BY <1>1, Invariance, PTL

(***************************************************************************)
(* No return of doit leaks a descriptor, and none closes one that belongs  *)
(* to another thread by then (proxy.c:137-263).                            *)
(***************************************************************************)
THEOREM Owned == Spec => []DescriptorsOwned
<1>1. IInv => DescriptorsOwned
  <2> USE NoneFacts, SocketFacts
  <2>1. SUFFICES ASSUME IInv PROVE DescriptorsOwned
    OBVIOUS
  <2>2. Types
    BY <2>1 DEF IInv
  <2>3. CASE died = "no"
    <3>1. Running
      BY <2>1, <2>3 DEF IInv
    <3>2. \A f \in FDs : file[f] # None => \E c \in Conns : f \in Holds(c)
      BY <2>2, <3>1 DEF Types, Running, FilesOwned
    <3>3. ASSUME NEW c \in Conns
          PROVE  /\ \A f \in Holds(c) : file[f] # None /\ file[f].conn = c
                 /\ Working(c) /\ thread[c].connfd # None => file[thread[c].connfd] = Client(c)
      BY <3>1 DEF Running, Position, Holds
    <3> QED
      BY <3>2, <3>3 DEF DescriptorsOwned
  <2>4. CASE died # "no"
    <3>1. file = [f \in FDs |-> None] /\ thread = [c \in Conns |-> Locals]
      BY <2>1, <2>4 DEF IInv, Ended
    <3> QED
      BY <3>1 DEF DescriptorsOwned, Holds, Working, Locals
  <2> QED
    BY <2>3, <2>4
<1> QED
  BY <1>1, Invariance, PTL

(***************************************************************************)
(* A server gets the beginning of its own client's stream, and a client    *)
(* that of its own server's, in order, without gap or repetition.          *)
(***************************************************************************)
THEOREM Forwards == Spec => []ForwardsInOrder
<1>1. IInv => ForwardsInOrder
  <2>1. SUFFICES ASSUME IInv, NEW s \in Sockets
                 PROVE  /\ peer[s].got = [k \in 1..Len(peer[s].got) |-> <<s.conn, k>>]
                        /\ s.side = "server" => Len(peer[s].got) <= peer[Client(s.conn)].read
                        /\ s.side = "client" => Len(peer[s].got) <= peer[Server(s.conn)].read
    BY DEF ForwardsInOrder
  <2>2. Types /\ s.conn \in Conns /\ InOrder(s.conn) /\ (s = Client(s.conn) \/ s = Server(s.conn))
    BY <2>1, SocketFacts DEF IInv
  <2>3. \A k \in 1..Len(peer[s].got) : peer[s].got[k] = <<s.conn, k>>
    BY <2>2 DEF InOrder
  <2>4. peer[s].got \in Seq(Conns \X Nat)
    BY <2>2 DEF Types, Peer
  <2>5. peer[s].got = [k \in 1..Len(peer[s].got) |-> <<s.conn, k>>]
    BY <2>3, <2>4, InOrderSequence
  <2>6. /\ s.side = "server" => s = Server(s.conn)
        /\ s.side = "client" => s = Client(s.conn)
    BY <2>2 DEF Client, Server
  <2> QED
    BY <2>2, <2>5, <2>6 DEF InOrder
<1> QED
  BY <1>1, Invariance, PTL

(***************************************************************************)
(* A line of the log names the client's own URI, and the size of a         *)
(* complete reply that the client has got, or 0 (proxy.c:318-323).         *)
(***************************************************************************)
THEOREM LogIsTrue == Spec => []LogsTheReply
<1>1. IInv => LogsTheReply
  BY DEF IInv, Logged, LogsTheReply
<1> QED
  BY <1>1, Invariance, PTL
=============================================================================
