-------------------------------- MODULE Tsh --------------------------------
(***************************************************************************)
(* The shell of src/lab9/tsh.c: its main loop, the three signal handlers   *)
(* that interrupt it and each other, the kernel's pending signals, and the *)
(* child processes.                                                        *)
(*                                                                         *)
(* A step is a piece of code no signal handler can observe half done: one  *)
(* access to the job list or to chld_reaped, one system call, or a section *)
(* that runs with every signal blocked.  A job is one process.             *)
(***************************************************************************)
EXTENDS JobList

CONSTANT Keys   \* the keys typed: "INT" is ctrl-c, "TSTP" is ctrl-z

ASSUME KeysAssumption == Keys \subseteq {"INT", "TSTP"}

Signals == {"CHLD", "INT", "TSTP"}

VARIABLES
  pc,           \* where the main loop is
  cmd,          \* its locals: the command, the pid, the slot, the state read
  chld_reaped,  \* what waitfg polls
  pending,      \* signals sent to the shell and not yet delivered: a set,
                \* so two SIGCHLDs may merge
  depth,        \* number of handlers on the stack
  h,            \* the handler of each signal: its locals and stack level
  child,        \* the kernel's view of each process
  shell         \* "up", or how the shell ended

mainVars   == <<pc, cmd>>
signalVars == <<pending, depth, h>>
vars == <<jobs, nextjid, pc, cmd, chld_reaped, pending, depth, h, child, shell>>

(***************************************************************************)
(* "read"    the prompt, waiting for a command                             *)
(* "add"     eval, after fork and before addjob                            *)
(* "switch"  do_bgfg holds temp_job and is to read its state               *)
(* "set"     do_bgfg is to store the new state                             *)
(* "load"    do_bgfg is to read temp_job->pid, then "kill" to send SIGCONT *)
(* "reset"   waitfg is to clear chld_reaped, then "wait" polls it          *)
(***************************************************************************)
MainPCs == {"read", "add", "switch", "set", "load", "kill", "reset", "wait"}

HandlerPCs == {"idle", "reap", "update", "readfg", "kill"}

Handler == [pc : HandlerPCs, level : 0..3, pid : Pids \cup {NoPid},
            stopped : BOOLEAN]

Idle == [pc |-> "idle", level |-> 0, pid |-> NoPid, stopped |-> FALSE]

\* "forked": before setpgid.  "stopping": stopped, and no wait has told it.
ChildStates == {"none", "forked", "running", "stopping", "stopped", "zombie"}

\* The locals are dead at the prompt and in waitfg, which ignores its pid.
NoCmd == [want |-> "BG", pid |-> NoPid, slot |-> 1, seen |-> "UNDEF"]

Init ==
  /\ ListInit
  /\ pc = "read" /\ cmd = NoCmd
  /\ chld_reaped = FALSE
  /\ pending = {} /\ depth = 0 /\ h = [s \in Signals |-> Idle]
  /\ child = [p \in Pids |-> "none"]
  /\ shell = "up"

----------------------------------------------------------------------------
(* The main loop runs only when no handler is on the stack. *)

Main(at) == shell = "up" /\ depth = 0 /\ pc = at

\* unix_error: print and exit(1)
unix_error == /\ shell' = "failed"
              /\ UNCHANGED <<listVars, mainVars, chld_reaped, signalVars, child>>

\* eval of a program: block SIGCHLD and fork.
Fork(p, want) ==
  /\ Main("read") /\ child[p] = "none" /\ nextjid <= JidBound
  /\ pc' = "add"
  /\ cmd' = [cmd EXCEPT !.want = want, !.pid = p]
  /\ child' = [child EXCEPT ![p] = "forked"]
  /\ UNCHANGED <<listVars, chld_reaped, signalVars, shell>>

ForkFails == Main("read") /\ unix_error

\* Block everything, add the job, restore the mask; wait for it if it is FG.
Add ==
  /\ Main("add")
  /\ addjob(cmd.pid, cmd.want)
  /\ pc' = IF cmd.want = "FG" THEN "reset" ELSE "read"
  /\ cmd' = NoCmd
  /\ UNCHANGED <<chld_reaped, signalVars, child, shell>>

\* do_bgfg up to line 345: find the job by its pid or its job id.
FgBg(want) ==
  /\ Main("read")
  /\ \E i \in {getjobpid(p) : p \in Listed}
              \cup {getjobjid(j) : j \in {jobs[k].jid : k \in Slots} \ {0}} :
       cmd' = [cmd EXCEPT !.want = want, !.slot = i]
  /\ pc' = "switch"
  /\ UNCHANGED <<listVars, chld_reaped, signalVars, child, shell>>

\* The switch on temp_job->state; a handler may have changed it since.
Switch ==
  /\ Main("switch")
  /\ \/ jobs[cmd.slot].state \in {"FG", "UNDEF"} /\ unix_error
     \/ /\ jobs[cmd.slot].state \in {"ST", "BG"}
        /\ \/ /\ cmd.want = "BG" /\ jobs[cmd.slot].state = "BG"
              /\ pc' = "read" /\ cmd' = NoCmd
           \/ /\ cmd.want = "FG" \/ jobs[cmd.slot].state = "ST"
              /\ pc' = "set"
              /\ cmd' = [cmd EXCEPT !.seen = jobs[cmd.slot].state]
        /\ UNCHANGED <<listVars, chld_reaped, signalVars, child, shell>>

\* Mutant of Set: bg stores FG as well.
SetAlwaysFG ==
  /\ Main("set")
  /\ setstate(cmd.slot, "FG")
  /\ \/ cmd.seen = "ST" /\ pc' = "load" /\ UNCHANGED cmd
     \/ cmd.seen = "BG" /\ pc' = "reset" /\ cmd' = NoCmd
  /\ UNCHANGED <<chld_reaped, signalVars, child, shell>>

Set ==
  /\ Main("set")
  /\ setstate(cmd.slot, cmd.want)
  /\ \/ cmd.seen = "ST" /\ pc' = "load" /\ UNCHANGED cmd
     \/ cmd.seen = "BG" /\ pc' = "reset" /\ cmd' = NoCmd
  /\ UNCHANGED <<chld_reaped, signalVars, child, shell>>

Load ==
  /\ Main("load")
  /\ cmd' = [cmd EXCEPT !.pid = jobs[cmd.slot].pid]
  /\ pc' = "kill"
  /\ UNCHANGED <<listVars, chld_reaped, signalVars, child, shell>>

\* kill(-pid, s) has no process group to signal
NoGroup(p) == p # NoPid /\ child[p] \in {"none", "forked"}

\* kill(-pid, SIGCONT); a pid of 0 signals the shell's own group.
Cont ==
  /\ Main("kill")
  /\ \/ NoGroup(cmd.pid) /\ unix_error
     \/ /\ ~NoGroup(cmd.pid)
        /\ IF cmd.pid # NoPid /\ child[cmd.pid] \in {"stopping", "stopped"}
           THEN /\ child' = [child EXCEPT ![cmd.pid] = "running"]
                /\ pending' = pending \cup {"CHLD"}
           ELSE UNCHANGED <<child, pending>>
        /\ pc' = IF cmd.want = "FG" THEN "reset" ELSE "read"
        /\ cmd' = NoCmd
        /\ UNCHANGED <<listVars, chld_reaped, depth, h, shell>>

\* Mutant of Reset: waitfg starts with the flag of an earlier child.
ResetForgotten ==
  /\ Main("reset")
  /\ pc' = "wait"
  /\ UNCHANGED <<listVars, cmd, chld_reaped, signalVars, child, shell>>

\* waitfg
Reset ==
  /\ Main("reset")
  /\ chld_reaped' = FALSE
  /\ pc' = "wait"
  /\ UNCHANGED <<listVars, cmd, signalVars, child, shell>>

\* Mutant of Wake: waitfg sleeps once.
WakeAtOnce ==
  /\ Main("wait")
  /\ pc' = "read"
  /\ UNCHANGED <<listVars, cmd, chld_reaped, signalVars, child, shell>>

Wake ==
  /\ Main("wait") /\ chld_reaped
  /\ pc' = "read"
  /\ UNCHANGED <<listVars, cmd, chld_reaped, signalVars, child, shell>>

----------------------------------------------------------------------------
(* Signals and handlers. *)

\* Mutants of Blocked: a handler does not block its own signal; eval does not
\* block SIGCHLD; eval does not restore the mask.
BlockedNoDefer  == IF pc = "add" THEN {"CHLD"} ELSE {}
BlockedHandlers == {s \in Signals : h[s].pc # "idle"}
BlockedForever  == (IF pc \in {"add", "read"} THEN {"CHLD"} ELSE {})
                     \cup {s \in Signals : h[s].pc # "idle"}

\* eval blocks SIGCHLD from fork to addjob; a handler blocks its own signal.
Blocked == (IF pc = "add" THEN {"CHLD"} ELSE {})
             \cup {s \in Signals : h[s].pc # "idle"}

Entered(s, level) == [pc |-> IF s = "CHLD" THEN "reap" ELSE "readfg",
                      level |-> level, pid |-> NoPid, stopped |-> FALSE]

\* The kernel interrupts whatever runs, another handler included.
Deliver(s) ==
  /\ shell = "up" /\ s \in pending \ Blocked
  /\ pending' = pending \ {s}
  /\ depth' = depth + 1
  /\ h' = [h EXCEPT ![s] = Entered(s, depth + 1)]
  /\ UNCHANGED <<listVars, mainVars, chld_reaped, child, shell>>

Top(s, at) == shell = "up" /\ h[s].level = depth /\ h[s].pc = at

Return(s) == /\ depth' = depth - 1
             /\ h' = [h EXCEPT ![s] = Idle]
             /\ UNCHANGED pending

Children == {p \in Pids : child[p] # "none"}
Waitable == {p \in Pids : child[p] \in {"stopping", "zombie"}}

\* sigchld_handler: one waitpid, and the test against the foreground job
sigchld_reap ==
  /\ Top("CHLD", "reap")
  /\ \/ Children = {} /\ unix_error
     \/ /\ Children # {} /\ Waitable = {}
        /\ Return("CHLD")
        /\ UNCHANGED <<listVars, mainVars, chld_reaped, child, shell>>
     \/ \E p \in Waitable :
        /\ chld_reaped' = (chld_reaped \/ p = fgpid)
        /\ child' = [child EXCEPT ![p] = IF @ = "zombie" THEN "none" ELSE "stopped"]
        /\ h' = [h EXCEPT !["CHLD"] = [pc |-> "update", level |-> depth, pid |-> p,
                                       stopped |-> child[p] = "stopping"]]
        /\ UNCHANGED <<listVars, mainVars, pending, depth, shell>>

\* sigchld_handler: the job list, with every signal blocked.  A stopped
\* process that is not listed makes getjobpid return NULL.
sigchld_update ==
  LET p == h["CHLD"].pid IN
  /\ Top("CHLD", "update")
  /\ \/ /\ h["CHLD"].stopped /\ SlotsOf(p) = {}
        /\ shell' = "segv"
        /\ UNCHANGED <<listVars, signalVars>>
     \/ /\ h["CHLD"].stopped /\ SlotsOf(p) # {}
        /\ setstate(getjobpid(p), "ST")
        /\ Return("CHLD")
        /\ UNCHANGED shell
     \/ /\ ~h["CHLD"].stopped
        /\ deletejob(p)
        /\ Return("CHLD")
        /\ UNCHANGED shell
  /\ UNCHANGED <<mainVars, chld_reaped, child>>

\* sigint_handler and sigtstp_handler: fgpid, then kill.
key_readfg(s) ==
  /\ Top(s, "readfg")
  /\ \/ fgpid = NoPid /\ Return(s)
     \/ /\ fgpid # NoPid
        /\ h' = [h EXCEPT ![s].pc = "kill", ![s].pid = fgpid]
        /\ UNCHANGED <<pending, depth>>
  /\ UNCHANGED <<listVars, mainVars, chld_reaped, child, shell>>

\* The process may be gone, may have no group yet, or may ignore the signal.
\* A group whose leader is reaped exists as long as a descendant runs in it.
key_kill(s) ==
  LET p == h[s].pid IN
  /\ Top(s, "kill")
  /\ \/ NoGroup(p) /\ unix_error
     \/ /\ child[p] # "forked"
        /\ Return(s)
        /\ UNCHANGED child
        /\ UNCHANGED <<listVars, mainVars, chld_reaped, shell>>
     \/ /\ child[p] = "running"
        /\ child' = [child EXCEPT ![p] = IF s = "INT" THEN "zombie" ELSE "stopping"]
        /\ pending' = pending \cup {"CHLD"}
        /\ depth' = depth - 1
        /\ h' = [h EXCEPT ![s] = Idle]
        /\ UNCHANGED <<listVars, mainVars, chld_reaped, shell>>

----------------------------------------------------------------------------
(* The user and the processes. *)

Keyboard(s) ==
  /\ shell = "up"
  /\ pending' = pending \cup {s}
  /\ UNCHANGED <<listVars, mainVars, chld_reaped, depth, h, child, shell>>

\* quit, end of input, or SIGQUIT, which sigquit_handler answers at any time
Quit ==
  /\ shell = "up"
  /\ shell' = "exited"
  /\ UNCHANGED <<listVars, mainVars, chld_reaped, signalVars, child>>

\* The child calls setpgid and execve.
Setpgid(p) ==
  /\ shell = "up" /\ child[p] = "forked"
  /\ child' = [child EXCEPT ![p] = "running"]
  /\ UNCHANGED <<listVars, mainVars, chld_reaped, signalVars, shell>>

\* A process ends, stops or goes on, by itself or by a signal from elsewhere;
\* each is a SIGCHLD for the shell.
ChildMoves(p, from, to) ==
  /\ shell = "up" /\ child[p] \in from
  /\ child' = [child EXCEPT ![p] = to]
  /\ pending' = pending \cup {"CHLD"}
  /\ UNCHANGED <<listVars, mainVars, chld_reaped, depth, h, shell>>

Exit(p)     == ChildMoves(p, {"running", "stopping", "stopped"}, "zombie")
Stopped(p)  == ChildMoves(p, {"running"}, "stopping")
Continue(p) == ChildMoves(p, {"stopping", "stopped"}, "running")

----------------------------------------------------------------------------
MainStep    == Add \/ Switch \/ Set \/ Load \/ Cont \/ Reset \/ Wake
KeyStep(s)  == key_readfg(s) \/ key_kill(s)
HandlerStep == sigchld_reap \/ sigchld_update \/ \E s \in {"INT", "TSTP"} : KeyStep(s)

Next ==
  \/ \E p \in Pids, w \in {"FG", "BG"} : Fork(p, w)
  \/ ForkFails
  \/ \E w \in {"FG", "BG"} : FgBg(w)
  \/ Add \/ Switch \/ Set \/ Load \/ Cont \/ Reset \/ Wake
  \/ \E s \in Signals : Deliver(s)
  \/ sigchld_reap \/ sigchld_update
  \/ \E s \in {"INT", "TSTP"} : key_readfg(s) \/ key_kill(s)
  \/ \E s \in Keys : Keyboard(s)
  \/ Quit
  \/ \E p \in Pids : Setpgid(p) \/ Exit(p) \/ Stopped(p) \/ Continue(p)

Spec == Init /\ [][Next]_vars

\* The shell's own code advances and pending signals are delivered, however
\* often the user's keys interrupt it; nobody has to type or to exit.
Fairness == /\ SF_vars(MainStep)
            /\ SF_vars(sigchld_reap \/ sigchld_update)
            /\ \A s \in {"INT", "TSTP"} : SF_vars(KeyStep(s))
            /\ SF_vars(Deliver("CHLD"))

FairSpec == Spec /\ Fairness
----------------------------------------------------------------------------
(* Properties. *)

\* Every variable has its type, and the handlers fill the levels of the stack.
TypeOK ==
  /\ jobs \in [Slots -> Job] /\ nextjid \in Nat
  /\ pc \in MainPCs
  /\ cmd \in [want : {"FG", "BG"}, pid : Pids \cup {NoPid}, slot : Slots,
              seen : States]
  /\ chld_reaped \in BOOLEAN
  /\ pending \subseteq Signals /\ depth \in 0..3
  /\ h \in [Signals -> Handler]
  /\ child \in [Pids -> ChildStates]
  /\ shell \in {"up", "exited", "failed", "segv"}

(***************************************************************************)
(* "At most 1 job can be in the FG state" (tsh.c:37), whatever do_bgfg     *)
(* stores through temp_job while handlers change the list.                 *)
(***************************************************************************)
AtMostOneFG == \A i, k \in FGSlots : i = k

(***************************************************************************)
(* The main loop is back at the prompt, or evaluates a command, only when  *)
(* no job is in the foreground: waitfg (tsh.c:380) never returns early, so *)
(* eval never launches a second foreground job.                            *)
(***************************************************************************)
NoFGOutsideWait ==
  FGSlots # {} => pc \in {"load", "kill", "reset", "wait"}

(***************************************************************************)
(* Each process is listed once, and the list names only children that the  *)
(* kernel still keeps for the shell, but for the one sigchld_handler has   *)
(* just reaped and is about to delete: a pid the kernel reuses is never    *)
(* taken for an old job (the reason eval blocks SIGCHLD until addjob).     *)
(***************************************************************************)
ListedAreChildren ==
  /\ \A i, k \in Slots : jobs[i].pid = jobs[k].pid /\ jobs[i].pid # NoPid => i = k
  /\ \A p \in Listed : child[p] = "none" =>
        h["CHLD"].pc = "update" /\ h["CHLD"].pid = p /\ ~h["CHLD"].stopped

(***************************************************************************)
(* "our background children don't receive SIGINT (SIGTSTP) ... when we     *)
(* type ctrl-c (ctrl-z)" (tsh.c:165-167): the pid a key handler read       *)
(* before it was interrupted is never a background job when it is used.    *)
(***************************************************************************)
KeysSpareBackground ==
  \A s \in {"INT", "TSTP"}, i \in Slots :
    h[s].pc = "kill" /\ jobs[i].pid = h[s].pid => jobs[i].state \in {"FG", "ST"}

(***************************************************************************)
(* fg and bg continue the job they were asked for: when do_bgfg sends      *)
(* SIGCONT (tsh.c:351, 365) its slot holds that job in the state it        *)
(* stored, or stopped again, unless a handler has removed the job.         *)
(***************************************************************************)
ContinuesItsJob ==
  pc = "kill" /\ cmd.pid # NoPid =>
    \/ jobs[cmd.slot].pid = cmd.pid /\ jobs[cmd.slot].state \in {cmd.want, "ST"}
    \/ jobs[cmd.slot].pid = NoPid /\ cmd.pid \notin Listed

(***************************************************************************)
(* A job leaves the list only when its process was a zombie and has been   *)
(* reaped, and no other entry changes in that step (tsh.c:430).            *)
(***************************************************************************)
RemovalIsReaping ==
  \A i \in Slots : jobs[i].pid # NoPid /\ jobs'[i].pid # jobs[i].pid =>
    /\ child[jobs[i].pid] = "none" /\ jobs'[i] = Cleared
    /\ \A k \in Slots \ {i} : jobs'[k] = jobs[k]

RemovedOnlyWhenReaped == [][RemovalIsReaping]_vars

(***************************************************************************)
(* The shell implements JobControl: the state of a process is that of its  *)
(* slot.                                                                   *)
(***************************************************************************)
st == [p \in Pids |-> IF p \in Listed THEN jobs[getjobpid(p)].state ELSE "UNDEF"]

JC == INSTANCE JobControl WITH st <- st, Pids <- Pids

ImplementsJobControl == JC!Spec

\* A SIGCHLD is pending, or its handler has not called waitpid yet.
Announced == "CHLD" \in pending \/ h["CHLD"].pc = "reap"

\* The SIGCHLD has gone to another child: waitpid (tsh.c:409) reports one only.
OtherReported(p) == h["CHLD"].pc = "update" /\ h["CHLD"].pid # p

(***************************************************************************)
(* waitfg (tsh.c:380) returns when the foreground job has ended or stopped *)
(* since chld_reaped was cleared and a SIGCHLD is on its way, unless the   *)
(* handler answers that one with another child.  SIGCHLDs merge, so then   *)
(* none may be left for the foreground job.                                *)
(***************************************************************************)
AwaitedJobWakes ==
  \A p \in Pids :
    (/\ pc = "wait" /\ \E i \in FGSlots : jobs[i].pid = p
     /\ child[p] \in {"zombie", "stopping"} /\ Announced)
      ~> (pc = "read" \/ shell # "up" \/ child[p] = "running" \/ OtherReported(p))

(***************************************************************************)
(* No SIGCHLD is lost while it is blocked or its handler interrupted: with *)
(* a terminated job in the list it takes that job off, or reports another  *)
(* child in its place (tsh.c:409-436).                                     *)
(***************************************************************************)
SignalReports ==
  \A p \in Pids :
    (p \in Listed /\ child[p] = "zombie" /\ Announced)
      ~> (p \notin Listed \/ shell # "up" \/ OtherReported(p))

(***************************************************************************)
(* "waitfg - Block until process pid is no longer the foreground process"  *)
(* (tsh.c:378).  The code breaks it: the job may leave the foreground      *)
(* before waitfg clears chld_reaped, and waitfg then polls for ever.       *)
(***************************************************************************)
WaitfgReturns == (pc = "wait" /\ FGSlots = {}) ~> (pc = "read" \/ shell # "up")

(***************************************************************************)
(* "The handler reaps all available zombie children" (tsh.c:398).  The     *)
(* code breaks it: it calls waitpid once, and SIGCHLDs merge.              *)
(***************************************************************************)
HandlerReapsAll ==
  shell = "up" /\ pc # "add" /\ "CHLD" \notin pending /\ h["CHLD"].pc = "idle"
    => \A p \in Pids : child[p] # "zombie"
=============================================================================
