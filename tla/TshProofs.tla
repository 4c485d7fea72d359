----------------------------- MODULE TshProofs -----------------------------
(***************************************************************************)
(* Theorems about the shell, for every number of processes and slots.      *)
(***************************************************************************)
EXTENDS Tsh, TLAPS, NatLemmas

----------------------------------------------------------------------------
(* The job list. *)

\* First picks a member: the scans of tsh.c:518-601 return a slot of the list.
LEMMA FirstIn ==
  ASSUME NEW S, S \subseteq Slots, S # {}
  PROVE  First(S) \in S
<1>1. S \subseteq Nat
  BY DEF Slots
<1>2. \E i \in S : \A k \in S : i <= k
  BY <1>1, NatMin
<1> QED
  BY <1>2 DEF First

\* maxjid of a list of jobs is a job id of the list.
LEMMA MaxJidType ==
  ASSUME NEW js \in [Slots -> Job]
  PROVE  maxjid(js) \in Nat
<1> DEFINE J(i) == js[i].jid
           HasMax(n) == \E m \in 1..n : \A k \in 1..n : J(k) <= J(m)
           Bad == {n \in Slots : ~HasMax(n)}
<1>1. \A i \in Slots : J(i) \in Nat
  BY DEF Job
<1>2. MAXJOBS \in Nat \ {0}
  BY SizeAssumption
<1>3. Bad = {}
  <2>1. SUFFICES ASSUME Bad # {} PROVE FALSE
    OBVIOUS
  <2>2. PICK n \in Bad : \A k \in Bad : n <= k
    <3>1. Bad \subseteq Nat
      BY DEF Slots
    <3>2. \E n \in Bad : \A k \in Bad : n <= k
      <4> HIDE DEF Bad
      <4> QED BY <2>1, <3>1, NatMin
    <3> QED
      BY <3>2
  <2>3. n \in Slots /\ n \in Nat /\ ~HasMax(n)
    BY DEF Slots
  <2>4. n # 1
    <3>1. n = 1 => J(1) <= J(1)
      BY <1>1, <2>3
    <3>2. n = 1 => HasMax(n)
      BY <3>1
    <3> QED
      BY <3>2, <2>3
  <2>5. n - 1 \in Slots /\ n - 1 \in Nat
    BY <2>3, <2>4, <1>2 DEF Slots
  <2>6. HasMax(n - 1)
    <3>1. ~(n <= n - 1)
      BY <2>3
    <3>2. n - 1 \notin Bad
      BY <3>1, <2>2
    <3> QED
      BY <3>2, <2>5
  <2>7. PICK m \in 1..(n - 1) : \A k \in 1..(n - 1) : J(k) <= J(m)
    BY <2>6
  <2>8. m \in Slots /\ m \in 1..n /\ n \in 1..n
    BY <2>3, <2>5, <1>2 DEF Slots
  <2>9. \A k \in 1..n : k \in 1..(n - 1) \/ k = n
    BY <2>3
  <2>10. J(m) \in Nat /\ J(n) \in Nat
    BY <1>1, <2>3, <2>8
  <2>11. \A k \in 1..n : J(k) \in Nat
    BY <1>1, <2>3, <1>2 DEF Slots
  <2> HIDE DEF J
  <2>12. CASE J(n) <= J(m)
    BY <2>7, <2>8, <2>9, <2>12, <2>3
  <2>13. CASE ~(J(n) <= J(m))
    <3>1. \A k \in 1..n : J(k) <= J(n)
      BY <2>7, <2>9, <2>10, <2>11, <2>13
    <3> QED
      BY <3>1, <2>8, <2>3
  <2> QED
    BY <2>12, <2>13
<1>4. HasMax(MAXJOBS)
  <2>1. MAXJOBS \in Slots
    BY <1>2 DEF Slots
  <2> HIDE DEF HasMax
  <2> QED
    BY <1>3, <2>1
<1>5. PICK m \in Slots : \A k \in Slots : J(k) <= J(m)
  BY <1>4 DEF Slots
<1> QED
  BY <1>5, <1>1 DEF maxjid

\* addjob fills one free slot or leaves the list alone.
LEMMA AddEffect ==
  ASSUME jobs \in [Slots -> Job], nextjid \in Nat,
         NEW p \in Pids, NEW s \in States, addjob(p, s)
  PROVE  /\ nextjid' \in Nat
         /\ \/ jobs' = jobs
            \/ \E i \in Slots :
                 /\ jobs[i].pid = NoPid
                 /\ jobs' = [jobs EXCEPT ![i] =
                               [pid |-> p, jid |-> nextjid, state |-> s]]
<1>1. CASE Free = {}
  BY <1>1 DEF addjob, listVars
<1>2. CASE Free # {}
  <2>1. First(Free) \in Free
    BY <1>2, FirstIn DEF Free, SlotsOf
  <2> QED
    BY <1>2, <2>1 DEF addjob, Free, SlotsOf, listVars
<1> QED
  BY <1>1, <1>2

\* getjobpid finds a slot that holds the pid.
LEMMA GetjobpidIn ==
  ASSUME NEW p, SlotsOf(p) # {}
  PROVE  getjobpid(p) \in Slots /\ jobs[getjobpid(p)].pid = p
<1>1. First(SlotsOf(p)) \in SlotsOf(p)
  BY FirstIn DEF SlotsOf
<1> QED
  BY <1>1 DEF getjobpid, SlotsOf

\* getjobjid finds a slot that holds the job id.
LEMMA GetjobjidIn ==
  ASSUME NEW j, SlotsOfJid(j) # {}
  PROVE  getjobjid(j) \in Slots /\ jobs[getjobjid(j)].jid = j
<1>1. First(SlotsOfJid(j)) \in SlotsOfJid(j)
  BY FirstIn DEF SlotsOfJid
<1> QED
  BY <1>1 DEF getjobjid, SlotsOfJid

\* deletejob clears one slot of the pid, if there is one.
LEMMA DeleteEffect ==
  ASSUME jobs \in [Slots -> Job], nextjid \in Nat, NEW p, deletejob(p)
  PROVE  /\ nextjid' \in Nat
         /\ \/ jobs' = jobs /\ SlotsOf(p) = {}
            \/ \E i \in Slots : /\ jobs[i].pid = p
                               /\ jobs' = [jobs EXCEPT ![i] = Cleared]
<1>1. CASE SlotsOf(p) = {}
  BY <1>1 DEF deletejob, listVars
<1>2. CASE SlotsOf(p) # {}
  <2>1. getjobpid(p) \in Slots /\ jobs[getjobpid(p)].pid = p
    BY <1>2, GetjobpidIn
  <2>2. jobs' = [jobs EXCEPT ![getjobpid(p)] = Cleared] /\ nextjid' = maxjid(jobs') + 1
    BY <1>2 DEF deletejob
  <2>3. Cleared \in Job
    BY DEF Cleared, Job, States
  <2>4. jobs' \in [Slots -> Job]
    BY <2>1, <2>2, <2>3
  <2>5. maxjid(jobs') \in Nat
    BY <2>4, MaxJidType
  <2>6. nextjid' \in Nat
    BY <2>2, <2>5
  <2> DEFINE i == getjobpid(p)
  <2>7. i \in Slots /\ jobs[i].pid = p /\ jobs' = [jobs EXCEPT ![i] = Cleared]
    BY <2>1, <2>2
  <2> HIDE DEF i
  <2> QED
    BY <2>6, <2>7
<1> QED
  BY <1>1, <1>2

\* fgpid is the pid of a slot in the foreground.
LEMMA FgpidIn ==
  ASSUME fgpid # NoPid
  PROVE  \E i \in FGSlots : jobs[i].pid = fgpid
<1>1. FGSlots # {}
  BY DEF fgpid
<1>2. First(FGSlots) \in FGSlots
  BY <1>1, FirstIn DEF FGSlots
<1> QED
  BY <1>1, <1>2 DEF fgpid

----------------------------------------------------------------------------
(* The inductive invariant. *)

\* The active handlers are the levels 1..depth of the stack, one each.
Stack ==
  /\ \A s \in Signals : (h[s].pc = "idle" <=> h[s].level = 0) /\ h[s].level <= depth
  /\ \A s, t \in Signals : h[s].level = h[t].level /\ h[s].level > 0 => s = t
  /\ \A d \in 1..depth : \E s \in Signals : h[s].level = d
  /\ h["CHLD"].pc \in {"idle", "reap", "update"}
  /\ \A s \in {"INT", "TSTP"} : h[s].pc \in {"idle", "readfg", "kill"}
  /\ \A s \in Signals : h[s].pc \in {"update", "kill"} => h[s].pid # NoPid

\* A foreground job exists only while the command that made it so is served.
FGIsServed ==
  FGSlots # {} => \/ pc \in {"reset", "wait"}
                  \/ pc \in {"load", "kill"} /\ cmd.want = "FG"

\* When waitfg is about to wake, the foreground job is gone or about to go.
AwakeIsOver ==
  pc = "wait" /\ chld_reaped =>
    \A i \in FGSlots : h["CHLD"].pc = "update" /\ h["CHLD"].pid = jobs[i].pid

\* Between fork and addjob the child is neither listed nor reaped.
AddingIsNew ==
  pc = "add" => /\ cmd.pid # NoPid /\ cmd.pid \notin Listed
                /\ child[cmd.pid] # "none" /\ h["CHLD"].pc = "idle"

\* do_bgfg's slot keeps its job, or is cleared.
SlotIsKept ==
  /\ pc \in {"load", "kill"} =>
       \/ jobs[cmd.slot].pid = NoPid
       \/ jobs[cmd.slot].state \in {cmd.want, "ST"}
  /\ pc = "kill" /\ cmd.pid # NoPid =>
       \/ jobs[cmd.slot].pid = cmd.pid
       \/ jobs[cmd.slot].pid = NoPid /\ cmd.pid \notin Listed

IInv == /\ TypeOK /\ Stack
        /\ AtMostOneFG /\ FGIsServed /\ AwakeIsOver
        /\ ListedAreChildren /\ AddingIsNew
        /\ KeysSpareBackground /\ SlotIsKept

----------------------------------------------------------------------------
\* The main loop runs only when every handler has returned.
LEMMA MainRunsAlone ==
  ASSUME TypeOK, Stack, depth = 0
  PROVE  \A s \in Signals : h[s].pc = "idle"
BY DEF TypeOK, Stack, Handler

\* The list stays a list of children when no child goes away.
LEMMA ChildrenKept ==
  ASSUME TypeOK, ListedAreChildren, jobs' = jobs, h'["CHLD"] = h["CHLD"],
         \A p \in Pids : child'[p] = "none" => child[p] = "none"
  PROVE  ListedAreChildren'
<1>1. Listed \subseteq Pids /\ Listed' = Listed
  BY DEF TypeOK, Job, Listed
<1> QED
  BY <1>1 DEF ListedAreChildren

\* A handler that returns was on top of the stack.
LEMMA ReturnPops ==
  ASSUME TypeOK, Stack, NEW s \in Signals, h[s].pc # "idle", h[s].level = depth,
         depth' = depth - 1, h' = [h EXCEPT ![s] = Idle]
  PROVE  /\ Stack' /\ depth' \in 0..3 /\ h' \in [Signals -> Handler]
         /\ h'[s].pc = "idle" /\ \A t \in Signals \ {s} : h'[t] = h[t]
<1>1. depth' \in 0..3 /\ depth \in 1..3
  BY DEF TypeOK, Stack, Handler
<1>2. h' \in [Signals -> Handler]
  BY DEF TypeOK, Idle, Handler, HandlerPCs
<1>3. h'[s] = Idle /\ \A t \in Signals \ {s} : h'[t] = h[t]
  BY DEF TypeOK
<1>4. h'[s].pc = "idle" /\ h'[s].level = 0
  BY <1>3 DEF Idle
<1>5. \A t \in Signals : h[t].level \in 0..3
  BY DEF TypeOK, Handler
<1>6. \A t \in Signals : (h'[t].pc = "idle" <=> h'[t].level = 0) /\ h'[t].level <= depth'
  BY <1>1, <1>3, <1>4, <1>5 DEF Stack
<1>7. \A t, u \in Signals : h'[t].level = h'[u].level /\ h'[t].level > 0 => t = u
  BY <1>3, <1>4 DEF Stack
<1>8. \A d \in 1..depth' : \E t \in Signals : h'[t].level = d
  <2>1. SUFFICES ASSUME NEW d \in 1..depth' PROVE \E t \in Signals : h'[t].level = d
    OBVIOUS
  <2>2. d \in 1..depth /\ d # depth
    BY <1>1
  <2> QED
    BY <2>2, <1>3 DEF Stack
<1>9. /\ h'["CHLD"].pc \in {"idle", "reap", "update"}
      /\ \A t \in {"INT", "TSTP"} : h'[t].pc \in {"idle", "readfg", "kill"}
      /\ \A t \in Signals : h'[t].pc \in {"update", "kill"} => h'[t].pid # NoPid
  BY <1>3, <1>4 DEF Stack, Signals
<1> QED
  BY <1>1, <1>2, <1>3, <1>4, <1>6, <1>7, <1>8, <1>9 DEF Stack

\* A key makes a signal pending and changes nothing else.
LEMMA KeyboardStep ==
  ASSUME IInv, NEW s \in Keys, Keyboard(s)
  PROVE  IInv'
<1>1. TypeOK'
  BY KeysAssumption DEF IInv, TypeOK, Keyboard, listVars, mainVars, Signals
<1>2. (Stack /\ AtMostOneFG /\ FGIsServed /\ AwakeIsOver /\ ListedAreChildren
         /\ AddingIsNew /\ KeysSpareBackground /\ SlotIsKept)'
  BY DEF IInv, Stack, AtMostOneFG, FGIsServed, AwakeIsOver, ListedAreChildren,
     AddingIsNew, KeysSpareBackground, SlotIsKept, FGSlots, Listed, Keyboard, listVars, mainVars
<1> QED
  BY <1>1, <1>2 DEF IInv

\* eval forks with SIGCHLD blocked: the child is not listed yet.
LEMMA ForkStep ==
  ASSUME IInv, NEW p \in Pids, NEW w \in {"FG", "BG"}, Fork(p, w)
  PROVE  IInv'
<1> USE DEF IInv
<1>0. h["CHLD"].pc = "idle" /\ \A s \in Signals : h[s].pc = "idle"
  BY DEF TypeOK, Stack, Fork, Main, Signals, Handler
<1>1. TypeOK'
  BY DEF TypeOK, Fork, listVars, signalVars, ChildStates, MainPCs
<1>2. Stack'
  BY DEF Stack, Fork, signalVars
<1>3. (AtMostOneFG /\ FGIsServed /\ AwakeIsOver /\ KeysSpareBackground /\ SlotIsKept)'
  BY DEF Fork, Main, AtMostOneFG, FGIsServed, AwakeIsOver, KeysSpareBackground,
     SlotIsKept, FGSlots, listVars, signalVars
<1>4. p \notin Listed
  BY <1>0 DEF Fork, ListedAreChildren
<1>5. ListedAreChildren'
  BY <1>0, NoPidAssumption DEF TypeOK, ListedAreChildren, Fork, Listed, listVars, signalVars
<1>6. AddingIsNew'
  BY <1>0, <1>4, NoPidAssumption DEF TypeOK, AddingIsNew, Fork, Listed, listVars, signalVars
<1> QED
  BY <1>1, <1>2, <1>3, <1>5, <1>6

\* addjob lists the new child and waitfg follows for a foreground job.
LEMMA AddStep ==
  ASSUME IInv, Add
  PROVE  IInv'
<1> USE DEF IInv
<1>0. /\ pc = "add" /\ depth = 0 /\ cmd' = NoCmd
      /\ cmd.pid \in Pids /\ cmd.want \in {"FG", "BG"}
      /\ \A s \in Signals : h[s].pc = "idle"
      /\ pc' = IF cmd.want = "FG" THEN "reset" ELSE "read"
      /\ UNCHANGED <<chld_reaped, pending, depth, h, child, shell>>
  BY DEF TypeOK, Stack, AddingIsNew, Add, Main, Signals, Handler, signalVars
<1>1. /\ nextjid' \in Nat
      /\ \/ jobs' = jobs
         \/ \E i \in Slots :
              /\ jobs[i].pid = NoPid
              /\ jobs' = [jobs EXCEPT ![i] =
                            [pid |-> cmd.pid, jid |-> nextjid, state |-> cmd.want]]
  <2>1. cmd.want \in States /\ addjob(cmd.pid, cmd.want)
    BY <1>0 DEF Add, States
  <2> QED
    BY <2>1, <1>0, AddEffect DEF TypeOK
<1>2. FGSlots = {}
  BY <1>0 DEF FGIsServed
<1>3. TypeOK'
  <2>1. jobs' \in [Slots -> Job]
    BY <1>0, <1>1 DEF TypeOK, Job, States
  <2>2. cmd' \in [want : {"FG", "BG"}, pid : Pids \cup {NoPid}, slot : Slots, seen : States]
    BY <1>0, SizeAssumption DEF NoCmd, Slots, States
  <2> QED
    BY <2>1, <2>2, <1>0, <1>1 DEF TypeOK, MainPCs
<1>4. Stack'
  BY <1>0 DEF Stack
<1>5. AtMostOneFG' /\ FGIsServed'
  <2>1. \A i, k \in Slots : jobs'[i].state = "FG" /\ jobs'[k].state = "FG" => i = k
    BY <1>1, <1>2 DEF TypeOK, Job, FGSlots
  <2>2. cmd.want = "BG" => \A i \in Slots : jobs'[i].state # "FG"
    BY <1>1, <1>2 DEF TypeOK, Job, FGSlots
  <2> QED
    BY <1>0, <2>1, <2>2 DEF AtMostOneFG, FGIsServed, FGSlots
<1>6. ListedAreChildren'
  BY <1>0, <1>1, NoPidAssumption DEF TypeOK, ListedAreChildren, AddingIsNew, Listed
<1>7. AwakeIsOver' /\ AddingIsNew' /\ KeysSpareBackground' /\ SlotIsKept'
  BY <1>0 DEF AwakeIsOver, AddingIsNew, KeysSpareBackground, SlotIsKept, Signals
<1> QED
  BY <1>3, <1>4, <1>5, <1>6, <1>7

\* do_bgfg remembers the slot it has found.
LEMMA FgBgStep ==
  ASSUME IInv, NEW w \in {"FG", "BG"}, FgBg(w)
  PROVE  IInv'
<1> USE DEF IInv
<1>0. /\ pc = "read" /\ pc' = "switch"
      /\ UNCHANGED <<jobs, nextjid, chld_reaped, pending, depth, h, child, shell>>
  BY DEF FgBg, Main, listVars, signalVars
<1>1. PICK i \in {getjobpid(p) : p \in Listed}
                \cup {getjobjid(j) : j \in {jobs[k].jid : k \in Slots} \ {0}} :
        cmd' = [cmd EXCEPT !.want = w, !.slot = i]
  BY DEF FgBg
<1>2. i \in Slots
  <2>1. \A p \in Listed : SlotsOf(p) # {}
    BY DEF Listed, SlotsOf
  <2>2. \A j \in {jobs[k].jid : k \in Slots} : SlotsOfJid(j) # {}
    BY DEF SlotsOfJid
  <2> QED
    BY <2>1, <2>2, GetjobpidIn, GetjobjidIn
<1>3. TypeOK'
  BY <1>0, <1>1, <1>2 DEF TypeOK, MainPCs
<1>4. Stack' /\ AtMostOneFG' /\ ListedAreChildren' /\ KeysSpareBackground'
  BY <1>0 DEF Stack, AtMostOneFG, FGSlots, ListedAreChildren, Listed, KeysSpareBackground
<1>5. FGIsServed' /\ AwakeIsOver' /\ AddingIsNew' /\ SlotIsKept'
  BY <1>0 DEF FGIsServed, FGSlots, AwakeIsOver, AddingIsNew, SlotIsKept
<1> QED
  BY <1>3, <1>4, <1>5

\* A failed system call ends the shell.
LEMMA ErrorStep ==
  ASSUME IInv, unix_error
  PROVE  IInv'
BY DEF IInv, unix_error, TypeOK, Stack, AtMostOneFG, FGIsServed, AwakeIsOver, ListedAreChildren,
   AddingIsNew, KeysSpareBackground, SlotIsKept, FGSlots, Listed, listVars, mainVars, signalVars

\* do_bgfg reads the state of a slot that may have changed.
LEMMA SwitchStep ==
  ASSUME IInv, Switch
  PROVE  IInv'
<1> USE DEF IInv
<1>1. CASE unix_error
  BY <1>1, ErrorStep
<1>2. CASE ~unix_error
  <2>0. /\ pc = "switch" /\ pc' \in {"read", "set"}
        /\ cmd' = NoCmd \/ cmd' = [cmd EXCEPT !.seen = jobs[cmd.slot].state]
        /\ UNCHANGED <<jobs, nextjid, chld_reaped, pending, depth, h, child, shell>>
    BY <1>2 DEF Switch, Main, listVars, signalVars
  <2>1. TypeOK'
    <3>1. NoCmd \in [want : {"FG", "BG"}, pid : Pids \cup {NoPid}, slot : Slots, seen : States]
      BY SizeAssumption DEF NoCmd, Slots, States
    <3>2. jobs[cmd.slot].state \in States
      BY DEF TypeOK, Job
    <3> QED
      BY <2>0, <3>1, <3>2 DEF TypeOK, MainPCs
  <2>2. Stack' /\ AtMostOneFG' /\ ListedAreChildren' /\ KeysSpareBackground'
    BY <2>0 DEF Stack, AtMostOneFG, FGSlots, ListedAreChildren, Listed, KeysSpareBackground
  <2>3. FGIsServed' /\ AwakeIsOver' /\ AddingIsNew' /\ SlotIsKept'
    BY <2>0 DEF FGIsServed, FGSlots, AwakeIsOver, AddingIsNew, SlotIsKept
  <2> QED
    BY <2>1, <2>2, <2>3
<1> QED
  BY <1>1, <1>2

\* The state that do_bgfg stores may go to a job it did not look up.
LEMMA SetStep ==
  ASSUME IInv, Set
  PROVE  IInv'
<1> USE DEF IInv
<1>a. /\ pc = "set" /\ depth = 0
      /\ jobs' = [jobs EXCEPT ![cmd.slot].state = cmd.want]
      /\ \/ pc' = "load" /\ cmd' = cmd
         \/ pc' = "reset" /\ cmd' = NoCmd
      /\ UNCHANGED <<nextjid, chld_reaped, pending, depth, h, child, shell>>
  BY DEF Set, setstate, Main, signalVars
<1>b. \A s \in Signals : h[s].pc = "idle"
  BY <1>a, MainRunsAlone
<1>1. TypeOK'
  <2>1. NoCmd \in [want : {"FG", "BG"}, pid : Pids \cup {NoPid}, slot : Slots, seen : States]
    BY SizeAssumption DEF NoCmd, Slots, States
  <2>2. jobs' \in [Slots -> Job]
    BY <1>a, <1>b DEF TypeOK, Job, States
  <2> QED
    BY <2>1, <2>2, <1>a, <1>b DEF TypeOK, MainPCs
<1>2. Stack'
  BY <1>a, <1>b DEF Stack
<1>3. cmd.slot \in Slots /\ \A i \in Slots : jobs'[i].pid = jobs[i].pid
  BY <1>a, <1>b DEF TypeOK, Job
<1>4. FGSlots = {}
  BY <1>a, <1>b DEF FGIsServed
<1>5. AtMostOneFG' /\ FGIsServed'
  BY <1>a, <1>b, <1>3, <1>4 DEF TypeOK, Job, AtMostOneFG, FGIsServed, FGSlots
<1>6. ListedAreChildren'
  <2>1. Listed' = Listed
    BY <1>3 DEF Listed
  <2> QED
    BY <2>1, <1>a, <1>b, <1>3 DEF ListedAreChildren
<1>7. SlotIsKept'
  BY <1>a, <1>b, <1>3 DEF TypeOK, Job, SlotIsKept
<1>8. AwakeIsOver' /\ AddingIsNew' /\ KeysSpareBackground'
  BY <1>a, <1>b DEF AwakeIsOver, AddingIsNew, KeysSpareBackground, Signals
<1> QED
  BY <1>1, <1>2, <1>5, <1>6, <1>7, <1>8

\* do_bgfg reads the pid of the slot again.
LEMMA LoadStep ==
  ASSUME IInv, Load
  PROVE  IInv'
<1> USE DEF IInv
<1>0. /\ pc = "load" /\ pc' = "kill" /\ depth = 0
      /\ cmd' = [cmd EXCEPT !.pid = jobs[cmd.slot].pid]
      /\ UNCHANGED <<jobs, nextjid, chld_reaped, pending, depth, h, child, shell>>
  BY DEF Load, Main, listVars, signalVars
<1>1. TypeOK'
  BY <1>0 DEF TypeOK, Job, MainPCs
<1>2. Stack' /\ AtMostOneFG' /\ ListedAreChildren' /\ KeysSpareBackground'
  BY <1>0 DEF Stack, AtMostOneFG, FGSlots, ListedAreChildren, Listed, KeysSpareBackground
<1>3. cmd'.want = cmd.want /\ cmd'.slot = cmd.slot /\ cmd'.pid = jobs[cmd.slot].pid
  BY <1>0 DEF TypeOK
<1>4. FGIsServed' /\ AwakeIsOver' /\ AddingIsNew' /\ SlotIsKept'
  BY <1>0, <1>3 DEF FGIsServed, FGSlots, AwakeIsOver, AddingIsNew, SlotIsKept
<1> QED
  BY <1>1, <1>2, <1>4

\* SIGCONT goes to the pid that was read.
LEMMA ContStep ==
  ASSUME IInv, Cont
  PROVE  IInv'
<1> USE DEF IInv
<1>1. CASE unix_error
  BY <1>1, ErrorStep
<1>2. CASE ~unix_error
  <2>0. /\ pc = "kill" /\ depth = 0 /\ cmd' = NoCmd
        /\ pc' = IF cmd.want = "FG" THEN "reset" ELSE "read"
        /\ UNCHANGED <<jobs, nextjid, chld_reaped, depth, h, shell>>
        /\ pending' \in {pending, pending \cup {"CHLD"}}
        /\ \/ child' = child
           \/ /\ child[cmd.pid] \in {"stopping", "stopped"}
              /\ child' = [child EXCEPT ![cmd.pid] = "running"]
    BY <1>2 DEF Cont, Main, listVars
  <2>1. TypeOK'
    <3>1. NoCmd \in [want : {"FG", "BG"}, pid : Pids \cup {NoPid}, slot : Slots, seen : States]
      BY SizeAssumption DEF NoCmd, Slots, States
    <3> QED
      BY <2>0, <3>1 DEF TypeOK, MainPCs, ChildStates, Signals
  <2>2. Stack' /\ AtMostOneFG' /\ KeysSpareBackground'
    BY <2>0 DEF Stack, AtMostOneFG, FGSlots, KeysSpareBackground
  <2>3. FGIsServed' /\ AwakeIsOver' /\ AddingIsNew' /\ SlotIsKept'
    BY <2>0 DEF TypeOK, FGIsServed, FGSlots, AwakeIsOver, AddingIsNew, SlotIsKept
  <2>4. ListedAreChildren'
    <3>1. \A p \in Pids : child'[p] = "none" => child[p] = "none"
      BY <2>0 DEF TypeOK
    <3> QED
      BY <2>0, <3>1, ChildrenKept
  <2> QED
    BY <2>1, <2>2, <2>3, <2>4
<1> QED
  BY <1>1, <1>2

\* waitfg resets the flag, and returns when it is set.
LEMMA WaitfgStep ==
  ASSUME IInv, Reset \/ Wake
  PROVE  IInv'
<1> USE DEF IInv
<1>0. /\ depth = 0
      /\ \/ /\ pc = "reset" /\ pc' = "wait" /\ chld_reaped' = FALSE
         \/ pc = "wait" /\ chld_reaped /\ pc' = "read" /\ chld_reaped' = chld_reaped
      /\ UNCHANGED <<jobs, nextjid, cmd, pending, depth, h, child, shell>>
  BY DEF Reset, Wake, Main, listVars, signalVars
<1>1. \A s \in Signals : h[s].pc = "idle"
  BY <1>0, MainRunsAlone
<1>2. pc = "wait" /\ chld_reaped => FGSlots = {}
  BY <1>1 DEF AwakeIsOver, Signals
<1>3. TypeOK'
  BY <1>0 DEF TypeOK, MainPCs
<1>4. Stack' /\ AtMostOneFG' /\ ListedAreChildren' /\ KeysSpareBackground'
  BY <1>0 DEF Stack, AtMostOneFG, FGSlots, ListedAreChildren, Listed, KeysSpareBackground
<1>5. FGIsServed' /\ AwakeIsOver' /\ AddingIsNew' /\ SlotIsKept'
  BY <1>0, <1>2 DEF FGIsServed, FGSlots, AwakeIsOver, AddingIsNew, SlotIsKept
<1> QED
  BY <1>3, <1>4, <1>5

\* A handler starts on top of the stack.
LEMMA DeliverStep ==
  ASSUME IInv, NEW s \in Signals, Deliver(s)
  PROVE  IInv'
<1> USE DEF IInv
<1> DEFINE new == Entered(s, depth + 1)
<1>0. /\ h[s].pc = "idle" /\ depth' = depth + 1 /\ h' = [h EXCEPT ![s] = new]
      /\ pending' = pending \ {s} /\ ~(s = "CHLD" /\ pc = "add")
      /\ UNCHANGED <<jobs, nextjid, pc, cmd, chld_reaped, child, shell>>
  BY DEF Deliver, Blocked, listVars, mainVars
<1>1. h'[s] = new /\ \A t \in Signals \ {s} : h'[t] = h[t]
  BY <1>0 DEF TypeOK
<1>n. new = [pc |-> IF s = "CHLD" THEN "reap" ELSE "readfg", level |-> depth + 1,
            pid |-> NoPid, stopped |-> FALSE]
  BY DEF Entered
<1> HIDE DEF new
<1>2. h[s].level = 0 /\ \A t \in Signals : h[t].level \in 0..3
  BY <1>0 DEF TypeOK, Handler, Stack
<1>3. depth' \in 0..3 /\ depth' = depth + 1 /\ depth \in 0..2
  <2>1. depth # 3
    <3>1. SUFFICES ASSUME depth = 3 PROVE FALSE
      OBVIOUS
    <3>2. /\ \E t \in Signals : h[t].level = 1
          /\ \E t \in Signals : h[t].level = 2
          /\ \E t \in Signals : h[t].level = 3
      BY <3>1 DEF Stack
    <3> QED
      BY <3>2, <1>2 DEF Signals
  <2> QED
    BY <2>1, <1>0 DEF TypeOK
<1>4. TypeOK'
  <2>1. new \in Handler
    BY <1>3, <1>n DEF Handler, HandlerPCs
  <2> QED
    BY <2>1, <1>0, <1>3 DEF TypeOK
<1>5. Stack'
  <2>1. /\ h'[s].level = depth + 1
        /\ h'[s].pc = IF s = "CHLD" THEN "reap" ELSE "readfg"
    BY <1>1, <1>n
  <2>2. \A t \in Signals : (h'[t].pc = "idle" <=> h'[t].level = 0) /\ h'[t].level <= depth'
    BY <2>1, <1>1, <1>2, <1>3 DEF Stack
  <2>3. \A t, u \in Signals : h'[t].level = h'[u].level /\ h'[t].level > 0 => t = u
    BY <2>1, <1>1, <1>2, <1>3 DEF Stack
  <2>4. \A d \in 1..depth' : \E t \in Signals : h'[t].level = d
    <3>1. SUFFICES ASSUME NEW d \in 1..depth' PROVE \E t \in Signals : h'[t].level = d
      OBVIOUS
    <3>2. CASE d = depth + 1
      BY <3>2, <2>1
    <3>3. CASE d # depth + 1
      <4>1. d \in 1..depth
        BY <3>3, <1>3
      <4>2. PICK t \in Signals : h[t].level = d
        BY <4>1 DEF Stack
      <4>3. t # s
        BY <4>1, <4>2, <1>2
      <4> QED
        BY <4>2, <4>3, <1>1
    <3> QED
      BY <3>2, <3>3
  <2>5. /\ h'["CHLD"].pc \in {"idle", "reap", "update"}
        /\ \A t \in {"INT", "TSTP"} : h'[t].pc \in {"idle", "readfg", "kill"}
        /\ \A t \in Signals : h'[t].pc \in {"update", "kill"} => h'[t].pid # NoPid
    BY <2>1, <1>1 DEF Stack, Signals
  <2> QED
    BY <2>2, <2>3, <2>4, <2>5 DEF Stack
<1>6. /\ h["CHLD"].pc = "update" => h'["CHLD"] = h["CHLD"]
      /\ pc = "add" => h'["CHLD"] = h["CHLD"]
      /\ \A t \in Signals : h'[t].pc = "kill" => h'[t] = h[t]
  BY <1>0, <1>1, <1>n DEF Signals
<1>7. AtMostOneFG' /\ FGIsServed' /\ SlotIsKept'
  BY <1>0 DEF AtMostOneFG, FGIsServed, SlotIsKept, FGSlots, Listed
<1>8. AwakeIsOver' /\ ListedAreChildren' /\ AddingIsNew' /\ KeysSpareBackground'
  BY <1>0, <1>6 DEF AwakeIsOver, ListedAreChildren, AddingIsNew, KeysSpareBackground,
     FGSlots, Listed, Signals
<1> QED
  BY <1>4, <1>5, <1>7, <1>8

\* The built-in quit ends the shell.
LEMMA QuitStep ==
  ASSUME IInv, Quit
  PROVE  IInv'
BY DEF IInv, Quit, TypeOK, Stack, AtMostOneFG, FGIsServed, AwakeIsOver, ListedAreChildren,
   AddingIsNew, KeysSpareBackground, SlotIsKept, FGSlots, Listed, listVars, mainVars, signalVars

\* The steps of the processes: setpgid, exit, stop, continue.
LEMMA ChildStep ==
  ASSUME IInv, NEW p \in Pids, Setpgid(p) \/ Exit(p) \/ Stopped(p) \/ Continue(p)
  PROVE  IInv'
<1> USE DEF IInv
<1>0. /\ child[p] # "none"
      /\ \E to \in {"running", "stopping", "zombie"} : child' = [child EXCEPT ![p] = to]
      /\ pending' \in {pending, pending \cup {"CHLD"}}
      /\ UNCHANGED <<jobs, nextjid, pc, cmd, chld_reaped, depth, h, shell>>
  BY DEF Setpgid, Exit, Stopped, Continue, ChildMoves, listVars, mainVars, signalVars
<1>1. TypeOK'
  BY <1>0 DEF TypeOK, ChildStates, Signals
<1>2. \A q \in Pids : child'[q] = "none" <=> child[q] = "none"
  BY <1>0 DEF TypeOK
<1>3. ListedAreChildren'
  BY <1>0, <1>2, ChildrenKept
<1>4. AddingIsNew'
  BY <1>0, <1>2 DEF TypeOK, AddingIsNew, Listed
<1>5. (Stack /\ AtMostOneFG /\ FGIsServed /\ AwakeIsOver /\ KeysSpareBackground /\ SlotIsKept)'
  BY <1>0 DEF Stack, AtMostOneFG, FGIsServed, AwakeIsOver, KeysSpareBackground, SlotIsKept,
     FGSlots, Listed
<1> QED
  BY <1>1, <1>3, <1>4, <1>5

\* A key handler reads the pid of the foreground job.
LEMMA ReadfgStep ==
  ASSUME IInv, NEW s \in {"INT", "TSTP"}, key_readfg(s)
  PROVE  IInv'
<1> USE DEF IInv
<1>0. /\ h[s].pc = "readfg" /\ h[s].level = depth /\ s \in Signals /\ s # "CHLD"
      /\ UNCHANGED <<jobs, nextjid, pc, cmd, chld_reaped, pending, child, shell>>
      /\ \/ depth' = depth - 1 /\ h' = [h EXCEPT ![s] = Idle]
         \/ /\ fgpid # NoPid /\ depth' = depth
            /\ h' = [h EXCEPT ![s].pc = "kill", ![s].pid = fgpid]
  BY DEF key_readfg, Top, Return, Signals, listVars, mainVars
<1>1. /\ TypeOK' /\ Stack' /\ h'["CHLD"] = h["CHLD"]
      /\ \A t \in {"INT", "TSTP"} : h'[t].pc = "kill" =>
           \/ h'[t] = h[t]
           \/ h'[t].pid = fgpid /\ fgpid # NoPid
  <2>1. CASE depth' = depth - 1 /\ h' = [h EXCEPT ![s] = Idle]
    <3>1. /\ Stack' /\ depth' \in 0..3 /\ h' \in [Signals -> Handler]
          /\ h'[s].pc = "idle" /\ \A t \in Signals \ {s} : h'[t] = h[t]
      BY <1>0, <2>1, ReturnPops
    <3> QED
      BY <1>0, <3>1 DEF TypeOK, Signals
  <2>2. CASE /\ fgpid # NoPid /\ depth' = depth
             /\ h' = [h EXCEPT ![s].pc = "kill", ![s].pid = fgpid]
    <3>1. fgpid \in Pids
      BY <2>2, FgpidIn DEF TypeOK, Job, FGSlots
    <3>2. h' \in [Signals -> Handler]
      BY <1>0, <2>2, <3>1 DEF TypeOK, Handler, HandlerPCs
    <3>3. /\ h'[s].pc = "kill" /\ h'[s].pid = fgpid /\ h'[s].level = h[s].level
          /\ \A t \in Signals \ {s} : h'[t] = h[t]
      BY <1>0, <2>2 DEF TypeOK, Handler
    <3>4. Stack'
      <4>0. fgpid # NoPid /\ depth' = depth
        BY <2>2
      <4>1. \A t \in Signals : h'[t].level = h[t].level
        BY <3>3
      <4>2. \A t \in Signals : h'[t].pc = "idle" <=> h[t].pc = "idle"
        BY <1>0, <3>3
      <4>3. /\ h'["CHLD"].pc \in {"idle", "reap", "update"}
            /\ \A t \in {"INT", "TSTP"} : h'[t].pc \in {"idle", "readfg", "kill"}
            /\ \A t \in Signals : h'[t].pc \in {"update", "kill"} => h'[t].pid # NoPid
        <5> DEFINE g == h'
        <5>1. /\ g[s].pc = "kill" /\ g[s].pid # NoPid
              /\ \A t \in Signals \ {s} : g[t] = h[t]
          BY <4>0, <3>3
        <5> HIDE DEF g
        <5>2. /\ g["CHLD"].pc \in {"idle", "reap", "update"}
              /\ \A t \in {"INT", "TSTP"} : g[t].pc \in {"idle", "readfg", "kill"}
              /\ \A t \in Signals : g[t].pc \in {"update", "kill"} => g[t].pid # NoPid
          BY <5>1, <1>0 DEF Stack, Signals
        <5> QED
          BY <5>2 DEF g
      <4> QED
        BY <4>0, <4>1, <4>2, <4>3 DEF Stack
    <3> QED
      BY <1>0, <2>2, <3>2, <3>3, <3>4 DEF TypeOK, Signals
  <2> QED
    BY <1>0, <2>1, <2>2
<1>2. KeysSpareBackground'
  <2>1. fgpid # NoPid => \A i \in Slots : jobs[i].pid = fgpid => jobs[i].state = "FG"
    BY FgpidIn DEF ListedAreChildren, FGSlots
  <2> QED
    BY <1>0, <1>1, <2>1 DEF KeysSpareBackground
<1>3. ListedAreChildren'
  BY <1>0, <1>1, ChildrenKept
<1>4. (AtMostOneFG /\ FGIsServed /\ AwakeIsOver /\ AddingIsNew /\ SlotIsKept)'
  BY <1>0, <1>1 DEF AtMostOneFG, FGIsServed, AwakeIsOver, AddingIsNew, SlotIsKept, FGSlots, Listed
<1> QED
  BY <1>1, <1>2, <1>3, <1>4

\* A key handler signals the pid it has read.
LEMMA KillStep ==
  ASSUME IInv, NEW s \in {"INT", "TSTP"}, key_kill(s)
  PROVE  IInv'
<1> USE DEF IInv
<1>1. CASE unix_error
  BY <1>1, ErrorStep
<1>2. CASE ~unix_error
  <2>0. /\ h[s].pc = "kill" /\ h[s].level = depth /\ s \in Signals /\ s # "CHLD"
        /\ depth' = depth - 1 /\ h' = [h EXCEPT ![s] = Idle]
        /\ UNCHANGED <<jobs, nextjid, pc, cmd, chld_reaped, shell>>
        /\ pending' \in {pending, pending \cup {"CHLD"}}
        /\ \/ child' = child
           \/ /\ child[h[s].pid] = "running"
              /\ \E to \in {"zombie", "stopping"} : child' = [child EXCEPT ![h[s].pid] = to]
    BY <1>2 DEF key_kill, Top, Return, Signals, listVars, mainVars
  <2>1. /\ Stack' /\ depth' \in 0..3 /\ h' \in [Signals -> Handler]
        /\ h'[s].pc = "idle" /\ \A t \in Signals \ {s} : h'[t] = h[t]
    BY <2>0, ReturnPops
  <2>2. child' \in [Pids -> ChildStates] /\ pending' \subseteq Signals
    BY <2>0 DEF TypeOK, ChildStates, Signals
  <2>3. TypeOK'
    BY <2>0, <2>1, <2>2 DEF TypeOK
  <2>4. h'["CHLD"] = h["CHLD"]
    BY <2>0, <2>1 DEF Signals
  <2>5. \A q \in Pids : child'[q] = "none" <=> child[q] = "none"
    BY <2>0 DEF TypeOK
  <2>6. ListedAreChildren'
    BY <2>0, <2>4, <2>5, ChildrenKept
  <2>7. AddingIsNew'
    BY <2>0, <2>4, <2>5 DEF TypeOK, AddingIsNew, Listed
  <2>8. KeysSpareBackground'
    BY <2>0, <2>1 DEF KeysSpareBackground, Signals
  <2>9. AtMostOneFG' /\ FGIsServed' /\ AwakeIsOver' /\ SlotIsKept'
    BY <2>0, <2>4 DEF AtMostOneFG, FGIsServed, AwakeIsOver, SlotIsKept, FGSlots, Listed
  <2> QED
    BY <2>1, <2>3, <2>6, <2>7, <2>8, <2>9
<1> QED
  BY <1>1, <1>2

\* sigchld_handler collects one child.
LEMMA ReapStep ==
  ASSUME IInv, sigchld_reap
  PROVE  IInv'
<1> USE DEF IInv
<1>0. h["CHLD"].pc = "reap" /\ h["CHLD"].level = depth /\ "CHLD" \in Signals
  BY DEF sigchld_reap, Top, Signals
<1>1. CASE unix_error
  BY <1>1, ErrorStep
<1>2. CASE /\ Return("CHLD")
           /\ UNCHANGED <<listVars, mainVars, chld_reaped, child, shell>>
  <2>0. /\ depth' = depth - 1 /\ h' = [h EXCEPT !["CHLD"] = Idle]
        /\ UNCHANGED <<jobs, nextjid, pc, cmd, chld_reaped, pending, child, shell>>
    BY <1>2 DEF Return, listVars, mainVars
  <2>1. /\ Stack' /\ depth' \in 0..3 /\ h' \in [Signals -> Handler]
        /\ h'["CHLD"].pc = "idle" /\ \A t \in Signals \ {"CHLD"} : h'[t] = h[t]
    BY <1>0, <2>0, ReturnPops
  <2>2. TypeOK'
    BY <2>0, <2>1 DEF TypeOK
  <2>3. KeysSpareBackground'
    BY <2>0, <2>1 DEF KeysSpareBackground, Signals
  <2>4. ListedAreChildren' /\ AwakeIsOver' /\ AddingIsNew'
    BY <1>0, <2>0, <2>1 DEF ListedAreChildren, AwakeIsOver, AddingIsNew, FGSlots, Listed
  <2>5. AtMostOneFG' /\ FGIsServed' /\ SlotIsKept'
    BY <2>0 DEF AtMostOneFG, FGIsServed, SlotIsKept, FGSlots, Listed
  <2> QED
    BY <2>1, <2>2, <2>3, <2>4, <2>5
<1>3. CASE \E p \in Waitable :
          /\ chld_reaped' = (chld_reaped \/ p = fgpid)
          /\ child' = [child EXCEPT ![p] = IF @ = "zombie" THEN "none" ELSE "stopped"]
          /\ h' = [h EXCEPT !["CHLD"] = [pc |-> "update", level |-> depth, pid |-> p,
                                         stopped |-> child[p] = "stopping"]]
          /\ UNCHANGED <<listVars, mainVars, pending, depth, shell>>
  <2>1. PICK p \in Waitable :
          /\ chld_reaped' = (chld_reaped \/ p = fgpid)
          /\ child' = [child EXCEPT ![p] = IF @ = "zombie" THEN "none" ELSE "stopped"]
          /\ h' = [h EXCEPT !["CHLD"] = [pc |-> "update", level |-> depth, pid |-> p,
                                         stopped |-> child[p] = "stopping"]]
          /\ UNCHANGED <<listVars, mainVars, pending, depth, shell>>
    BY <1>3
  <2>2. /\ p \in Pids /\ p # NoPid /\ child[p] \in {"stopping", "zombie"}
        /\ UNCHANGED <<jobs, nextjid, pc, cmd, pending, depth, shell>>
    BY <2>1, NoPidAssumption DEF Waitable, listVars, mainVars
  <2>3. /\ h'["CHLD"] = [pc |-> "update", level |-> depth, pid |-> p,
                         stopped |-> (child[p] = "stopping")]
        /\ \A t \in Signals \ {"CHLD"} : h'[t] = h[t]
        /\ h' \in [Signals -> Handler]
    BY <1>0, <2>1, <2>2 DEF TypeOK, Handler, HandlerPCs
  <2>4. TypeOK'
    <3>1. child' \in [Pids -> ChildStates]
      BY <2>1 DEF TypeOK, ChildStates
    <3>2. chld_reaped' \in BOOLEAN
      BY <2>1 DEF TypeOK
    <3> QED
      BY <2>2, <2>3, <3>1, <3>2 DEF TypeOK
  <2>5. /\ h'["CHLD"].pc = "update" /\ h'["CHLD"].level = depth
        /\ h'["CHLD"].pid = p /\ h'["CHLD"].stopped = (child[p] = "stopping")
    BY <2>3
  <2>6. Stack'
    <3>1. \A t \in Signals : h'[t].level = h[t].level
      BY <1>0, <2>3, <2>5
    <3>2. \A t \in Signals : h'[t].pc = "idle" <=> h[t].pc = "idle"
      BY <1>0, <2>3, <2>5
    <3>3. /\ \A t \in {"INT", "TSTP"} : h'[t].pc \in {"idle", "readfg", "kill"}
          /\ \A t \in Signals : h'[t].pc \in {"update", "kill"} => h'[t].pid # NoPid
      BY <2>2, <2>3, <2>5 DEF Stack, Signals
    <3> QED
      BY <2>2, <2>5, <3>1, <3>2, <3>3 DEF Stack
  <2>7. ListedAreChildren'
    <3>1. \A q \in Listed : child[q] # "none"
      BY <1>0 DEF ListedAreChildren
    <3>2. Listed \subseteq Pids
      BY DEF TypeOK, Job, Listed
    <3>3. \A q \in Listed : child'[q] = "none" => q = p /\ child[p] = "zombie"
      BY <2>1, <2>2, <3>1, <3>2 DEF TypeOK
    <3> QED
      BY <2>2, <2>5, <3>3 DEF ListedAreChildren, Listed
  <2>8. AwakeIsOver'
    <3>1. p = fgpid => \A i \in FGSlots : jobs[i].pid = p
      BY <2>2, FgpidIn DEF AtMostOneFG
    <3>2. pc = "wait" /\ chld_reaped => FGSlots = {}
      BY <1>0 DEF AwakeIsOver
    <3> QED
      BY <2>1, <2>2, <2>5, <3>1, <3>2 DEF AwakeIsOver, FGSlots, TypeOK
  <2>9. AddingIsNew'
    BY <1>0, <2>2 DEF AddingIsNew
  <2>10. KeysSpareBackground'
    BY <2>2, <2>3 DEF KeysSpareBackground, Signals
  <2>11. AtMostOneFG' /\ FGIsServed' /\ SlotIsKept'
    BY <2>2 DEF AtMostOneFG, FGIsServed, SlotIsKept, FGSlots, Listed
  <2> QED
    BY <2>4, <2>6, <2>7, <2>8, <2>9, <2>10, <2>11
<1> QED
  BY <1>1, <1>2, <1>3 DEF sigchld_reap

\* sigchld_handler changes the list as the status says.
LEMMA UpdateStep ==
  ASSUME IInv, sigchld_update
  PROVE  IInv'
<1> USE DEF IInv
<1> DEFINE p == h["CHLD"].pid
<1>0. /\ h["CHLD"].pc = "update" /\ h["CHLD"].level = depth /\ "CHLD" \in Signals
      /\ p \in Pids /\ p # NoPid
      /\ UNCHANGED <<pc, cmd, chld_reaped, child>>
  BY DEF sigchld_update, Top, Signals, Stack, TypeOK, Handler, mainVars
<1>1. CASE shell' = "segv" /\ UNCHANGED <<listVars, signalVars>>
  BY <1>0, <1>1 DEF TypeOK, Stack, AtMostOneFG, FGIsServed, AwakeIsOver, ListedAreChildren,
     AddingIsNew, KeysSpareBackground, SlotIsKept, FGSlots, Listed, listVars, signalVars
<1>2. ASSUME Return("CHLD"), UNCHANGED shell, nextjid' \in Nat, NEW e \in Job,
             e.state \in {"ST", "UNDEF"},
             IF h["CHLD"].stopped THEN e.pid = p /\ e.state = "ST" ELSE e.pid = NoPid,
             \/ jobs' = jobs /\ (\A k \in Slots : jobs[k].pid # p)
             \/ \E i \in Slots : jobs[i].pid = p /\ jobs' = [jobs EXCEPT ![i] = e]
      PROVE  IInv'
  <2>1. /\ depth' = depth - 1 /\ h' = [h EXCEPT !["CHLD"] = Idle] /\ pending' = pending
    BY <1>2 DEF Return
  <2>2. /\ Stack' /\ depth' \in 0..3 /\ h' \in [Signals -> Handler]
        /\ h'["CHLD"].pc = "idle" /\ \A t \in Signals \ {"CHLD"} : h'[t] = h[t]
    BY <1>0, <2>1, ReturnPops
  <2>3. jobs' \in [Slots -> Job]
    BY <1>2 DEF TypeOK
  <2>4. TypeOK'
    BY <1>0, <1>2, <2>1, <2>2, <2>3 DEF TypeOK
  \* Only the slot of p changes, and it is not in the foreground afterwards.
  <2>5. \A k \in Slots : IF jobs[k].pid = p THEN jobs'[k] = e ELSE jobs'[k] = jobs[k]
    BY <1>0, <1>2 DEF TypeOK, ListedAreChildren
  <2>6. \A k \in Slots : jobs'[k].state = "FG" => jobs[k].state = "FG" /\ jobs[k].pid # p
    BY <1>2, <2>5
  <2>7. AtMostOneFG' /\ FGIsServed'
    BY <1>0, <2>6 DEF AtMostOneFG, FGIsServed, FGSlots
  <2>8. AwakeIsOver'
    BY <1>0, <2>6 DEF AwakeIsOver, FGSlots
  <2>9. ListedAreChildren'
    <3>1. \A i, k \in Slots : jobs'[i].pid = jobs'[k].pid /\ jobs'[i].pid # NoPid => i = k
      BY <1>0, <1>2, <2>5 DEF ListedAreChildren
    <3>2. \A k \in Slots : jobs'[k].pid # NoPid =>
            jobs'[k].pid = jobs[k].pid /\ (jobs[k].pid = p => h["CHLD"].stopped)
      BY <1>0, <1>2, <2>5
    <3>3. \A k \in Slots : jobs'[k].pid # NoPid => child[jobs'[k].pid] # "none"
      BY <1>0, <3>2 DEF ListedAreChildren, Listed
    <3> QED
      BY <1>0, <3>1, <3>3 DEF ListedAreChildren, Listed
  <2>10. AddingIsNew'
    BY <1>0 DEF AddingIsNew
  <2>11. KeysSpareBackground'
    <3>1. \A k \in Slots, s \in {"INT", "TSTP"} : h[s].pc = "kill" /\ jobs'[k].pid = h[s].pid =>
            jobs'[k].state \in {"FG", "ST"}
      BY <1>0, <1>2, <2>5 DEF KeysSpareBackground, Stack, Signals
    <3> QED
      BY <2>2, <3>1 DEF KeysSpareBackground, Signals
  <2>12. SlotIsKept'
    <3>1. cmd.slot \in Slots
      BY DEF TypeOK
    <3>2. \A q : q # NoPid /\ q \notin Listed => q \notin Listed'
      BY <1>0, <1>2, <2>5 DEF Listed
    <3>3. jobs[cmd.slot].pid = p /\ ~h["CHLD"].stopped => p \notin Listed' /\ jobs'[cmd.slot].pid = NoPid
      BY <1>0, <1>2, <2>5, <3>1 DEF Listed
    <3>4. jobs[cmd.slot].pid = NoPid => jobs'[cmd.slot].pid = NoPid
      BY <1>0, <2>5, <3>1
    <3>5. h["CHLD"].stopped => jobs'[cmd.slot].pid = jobs[cmd.slot].pid
      BY <1>0, <1>2, <2>5, <3>1
    <3>6. jobs[cmd.slot].state \in {cmd.want, "ST"} =>
            jobs'[cmd.slot].state \in {cmd.want, "ST"} \/ jobs'[cmd.slot].pid = NoPid
      BY <1>0, <1>2, <2>5, <3>1
    <3>7. jobs'[cmd.slot].pid \in {jobs[cmd.slot].pid, NoPid}
      BY <1>0, <1>2, <2>5, <3>1
    <3>8. jobs[cmd.slot].pid # NoPid /\ jobs'[cmd.slot].pid = NoPid => jobs[cmd.slot].pid \notin Listed'
      BY <1>0, <1>2, <2>5, <3>1, <3>3
    <3> QED
      BY <1>0, <3>2, <3>4, <3>6, <3>7, <3>8 DEF SlotIsKept
  <2> QED
    BY <2>2, <2>4, <2>7, <2>8, <2>9, <2>10, <2>11, <2>12
<1>3. CASE h["CHLD"].stopped /\ SlotsOf(p) # {} /\ setstate(getjobpid(p), "ST")
           /\ Return("CHLD") /\ UNCHANGED shell
  <2> DEFINE i == getjobpid(p)
             e == [jobs[i] EXCEPT !.state = "ST"]
  <2>1. i \in Slots /\ jobs[i].pid = p
    BY <1>3, GetjobpidIn
  <2>2. e \in Job /\ e.state = "ST" /\ e.pid = p
    BY <2>1 DEF TypeOK, Job, States
  <2>3. jobs' = [jobs EXCEPT ![i] = e] /\ nextjid' = nextjid
    BY <1>3 DEF setstate
  <2>4. nextjid' \in Nat
    BY <2>3 DEF TypeOK
  <2> HIDE DEF i, e
  <2> QED
    BY <1>2, <1>3, <2>1, <2>2, <2>3, <2>4
<1>4. CASE ~h["CHLD"].stopped /\ deletejob(p) /\ Return("CHLD") /\ UNCHANGED shell
  <2>1. nextjid' \in Nat
    BY <1>4, DeleteEffect DEF TypeOK
  <2>2. \/ jobs' = jobs /\ SlotsOf(p) = {}
        \/ \E i \in Slots : jobs[i].pid = p /\ jobs' = [jobs EXCEPT ![i] = Cleared]
    BY <1>4, DeleteEffect DEF TypeOK
  <2>3. SlotsOf(p) = {} => \A k \in Slots : jobs[k].pid # p
    BY DEF SlotsOf
  <2>4. Cleared \in Job /\ Cleared.state = "UNDEF" /\ Cleared.pid = NoPid
    BY DEF Cleared, Job, States
  <2> HIDE DEF p
  <2> QED
    BY <1>2, <1>4, <2>1, <2>2, <2>3, <2>4
<1> QED
  BY <1>1, <1>3, <1>4 DEF sigchld_update

----------------------------------------------------------------------------
(* The theorems. *)

\* The initial state has the invariant.
LEMMA InitIInv == Init => IInv
<1> SUFFICES ASSUME Init PROVE IInv
  OBVIOUS
<1>1. Cleared \in Job /\ Cleared.state = "UNDEF" /\ Cleared.pid = NoPid
  BY DEF Cleared, Job, States
<1>2. jobs \in [Slots -> Job] /\ \A i \in Slots : jobs[i] = Cleared
  BY <1>1 DEF Init, ListInit
<1>3. Idle \in Handler /\ Idle.pc = "idle" /\ Idle.level = 0
  BY DEF Idle, Handler, HandlerPCs
<1>4. h \in [Signals -> Handler] /\ \A s \in Signals : h[s].pc = "idle" /\ h[s].level = 0
  BY <1>3 DEF Init
<1>5. TypeOK
  <2>1. NoCmd \in [want : {"FG", "BG"}, pid : Pids \cup {NoPid}, slot : Slots, seen : States]
    BY SizeAssumption DEF NoCmd, Slots, States
  <2> QED
    <3>1. nextjid \in Nat /\ depth \in 0..3
      BY DEF Init, ListInit
    <3>2. child \in [Pids -> ChildStates]
      BY DEF Init, ChildStates
    <3>3. cmd = NoCmd /\ pc = "read" /\ chld_reaped = FALSE /\ pending = {} /\ shell = "up"
      BY DEF Init
    <3> QED
      BY <1>2, <1>4, <2>1, <3>1, <3>2, <3>3 DEF TypeOK, MainPCs
<1>6. Stack
  BY <1>4 DEF Init, Stack, Signals
<1>7. FGSlots = {} /\ Listed = {}
  BY <1>1, <1>2 DEF FGSlots, Listed
<1>8. ListedAreChildren
  BY <1>1, <1>2, <1>7 DEF ListedAreChildren
<1>9. AtMostOneFG /\ FGIsServed /\ AwakeIsOver /\ AddingIsNew /\ SlotIsKept
  BY <1>7 DEF Init, AtMostOneFG, FGIsServed, AwakeIsOver, AddingIsNew, SlotIsKept
<1>10. KeysSpareBackground
  BY <1>4 DEF KeysSpareBackground, Signals
<1> QED
  BY <1>5, <1>6, <1>8, <1>9, <1>10 DEF IInv

\* A step that changes nothing keeps the invariant.
LEMMA StutterStep ==
  ASSUME IInv, UNCHANGED vars
  PROVE  IInv'
BY DEF IInv, vars, TypeOK, Stack, AtMostOneFG, FGIsServed, AwakeIsOver, ListedAreChildren,
   AddingIsNew, KeysSpareBackground, SlotIsKept, FGSlots, Listed

\* Every step of the shell, the kernel and the processes keeps the invariant.
LEMMA NextIInv ==
  ASSUME IInv, [Next]_vars
  PROVE  IInv'
<1>1. CASE \E p \in Pids, w \in {"FG", "BG"} : Fork(p, w)
  BY <1>1, ForkStep
<1>2. CASE ForkFails
  BY <1>2, ErrorStep DEF ForkFails
<1>3. CASE \E w \in {"FG", "BG"} : FgBg(w)
  BY <1>3, FgBgStep
<1>4. CASE Add
  BY <1>4, AddStep
<1>5. CASE Switch
  BY <1>5, SwitchStep
<1>6. CASE Set
  BY <1>6, SetStep
<1>7. CASE Load
  BY <1>7, LoadStep
<1>8. CASE Cont
  BY <1>8, ContStep
<1>9. CASE Reset \/ Wake
  BY <1>9, WaitfgStep
<1>10. CASE \E s \in Signals : Deliver(s)
  BY <1>10, DeliverStep
<1>11. CASE sigchld_reap
  BY <1>11, ReapStep
<1>12. CASE sigchld_update
  BY <1>12, UpdateStep
<1>13. CASE \E s \in {"INT", "TSTP"} : key_readfg(s) \/ key_kill(s)
  BY <1>13, ReadfgStep, KillStep
<1>14. CASE \E s \in Keys : Keyboard(s)
  BY <1>14, KeyboardStep
<1>15. CASE Quit
  BY <1>15, QuitStep
<1>16. CASE \E p \in Pids : Setpgid(p) \/ Exit(p) \/ Stopped(p) \/ Continue(p)
  BY <1>16, ChildStep
<1>17. CASE UNCHANGED vars
  BY <1>17, StutterStep
<1> QED
  BY <1>1, <1>2, <1>3, <1>4, <1>5, <1>6, <1>7, <1>8, <1>9, <1>10, <1>11, <1>12, <1>13,
     <1>14, <1>15, <1>16, <1>17 DEF Next

\* The invariant holds in every reachable state.
THEOREM Invariance == Spec => []IInv
<1>1. Init => IInv
  BY InitIInv
<1>2. IInv /\ [Next]_vars => IInv'
  BY NextIInv
<1> QED
  BY <1>1, <1>2, PTL DEF Spec

\* Every variable of the shell keeps its type (tsh.c:41-55).
THEOREM TypeCorrect == Spec => []TypeOK
<1>1. IInv => TypeOK
  BY DEF IInv
<1> QED
  BY <1>1, Invariance, PTL

\* At most one job is in the foreground (tsh.c:37), for every length of the
\* list and however the handlers interleave with do_bgfg and waitfg.
THEOREM OneForeground == Spec => []AtMostOneFG
<1>1. IInv => AtMostOneFG
  BY DEF IInv
<1> QED
  BY <1>1, Invariance, PTL

\* waitfg never lets the shell go on while a job is in the foreground.
THEOREM WaitfgNotEarly == Spec => []NoFGOutsideWait
<1>1. IInv => NoFGOutsideWait
  BY DEF IInv, FGIsServed, NoFGOutsideWait
<1> QED
  BY <1>1, Invariance, PTL

\* Listed pids are distinct and belong to children the shell has not reaped.
THEOREM ListIsFaithful == Spec => []ListedAreChildren
<1>1. IInv => ListedAreChildren
  BY DEF IInv
<1> QED
  BY <1>1, Invariance, PTL

\* ctrl-c and ctrl-z never reach a background job.
THEOREM BackgroundSpared == Spec => []KeysSpareBackground
<1>1. IInv => KeysSpareBackground
  BY DEF IInv
<1> QED
  BY <1>1, Invariance, PTL

\* fg and bg send SIGCONT to the job they were given.
THEOREM RightJobContinued == Spec => []ContinuesItsJob
<1>1. IInv => ContinuesItsJob
  BY DEF IInv, SlotIsKept, ContinuesItsJob
<1> QED
  BY <1>1, Invariance, PTL
=============================================================================
