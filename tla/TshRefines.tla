----------------------------- MODULE TshRefines -----------------------------
(***************************************************************************)
(* The shell implements JobControl, and removes a job only when its        *)
(* process is reaped: proofs for every number of processes and slots.      *)
(***************************************************************************)
EXTENDS TshProofs

\* The handler deletes only what waitpid has reaped.
ReapedIsGone == h["CHLD"].pc = "update" /\ ~h["CHLD"].stopped => child[h["CHLD"].pid] = "none"

\* A listed job is in a state.
ListedHaveState == \A i \in Slots : jobs[i].pid # NoPid => jobs[i].state # "UNDEF"

\* What do_bgfg is about to overwrite: bg overwrites ST only.
SetOverwrites ==
  pc = "set" => \/ jobs[cmd.slot].pid = NoPid
                \/ jobs[cmd.slot].state = "ST"
                \/ jobs[cmd.slot].state = "BG" /\ cmd.want = "FG"

RInv == ReapedIsGone /\ ListedHaveState /\ SetOverwrites

----------------------------------------------------------------------------
(* The job list is changed by three actions only. *)

\* Add: the list is full, or a free slot takes the new job.
LEMMA AddJobs ==
  ASSUME IInv, Add
  PROVE  /\ depth = 0 /\ cmd.pid \in Pids /\ cmd.want \in {"FG", "BG"} /\ FGSlots = {}
         /\ cmd.pid \notin Listed
         /\ \/ jobs' = jobs
            \/ \E i \in Slots :
                 /\ jobs[i].pid = NoPid
                 /\ jobs' = [jobs EXCEPT ![i] =
                               [pid |-> cmd.pid, jid |-> nextjid, state |-> cmd.want]]
<1> USE DEF IInv
<1>1. /\ pc = "add" /\ depth = 0 /\ cmd.pid \in Pids /\ cmd.want \in {"FG", "BG"}
      /\ addjob(cmd.pid, cmd.want) /\ cmd.pid \notin Listed
  BY DEF TypeOK, AddingIsNew, Add, Main
<1>2. cmd.want \in States
  BY <1>1 DEF States
<1>3. FGSlots = {}
  BY <1>1 DEF FGIsServed
<1> QED
  BY <1>1, <1>2, <1>3, AddEffect DEF TypeOK

\* sigchld_update: the slot of the waited-for process stops or is cleared.
LEMMA UpdateJobs ==
  ASSUME IInv, sigchld_update
  PROVE  LET p == h["CHLD"].pid IN
         /\ h["CHLD"].pc = "update" /\ depth # 0 /\ p \in Pids
         /\ \/ jobs' = jobs
            \/ \E i \in Slots :
                 /\ jobs[i].pid = p
                 /\ \/ h["CHLD"].stopped /\ jobs' = [jobs EXCEPT ![i].state = "ST"]
                    \/ ~h["CHLD"].stopped /\ jobs' = [jobs EXCEPT ![i] = Cleared]
<1> USE DEF IInv
<1> DEFINE p == h["CHLD"].pid
<1>1. /\ h["CHLD"].pc = "update" /\ h["CHLD"].level = depth /\ "CHLD" \in Signals
      /\ p \in Pids
  BY DEF sigchld_update, Top, Signals, Stack, TypeOK, Handler
<1>2. depth # 0
  BY <1>1 DEF Stack
<1>3. CASE UNCHANGED listVars
  BY <1>1, <1>2, <1>3 DEF listVars
<1>4. CASE h["CHLD"].stopped /\ SlotsOf(p) # {} /\ setstate(getjobpid(p), "ST")
  <2> DEFINE i == getjobpid(p)
  <2>1. i \in Slots /\ jobs[i].pid = p
    BY <1>4, GetjobpidIn
  <2>2. jobs' = [jobs EXCEPT ![i].state = "ST"]
    BY <1>4 DEF setstate
  <2> HIDE DEF i
  <2> QED
    BY <1>1, <1>2, <1>4, <2>1, <2>2
<1>5. CASE ~h["CHLD"].stopped /\ deletejob(p)
  BY <1>1, <1>2, <1>5, DeleteEffect DEF TypeOK
<1> QED
  BY <1>3, <1>4, <1>5 DEF sigchld_update, listVars

\* Every other action but Set leaves the list alone.
LEMMA OtherJobs ==
  ASSUME [Next]_vars, ~Add, ~Set, ~sigchld_update
  PROVE  jobs' = jobs
BY DEF Next, vars, Fork, ForkFails, FgBg, Switch, Load, Cont, Reset, Wake, Deliver, sigchld_reap,
   key_readfg, key_kill, Keyboard, Quit, Setpgid, Exit, Stopped, Continue, ChildMoves, Return,
   unix_error, listVars

\* What do_bgfg stores, and where
LEMMA SetJobs ==
  ASSUME IInv, Set
  PROVE  /\ pc = "set" /\ depth = 0 /\ FGSlots = {}
         /\ cmd.slot \in Slots /\ cmd.want \in {"FG", "BG"}
         /\ jobs' = [jobs EXCEPT ![cmd.slot].state = cmd.want]
BY DEF IInv, TypeOK, FGIsServed, Set, Main, setstate

----------------------------------------------------------------------------
(* The second invariant. *)

\* A job that is about to be deleted stays reaped.
LEMMA ReapedStep ==
  ASSUME IInv, ReapedIsGone, [Next]_vars
  PROVE  ReapedIsGone'
<1> USE DEF IInv
<1>1. CASE sigchld_reap
  <2>1. CASE h' = h /\ child' = child
    BY <2>1 DEF ReapedIsGone
  <2>2. CASE h' = [h EXCEPT !["CHLD"] = Idle]
    BY <2>2 DEF ReapedIsGone, TypeOK, Signals, Idle
  <2>3. ASSUME NEW p \in Waitable,
               child' = [child EXCEPT ![p] = IF @ = "zombie" THEN "none" ELSE "stopped"],
               h' = [h EXCEPT !["CHLD"] = [pc |-> "update", level |-> depth, pid |-> p,
                                           stopped |-> child[p] = "stopping"]]
        PROVE  ReapedIsGone'
    <3>1. h'["CHLD"].pid = p /\ h'["CHLD"].stopped = (child[p] = "stopping")
      BY <2>3 DEF TypeOK, Signals
    <3>2. child[p] \in {"stopping", "zombie"} /\ p \in Pids
      BY DEF Waitable
    <3>3. child[p] = "zombie" => child'[p] = "none"
      BY <2>3, <3>2 DEF TypeOK
    <3> QED
      BY <3>1, <3>2, <3>3 DEF ReapedIsGone
  <2> QED
    BY <1>1, <2>1, <2>2, <2>3 DEF sigchld_reap, unix_error, Return, signalVars
<1>2. CASE \E p \in Pids, w \in {"FG", "BG"} : Fork(p, w)
  <2>1. depth = 0 /\ h' = h
    BY <1>2 DEF Fork, Main, signalVars
  <2>2. h["CHLD"].pc = "idle"
    BY <2>1, MainRunsAlone DEF Signals
  <2> QED
    BY <2>1, <2>2 DEF ReapedIsGone
<1>3. CASE ~sigchld_reap /\ ~(\E p \in Pids, w \in {"FG", "BG"} : Fork(p, w))
  <2>1. \A p \in Pids : child[p] = "none" => child'[p] = "none"
    BY <1>3 DEF TypeOK, Next, vars, ForkFails, FgBg, Add, Switch, Set, Load, Cont, Reset, Wake, Deliver,
       sigchld_update, key_readfg, key_kill, Keyboard, Quit, Setpgid, Exit, Stopped, Continue,
       ChildMoves, unix_error
  <2>2. h'["CHLD"] = h["CHLD"] \/ h'["CHLD"].pc # "update"
    <3>1. CASE h' = h
      BY <3>1
    <3>2. CASE \E s \in Signals : Deliver(s)
      BY <3>2 DEF Deliver, Entered, TypeOK, Signals
    <3>3. CASE sigchld_update
      BY <3>3 DEF sigchld_update, Return, Idle, TypeOK, Signals, signalVars
    <3>4. CASE \E s \in {"INT", "TSTP"} : key_readfg(s) \/ key_kill(s)
      BY <3>4 DEF key_readfg, key_kill, Return, unix_error, signalVars, TypeOK, Signals
    <3> QED
      BY <1>3, <3>1, <3>2, <3>3, <3>4 DEF Next, vars, ForkFails, FgBg, Add, Switch, Set, Load, Cont,
         Reset, Wake, Keyboard, Quit, Setpgid, Exit, Stopped, Continue, ChildMoves, unix_error,
         signalVars
  <2>3. h["CHLD"].pc = "update" => h["CHLD"].pid \in Pids
    BY DEF TypeOK, Stack, Handler, Signals
  <2> QED
    BY <2>1, <2>2, <2>3 DEF ReapedIsGone
<1> QED
  BY <1>1, <1>2, <1>3

\* A listed job keeps a state.
LEMMA HaveStateStep ==
  ASSUME IInv, ListedHaveState, [Next]_vars
  PROVE  ListedHaveState'
<1> USE DEF IInv
<1>1. CASE Add
  BY <1>1, AddJobs DEF ListedHaveState, TypeOK
<1>2. CASE Set
  BY <1>2, SetJobs DEF ListedHaveState, TypeOK, Job
<1>3. CASE sigchld_update
  BY <1>3, UpdateJobs DEF ListedHaveState, TypeOK, Job, Cleared
<1>4. CASE jobs' = jobs
  BY <1>4 DEF ListedHaveState
<1> QED
  BY <1>1, <1>2, <1>3, <1>4, OtherJobs

\* Set never stores over a foreground job.
LEMMA OverwritesStep ==
  ASSUME IInv, SetOverwrites, [Next]_vars
  PROVE  SetOverwrites'
<1> USE DEF IInv
<1>1. CASE Switch
  BY <1>1 DEF Switch, Main, SetOverwrites, TypeOK, unix_error, listVars, mainVars
<1>2. CASE sigchld_update
  <2>1. pc' = pc /\ cmd' = cmd
    BY <1>2 DEF sigchld_update, mainVars
  <2>2. cmd.slot \in Slots
    BY DEF TypeOK
  <2>3. \/ jobs'[cmd.slot] = jobs[cmd.slot]
        \/ jobs'[cmd.slot].state = "ST"
        \/ jobs'[cmd.slot].pid = NoPid
    BY <1>2, <2>2, UpdateJobs DEF TypeOK, Job, Cleared
  <2> QED
    BY <2>1, <2>3 DEF SetOverwrites
<1>3. CASE pc' # "set"
  BY <1>3 DEF SetOverwrites
<1>4. CASE pc' = pc /\ cmd' = cmd /\ jobs' = jobs
  BY <1>4, Zenon DEF SetOverwrites
<1>5. ~Switch /\ ~sigchld_update => pc' # "set" \/ (pc' = pc /\ cmd' = cmd /\ jobs' = jobs)
  BY Zenon DEF Next, vars, Fork, ForkFails, FgBg, Add, Set, Load, Cont, Reset, Wake, Deliver,
     sigchld_reap, key_readfg, key_kill, Keyboard, Quit, Setpgid, Exit, Stopped, Continue,
     ChildMoves, Return, unix_error, listVars, mainVars
<1> QED
  BY <1>1, <1>2, <1>3, <1>4, <1>5

\* The initial state has the invariant.
LEMMA InitRInv == Init => RInv
<1>1. Init => h["CHLD"].pc = "idle"
  BY DEF Init, Idle, Signals
<1>2. Init => \A i \in Slots : jobs[i].pid = NoPid
  BY DEF Init, ListInit, Cleared
<1>3. Init => pc # "set"
  BY DEF Init
<1> QED
  BY <1>1, <1>2, <1>3 DEF RInv, ReapedIsGone, ListedHaveState, SetOverwrites

\* Both invariants hold in every reachable state.
THEOREM RInvariance == Spec => [](IInv /\ RInv)
<1>1. Init => RInv
  BY InitRInv
<1>2. IInv /\ RInv /\ [Next]_vars => RInv'
  BY ReapedStep, HaveStateStep, OverwritesStep DEF RInv
<1> QED
  BY <1>1, <1>2, Invariance, PTL DEF Spec

\* A job leaves the list only after waitpid has reaped its process.
THEOREM RemovalsAreReapings == Spec => RemovedOnlyWhenReaped
<1>1. ASSUME IInv, RInv, [Next]_vars PROVE RemovalIsReaping
  <2>1. CASE Add
    BY <1>1, <2>1, AddJobs DEF RemovalIsReaping, IInv, TypeOK
  <2>2. CASE Set
    BY <1>1, <2>2, SetJobs DEF RemovalIsReaping, IInv, TypeOK, Job
  <2>3. CASE sigchld_update
    BY <1>1, <2>3, UpdateJobs DEF RemovalIsReaping, IInv, TypeOK, Job, RInv, ReapedIsGone
  <2>4. CASE jobs' = jobs
    BY <2>4 DEF RemovalIsReaping
  <2> QED
    BY <1>1, <2>1, <2>2, <2>3, <2>4, OtherJobs
<1> QED
  BY <1>1, RInvariance, PTL DEF Spec, RemovedOnlyWhenReaped

----------------------------------------------------------------------------
(* The refinement. *)

\* In a list of distinct pids the slot found for a pid is the one that holds it.
LEMMA SlotFound ==
  ASSUME NEW js, NEW i \in Slots,
         \A k \in Slots : js[k].pid = js[i].pid => k = i
  PROVE  First({k \in Slots : js[k].pid = js[i].pid}) = i
<1> DEFINE S == {k \in Slots : js[k].pid = js[i].pid}
<1>1. S \subseteq Slots /\ S # {} /\ \A k \in S : k = i
  OBVIOUS
<1> HIDE DEF S
<1>2. First(S) \in S
  BY <1>1, FirstIn
<1> QED
  BY <1>1, <1>2 DEF S

\* The abstract state of a process, before and after a step.
LEMMA StValue ==
  ASSUME ListedAreChildren
  PROVE  /\ st = [p \in Pids |-> st[p]]
         /\ \A i \in Slots : jobs[i].pid \in Pids => st[jobs[i].pid] = jobs[i].state
         /\ \A p \in Pids \ Listed : st[p] = "UNDEF"
<1>1. \A p \in Pids : st[p] = IF p \in Listed THEN jobs[getjobpid(p)].state ELSE "UNDEF"
  BY DEF st
<1>2. ASSUME NEW i \in Slots, jobs[i].pid \in Pids
      PROVE  st[jobs[i].pid] = jobs[i].state
  <2>1. jobs[i].pid # NoPid /\ jobs[i].pid \in Listed
    BY <1>2, NoPidAssumption DEF Listed
  <2>2. getjobpid(jobs[i].pid) = i
    BY <2>1, SlotFound DEF ListedAreChildren, getjobpid, SlotsOf
  <2> QED
    BY <1>1, <1>2, <2>1, <2>2
<1>3. st = [p \in Pids |-> st[p]]
  BY DEF st
<1> QED
  BY <1>1, <1>2, <1>3

\* The abstract state after a step
LEMMA StValueNext ==
  ASSUME ListedAreChildren'
  PROVE  /\ st' = [p \in Pids |-> st'[p]]
         /\ \A i \in Slots : jobs'[i].pid \in Pids => st'[jobs'[i].pid] = jobs'[i].state
         /\ \A p \in Pids \ Listed' : st'[p] = "UNDEF"
<1>1. \A p \in Pids :
        st'[p] = IF p \in Listed' THEN jobs'[First({k \in Slots : jobs'[k].pid = p})].state ELSE "UNDEF"
  BY DEF st, getjobpid, SlotsOf
<1>2. ASSUME NEW i \in Slots, jobs'[i].pid \in Pids
      PROVE  st'[jobs'[i].pid] = jobs'[i].state
  <2>1. jobs'[i].pid # NoPid /\ jobs'[i].pid \in Listed'
    BY <1>2, NoPidAssumption DEF Listed
  <2>2. First({k \in Slots : jobs'[k].pid = jobs'[i].pid}) = i
    <3>1. \A k \in Slots : jobs'[k].pid = jobs'[i].pid => k = i
      BY <2>1 DEF ListedAreChildren
    <3> DEFINE js == jobs'
    <3>2. \A k \in Slots : js[k].pid = js[i].pid => k = i
      BY <3>1
    <3> HIDE DEF js
    <3>3. First({k \in Slots : js[k].pid = js[i].pid}) = i
      BY <3>2, SlotFound
    <3> QED
      BY <3>3 DEF js
  <2> QED
    BY <1>1, <1>2, <2>1, <2>2
<1>3. st' = [p \in Pids |-> st'[p]]
  BY DEF st
<1> QED
  BY <1>1, <1>2, <1>3

\* A change of one slot is a change of one process.
LEMMA OneSlot ==
  ASSUME IInv, IInv', NEW i \in Slots, NEW p \in Pids, NEW v,
         \A k \in Slots \ {i} : jobs'[k] = jobs[k],
         jobs[i].pid \in {p, NoPid}, jobs'[i].pid \in {p, NoPid},
         \A k \in Slots \ {i} : jobs[k].pid # p,
         IF jobs'[i].pid = p THEN v = jobs'[i].state ELSE v = "UNDEF"
  PROVE  st' = [st EXCEPT ![p] = v]
<1> USE NoPidAssumption DEF IInv
<1>1. /\ \A k \in Slots : jobs[k].pid \in Pids => st[jobs[k].pid] = jobs[k].state
      /\ \A q \in Pids \ Listed : st[q] = "UNDEF"
      /\ st = [q \in Pids |-> st[q]]
  BY StValue
<1>2. /\ st' = [q \in Pids |-> st'[q]]
      /\ \A k \in Slots : jobs'[k].pid \in Pids => st'[jobs'[k].pid] = jobs'[k].state
      /\ \A q \in Pids \ Listed' : st'[q] = "UNDEF"
  BY StValueNext
<1>3. \A q \in Pids \ {p} : st'[q] = st[q]
  <2>1. SUFFICES ASSUME NEW q \in Pids \ {p} PROVE st'[q] = st[q]
    OBVIOUS
  <2>2. CASE \E k \in Slots : jobs[k].pid = q
    BY <2>2, <1>1, <1>2
  <2>3. CASE ~\E k \in Slots : jobs[k].pid = q
    <3>1. q \notin Listed /\ q \notin Listed'
      BY <2>3 DEF Listed
    <3> QED
      BY <3>1, <1>1, <1>2
  <2> QED
    BY <2>2, <2>3
<1>4. st'[p] = v
  <2>1. CASE jobs'[i].pid = p
    BY <2>1, <1>2
  <2>2. CASE jobs'[i].pid # p
    <3>1. p \notin Listed'
      BY <2>2 DEF Listed
    <3> QED
      BY <3>1, <2>2, <1>2
  <2> QED
    BY <2>1, <2>2
<1>5. st' = [q \in Pids |-> IF q = p THEN v ELSE st[q]]
  <2> DEFINE f == st'  g == st
  <2>1. f = [q \in Pids |-> f[q]] /\ f[p] = v /\ \A q \in Pids \ {p} : f[q] = g[q]
    BY <1>2, <1>3, <1>4
  <2> HIDE DEF f, g
  <2>2. f = [q \in Pids |-> IF q = p THEN v ELSE g[q]]
    BY <2>1
  <2> QED
    BY <2>2 DEF f, g
<1> QED
  BY <1>1, <1>5

\* addjob is Launch, or nothing when the list is full.
LEMMA AddRefines ==
  ASSUME IInv, IInv', Add
  PROVE  JC!Next \/ UNCHANGED st
<1> USE NoPidAssumption DEF IInv
<1> DEFINE p == cmd.pid  w == cmd.want
<1>0. /\ p \in Pids /\ w \in {"FG", "BG"} /\ FGSlots = {} /\ p \notin Listed
      /\ \/ jobs' = jobs
         \/ \E i \in Slots :
              /\ jobs[i].pid = NoPid
              /\ jobs' = [jobs EXCEPT ![i] = [pid |-> p, jid |-> nextjid, state |-> w]]
  BY AddJobs
<1>1. CASE jobs' = jobs
  BY <1>1 DEF st, Listed, getjobpid, SlotsOf
<1>2. CASE jobs' # jobs
  <2>1. PICK i \in Slots :
          /\ jobs[i].pid = NoPid
          /\ jobs' = [jobs EXCEPT ![i] = [pid |-> p, jid |-> nextjid, state |-> w]]
    BY <1>0, <1>2
  <2>2. /\ jobs'[i].pid = p /\ jobs'[i].state = w
        /\ \A k \in Slots \ {i} : jobs'[k] = jobs[k]
    BY <2>1 DEF TypeOK
  <2>3. \A k \in Slots : jobs[k].pid # p
    BY <1>0 DEF Listed
  <2>4. st' = [st EXCEPT ![p] = w]
    <3> HIDE DEF p, w
    <3> QED
      BY <1>0, <2>1, <2>2, <2>3, OneSlot
  <2>5. st[p] = "UNDEF"
    BY <1>0, StValue
  <2>6. \A q \in Pids : st[q] # "FG"
    <3>1. \A k \in Slots : jobs[k].state # "FG"
      BY <1>0 DEF FGSlots
    <3>2. \A q \in Listed : \E k \in Slots : jobs[k].pid = q
      BY DEF Listed
    <3> QED
      BY <3>1, <3>2, StValue
  <2>7. JC!NoneFG
    BY <2>6 DEF JC!NoneFG
  <2>8. JC!Launch(p)
    BY <1>0, <2>4, <2>5, <2>7 DEF JC!Launch
  <2> QED
    BY <1>0, <2>8 DEF JC!Next
<1> QED
  BY <1>1, <1>2

\* do_bgfg's store is Foreground or Background, or nothing on a cleared slot.
LEMMA SetRefines ==
  ASSUME IInv, IInv', RInv, Set
  PROVE  JC!Next \/ UNCHANGED st
<1> USE NoPidAssumption DEF IInv
<1> DEFINE i == cmd.slot  w == cmd.want  p == jobs[i].pid
<1>0. /\ FGSlots = {} /\ i \in Slots /\ w \in {"FG", "BG"} /\ pc = "set"
      /\ jobs' = [jobs EXCEPT ![i].state = w]
  BY SetJobs
<1>1. /\ jobs'[i].pid = p /\ jobs'[i].state = w
      /\ \A k \in Slots \ {i} : jobs'[k] = jobs[k]
  BY <1>0 DEF TypeOK, Job
<1>2. CASE p = NoPid
  <2>1. /\ st = [q \in Pids |-> st[q]] /\ st' = [q \in Pids |-> st'[q]]
        /\ \A k \in Slots : jobs[k].pid \in Pids => st[jobs[k].pid] = jobs[k].state
        /\ \A k \in Slots : jobs'[k].pid \in Pids => st'[jobs'[k].pid] = jobs'[k].state
        /\ \A q \in Pids \ Listed : st[q] = "UNDEF"
        /\ \A q \in Pids \ Listed' : st'[q] = "UNDEF"
    BY StValue, StValueNext
  <2>2. \A q \in Pids : st'[q] = st[q]
    <3>1. SUFFICES ASSUME NEW q \in Pids PROVE st'[q] = st[q]
      OBVIOUS
    <3>2. CASE \E k \in Slots : jobs[k].pid = q
      <4>1. PICK k \in Slots : jobs[k].pid = q
        BY <3>2
      <4>2. k # i
        BY <4>1, <1>2
      <4> QED
        BY <4>1, <4>2, <1>1, <2>1
    <3>3. CASE ~\E k \in Slots : jobs[k].pid = q
      <4>1. q \notin Listed /\ q \notin Listed'
        BY <3>3, <1>1 DEF Listed
      <4> QED
        BY <4>1, <2>1
    <3> QED
      BY <3>2, <3>3
  <2> QED
    <3> DEFINE f == st'  g == st
    <3>1. f = [q \in Pids |-> f[q]] /\ g = [q \in Pids |-> g[q]] /\ \A q \in Pids : f[q] = g[q]
      BY <2>1, <2>2
    <3> HIDE DEF f, g
    <3>2. f = g
      BY <3>1
    <3> QED
      BY <3>2 DEF f, g
<1>3. CASE p # NoPid
  <2>1. p \in Pids
    BY <1>0, <1>3 DEF TypeOK, Job
  <2>2. \A k \in Slots \ {i} : jobs[k].pid # p
    BY <1>0, <1>3 DEF ListedAreChildren
  <2>3. st' = [st EXCEPT ![p] = w]
    <3> HIDE DEF p, w, i
    <3>1. jobs[i].pid \in {p, NoPid} /\ jobs'[i].pid \in {p, NoPid}
      BY <1>1 DEF p
    <3> QED
      BY <1>0, <1>1, <2>1, <2>2, <3>1, OneSlot
  <2>4. st[p] = jobs[i].state
    BY <1>0, <2>1, StValue
  <2>5. JC!NoneFG
    <3>1. \A k \in Slots : jobs[k].state # "FG"
      BY <1>0 DEF FGSlots
    <3>2. \A q \in Listed : \E k \in Slots : jobs[k].pid = q
      BY DEF Listed
    <3> QED
      BY <3>1, <3>2, StValue DEF JC!NoneFG
  <2>6. jobs[i].state = "ST" \/ (jobs[i].state = "BG" /\ w = "FG")
    BY <1>0, <1>3 DEF RInv, SetOverwrites
  <2>7. JC!Foreground(p) \/ JC!Background(p)
    BY <1>0, <2>3, <2>4, <2>5, <2>6 DEF JC!Foreground, JC!Background
  <2> QED
    BY <2>1, <2>7 DEF JC!Next
<1> QED
  BY <1>2, <1>3

\* The handler's update is Stop or Remove.
LEMMA UpdateRefines ==
  ASSUME IInv, IInv', RInv, sigchld_update
  PROVE  JC!Next \/ UNCHANGED st
<1> USE NoPidAssumption DEF IInv
<1> DEFINE p == h["CHLD"].pid
<1>1. CASE jobs' = jobs
  BY <1>1 DEF st, Listed, getjobpid, SlotsOf
<1>2. CASE jobs' # jobs
  <2>1. PICK i \in Slots :
          /\ p \in Pids /\ jobs[i].pid = p
          /\ \/ h["CHLD"].stopped /\ jobs' = [jobs EXCEPT ![i].state = "ST"]
             \/ ~h["CHLD"].stopped /\ jobs' = [jobs EXCEPT ![i] = Cleared]
    BY <1>2, UpdateJobs
  <2> HIDE DEF p
  <2>2. p # NoPid /\ \A k \in Slots \ {i} : jobs[k].pid # p
    BY <2>1 DEF ListedAreChildren
  <2>3. \A k \in Slots \ {i} : jobs'[k] = jobs[k]
    BY <2>1 DEF TypeOK
  <2>4. st[p] # "UNDEF"
    BY <2>1, <2>2, StValue DEF RInv, ListedHaveState
  <2>5. CASE h["CHLD"].stopped
    <3>1. jobs'[i].pid = p /\ jobs'[i].state = "ST"
      BY <2>1, <2>5 DEF TypeOK, Job
    <3>2. st' = [st EXCEPT ![p] = "ST"]
      BY <2>1, <2>2, <2>3, <3>1, OneSlot
    <3> QED
      BY <2>1, <2>4, <3>2 DEF JC!Next, JC!Stop
  <2>6. CASE ~h["CHLD"].stopped
    <3>1. jobs'[i].pid = NoPid
      BY <2>1, <2>6 DEF TypeOK, Cleared
    <3>2. st' = [st EXCEPT ![p] = "UNDEF"]
      BY <2>1, <2>2, <2>3, <3>1, OneSlot
    <3> QED
      BY <2>1, <2>4, <3>2 DEF JC!Next, JC!Remove
  <2> QED
    BY <2>5, <2>6
<1> QED
  BY <1>1, <1>2

\* The shell implements the job states of tsh.c:30-37 for every number of
\* processes and slots: every step is a transition of JobControl or a stutter.
THEOREM ShellImplementsJobControl == Spec => ImplementsJobControl
<1>1. Init => JC!Init
  <2>1. Init => Listed = {}
    BY DEF Init, ListInit, Cleared, Listed
  <2> QED
    BY <2>1 DEF st, JC!Init
<1>2. IInv /\ IInv' /\ RInv /\ [Next]_vars => [JC!Next]_st
  <2>1. SUFFICES ASSUME IInv, IInv', RInv, [Next]_vars PROVE JC!Next \/ UNCHANGED st
    OBVIOUS
  <2>2. jobs' = jobs => UNCHANGED st
    BY DEF st, Listed, getjobpid, SlotsOf
  <2> QED
    BY <2>1, <2>2, OtherJobs, AddRefines, SetRefines, UpdateRefines
<1> QED
  BY <1>1, <1>2, RInvariance, PTL DEF Spec, JC!Spec, ImplementsJobControl
=============================================================================
