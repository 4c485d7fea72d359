------------------------------ MODULE JobList ------------------------------
(***************************************************************************)
(* The job list of the shell (src/lab9/tsh.c): the array jobs[MAXJOBS] and *)
(* the counter nextjid, with the routines that search and change them.     *)
(* The routines do no locking: Tsh composes them with the main loop and    *)
(* the signal handlers.  ListSpec runs them on their own.                  *)
(***************************************************************************)
EXTENDS Integers

CONSTANTS
  Pids,       \* the process ids the kernel hands out; an id is reused once
              \* its process is reaped
  NoPid,      \* the pid of a free slot (0 in the code)
  MAXJOBS,    \* number of slots of jobs[]
  JidBound    \* bound of the model: no job is added above this job id

ASSUME NoPidAssumption == NoPid \notin Pids
ASSUME SizeAssumption  == MAXJOBS \in Nat \ {0} /\ JidBound \in Nat

VARIABLES jobs, nextjid

listVars == <<jobs, nextjid>>

Slots  == 1..MAXJOBS
States == {"UNDEF", "FG", "BG", "ST"}
Job    == [pid : Pids \cup {NoPid}, jid : Nat, state : States]

\* clearjob
Cleared == [pid |-> NoPid, jid |-> 0, state |-> "UNDEF"]

\* Every routine scans the array upwards and stops at the first match.
First(S) == CHOOSE i \in S : \A k \in S : i <= k

SlotsOf(p) == {i \in Slots : jobs[i].pid = p}
Free       == SlotsOf(NoPid)
Listed     == {jobs[i].pid : i \in Slots} \ {NoPid}

\* getjobpid: the slot of p; its callers test SlotsOf(p) = {} for NULL.
getjobpid(p) == First(SlotsOf(p))

\* getjobjid: the same for a job id, which need not be unique.
SlotsOfJid(j) == {i \in Slots : jobs[i].jid = j}
getjobjid(j)  == First(SlotsOfJid(j))

\* Mutants of fgpid: it also takes a background job, or only one.
fgpidOrBG   == LET S == {i \in Slots : jobs[i].state \in {"FG", "BG"}}
               IN  IF S = {} THEN NoPid ELSE jobs[First(S)].pid
fgpidOnlyBG == LET S == {i \in Slots : jobs[i].state = "BG"}
               IN  IF S = {} THEN NoPid ELSE jobs[First(S)].pid

FGSlots == {i \in Slots : jobs[i].state = "FG"}
fgpid   == IF FGSlots = {} THEN NoPid ELSE jobs[First(FGSlots)].pid

\* maxjid of an array of jobs
maxjid(js) == LET jids == {js[i].jid : i \in Slots}
              IN  CHOOSE m \in jids : \A n \in jids : n <= m

ListInit == /\ jobs = [i \in Slots |-> Cleared]
            /\ nextjid = 1

\* Mutant of addjob: a full list loses its last job.
addjobOverwrites(p, s) ==
  LET i == IF Free = {} THEN MAXJOBS ELSE First(Free) IN
  /\ jobs' = [jobs EXCEPT ![i] = [pid |-> p, jid |-> nextjid, state |-> s]]
  /\ nextjid' = IF nextjid + 1 > MAXJOBS THEN 1 ELSE nextjid + 1

\* addjob: a full list drops the job, and eval ignores the result.
addjob(p, s) ==
  \/ /\ Free # {}
     /\ jobs' = [jobs EXCEPT ![First(Free)] =
                   [pid |-> p, jid |-> nextjid, state |-> s]]
     /\ nextjid' = IF nextjid + 1 > MAXJOBS THEN 1 ELSE nextjid + 1
  \/ Free = {} /\ UNCHANGED listVars

\* deletejob: the next job id starts again above the largest one in use.
deletejob(p) ==
  \/ /\ SlotsOf(p) # {}
     /\ jobs' = [jobs EXCEPT ![getjobpid(p)] = Cleared]
     /\ nextjid' = maxjid(jobs') + 1
  \/ SlotsOf(p) = {} /\ UNCHANGED listVars

setstate(i, s) == /\ jobs' = [jobs EXCEPT ![i].state = s]
                  /\ UNCHANGED nextjid

(***************************************************************************)
(* The list driven by one caller: background jobs come and go.             *)
(***************************************************************************)
ListNext == \/ \E p \in Pids \ Listed : nextjid <= JidBound /\ addjob(p, "BG")
            \/ \E p \in Listed : deletejob(p)

ListSpec == ListInit /\ [][ListNext]_listVars

(***************************************************************************)
(* "getjobjid - Find a job (by JID) on the job list" (tsh.c:576) and       *)
(* "nextjid: next job ID to allocate" (tsh.c:42): a job id names one job.  *)
(* The code breaks it: addjob wraps nextjid to 1 after id MAXJOBS although *)
(* an earlier deletejob has left room below, and id 1 may still be live.   *)
(***************************************************************************)
JidNamesOneJob ==
  \A i, k \in Slots :
    jobs[i].pid # NoPid /\ jobs[k].pid # NoPid /\ jobs[i].jid = jobs[k].jid
      => i = k
=============================================================================
