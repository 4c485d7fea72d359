---------------------------- MODULE JobControl ----------------------------
(***************************************************************************)
(* What the shell promises of its jobs: every listed process is in one of  *)
(* the states FG, BG, ST and moves only along these transitions, and       *)
(* never two are in the foreground.  Tsh refines this specification.       *)
(*                                                                         *)
(* The comment at src/lab9/tsh.c:30-37 lists FG -> ST, ST -> FG, ST -> BG  *)
(* and BG -> FG.  The code also allows BG -> ST (a background process      *)
(* stopped by a signal from elsewhere, tsh.c:414-418), which Stop allows.  *)
(***************************************************************************)
CONSTANT Pids

VARIABLE st

Init == st = [p \in Pids |-> "UNDEF"]

NoneFG == \A p \in Pids : st[p] # "FG"

\* eval: a new job, in the foreground or in the background
Launch(p) == /\ st[p] = "UNDEF"
             /\ \/ NoneFG /\ st' = [st EXCEPT ![p] = "FG"]
                \/ st' = [st EXCEPT ![p] = "BG"]

\* do_bgfg
Foreground(p) == /\ st[p] \in {"ST", "BG"}
                 /\ NoneFG
                 /\ st' = [st EXCEPT ![p] = "FG"]

Background(p) == /\ st[p] = "ST"
                 /\ st' = [st EXCEPT ![p] = "BG"]

\* sigchld_handler: a stop or a termination was reported
Stop(p) == /\ st[p] # "UNDEF"
           /\ st' = [st EXCEPT ![p] = "ST"]

Remove(p) == /\ st[p] # "UNDEF"
             /\ st' = [st EXCEPT ![p] = "UNDEF"]

\* A job that is stopped again has not changed.
Next == /\ st' # st
        /\ \E p \in Pids : \/ Launch(p)
                           \/ Foreground(p)
                           \/ Background(p)
                           \/ Stop(p)
                           \/ Remove(p)

Spec == Init /\ [][Next]_st
=============================================================================
