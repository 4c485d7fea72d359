------------------------------- MODULE MCTsh -------------------------------
(***************************************************************************)
(* Small instances of the shell for TLC.                                   *)
(***************************************************************************)
EXTENDS Tsh, FiniteSets, TLC

Symmetry == Permutations(Pids)

(***************************************************************************)
(* Several instances in one run: the processes used and the keys typed.    *)
(* Safety: two processes and both keys, or all of Pids, for which the list *)
(* is too short, and no key.                                               *)
(***************************************************************************)
VARIABLES used, typed

MCInit == /\ Init
          /\ \/ used \in SUBSET Pids /\ Cardinality(used) = 2 /\ typed = Keys
             \/ used = Pids /\ typed = {}

MCNext == /\ Next
          /\ UNCHANGED <<used, typed>>
          /\ \A p \in Pids \ used : child'[p] = "none"
          /\ pending' \subseteq {"CHLD"} \cup typed

MCSpec == MCInit /\ [][MCNext]_<<vars, used, typed>>

(***************************************************************************)
(* Liveness: one process and both keys; two processes and no key; two      *)
(* processes that do not stop, and ctrl-c.                                 *)
(***************************************************************************)
LiveInit == /\ Init
            /\ \/ used = {CHOOSE p \in Pids : TRUE} /\ typed = Keys
               \/ used = Pids /\ typed \in {{}, {"INT"}}

LiveNext == /\ MCNext
            /\ used = Pids /\ typed # {} => \A p \in Pids : ~Stopped(p)

LiveSpec == LiveInit /\ [][LiveNext]_<<vars, used, typed>> /\ Fairness
=============================================================================
