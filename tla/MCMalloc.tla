------------------------------ MODULE MCMalloc ------------------------------
(***************************************************************************)
(* The allocator for TLC: the block numbers are interchangeable, and the   *)
(* traces are mixed requests of the general kind, which leave few          *)
(* fragments so that the state space stays finite and small, the sizes of  *)
(* the binary traces, and the ones that break the code.                    *)
(***************************************************************************)
EXTENDS Malloc, TLC

Symmetry == Permutations(Handles)

MixedAndBinary == {[sizes |-> {1016, 3320, 4088}, blocks |-> 3, max |-> 12304],
                   [sizes |-> {8, 448, 4080}, blocks |-> 2, max |-> 8208],
                   [sizes |-> {16, 64, 112, 448}, blocks |-> 2, max |-> MaxHeap]}

Coalescing == {[sizes |-> {8, 4095}, blocks |-> 2, max |-> MaxHeap]}

BigPayload == {[sizes |-> {1016, 4400}, blocks |-> 2, max |-> MaxHeap]}

Binary == {[sizes |-> {16, 112}, blocks |-> 3, max |-> MaxHeap]}
=============================================================================
