----------------------------- MODULE MCMdriver -----------------------------
(***************************************************************************)
(* Small traces for the driver: one that moves a block and frees it, one   *)
(* of a block whose number has bit 7 set, two in which a block may come to *)
(* lie around another, whose bytes only the first looks at again, and      *)
(* files that read_trace refuses.                                          *)
(***************************************************************************)
EXTENDS Mdriver

a(id, n) == [type |-> "a", index |-> id, size |-> n]
r(id, n) == [type |-> "r", index |-> id, size |-> n]
f(id)    == [type |-> "f", index |-> id, size |-> 0]

Moves  == [num_ids |-> 2, num_ops |-> 6,
           lines |-> <<a(0, 2), a(1, 3), r(0, 4), f(1), r(0, 1), f(0)>>]
Bit7   == [num_ids |-> 129, num_ops |-> 3, lines |-> <<a(128, 2), r(128, 3), f(128)>>]
Around == [num_ids |-> 3, num_ops |-> 6,
           lines |-> <<a(0, 1), a(1, 1), f(0), a(2, 5), r(1, 2), f(1)>>]
Unseen == [num_ids |-> 3, num_ops |-> 5, lines |-> <<a(0, 1), a(1, 1), f(0), a(2, 5), f(1)>>]

Bogus    == [num_ids |-> 1, num_ops |-> 2, lines |-> <<a(0, 1), [f(0) EXCEPT !.type = "x"]>>]
TooMany  == [num_ids |-> 1, num_ops |-> 1, lines |-> <<a(0, 1), f(0)>>]
TooFew   == [num_ids |-> 1, num_ops |-> 3, lines |-> <<a(0, 1), f(0)>>]
WrongIds == [num_ids |-> 2, num_ops |-> 2, lines |-> <<a(0, 1), f(0)>>]

SmallSuites == {<<Moves, Bit7>>, <<Around, Moves>>}
                 \cup {<<file>> : file \in {Unseen, Bogus, TooMany, TooFew, WrongIds}}
=============================================================================
