------------------------------ MODULE MCProxy ------------------------------
(***************************************************************************)
(* The proxy for TLC: requests and replies with and without a body, cut    *)
(* off early, and refused; the connections and addresses are symmetric.    *)
(***************************************************************************)
EXTENDS Proxy, TLC

Symmetry == Permutations(Conns) \cup Permutations(Args)

Line(k) == [kind |-> k, n |-> 0]
Long(n) == [kind |-> "length", n |-> n]

MCRequests == {<<Line("junk")>>, <<Line("refused")>>,
               <<Line("get"), Long(1), Line("blank"), Line("byte")>>}

MCReplies == {<<Line("header"), Line("blank")>>,
              <<Long(1), Line("blank"), Line("byte")>>}
=============================================================================
