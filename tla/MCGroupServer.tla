--------------------------- MODULE MCGroupServer ---------------------------
(***************************************************************************)
(* Model checking of GroupServer: the clients are interchangeable.         *)
(***************************************************************************)
EXTENDS GroupServer, TLC

CONSTANTS n1, n2

OneNode == {n1}

TwoNodes == {n1, n2}

Symmetry == Permutations(Nodes)
============================================================================
