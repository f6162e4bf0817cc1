------------------------------- MODULE MCFSM -------------------------------
(***************************************************************************)
(* Model checking of FSM: the nodes are interchangeable.                   *)
(***************************************************************************)
EXTENDS FSM, TLC

CONSTANTS n1, n2, n3

OneNode == {n1}

TwoNodes == {n1, n2}

ThreeNodes == {n1, n2, n3}

Symmetry == Permutations(Nodes)
============================================================================
