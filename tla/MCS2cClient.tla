---------------------------- MODULE MCS2cClient ----------------------------
(***************************************************************************)
(* Model checking of S2cClient: the callers are interchangeable.           *)
(***************************************************************************)
EXTENDS S2cClient, TLC

CONSTANTS p1, p2

OneCaller == {p1}

TwoCallers == {p1, p2}

Symmetry == Permutations(Callers)
============================================================================
