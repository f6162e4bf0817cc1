------------------------------ MODULE MCS2cLog ------------------------------
(***************************************************************************)
(* Model checking of S2cLog.                                               *)
(***************************************************************************)
EXTENDS S2cLog, TLC

CONSTANTS p1, p2

TwoCallers == {p1, p2}

AllFaults == {"transient", "generic", "other"}

Transient == {"transient", "other"}

Symmetry == Permutations(Callers)
============================================================================
