---------------------------- MODULE MCS2cServer ----------------------------
(***************************************************************************)
(* Model checking of S2cServer: two callers of close.                      *)
(***************************************************************************)
EXTENDS S2cServer

CONSTANTS p1, p2

TwoClosers == {p1, p2}
============================================================================
