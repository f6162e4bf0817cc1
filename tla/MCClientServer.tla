--------------------------- MODULE MCClientServer ---------------------------
(***************************************************************************)
(* Model checking of ClientServer: two callers of one client.              *)
(***************************************************************************)
EXTENDS ClientServer

CONSTANTS p1, p2

TwoCallers == {p1, p2}
=============================================================================
