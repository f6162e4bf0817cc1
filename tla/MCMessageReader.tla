-------------------------- MODULE MCMessageReader --------------------------
(***************************************************************************)
(* Model checking of MessageReader: bytes are 0 and 1.                     *)
(***************************************************************************)
EXTENDS MessageReader

TwoBytes == {0, 1}
============================================================================
