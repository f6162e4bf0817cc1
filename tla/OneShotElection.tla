-------------------------- MODULE OneShotElection --------------------------
(***************************************************************************)
(* What the group promises about leadership, as simply as it can be said.  *)
(* Leadership of the group is one object that some node claims once and    *)
(* for all.  A node may start to lead only in the very step in which the   *)
(* claim becomes its own: a claim is never taken over, and a node that     *)
(* stops leading, or that did not lead when its claim was made, never      *)
(* leads again.                                                            *)
(***************************************************************************)
CONSTANTS Nodes,    \* the nodes of the group
          NoNode    \* the owner while nobody has claimed leadership

VARIABLES owner,    \* the node whose claim stands, or NoNode
          leading   \* the nodes that believe they lead

vars == <<owner, leading>>

Init == owner = NoNode /\ leading = {}

\* n's claim is recorded, and n learns of it in the same step or never.
Claim(n) ==
    /\ owner = NoNode
    /\ owner' = n
    /\ leading' \in {{n}, {}}

\* n stops leading.  Its claim stands.
StepDown(n) ==
    /\ n \in leading
    /\ leading' = leading \ {n}
    /\ UNCHANGED owner

Next == \E n \in Nodes : Claim(n) \/ StepDown(n)

Spec == Init /\ [][Next]_vars
============================================================================
