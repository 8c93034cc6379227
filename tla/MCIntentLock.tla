---------------------------- MODULE MCIntentLock ----------------------------
(***************************************************************************)
(* Small fleets for IntentLock.  a1 and a2 are agents that plan; a3, when  *)
(* present, is a third agent in the lock radius of both.                   *)
(***************************************************************************)
EXTENDS IntentLock

CONSTANTS a1, a2, a3, c1, c2

MCPeers == [a \in Agent |-> Agent \ {a}]

\* a1 and a2 cannot hear each other: a3 is the only agent in both radii.
MCStarPeers == [a \in Agent |-> IF a = a3 THEN {} ELSE {a3}]

Visit(c, s, e) == [cell |-> c, t_start |-> s, t_end |-> e]

\* a2 wants the cell in which a1's trajectory ends; a1's first lock lapses
\* while its second one is still live.
MCPlans == [a \in Agent |->
  CASE a = a1 -> {<<Visit(c2, 1, 2), Visit(c1, 2, 3)>>}
    [] a = a2 -> {<<Visit(c1, 1, 3)>>}
    [] OTHER -> {}]

=============================================================================
