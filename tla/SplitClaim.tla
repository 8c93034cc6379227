----------------------------- MODULE SplitClaim -----------------------------
(***************************************************************************)
(* The split-brain quorum of a task claim: should_claim_task of CnpBidder  *)
(* (src/network/implicit_cnp.rs), asked by the agents of a fleet whose     *)
(* network has fallen apart into two halves.                               *)
(*                                                                         *)
(* No code calls should_claim_task.  Its arguments are modelled as its     *)
(* comment names them: an agent has heard from itself and from the agents  *)
(* of its half, and knows the largest utility and the least id among them. *)
(***************************************************************************)
EXTENDS Naturals, FiniteSets

CONSTANTS
  Agent,     \* ids of the fleet, a finite set of numbers
  Utility    \* bound: the utilities agents may have, numbers

VARIABLES
  utility,    \* utility[a]: of a, for the one task
  half,       \* the agents of one half; the others are the other half
  heard_from, \* heard_from[a]: agents a has heard from
  claims      \* agents that claim the task

splitVars == <<utility, half, heard_from, claims>>

HalfOf(a) == IF a \in half THEN half ELSE Agent \ half

SplitInit ==
  /\ utility \in [Agent -> Utility] /\ half \in SUBSET Agent
  /\ heard_from = [a \in Agent |-> {a}] /\ claims = {}

\* A bid of b reaches a.
HearFrom(a, b) ==
  /\ b \in HalfOf(a) \ heard_from[a]
  /\ heard_from' = [heard_from EXCEPT ![a] = @ \cup {b}]
  /\ UNCHANGED <<utility, half, claims>>

\* The best utility heard is one's own; and one heard from more than half of
\* the fleet, or from half of it and has the least id there.
ShouldClaimTask(a) ==
  /\ \A b \in heard_from[a] : utility[b] =< utility[a]
  /\ LET heard == Cardinality(heard_from[a])
         share == Cardinality(Agent) \div 2
     IN \/ heard > share
        \/ heard = share /\ \A b \in heard_from[a] : a =< b

\* a decides once it has heard from all of its half.
ClaimTask(a) ==
  /\ heard_from[a] = HalfOf(a) /\ a \notin claims /\ ShouldClaimTask(a)
  /\ claims' = claims \cup {a}
  /\ UNCHANGED <<utility, half, heard_from>>

SplitNext ==
  \E a \in Agent : ClaimTask(a) \/ \E b \in Agent : HearFrom(a, b)

SplitSpec == SplitInit /\ [][SplitNext]_splitVars

-----------------------------------------------------------------------------
\* The task is not claimed in both halves: "partition with min(global_ID)
\* wins; other defers".
OneClaim == \A a, b \in claims : HalfOf(a) = HalfOf(b)
=============================================================================
