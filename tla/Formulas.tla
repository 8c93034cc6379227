------------------------------ MODULE Formulas ------------------------------
(***************************************************************************)
(* The arithmetic the agents have to agree on: priorities                  *)
(* (src/space_time/priority.rs), the order of Lamport timestamps           *)
(* (src/network/consensus.rs), intervals (src/space_time/mod.rs), braking  *)
(* (src/fsm/braking.rs) and the utility of a bid                           *)
(* (src/network/implicit_cnp.rs).                                          *)
(*                                                                         *)
(* Floating-point formulas are written exactly, over integers: speeds in   *)
(* 0.1 m/s, utilities in 1/256.  The variables are the arguments of one    *)
(* call.                                                                   *)
(***************************************************************************)
EXTENDS Integers, Sequences

CONSTANTS
  TickMax,     \* the largest tick (2^32 - 1)
  Pads,        \* bound: paddings given to padded
  Yields, Goals, Batteries, Ids,   \* bound: arguments of compute
  Queues       \* bound: queue depths

ASSUME FormulasAssumption ==
  /\ TickMax \in Nat /\ Pads \subseteq Nat
  /\ Yields \subseteq Nat /\ Goals \subseteq Nat /\ Batteries \subseteq 0 .. 100
  /\ Ids \subseteq 0 .. 255 /\ Queues \subseteq Nat

VARIABLES
  mine, other,   \* what two agents compute from
  span, gap,     \* two intervals
  speed,         \* of a vehicle
  picked         \* the arguments have been chosen

formulaVars == <<mine, other, span, gap, speed, picked>>

Smaller(m, n) == IF m < n THEN m ELSE n
Larger(m, n) == IF m < n THEN n ELSE m

-----------------------------------------------------------------------------
(* Priorities and timestamps.                                              *)

PriorityState ==
  [yield_count : Yields, urgency : 0 .. 4, d_goal : Goals, battery : Batteries, id : Ids]

ComputeBug(p) ==
  5000 * p.urgency + (10000 * p.yield_count) \div (p.d_goal + 1)
    + 10 \div (p.battery + 1) + p.id
Compute(p) ==
  10000 * p.yield_count + (50 * p.urgency * 100) \div (p.d_goal + 1)
    + 10 \div (p.battery + 1) + p.id
Dominates(p, q) == Compute(p) > Compute(q)

\* LamportClock::order: the earlier timestamp, then the lower id
OrderedBefore(ts_a, id_a, ts_b, id_b) == ts_a < ts_b \/ (ts_a = ts_b /\ id_a < id_b)

-----------------------------------------------------------------------------
(* SafeInterval, as <<t_start, t_end>>.                                    *)

SafeInterval == {i \in (0 .. TickMax) \X (0 .. TickMax) : i[1] =< i[2]}

Duration(i) == i[2] - i[1]
Holds(i, t) == i[1] =< t /\ t < i[2]
OverlapsWith(i, j) == ~(i[2] =< j[1] \/ j[2] =< i[1])
Intersection(i, j) ==
  LET common == <<Larger(i[1], j[1]), Smaller(i[2], j[2])>>
  IN IF common[1] < common[2] THEN {common} ELSE {}
PaddedBy(i, n) == <<Larger(i[1] - n, 0), Smaller(i[2] + n, TickMax)>>

-----------------------------------------------------------------------------
(* Braking, at A_MAX = 2 m/s^2 on cells of 0.5 m.                          *)

Ceiling(n, d) == (n + d - 1) \div d
StoppingDistanceCells(v) == Ceiling(v * v, 200)
StoppingTimeTicks(v) == Ceiling(v, 2)
BrakingProfile(v) ==
  [i \in 1 .. StoppingTimeTicks(v) + 1 |-> Larger(v - 2 * (i - 1), 0)]
CanStopBefore(v, cells) == StoppingDistanceCells(v) < cells
SafeFollowingDistance(v) == StoppingDistanceCells(v) + 1
VMax == 10

\* What the profile travels, in 1/50 of a cell: one tick at each speed.
Travelled(profile) ==
  LET upto[i \in 0 .. Len(profile)] == IF i = 0 THEN 0 ELSE upto[i - 1] + profile[i]
  IN upto[Len(profile)]

-----------------------------------------------------------------------------
(* compute_bid: 0.60 / (d + 1) + 0.25 * B / 100 + 0.15 / (Q + 1), in Q8.8.  *)

UtilityOf(d_total, battery, queue) ==
  1536 \div (10 * (d_total + 1)) + (64 * battery) \div 100 + 384 \div (10 * (queue + 1))

-----------------------------------------------------------------------------
FormulasInit ==
  /\ mine = [yield_count |-> 0, urgency |-> 0, d_goal |-> 0, battery |-> 0, id |-> 0]
  /\ other = mine /\ span = <<0, 0>> /\ gap = <<0, 0>> /\ speed = 0 /\ picked = FALSE

PickAgents ==
  /\ mine' \in PriorityState /\ other' \in PriorityState
  /\ UNCHANGED <<span, gap, speed>>
PickIntervals ==
  /\ span' \in SafeInterval /\ gap' \in SafeInterval
  /\ UNCHANGED <<mine, other, speed>>
PickSpeed == speed' \in 0 .. VMax /\ UNCHANGED <<mine, other, span, gap>>

FormulasNext ==
  ~picked /\ picked' = TRUE /\ (PickAgents \/ PickIntervals \/ PickSpeed)
FormulasSpec == FormulasInit /\ [][FormulasNext]_formulaVars

\* An agent that has yielded more often dominates, as the formula is meant to
\* make it, any other that is neither at its goal nor in an emergency; two
\* agents that differ in their id only are ordered, and so are two timestamps
\* of theirs; being nearer, fuller or less busy never lowers a bid.
AgentsOrdered ==
  /\ mine.yield_count > other.yield_count /\ other.urgency < 4 /\ other.d_goal > 0
       => Dominates(mine, other)
  /\ ~(Dominates(mine, other) /\ Dominates(other, mine))
  /\ mine # other /\ mine = [other EXCEPT !.id = mine.id]
       => Dominates(mine, other) # Dominates(other, mine)
  /\ \A s \in 0 .. 1, t \in 0 .. 1 : <<s, mine.id>> # <<t, other.id>> =>
       OrderedBefore(s, mine.id, t, other.id) # OrderedBefore(t, other.id, s, mine.id)
  /\ mine.d_goal =< other.d_goal /\ mine.battery >= other.battery =>
       \A q \in Queues, r \in Queues : q =< r =>
         UtilityOf(mine.d_goal, mine.battery, q) >= UtilityOf(other.d_goal, other.battery, r)

\* Non-empty intervals overlap exactly if they share a tick, their
\* intersection holds exactly the ticks they share, and padding saturates
\* without losing any of them.
IntervalsAgree ==
  /\ \A t \in 0 .. TickMax :
       (\E i \in Intersection(span, gap) : Holds(i, t)) <=> Holds(span, t) /\ Holds(gap, t)
  /\ Duration(span) > 0 /\ Duration(gap) > 0 =>
       (OverlapsWith(span, gap) <=> Intersection(span, gap) # {})
  /\ \A n \in Pads : LET wide == PaddedBy(span, n)
       IN wide \in SafeInterval /\ wide[1] =< span[1] /\ span[2] =< wide[2]

\* Up to V_MAX, an agent told that it can stop before some cell does: the
\* braking profile takes stopping_time ticks, ends at rest, and travels no
\* further than the stopping distance, a cell short of the following distance.
BrakesInTime ==
  LET profile == BrakingProfile(speed)
  IN /\ profile[Len(profile)] = 0 /\ \A i \in 1 .. Len(profile) - 1 : profile[i] > 0
     /\ CanStopBefore(speed, SafeFollowingDistance(speed))
     /\ \A cells \in 1 .. 3 : CanStopBefore(speed, cells) =>
          Travelled(profile) =< 50 * (cells - 1)

FormulasExact == AgentsOrdered /\ IntervalsAgree /\ BrakesInTime
=============================================================================
