------------------------------- MODULE DSipp -------------------------------
(***************************************************************************)
(* The planner and the reservation table it shares with everybody else.    *)
(* An agent plans (one call of d_sipp, src/planner/d_sipp.rs, over the     *)
(* grid of src/planner/graph.rs and the rotation costs of                  *)
(* src/planner/heading.rs), inserts its plan, drives it, abandons it, and  *)
(* plans again among its own old reservations, while INTENTs of others are *)
(* inserted and gc moves the window.                                       *)
(*                                                                         *)
(* A planning tick takes several steps: an iteration of the search loop is *)
(* a step, which pops a node of least f, then least g; what a binary heap  *)
(* does with further ties is left open.  So is an iteration of the loop    *)
(* that inserts the waypoints.  A node's cost g is always the start of its *)
(* interval, so it is not kept.                                            *)
(***************************************************************************)
EXTENDS Integers, Sequences, ReservationTable

CONSTANTS
  Self,           \* the planning agent
  Width, Height,  \* of the graph
  GridWidth,      \* GRID_WIDTH (256), which direction_to_heading assumes
  Connectivity,   \* 4 or 8
  QuarterTurn,    \* ticks of a rotation by 90 degrees (T_90: 5)
  MaxHorizon,     \* MAX_HORIZON (200), an absolute tick
  PlanSpan,       \* length of the start interval (200)
  MaxExpansions,  \* MAX_EXPANSIONS (50000)
  Obstacles,      \* the sets of blocked cells to consider
  Bookings,       \* the sets of earlier reservations to consider
  Intents,        \* reservations that may arrive later
  Charger,        \* charger_cell
  MaxEvents       \* bound: reservations of others and later plans together

ASSUME GraphAssumption ==
  /\ Width \in Nat \ {0} /\ Height \in Nat \ {0} /\ GridWidth >= Width
  /\ Connectivity \in {4, 8} /\ Cell = 0 .. Width * Height - 1
  /\ Obstacles \subseteq SUBSET Cell /\ Self \in Agent /\ Charger \in Cell
ASSUME CostsAssumption ==
  {QuarterTurn, MaxHorizon, PlanSpan, MaxExpansions, MaxEvents} \subseteq Nat
  /\ PlanSpan > 0
\* What others reserve: before the first plan, in the window of tick 0, or
\* later.
ASSUME OthersAssumption ==
  /\ \A taken \in Bookings : taken \subseteq Reservation /\
       \A r \in taken : r.from = 0 /\ r.until = Horizon
  /\ Intents \subseteq {r \in Reservation : r.agent_id # Self}

VARIABLES
  blocked, goal, start,  \* the arguments of the call
  open,        \* open_set: nodes [state, path], path the states up to it
  closed,      \* closed_set: keys [cell, heading, t_start]
  expansions,
  outcome,     \* of the planning tick: "searching", "found", "reserving",
               \* "exhausted", "gave_up"; in other ticks "executing" or "waiting"
  trajectory,  \* waypoints of the plan, [cell, heading, t_start, t_end]
  cell, wp_index,  \* where the agent is, and the next waypoint to drive to or
                   \* to reserve
  planned,     \* current_tick of the table the plan was found in
  events

search == <<open, closed, expansions>>
call == <<blocked, goal, start>>
agent == <<trajectory, cell, wp_index, planned>>
dsippVars == <<vars, call, search, agent, outcome, events>>

Heading == 0 .. 3  \* N, E, S, W
Waypoint == [cell : Cell, heading : Heading, t_start : Nat, t_end : Nat]

-----------------------------------------------------------------------------
(* The grid.  Definitions named ...Bug are faulty variants that no action  *)
(* uses.                                                                   *)

Magnitude(n) == IF n < 0 THEN -n ELSE n
Coordinate(c) == <<c % Width, c \div Width>>

ManhattanDistance(c, d) ==
  Magnitude(Coordinate(c)[1] - Coordinate(d)[1]) + Magnitude(Coordinate(c)[2] - Coordinate(d)[2])

\* SpatialGraph::neighbors
Neighbors(c) ==
  {d \in Cell \ (blocked \cup {c}) :
     LET dx == Magnitude(Coordinate(c)[1] - Coordinate(d)[1])
         dy == Magnitude(Coordinate(c)[2] - Coordinate(d)[2])
     IN  IF Connectivity = 8 THEN dx =< 1 /\ dy =< 1 ELSE dx + dy = 1}

\* direction_to_heading: coordinates on a grid of GridWidth columns; any
\* difference that is not a unit step counts as north.
DirectionToHeading(c, d) ==
  LET dx == (d % GridWidth) - (c % GridWidth)
      dy == (d \div GridWidth) - (c \div GridWidth)
  IN  CASE dx = 1 /\ dy = 0 -> 1
        [] dx = 0 /\ dy = 1 -> 2
        [] dx = -1 /\ dy = 0 -> 3
        [] OTHER -> 0

RotationTicksBug(h, k) == QuarterTurn * (k - h)

RotationTicks(h, k) ==
  LET turns == Magnitude(h - k)
  IN  QuarterTurn * (IF turns = 3 THEN 1 ELSE turns)

\* infer_heading() of the control loop
InferHeading(c, d) ==
  LET dx == Coordinate(d)[1] - Coordinate(c)[1]
      dy == Coordinate(d)[2] - Coordinate(c)[2]
  IN  IF Magnitude(dx) >= Magnitude(dy) THEN (IF dx >= 0 THEN 1 ELSE 3)
      ELSE (IF dy >= 0 THEN 2 ELSE 0)

-----------------------------------------------------------------------------
(* expand_successors: drive to a neighbour, turning first, or wait.        *)

MoveTo(s, d) ==
  LET heading == DirectionToHeading(s.cell, d)
      arrive == s.t_start + RotationTicks(s.heading, heading) + 1
  IN  [cell |-> d, heading |-> heading, t_start |-> arrive, t_end |-> arrive + 1]

Moves(s) == {m \in {MoveTo(s, d) : d \in Neighbors(s.cell)} : m.t_start =< s.t_end}

Waits(s) == IF s.t_start + 1 =< s.t_end THEN {[s EXCEPT !.t_start = @ + 1]} ELSE {}

SuccessorsBug(s) ==
  {m \in Moves(s) : IsFree(m.cell, m.t_start, m.t_end) /\ m.t_start =< MaxHorizon}
    \cup {m \in Waits(s) : m.t_start =< MaxHorizon}

\* The successors that the table leaves free and that lie within the horizon.
Successors(s) ==
  {m \in Moves(s) \cup Waits(s) :
     IsFree(m.cell, m.t_start, m.t_end) /\ m.t_start =< MaxHorizon}

Key(s) == [cell |-> s.cell, heading |-> s.heading, t_start |-> s.t_start]

Estimate(s) == s.t_start + ManhattanDistance(s.cell, goal)

FirstBug(n, m) == Estimate(n.state) >= Estimate(m.state)

\* The order of the heap: least f, then least g.
First(n, m) ==
  \/ Estimate(n.state) < Estimate(m.state)
  \/ Estimate(n.state) = Estimate(m.state) /\ n.state.t_start =< m.state.t_start

-----------------------------------------------------------------------------
\* The arguments of a call at tick t from cell c, and the state it starts in.
StartAt(t, c, g) ==
  [cell |-> c, heading |-> InferHeading(c, g), t_start |-> t, t_end |-> t + PlanSpan]

\* The agent's first planning tick, with any earlier reservations.
Plan ==
  /\ blocked \in Obstacles
  /\ accepted \in Bookings /\ events = Cardinality(accepted)
  /\ current_tick = 0 /\ now = 0
  /\ grid_blocks = [c \in Cell |-> UNION {Mask(r.t_start, r.t_end) : r \in {q \in accepted : q.cell = c}}]
  /\ goal \in Cell /\ cell \in Cell \ blocked
  /\ start = StartAt(now, cell, goal)
  /\ open = {[state |-> start, path |-> <<start>>]}
  /\ closed = {} /\ expansions = 0
  /\ outcome = "searching" /\ trajectory = <<>> /\ wp_index = 1 /\ planned = 0

Pop(n) == outcome = "searching" /\ n \in open /\ \A m \in open : First(n, m)

\* The popped node is the goal.
Found(n) ==
  /\ Pop(n) /\ expansions < MaxExpansions
  /\ n.state.t_start =< MaxHorizon /\ n.state.cell = goal
  /\ outcome' = "found" /\ trajectory' = n.path
  /\ wp_index' = 1 /\ planned' = current_tick
  /\ UNCHANGED <<vars, call, search, cell, events>>

\* The popped node is expanded, or dropped: it is too late or was closed.
Expand(n) ==
  /\ Pop(n) /\ expansions < MaxExpansions
  /\ ~(n.state.t_start =< MaxHorizon /\ n.state.cell = goal)
  /\ LET dropped == n.state.t_start > MaxHorizon \/ Key(n.state) \in closed
     IN  /\ closed' = IF dropped THEN closed ELSE closed \cup {Key(n.state)}
         /\ open' = (open \ {n}) \cup
              IF dropped THEN {}
              ELSE {[state |-> s, path |-> Append(n.path, s)] : s \in Successors(n.state)}
  /\ expansions' = expansions + 1
  /\ UNCHANGED <<vars, call, outcome, agent, events>>

GiveUp(n) ==
  /\ Pop(n) /\ expansions >= MaxExpansions
  /\ outcome' = "gave_up"
  /\ UNCHANGED <<vars, call, search, agent, events>>

Exhausted ==
  /\ outcome = "searching" /\ open = {}
  /\ outcome' = "exhausted"
  /\ UNCHANGED <<vars, call, search, agent, events>>

\* The next waypoint of the plan is inserted; a collision is ignored.
Reserve ==
  /\ outcome \in {"found", "reserving"} /\ wp_index =< Len(trajectory)
  /\ LET w == trajectory[wp_index]
     IN  IF IsFree(w.cell, w.t_start, w.t_end) THEN Insert(w.cell, Self, w.t_start, w.t_end)
         ELSE UNCHANGED vars
  /\ outcome' = "reserving" /\ wp_index' = wp_index + 1
  /\ UNCHANGED <<call, search, trajectory, cell, planned, events>>

\* The planning tick ends with a plan to execute ...
Adopt ==
  /\ outcome = "reserving" /\ wp_index > Len(trajectory)
  /\ outcome' = "executing" /\ wp_index' = 1
  /\ open' = {} /\ closed' = {} /\ expansions' = 0
  /\ EndTick
  /\ UNCHANGED <<call, trajectory, cell, planned, events>>

\* ... or without one.
PlanFailed ==
  /\ outcome \in {"exhausted", "gave_up"}
  /\ outcome' = "waiting"
  /\ open' = {} /\ closed' = {} /\ expansions' = 0
  /\ EndTick
  /\ UNCHANGED <<call, agent, events>>

\* A tick of the executing agent: the next waypoint, whatever its interval.
Drive ==
  /\ outcome = "executing" /\ wp_index =< Len(trajectory)
  /\ cell' = trajectory[wp_index].cell /\ wp_index' = wp_index + 1
  /\ EndTick
  /\ UNCHANGED <<call, search, outcome, trajectory, planned, events>>

\* A tick that ends the execution (arrival, yielding, a report of the caller)
\* or spends it waiting.  remove_agent_reservations clears nothing.
Hold ==
  /\ outcome \in {"executing", "waiting"}
  /\ outcome' = "waiting" /\ trajectory' = <<>>
  /\ EndTick
  /\ UNCHANGED <<call, search, cell, wp_index, planned, events>>

\* The caller inserts a waypoint of an INTENT.
Hear ==
  /\ outcome \in {"executing", "waiting"} /\ events < MaxEvents
  /\ \E r \in Intents : Insert(r.cell, r.agent_id, r.t_start, r.t_end)
  /\ events' = events + 1
  /\ UNCHANGED <<call, search, agent, outcome>>

\* Another planning tick: towards the same goal after a hold, or to the
\* charger, also in the middle of a plan.
PlanAgain ==
  /\ events < MaxEvents /\ events' = events + 1
  /\ \/ outcome = "waiting" /\ goal' \in {goal, Charger}
     \/ outcome = "executing" /\ goal' = Charger
  /\ start' = StartAt(now, cell, goal')
  /\ open' = {[state |-> start', path |-> <<start'>>]}
  /\ outcome' = "searching" /\ trajectory' = <<>>
  /\ UNCHANGED <<vars, blocked, closed, expansions, cell, wp_index, planned>>

PlannerNext ==
  \/ Exhausted \/ Reserve \/ Adopt \/ PlanFailed \/ Drive \/ Hold \/ Hear \/ PlanAgain
  \/ \E n \in open : Found(n) \/ Expand(n) \/ GiveUp(n)

DSippSpec == Plan /\ [][PlannerNext]_dsippVars

-----------------------------------------------------------------------------
(* The reference: every state a search without heap, closed set or         *)
(* heuristic reaches, a tick at a time.                                    *)

\* What the states reached before tick t lead to at tick t.
Grown(before, t, Free(_, _, _)) ==
  before \cup {s \in {start} : s.t_start = t} \cup
    UNION {{m \in Moves(s) \cup Waits(s) :
              m.t_start = t /\ Free(m.cell, m.t_start, m.t_end)} : s \in before}

Reached(Free(_, _, _)) ==
  LET Upto[t \in 0 .. MaxHorizon] == Grown(IF t = 0 THEN {} ELSE Upto[t - 1], t, Free)
  IN  Upto[MaxHorizon]

Arrivals(Free(_, _, _)) == {s.t_start : s \in {r \in Reached(Free) : r.cell = goal}}

AlwaysFree(c, s, e) == TRUE

\* Cells connected to c by steps on the grid.
ConnectedTo(c) ==
  LET Within[n \in 0 .. Cardinality(Cell)] ==
        IF n = 0 THEN {c}
        ELSE Within[n - 1] \cup UNION {Neighbors(d) : d \in Within[n - 1]}
  IN  Within[Cardinality(Cell)]

-----------------------------------------------------------------------------
(* Properties *)

\* Every variable keeps its type.
SearchTypeOK ==
  /\ grid_blocks \in [Cell -> SUBSET Bits] /\ accepted \subseteq Reservation
  /\ \A n \in open : n.state \in Waypoint /\ n.path \in Seq(Waypoint)
  /\ expansions \in 0 .. MaxExpansions
  /\ outcome \in {"searching", "found", "reserving", "exhausted", "gave_up", "executing", "waiting"}
  /\ trajectory \in Seq(Waypoint)
  /\ cell \in Cell \ blocked /\ wp_index \in Nat \ {0}

\* The plan returned is the earliest there is ("Augmented Space-Time State
\* s = (v, theta, [t_s, t_e], L_s)", "Admissible Heuristic"): the closed set,
\* whose keys leave out where an interval ends, costs no better one.
Earliest ==
  outcome = "found" => \A t \in Arrivals(IsFree) : trajectory[Len(trajectory)].t_start =< t

\* Reservations that are over, also the agent's own that nothing ever removed
\* ("rely on the GC mechanism to clear old reservations"), do not matter: the
\* search is then as good as on a table that never held any.  It returns a
\* plan of earliest arrival, and comes back empty-handed only if there is none.
\* Stated for four neighbours, for which the heuristic is admissible.
ExactWhenClear ==
  (\A r \in accepted : r.t_end =< start.t_start \/ r.until =< start.t_start) =>
    /\ outcome = "found" =>
         \A t \in Arrivals(AlwaysFree) : trajectory[Len(trajectory)].t_start =< t
    /\ outcome = "exhausted" => Arrivals(AlwaysFree) = {}

\* Where the plan in execution puts the agent, turning included, from its
\* first wait or move on, no other agent reserves the cell, neither before the
\* plan nor after it, as far as the windows of both reach.
PresenceClear ==
  \A i \in 2 .. Len(trajectory) :
    LET w == trajectory[i]
        leaves == IF i = Len(trajectory) THEN w.t_start + 1 ELSE trajectory[i + 1].t_start
    IN  \A r \in accepted : r.agent_id # Self /\ r.cell = w.cell =>
          \A t \in w.t_start .. leaves - 1 :
            ~(Covers(r, t) /\ r.from =< t /\ t < r.until /\ t < planned + Horizon)

\* Every later waypoint of a plan in execution is reserved in the agent's own
\* name, although the result of the insertions is ignored, and the table shows
\* it to the others as long as it is ahead, whatever gc did in the meantime.
PlanReserved ==
  outcome = "executing" =>
    \A i \in 2 .. Len(trajectory) :
      LET w == trajectory[i]
      IN  \A t \in w.t_start .. w.t_end - 1 : t < planned + Horizon =>
            /\ \E r \in accepted : r.agent_id = Self /\ r.cell = w.cell /\ Covers(r, t)
            /\ t >= now => ~IsFree(w.cell, t, t + 1)

\* A goal that the grid connects to the start is found when nothing is
\* reserved and there is time for any detour ("assert!(traj.is_some())" in
\* test_static_obstacle, where the way is around a corner).
RouteFound ==
  outcome = "exhausted" /\ accepted = {}
      /\ now + Cardinality(Cell) * (2 * QuarterTurn + 1) =< MaxHorizon =>
    goal \notin ConnectedTo(start.cell)

=============================================================================
