----------------------------- MODULE DSippProofs -----------------------------
(***************************************************************************)
(* The planner on its table, for every grid, table, cost and bound: types, *)
(* the clearance of a plan in execution, its reservations, and the         *)
(* exactness of the search once nothing is reserved any more.              *)
(***************************************************************************)
EXTENDS DSipp, ReservationTableProofs, NaturalsInduction, WellFoundedInduction

-----------------------------------------------------------------------------
(* Steps of the search.                                                    *)

Steps(s) == Moves(s) \cup Waits(s)

LEMMA HorizonFacts ==
  /\ QuarterTurn \in Nat /\ MaxHorizon \in Nat /\ PlanSpan \in Nat /\ PlanSpan > 0
  /\ MaxExpansions \in Nat /\ MaxEvents \in Nat /\ Horizon \in Nat \ {0}
BY CostsAssumption, HorizonAssumption

LEMMA CoordinateInt ==
  ASSUME NEW c \in Cell
  PROVE  Coordinate(c)[1] \in Int /\ Coordinate(c)[2] \in Int
<1>1. c \in Int /\ Width \in Nat \ {0}
  BY GraphAssumption
<1>2. c % Width \in Int /\ c \div Width \in Int
  BY <1>1
<1> QED BY <1>2 DEF Coordinate

LEMMA DistanceNat ==
  ASSUME NEW c \in Cell, NEW d \in Cell
  PROVE  ManhattanDistance(c, d) \in Nat
BY CoordinateInt DEF ManhattanDistance, Magnitude

LEMMA HeadingType ==
  ASSUME NEW c, NEW d
  PROVE  DirectionToHeading(c, d) \in Heading /\ InferHeading(c, d) \in Heading
<1>1. DirectionToHeading(c, d) \in Heading
  BY DEF DirectionToHeading, Heading
<1>2. InferHeading(c, d) \in Heading
  BY DEF InferHeading, Heading
<1> QED BY <1>1, <1>2

LEMMA RotationType ==
  ASSUME NEW h \in Heading, NEW k \in Heading
  PROVE  RotationTicks(h, k) \in Nat
<1> DEFINE turns == IF Magnitude(h - k) = 3 THEN 1 ELSE Magnitude(h - k)
<1>1. turns \in 0 .. 2
  BY DEF Heading, Magnitude
<1>2. \A n \in 0 .. 2 : QuarterTurn * n \in Nat
  BY HorizonFacts
<1> HIDE DEF turns
<1>3. QuarterTurn * turns \in Nat
  BY <1>1, <1>2
<1> QED BY <1>3 DEF RotationTicks, turns

\* A move arrives after it started, within the interval it started in, and
\* its own interval lasts a tick.
LEMMA MoveShape ==
  ASSUME NEW s \in Waypoint, NEW d \in Neighbors(s.cell)
  PROVE  LET m == MoveTo(s, d)
         IN  /\ m \in Waypoint /\ m.cell = d /\ d \in Cell \ blocked
             /\ m.t_start = s.t_start + RotationTicks(s.heading, m.heading) + 1
             /\ m.t_start > s.t_start /\ m.t_end = m.t_start + 1
<1>1. d \in Cell \ blocked
  BY DEF Neighbors
<1>2. RotationTicks(s.heading, DirectionToHeading(s.cell, d)) \in Nat
  BY HeadingType, RotationType DEF Waypoint
<1>3. DirectionToHeading(s.cell, d) \in Heading
  BY HeadingType
<1> QED BY <1>1, <1>2, <1>3 DEF MoveTo, Waypoint

LEMMA StepShape ==
  ASSUME NEW s \in Waypoint, s.cell \notin blocked, NEW m \in Steps(s)
  PROVE  /\ m \in Waypoint /\ m.cell \notin blocked
         /\ s.t_start < m.t_start /\ m.t_start =< s.t_end
         /\ \/ m.t_end = m.t_start + 1
            \/ m.cell = s.cell /\ m.heading = s.heading /\ m.t_end = s.t_end
<1>1. CASE m \in Moves(s)
  <2>1. PICK d \in Neighbors(s.cell) : m = MoveTo(s, d)
    BY <1>1 DEF Moves
  <2>2. m.t_start =< s.t_end
    BY <1>1 DEF Moves
  <2> QED BY <2>1, <2>2, MoveShape
<1>2. CASE m \in Waits(s)
  <2>1. m = [s EXCEPT !.t_start = @ + 1] /\ s.t_start + 1 =< s.t_end
    BY <1>2 DEF Waits
  <2> QED BY <2>1 DEF Waypoint
<1> QED BY <1>1, <1>2 DEF Steps


-----------------------------------------------------------------------------
(* The inductive invariant: types, routes, the clearance of the paths that *)
(* are open and of the plan, and the reservations of the plan.             *)

\* An interval of a tick at most; or one of the waits at the start, which
\* keep the end of the start's interval.
Short(w) == w.t_end =< w.t_start + 1
FromStart(w) == w.cell = start.cell /\ w.t_end = start.t_end
WaitsUpto(p, i) == \A j \in 1 .. i : FromStart(p[j]) /\ p[j].t_start =< p[i].t_start

\* Every state of a path is a step of the one before, none but the last is at
\* the goal.
Route(p) ==
  /\ p \in Seq(Waypoint) /\ Len(p) >= 1
  /\ \A i \in 1 .. Len(p) :
       /\ p[i].cell \notin blocked /\ p[i].t_start >= start.t_start
       /\ Short(p[i]) \/ WaitsUpto(p, i)
  /\ \A i \in 1 .. Len(p) - 1 :
       /\ p[i].cell # goal
       /\ p[i + 1].t_start =< p[i].t_end
       /\ p[i + 1].t_end = p[i + 1].t_start + 1 \/ p[i + 1].cell = p[i].cell

Taken(c, t) == \E r \in accepted : r.cell = c /\ Covers(r, t) /\ t < r.until

PathClear(p) ==
  \A i \in 2 .. Len(p) : \A t \in p[i].t_start .. p[i].t_end - 1 :
    t < current_tick + Horizon => ~Taken(p[i].cell, t)

Planning == {"found", "reserving"}

\* The ticks of the i-th waypoint that the window reached when it was planned.
Ticks(i) ==
  {t \in trajectory[i].t_start .. trajectory[i].t_end - 1 : t < planned + Horizon}

\* The reservations that meet the i-th waypoint at tick t.
Meeting(i, t) ==
  {r \in accepted : r.cell = trajectory[i].cell /\ Covers(r, t) /\ r.from =< t /\ t < r.until}

OwnReserved(i) ==
  \A t \in Ticks(i) : \E r \in accepted :
    r.agent_id = Self /\ r.cell = trajectory[i].cell /\ Covers(r, t) /\ t < r.until

ArgumentsInv ==
  /\ blocked \in SUBSET Cell /\ goal \in Cell /\ cell \in Cell \ blocked
  /\ start \in Waypoint /\ start.cell \notin blocked
  /\ start.t_end = start.t_start + PlanSpan
  /\ expansions \in 0 .. MaxExpansions /\ wp_index \in Nat \ {0}
  /\ planned \in Nat /\ planned =< current_tick
  /\ outcome \in {"searching", "found", "reserving", "exhausted", "gave_up", "executing", "waiting"}

NodesInv ==
  \A n \in open : Route(n.path) /\ n.state = n.path[Len(n.path)]

SearchInv ==
  outcome = "searching" =>
    start.t_start = now /\ \A n \in open : PathClear(n.path)

PlanInv ==
  /\ outcome \in Planning \cup {"executing"} =>
       /\ Route(trajectory) /\ trajectory[Len(trajectory)].cell = goal
       /\ start.t_start >= planned
  /\ outcome \notin Planning \cup {"executing"} => trajectory = <<>>
  /\ outcome \in Planning => planned = current_tick

\* Nobody else's reservation meets the plan; one that meets a long wait spans
\* what is left of it.
AloneInv ==
  \A i \in 2 .. Len(trajectory) : \A t \in Ticks(i) : \A r \in Meeting(i, t) :
    r.agent_id = Self
WholeInv ==
  outcome \in Planning =>
    \A i \in 2 .. Len(trajectory) : i >= wp_index /\ ~Short(trajectory[i]) =>
      \A t \in Ticks(i) : \A r \in Meeting(i, t) :
        r.t_start =< trajectory[i].t_start /\ trajectory[i].t_end =< r.t_end
          /\ r.until = planned + Horizon

ReservedInv ==
  /\ outcome = "found" => wp_index = 1
  /\ outcome \in Planning => \A i \in 2 .. Len(trajectory) : i < wp_index => OwnReserved(i)
  /\ outcome = "executing" => \A i \in 2 .. Len(trajectory) : OwnReserved(i)

PlannerInv ==
  /\ TableInv /\ ArgumentsInv /\ NodesInv /\ SearchInv /\ PlanInv
  /\ AloneInv /\ WholeInv /\ ReservedInv

-----------------------------------------------------------------------------
(* What the search knows of a path.                                        *)

\* is_free from the present window on: no tick that the window reaches is
\* taken.
LEMMA FreeMeaning ==
  ASSUME TableInv, NEW c \in Cell, NEW s \in Nat, NEW e \in Nat, s >= current_tick
  PROVE  IsFree(c, s, e) <=>
           \A t \in s .. e - 1 : t < current_tick + Horizon => ~Taken(c, t)
<1>1. current_tick \in Nat
  BY DEF TableInv, TypeOK
<1>2. \A b \in Bits : b \in grid_blocks[c] <=> Taken(c, current_tick + b)
  BY DEF TableInv, TableExact, Taken
<1>3. \A b \in Bits : b \in Mask(s, e) <=> s =< current_tick + b /\ current_tick + b < e
  BY <1>1, MaskMeaning
<1>4. ASSUME IsFree(c, s, e), NEW t \in s .. e - 1, t < current_tick + Horizon
      PROVE  ~Taken(c, t)
  <2>1. PICK b \in Bits : current_tick + b = t
    <3>1. t - current_tick \in Bits /\ current_tick + (t - current_tick) = t
      BY <1>1, <1>4, HorizonAssumption DEF Bits
    <3> QED BY <3>1
  <2>2. b \in Mask(s, e)
    BY <1>3, <2>1
  <2> QED BY <1>2, <1>4, <2>1, <2>2 DEF IsFree
<1>5. ASSUME \A t \in s .. e - 1 : t < current_tick + Horizon => ~Taken(c, t),
             NEW b, b \in grid_blocks[c], b \in Mask(s, e)
      PROVE  FALSE
  <2>1. b \in Bits
    BY <1>5 DEF Mask
  <2>2. current_tick + b \in s .. e - 1 /\ current_tick + b < current_tick + Horizon
    BY <1>1, <1>3, <1>5, <2>1, HorizonAssumption DEF Bits
  <2> QED BY <1>2, <1>5, <2>1, <2>2
<1> QED BY <1>4, <1>5 DEF IsFree

LEMMA ExtendRoute ==
  ASSUME start \in Waypoint, NEW p, Route(p), p[Len(p)].cell # goal,
         NEW m \in Steps(p[Len(p)])
  PROVE  Route(Append(p, m))
<1> DEFINE q == Append(p, m)
           s == p[Len(p)]
<1>1. p \in Seq(Waypoint) /\ Len(p) \in Nat /\ Len(p) >= 1 /\ s \in Waypoint
  BY DEF Route
<1>2. s.cell \notin blocked /\ s.t_start >= start.t_start
  BY <1>1 DEF Route
<1>3. /\ m \in Waypoint /\ m.cell \notin blocked
      /\ s.t_start < m.t_start /\ m.t_start =< s.t_end
      /\ m.t_end = m.t_start + 1 \/ (m.cell = s.cell /\ m.t_end = s.t_end)
  <2>1. m \in Steps(s)
    OBVIOUS
  <2> HIDE DEF s
  <2> QED BY <1>1, <1>2, <2>1, StepShape
<1>4. /\ q \in Seq(Waypoint) /\ Len(q) = Len(p) + 1 /\ q[Len(p) + 1] = m
      /\ \A i \in 1 .. Len(p) : q[i] = p[i]
  BY <1>1, <1>3
<1>5. ASSUME NEW i \in 1 .. Len(q)
      PROVE  /\ q[i].cell \notin blocked /\ q[i].t_start >= start.t_start
             /\ Short(q[i]) \/ WaitsUpto(q, i)
  <2>1. CASE i \in 1 .. Len(p)
    <3>1. Short(p[i]) \/ WaitsUpto(p, i)
      BY <2>1 DEF Route
    <3>2. WaitsUpto(p, i) => WaitsUpto(q, i)
      BY <1>1, <1>4, <2>1 DEF WaitsUpto
    <3>3. q[i] = p[i]
      BY <1>4, <2>1
    <3> QED BY <1>4, <2>1, <3>1, <3>2, <3>3 DEF Route
  <2>2. CASE i = Len(p) + 1
    <3>1. m.t_start >= start.t_start
      BY <1>1, <1>2, <1>3 DEF Waypoint
    <3>2. Short(s) \/ WaitsUpto(p, Len(p))
      BY <1>1 DEF Route
    <3>3. CASE Short(s) \/ m.t_end = m.t_start + 1
      <4>1. Short(m)
        BY <1>1, <1>3, <3>3 DEF Short, Waypoint
      <4> QED BY <1>3, <1>4, <2>2, <3>1, <4>1
    <3>4. CASE WaitsUpto(p, Len(p)) /\ m.cell = s.cell /\ m.t_end = s.t_end
      <4>1. FromStart(s)
        BY <1>1, <3>4 DEF WaitsUpto
      <4>2. FromStart(m)
        BY <3>4, <4>1 DEF FromStart
      <4>3. ASSUME NEW j \in 1 .. i PROVE FromStart(q[j]) /\ q[j].t_start =< m.t_start
        <5>1. CASE j = i
          BY <1>3, <1>4, <2>2, <4>2, <5>1 DEF Waypoint
        <5>2. CASE j \in 1 .. Len(p)
          <6>1. FromStart(p[j]) /\ p[j].t_start =< s.t_start /\ p[j] \in Waypoint
            BY <1>1, <3>4, <5>2 DEF WaitsUpto
          <6> QED BY <1>1, <1>3, <1>4, <5>2, <6>1 DEF Waypoint
        <5> QED BY <1>1, <2>2, <5>1, <5>2
      <4>4. WaitsUpto(q, i)
        BY <1>4, <2>2, <4>3 DEF WaitsUpto
      <4> QED BY <1>3, <1>4, <2>2, <3>1, <4>4
    <3> QED BY <1>3, <3>2, <3>3, <3>4
  <2> QED BY <1>1, <1>4, <2>1, <2>2
<1>6. ASSUME NEW i \in 1 .. Len(q) - 1
      PROVE  /\ q[i].cell # goal /\ q[i + 1].t_start =< q[i].t_end
             /\ q[i + 1].t_end = q[i + 1].t_start + 1 \/ q[i + 1].cell = q[i].cell
  <2>1. CASE i = Len(p)
    BY <1>1, <1>3, <1>4, <2>1
  <2>2. CASE i \in 1 .. Len(p) - 1
    <3>1. q[i] = p[i] /\ q[i + 1] = p[i + 1]
      BY <1>1, <1>4, <2>2
    <3> QED BY <2>2, <3>1 DEF Route
  <2> QED BY <1>1, <1>4, <2>1, <2>2
<1>7. Len(q) >= 1
  BY <1>1, <1>4
<1> QED BY <1>4, <1>5, <1>6, <1>7 DEF Route

LEMMA ExtendClear ==
  ASSUME TableInv, NEW p \in Seq(Waypoint), PathClear(p),
         NEW m \in Waypoint, m.t_start >= current_tick, IsFree(m.cell, m.t_start, m.t_end)
  PROVE  PathClear(Append(p, m))
<1>1. \A t \in m.t_start .. m.t_end - 1 : t < current_tick + Horizon => ~Taken(m.cell, t)
  BY FreeMeaning DEF Waypoint
<1>2. Len(Append(p, m)) = Len(p) + 1 /\ Len(p) \in Nat
  OBVIOUS
<1>3. ASSUME NEW i \in 2 .. Len(p) + 1
      PROVE  \A t \in Append(p, m)[i].t_start .. Append(p, m)[i].t_end - 1 :
               t < current_tick + Horizon => ~Taken(Append(p, m)[i].cell, t)
  <2>1. CASE i = Len(p) + 1
    <3>1. Append(p, m)[i] = m
      BY <2>1
    <3> QED BY <1>1, <3>1
  <2>2. CASE i \in 2 .. Len(p)
    <3>1. Append(p, m)[i] = p[i]
      BY <2>2
    <3> QED BY <2>2, <3>1 DEF PathClear
  <2> QED BY <1>2, <2>1, <2>2
<1> QED BY <1>2, <1>3 DEF PathClear

LEMMA StartNode ==
  ASSUME start \in Waypoint, start.cell \notin blocked, NEW p, p = <<start>>
  PROVE  Route(p) /\ PathClear(p) /\ p[Len(p)] = start
<1>1. p \in Seq(Waypoint) /\ Len(p) = 1 /\ p[1] = start
  OBVIOUS
<1>2. WaitsUpto(p, 1)
  BY <1>1 DEF WaitsUpto, FromStart, Waypoint
<1>3. Route(p)
  BY <1>1, <1>2 DEF Route, Waypoint
<1>4. PathClear(p)
  BY <1>1 DEF PathClear
<1> QED BY <1>1, <1>3, <1>4

-----------------------------------------------------------------------------
(* What a step that leaves its variables alone keeps.                      *)

LEMMA RouteKept == ASSUME UNCHANGED call, NEW p, Route(p) PROVE Route(p)'
BY DEF call, Route, Short, WaitsUpto, FromStart

LEMMA NodesKept == ASSUME NodesInv, UNCHANGED <<call, open>> PROVE NodesInv'
BY RouteKept DEF NodesInv

LEMMA ClearKept ==
  ASSUME current_tick' = current_tick, accepted' = accepted, NEW p, PathClear(p)
  PROVE  PathClear(p)'
BY DEF PathClear, Taken, Covers

LEMMA OwnKept ==
  ASSUME trajectory' = trajectory, planned' = planned, accepted \subseteq accepted',
         NEW i, OwnReserved(i)
  PROVE  OwnReserved(i)'
BY DEF OwnReserved, Ticks, Covers

LEMMA AloneKept ==
  ASSUME trajectory' = trajectory, planned' = planned, accepted' = accepted, AloneInv
  PROVE  AloneInv'
BY DEF AloneInv, Ticks, Meeting, Covers

\* Without a plan there is nothing to say of its reservations.
LEMMA NoPlan ==
  ASSUME outcome' \notin Planning \cup {"executing"}, trajectory' = <<>>
  PROVE  PlanInv' /\ AloneInv' /\ WholeInv' /\ ReservedInv'
<1>1. Len(trajectory') = 0
  OBVIOUS
<1>2. \A i \in 2 .. Len(trajectory') : FALSE
  BY <1>1
<1> QED BY <1>2 DEF PlanInv, AloneInv, WholeInv, ReservedInv, Planning

LEMMA TableKept == ASSUME TableInv, UNCHANGED vars PROVE TableInv'
BY DEF vars, TableInv, TypeOK, Windows, TableExact, Covers

-----------------------------------------------------------------------------
(* The steps.                                                              *)

LEMMA PlannerInit == Plan => PlannerInv
<1> SUFFICES ASSUME Plan PROVE PlannerInv
  OBVIOUS
<1> USE DEF Plan
<1>1. accepted \subseteq Reservation /\ \A r \in accepted : r.from = 0 /\ r.until = Horizon
  BY OthersAssumption
<1>2. TypeOK
  <2>1. \A c \in Cell : grid_blocks[c] \in SUBSET Bits
    BY DEF Mask
  <2> QED BY <1>1, <2>1 DEF TypeOK
<1>3. Windows
  BY <1>1, HorizonAssumption DEF Windows
<1>4. TableExact
  <2> SUFFICES ASSUME NEW c \in Cell, NEW b \in Bits
               PROVE  b \in grid_blocks[c] <=>
                        \E r \in accepted : r.cell = c /\ Covers(r, b) /\ b < r.until
    BY HorizonAssumption DEF TableExact, Bits
  <2>1. b < Horizon /\ b \in Nat
    BY HorizonAssumption DEF Bits
  <2>2. \A r \in accepted : b \in Mask(r.t_start, r.t_end) <=> Covers(r, b)
    <3> TAKE r \in accepted
    <3>1. r.t_start \in Nat /\ r.t_end \in Nat
      BY <1>1 DEF Reservation
    <3> QED BY <2>1, <3>1, MaskMeaning DEF Covers
  <2>3. b \in grid_blocks[c] <=>
          \E r \in accepted : r.cell = c /\ b \in Mask(r.t_start, r.t_end)
    OBVIOUS
  <2> QED BY <1>1, <2>1, <2>2, <2>3
<1>5. ArgumentsInv
  <2>1. blocked \in SUBSET Cell /\ goal \in Cell /\ cell \in Cell \ blocked
    BY GraphAssumption
  <2>2. start \in Waypoint /\ start.cell = cell /\ start.t_end = start.t_start + PlanSpan
    BY <2>1, HorizonFacts, HeadingType DEF StartAt, Waypoint
  <2> QED BY <2>1, <2>2, HorizonFacts DEF ArgumentsInv
<1>6. NodesInv /\ SearchInv
  <2>1. start.t_start = now
    BY DEF StartAt
  <2> QED BY <1>5, <2>1, StartNode DEF NodesInv, SearchInv, ArgumentsInv
<1>7. PlanInv /\ AloneInv /\ WholeInv /\ ReservedInv
  <2>1. \A i \in 2 .. Len(trajectory) : FALSE
    OBVIOUS
  <2> QED BY <2>1 DEF PlanInv, AloneInv, WholeInv, ReservedInv, Planning
<1> QED BY <1>2, <1>3, <1>4, <1>5, <1>6, <1>7 DEF PlannerInv, TableInv

\* The plan found is the popped path: clear, so nobody's reservation meets it.
LEMMA FoundInv == ASSUME PlannerInv, NEW n \in open, Found(n) PROVE PlannerInv'
<1> USE DEF PlannerInv
<1>1. /\ UNCHANGED <<vars, call, search, cell>>
      /\ outcome = "searching" /\ outcome' = "found" /\ trajectory' = n.path
      /\ wp_index' = 1 /\ planned' = current_tick /\ n.state.cell = goal
  BY DEF Found, Pop
<1>2. TableInv'
  BY <1>1, TableKept
<1>3. /\ current_tick \in Nat /\ current_tick =< now
      /\ current_tick' = current_tick /\ now' = now /\ accepted' = accepted
  BY <1>1 DEF TableInv, TypeOK, vars
<1>4. ArgumentsInv'
  BY <1>1, <1>3 DEF ArgumentsInv, call, search
<1>5. NodesInv' /\ SearchInv'
  BY <1>1, NodesKept DEF search, SearchInv
<1>6. Route(n.path)' /\ PathClear(n.path) /\ n.path[Len(n.path)] = n.state
  BY <1>1, RouteKept DEF NodesInv, SearchInv
<1>7. start.t_start >= current_tick
  BY <1>1, <1>3 DEF SearchInv
<1>8. PlanInv'
  BY <1>1, <1>3, <1>6, <1>7 DEF PlanInv, Planning, call
<1>9. \A i \in 2 .. Len(trajectory') : \A t \in Ticks(i)' : Meeting(i, t)' = {}
  BY <1>1, <1>3, <1>6 DEF PathClear, Ticks, Meeting, Taken, Covers
<1>10. AloneInv' /\ WholeInv'
  BY <1>9 DEF AloneInv, WholeInv
<1>11. ReservedInv'
  BY <1>1 DEF ReservedInv, Planning
<1> QED BY <1>2, <1>4, <1>5, <1>8, <1>10, <1>11

\* A node's successors are steps that the table leaves free.
LEMMA ExpandInv == ASSUME PlannerInv, NEW n \in open, Expand(n) PROVE PlannerInv'
<1> USE DEF PlannerInv
<1> DEFINE news == {[state |-> s, path |-> Append(n.path, s)] : s \in Successors(n.state)}
<1>1. /\ UNCHANGED <<vars, call, outcome, agent>> /\ outcome = "searching"
      /\ expansions < MaxExpansions /\ expansions' = expansions + 1
  BY DEF Expand, Pop
<1>2. TableInv'
  BY <1>1, TableKept
<1>3. ArgumentsInv'
  <2>1. expansions' \in 0 .. MaxExpansions
    BY <1>1, HorizonFacts DEF ArgumentsInv
  <2> QED BY <1>1, <2>1 DEF ArgumentsInv, call, agent, vars
<1>4. ASSUME NEW m \in open'
      PROVE  Route(m.path) /\ m.state = m.path[Len(m.path)] /\ PathClear(m.path)
  <2>1. CASE m \in open
    BY <1>1, <2>1 DEF NodesInv, SearchInv
  <2>2. CASE m \notin open
    <3>1. Route(n.path) /\ PathClear(n.path) /\ n.state = n.path[Len(n.path)]
      BY <1>1 DEF NodesInv, SearchInv
    <3>2. /\ n.path \in Seq(Waypoint) /\ Len(n.path) >= 1 /\ n.state \in Waypoint
          /\ n.state.cell \notin blocked /\ n.state.t_start >= start.t_start
      BY <3>1 DEF Route
    <3>3. m \in news /\ n.state.cell # goal
      BY <2>2, <3>2, HorizonFacts DEF Expand, Waypoint
    <3>4. PICK s \in Successors(n.state) : m = [state |-> s, path |-> Append(n.path, s)]
      BY <3>3
    <3>5. s \in Steps(n.state) /\ IsFree(s.cell, s.t_start, s.t_end)
      BY DEF Successors, Steps
    <3>6. s \in Waypoint /\ s.t_start > n.state.t_start
      BY <3>2, <3>5, StepShape DEF Waypoint
    <3>7. start \in Waypoint /\ start.t_start = now /\ current_tick =< now
            /\ current_tick \in Nat /\ now \in Nat
      BY <1>1 DEF ArgumentsInv, SearchInv, TableInv, TypeOK
    <3>8. s.t_start >= current_tick
      BY <3>2, <3>6, <3>7 DEF Waypoint
    <3>9. Route(Append(n.path, s))
      BY <3>1, <3>3, <3>5, <3>7, ExtendRoute
    <3>10. PathClear(Append(n.path, s))
      BY <3>1, <3>2, <3>5, <3>6, <3>8, ExtendClear
    <3>11. Append(n.path, s)[Len(Append(n.path, s))] = s
      BY <3>2, <3>6
    <3> QED BY <3>4, <3>9, <3>10, <3>11
  <2> QED BY <2>1, <2>2
<1>5. NodesInv' /\ SearchInv'
  BY <1>1, <1>4, RouteKept, ClearKept DEF NodesInv, SearchInv, vars, call
<1>6. PlanInv' /\ AloneInv' /\ WholeInv' /\ ReservedInv'
  BY <1>1, NoPlan DEF PlanInv, Planning, agent
<1> QED BY <1>2, <1>3, <1>5, <1>6

\* The search ends without a plan.
LEMMA QuitInv ==
  ASSUME PlannerInv, outcome = "searching", outcome' \in {"exhausted", "gave_up"},
         UNCHANGED <<vars, call, search, agent>>
  PROVE  PlannerInv'
<1> USE DEF PlannerInv
<1>1. TableInv'
  BY TableKept
<1>2. ArgumentsInv'
  BY DEF ArgumentsInv, call, search, agent, vars
<1>3. NodesInv' /\ SearchInv'
  BY NodesKept DEF search, SearchInv
<1>4. PlanInv' /\ AloneInv' /\ WholeInv' /\ ReservedInv'
  BY NoPlan DEF PlanInv, Planning, agent
<1> QED BY <1>1, <1>2, <1>3, <1>4

\* An insertion that collides does so with the agent's own reservation of the
\* same ticks: another wait at the start, or a visit it made before.
LEMMA ReserveInv == ASSUME PlannerInv, Reserve PROVE PlannerInv'
<1> USE DEF PlannerInv
<1> DEFINE w == trajectory[wp_index]
           new == [cell |-> w.cell, agent_id |-> Self, t_start |-> w.t_start, t_end |-> w.t_end,
                   from |-> current_tick, until |-> current_tick + Horizon]
<1>1. /\ outcome \in Planning /\ outcome' = "reserving" /\ wp_index' = wp_index + 1
      /\ UNCHANGED <<call, search, trajectory, cell, planned>>
      /\ wp_index =< Len(trajectory)
  BY DEF Reserve, Planning
<1>2. /\ Route(trajectory) /\ trajectory[Len(trajectory)].cell = goal
      /\ start.t_start >= planned /\ planned = current_tick
  BY <1>1 DEF PlanInv
<1>3. /\ wp_index \in Nat \ {0} /\ current_tick \in Nat /\ start \in Waypoint
      /\ trajectory \in Seq(Waypoint) /\ Len(trajectory) \in Nat
  BY <1>2 DEF ArgumentsInv, TableInv, TypeOK, Route
<1>4. w \in Waypoint /\ w.t_start >= start.t_start
  BY <1>1, <1>2, <1>3 DEF Route
<1>5. w.t_start \in Nat /\ w.t_end \in Nat /\ w.cell \in Cell /\ w.t_start >= current_tick
  BY <1>2, <1>3, <1>4 DEF Waypoint
<1> HIDE DEF w
<1>6. \/ IsFree(w.cell, w.t_start, w.t_end) /\ Insert(w.cell, Self, w.t_start, w.t_end)
      \/ ~IsFree(w.cell, w.t_start, w.t_end) /\ UNCHANGED vars
  BY DEF Reserve, w
<1>7. /\ current_tick' = current_tick /\ now' = now
      /\ accepted' = accepted \/ accepted' = accepted \cup {new}
  BY <1>6 DEF Insert, vars
<1>8. TableInv'
  <2>1. Self \in Agent
    BY GraphAssumption
  <2> QED BY <1>5, <1>6, <2>1, TableKept, InsertInv
<1>9. ArgumentsInv'
  BY <1>1, <1>3, <1>7 DEF ArgumentsInv, call, search
<1>10. NodesInv' /\ SearchInv'
  BY <1>1, NodesKept DEF search, SearchInv
<1>11. PlanInv'
  BY <1>1, <1>2, <1>7, RouteKept DEF PlanInv, Planning, call
<1>12. AloneInv'
  <2> SUFFICES ASSUME NEW i \in 2 .. Len(trajectory), NEW t \in Ticks(i), NEW r \in Meeting(i, t)'
               PROVE  r.agent_id = Self
    BY <1>1 DEF AloneInv, Ticks
  <2>1. CASE r \in accepted
    <3>1. r \in Meeting(i, t)
      BY <1>1, <2>1 DEF Meeting, Covers
    <3> QED BY <3>1 DEF AloneInv
  <2>2. CASE r \notin accepted
    <3>1. r = new
      BY <1>7, <2>2 DEF Meeting
    <3> QED BY <3>1
  <2> QED BY <2>1, <2>2
<1>13. WholeInv'
  <2> SUFFICES ASSUME NEW i \in 2 .. Len(trajectory), i >= wp_index + 1,
                      ~Short(trajectory[i]), NEW t \in Ticks(i), NEW r \in Meeting(i, t)'
               PROVE  /\ r.t_start =< trajectory[i].t_start /\ trajectory[i].t_end =< r.t_end
                      /\ r.until = planned + Horizon
    BY <1>1 DEF WholeInv, Ticks, Short
  <2>1. CASE r \in accepted
    <3>1. r \in Meeting(i, t) /\ i >= wp_index
      BY <1>1, <1>3, <2>1 DEF Meeting, Covers
    <3> QED BY <1>1, <3>1 DEF WholeInv
  <2>2. CASE r \notin accepted
    <3>1. r = new
      BY <1>7, <2>2 DEF Meeting
    <3>2. i \in 1 .. Len(trajectory) /\ wp_index \in 1 .. i /\ i \in 1 .. i
      BY <1>1, <1>3
    <3>3. WaitsUpto(trajectory, i)
      BY <1>2, <3>2 DEF Route
    <3>4. /\ FromStart(trajectory[i]) /\ FromStart(w) /\ w.t_start =< trajectory[i].t_start
      BY <3>2, <3>3 DEF WaitsUpto, w
    <3>5. trajectory[i].t_end = w.t_end /\ trajectory[i] \in Waypoint
      BY <1>3, <3>2, <3>4 DEF FromStart
    <3> QED BY <1>2, <1>5, <3>1, <3>4, <3>5
  <2> QED BY <2>1, <2>2
<1>14. ReservedInv'
  <2> SUFFICES ASSUME NEW i \in 2 .. Len(trajectory), i < wp_index + 1
               PROVE  OwnReserved(i)'
    BY <1>1 DEF ReservedInv, Planning
  <2>1. CASE i < wp_index
    <3>1. OwnReserved(i)
      BY <1>1, <2>1 DEF ReservedInv
    <3> QED BY <1>1, <1>7, <3>1, OwnKept
  <2>2. CASE i = wp_index
    <3> SUFFICES ASSUME NEW t \in Ticks(i)
                 PROVE  \E r \in accepted' : /\ r.agent_id = Self /\ r.cell = w.cell
                                             /\ Covers(r, t) /\ t < r.until
      BY <1>1, <2>2 DEF OwnReserved, Ticks, Covers, w
    <3>1. t \in Int /\ w.t_start =< t /\ t < w.t_end /\ t < planned + Horizon
      BY <1>5, <2>2 DEF Ticks, w
    <3>2. CASE Insert(w.cell, Self, w.t_start, w.t_end)
      <4>1. new \in accepted'
        BY <3>2 DEF Insert
      <4>2. Covers(new, t) /\ t < new.until
        BY <1>2, <3>1 DEF Covers
      <4> QED BY <4>1, <4>2
    <3>3. CASE ~IsFree(w.cell, w.t_start, w.t_end) /\ accepted' = accepted
      <4>1. PICK u \in w.t_start .. w.t_end - 1 :
              u < current_tick + Horizon /\ Taken(w.cell, u)
        BY <1>5, <3>3, FreeMeaning
      <4>2. PICK r \in accepted : r.cell = w.cell /\ Covers(r, u) /\ u < r.until
        BY <4>1 DEF Taken
      <4>3. u \in Ticks(i)
        BY <1>2, <2>2, <4>1 DEF Ticks, w
      <4>4. r \in Meeting(i, u)
        <5>1. r.from =< current_tick /\ r.from \in Nat
          BY DEF TableInv, Windows, TypeOK, Reservation
        <5>2. r.from =< u
          BY <1>3, <1>5, <4>1, <5>1
        <5> QED BY <2>2, <4>2, <5>2 DEF Meeting, w
      <4>5. r.agent_id = Self
        BY <4>3, <4>4 DEF AloneInv
      <4>6. CASE Short(w)
        <5>1. t = u
          BY <1>5, <3>1, <4>1, <4>6 DEF Short
        <5> QED BY <3>3, <4>2, <4>5, <5>1
      <4>7. CASE ~Short(w)
        <5>1. /\ r.t_start =< w.t_start /\ w.t_end =< r.t_end /\ r.until = planned + Horizon
          BY <1>1, <1>3, <2>2, <4>3, <4>4, <4>7 DEF WholeInv, w
        <5>2. r.t_start \in Nat /\ r.t_end \in Nat
          BY DEF TableInv, TypeOK, Reservation
        <5>3. Covers(r, t) /\ t < r.until
          BY <1>5, <3>1, <5>1, <5>2 DEF Covers
        <5> QED BY <3>3, <4>2, <4>5, <5>3
      <4> QED BY <4>6, <4>7
    <3> QED BY <1>6, <3>2, <3>3 DEF vars
  <2> QED BY <1>3, <2>1, <2>2
<1> QED BY <1>8, <1>9, <1>10, <1>11, <1>12, <1>13, <1>14

LEMMA TickFacts ==
  ASSUME TableInv, EndTick
  PROVE  /\ current_tick \in Nat /\ current_tick' \in Nat /\ current_tick =< current_tick'
         /\ accepted' = accepted
BY DEF EndTick, TableInv, TypeOK

LEMMA AdoptInv == ASSUME PlannerInv, Adopt PROVE PlannerInv'
<1> USE DEF PlannerInv
<1>1. /\ outcome = "reserving" /\ outcome' = "executing" /\ wp_index > Len(trajectory)
      /\ wp_index' = 1 /\ open' = {} /\ expansions' = 0 /\ EndTick
      /\ UNCHANGED <<call, trajectory, cell, planned>>
  BY DEF Adopt
<1>2. TableInv'
  BY <1>1, EndTickInv
<1>3. current_tick \in Nat /\ current_tick' \in Nat /\ current_tick =< current_tick' /\ accepted' = accepted
  BY <1>1, TickFacts
<1>4. ArgumentsInv'
  BY <1>1, <1>3, HorizonFacts DEF ArgumentsInv, call
<1>5. NodesInv' /\ SearchInv'
  BY <1>1 DEF NodesInv, SearchInv
<1>6. PlanInv'
  BY <1>1, RouteKept DEF PlanInv, Planning, call
<1>7. AloneInv' /\ WholeInv'
  BY <1>1, <1>3, AloneKept DEF WholeInv, Planning
<1>8. ReservedInv'
  <2>1. \A i \in 2 .. Len(trajectory) : OwnReserved(i)
    <3>1. trajectory \in Seq(Waypoint) /\ wp_index \in Nat
      BY <1>1 DEF PlanInv, Route, Planning, ArgumentsInv
    <3> QED BY <1>1, <3>1 DEF ReservedInv, Planning
  <2> QED BY <1>1, <1>3, <2>1, OwnKept DEF ReservedInv, Planning
<1> QED BY <1>2, <1>4, <1>5, <1>6, <1>7, <1>8

LEMMA PlanFailedInv == ASSUME PlannerInv, PlanFailed PROVE PlannerInv'
<1> USE DEF PlannerInv
<1>1. /\ outcome \in {"exhausted", "gave_up"} /\ outcome' = "waiting"
      /\ open' = {} /\ expansions' = 0 /\ EndTick /\ UNCHANGED <<call, agent>>
  BY DEF PlanFailed
<1>2. TableInv'
  BY <1>1, EndTickInv
<1>3. current_tick \in Nat /\ current_tick' \in Nat /\ current_tick =< current_tick'
  BY <1>1, TickFacts
<1>4. ArgumentsInv'
  BY <1>1, <1>3, HorizonFacts DEF ArgumentsInv, call, agent
<1>5. NodesInv' /\ SearchInv'
  BY <1>1 DEF NodesInv, SearchInv
<1>6. PlanInv' /\ AloneInv' /\ WholeInv' /\ ReservedInv'
  BY <1>1, NoPlan DEF PlanInv, Planning, agent
<1> QED BY <1>2, <1>4, <1>5, <1>6

LEMMA DriveInv == ASSUME PlannerInv, Drive PROVE PlannerInv'
<1> USE DEF PlannerInv
<1>1. /\ outcome = "executing" /\ wp_index =< Len(trajectory)
      /\ cell' = trajectory[wp_index].cell /\ wp_index' = wp_index + 1 /\ EndTick
      /\ UNCHANGED <<call, search, outcome, trajectory, planned>>
  BY DEF Drive
<1>2. TableInv'
  BY <1>1, EndTickInv
<1>3. current_tick \in Nat /\ current_tick' \in Nat /\ current_tick =< current_tick' /\ accepted' = accepted
  BY <1>1, TickFacts
<1>4. ArgumentsInv'
  <2>1. Route(trajectory) /\ wp_index \in Nat \ {0}
    BY <1>1 DEF PlanInv, ArgumentsInv
  <2>2. wp_index \in 1 .. Len(trajectory) /\ trajectory[wp_index] \in Waypoint
    BY <1>1, <2>1 DEF Route
  <2>3. cell' \in Cell \ blocked
    BY <1>1, <2>1, <2>2 DEF Route, Waypoint
  <2> QED BY <1>1, <1>3, <2>1, <2>3 DEF ArgumentsInv, call, search
<1>5. NodesInv' /\ SearchInv'
  BY <1>1, NodesKept DEF search, SearchInv
<1>6. PlanInv'
  BY <1>1, RouteKept DEF PlanInv, Planning, call
<1>7. AloneInv' /\ WholeInv'
  BY <1>1, <1>3, AloneKept DEF WholeInv, Planning
<1>8. ReservedInv'
  BY <1>1, <1>3, OwnKept DEF ReservedInv, Planning
<1> QED BY <1>2, <1>4, <1>5, <1>6, <1>7, <1>8

LEMMA HoldInv == ASSUME PlannerInv, Hold PROVE PlannerInv'
<1> USE DEF PlannerInv
<1>1. /\ outcome' = "waiting" /\ trajectory' = <<>> /\ EndTick
      /\ UNCHANGED <<call, search, cell, wp_index, planned>>
  BY DEF Hold
<1>2. TableInv'
  BY <1>1, EndTickInv
<1>3. current_tick \in Nat /\ current_tick' \in Nat /\ current_tick =< current_tick'
  BY <1>1, TickFacts
<1>4. ArgumentsInv'
  BY <1>1, <1>3 DEF ArgumentsInv, call, search
<1>5. NodesInv' /\ SearchInv'
  BY <1>1, NodesKept DEF search, SearchInv
<1>6. PlanInv' /\ AloneInv' /\ WholeInv' /\ ReservedInv'
  BY <1>1, NoPlan DEF Planning
<1> QED BY <1>2, <1>4, <1>5, <1>6

\* What somebody else reserves meets no reservation of the plan.
LEMMA HearInv == ASSUME PlannerInv, Hear PROVE PlannerInv'
<1> USE DEF PlannerInv
<1>1. /\ outcome \in {"executing", "waiting"}
      /\ UNCHANGED <<call, search, agent, outcome>>
  BY DEF Hear
<1>2. PICK q \in Intents : Insert(q.cell, q.agent_id, q.t_start, q.t_end)
  BY DEF Hear
<1>3. q.cell \in Cell /\ q.agent_id \in Agent /\ q.t_start \in Nat /\ q.t_end \in Nat /\ q.agent_id # Self
  BY OthersAssumption DEF Reservation
<1> DEFINE new == [cell |-> q.cell, agent_id |-> q.agent_id, t_start |-> q.t_start,
                   t_end |-> q.t_end, from |-> current_tick, until |-> current_tick + Horizon]
<1>4. TableInv'
  BY <1>2, <1>3, InsertInv
<1>5. /\ current_tick' = current_tick /\ now' = now /\ accepted' = accepted \cup {new}
      /\ IsFree(q.cell, q.t_start, q.t_end)
  BY <1>2 DEF Insert
<1>6. ArgumentsInv'
  BY <1>1, <1>5 DEF ArgumentsInv, call, search, agent
<1>7. NodesInv' /\ SearchInv'
  BY <1>1, NodesKept DEF search, SearchInv
<1>8. PlanInv'
  BY <1>1, RouteKept DEF PlanInv, Planning, call, agent
<1>9. AloneInv'
  <2> SUFFICES ASSUME NEW i \in 2 .. Len(trajectory), NEW t \in Ticks(i), NEW r \in Meeting(i, t)'
               PROVE  r.agent_id = Self
    BY <1>1 DEF AloneInv, Ticks, agent
  <2>1. CASE r \in accepted
    <3>1. r \in Meeting(i, t)
      BY <1>1, <2>1 DEF Meeting, Covers, agent
    <3> QED BY <3>1 DEF AloneInv
  <2>2. CASE r \notin accepted
    <3>1. r = new /\ r.cell = trajectory[i].cell /\ Covers(r, t) /\ r.from =< t
      BY <1>1, <1>5, <2>2 DEF Meeting, Covers, agent
    <3>2. outcome = "executing"
      <4>1. trajectory = <<>> => Len(trajectory) = 0
        OBVIOUS
      <4> QED BY <1>1, <4>1 DEF PlanInv, Planning
    <3>3. PICK o \in accepted : o.cell = trajectory[i].cell /\ Covers(o, t) /\ t < o.until
      BY <3>2 DEF ReservedInv, OwnReserved
    <3>4. /\ current_tick \in Nat /\ planned \in Nat /\ planned =< current_tick
          /\ t \in Int /\ t < planned + Horizon
      BY DEF TableInv, TypeOK, ArgumentsInv, Ticks
    <3>5. t \in Nat /\ t >= current_tick /\ t < current_tick + Horizon /\ q.t_start =< t /\ t < q.t_end
      BY <3>1, <3>4, HorizonAssumption DEF Covers
    <3>6. o.cell = q.cell
      BY <3>1, <3>3
    <3>7. t >= o.until
      BY <1>3, <1>5, <3>3, <3>5, <3>6, NewApart
    <3>8. o.until \in Nat
      BY DEF TableInv, TypeOK, Reservation
    <3> QED BY <3>3, <3>5, <3>7, <3>8
  <2> QED BY <2>1, <2>2
<1>10. WholeInv'
  BY <1>1 DEF WholeInv, Planning
<1>11. ReservedInv'
  BY <1>1, <1>5, OwnKept DEF ReservedInv, Planning, agent
<1> QED BY <1>4, <1>6, <1>7, <1>8, <1>9, <1>10, <1>11

LEMMA PlanAgainInv == ASSUME PlannerInv, PlanAgain PROVE PlannerInv'
<1> USE DEF PlannerInv
<1>1. /\ goal' \in {goal, Charger} /\ start' = StartAt(now, cell, goal')
      /\ open' = {[state |-> start', path |-> <<start'>>]}
      /\ outcome' = "searching" /\ trajectory' = <<>>
      /\ UNCHANGED <<vars, blocked, expansions, cell, wp_index, planned>>
  BY DEF PlanAgain
<1>2. TableInv'
  BY <1>1, TableKept
<1>3. ArgumentsInv'
  <2>1. goal' \in Cell /\ cell \in Cell \ blocked /\ now \in Nat
    BY <1>1, GraphAssumption DEF ArgumentsInv, TableInv, TypeOK
  <2>2. start' \in Waypoint /\ start'.cell = cell /\ start'.t_end = start'.t_start + PlanSpan
    BY <1>1, <2>1, HorizonFacts, HeadingType DEF StartAt, Waypoint
  <2> QED BY <1>1, <2>1, <2>2 DEF ArgumentsInv, vars
<1>4. start'.t_start = now'
  BY <1>1 DEF StartAt, vars
<1>5. ASSUME NEW p, p = <<start'>>
      PROVE  Route(p)' /\ PathClear(p)' /\ p[Len(p)] = start'
  <2>1. start' \in Waypoint /\ start'.cell \notin blocked'
    BY <1>3 DEF ArgumentsInv
  <2>2. p \in Seq(Waypoint) /\ Len(p) = 1 /\ p[1] = start'
    BY <1>5, <2>1
  <2>3. WaitsUpto(p, 1)'
    BY <2>1, <2>2 DEF WaitsUpto, FromStart, Waypoint
  <2> QED BY <2>1, <2>2, <2>3 DEF Route, PathClear, Waypoint
<1>6. NodesInv' /\ SearchInv'
  BY <1>1, <1>4, <1>5 DEF NodesInv, SearchInv
<1>7. PlanInv' /\ AloneInv' /\ WholeInv' /\ ReservedInv'
  BY <1>1, NoPlan DEF Planning
<1> QED BY <1>2, <1>3, <1>6, <1>7

LEMMA StutterInv == ASSUME PlannerInv, UNCHANGED dsippVars PROVE PlannerInv'
<1> USE DEF PlannerInv, dsippVars
<1>1. TableInv'
  BY TableKept
<1>2. ArgumentsInv'
  BY DEF ArgumentsInv, call, search, agent, vars
<1>3. NodesInv' /\ SearchInv'
  BY NodesKept, ClearKept DEF search, SearchInv, call, vars
<1>4. PlanInv'
  BY RouteKept DEF PlanInv, call, agent, vars
<1>5. AloneInv'
  BY AloneKept DEF agent, vars
<1>6. WholeInv' /\ ReservedInv'
  BY OwnKept DEF WholeInv, ReservedInv, Ticks, Meeting, Covers, Short, agent, vars
<1> QED BY <1>1, <1>2, <1>3, <1>4, <1>5, <1>6

-----------------------------------------------------------------------------
\* The planner and its table keep the inductive invariant.
THEOREM PlannerInductive == DSippSpec => []PlannerInv
<1>1. PlannerInv /\ [PlannerNext]_dsippVars => PlannerInv'
  <2> SUFFICES ASSUME PlannerInv, [PlannerNext]_dsippVars PROVE PlannerInv'
    OBVIOUS
  <2>1. CASE Exhausted
    BY <2>1, QuitInv DEF Exhausted
  <2>2. CASE Reserve
    BY <2>2, ReserveInv
  <2>3. CASE Adopt
    BY <2>3, AdoptInv
  <2>4. CASE PlanFailed
    BY <2>4, PlanFailedInv
  <2>5. CASE Drive
    BY <2>5, DriveInv
  <2>6. CASE Hold
    BY <2>6, HoldInv
  <2>7. CASE Hear
    BY <2>7, HearInv
  <2>8. CASE PlanAgain
    BY <2>8, PlanAgainInv
  <2>9. ASSUME NEW n \in open, Found(n) PROVE PlannerInv'
    BY <2>9, FoundInv
  <2>10. ASSUME NEW n \in open, Expand(n) PROVE PlannerInv'
    BY <2>10, ExpandInv
  <2>11. ASSUME NEW n \in open, GiveUp(n) PROVE PlannerInv'
    BY <2>11, QuitInv DEF GiveUp, Pop
  <2>12. CASE UNCHANGED dsippVars
    BY <2>12, StutterInv
  <2> QED
    BY <2>1, <2>2, <2>3, <2>4, <2>5, <2>6, <2>7, <2>8, <2>9, <2>10, <2>11, <2>12 DEF PlannerNext
<1> QED BY <1>1, PlannerInit, PTL DEF DSippSpec

\* Types: the agent also never leaves the cells that are not blocked.
THEOREM SearchTypes == DSippSpec => []SearchTypeOK
<1>1. PlannerInv => SearchTypeOK
  <2> SUFFICES ASSUME PlannerInv PROVE SearchTypeOK
    OBVIOUS
  <2>1. \A n \in open : n.state \in Waypoint /\ n.path \in Seq(Waypoint)
    <3> TAKE n \in open
    <3>1. n.path \in Seq(Waypoint) /\ Len(n.path) >= 1 /\ n.state = n.path[Len(n.path)]
      BY DEF PlannerInv, NodesInv, Route
    <3> QED BY <3>1
  <2>2. trajectory \in Seq(Waypoint)
    <3>1. <<>> \in Seq(Waypoint)
      OBVIOUS
    <3> QED BY <3>1 DEF PlannerInv, PlanInv, Route
  <2> QED BY <2>1, <2>2 DEF PlannerInv, ArgumentsInv, TableInv, TypeOK, SearchTypeOK
<1> QED BY <1>1, PlannerInductive, PTL

\* The plan in execution meets no reservation of anybody else, made before it
\* or after it.
THEOREM Presence == DSippSpec => []PresenceClear
<1>1. PlannerInv => PresenceClear
  <2> SUFFICES ASSUME PlannerInv, NEW i \in 2 .. Len(trajectory),
                      NEW r \in accepted, r.agent_id # Self, r.cell = trajectory[i].cell,
                      NEW t, t \in trajectory[i].t_start ..
                               (IF i = Len(trajectory) THEN trajectory[i].t_start + 1
                                ELSE trajectory[i + 1].t_start) - 1,
                      Covers(r, t), r.from =< t, t < r.until, t < planned + Horizon
               PROVE  FALSE
    BY DEF PresenceClear
  <2>1. /\ Route(trajectory) /\ trajectory[Len(trajectory)].cell = goal
    <3>1. trajectory # <<>>
      OBVIOUS
    <3> QED BY <3>1 DEF PlannerInv, PlanInv
  <2>2. i \in Nat /\ Len(trajectory) \in Nat /\ trajectory[i] \in Waypoint
    BY <2>1 DEF Route
  <2>3. t \in trajectory[i].t_start .. trajectory[i].t_end - 1
    <3>1. CASE i = Len(trajectory)
      <4>1. i - 1 \in 1 .. Len(trajectory) - 1 /\ (i - 1) + 1 = i
        BY <2>2, <3>1
      <4>2. trajectory[i - 1].cell # goal
        BY <2>1, <4>1 DEF Route
      <4>3. \/ trajectory[i].t_end = trajectory[i].t_start + 1
            \/ trajectory[i].cell = trajectory[i - 1].cell
        BY <2>1, <4>1 DEF Route
      <4> QED BY <2>1, <2>2, <3>1, <4>2, <4>3
    <3>2. CASE i # Len(trajectory)
      <4>1. i \in 1 .. Len(trajectory) - 1 /\ i + 1 \in 1 .. Len(trajectory)
        BY <2>2, <3>2
      <4>2. trajectory[i + 1].t_start =< trajectory[i].t_end /\ trajectory[i + 1] \in Waypoint
        BY <2>1, <4>1 DEF Route
      <4>3. t \in trajectory[i].t_start .. trajectory[i + 1].t_start - 1
        BY <3>2
      <4> QED BY <2>2, <4>2, <4>3 DEF Waypoint
    <3> QED BY <3>1, <3>2
  <2>4. r \in Meeting(i, t) /\ t \in Ticks(i)
    BY <2>3 DEF Meeting, Ticks
  <2> QED BY <2>4 DEF PlannerInv, AloneInv
<1> QED BY <1>1, PlannerInductive, PTL

\* The plan in execution is reserved, and the table shows it to everybody.
THEOREM OwnReservations == DSippSpec => []PlanReserved
<1>1. PlannerInv => PlanReserved
  <2> SUFFICES ASSUME PlannerInv, outcome = "executing", NEW i \in 2 .. Len(trajectory),
                      NEW t \in Ticks(i)
               PROVE  /\ \E r \in accepted : /\ r.agent_id = Self /\ r.cell = trajectory[i].cell
                                             /\ Covers(r, t)
                      /\ t >= now => ~IsFree(trajectory[i].cell, t, t + 1)
    BY DEF PlanReserved, Ticks
  <2>1. PICK r \in accepted : /\ r.agent_id = Self /\ r.cell = trajectory[i].cell
                              /\ Covers(r, t) /\ t < r.until
    BY DEF PlannerInv, ReservedInv, OwnReserved
  <2>2. ASSUME t >= now PROVE ~IsFree(trajectory[i].cell, t, t + 1)
    <3>1. /\ TableInv /\ current_tick \in Nat /\ now \in Nat /\ current_tick =< now
          /\ planned \in Nat /\ planned =< current_tick
      BY DEF PlannerInv, TableInv, TypeOK, ArgumentsInv
    <3>2. t \in Int /\ t < planned + Horizon
      BY DEF Ticks
    <3>3. t \in Nat /\ t + 1 \in Nat /\ t >= current_tick /\ t < current_tick + Horizon
            /\ t \in t .. (t + 1) - 1
      BY <2>2, <3>1, <3>2, HorizonAssumption
    <3>4. trajectory[i].cell \in Cell
      <4>1. Route(trajectory)
        BY DEF PlannerInv, PlanInv
      <4>2. trajectory[i] \in Waypoint
        BY <4>1 DEF Route
      <4> QED BY <4>2 DEF Waypoint
    <3>5. Taken(trajectory[i].cell, t)
      BY <2>1 DEF Taken
    <3> QED BY <3>1, <3>3, <3>4, <3>5, FreeMeaning
  <2> QED BY <2>1, <2>2
<1> QED BY <1>1, PlannerInductive, PTL


-----------------------------------------------------------------------------
(* The search once everything reserved is over.                            *)

\* The hypothesis of ExactWhenClear.
Settled == \A r \in accepted : r.t_end =< start.t_start \/ r.until =< start.t_start

SearchKey == [cell : Cell, heading : Heading, t_start : Nat]

\* k is at the cell and in the heading of s, no later.
Base(k, s) == k.cell = s.cell /\ k.heading = s.heading /\ k.t_start =< s.t_start

\* Something as good as s is open, or was expanded.
Met(s) == (\E n \in open : Base(n.state, s)) \/ (\E k \in closed : Base(k, s))

\* Where a state with key k drives without losing time in a turn.
Onward(k) ==
  {[cell |-> d, heading |-> DirectionToHeading(k.cell, d), t_start |-> k.t_start + 1] :
     d \in {e \in Neighbors(k.cell) : RotationTicks(k.heading, DirectionToHeading(k.cell, e)) = 0}}

Served(k) == \A s \in Onward(k) : s.t_start =< MaxHorizon => Met(s)

ClosedInv ==
  /\ closed \subseteq SearchKey
  /\ outcome \in {"executing", "waiting"} => closed = {}
  /\ outcome = "exhausted" => open = {}
  /\ outcome = "found" =>
       \A n \in open : Estimate(trajectory[Len(trajectory)]) =< Estimate(n.state)

\* A key closed for a state whose interval was over, so that nothing followed
\* from it, has one before it from which everything did.
SettledInv ==
  outcome \in {"searching", "found", "exhausted"} /\ Settled =>
    /\ \A k \in closed : k.cell # goal /\ \E j \in closed : Base(j, k) /\ Served(j)
    /\ \A n \in open :
         /\ n.state = start \/ (start.t_start < n.state.t_start /\ n.state.t_start =< MaxHorizon)
         /\ n.state.t_start < n.state.t_end \/ \E k \in closed : Base(k, n.state)
    /\ Key(start) \in closed => \A m \in Moves(start) : m.t_start =< MaxHorizon => Met(m)
    /\ Key(start) \in closed \/ start.t_start > MaxHorizon \/ \E n \in open : n.state = start

SearchedInv == ClosedInv /\ SettledInv

\* is_free refuses nothing to a search that starts after everything reserved.
LEMMA SettledFree ==
  ASSUME PlannerInv, outcome = "searching", Settled,
         NEW c \in Cell, NEW s \in Nat, NEW e \in Nat, s >= start.t_start
  PROVE  IsFree(c, s, e)
<1>1. /\ TableInv /\ start.t_start = now /\ current_tick =< now
      /\ current_tick \in Nat /\ now \in Nat
  BY DEF PlannerInv, SearchInv, TableInv, TypeOK
<1>2. ASSUME NEW t \in s .. e - 1 PROVE ~Taken(c, t)
  <2> SUFFICES ASSUME NEW r \in accepted, Covers(r, t), t < r.until PROVE FALSE
    BY DEF Taken
  <2>1. r.t_end \in Nat /\ r.until \in Nat
    BY <1>1 DEF TableInv, TypeOK, Reservation
  <2> QED BY <1>1, <2>1 DEF Settled, Covers
<1> QED BY <1>1, <1>2, FreeMeaning

LEMMA SettledSuccessors ==
  ASSUME PlannerInv, outcome = "searching", Settled,
         NEW s \in Waypoint, s.cell \notin blocked, s.t_start >= start.t_start,
         NEW m \in Steps(s), m.t_start =< MaxHorizon
  PROVE  m \in Successors(s)
<1>1. m \in Waypoint /\ s.t_start < m.t_start
  BY StepShape
<1>2. start \in Waypoint
  BY DEF PlannerInv, ArgumentsInv
<1>3. /\ m.cell \in Cell /\ m.t_start \in Nat /\ m.t_end \in Nat /\ m.t_start >= start.t_start
  BY <1>1, <1>2 DEF Waypoint
<1>4. IsFree(m.cell, m.t_start, m.t_end)
  BY <1>3, SettledFree
<1> QED BY <1>4 DEF Successors, Steps

LEMMA SettledKept ==
  ASSUME SettledInv, UNCHANGED <<accepted, call, open, closed>>,
         outcome \in {"searching", "found", "exhausted"}
  PROVE  SettledInv'
BY DEF SettledInv, Settled, call, Base, Met, Served, Onward, Neighbors, Moves, Key

\* A search that begins.
LEMMA SettledStart ==
  ASSUME ArgumentsInv, closed = {}, NEW p, open = {[state |-> start, path |-> p]}
  PROVE  SettledInv
<1>1. start.t_start < start.t_end
  BY HorizonFacts DEF ArgumentsInv, Waypoint
<1> QED BY <1>1 DEF SettledInv

LEMMA SearchedInit == Plan => SearchedInv
<1> SUFFICES ASSUME Plan PROVE SearchedInv
  OBVIOUS
<1>1. ArgumentsInv
  BY PlannerInit DEF PlannerInv
<1>2. SettledInv
  BY <1>1, SettledStart DEF Plan
<1> QED BY <1>2 DEF Plan, SearchedInv, ClosedInv

LEMMA SearchedFound == ASSUME PlannerInv, SearchedInv, NEW n \in open, Found(n) PROVE SearchedInv'
<1>1. /\ UNCHANGED <<vars, call, search>> /\ outcome = "searching" /\ outcome' = "found"
      /\ trajectory' = n.path /\ \A m \in open : First(n, m)
  BY DEF Found, Pop
<1>2. SettledInv'
  BY <1>1, SettledKept DEF SearchedInv, vars, search
<1>3. n.state = trajectory'[Len(trajectory')]
  BY <1>1 DEF PlannerInv, NodesInv
<1>4. \A m \in open : Estimate(n.state) =< Estimate(m.state)
  <2> TAKE m \in open
  <2>1. n.state \in Waypoint /\ m.state \in Waypoint /\ goal \in Cell
    <3>1. \A o \in open : o.path \in Seq(Waypoint) /\ Len(o.path) >= 1 /\ o.state = o.path[Len(o.path)]
      BY DEF PlannerInv, NodesInv, Route
    <3>2. \A o \in open : o.state \in Waypoint
      BY <3>1
    <3> QED BY <3>2 DEF PlannerInv, ArgumentsInv
  <2>2. Estimate(n.state) \in Nat /\ Estimate(m.state) \in Nat
    BY <2>1, DistanceNat DEF Estimate, Waypoint
  <2> QED BY <1>1, <2>2 DEF First
<1>5. ClosedInv'
  BY <1>1, <1>3, <1>4 DEF SearchedInv, ClosedInv, search, call, Estimate
<1> QED BY <1>2, <1>5 DEF SearchedInv

\* A node that is dropped has its key closed already, or was too late.
LEMMA MetExpand ==
  ASSUME NEW n \in open, Expand(n), n.state.t_start \in Nat,
         NEW m, m.t_start \in Nat, m.t_start =< MaxHorizon, Met(m)
  PROVE  Met(m)'
<1>1. closed \subseteq closed' /\ open \ {n} \subseteq open'
  BY DEF Expand
<1>2. CASE \E k \in closed : Base(k, m)
  BY <1>1, <1>2 DEF Met, Base
<1>3. CASE \E o \in open \ {n} : Base(o.state, m)
  BY <1>1, <1>3 DEF Met, Base
<1>4. CASE Base(n.state, m)
  <2>1. ~(n.state.t_start > MaxHorizon)
    BY <1>4, HorizonFacts DEF Base
  <2>2. Key(n.state) \in closed'
    BY <2>1 DEF Expand
  <2>3. Base(Key(n.state), m)
    BY <1>4 DEF Base, Key
  <2> QED BY <2>2, <2>3 DEF Met, Base
<1> QED BY <1>2, <1>3, <1>4 DEF Met

LEMMA ServedExpand ==
  ASSUME NEW n \in open, Expand(n), n.state.t_start \in Nat,
         NEW k, k.t_start \in Nat, Served(k)
  PROVE  Served(k)'
<1>1. Onward(k)' = Onward(k)
  BY DEF Expand, call, Onward, Neighbors
<1>2. \A s \in Onward(k) : s.t_start \in Nat
  BY DEF Onward
<1>3. \A s \in Onward(k) : s.t_start =< MaxHorizon => Met(s)'
  BY <1>2, MetExpand DEF Served
<1> QED BY <1>1, <1>3 DEF Served

\* The invariant after an expansion, conjunct by conjunct.
LEMMA SearchedExpand == ASSUME PlannerInv, SearchedInv, NEW n \in open, Expand(n) PROVE SearchedInv'
<1> DEFINE s == n.state
           dropped == s.t_start > MaxHorizon \/ Key(s) \in closed
<1>1. /\ UNCHANGED <<vars, call, outcome, agent>> /\ outcome = "searching"
      /\ ~(s.t_start =< MaxHorizon /\ s.cell = goal)
      /\ closed' = IF dropped THEN closed ELSE closed \cup {Key(s)}
      /\ open' = (open \ {n}) \cup
           IF dropped THEN {}
           ELSE {[state |-> m, path |-> Append(n.path, m)] : m \in Successors(s)}
  BY DEF Expand, Pop
<1>2. /\ s \in Waypoint /\ s.cell \notin blocked /\ s.t_start >= start.t_start
      /\ start \in Waypoint /\ start.cell \notin blocked /\ start.t_start < start.t_end
  <2>1. Route(n.path) /\ s = n.path[Len(n.path)]
    BY DEF PlannerInv, NodesInv
  <2>2. start \in Waypoint /\ start.cell \notin blocked /\ start.t_end = start.t_start + PlanSpan
    BY DEF PlannerInv, ArgumentsInv
  <2>3. Len(n.path) \in 1 .. Len(n.path) /\ n.path \in Seq(Waypoint)
    BY <2>1 DEF Route
  <2>4. s \in Waypoint /\ s.cell \notin blocked /\ s.t_start >= start.t_start
    BY <2>1, <2>3 DEF Route
  <2>5. start.t_start < start.t_end
    BY <2>2, HorizonFacts DEF Waypoint
  <2> QED BY <2>2, <2>4, <2>5
<1>3. s.t_start \in Nat /\ s.t_end \in Nat /\ start.t_start \in Nat /\ start.t_end \in Nat /\ MaxHorizon \in Nat
  BY <1>2, HorizonFacts DEF Waypoint
<1>4. ClosedInv'
  <2>1. Key(s) \in SearchKey
    BY <1>2 DEF Key, SearchKey, Waypoint
  <2> QED BY <1>1, <2>1 DEF SearchedInv, ClosedInv
<1>5. SettledInv'
  <2> SUFFICES ASSUME Settled
               PROVE
    /\ \A k \in closed' : k.cell # goal /\ \E j \in closed' : Base(j, k) /\ Served(j)'
    /\ \A o \in open' :
         /\ o.state = start \/ (start.t_start < o.state.t_start /\ o.state.t_start =< MaxHorizon)
         /\ o.state.t_start < o.state.t_end \/ \E k \in closed' : Base(k, o.state)
    /\ Key(start) \in closed' => \A m \in Moves(start) : m.t_start =< MaxHorizon => Met(m)'
    /\ Key(start) \in closed' \/ start.t_start > MaxHorizon \/ \E o \in open' : o.state = start
    BY <1>1 DEF SettledInv, Settled, Base, Moves, Neighbors, Key, call, vars
  <2>1. /\ \A k \in closed : k.cell # goal /\ \E j \in closed : Base(j, k) /\ Served(j)
        /\ \A o \in open :
             /\ o.state = start \/ (start.t_start < o.state.t_start /\ o.state.t_start =< MaxHorizon)
             /\ o.state.t_start < o.state.t_end \/ \E k \in closed : Base(k, o.state)
        /\ Key(start) \in closed => \A m \in Moves(start) : m.t_start =< MaxHorizon => Met(m)
        /\ Key(start) \in closed \/ start.t_start > MaxHorizon \/ \E o \in open : o.state = start
    BY <1>1 DEF SearchedInv, SettledInv
  <2>2. closed \subseteq closed' /\ closed \subseteq SearchKey
    BY <1>1 DEF SearchedInv, ClosedInv
  <2>3. \A k \in closed : k.t_start \in Nat
    BY <2>2 DEF SearchKey
  <2>4. \A k \in closed : Served(k) => Served(k)'
    BY <1>3, <2>3, ServedExpand
  <2>5. \A k \in closed : \E j \in closed' : Base(j, k) /\ Served(j)'
    BY <2>1, <2>2, <2>4
  <2>6. ASSUME ~dropped
        PROVE  /\ closed' = closed \cup {Key(s)} /\ s.t_start =< MaxHorizon /\ s.cell # goal
               /\ \A m \in Steps(s) : m.t_start =< MaxHorizon => \E o \in open' : o.state = m
    <3>1. closed' = closed \cup {Key(s)} /\ s.t_start =< MaxHorizon /\ s.cell # goal
      BY <1>1, <1>3, <2>6
    <3>2. ASSUME NEW m \in Steps(s), m.t_start =< MaxHorizon PROVE \E o \in open' : o.state = m
      <4>1. m \in Successors(s)
        BY <1>1, <1>2, <3>2, SettledSuccessors
      <4>2. [state |-> m, path |-> Append(n.path, m)] \in open'
        BY <1>1, <2>6, <4>1
      <4> QED BY <4>2
    <3> QED BY <3>1, <3>2
  <2>7. \A k \in closed' : k.cell # goal /\ \E j \in closed' : Base(j, k) /\ Served(j)'
    <3> SUFFICES ASSUME ~dropped
                 PROVE  s.cell # goal /\ \E j \in closed' : Base(j, Key(s)) /\ Served(j)'
      BY <1>1, <2>1, <2>5 DEF Key
    <3>1. CASE s.t_start < s.t_end
      <4>1. ASSUME NEW d \in Neighbors(s.cell),
                   RotationTicks(s.heading, DirectionToHeading(s.cell, d)) = 0,
                   s.t_start + 1 =< MaxHorizon,
                   NEW o, o = [cell |-> d, heading |-> DirectionToHeading(s.cell, d),
                               t_start |-> s.t_start + 1]
            PROVE  Met(o)'
        <5> DEFINE m == MoveTo(s, d)
        <5>1. m.cell = d /\ m.heading = DirectionToHeading(s.cell, d) /\ m.t_start = s.t_start + 1
          BY <1>3, <4>1 DEF MoveTo
        <5>2. m \in Steps(s) /\ m.t_start =< MaxHorizon
          BY <1>3, <3>1, <4>1, <5>1 DEF Steps, Moves
        <5> HIDE DEF m
        <5>3. PICK node \in open' : node.state = m
          BY <2>6, <5>2
        <5>4. Base(m, o)
          BY <1>3, <4>1, <5>1 DEF Base
        <5> QED BY <5>3, <5>4 DEF Met, Base
      <4>2. Served(Key(s))'
        <5>1. ASSUME NEW o \in Onward(Key(s)), o.t_start =< MaxHorizon PROVE Met(o)'
          <6>1. PICK d \in Neighbors(s.cell) :
                  /\ RotationTicks(s.heading, DirectionToHeading(s.cell, d)) = 0
                  /\ o = [cell |-> d, heading |-> DirectionToHeading(s.cell, d),
                          t_start |-> s.t_start + 1]
            BY DEF Onward, Key
          <6> QED BY <4>1, <5>1, <6>1
        <5>2. Onward(Key(s))' = Onward(Key(s))
          BY <1>1 DEF Onward, Neighbors, call, Key
        <5> QED BY <5>1, <5>2 DEF Served
      <4>3. Base(Key(s), Key(s))
        BY <1>3 DEF Base, Key
      <4> QED BY <2>6, <4>2, <4>3
    <3>2. CASE ~(s.t_start < s.t_end)
      <4>1. PICK k \in closed : Base(k, s)
        BY <2>1, <3>2
      <4>2. PICK j \in closed' : Base(j, k) /\ Served(j)'
        BY <2>5
      <4>3. Base(j, Key(s))
        <5>1. j.t_start \in Nat /\ k.t_start \in Nat
          BY <2>3, <2>6, <1>3 DEF Key
        <5> QED BY <1>3, <4>1, <4>2, <5>1 DEF Base, Key
      <4> QED BY <2>6, <4>2, <4>3
    <3> QED BY <2>6, <3>1, <3>2
  <2>8. ASSUME NEW o \in open'
        PROVE  /\ o.state = start \/ (start.t_start < o.state.t_start /\ o.state.t_start =< MaxHorizon)
               /\ o.state.t_start < o.state.t_end \/ \E k \in closed' : Base(k, o.state)
    <3>1. CASE o \in open
      BY <2>1, <2>2, <3>1
    <3>2. CASE o \notin open
      <4>1. ~dropped
        BY <1>1, <3>2
      <4>2. PICK m \in Successors(s) : o = [state |-> m, path |-> Append(n.path, m)]
        BY <1>1, <3>2, <4>1
      <4>3. m \in Steps(s) /\ m.t_start =< MaxHorizon
        BY DEF Successors, Steps
      <4>4. /\ m \in Waypoint /\ s.t_start < m.t_start
            /\ \/ m.t_end = m.t_start + 1
               \/ m.cell = s.cell /\ m.heading = s.heading /\ m.t_end = s.t_end
        BY <1>2, <4>3, StepShape
      <4>5. m.t_start \in Nat /\ m.t_end \in Nat
        BY <4>4 DEF Waypoint
      <4>6. m.t_start < m.t_end \/ Base(Key(s), m)
        BY <1>3, <4>4, <4>5 DEF Base, Key
      <4> QED BY <1>2, <1>3, <2>6, <4>1, <4>2, <4>3, <4>4, <4>5, <4>6
    <3> QED BY <3>1, <3>2
  <2>9. ASSUME Key(start) \in closed', NEW m \in Moves(start), m.t_start =< MaxHorizon
        PROVE  Met(m)'
    <3>1. m \in Steps(start) /\ m.t_start \in Nat
      <4>1. m \in Steps(start)
        BY DEF Steps
      <4> QED BY <1>2, <4>1, StepShape DEF Waypoint
    <3>2. CASE Key(start) \in closed
      BY <1>3, <2>1, <2>9, <3>1, <3>2, MetExpand
    <3>3. CASE Key(start) \notin closed
      <4>1. ~dropped /\ Key(start) = Key(s)
        BY <1>1, <2>9, <3>3
      <4>2. s = start
        BY <1>3, <2>1, <4>1 DEF Key
      <4>3. PICK o \in open' : o.state = m
        BY <2>6, <2>9, <3>1, <4>1, <4>2
      <4>4. Base(m, m)
        BY <3>1 DEF Base
      <4> QED BY <4>3, <4>4 DEF Met, Base
    <3> QED BY <3>2, <3>3
  <2>10. Key(start) \in closed' \/ start.t_start > MaxHorizon \/ \E o \in open' : o.state = start
    <3>1. CASE Key(start) \in closed \/ start.t_start > MaxHorizon
      BY <2>2, <3>1
    <3>2. ASSUME NEW o \in open, o.state = start
          PROVE  Key(start) \in closed' \/ start.t_start > MaxHorizon \/ \E q \in open' : q.state = start
      <4>1. CASE o = n
        BY <1>1, <3>2, <4>1
      <4>2. CASE o # n
        BY <1>1, <3>2, <4>2
      <4> QED BY <4>1, <4>2
    <3> QED BY <2>1, <3>1, <3>2
  <2> QED BY <2>7, <2>8, <2>9, <2>10
<1> QED BY <1>4, <1>5 DEF SearchedInv

LEMMA SearchedAgain == ASSUME PlannerInv, SearchedInv, PlanAgain PROVE SearchedInv'
<1>1. ArgumentsInv'
  BY PlanAgainInv DEF PlannerInv
<1>2. /\ closed = {} /\ closed' = closed /\ open' = {[state |-> start', path |-> <<start'>>]}
      /\ outcome' = "searching"
  BY DEF PlanAgain, SearchedInv, ClosedInv
<1>3. ClosedInv'
  BY <1>2 DEF ClosedInv
<1>4. SettledInv'
  <2>1. start'.t_start < start'.t_end
    BY <1>1, HorizonFacts DEF ArgumentsInv, Waypoint
  <2> QED BY <1>2, <2>1 DEF SettledInv
<1> QED BY <1>3, <1>4 DEF SearchedInv

THEOREM SearchedInductive == DSippSpec => []SearchedInv
<1>1. PlannerInv /\ SearchedInv /\ [PlannerNext]_dsippVars => SearchedInv'
  <2> SUFFICES ASSUME PlannerInv, SearchedInv, [PlannerNext]_dsippVars PROVE SearchedInv'
    OBVIOUS
  <2>1. CASE Exhausted
    BY <2>1, SettledKept DEF Exhausted, SearchedInv, ClosedInv, search, vars
  <2>2. CASE Reserve
    BY <2>2 DEF Reserve, SearchedInv, ClosedInv, SettledInv, search
  <2>3. CASE Adopt \/ PlanFailed
    BY <2>3 DEF Adopt, PlanFailed, SearchedInv, ClosedInv, SettledInv
  <2>4. CASE Drive \/ Hold
    BY <2>4 DEF Drive, Hold, SearchedInv, ClosedInv, SettledInv, search
  <2>5. CASE Hear
    BY <2>5 DEF Hear, SearchedInv, ClosedInv, SettledInv, search
  <2>6. CASE PlanAgain
    BY <2>6, SearchedAgain
  <2>7. ASSUME NEW n \in open, Found(n) PROVE SearchedInv'
    BY <2>7, SearchedFound
  <2>8. ASSUME NEW n \in open, Expand(n) PROVE SearchedInv'
    BY <2>8, SearchedExpand
  <2>9. ASSUME NEW n \in open, GiveUp(n) PROVE SearchedInv'
    BY <2>9 DEF GiveUp, SearchedInv, ClosedInv, SettledInv, search
  <2>10. CASE UNCHANGED dsippVars
    <3>1. SettledInv'
      BY <2>10, SettledKept DEF SearchedInv, SettledInv, dsippVars, search, vars
    <3> QED BY <2>10, <3>1 DEF SearchedInv, ClosedInv, dsippVars, search, agent, call, Estimate
  <2> QED BY <2>1, <2>2, <2>3, <2>4, <2>5, <2>6, <2>7, <2>8, <2>9, <2>10 DEF PlannerNext
<1> QED BY <1>1, SearchedInit, PlannerInductive, PTL DEF DSippSpec

-----------------------------------------------------------------------------
(* The reference search.                                                   *)

LEMMA LeastTick ==
  ASSUME NEW T \in SUBSET Nat, T # {}
  PROVE  \E m \in T : \A k \in T : m =< k
<1> DEFINE less == {ss \in Nat \X Nat : ss[1] < ss[2]}
<1>1. IsWellFoundedOn(less, Nat)
  BY NatLessThanWellFounded, Zenon DEF OpToRel
<1> HIDE DEF less
<1>2. PICK m \in T : \A k \in T : ~(<<k, m>> \in less)
  BY <1>1, WFMin
<1>3. SUFFICES ASSUME NEW k \in T PROVE m =< k
  BY <1>2
<1>4. m \in Nat /\ k \in Nat /\ ~(m =< k) => <<k, m>> \in Nat \X Nat /\ k < m
  BY SMT
<1>5. <<k, m>> \in Nat \X Nat /\ k < m => <<k, m>> \in less
  BY Zenon DEF less
<1> QED BY <1>2, <1>4, <1>5

\* Grown, on a table that refuses nothing.
Layer(before, t) ==
  before \cup {s \in {start} : s.t_start = t} \cup
    (UNION {{m \in Moves(s) \cup Waits(s) : m.t_start = t} : s \in before})

\* The layers up to tick k exist ...
LEMMA LayersExist ==
  \A k \in Nat : \E f : f = [t \in 0 .. k |-> Layer(IF t = 0 THEN {} ELSE f[t - 1], t)]
<1> DEFINE Layers(f, k) == f = [t \in 0 .. k |-> Layer(IF t = 0 THEN {} ELSE f[t - 1], t)]
           bad == {k \in Nat : ~ \E f : Layers(f, k)}
<1> SUFFICES ASSUME bad # {} PROVE FALSE
  OBVIOUS
<1>1. PICK m \in bad : \A k \in bad : m =< k
  BY LeastTick
<1>2. CASE m = 0
  <2>1. Layers([t \in 0 .. 0 |-> Layer({}, t)], 0)
    OBVIOUS
  <2> QED BY <1>2, <2>1
<1>3. CASE m # 0
  <2>1. m - 1 \in Nat /\ ~(m =< m - 1)
    BY <1>3
  <2>2. m - 1 \notin bad
    <3> HIDE DEF bad
    <3> QED BY <1>1, <2>1
  <2>3. PICK g : Layers(g, m - 1)
    BY <2>1, <2>2
  <2> DEFINE f == [t \in 0 .. m |-> IF t = m THEN Layer(g[m - 1], m) ELSE g[t]]
  <2>4. ASSUME NEW t \in 0 .. m PROVE f[t] = Layer(IF t = 0 THEN {} ELSE f[t - 1], t)
    <3>1. CASE t = m
      <4>1. f[t] = Layer(g[m - 1], m) /\ f[m - 1] = g[m - 1]
        BY <1>3, <2>1, <3>1
      <4> QED BY <1>3, <3>1, <4>1
    <3>2. CASE t # m
      <4>1. t \in 0 .. m - 1 /\ f[t] = g[t] /\ (t # 0 => f[t - 1] = g[t - 1])
        BY <2>1, <3>2
      <4>2. g[t] = Layer(IF t = 0 THEN {} ELSE g[t - 1], t)
        BY <2>3, <4>1
      <4> QED BY <4>1, <4>2
    <3> QED BY <3>1, <3>2
  <2>5. Layers(f, m)
    BY <2>4
  <2> QED BY <2>5
<1> QED BY <1>2, <1>3

\* ... and are what the reference computes.
LEMMA ReachedLayers ==
  \E f : /\ f = [t \in 0 .. MaxHorizon |-> Layer(IF t = 0 THEN {} ELSE f[t - 1], t)]
         /\ Reached(AlwaysFree) = f[MaxHorizon]
<1> DEFINE U[t \in 0 .. MaxHorizon] == Layer(IF t = 0 THEN {} ELSE U[t - 1], t)
<1>1. \E f : f = [t \in 0 .. MaxHorizon |-> Layer(IF t = 0 THEN {} ELSE f[t - 1], t)]
  BY LayersExist, HorizonFacts
<1>2. U = [t \in 0 .. MaxHorizon |-> Layer(IF t = 0 THEN {} ELSE U[t - 1], t)]
  BY <1>1
<1>3. Reached(AlwaysFree) = U[MaxHorizon]
  BY DEF Reached, Grown, AlwaysFree, Layer
<1> QED BY <1>2, <1>3

\* Whatever holds of the start and is kept by the steps within the horizon
\* holds of every state reached.
LEMMA ReachedInduction ==
  ASSUME start.t_start \in Nat, NEW S, start.t_start =< MaxHorizon => start \in S,
         \A s \in S : \A m \in Steps(s) : m.t_start =< MaxHorizon => m \in S
  PROVE  Reached(AlwaysFree) \subseteq S
<1>1. PICK f : /\ f = [t \in 0 .. MaxHorizon |-> Layer(IF t = 0 THEN {} ELSE f[t - 1], t)]
               /\ Reached(AlwaysFree) = f[MaxHorizon]
  BY ReachedLayers
<1>2. MaxHorizon \in Nat
  BY HorizonFacts
<1> DEFINE bad == {t \in 0 .. MaxHorizon : ~(f[t] \subseteq S)}
<1>0. bad \in SUBSET Nat /\ (bad = {} => f[MaxHorizon] \subseteq S)
  BY <1>2
<1> SUFFICES ASSUME bad # {} PROVE FALSE
  BY <1>1, <1>0
<1>3. PICK t \in bad : \A k \in bad : t =< k
  <2> HIDE DEF bad
  <2> QED BY <1>0, LeastTick
<1>4. t \in 0 .. MaxHorizon /\ f[t] = Layer(IF t = 0 THEN {} ELSE f[t - 1], t)
  BY <1>1
<1>5. (IF t = 0 THEN {} ELSE f[t - 1]) \subseteq S
  <2>1. CASE t # 0
    <3>1. t - 1 \in 0 .. MaxHorizon /\ t - 1 \notin bad
      BY <1>2, <1>3, <1>4, <2>1
    <3> QED BY <2>1, <3>1
  <2> QED BY <2>1
<1>6. \A before : before \subseteq S => Layer(before, t) \subseteq S
  <2> SUFFICES ASSUME NEW before, before \subseteq S, NEW x \in Layer(before, t)
               PROVE  x \in S
    OBVIOUS
  <2>1. CASE x \in before
    BY <2>1
  <2>2. CASE x = start /\ start.t_start = t
    BY <1>2, <1>4, <2>2
  <2>3. ASSUME NEW s \in before, x \in Moves(s) \cup Waits(s), x.t_start = t PROVE x \in S
    BY <1>2, <1>4, <2>3 DEF Steps
  <2> QED BY <2>1, <2>2, <2>3 DEF Layer
<1>7. f[t] \subseteq S
  BY <1>4, <1>5, <1>6
<1> QED BY <1>3, <1>7

-----------------------------------------------------------------------------
\* With four neighbours the distance to the goal falls by one a step at most.
LEMMA ManhattanStep ==
  ASSUME Connectivity = 4, NEW c \in Cell, NEW d \in Neighbors(c), NEW g \in Cell
  PROVE  ManhattanDistance(c, g) =< ManhattanDistance(d, g) + 1
<1> DEFINE cx == Coordinate(c)[1]
           cy == Coordinate(c)[2]
           dx == Coordinate(d)[1]
           dy == Coordinate(d)[2]
           gx == Coordinate(g)[1]
           gy == Coordinate(g)[2]
<1>1. d \in Cell
  BY DEF Neighbors
<1>2. cx \in Int /\ cy \in Int /\ dx \in Int /\ dy \in Int /\ gx \in Int /\ gy \in Int
  BY <1>1, CoordinateInt
<1>3. Magnitude(cx - dx) + Magnitude(cy - dy) = 1
  BY DEF Neighbors
<1> SUFFICES Magnitude(cx - gx) + Magnitude(cy - gy) =< Magnitude(dx - gx) + Magnitude(dy - gy) + 1
  BY DEF ManhattanDistance
<1> HIDE DEF cx, cy, dx, dy, gx, gy
<1> QED BY <1>2, <1>3 DEF Magnitude

LEMMA EstimateStep ==
  ASSUME Connectivity = 4, goal \in Cell, NEW s \in Waypoint, s.cell \notin blocked,
         NEW m \in Steps(s)
  PROVE  Estimate(s) =< Estimate(m)
<1>1. m \in Waypoint /\ s.t_start < m.t_start
  BY StepShape
<1>2. /\ s.cell \in Cell /\ m.cell \in Cell /\ s.t_start \in Nat /\ m.t_start \in Nat
      /\ ManhattanDistance(s.cell, goal) \in Nat /\ ManhattanDistance(m.cell, goal) \in Nat
  BY <1>1, DistanceNat DEF Waypoint
<1>3. CASE m \in Moves(s)
  <2>1. PICK d \in Neighbors(s.cell) : m = MoveTo(s, d)
    BY <1>3 DEF Moves
  <2>2. m.cell = d
    BY <2>1 DEF MoveTo
  <2>3. ManhattanDistance(s.cell, goal) =< ManhattanDistance(m.cell, goal) + 1
    BY <1>2, <2>1, <2>2, ManhattanStep
  <2> QED BY <1>1, <1>2, <2>3 DEF Estimate
<1>4. CASE m \in Waits(s)
  <2>1. m.cell = s.cell
    BY <1>4 DEF Waits, Waypoint
  <2> QED BY <1>1, <1>2, <2>1 DEF Estimate
<1> QED BY <1>3, <1>4 DEF Steps

\* Something as good as s was expanded, or something that promises to arrive
\* no later than s could is open.
Expected(s) ==
  \/ \E k \in closed : Base(k, s)
  \/ \E n \in open : Connectivity = 4 => Estimate(n.state) =< Estimate(s)

\* The shape of the states of the reference: those that wait at the start, and
\* those that arrived by driving.
AtStart(s) == s.cell = start.cell /\ s.heading = start.heading /\ s.t_end = start.t_end

Foreseen(s) ==
  /\ s \in Waypoint /\ s.cell \notin blocked
  /\ start.t_start =< s.t_start /\ s.t_start =< MaxHorizon
  /\ AtStart(s) \/ Short(s)
  /\ Expected(s)

LEMMA MetExpected ==
  ASSUME ArgumentsInv, NodesInv, closed \subseteq SearchKey,
         NEW s, NEW m \in Waypoint, Met(s), s.cell = m.cell, s.heading = m.heading,
         s.t_start \in Nat, s.t_start =< m.t_start
  PROVE  Expected(m)
<1>1. CASE \E k \in closed : Base(k, s)
  <2>1. PICK k \in closed : Base(k, s)
    BY <1>1
  <2>2. k.t_start \in Nat /\ m.t_start \in Nat
    BY DEF SearchKey, Waypoint
  <2>3. Base(k, m)
    BY <2>1, <2>2 DEF Base
  <2> QED BY <2>3 DEF Expected
<1>2. CASE \E n \in open : Base(n.state, s)
  <2>1. PICK n \in open : Base(n.state, s)
    BY <1>2
  <2>2. n.state \in Waypoint
    <3>1. n.path \in Seq(Waypoint) /\ Len(n.path) >= 1 /\ n.state = n.path[Len(n.path)]
      BY DEF NodesInv, Route
    <3> QED BY <3>1
  <2>3. /\ n.state.t_start \in Nat /\ m.t_start \in Nat /\ n.state.t_start =< m.t_start
        /\ n.state.cell = m.cell
    BY <2>1, <2>2 DEF Base, Waypoint
  <2>4. ManhattanDistance(m.cell, goal) \in Nat
    BY DistanceNat DEF ArgumentsInv, Waypoint
  <2>5. Estimate(n.state) =< Estimate(m)
    BY <2>3, <2>4 DEF Estimate
  <2> QED BY <2>5 DEF Expected
<1> QED BY <1>1, <1>2 DEF Met

Searches == {"searching", "found", "exhausted"}

\* A step of a state foreseen is foreseen.  It waits; or it drives off from
\* the start, which the start itself did no later; or it drives on without
\* losing time in a turn, there being none in the interval of a move.
LEMMA ForeseenStep ==
  ASSUME PlannerInv, SearchedInv, Settled, outcome \in Searches,
         NEW s, Foreseen(s), NEW m \in Steps(s), m.t_start =< MaxHorizon
  PROVE  Foreseen(m)
<1>1. /\ s \in Waypoint /\ s.cell \notin blocked /\ start.t_start =< s.t_start
      /\ AtStart(s) \/ Short(s)
      /\ Expected(s)
  BY DEF Foreseen
<1>2. /\ m \in Waypoint /\ m.cell \notin blocked /\ s.t_start < m.t_start /\ m.t_start =< s.t_end
      /\ \/ m.t_end = m.t_start + 1
         \/ m.cell = s.cell /\ m.heading = s.heading /\ m.t_end = s.t_end
  BY <1>1, StepShape
<1>3. /\ ArgumentsInv /\ NodesInv /\ closed \subseteq SearchKey /\ goal \in Cell /\ start \in Waypoint
      /\ \A k \in closed : k.cell # goal /\ \E j \in closed : Base(j, k) /\ Served(j)
      /\ Key(start) \in closed => \A q \in Moves(start) : q.t_start =< MaxHorizon => Met(q)
      /\ Key(start) \in closed \/ start.t_start > MaxHorizon \/ \E n \in open : n.state = start
  BY DEF PlannerInv, ArgumentsInv, SearchedInv, ClosedInv, SettledInv, Searches
<1>4. /\ s.t_start \in Nat /\ s.t_end \in Nat /\ m.t_start \in Nat /\ m.t_end \in Nat
      /\ start.t_start \in Nat /\ start.t_end \in Nat /\ MaxHorizon \in Nat
      /\ s.heading \in Heading /\ s.cell \in Cell
  BY <1>1, <1>2, <1>3, HorizonFacts DEF Waypoint
<1>5. AtStart(m) \/ Short(m)
  BY <1>1, <1>2, <1>4 DEF AtStart, Short
<1>6. ASSUME NEW n \in open, Connectivity = 4 => Estimate(n.state) =< Estimate(s)
      PROVE  Expected(m)
  <2>1. ASSUME Connectivity = 4 PROVE Estimate(n.state) =< Estimate(m)
    <3>1. Estimate(s) =< Estimate(m)
      BY <1>1, <1>3, <2>1, EstimateStep
    <3>2. n.state \in Waypoint
      <4>1. n.path \in Seq(Waypoint) /\ Len(n.path) >= 1 /\ n.state = n.path[Len(n.path)]
        BY <1>3 DEF NodesInv, Route
      <4> QED BY <4>1
    <3>3. Estimate(n.state) \in Nat /\ Estimate(s) \in Nat /\ Estimate(m) \in Nat
      BY <1>1, <1>2, <1>3, <3>2, DistanceNat DEF Estimate, Waypoint
    <3> QED BY <1>6, <2>1, <3>1, <3>3
  <2> QED BY <2>1 DEF Expected
<1>7. ASSUME NEW k \in closed, Base(k, s) PROVE Expected(m)
  <2>1. k.t_start \in Nat
    BY <1>3 DEF SearchKey
  <2>2. CASE m \in Waits(s)
    <3>1. m.cell = s.cell /\ m.heading = s.heading
      BY <1>1, <2>2 DEF Waits, Waypoint
    <3>2. Base(k, m)
      BY <1>2, <1>4, <1>7, <2>1, <3>1 DEF Base
    <3> QED BY <3>2 DEF Expected
  <2>3. CASE m \in Moves(s)
    <3>1. PICK d \in Neighbors(s.cell) : m = MoveTo(s, d)
      BY <2>3 DEF Moves
    <3> DEFINE turn == RotationTicks(s.heading, DirectionToHeading(s.cell, d))
    <3>2. /\ m.cell = d /\ m.heading = DirectionToHeading(s.cell, d)
          /\ m.t_start = s.t_start + turn + 1 /\ turn \in Nat
      BY <1>4, <3>1, HeadingType, RotationType DEF MoveTo
    <3>3. CASE AtStart(s)
      <4> DEFINE q == MoveTo(start, d)
      <4>1. /\ q.cell = d /\ q.heading = m.heading /\ q.t_start = start.t_start + turn + 1
            /\ d \in Neighbors(start.cell)
        BY <3>2, <3>3 DEF MoveTo, AtStart
      <4>2. q.t_start \in Nat /\ q.t_start =< m.t_start /\ q.t_start =< start.t_end
        BY <1>1, <1>2, <1>4, <3>2, <3>3, <4>1 DEF AtStart
      <4>3. q \in Moves(start) /\ q.t_start =< MaxHorizon
        BY <1>4, <4>1, <4>2 DEF Moves
      <4> HIDE DEF q
      <4>4. CASE Key(start) \in closed
        <5>1. Met(q)
          BY <1>3, <4>3, <4>4
        <5> QED BY <1>2, <1>3, <3>2, <4>1, <4>2, <5>1, MetExpected
      <4>5. ASSUME NEW n \in open, n.state = start PROVE Expected(m)
        <5>1. Estimate(start) =< Estimate(s)
          <6>1. ManhattanDistance(s.cell, goal) \in Nat
            BY <1>3, <1>4, DistanceNat
          <6> QED BY <1>1, <1>4, <3>3, <6>1 DEF Estimate, AtStart
        <5> QED BY <1>6, <4>5, <5>1
      <4>6. ~(start.t_start > MaxHorizon)
        BY <1>1, <1>2, <1>4
      <4> QED BY <1>3, <4>4, <4>5, <4>6
    <3>4. CASE Short(s)
      <4>1. turn = 0 /\ m.t_start = s.t_start + 1
        <5> HIDE DEF turn
        <5> QED BY <1>2, <1>4, <3>2, <3>4 DEF Short
      <4>2. PICK j \in closed : Base(j, k) /\ Served(j)
        BY <1>3
      <4> DEFINE o == [cell |-> d, heading |-> DirectionToHeading(s.cell, d),
                       t_start |-> j.t_start + 1]
      <4>3. j.t_start \in Nat /\ j.t_start =< s.t_start /\ j.cell = s.cell /\ j.heading = s.heading
        BY <1>3, <1>4, <1>7, <2>1, <4>2 DEF Base, SearchKey
      <4>4. o \in Onward(j) /\ o.t_start =< MaxHorizon
        BY <1>4, <3>1, <3>2, <4>1, <4>3 DEF Onward
      <4>5. Met(o)
        BY <4>2, <4>4 DEF Served
      <4>6. o.cell = m.cell /\ o.heading = m.heading /\ o.t_start \in Nat /\ o.t_start =< m.t_start
        BY <1>4, <3>2, <4>1, <4>3
      <4> HIDE DEF o
      <4> QED BY <1>2, <1>3, <4>5, <4>6, MetExpected
    <3> QED BY <1>1, <3>3, <3>4
  <2> QED BY <2>2, <2>3 DEF Steps
<1>8. Expected(m)
  BY <1>1, <1>6, <1>7 DEF Expected
<1>9. start.t_start =< m.t_start
  BY <1>1, <1>2, <1>4
<1> QED BY <1>2, <1>5, <1>8, <1>9 DEF Foreseen

LEMMA AllExpected ==
  ASSUME PlannerInv, SearchedInv, Settled, outcome \in Searches
  PROVE  \A s \in Reached(AlwaysFree) : Foreseen(s)
<1> DEFINE S == {s \in Waypoint : Foreseen(s)}
<1>1. start \in Waypoint /\ start.cell \notin blocked /\ goal \in Cell /\ start.t_start \in Nat
  BY DEF PlannerInv, ArgumentsInv, Waypoint
<1>2. ASSUME start.t_start =< MaxHorizon PROVE start \in S
  <2>1. Expected(start)
    <3>1. CASE Key(start) \in closed
      <4>1. Base(Key(start), start)
        BY <1>1 DEF Base, Key
      <4> QED BY <3>1, <4>1 DEF Expected
    <3>2. ASSUME NEW n \in open, n.state = start PROVE Expected(start)
      <4>1. Estimate(start) \in Nat
        BY <1>1, DistanceNat DEF Estimate, Waypoint
      <4> QED BY <3>2, <4>1 DEF Expected
    <3>3. ~(start.t_start > MaxHorizon)
      BY <1>1, <1>2, HorizonFacts
    <3>4. Key(start) \in closed \/ start.t_start > MaxHorizon \/ \E n \in open : n.state = start
      BY DEF SearchedInv, SettledInv, Searches
    <3> QED BY <3>1, <3>2, <3>3, <3>4
  <2> QED BY <1>1, <1>2, <2>1 DEF Foreseen, AtStart
<1>3. ASSUME NEW s \in S, NEW m \in Steps(s), m.t_start =< MaxHorizon PROVE m \in S
  <2>1. Foreseen(m)
    BY <1>3, ForeseenStep
  <2> QED BY <2>1 DEF Foreseen
<1> HIDE DEF S
<1>4. Reached(AlwaysFree) \subseteq S
  BY <1>1, <1>2, <1>3, ReachedInduction
<1> QED BY <1>4 DEF S

\* Nobody is sent away although there was a way, with any neighbourhood.
THEOREM NoWayOnly ==
  DSippSpec => [](outcome = "exhausted" /\ Settled => Arrivals(AlwaysFree) = {})
<1>1. PlannerInv /\ SearchedInv => (outcome = "exhausted" /\ Settled => Arrivals(AlwaysFree) = {})
  <2> SUFFICES ASSUME PlannerInv, SearchedInv, outcome = "exhausted", Settled,
                      NEW s \in Reached(AlwaysFree), s.cell = goal
               PROVE  FALSE
    BY DEF Arrivals
  <2>1. Expected(s)
    BY AllExpected DEF Searches, Foreseen
  <2>2. open = {} /\ \A k \in closed : k.cell # goal
    BY DEF SearchedInv, ClosedInv, SettledInv
  <2> QED BY <2>1, <2>2 DEF Expected, Base
<1> QED BY <1>1, PlannerInductive, SearchedInductive, PTL

\* With four neighbours, the default of SpatialGraph, the search is
\* exact on a table of reservations that are over.
THEOREM Exact == ASSUME Connectivity = 4 PROVE DSippSpec => []ExactWhenClear
<1>1. PlannerInv /\ SearchedInv /\ (outcome = "exhausted" /\ Settled => Arrivals(AlwaysFree) = {})
        => ExactWhenClear
  <2> SUFFICES ASSUME PlannerInv, SearchedInv, Settled, outcome = "found",
                      NEW s \in Reached(AlwaysFree), s.cell = goal
               PROVE  trajectory[Len(trajectory)].t_start =< s.t_start
    BY DEF ExactWhenClear, Settled, Arrivals
  <2>1. Expected(s) /\ s \in Waypoint
    BY AllExpected DEF Searches, Foreseen
  <2> DEFINE last == trajectory[Len(trajectory)]
  <2>2. last.cell = goal /\ last \in Waypoint /\ goal \in Cell
    <3>1. Route(trajectory) /\ last.cell = goal
      BY DEF PlannerInv, PlanInv, Planning
    <3>2. trajectory \in Seq(Waypoint) /\ Len(trajectory) >= 1
      BY <3>1 DEF Route
    <3> QED BY <3>1, <3>2 DEF PlannerInv, ArgumentsInv
  <2>3. \A n \in open : Estimate(last) =< Estimate(n.state)
    BY DEF SearchedInv, ClosedInv
  <2>4. \A k \in closed : k.cell # goal
    BY DEF SearchedInv, SettledInv
  <2>5. PICK n \in open : Estimate(n.state) =< Estimate(s)
    BY <2>1, <2>4 DEF Expected, Base
  <2>6. n.state \in Waypoint
    <3>1. n.path \in Seq(Waypoint) /\ Len(n.path) >= 1 /\ n.state = n.path[Len(n.path)]
      BY DEF PlannerInv, NodesInv, Route
    <3> QED BY <3>1
  <2> HIDE DEF last
  <2>7. Estimate(last) \in Nat /\ Estimate(s) \in Nat /\ Estimate(n.state) \in Nat
    BY <2>1, <2>2, <2>6, DistanceNat DEF Estimate, Waypoint
  <2>8. Estimate(last) =< Estimate(s)
    BY <2>3, <2>5, <2>7
  <2>9. ManhattanDistance(goal, goal) = 0
    BY <2>2, CoordinateInt DEF ManhattanDistance, Magnitude
  <2>10. Estimate(last) = last.t_start /\ Estimate(s) = s.t_start
    BY <2>1, <2>2, <2>9 DEF Estimate, Waypoint
  <2> QED BY <2>8, <2>10 DEF last
<1> QED BY <1>1, PlannerInductive, SearchedInductive, NoWayOnly, PTL

=============================================================================
