-------------------------------- MODULE Grid --------------------------------
(***************************************************************************)
(* The grid as the code's helpers see it: SpatialGraph                     *)
(* (src/planner/graph.rs), cells_adjacent and Heading                      *)
(* (src/space_time/mod.rs), the pull-over cells (src/fsm/pullover.rs), the *)
(* lock radius (src/network/consensus.rs) and the heading of a pose        *)
(* (src/sensor/mod.rs, src/hal/kinematics.rs).  Several of them compute    *)
(* the same thing in different ways.                                       *)
(*                                                                         *)
(* They keep no state: the variables are the arguments of one call.        *)
(***************************************************************************)
EXTENDS Integers, FiniteSets

CONSTANTS
  Width, Height,  \* of the grid
  LockRadius      \* LOCK_RADIUS (15)

ASSUME GridAssumption ==
  Width \in Nat \ {0} /\ Height \in Nat \ {0} /\ LockRadius \in Nat

GridCell == 0 .. Width * Height - 1
Heading == 0 .. 3                \* N, E, S, W

VARIABLES
  here, there,    \* two cells
  blocked,        \* blocked of the SpatialGraph
  connectivity,   \* 4 or 8
  heading,
  chosen          \* the arguments have been chosen

gridVars == <<here, there, blocked, connectivity, heading, chosen>>

-----------------------------------------------------------------------------
(* SpatialGraph.                                                           *)

Coordinate(cell) == <<cell % Width, cell \div Width>>
CellFromCoord(px, py) == py * Width + px
OnGrid(px, py) == px \in 0 .. Width - 1 /\ py \in 0 .. Height - 1
IsTraversable(cell) == cell \notin blocked /\ OnGrid(cell % Width, cell \div Width)

Dirs == IF connectivity = 8
        THEN {d \in (-1 .. 1) \X (-1 .. 1) : d # <<0, 0>>}
        ELSE {<<0, -1>>, <<1, 0>>, <<0, 1>>, <<-1, 0>>}

\* The traversable cells one step from px, py.
Reached(px, py, steps) ==
  {cell \in {CellFromCoord(px + d[1], py + d[2]) :
               d \in {s \in steps : OnGrid(px + s[1], py + s[2])}} :
     IsTraversable(cell)}
Neighbors(cell) == Reached(cell % Width, cell \div Width, Dirs)

Distance(n) == IF n < 0 THEN -n ELSE n
ManhattanDistance(a, b) ==
  Distance(Coordinate(a)[1] - Coordinate(b)[1]) + Distance(Coordinate(a)[2] - Coordinate(b)[2])

CellsAdjacentBug(a, b) == Distance(a - b) \in {1, Width}
CellsAdjacent(a, b) == ManhattanDistance(a, b) = 1

-----------------------------------------------------------------------------
(* Pull-over cells.                                                        *)

SideOffsets(h) == IF h \in {0, 2} THEN {<<-1, 0>>, <<1, 0>>} ELSE {<<0, -1>>, <<0, 1>>}

\* find_pullover_cell: the first, if there is one, of these cells
Pullovers(cell, h) == Reached(cell % Width, cell \div Width, SideOffsets(h))

IsIntersection(cell) == Cardinality(Neighbors(cell)) >= 3
PulloverScore(cell) ==
  IF IsIntersection(cell) THEN 100
  ELSE IF Cardinality(Neighbors(cell)) = 1 THEN 10 ELSE 0

-----------------------------------------------------------------------------
(* The lock radius.                                                        *)

CellsInRadius(center) ==
  LET c == Coordinate(center)
      Offset == (-LockRadius .. LockRadius) \X (-LockRadius .. LockRadius)
  IN {CellFromCoord(c[1] + d[1], c[2] + d[2]) :
        d \in {o \in Offset : /\ Distance(o[1]) =< LockRadius - Distance(o[2])
                             /\ OnGrid(c[1] + o[1], c[2] + o[2])}}

IsPeerInRadius(peer, cells) ==
  \E cell \in cells : ManhattanDistance(peer, cell) =< LockRadius

-----------------------------------------------------------------------------
(* Headings, angles in quarter turns.                                      *)

Opposite(h) == (h + 2) % 4
FromU8(v) == IF v \in Heading THEN {v} ELSE {}
FromU8Masked(v) == v % 4

ToRad(h) == IF h = 3 THEN -1 ELSE h             \* Heading::to_rad
HeadingToRad(h) == (5 - h) % 4                  \* kinematics: E 0, N 1, W 2, S 3

\* Pose::from_cell stores to_rad; Pose::to_heading reads E at 0, then N, W, S.
PoseTheta(h) == ToRad(h)
ToHeading(theta) == CHOOSE h \in Heading : HeadingToRad(h) = (theta + 4) % 4

Delta(h) == CASE h = 0 -> <<0, -1>> [] h = 1 -> <<1, 0>>
              [] h = 2 -> <<0, 1>> [] h = 3 -> <<-1, 0>>

-----------------------------------------------------------------------------
GridInit ==
  /\ here = 0 /\ there = 0 /\ blocked = {} /\ connectivity = 4 /\ heading = 0
  /\ chosen = FALSE

\* Any two cells, any heading, and at most one blocked cell.
ChooseArguments ==
  /\ ~chosen /\ chosen' = TRUE
  /\ here' \in GridCell /\ there' \in GridCell
  /\ blocked' \in {{}} \cup {{c} : c \in GridCell}
  /\ connectivity' \in {4, 8} /\ heading' \in Heading

GridNext == ChooseArguments
GridSpec == GridInit /\ [][GridNext]_gridVars

\* The helpers agree with each other.  The peers a PREPARE is sent to are the
\* cells in the radius; adjacency, which compares coordinates, is the edge
\* relation of the open four-connected grid, which crosses no row's end; edges
\* go both ways; a pull-over is a free neighbour beside the agent, neither
\* ahead nor behind, there is none only if both sides are closed, and then the
\* agent stands in no intersection.  A pose set to a heading reads back as its
\* mirror image, N as E and S as W, since the two angle conventions differ.
GridExact ==
  /\ CellFromCoord(Coordinate(here)[1], Coordinate(here)[2]) = here
  /\ there \in CellsInRadius(here) <=> IsPeerInRadius(there, {here})
  /\ CellsAdjacent(here, there) /\ IsTraversable(there) => there \in Neighbors(here)
  /\ connectivity = 4 /\ there \in Neighbors(here) => CellsAdjacent(here, there)
  /\ IsTraversable(here) => (there \in Neighbors(here) /\ IsTraversable(there)
                               <=> here \in Neighbors(there) /\ IsTraversable(there))
  /\ Pullovers(here, heading) \subseteq Neighbors(here)
  /\ Pullovers(here, heading) = Pullovers(here, Opposite(heading))
  /\ Pullovers(here, heading) = {} =>
       \A turn \in {1, 3} :
         LET d == Delta((heading + turn) % 4)
         IN Reached(here % Width, here \div Width, {d}) = {}
  /\ Pullovers(here, heading) = {} /\ connectivity = 4 => PulloverScore(here) < 100
  /\ ToHeading(PoseTheta(heading)) = (5 - heading) % 4
  /\ FromU8(heading) = {FromU8Masked(heading + 4)}
=============================================================================
