------------------------------ MODULE Localizer ------------------------------
(***************************************************************************)
(* Localizer (src/sensor/mod.rs): the pose estimate, moved by odometry,    *)
(* corrected by lidar, and the mode that says how far it is to be trusted. *)
(*                                                                         *)
(* Positions are integers, CellSize of them to a cell.  The displacement   *)
(* an odometry reading stands for is chosen freely, which covers every     *)
(* reading (an inactive driver's is 0), and the heading is left out.       *)
(***************************************************************************)
EXTENDS Integers

CONSTANTS
  GridWidth, GridHeight,
  CellSize,        \* positions to a cell
  MaxDead,         \* MAX_DEAD_RECKONING_TICKS (3)
  CounterSpace,    \* number of values of dead_reckoning_ticks (2^16)
  Displacement,    \* displacements per odometry reading, along one axis
  Margin           \* bound: how far outside the grid a pose may get

ASSUME LocalizerAssumption ==
  /\ GridWidth \in Nat \ {0} /\ GridHeight \in Nat \ {0} /\ CellSize \in Nat \ {0}
  /\ MaxDead \in Nat /\ CounterSpace \in Nat /\ MaxDead + 1 < CounterSpace
  /\ Displacement \subseteq Int /\ Margin \in Nat

VARIABLES
  x, y,      \* pose
  mode,      \* LocalizationMode
  dead_reckoning_ticks,
  scanAge    \* odometry steps since the last correction, capped

localizerVars == <<x, y, mode, dead_reckoning_ticks, scanAge>>

Below(n, bound) == IF n < bound THEN n ELSE bound

-----------------------------------------------------------------------------
(* Cells.                                                                  *)

\* Pose::to_cell, one coordinate: floor(position / cell_size_m).max(0)
Along(position) == IF position < 0 THEN 0 ELSE position \div CellSize
CellOf(px, py) == Along(py) * GridWidth + Along(px)

Centre(n) == n * CellSize + CellSize \div 2

\* correct_from_lidar, one coordinate: 30% of the way to the cell's centre
PulledBug(position, n) == (7 * position + 3 * Centre(n + 1)) \div 10
Pulled(position, n) == (7 * position + 3 * Centre(n)) \div 10

WithinMargin(px, py) ==
  /\ px \in -Margin .. GridWidth * CellSize + Margin
  /\ py \in -Margin .. GridHeight * CellSize + Margin

-----------------------------------------------------------------------------
PlacedAt(cell) ==
  /\ x' = Centre(cell % GridWidth) /\ y' = Centre(cell \div GridWidth)
  /\ dead_reckoning_ticks' = 0 /\ mode' = "Fused" /\ scanAge' = 0

LocalizerInit ==
  /\ \E cell \in 0 .. GridWidth * GridHeight - 1 :
       x = Centre(cell % GridWidth) /\ y = Centre(cell \div GridWidth)
  /\ mode = "Fused" /\ dead_reckoning_ticks = 0 /\ scanAge = 0

\* reset(): manual placement
ResetPose == \E cell \in 0 .. GridWidth * GridHeight - 1 : PlacedAt(cell)

ModeAfter(ticks) == IF ticks > MaxDead THEN "DeadReckoning" ELSE mode

\* update_odometry(); the count of steps without lidar is a u16 and wraps.
UpdateOdometry ==
  /\ \E dx \in Displacement, dy \in Displacement :
       WithinMargin(x + dx, y + dy) /\ x' = x + dx /\ y' = y + dy
  /\ dead_reckoning_ticks' = (dead_reckoning_ticks + 1) % CounterSpace
  /\ mode' = ModeAfter(dead_reckoning_ticks')
  /\ scanAge' = Below(scanAge + 1, MaxDead + 1)

\* correct_from_lidar(): the scan itself is not looked at.  The centre is that
\* of current_cell(), taken apart again by grid_width.
CorrectFromLidar ==
  /\ LET cell == CellOf(x, y)
     IN x' = Pulled(x, cell % GridWidth) /\ y' = Pulled(y, cell \div GridWidth)
  /\ dead_reckoning_ticks' = 0 /\ mode' = "Fused" /\ scanAge' = 0

LocalizerNext == ResetPose \/ UpdateOdometry \/ CorrectFromLidar

LocalizerSpec == LocalizerInit /\ [][LocalizerNext]_localizerVars

-----------------------------------------------------------------------------
LocalizerTypeOK ==
  /\ x \in Int /\ y \in Int /\ mode \in {"Fused", "DeadReckoning"}
  /\ dead_reckoning_ticks \in 0 .. CounterSpace - 1 /\ scanAge \in 0 .. MaxDead + 1

\* A pose called fused rests on a correction at most MaxDead odometry steps
\* ago, also after the count of steps has wrapped.
FusedIsRecent == mode = "Fused" => scanAge =< MaxDead

\* A correction does not move the agent to another cell, if the pose was not
\* east of the grid.
CorrectionStays ==
  CorrectFromLidar /\ x < GridWidth * CellSize => CellOf(x', y') = CellOf(x, y)

\* What rests on the pose may rely on its mode and on its cell.
FusedPose == []FusedIsRecent /\ [][CorrectionStays]_localizerVars
=============================================================================
