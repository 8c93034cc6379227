----------------------------- MODULE ControlLoop -----------------------------
(***************************************************************************)
(* The 10 Hz control loop of one agent: fsm::control_loop::tick and the    *)
(* AgentContext it works on (src/fsm/mod.rs).  One call of tick is one     *)
(* step, an action for each branch of its match; between two calls the     *)
(* caller stores the battery reading, hands over an awarded task and       *)
(* reports obstacles and conflicts by setting the state.                   *)
(*                                                                         *)
(* The planner is abstracted to what the loop sees of it: d_sipp returns a *)
(* walk from the agent's cell to the goal that ends by MAX_HORIZON, an     *)
(* absolute tick, or None.                                                 *)
(***************************************************************************)
EXTENDS Naturals, Sequences, FiniteSets

CONSTANTS
  Cell, Neighbors,  \* Neighbors[c]: traversable cells next to c
  StartCell, ChargerCell,
  Task, TaskGoal,   \* TaskGoal[t]: the cell task t is to be completed at
  None,
  Interrupts,       \* states the caller sets on a sensor or conflict report
  PlannerFails,     \* may d_sipp return None although a walk fits?
  MaxHorizon,       \* MAX_HORIZON of d_sipp (200)
  MaxPlanAttempts,  \* MAX_PLAN_ATTEMPTS (5)
  YieldWaitTicks,   \* YIELD_WAIT_TICKS (2)
  RandomAt, RandomLo, RandomHi, \* above 10 yields: wait 5 to 20 ticks
  HaltAt, HaltWait,             \* above 25 yields: wait 50 ticks
  ParkedWait, ReverseWait,      \* 10 and 3
  MaxYields,        \* largest yield_count (u8: 255)
  MaxWaypoints      \* bound: length of a trajectory

ASSUME GridAssumption ==
  /\ StartCell \in Cell /\ ChargerCell \in Cell
  /\ Neighbors \in [Cell -> SUBSET Cell]
  /\ TaskGoal \in [Task -> Cell] /\ None \notin Task \cup Cell \cup Seq(Cell)
ASSUME WaitsAssumption ==
  /\ {MaxHorizon, MaxPlanAttempts, YieldWaitTicks, RandomAt, RandomLo, RandomHi,
      HaltAt, HaltWait, ParkedWait, ReverseWait, MaxYields, MaxWaypoints} \subseteq Nat
  /\ 0 < YieldWaitTicks /\ 0 < RandomLo /\ RandomLo =< RandomHi
  /\ YieldWaitTicks < HaltWait /\ RandomHi < HaltWait /\ ParkedWait < HaltWait
  /\ ReverseWait < HaltWait /\ HaltAt < MaxYields
  /\ PlannerFails \in BOOLEAN

PlanningStates == {"Planning", "Replanning", "Charging"}
ExternalStates == {"Blocked", "YieldingPullover", "KinematicReverse"}
AgentState ==
  PlanningStates \cup ExternalStates \cup {"Idle", "Executing", "Yielding", "YieldingParked"}

ASSUME InterruptsAssumption == Interrupts \subseteq ExternalStates

VARIABLES
  state, cell, goal_cell, task_id,
  trajectory,     \* cells of the waypoints, or None
  wp_index,       \* index of the next waypoint (from 1)
  tick,           \* ctx.tick, capped once it is past MaxHorizon
  yield_count, yield_wait, plan_attempts,
  low,            \* battery_pct < BATTERY_LOW_PCT
  assigned,       \* tasks the caller has handed over
  ended           \* task_complete and abort_task outputs, [task, how]

waits == <<yield_count, yield_wait>>
plan == <<trajectory, wp_index, plan_attempts>>
mission == <<goal_cell, task_id, ended>>
inputs == <<low, assigned>>
vars == <<state, cell, tick, waits, plan, mission, inputs>>

-----------------------------------------------------------------------------
(* Helpers.  Definitions named ...Bug are faulty variants that no action   *)
(* uses.                                                                   *)

MinOf(m, n) == IF m =< n THEN m ELSE n

\* The battery check at the head of tick: it applies in every state but
\* Charging, whatever the agent is doing.
OverrideBug == low /\ state \notin {"Charging", "Executing"}
Override == low /\ state # "Charging"

\* Walks of d_sipp: a waypoint is a neighbour of the previous one, or a wait.
Walks(from, to) ==
  {w \in UNION {[1 .. n -> Cell] : n \in 1 .. MaxWaypoints} :
     /\ w[1] = from /\ w[Len(w)] = to
     /\ \A i \in 1 .. Len(w) - 1 : w[i + 1] \in Neighbors[w[i]] \cup {w[i]}}

\* The walks d_sipp accepts at the present tick.
Fitting(from, to) == {w \in Walks(from, to) : tick + Len(w) - 1 =< MaxHorizon}

\* Agents found by ReservationBitset::query at the next waypoint: the table
\* keeps no owners and always answers with an empty list.
Conflicting == {}

\* Ticks a yielding agent waits; the jitter is a hash of id and tick.
WaitNeeded ==
  IF yield_count > HaltAt THEN {HaltWait}
  ELSE IF yield_count > RandomAt THEN RandomLo .. RandomHi
  ELSE {YieldWaitTicks}

OneMoreYieldBug == yield_count + 1
OneMoreYield == MinOf(yield_count + 1, MaxYields)

-----------------------------------------------------------------------------
Init ==
  /\ state = "Idle" /\ cell = StartCell
  /\ goal_cell = None /\ task_id = None
  /\ trajectory = None /\ wp_index = 1
  /\ tick = 0 /\ yield_count = 0 /\ yield_wait = 0 /\ plan_attempts = 0
  /\ low = FALSE /\ assigned = {} /\ ended = {}

Report(task, how) == IF task = None THEN {} ELSE {[task |-> task, how |-> how]}

NextTick == tick' = MinOf(tick + 1, MaxHorizon + 1)

AbortTaskBug ==
  /\ goal_cell' = IF Override THEN ChargerCell ELSE goal_cell
  /\ ended' = IF Override THEN ended \cup Report(task_id, "aborted") ELSE ended
  /\ UNCHANGED task_id

\* What the battery check does to the mission.
AbortTask ==
  /\ goal_cell' = IF Override THEN ChargerCell ELSE goal_cell
  /\ ended' = IF Override THEN ended \cup Report(task_id, "aborted") ELSE ended
  /\ task_id' = IF Override THEN None ELSE task_id

AdoptBug(walk) ==
  /\ trajectory' = walk
  /\ plan_attempts' = 0
  /\ state' = "Executing"
  /\ UNCHANGED <<wp_index, yield_count>>

\* d_sipp returned a trajectory: announce it, reserve it, execute it.
Adopt(walk) ==
  /\ trajectory' = walk /\ wp_index' = 1
  /\ plan_attempts' = 0
  /\ state' = "Executing"
  /\ UNCHANGED yield_count

\* d_sipp returned None: try again next tick, yield after MaxPlanAttempts.
PlanFailed ==
  LET attempts == (IF Override THEN 0 ELSE plan_attempts) + 1
  IN  /\ trajectory' = IF Override THEN None ELSE trajectory
      /\ wp_index' = IF Override THEN 1 ELSE wp_index
      /\ \/ /\ attempts > MaxPlanAttempts
            /\ yield_count' = OneMoreYield
            /\ plan_attempts' = 0
            /\ state' = "Yielding"
         \/ /\ attempts =< MaxPlanAttempts
            /\ plan_attempts' = attempts
            /\ state' = IF Override THEN "Charging" ELSE state
            /\ UNCHANGED yield_count

\* Planning, Replanning, Charging; and any state when the battery is low.
TickPlan ==
  /\ Override \/ state \in PlanningStates
  /\ LET goal == IF Override THEN ChargerCell ELSE goal_cell
         fits == IF goal = None THEN {} ELSE Fitting(cell, goal)
     IN  /\ goal # None
         /\ \/ \E walk \in fits : Adopt(walk)
            \/ (PlannerFails \/ fits = {}) /\ PlanFailed
  /\ AbortTask
  /\ NextTick
  /\ UNCHANGED <<cell, yield_wait, inputs>>

MissionOverBug == task_id' = None /\ UNCHANGED goal_cell
MissionOver == goal_cell' = None /\ task_id' = None

\* Executing, past the last waypoint: the goal is reached.
GoalReached ==
  /\ ~Override /\ state = "Executing" /\ trajectory # None
  /\ wp_index > Len(trajectory)
  /\ yield_count' = 0
  /\ trajectory' = None /\ MissionOver
  /\ ended' = ended \cup Report(task_id, "complete")
  /\ state' = "Idle"
  /\ NextTick
  /\ UNCHANGED <<cell, wp_index, plan_attempts, yield_wait, inputs>>

\* Executing, one waypoint per tick, unless the table names another agent.
Advance ==
  /\ ~Override /\ state = "Executing" /\ trajectory # None
  /\ wp_index =< Len(trajectory)
  /\ IF Conflicting # {}
     THEN /\ yield_count' = OneMoreYield
          /\ state' = "Yielding"
          /\ UNCHANGED <<cell, wp_index>>
     ELSE /\ cell' = trajectory[wp_index]
          /\ wp_index' = wp_index + 1
          /\ UNCHANGED <<yield_count, state>>
  /\ NextTick
  /\ UNCHANGED <<trajectory, plan_attempts, yield_wait, mission, inputs>>

WaitThenBug(need, next) ==
  IF yield_wait >= need THEN yield_wait' = 0 /\ state' = next ELSE UNCHANGED <<yield_wait, state>>

\* Count a tick of waiting; after need of them go to the state next.
WaitThen(need, next) ==
  IF yield_wait + 1 >= need
  THEN yield_wait' = 0 /\ state' = next
  ELSE yield_wait' = yield_wait + 1 /\ UNCHANGED state

Waiting(from, needs, next) ==
  /\ ~Override /\ state = from
  /\ \E need \in needs : WaitThen(need, next)
  /\ NextTick
  /\ UNCHANGED <<cell, yield_count, plan, mission, inputs>>

TickYielding == Waiting("Yielding", WaitNeeded, "Replanning")
TickParked == Waiting("YieldingParked", {ParkedWait}, "Replanning")
TickReverse == Waiting("KinematicReverse", {ReverseWait}, "YieldingParked")

TickPullover ==
  /\ ~Override /\ state = "YieldingPullover"
  /\ state' = "YieldingParked"
  /\ NextTick
  /\ UNCHANGED <<cell, waits, plan, mission, inputs>>

TickBlocked ==
  /\ ~Override /\ state = "Blocked"
  /\ trajectory' = None /\ wp_index' = 1
  /\ state' = "Replanning"
  /\ NextTick
  /\ UNCHANGED <<cell, waits, plan_attempts, mission, inputs>>

TickIdle ==
  /\ ~Override /\ state = "Idle"
  /\ NextTick
  /\ UNCHANGED <<state, cell, waits, plan, mission, inputs>>

\* tick()
ControlTick ==
  \/ TickPlan \/ GoalReached \/ Advance \/ TickYielding \/ TickParked
  \/ TickReverse \/ TickPullover \/ TickBlocked \/ TickIdle

\* The caller, between two ticks: an idle agent is given a task it won,
Assign(t) ==
  /\ state = "Idle" /\ t \notin assigned
  /\ assigned' = assigned \cup {t}
  /\ goal_cell' = TaskGoal[t] /\ task_id' = t
  /\ state' = "Planning"
  /\ UNCHANGED <<cell, tick, waits, plan, ended, low>>

\* the battery is read,
ReadBattery ==
  /\ low' = ~low
  /\ UNCHANGED <<state, cell, tick, waits, plan, mission, assigned>>

\* an obstacle or a conflict is reported to a busy agent.
Interrupt(s) ==
  /\ state \notin {"Idle", s}
  /\ state' = s
  /\ UNCHANGED <<cell, tick, waits, plan, mission, inputs>>

Next ==
  \/ ControlTick \/ ReadBattery
  \/ \E t \in Task : Assign(t)
  \/ \E s \in Interrupts : Interrupt(s)

Spec == Init /\ [][Next]_vars

\* The interval timer keeps calling tick.
FairSpec == Spec /\ WF_vars(ControlTick)

-----------------------------------------------------------------------------
(* Properties *)

\* Every variable keeps its type; no counter leaves its u8.
TypeOK ==
  /\ state \in AgentState /\ cell \in Cell
  /\ goal_cell \in Cell \cup {None} /\ task_id \in Task \cup {None}
  /\ trajectory # None => trajectory \in Seq(Cell)
  /\ wp_index \in Nat \ {0} /\ tick \in 0 .. MaxHorizon + 1
  /\ yield_count \in 0 .. MaxYields
  /\ yield_wait \in 0 .. HaltWait - 1
  /\ plan_attempts \in 0 .. MaxPlanAttempts
  /\ low \in BOOLEAN /\ assigned \subseteq Task
  /\ ended \subseteq [task : Task, how : {"complete", "aborted"}]

\* An executing agent is where its trajectory says, and the trajectory leads
\* to the present goal, after any sequence of yields, reports, replans and
\* battery aborts: the next waypoint is never a jump.
OnTrajectory ==
  state = "Executing" =>
    /\ trajectory # None /\ wp_index =< Len(trajectory) + 1
    /\ cell = trajectory[IF wp_index = 1 THEN 1 ELSE wp_index - 1]
    /\ trajectory[Len(trajectory)] = goal_cell

\* A busy agent always knows where to go, an idle one has nothing left to do:
\* a planning tick without a goal would wait for ever.
BusyHasGoal ==
  /\ state = "Idle" <=> goal_cell = None
  /\ state = "Idle" => task_id = None /\ trajectory = None

\* Every task handed over is either the present one or reported, once, as
\* complete or as aborted: the fleet never waits for a task nobody has, and
\* no task is both done and given back.
TaskAccounted ==
  /\ \A t \in assigned : (t = task_id) # (\E e \in ended : e.task = t)
  /\ \A e, f \in ended : e.task = f.task => e = f
  /\ \A e \in ended : e.task \in assigned

\* A task is reported complete only by an agent that stands on its goal, not
\* on the charger it was diverted to.
CompletedAtGoal ==
  [][\A t \in Task : [task |-> t, how |-> "complete"] \in ended' \ ended =>
       cell = TaskGoal[t]]_vars

\* The agent moves to an adjacent cell at a time, and not while it yields,
\* is parked, blocked, planning or out of battery.
MovesAlongEdges ==
  [][cell' # cell => state = "Executing" /\ ~low /\ cell' \in Neighbors[cell]]_vars

\* No hold is for good: yielding, parked, blocked, pulled over or reversing
\* agents go on, also when yield_wait was left over from an earlier hold.
HoldsEnd ==
  \A s \in ExternalStates \cup {"Yielding", "YieldingParked"} : state = s ~> state # s

\* An agent that runs low while there is time to plan gets to its charger
\* ("Battery < 15%; heading to nearest charger").
ReachesCharger ==
  (low /\ tick + 2 * MaxWaypoints < MaxHorizon) ~> (cell = ChargerCell \/ ~low)

=============================================================================
