-------------------------- MODULE ControlLoopProofs --------------------------
(***************************************************************************)
(* The control loop, for any grid, tasks, thresholds and planner: types,   *)
(* the agent on its trajectory, the accounting of its tasks, and what a    *)
(* step may do to its cell and to its reports.                             *)
(***************************************************************************)
EXTENDS ControlLoop, SequenceTheorems, TLAPS

\* A recorded trajectory is a walk on the grid, whatever has happened since it
\* was planned.
Connected ==
  trajectory # None =>
    /\ Len(trajectory) >= 1
    /\ \A i \in 1 .. Len(trajectory) - 1 :
         trajectory[i + 1] \in Neighbors[trajectory[i]] \cup {trajectory[i]}

\* The present task was handed over, and its goal is the present goal: the
\* battery check changes both.
GoalOfTask ==
  task_id # None => task_id \in assigned /\ goal_cell = TaskGoal[task_id]

LoopInv ==
  TypeOK /\ Connected /\ OnTrajectory /\ BusyHasGoal /\ GoalOfTask /\ TaskAccounted

-----------------------------------------------------------------------------
LEMMA NoneApart == None \notin Cell /\ None \notin Task /\ None \notin Seq(Cell)
BY GridAssumption

\* What d_sipp returns is a walk between the cells it was asked for.
LEMMA WalkFacts ==
  ASSUME NEW from \in Cell, NEW to \in Cell, NEW walk \in Walks(from, to)
  PROVE  /\ walk \in Seq(Cell) /\ Len(walk) \in Nat /\ Len(walk) >= 1
         /\ walk[1] = from /\ walk[Len(walk)] = to
         /\ \A i \in 1 .. Len(walk) - 1 : walk[i + 1] \in Neighbors[walk[i]] \cup {walk[i]}
<1>1. PICK n \in 1 .. MaxWaypoints : walk \in [1 .. n -> Cell]
  BY DEF Walks
<1>2. n \in Nat /\ n >= 1
  BY <1>1, WaitsAssumption
<1>3. walk \in Seq(Cell) /\ Len(walk) = n
  BY <1>1, <1>2
<1> QED BY <1>2, <1>3 DEF Walks

LEMMA NeedsBounded ==
  /\ \A need \in WaitNeeded \cup {ParkedWait, ReverseWait} : need \in Nat /\ need =< HaltWait
  /\ HaltWait \in Nat /\ HaltWait >= 1
BY WaitsAssumption DEF WaitNeeded

LEMMA OneMoreYieldType ==
  ASSUME yield_count \in 0 .. MaxYields PROVE OneMoreYield \in 0 .. MaxYields
BY WaitsAssumption DEF OneMoreYield, MinOf

LEMMA NextTickType ==
  ASSUME tick \in 0 .. MaxHorizon + 1, NextTick PROVE tick' \in 0 .. MaxHorizon + 1
BY WaitsAssumption DEF NextTick, MinOf

-----------------------------------------------------------------------------
LEMMA InitLoop == Init => LoopInv
<1> SUFFICES ASSUME Init PROVE LoopInv
  OBVIOUS
<1>1. HaltWait - 1 \in Nat /\ MaxHorizon + 1 \in Nat /\ MaxYields \in Nat /\ MaxPlanAttempts \in Nat
  BY WaitsAssumption
<1>2. TypeOK
  <2>1. /\ state \in AgentState /\ cell \in Cell /\ goal_cell = None /\ task_id = None
        /\ trajectory = None /\ wp_index \in Nat \ {0} /\ low \in BOOLEAN
        /\ assigned = {} /\ ended = {}
    <3>1. low = FALSE
      BY DEF Init
    <3>2. low \in BOOLEAN
      BY <3>1
    <3> QED BY <3>2, GridAssumption DEF Init, AgentState
  <2>2. /\ tick \in 0 .. MaxHorizon + 1 /\ yield_count \in 0 .. MaxYields
        /\ yield_wait \in 0 .. HaltWait - 1 /\ plan_attempts \in 0 .. MaxPlanAttempts
    BY <1>1 DEF Init
  <2> QED BY <2>1, <2>2 DEF TypeOK
<1> QED BY <1>2 DEF Init, LoopInv, Connected, OnTrajectory, BusyHasGoal, GoalOfTask, TaskAccounted

\* What the battery check leaves of the mission is accounted for.
LEMMA AbortAccounts ==
  ASSUME LoopInv, AbortTask, UNCHANGED inputs
  PROVE  /\ goal_cell' = IF Override THEN ChargerCell ELSE goal_cell
         /\ goal_cell' \in Cell \cup {None} /\ task_id' \in Task \cup {None}
         /\ ended' \subseteq [task : Task, how : {"complete", "aborted"}]
         /\ GoalOfTask' /\ TaskAccounted'
<1> USE DEF LoopInv
<1>1. CASE ~Override
  BY <1>1 DEF AbortTask, inputs, TypeOK, GoalOfTask, TaskAccounted
<1>2. CASE Override /\ task_id = None
  BY <1>2, GridAssumption, NoneApart
     DEF AbortTask, Report, inputs, TypeOK, GoalOfTask, TaskAccounted
<1>3. CASE Override /\ task_id # None
  <2>1. /\ goal_cell' = ChargerCell /\ task_id' = None /\ assigned' = assigned
        /\ ended' = ended \cup {[task |-> task_id, how |-> "aborted"]}
    BY <1>3 DEF AbortTask, Report, inputs
  <2>2. task_id \in Task /\ task_id \in assigned
    BY <1>3 DEF TypeOK, GoalOfTask
  <2>3. \A e \in ended : e.task # task_id
    BY <2>2 DEF TaskAccounted
  <2>4. TaskAccounted'
    <3>1. \A t \in assigned' : t # task_id'
      BY <2>1, NoneApart DEF TypeOK
    <3>2. \A t \in assigned' : \E e \in ended' : e.task = t
      <4> TAKE t \in assigned'
      <4>1. CASE t = task_id
        <5>1. [task |-> task_id, how |-> "aborted"] \in ended'
          BY <2>1
        <5> WITNESS [task |-> task_id, how |-> "aborted"] \in ended'
        <5> QED BY <4>1
      <4>2. CASE t # task_id
        BY <2>1, <4>2 DEF TaskAccounted
      <4> QED BY <4>1, <4>2
    <3>3. \A e, f \in ended' : e.task = f.task => e = f
      BY <2>1, <2>3 DEF TaskAccounted
    <3>4. \A e \in ended' : e.task \in assigned'
      BY <2>1, <2>2 DEF TaskAccounted
    <3>5. \A t \in assigned' : (t = task_id') # (\E e \in ended' : e.task = t)
      BY <3>1, <3>2
    <3> QED BY <3>3, <3>4, <3>5 DEF TaskAccounted
  <2> QED BY <1>3, <2>1, <2>2, <2>4, GridAssumption DEF GoalOfTask, TypeOK
<1> QED BY <1>1, <1>2, <1>3

\* A planning tick: the walk that is adopted starts in the agent's cell and
\* ends in the goal of the same tick.
LEMMA PlanStep == ASSUME LoopInv, TickPlan PROVE LoopInv'
<1> USE DEF LoopInv
<1> DEFINE target == IF Override THEN ChargerCell ELSE goal_cell
<1>1. target # None /\ target \in Cell
  BY GridAssumption DEF TickPlan, TypeOK
<1>2. /\ goal_cell' = target
      /\ goal_cell' \in Cell \cup {None} /\ task_id' \in Task \cup {None}
      /\ ended' \subseteq [task : Task, how : {"complete", "aborted"}]
      /\ GoalOfTask' /\ TaskAccounted'
  BY AbortAccounts DEF TickPlan
<1>3. cell' = cell /\ yield_wait' = yield_wait /\ low' = low /\ assigned' = assigned
  BY DEF TickPlan, inputs
<1>4. tick' \in 0 .. MaxHorizon + 1
  BY NextTickType DEF TickPlan, TypeOK
<1>5. ASSUME NEW walk \in Fitting(cell, target), Adopt(walk) PROVE LoopInv'
  <2>1. /\ walk \in Seq(Cell) /\ Len(walk) \in Nat /\ Len(walk) >= 1
        /\ walk[1] = cell /\ walk[Len(walk)] = target
        /\ \A i \in 1 .. Len(walk) - 1 : walk[i + 1] \in Neighbors[walk[i]] \cup {walk[i]}
    BY <1>1, WalkFacts DEF Fitting, TypeOK
  <2>2. /\ trajectory' = walk /\ wp_index' = 1 /\ plan_attempts' = 0
        /\ state' = "Executing" /\ yield_count' = yield_count
    BY <1>5 DEF Adopt
  <2>3. TypeOK'
    <3>1. 0 \in 0 .. MaxPlanAttempts /\ state' \in AgentState
      BY <2>2, WaitsAssumption DEF AgentState
    <3> QED BY <1>2, <1>3, <1>4, <2>1, <2>2, <3>1 DEF TypeOK
  <2>4. Connected'
    BY <2>1, <2>2 DEF Connected
  <2>5. OnTrajectory'
    <3>1. walk # None
      BY <2>1, NoneApart
    <3>2. trajectory' # None /\ wp_index' =< Len(trajectory') + 1
      BY <2>1, <2>2, <3>1
    <3>3. cell' = trajectory'[1] /\ trajectory'[Len(trajectory')] = goal_cell'
      BY <1>2, <1>3, <2>1, <2>2
    <3> QED BY <2>2, <3>2, <3>3 DEF OnTrajectory
  <2>6. BusyHasGoal'
    BY <1>1, <1>2, <2>2 DEF BusyHasGoal
  <2> QED BY <1>2, <2>3, <2>4, <2>5, <2>6
<1>6. CASE PlanFailed
  <2>1. /\ trajectory' = None \/ trajectory' = trajectory
        /\ wp_index' \in Nat \ {0}
    BY <1>6 DEF PlanFailed, TypeOK
  <2>2. yield_count' \in 0 .. MaxYields /\ plan_attempts' \in 0 .. MaxPlanAttempts
    <3> DEFINE attempts == (IF Override THEN 0 ELSE plan_attempts) + 1
    <3>1. /\ plan_attempts \in 0 .. MaxPlanAttempts /\ MaxPlanAttempts \in Nat
          /\ yield_count \in 0 .. MaxYields /\ OneMoreYield \in 0 .. MaxYields
      BY OneMoreYieldType, WaitsAssumption DEF TypeOK
    <3>2. \/ plan_attempts' = 0 /\ yield_count' = OneMoreYield
          \/ /\ attempts =< MaxPlanAttempts
             /\ plan_attempts' = attempts /\ yield_count' = yield_count
      BY <1>6 DEF PlanFailed
    <3> HIDE DEF LoopInv
    <3>3. attempts \in Nat
      BY <3>1
    <3> HIDE DEF attempts
    <3>4. yield_count' \in 0 .. MaxYields
      BY <3>1, <3>2
    <3>5. plan_attempts' \in 0 .. MaxPlanAttempts
      BY <3>1, <3>2, <3>3
    <3> QED BY <3>4, <3>5
  <2>3. state' \in PlanningStates \cup {"Yielding"}
    BY <1>6 DEF PlanFailed, TickPlan, PlanningStates
  <2>4. TypeOK'
    BY <1>2, <1>3, <1>4, <2>1, <2>2, <2>3 DEF TypeOK, AgentState
  <2>5. Connected' /\ OnTrajectory'
    BY <2>1, <2>3 DEF Connected, OnTrajectory, PlanningStates
  <2>6. BusyHasGoal'
    BY <1>1, <1>2, <2>3 DEF BusyHasGoal, PlanningStates
  <2> QED BY <1>2, <2>4, <2>5, <2>6
<1>7. (\E walk \in Fitting(cell, target) : Adopt(walk)) \/ PlanFailed
  BY <1>1 DEF TickPlan
<1> QED BY <1>5, <1>6, <1>7

LEMMA GoalStep == ASSUME LoopInv, GoalReached PROVE LoopInv'
<1> USE DEF LoopInv
<1>1. /\ yield_count' = 0 /\ trajectory' = None /\ goal_cell' = None /\ task_id' = None
      /\ ended' = ended \cup Report(task_id, "complete") /\ state' = "Idle"
      /\ cell' = cell /\ wp_index' = wp_index /\ plan_attempts' = plan_attempts
      /\ yield_wait' = yield_wait /\ low' = low /\ assigned' = assigned
  BY DEF GoalReached, MissionOver, inputs
<1>2. tick' \in 0 .. MaxHorizon + 1
  BY NextTickType DEF GoalReached, TypeOK
<1>3. task_id # None => task_id \in Task /\ task_id \in assigned
  BY DEF TypeOK, GoalOfTask
<1>4. TypeOK'
  <2>1. Report(task_id, "complete") \subseteq [task : Task, how : {"complete", "aborted"}]
    BY <1>3 DEF Report
  <2>2. state' \in AgentState /\ yield_count' \in 0 .. MaxYields
    BY <1>1, WaitsAssumption DEF AgentState
  <2> QED BY <1>1, <1>2, <2>1, <2>2 DEF TypeOK
<1>5. TaskAccounted'
  <2>1. task_id # None => \A e \in ended : e.task # task_id
    BY <1>3 DEF TaskAccounted
  <2>2. \A t \in assigned' : t # task_id'
    BY <1>1, NoneApart DEF TypeOK
  <2>3. \A t \in assigned' : \E e \in ended' : e.task = t
    <3> TAKE t \in assigned'
    <3>1. t # None
      BY <1>1, NoneApart DEF TypeOK
    <3>2. CASE t = task_id
      <4>1. [task |-> task_id, how |-> "complete"] \in ended'
        BY <1>1, <3>1, <3>2 DEF Report
      <4> WITNESS [task |-> task_id, how |-> "complete"] \in ended'
      <4> QED BY <3>2
    <3>3. CASE t # task_id
      BY <1>1, <3>3 DEF TaskAccounted
    <3> QED BY <3>2, <3>3
  <2>4. \A e, f \in ended' : e.task = f.task => e = f
    BY <1>1, <2>1 DEF TaskAccounted, Report
  <2>5. \A e \in ended' : e.task \in assigned'
    BY <1>1, <1>3 DEF TaskAccounted, Report
  <2>6. \A t \in assigned' : (t = task_id') # (\E e \in ended' : e.task = t)
    BY <2>2, <2>3
  <2> QED BY <2>4, <2>5, <2>6 DEF TaskAccounted
<1> QED BY <1>1, <1>4, <1>5 DEF Connected, OnTrajectory, BusyHasGoal, GoalOfTask

LEMMA AdvanceStep == ASSUME LoopInv, Advance PROVE LoopInv'
<1> USE DEF LoopInv
<1>1. /\ state = "Executing" /\ trajectory # None /\ wp_index =< Len(trajectory)
      /\ cell' = trajectory[wp_index] /\ wp_index' = wp_index + 1
      /\ yield_count' = yield_count /\ state' = state
      /\ trajectory' = trajectory /\ plan_attempts' = plan_attempts
      /\ yield_wait' = yield_wait /\ goal_cell' = goal_cell /\ task_id' = task_id
      /\ ended' = ended /\ low' = low /\ assigned' = assigned
  BY DEF Advance, Conflicting, mission, inputs
<1>2. tick' \in 0 .. MaxHorizon + 1
  BY NextTickType DEF Advance, TypeOK
<1>3. trajectory \in Seq(Cell) /\ Len(trajectory) \in Nat /\ wp_index \in 1 .. Len(trajectory)
  BY <1>1, LenProperties DEF TypeOK
<1>4. cell' \in Cell
  BY <1>1, <1>3, ElementOfSeq
<1>5. TypeOK'
  BY <1>1, <1>2, <1>4 DEF TypeOK
<1>6. OnTrajectory'
  BY <1>1, <1>3 DEF OnTrajectory
<1> QED BY <1>1, <1>5, <1>6 DEF Connected, BusyHasGoal, GoalOfTask, TaskAccounted

\* The ticks of an agent that waits, and those that only change the state.
LEMMA HoldStep ==
  ASSUME LoopInv, TickYielding \/ TickParked \/ TickReverse \/ TickPullover \/ TickBlocked \/ TickIdle
  PROVE  LoopInv'
<1> USE DEF LoopInv
<1>1. tick' \in 0 .. MaxHorizon + 1
  BY NextTickType
     DEF TickYielding, TickParked, TickReverse, Waiting, TickPullover, TickBlocked, TickIdle, TypeOK
<1>2. /\ cell' = cell /\ goal_cell' = goal_cell /\ task_id' = task_id /\ ended' = ended
      /\ low' = low /\ assigned' = assigned
      /\ yield_count' = yield_count /\ plan_attempts' = plan_attempts
  BY DEF TickYielding, TickParked, TickReverse, Waiting, TickPullover, TickBlocked, TickIdle,
         waits, plan, mission, inputs
<1>3. \/ trajectory' = trajectory /\ wp_index' = wp_index
      \/ trajectory' = None /\ wp_index' = 1
  <2>1. ASSUME NEW from, NEW needs, NEW next, Waiting(from, needs, next)
        PROVE  trajectory' = trajectory /\ wp_index' = wp_index
    BY <2>1 DEF Waiting, plan
  <2>2. CASE TickYielding \/ TickParked \/ TickReverse
    BY <2>1, <2>2 DEF TickYielding, TickParked, TickReverse
  <2>3. CASE TickPullover \/ TickIdle
    BY <2>3 DEF TickPullover, TickIdle, plan
  <2>4. CASE TickBlocked
    BY <2>4 DEF TickBlocked
  <2> QED BY <2>2, <2>3, <2>4
<1>4. /\ state' \in AgentState /\ state' # "Executing"
      /\ state' = "Idle" <=> state = "Idle"
      /\ state = "Idle" => trajectory' = trajectory
  BY DEF TickYielding, TickParked, TickReverse, Waiting, WaitThen, TickPullover, TickBlocked,
         TickIdle, AgentState, PlanningStates, ExternalStates, plan
<1>5. yield_wait' \in 0 .. HaltWait - 1
  <2>1. ASSUME NEW from, NEW needs, NEW next, Waiting(from, needs, next),
               \A need \in needs : need \in Nat /\ need =< HaltWait
        PROVE  yield_wait' \in 0 .. HaltWait - 1
    BY <2>1, NeedsBounded DEF Waiting, WaitThen, TypeOK
  <2>2. CASE TickYielding
    BY <2>1, <2>2, NeedsBounded DEF TickYielding
  <2>3. CASE TickParked
    BY <2>1, <2>3, NeedsBounded DEF TickParked
  <2>4. CASE TickReverse
    BY <2>1, <2>4, NeedsBounded DEF TickReverse
  <2>5. CASE TickPullover \/ TickBlocked \/ TickIdle
    BY <2>5 DEF TickPullover, TickBlocked, TickIdle, waits, TypeOK
  <2> QED BY <2>2, <2>3, <2>4, <2>5
<1>6. TypeOK'
  BY <1>1, <1>2, <1>3, <1>4, <1>5 DEF TypeOK
<1>7. Connected' /\ OnTrajectory' /\ BusyHasGoal'
  BY <1>2, <1>3, <1>4 DEF Connected, OnTrajectory, BusyHasGoal
<1> QED BY <1>2, <1>6, <1>7 DEF GoalOfTask, TaskAccounted

\* A task is handed to an idle agent, which has none: nothing is overwritten.
LEMMA AssignStep == ASSUME LoopInv, NEW t \in Task, Assign(t) PROVE LoopInv'
<1> USE DEF LoopInv
<1>1. /\ state = "Idle" /\ t \notin assigned /\ assigned' = assigned \cup {t}
      /\ goal_cell' = TaskGoal[t] /\ task_id' = t /\ state' = "Planning"
      /\ cell' = cell /\ tick' = tick /\ yield_count' = yield_count /\ yield_wait' = yield_wait
      /\ trajectory' = trajectory /\ wp_index' = wp_index /\ plan_attempts' = plan_attempts
      /\ ended' = ended /\ low' = low
  BY DEF Assign, waits, plan
<1>2. TaskGoal[t] \in Cell /\ t # None
  BY GridAssumption
<1>3. task_id = None
  BY <1>1 DEF BusyHasGoal
<1>4. TypeOK'
  BY <1>1, <1>2 DEF TypeOK, AgentState, PlanningStates
<1>5. TaskAccounted'
  <2>1. \A e \in ended : e.task # t
    BY <1>1 DEF TaskAccounted
  <2>2. \A u \in assigned : u # t /\ u # None
    BY <1>1, NoneApart DEF TypeOK
  <2>3. \A u \in assigned : \E e \in ended : e.task = u
    BY <1>3, <2>2 DEF TaskAccounted
  <2>4. \A u \in assigned' : (u = task_id') # (\E e \in ended' : e.task = u)
    <3> TAKE u \in assigned'
    <3>1. CASE u = t
      BY <1>1, <2>1, <3>1
    <3>2. CASE u \in assigned
      BY <1>1, <2>2, <2>3, <3>2
    <3> QED BY <1>1, <3>1, <3>2
  <2> QED BY <1>1, <2>4 DEF TaskAccounted
<1> QED BY <1>1, <1>2, <1>4, <1>5, NoneApart
     DEF Connected, OnTrajectory, BusyHasGoal, GoalOfTask

LEMMA ReportStep ==
  ASSUME LoopInv, ReadBattery \/ (\E s \in Interrupts : Interrupt(s))
  PROVE  LoopInv'
<1> USE DEF LoopInv
<1>1. CASE ReadBattery
  BY <1>1 DEF ReadBattery, waits, plan, mission, TypeOK, Connected, OnTrajectory, BusyHasGoal,
              GoalOfTask, TaskAccounted
<1>2. ASSUME NEW s \in Interrupts, Interrupt(s) PROVE LoopInv'
  <2>1. s \in ExternalStates
    BY InterruptsAssumption
  <2> QED BY <1>2, <2>1 DEF Interrupt, ExternalStates, AgentState, waits, plan, mission, inputs,
             TypeOK, Connected, OnTrajectory, BusyHasGoal, GoalOfTask, TaskAccounted
<1> QED BY <1>1, <1>2

\* The types, the trajectory and the accounting, together inductive.
THEOREM LoopInductive == Spec => []LoopInv
<1>1. Init => LoopInv
  BY InitLoop
<1>2. LoopInv /\ [Next]_vars => LoopInv'
  <2> SUFFICES ASSUME LoopInv, [Next]_vars PROVE LoopInv'
    OBVIOUS
  <2>1. CASE ControlTick
    BY <2>1, PlanStep, GoalStep, AdvanceStep, HoldStep DEF ControlTick
  <2>2. CASE ReadBattery \/ \E s \in Interrupts : Interrupt(s)
    BY <2>2, ReportStep
  <2>3. CASE \E t \in Task : Assign(t)
    BY <2>3, AssignStep
  <2>4. CASE UNCHANGED vars
    BY <2>4 DEF vars, waits, plan, mission, inputs, LoopInv, TypeOK, Connected, OnTrajectory,
                BusyHasGoal, GoalOfTask, TaskAccounted
  <2> QED BY <2>1, <2>2, <2>3, <2>4 DEF Next
<1> QED BY <1>1, <1>2, PTL DEF Spec

\* No counter leaves its type.
THEOREM LoopTypes == Spec => []TypeOK
BY LoopInductive, PTL DEF LoopInv

\* The agent is where its trajectory says, and the trajectory leads to its goal.
THEOREM StaysOnTrajectory == Spec => []OnTrajectory
BY LoopInductive, PTL DEF LoopInv

\* No task is lost, done twice, or both done and given back.
THEOREM TasksAccounted == Spec => []TaskAccounted
BY LoopInductive, PTL DEF LoopInv

\* A busy agent has a goal, an idle one nothing left to do.
THEOREM BusyAgentsHaveGoals == Spec => []BusyHasGoal
BY LoopInductive, PTL DEF LoopInv

-----------------------------------------------------------------------------
\* The agent leaves its cell only while executing with a charged battery, and
\* only to an adjacent cell: successive waypoints of a walk are adjacent.
THEOREM MovesOnEdges == Spec => MovesAlongEdges
<1> DEFINE Edge == cell' # cell => state = "Executing" /\ ~low /\ cell' \in Neighbors[cell]
<1>1. LoopInv /\ [Next]_vars => [Edge]_vars
  <2> SUFFICES ASSUME LoopInv, Next, cell' # cell
               PROVE  state = "Executing" /\ ~low /\ cell' \in Neighbors[cell]
    OBVIOUS
  <2>1. Advance
    BY DEF Next, ControlTick, TickPlan, GoalReached, TickYielding, TickParked, TickReverse,
           Waiting, TickPullover, TickBlocked, TickIdle, ReadBattery, Assign, Interrupt
  <2>2. /\ state = "Executing" /\ trajectory # None /\ wp_index =< Len(trajectory)
        /\ cell' = trajectory[wp_index]
    BY <2>1 DEF Advance, Conflicting
  <2>3. ~low
    BY <2>1, <2>2 DEF Advance, Override
  <2>4. trajectory \in Seq(Cell) /\ Len(trajectory) \in Nat /\ wp_index \in Nat /\ wp_index >= 1
    BY <2>2, LenProperties DEF LoopInv, TypeOK
  <2>5. cell = trajectory[IF wp_index = 1 THEN 1 ELSE wp_index - 1]
    BY <2>2 DEF LoopInv, OnTrajectory
  <2>6. wp_index # 1
    BY <2>2, <2>5
  <2>7. wp_index - 1 \in 1 .. Len(trajectory) - 1 /\ (wp_index - 1) + 1 = wp_index
    BY <2>2, <2>4, <2>6
  <2>8. trajectory[wp_index] \in Neighbors[trajectory[wp_index - 1]] \cup {trajectory[wp_index - 1]}
    BY <2>2, <2>7 DEF LoopInv, Connected
  <2> QED BY <2>2, <2>3, <2>5, <2>6, <2>8
<1> QED BY <1>1, LoopInductive, PTL DEF Spec, MovesAlongEdges

\* A task is reported complete only by an agent that stands on its goal: past
\* the last waypoint the agent is at the end of the trajectory, which is the
\* goal, and the goal is the task's.
THEOREM CompletionAtGoal == Spec => CompletedAtGoal
<1> DEFINE Fresh(t) == [task |-> t, how |-> "complete"] \in ended' \ ended
           AtGoal == \A t \in Task : Fresh(t) => cell = TaskGoal[t]
<1>1. LoopInv /\ [Next]_vars => [AtGoal]_vars
  <2> SUFFICES ASSUME LoopInv, Next, NEW t \in Task, Fresh(t) PROVE cell = TaskGoal[t]
    OBVIOUS
  <2>1. GoalReached
    <3>1. ~TickPlan
      BY DEF TickPlan, AbortTask, Report
    <3> QED BY <3>1 DEF Next, ControlTick, Advance, TickYielding, TickParked, TickReverse,
           Waiting, TickPullover, TickBlocked, TickIdle, ReadBattery, Assign, Interrupt, mission
  <2>2. task_id = t
    BY <2>1 DEF GoalReached, Report
  <2>3. goal_cell = TaskGoal[t]
    BY <2>2, NoneApart DEF LoopInv, GoalOfTask
  <2>4. state = "Executing" /\ trajectory # None /\ wp_index > Len(trajectory)
    BY <2>1 DEF GoalReached
  <2>5. trajectory \in Seq(Cell) /\ Len(trajectory) \in Nat /\ wp_index \in Nat
    BY <2>4, LenProperties DEF LoopInv, TypeOK
  <2>6. Len(trajectory) >= 1 /\ wp_index =< Len(trajectory) + 1
    BY <2>4 DEF LoopInv, Connected, OnTrajectory
  <2>7. wp_index # 1 /\ wp_index - 1 = Len(trajectory)
    BY <2>4, <2>5, <2>6
  <2> QED BY <2>3, <2>4, <2>7 DEF LoopInv, OnTrajectory
<1> QED BY <1>1, LoopInductive, PTL DEF Spec, CompletedAtGoal

=============================================================================
