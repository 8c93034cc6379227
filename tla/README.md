# Verification of the AMR coordination stack

TLA+ models, TLC runs and TLAPS proofs for the autonomous-mobile-robot
coordination code (`src/src/`): a fleet of warehouse robots that allocate tasks
by auction, plan space-time trajectories, lock the cells of a trajectory with a
two-phase commit and execute it in a 10 Hz control loop.

Paths below are relative to the repository (`src/` in `PROJECT.json`); modules
are in this directory.

## 1. Inventory

| component | state | operations | talks to |
|---|---|---|---|
| intent locks, `network/consensus.rs` | Lamport clock, at most one pending transaction, own locks, foreign locks, promises | `prepare`, `receive_ack`, `commit`, `abort`, `check_timeout`, `handle_prepare`, `handle_commit`, `handle_abort`, `release_*`, `gc` | the managers of peers within 15 cells, by datagram |
| task allocation, `network/implicit_cnp.rs` | manager: auctions, retry queue, next id; bidder: bid history, sequence number | `create_task`, `receive_bid`, `check_awards`, `check_retries`, `gc`; `compute_bid`, `gc`, `should_claim_task` | manager and bidders, by datagram sent three times |
| control loop, `fsm/control_loop.rs`, `fsm/mod.rs` | `AgentContext`: state, cell, goal, task, trajectory, counters, battery | `tick`; the caller assigns tasks and reports obstacles | planner and reservation table (calls), motors and network (returned `TickOutput`) |
| reservations, `planner/reservation.rs` | one 64-bit word per cell, window start | `insert_interval`, `is_free`, `query`, `remove_agent_reservations`, `gc` | shared by planner and control loop |
| D-SIPP, `planner/d_sipp.rs`, `heading.rs`, `graph.rs`, `segments.rs` | none (search) | `d_sipp`, `expand_successors`, `neighbors` | reads the reservation table |
| transport, `network/transport.rs`, `payloads.rs`, `io_uring.rs` | seen INTENTs, rate counters | `send`, `recv_all`, `gc_dedup`, rate limit | sockets |
| telemetry, `telemetry/mod.rs`; `tasks/cfp.rs` | last broadcast, latest snapshot per agent; burst window, blocked cells | `broadcast`, `update`, `prune_stale`; `execute_cfp_burst` | network |
| localization, `sensor/*` | pose, mode, ticks without lidar | `update_odometry`, `correct_from_lidar`, `reset` | drivers |
| motors and interlock, `hal/*`, `hardware/gpio.rs` | last command, enabled; pins | `send`, `shutdown`; one interrupt listener | hardware |
| priorities, braking, pull-over | none | pure functions | control loop (result unused) |
| `main.rs` | | constructs the components, logs ticks | calls none of them |

The components are libraries driven by a caller that is not in the repository:
`main.rs` does not connect them. Each model therefore has the component's own
methods as actions and states what it assumes of the driver and of the network
as external actions (`"external": true` in the map).

What is hard here: two agents preparing at once; lost, late, repeated and
overtaken datagrams (the transport only deduplicates INTENT); timeouts racing
answers; retries of closed auctions; 16-bit counters that wrap; counters and trajectories left over when a
high-priority check pre-empts the control loop; a reservation window that lags
behind time. `PROJECT.json` lists every such hazard with its line. Nothing is
persisted, so crash recovery is not among them.

What makes each component correct:

* locks: locks of different agents never clash; peers know every held lock;
  every transaction is decided; nothing blocks a cell for good;
* allocation: one winner per task, the best bidder; no task lost; retries end;
* control loop: the agent is where its trajectory says, moves along edges only
  while executing, reports each task once, leaves every hold;
* reservations: a reservation inside the window is seen until it is over, and by
  then gone;
* planning: a plan keeps clear of what others reserved, is as early as possible,
  and is found when there is one;
* transport: an INTENT is acted on once, and no agent floods the channel;
* wire: what is read is what was written, or nothing;
* fleet state: an agent that is alive and broadcasts is on the dashboard; a blocked
  cell is reported as long as promised;
* devices: the wheels follow within their limits and come to rest; a pose says
  truthfully how old it is; a trip of the interlock takes the motors' pin low.

## 2. Modules

### `SpaceTime` (space_time/mod.rs)

Half-open tick intervals and the clash of two cell requests. `Overlaps` is the
source's expression, with its consequence that an empty interval inside another
one overlaps it.

### `CellLocks` (abstract) and `IntentLock` (network/consensus.rs)

`CellLocks` is what the lock protocol promises: a fleet-wide register in which an
agent acquires all locks of a trajectory in one step, only when none clashes with
a live lock of another agent, and gives locks up freely. `IntentLock` is the code:

* `clock`, `pending`, `own_committed`, `foreign_locks`, `foreign_prepared` are the
  fields of `IntentLockManager`, one per agent. The three hash maps from
  transaction to locks are flattened to sets of `[txn, req]`; an entry of a map is
  never empty, because trajectories are not empty and `gc` drops emptied entries.
* `verdict[a]` is the return value of `receive_ack` or `check_timeout` that the
  driver of `a` has not acted on yet: `receive_ack` returns `Committed` and leaves
  the outcome `Pending` until `commit` is called, so a refusal or the timeout can
  still turn the verdict.
* `prepares`, `acks`, `commits`, `aborts` are datagrams in flight, one copy per
  addressee. A message that is never received is lost; messages overtake each
  other; with `Duplicating` a message can arrive again.
* each action is one method call with its message: `Prepare` includes the cut at
  `MAX_LOCK_CELLS` and the cut at 255 made by `to_bytes`; `HandlePrepare` includes
  the two clock updates, `has_conflict`, the promise and the reply; `Gc` works on
  both maps.

`PendingTransaction.acks_received` is kept as the number of accepted replies and
the set of their senders (`from`); only the number decides, as in the code, and
the set lets `AllPeersAcked` say what the number is meant to say.

### `TaskAllocation` (abstract) and `TaskAuction` (network/implicit_cnp.rs)

`TaskAllocation` is what the contract net promises: tasks are announced, agents make
offers, and each task is decided at most once, for one agent that made an offer or
for none. It leaves out who bid most (`BestBidWins`) and whether a decision is ever
taken (`TaskResolves`). `TaskAuction` is the code.

One `CnpManager` and a `CnpBidder` per agent. `auctions`, `deferred`,
`next_task_id`, `bid_history` and `seq_no` are the fields. `CheckAwards` and
`CheckRetries` are whole calls: every closed auction, every due task. CFPs and bids
that were sent stay available for delivery, which is what three unacknowledged and
not deduplicated copies amount to; `awards` is the set of TASK_AWARDs broadcast.
Time is relative (`age` for `current_tick - start_tick`, `wait` for the ticks to
`next_retry_tick`), so the model needs no bound on time. `gone` records tasks that
`check_retries` dropped, `heard` retried tasks for which a bid arrived in time;
no action reads either. The utility is any value of a small set: distance, battery
and queue depth are inputs of the call.

### `ControlLoop` (fsm/control_loop.rs, fsm/mod.rs)

`tick` is `ControlTick`, an action for each branch of its match. The battery check
at its head (`Override`) falls through into the planning branch, so `TickPlan` is
also the tick of any agent with a low battery that is not `Charging`. `Adopt` and
`PlanFailed` are the two outcomes of `d_sipp`. `Conflicting` is the answer of
`ReservationBitset::query`, which is always empty: the yielding branch of the
executing state is kept, and dead, as in the code. `wp_index` counts from 1.
Planning without a goal (a tick that only halts) is not an action: `BusyHasGoal`
shows that it does not arise. The dead fallback of an executing agent without
trajectory is excluded by `OnTrajectory`.
The motor fields of `TickOutput` follow from the action and are left out;
`task_complete` and `abort_task` are collected in `ended`.
The caller's part is `Assign` (to an idle agent), `ReadBattery`, and `Interrupt`,
which sets one of the three states the code handles but never enters by itself.

### `ReservationTable` (planner/reservation.rs)

A word of the bitset is the set of its bits, so `Mask` and `Shifted` are the
source's masks and shifts by what they do, with both cuts at the ends of the
window. `Insert` is a successful `insert_interval`; a collision changes nothing.
`EndTick` is the housekeeping at the end of `tick`, which moves the window only
every `GC_INTERVAL` ticks. `accepted` is a history of the insertions that returned
`Ok`, with the window they met (`from`, `until`); no action reads it. Reservations
may start before the present: the caller also inserts INTENTs of others, which
arrive late.

### `DSipp` (planner/d_sipp.rs, heading.rs, graph.rs; control_loop.rs:55)

The planner in its surroundings: an agent plans from any position towards any goal,
with any obstacle and earlier reservations; `Found`, `Expand`, `GiveUp` and
`Exhausted` are one iteration of the search loop each, `Reserve` is one iteration of
the loop that inserts the waypoints and ignores what `insert_interval` answers, and
`Adopt` and `PlanFailed` end that tick. Nothing else moves in between: `Hear` waits
until the tick is over. Then it drives its plan (`Drive`,
one waypoint per tick whatever its interval), stops (`Hold`: arrival, yielding or a
report), and plans again (`PlanAgain`: after a hold, or to the charger in the middle
of a plan), while the caller inserts waypoints of INTENTs (`Hear`) and each tick ends
with the housekeeping of `ReservationTable`. Its own reservations stay: the table
keeps no owners and `remove_agent_reservations` clears nothing.

`First` is the order of the heap; its remaining ties are left open, where
`BinaryHeap` has one fixed but unspecified choice. A node is its state and the path
to it (`parent`); its cost is always the start of its interval. `goal_heading` is
`None`, as in the control loop. `DirectionToHeading` keeps the fixed `GRID_WIDTH` of
the source, `Coordinate` the width of the graph. `DSipp` extends `ReservationTable`
and uses its `IsFree`, `Mask`, `Insert` and `EndTick`; `Reached` is the reference, all
states of a search without heap, closed set or heuristic. `planned` (the window's
start when the plan was made) and `events` are read by no step of the code;
`outcome` is the state of `ControlLoop` as far as the planner can tell.

`ControlLoop` does not contain this search: there a plan is any walk over at most
`MaxWaypoints` cells, more than `d_sipp` ever returns, so that its properties do
not depend on the planner.

### `Transport` (network/transport.rs)

INTENTs between any senders and one receiver. `rate_limiter` and `seen_intents` are
the fields; `flight` keeps every INTENT sent, so that it may arrive any number of
times, in any order, or never. `Key` is what `recv_all` remembers, with the 16-bit
`seq_no`. `GcDedup` drops any half of the keys, since the code takes the first half
in the order of a hash map. `ages`, `handed`, `swallowed` and `forgotten` are
histories no action reads.

### `Telemetry` and `CfpBurst` (telemetry/mod.rs, tasks/cfp.rs)

`Telemetry` is one agent's `TelemetryBroadcaster` and its entry in a dashboard's
`FleetTelemetry`, over a network that loses at most `Losses` snapshots in a row and
delays each by at most `Delay` ticks. A snapshot is its age; `since` stands for
`current_tick - last_broadcast_tick`, and `clock` for the tick modulo the interval.
`Update` overwrites whatever the entry holds, as the code does.

`CfpBurst` is one run of `execute_cfp_burst` (`stage` is where it waits) and the
`PiggybackTelemetry` beside it. A call of `broadcast_fn` takes up to `MaxCall`
and returns the quorum, none, or an error.

### `Packets` (payloads.rs, consensus.rs:550, telemetry/mod.rs:28, io_uring.rs:84)

A layout is read off the code twice: what the encoder writes (widths in order) and
where the decoder reads (offsets and widths). `ToBytes` and `FromBytes` interpret
it, so that an offset that does not fit a width is a failure of `WireExact`. A
packet then travels as a datagram that may be cut, or as shards of which two may be
missing; the Reed-Solomon library is taken to restore them.

### `Drive`, `Localizer`, `Interlock` (hal/*, sensor/mod.rs, hardware/gpio.rs)

`Drive` is the chain from the errors to the wheels: both PID controllers with the
saturating sum and the wrapping product of `Q16_16`, the inverse kinematics and
its proportional clamp, and `MotorDriver` (`powered` is its field `active`). One
`SendWheels` is one `send`. Where the code divides floats, the model truncates: no
property depends on the last bit. `Localizer` is the pose in the plane, with `mode`
and the 16-bit `dead_reckoning_ticks`; the displacement of a step is free.
`Interlock` is the listener task, one action between any two of its awaits; `Poll`
drops the edges that came before, which is what `reset = true` asks of the library.

### `Grid` and `Formulas`

The pure functions, on the arguments of one call: `Grid` has those on cells and
headings (graph.rs, pullover.rs, the lock radius, `cells_adjacent`, the two
conventions for angles), `Formulas` those on numbers (priority.rs, braking.rs,
`SafeInterval`, `LamportClock::order`, the utility of a bid). Their properties are
agreements between functions written at different places, and the orders they are
meant to induce.

### `SplitClaim` (network/implicit_cnp.rs:254)

`should_claim_task` for the agents of a fleet in two halves that do not hear each
other. The arguments are what its comment calls them.

### `MCParts`

The parts above share nothing with each other, and neither does a second instance of
`TaskAuction`, with one bidder and constants of its own (`Auction`).
`PartsSpec` puts them side by side:
the initial state chooses the part that moves, the others rest. The states add up
instead of multiplying, and each part behaves exactly as under its own
specification.

Definitions named `...Bug` are faulty variants of the definition next to them. No
action uses them; they document that the properties can fail.

## 3. Runs

| run | instance | shows |
|---|---|---|
| `intent_lock` | planners a1, a2 and bystander a3, all in each other's radius; two trajectories over two cells; lossy, reordering network | `LocksExclusive`, `CommittedKnown`, `AllPeersAcked`, `RefusedNotCommitted`, `TxnIdsFresh`, refinement of `CellLocks` |
| `intent_lock_live` | a1 and a2 each hear a3 only; duplicating network; fair drivers | `PromisesDisjoint`, `CommitFinal`; every transaction is decided and every promise lapses |
| `intent_lock_race` | two agents, nobody else | **violated** `LocksExclusive` |
| `auction` | two bidders that forget their bids, two utilities, two overlapping tasks | `BestBidWins`, `DeferredApart`, `NoTaskLost`, `TaskResolves`, refinement of `TaskAllocation` |
| `auction_retry` | as `auction` | **violated** `GivenUpUnwanted` |
| `control_loop` | corridor of three cells, two tasks, every interruption, failing planner | `OnTrajectory`, `BusyHasGoal`, `TaskAccounted`, `CompletedAtGoal`, `MovesAlongEdges`, `HoldsEnd` |
| `control_loop_battery` | no interruption, planner never fails, real horizon of 200 ticks | **violated** `ReachesCharger` |
| `d_sipp` | 3x2 grid, at most one obstacle, every goal, up to two reservations of others and replans together, rotations of 2 ticks | `ExactWhenClear`, `PresenceClear`, `PlanReserved` |
| `d_sipp_route` | 3x2 grid, nothing reserved, horizon long enough for every detour | **violated** `RouteFound` |
| `d_sipp_late` | a single call on the same grid | **violated** `Earliest` |
| `parts` | one instance each of the parts in `MCParts`, see below | `DedupExact`, `IntentsSpaced`; `ActiveListed`; `WindowsKept`; `WireExact`; `SpeedsRamped`; `FusedPose`; `TripStops`; `HelpersExact`; `TableExact`, `AcceptedApart`; `RecentBidsKnown`; all types (`PartsTypeOK`) |
| `claim_split` | four agents, two utilities, every partition | **violated** `OneClaim` |

### Bounds, and why they are enough

* `IntentLock`: `MaxTick` ends time, `MaxClock` ends new transactions (and, with
  `Duplicating`, the re-delivery of messages to an agent whose clock got there),
  `MaxInFlight` limits the messages in flight when a transaction starts. They
  allow two competing transactions, a second one of an agent after an abort or a
  release, stale messages of the first one meeting the second, a timeout before,
  between and after the replies, and the lapse of locks. `PREPARE_TIMEOUT_TICKS`
  is scaled to 1 and the lock limits to 3 and 2: the code only compares. The
  trajectories of the model fit the smaller limit, as the proofs assume. What the
  bounds leave out is covered by the proofs, which have none.
* `TaskAuction`: `HistoryCap` is 1, so that bidders forget and may bid on a task
  again, with another utility; in `parts`, where one bidder answers three tasks with
  a history of two, `RecentBidsKnown` is about bids that must not be forgotten.
  `MaxTasks`, `MaxOpen` and `MaxBids` bound the work, not time. The
  constants are scaled (window 1, retry 1, cap 3, two retries), so that the
  backoff reaches its cap and the retries end; task ids and sequence numbers stay
  below their wrap at 2^16.
* `ControlLoop`: trajectories of at most three waypoints on three cells;
  `yield_count` saturates at 3 with thresholds 1 and 2, so that all three kinds of
  yielding occur; the horizon of 8 ticks is passed, after which planning always
  fails and the counters climb. `tick` is capped one past the horizon, nothing
  depends on it beyond.

* `ReservationTable` (in `parts`: one cell, two agents): the horizon of 64 and the interval of 50 are scaled to 3 and
  2, which keeps the horizon longer than the interval and lets reservations lie
  before, across, inside and beyond the window, and the window move twice.
  `MaxTick`, `MaxLength` and `MaxAccepted` end the run. The proofs have no bounds.
* `DSipp`: rotations take 2 ticks instead of 5 and the horizons are 7 and 5 instead
  of 200 and 64, so that a plan can outrun either; gc comes every 3 ticks, so that the
  window has moved before planning ends for good. `MaxExpansions` is small enough
  to be reached in some calls, and large enough that most end by themselves.
  `GridWidth` equals the width of the grid, as on the 256-column warehouse the
  source assumes. `MaxEvents` = 2 counts what others reserve, before or after the
  first plan, and every further plan: two reservations and one plan, one reservation
  and two plans, or three plans of an agent alone. A later goal is the old one or
  the charger. The initial reservations met the window of tick 0.
  `d_sipp_route` and `d_sipp_late` look at a first call; `d_sipp_route` uses one tick
  a rotation, the least that lasts at all.

* `Transport`: two senders, three INTENTs each with two sequence numbers, so that
  `seq_no` wraps once and a wrapped INTENT meets a remembered or forgotten key;
  `gc_dedup` starts at two keys. At most three INTENTs are sent in all.
* `Telemetry`: interval 3, delay 2, one loss in a row: snapshots overtake each
  other and an entry gets `Staleness` = 10 ticks old; `MaxAge` is one more, the
  least for which `ActiveListed` is not vacuous.
* `CfpBurst`: a window of three intervals and calls of up to one and a half, so that
  calls end before, at and after the end of the window.
* `Packets`: bytes of 12 values, so that 8-byte numbers fit TLC's integers; lists of
  0 to 13 items, which goes past what a byte counts; every length to which a
  datagram can be cut; the field values include the largest of each field.
* `Drive`: products wrap at 128, small enough for ordinary errors to wrap; the wheels
  take three ramps to stop. `Localizer`: a 2x2 grid of cells of 10, poses up to half
  a cell outside, a counter that wraps at 6.
* `Grid`: every pair of cells, heading and blocked cell of a 4x3 grid. `Formulas`:
  intervals within seven ticks, every speed up to `V_MAX` in steps of 0.1 m/s, the
  extremes of the other arguments.
* `SplitClaim`: the smallest fleet the comment talks about.

Deadlock is checked where the model cannot stop (`TaskAuction`, `ControlLoop`);
`IntentLock` stops at `MaxTick`, `DSipp` at `MaxTick`, `SplitClaim` when all have
claimed that will, and in `parts` a listener that has tripped, a packet that has
arrived and a pure function that was called have nothing left to do.

### Fairness

Drivers are polled at 10 Hz, which is all that is assumed: time passes, and
`check_timeout`, `commit`, `abort` and `gc` (`IntentLock`), `check_awards` and
`check_retries` (`TaskAuction`), `tick` (`ControlLoop`) are called again and again
while they have something to do. The interlock's listener (`Listen`) is a task of the
runtime whose polls return within a second. No fairness is assumed of the network, of
bidders, of the planner or of the caller's reports.

## 4. Proofs

### `IntentLockProofs`

For every number of agents, cells, trajectories, transactions and ticks:

* `TypeCorrect`: `TypeOK`, without any premise.
* `NoDoublePromise`: what a manager has promised to, or knows is held by, one agent
  never clashes with what it records for another, without any premise. It is
  inductive together with `TypeOK`: only `handle_prepare` adds records, and
  `has_conflict` guards it; `handle_commit` moves a promise, `gc` and
  `handle_abort` only remove.
* `Inductive`: `IInv`, under `Premises`: the network does not duplicate and every
  trajectory fits a datagram (at most 255 locks).
* `Exclusion`: `LocksExclusive`, if in addition any two agents have a common peer.
* `HeldLocksKnown`, `CommittedMeansAll`: `CommittedKnown` and `AllPeersAcked`, from
  `IInv`.
* `RefusalsBind` (`RefusedNotCommitted`): from `OpenInv`. While a PREPARE is unanswered
  or a refusal is under way, the coordinator lacks that peer's reply, so the count
  cannot be complete.
* `RegisterImplemented` (`ImplementsCellLocks`), under the premises of `Exclusion`:
  every step maps to a step of `CellLocks` or a stutter. Only `commit` can map to an
  acquisition, and what it acquires is free because `LocksExclusive` holds after it.
* `CommitIsFinal` (`CommitFinal`) and `TxnIdsAreFresh` (`TxnIdsFresh`), without any
  premise: from `DecidedInv`, that every trace of a transaction carries an id already
  issued, and that pending, held and called off exclude each other.

The argument. None of the properties is inductive: that peers know a committed
lock depends on their having promised it before, that on the replies being counted
exactly, and that on each peer answering each transaction once. `IInv` says so
from the bottom up: transaction ids come from their agent's clock and are never
ahead of it (`IdsIssued`), so a new id is fresh; a PREPARE in flight has not been
answered by its addressee (`PreparesUnanswered`); a reply in flight has not been
counted (`AcksUncounted`); the count of accepted replies is the number of peers
that accepted (`CountExact`); a peer that accepted keeps the live locks of the
request (`AcceptedPromised`); a transaction is pending, held or called off, never
two of them, so a stray ABORT cannot erase a promise that backs a held lock
(`PhasesDisjoint`). With `CommittedKnown` this gives exclusion at a common peer:
both locks are in its records, and `PromisesDisjoint` keeps those apart. The
premises are needed: `intent_lock_race` has no common peer, and a duplicated reply
breaks `CountExact`.

### `TaskAuctionProofs`

For any number of bidders, tasks, bids and retries, any utilities that are bounded
(they are u16) and a network that may do anything with a message it was given:
`SingleWinner`, `WinnerIsBest`, `DeferralsApart` and `NoneForgotten`, from
`AuctionInductive`. The four properties support each other: a task in the retry
queue has no winner because its auction was handled when it was queued, and
`check_awards` takes no handled auction up again (`HandledOnce`). A task id is new
because all ids on record were issued before (`Shapes`); this is where
`IdsAssumption` is used, that ids do not wrap while the manager lives.
`RecentBidsRemembered` (`RecentBidsKnown`) needs a bidder that sends fewer bids than
sequence numbers: each bid on record has its own number, so a history past its cap
means that `seq_no` is past it too, and the cutoff does not wrap.
`AuctionTypes` (`TypeOK` of `TaskAuction`, which `parts` checks of its instance) is a
theorem of its own.
`AllocationImplemented` (`ImplementsAllocation`): announced tasks are the ids issued,
offers the bids sent, allocations the awards, dropped tasks those given up. What is
new here is `Heard`: CFPs and bids are about issued tasks, and what an auction records
was sent, so that no award goes to an agent that did not bid. `SingleWinner`
(`OneWinner`) is the safety core of it, without the offers.
`BestExists` shows that the award of `check_awards` is determined: bounded
utilities have a greatest one, and ids a least.

### `ControlLoopProofs`

For every grid, every set of thresholds and waits that fit `WaitsAssumption`, every
planner that returns walks, and any order of the caller's events: `LoopTypes`,
`StaysOnTrajectory`, `BusyAgentsHaveGoals`, `TasksAccounted` from `LoopInductive`,
and the action properties `MovesOnEdges` and `CompletionAtGoal`. `OnTrajectory` needs
that a stored trajectory is a walk along edges (`Connected`), and a report on
arrival that the goal is still the task's (`GoalOfTask`), which the battery check
keeps by giving up both at once.

### `ReservationTableProofs`

For every horizon, gc interval, grid and number of agents: `Exactness`
(`TableExact`) and `Apartness` (`AcceptedApart`). `TableExact` is inductive once
reservations are known to have met a window that has not moved back since
(`Windows`). `MaskMeaning` says what `interval_to_mask` stands for, `ShiftMeaning`
what a shift does to it. `Apartness` follows by looking at the step that accepts
the later of two reservations: the bits of the earlier one are in the word.

### `DSippProofs`

For every grid and set of blocked cells, every horizon, cost of a turn and bound on
expansions, whatever others reserve and however often the agent plans again:

* `PlannerInductive`: `PlannerInv`. A path on the heap is a route (`Route`): each
  state lies within the interval of the one before, and lasts one tick at most unless it is
  a wait at the start, which keeps the end of the start's long interval. Each of
  its ticks that the window reaches is free (`PathClear`), because `is_free` let its
  states in and nothing is inserted while the search runs. So when a plan is found,
  no reservation meets it (`AloneInv`), and `Hear` and later plans cannot bring one.
* `Presence` (`PresenceClear`) from `AloneInv`, for the ticks up to the next
  waypoint.
* `OwnReservations` (`PlanReserved`). The hard step is an insertion that fails: what
  it meets is the agent's own, and either lies over all ticks of the waypoint, or
  was an earlier wait at the start, which reserved up to the same end (`WholeInv`).
* `SearchTypes` (`SearchTypeOK`), also that the agent never enters a blocked cell.
* `SearchedInductive`: `SearchedInv`, about a table whose reservations are over
  (`Settled`). The closed set forgets where an interval ends, so a state whose
  interval is over can close the key of one that could still drive on. The
  invariant says why this costs nothing here: for each closed key there is one at
  the same cell and heading, no later, all of whose straight drives were followed
  (`Served`). A turn is possible at the start only (finding 4), and the start is
  popped before anything with its key.
* `NoWayOnly`: a search that exhausts its heap has missed no arrival, and `Exact`
  (`ExactWhenClear`): a plan is of earliest arrival. The reference is a recursion over
  ticks; `LayersExist` shows by a least counterexample that it is defined, and
  `ReachedInduction` that it stays in any set its steps stay in, so no induction
  principle has to be instantiated. `Exact` needs `Connectivity = 4`, the default of
  `graph.rs` (line 23): see section 5.

### `DeviceProofs`

For any number of senders and any width of `seq_no`: `DedupIsExact` (`DedupExact`),
inductive once every INTENT handed up is known to have its key remembered or
forgotten (`KeysHanded`); and `IntentsAreSpaced` (`IntentsSpaced`), for every rate
window, from where in the current window the last INTENTs lie (`AgesInWindows`).

`StaysListed` (`ActiveListed`), for every interval, delay and number of losses. The
entry is at most as old as the newest snapshot that arrived, and that is no older
than the broadcasts lost since then, plus the delay by which an older snapshot may
have overtaken it (`UpToDate`, `EntryFresh`).

`WindowsAreKept` (`WindowsKept`), for every window and every duration of calls: the
attempts made have taken their intervals (`BurstPaced`), and a quorum that is there
is found by the next call (`QuorumNoticed`).

`TransportTypes`, `TelemetryTypes` and `CfpTypes` are the types of the three.

`SpeedsAreRamped` (`SpeedsRamped`), for all gains, errors, limits and products that
wrap; the controllers only have to return integers (`PidInt`), the rest is the ramp.
`PoseIsFused` (`FusedPose`), for every grid, cell size and counter that can count
past `MaxDead`: as long as the pose is called fused the counter has not wrapped,
and so it is the age of the last correction; and three tenths of the way to a
cell's centre stays in the cell, also after rounding (`PulledStays`).
`InterlockTypes` is the safety half of `TripStops`: the listener has released its
pins exactly when it is done, and the motors' pin never returns to high.
`DriveTypes` and `LocalizerTypes` are the types of the other two.

### `WireProofs`

`WireIsExact` (`WireExact`), for every `Base` above nine, all lengths of lists and all
patterns of values: a byte must hold the ten states, the four headings and a flag,
or their fields would not fit; a byte of the code has 256 values.

* A number of `width` digits is what its digits add up to (`FromToLE`), digit by
  digit from `NextDigit`. `Power` and the sum in `FromLE` are recursive functions over
  at most nine arguments, so each is shown to exist by writing it out (`PowerIs`,
  `RowsExist`); no induction principle is needed.
* A flattened sequence holds its parts, each after the lengths of those before it
  (`FlattenIs`). `FlattenSeq` is a recursion over any length; a least index at which
  this fails (`LeastIndex`) leads to a contradiction.
* `LayoutsConsistent`: in each of the eleven layouts the offsets the decoder reads
  are the sums of the widths the encoder writes (`Aligned`), the fields end at or
  before the least length accepted, and the first item starts where they end. This
  is where a wrong offset in the code would show.
* `PacketOf` gives only packets whose values fit (`PacketWellFormed`). `BytesHold`
  says where in `ToBytes` each field and item lies, and `ReadBack` what is read
  from any data that agree with those bytes as far as both go. Datagrams, their
  beginnings (`CutIs`), and shards with their padding (`ShardsRestore`) are such data.
* `OthersRefuse`: two kinds with one tag are `SameTag`; any other decoder refuses.

`WireInv` adds to `WireExact` that the packet is one of `PacketOf`'s and that nothing
is received before it travels.

### `PartsProofs`

`PartsAreParts`: a behaviour of `PartsSpec` is a behaviour of each part's own
specification, for all constants, so what is proved above holds of the composition.
`PartsTypes` (`PartsTypeOK`) and `BidsRemembered` (`RecentBidsKnown`) are instances,
the latter of `RecentBidsRemembered` by way of an instance of `TaskAuctionProofs`.
`PacketsAreExact` (`WireExact`) carries `WireIsExact` over.

`GridsExact` and `FormulasAreExact`, together `HelpersAreExact` (`HelpersExact`): the
helpers for every grid, and for all naturals as arguments where a run has a few. A
cell is its coordinates and back (`CellCoordinates`, `CoordinatesCell`), so what
`neighbors` reaches is what lies a step away (`ReachedMeaning`), and the lock radius,
adjacency and pull-overs are about distances in coordinates. Quotients are
monotone (`QuotientGrows`), which orders utilities and keeps all terms of a priority
but the yields below the weight of one yield (`PriorityParts`). A braking profile
from `v` travels k * (v - k + 1) in k ticks (`ProfileTravels`); the bound of
`BrakesInTime` is for speeds up to `V_MAX`, which is fixed.

### Only model-checked

* `Earliest` and `RouteFound` are refuted. What the search returns on a table whose
  reservations are not over has no theorem, and no property: `Earliest` was one.
* Liveness: `PendingResolves`, `PromisesLapse`, `TaskResolves`, `HoldsEnd` and
  `TripStops`. Liveness under fairness, and `ENABLED`, are out of the prover's reach.
* The violated properties are refuted by TLC's counterexamples.

## 5. Where code and documentation disagree

Checked by a run (see `findings` in `PROJECT.json`):

1. Two agents alone can both commit clashing locks; the agent's own pending request
   is not consulted (`intent_lock_race`).
2. A retried task can never be awarded (`auction_retry`). Bidders would not answer
   a retried CFP twice either: `bid_history` keeps the task.
3. A low battery stops the agent instead of sending it to the charger
   (`control_loop_battery`).
4. After its first move a plan can neither turn nor wait, because the interval of a
   move ends a tick after the arrival: goals around a corner are not reached
   (`d_sipp_route`). `test_static_obstacle` (d_sipp.rs:213) asks for such a goal.
5. The closed set ignores where an interval ends, so a plan may be later than
   necessary (`d_sipp_late`): on a corridor 0, 1, 2 with cell 2 reserved for
   [0, 3) the code arrives at tick 4 instead of 3.
6. In an even split both halves may claim a task (`claim_split`): `should_claim_task`
   compares an agent with the least id of its own half only. With five agents, a
   group of two counts as a half as well.

Seen while modelling, not made a run:

* The heuristic of `d_sipp` is the Manhattan distance (graph.rs:75), which is
  admissible for four neighbours only, and a map may set `connectivity` to 8
  (graph.rs:32). The plan's "Admissible Heuristic" (AMR_Plan_Revised.md:32) is then
  missing: on an open 5x4 grid with cell 8 blocked, `Connectivity` 8 and turns of
  one tick, TLC finds a plan from 14 to 0 that is later than another
  (`ExactWhenClear`). `Exact` therefore assumes four neighbours.
* A promise does not bind the promiser: `prepare` and `commit` never look at
  `foreign_prepared`, although AckPromise is documented as "I promise not to lock
  these cells" (consensus.rs:149). `PromiseKept` in `IntentLock` states it and fails.
* The window of the bitset starts at the last `gc`, so it reaches 14 to 64 ticks into
  the future, not the "64 ticks (e.g., 6.4s)" of reservation.rs:18; `LooksAhead`
  in `ReservationTable` states it and fails.
* The first waypoint of a plan is reserved for [t, t + 200): the whole window. The
  agent's own next plan, and everybody else's, find that cell taken until it has
  left the window; when some tick of it is taken already, the insertion fails
  and the error is ignored. `PresenceClear` and `PlanReserved` therefore start at
  the second waypoint.
* `validate_trajectory` rejects every plan of two waypoints or more from the
  control loop, because of that first interval; `test_straight_line` asserts it.
* `direction_to_heading` divides by `GRID_WIDTH`: on narrower graphs vertical moves
  count as north.
* `tick` executes one waypoint per tick whatever its `t_arrive` says, so an agent
  is ahead of its reservations after a turn or a wait.
* `T_90` is 5 ticks where the comment says 2 (heading.rs:5).
* `receive_ack` counts replies, not responders (consensus.rs:310): with a
  duplicating network `AllPeersAcked` fails. The doc of the manager says "If all
  ACKs received".
* `MAX_LOCK_CELLS` is 256 and a PREPARE carries 255 locks (consensus.rs:76, 557);
  the last lock of a full request is committed without any promise.
* A PREPARE without locks is 15 bytes and is rejected by `from_bytes` (at least 16);
  padded by the shards it is accepted (`WireExact` excepts it).
* `gc`'s comment on promises says "older than 2x timeout"; it drops those whose
  interval is over (consensus.rs:483).
* PREPARE's type byte 0x10 is also TelemetrySnapshot's; the 2PC messages are not in
  `Packet`. A PREPARE of two locks or more decodes as a snapshot if its bytes happen
  to be a state and a heading (`SameTag` in `Packets`).
* An INTENT of 147 waypoints or more does not fit `recv_buf` and is dropped; the
  comment at payloads.rs:43 says "max 24", which nothing enforces, and 256 are
  counted as none.
* The limiter's field is documented as "ticks since last INTENT broadcast"
  (transport.rs:21) and counts broadcasts; two INTENTs may be a tick apart.
* `correct_from_lidar` does not look at the scan, and the comment "70% weight to
  lidar, 30% to odom" (sensor/mod.rs:204) is the wrong way round: `alpha` is 0.3.
* `Pose::from_cell` stores `Heading::to_rad` (N = 0, clockwise) and `to_heading` reads
  E = 0, counter-clockwise: a pose set to N reads E, S reads W and back
  (`GridExact` states the mirror image).
* A pose east of the grid reads as a cell of the next row (`Pose::to_cell`), and the
  correction then pulls it there; `CorrectionStays` excepts it.
* `dead_reckoning_ticks` is a u16 that is only added to: a release build wraps, a debug
  build panics, after 65535 steps without lidar. `DeadReckoning` is kept by the wrap.
* `shutdown` sends one ramped stop and then disables the driver, after which a plain
  stop is dropped: the wheels may keep their last speed. An emergency stop still works.
* A falling edge between two polls of the interlock is dropped by the next poll, and
  dropping the listener releases its pins; "Disabling motor drivers immediately"
  (gpio.rs:59) holds for edges during a poll.
* The piggyback is documented as "Broadcast for exactly 5 seconds" (cfp.rs:74); a later
  report of any cell renews all of them. "Broadcasts every 100ms for exactly 1.0s"
  (cfp.rs:18) is 100 ms after each call returns, so the last call may end later.
* `control_loop::tick` enters EXECUTING without asking the lock manager
  (consensus.rs:195, "agent NEVER enters EXECUTING without committed locks").
* `PendingRespected` in `IntentLock` states the doc of `handle_prepare` directly
  and fails in the same way as finding 1.
* `CnpBidder::gc` after a wrap of `seq_no` drops the newest bids.
* `yield_wait` is documented as reset when a yield ends (fsm/mod.rs:106) and is not
  when a battery abort or the caller ends it; `HoldsEnd` shows that this only
  shortens the next hold.
* `d_sipp` compares absolute ticks with `MAX_HORIZON`: no plan after tick 200.

## 6. Not modelled, and why

* `main.rs`: constructs the components and calls none of them.
* Opening sockets, multicast groups and the completion queue of `io_uring.rs`; GPIO
  registers; the drivers in `sensor/lidar.rs` and `odometry.rs`: I/O.
* `segments.rs` and the loading of maps: a table derived from a file, used by nothing.
* `detect_blocked_cells`, the trigonometry of an odometry step, forward kinematics,
  `heading_angular_vel`, `max_safe_velocity`: real arithmetic, which integers would
  only imitate. Where a result of it matters it is a free choice.
* The logs and histories kept for tests, and the dashboard's summaries.

## 7. Plan

1. Two agents that plan in turn on one table: `DSipp` has one planner, and what others
   reserve is free. Who shares a table is up to the caller;
   with a table per agent, filled from INTENTs, this needs the transport as well.
2. Theorems: step lemmas for the liveness properties (what a fair action changes,
   what others keep).
3. A lock manager per agent that follows its plan: `IntentLock` on the trajectories
   of `DSipp`. The repository has no driver that connects them, so it would be a
   model of an assumption.
