------------------------------ MODULE Telemetry ------------------------------
(***************************************************************************)
(* One agent's TelemetryBroadcaster and its entry in a dashboard's         *)
(* FleetTelemetry (src/telemetry/mod.rs), over UDP that loses, delays and  *)
(* reorders snapshots.  Entries of different agents never meet.            *)
(*                                                                         *)
(* The agent asks should_broadcast once a tick.  Time is relative: a       *)
(* snapshot is its age in ticks, and where nothing depends on an age any   *)
(* more it is capped.                                                      *)
(***************************************************************************)
EXTENDS Integers, FiniteSets

CONSTANTS
  Interval,   \* interval_ticks (10)
  MaxAge,     \* max_age_ticks of prune_stale
  Delay,      \* most ticks a snapshot spends in the network
  Losses,     \* most snapshots lost in a row
  InFlight    \* bound: snapshots in the network at a time

ASSUME TelemetryAssumption ==
  /\ Interval \in Nat \ {0} /\ Delay \in Nat \ {0}
  /\ {MaxAge, Losses, InFlight} \subseteq Nat

NotListed == -1

\* A snapshot that arrives was sent at most Delay ticks ago; one that arrives
\* at all is sent every (Losses + 1) * Interval ticks; and one sent Delay ticks
\* earlier can overtake it.  No entry that is refreshed gets older than this.
Staleness == (Losses + 1) * Interval + 2 * Delay

VARIABLES
  active,      \* broadcaster is active
  clock,       \* current tick, modulo Interval
  since,       \* ticks since last_broadcast_tick, capped at Interval
  asked,       \* should_broadcast was asked in this tick
  lost,        \* snapshots lost since the last that was not
  network,     \* ages of the snapshots under way
  latest,      \* age of the entry of the agent, or NotListed
  activeFor    \* ticks since start(), capped

telemetryVars == <<active, clock, since, asked, lost, network, latest, activeFor>>

AtMost(n, cap) == IF n < cap THEN n ELSE cap

-----------------------------------------------------------------------------
TelemetryInit ==
  /\ active = FALSE /\ clock = 0 /\ since = 0 /\ asked = FALSE
  /\ lost = 0 /\ network = {} /\ latest = NotListed /\ activeFor = 0

StartBroadcasts ==
  /\ ~active /\ active' = TRUE /\ activeFor' = 0
  /\ UNCHANGED <<clock, since, asked, lost, network, latest>>

StopBroadcasts ==
  /\ active /\ active' = FALSE
  /\ UNCHANGED <<clock, since, asked, lost, network, latest, activeFor>>

ShouldBroadcastBug == active /\ since > Interval
ShouldBroadcast == active /\ (clock = 0 \/ since >= Interval)

\* The snapshot of this tick, sent: under way, or lost.
Send ==
  /\ since' = 0
  /\ \/ /\ lost < Losses /\ lost' = lost + 1 /\ network' = network
     \/ lost' = 0 /\ network' = network \cup {0}

\* should_broadcast(), asked once a tick, and broadcast() if it is due.
Ask ==
  /\ ~asked /\ asked' = TRUE
  /\ IF ShouldBroadcast THEN Send ELSE UNCHANGED <<since, lost, network>>
  /\ UNCHANGED <<active, clock, latest, activeFor>>

\* broadcast_state_change(), on top of the interval.
StateChange ==
  /\ active /\ Send
  /\ UNCHANGED <<active, clock, asked, latest, activeFor>>

\* update(): whatever arrives replaces the entry, also by an older snapshot.
Update(age) ==
  /\ network' = network \ {age} /\ latest' = AtMost(age, MaxAge)
  /\ UNCHANGED <<active, clock, since, asked, lost, activeFor>>

StaleBug(age) == age + 1 >= MaxAge
Stale(age) == age >= MaxAge

\* prune_stale(), at any time.
Prune ==
  /\ latest # NotListed /\ Stale(latest) /\ latest' = NotListed
  /\ UNCHANGED <<active, clock, since, asked, lost, network, activeFor>>

\* The next tick: the agent has asked, and nothing under way is overdue.
TelemetryTick ==
  /\ asked \/ ~active
  /\ Cardinality(network) =< InFlight
  /\ \A age \in network : age < Delay
  /\ clock' = (clock + 1) % Interval /\ since' = AtMost(since + 1, Interval)
  /\ asked' = FALSE
  /\ network' = {age + 1 : age \in network}
  /\ latest' = IF latest = NotListed THEN latest ELSE AtMost(latest + 1, MaxAge)
  /\ activeFor' = IF active THEN AtMost(activeFor + 1, Staleness) ELSE activeFor
  /\ UNCHANGED <<active, lost>>

TelemetryNext ==
  \/ StartBroadcasts \/ StopBroadcasts \/ Ask \/ StateChange \/ Prune
  \/ TelemetryTick
  \/ \E age \in network : Update(age)

TelemetrySpec == TelemetryInit /\ [][TelemetryNext]_telemetryVars

-----------------------------------------------------------------------------
TelemetryTypeOK ==
  /\ active \in BOOLEAN /\ asked \in BOOLEAN
  /\ clock \in 0 .. Interval - 1 /\ since \in 0 .. Interval
  /\ lost \in 0 .. Losses /\ network \subseteq 0 .. Delay
  /\ latest \in -1 .. MaxAge /\ activeFor \in 0 .. Staleness

\* An agent that broadcasts stays on the dashboard: with max_age_ticks above
\* Staleness, one that has been active that long is listed in every state,
\* although update() lets an overtaken snapshot replace a newer one.
ActiveListed ==
  active /\ activeFor = Staleness /\ Staleness < MaxAge => latest # NotListed
=============================================================================
