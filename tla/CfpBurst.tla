------------------------------ MODULE CfpBurst ------------------------------
(***************************************************************************)
(* src/tasks/cfp.rs: the burst of CFP broadcasts by which a manager looks  *)
(* for a quorum, and the blocked cells that ride on a heartbeat for five   *)
(* seconds.  Time runs in steps of a size both have in common (100 ms).    *)
(*                                                                         *)
(* broadcast_fn is the caller's; it takes any time, may fail, and returns  *)
(* whether the quorum, once reached, is there.                             *)
(***************************************************************************)
EXTENDS Integers

CONSTANTS
  BurstInterval,  \* burst_interval (100 ms)
  BurstWindow,    \* burst_window (1 s)
  MaxCall,        \* bound: the longest call of broadcast_fn
  BlockedHold,    \* how long a blocked cell is reported (5 s)
  BlockedCell     \* cells that can be reported blocked

ASSUME BurstAssumption ==
  /\ BurstInterval \in Nat \ {0} /\ BurstWindow \in Nat
  /\ MaxCall \in Nat /\ BlockedHold \in Nat

VARIABLES
  stage,      \* of execute_cfp_burst: "calling", "sleeping", "ok", "failed"
  elapsed,    \* time since the burst began
  called,     \* time the current call or sleep has taken
  attempts,
  erred,      \* the last call returned an error
  quorumAt,   \* time at which the quorum was reached, or Never
  blocked_cells,
  block_timestamp,  \* age of the last report, or Never
  reported          \* reported[c]: age of the last report of c, or Never

burstVars == <<stage, elapsed, called, attempts, erred, quorumAt>>
piggybackVars == <<blocked_cells, block_timestamp, reported>>
cfpVars == <<burstVars, piggybackVars>>

\* Older than anything looked at; one such value stands for all of them.
Never == BlockedHold + 1
NoQuorum == BurstWindow + MaxCall + BurstInterval + 1

Aged(age) == IF age = Never THEN Never ELSE age + 1

-----------------------------------------------------------------------------
CfpInit ==
  /\ stage = "sleeping" /\ elapsed = 0 /\ called = BurstInterval /\ attempts = 0
  /\ erred = FALSE /\ quorumAt = NoQuorum
  /\ blocked_cells = {} /\ block_timestamp = Never
  /\ reported = [c \in BlockedCell |-> Never]

WindowOpenBug == elapsed =< BurstWindow
WindowOpen == elapsed < BurstWindow

\* The head of the loop, after the sleep of burst_interval.
NextAttempt ==
  /\ stage = "sleeping" /\ called = BurstInterval
  /\ IF WindowOpen
     THEN stage' = "calling" /\ called' = 0 /\ attempts' = attempts + 1
     ELSE stage' = "failed" /\ UNCHANGED <<called, attempts>>
  /\ UNCHANGED <<elapsed, erred, quorumAt, piggybackVars>>

\* broadcast_fn() returns: the quorum, no quorum, or an error, which counts as
\* an attempt without one.
CallReturns ==
  /\ stage = "calling" /\ called' = 0
  /\ \/ quorumAt # NoQuorum /\ stage' = "ok" /\ erred' = FALSE
     \/ quorumAt = NoQuorum /\ stage' = "sleeping" /\ erred' = FALSE
     \/ stage' = "sleeping" /\ erred' = TRUE
  /\ UNCHANGED <<elapsed, attempts, quorumAt, piggybackVars>>

\* Enough bids have come in.
QuorumReached ==
  /\ stage \in {"calling", "sleeping"} /\ quorumAt = NoQuorum
  /\ quorumAt' = elapsed
  /\ UNCHANGED <<stage, elapsed, called, attempts, erred, piggybackVars>>

\* report_edge_blocked(): the one timestamp starts again for all cells.
ReportBlocked(c) ==
  /\ blocked_cells' = blocked_cells \cup {c}
  /\ block_timestamp' = 0 /\ reported' = [reported EXCEPT ![c] = 0]
  /\ UNCHANGED burstVars

ExpiredBug == block_timestamp >= BlockedHold
Expired == block_timestamp > BlockedHold

\* get_piggyback_payload(): the cells are the payload, or have expired and go.
GetPayload ==
  /\ blocked_cells # {} /\ Expired
  /\ blocked_cells' = {} /\ block_timestamp' = Never
  /\ UNCHANGED <<burstVars, reported>>

CfpTick ==
  /\ IF stage \in {"calling", "sleeping"}
     THEN /\ called < IF stage = "calling" THEN MaxCall ELSE BurstInterval
          /\ elapsed' = elapsed + 1 /\ called' = called + 1
     ELSE UNCHANGED <<elapsed, called>>
  /\ block_timestamp' = Aged(block_timestamp)
  /\ reported' = [c \in BlockedCell |-> Aged(reported[c])]
  /\ UNCHANGED <<stage, attempts, erred, quorumAt, blocked_cells>>

CfpNext ==
  \/ NextAttempt \/ CallReturns \/ QuorumReached \/ GetPayload \/ CfpTick
  \/ \E c \in BlockedCell : ReportBlocked(c)

CfpSpec == CfpInit /\ [][CfpNext]_cfpVars

-----------------------------------------------------------------------------
CfpTypeOK ==
  /\ stage \in {"calling", "sleeping", "ok", "failed"}
  /\ elapsed \in 0 .. NoQuorum - 1 /\ attempts \in Nat
  /\ quorumAt \in 0 .. NoQuorum /\ blocked_cells \subseteq BlockedCell
  /\ block_timestamp \in 0 .. Never /\ reported \in [BlockedCell -> 0 .. Never]

\* Both windows are kept.  A burst never makes more attempts than intervals
\* fit its window; it gives up only when the window is over, and then the
\* quorum was not there an interval before that, unless the last call failed.
\* A cell stays in the payload for the whole of BlockedHold after each of its
\* reports, whatever other cells are reported meanwhile.
WindowsKept ==
  /\ (attempts - 1) * BurstInterval < BurstWindow
  /\ stage = "failed" =>
       /\ elapsed >= BurstWindow
       /\ ~erred => quorumAt + BurstInterval >= BurstWindow
  /\ \A c \in BlockedCell : reported[c] =< BlockedHold => c \in blocked_cells
=============================================================================
