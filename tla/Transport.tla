------------------------------ MODULE Transport ------------------------------
(***************************************************************************)
(* INTENT broadcasts through TransportLayer (src/network/transport.rs):    *)
(* the sender's rate limiter and the blind triple transmission on one      *)
(* side, deduplication and its garbage collection on the other.            *)
(*                                                                         *)
(* UDP multicast loses, repeats and reorders: a datagram that was sent     *)
(* stays in flight, arrives any number of times, or never.  A call of      *)
(* recv_all() that drains several datagrams is as many RecvAll steps.      *)
(* Only INTENTs are modelled, the one payload recv_all() deduplicates.     *)
(***************************************************************************)
EXTENDS Naturals, FiniteSets

CONSTANTS
  Sender,      \* ids of the agents that broadcast INTENTs
  SeqNos,      \* number of sequence numbers of an INTENT (2^16)
  RateWindow,  \* ticks between two calls of reset_rate_limits (5)
  IntentRate,  \* INTENT_RATE_LIMIT (1)
  SeenMax,     \* max_entries of gc_dedup
  MaxIntents,  \* bound: INTENTs broadcast by one agent
  MaxFlight    \* bound: INTENTs broadcast by all agents

ASSUME TransportAssumption ==
  /\ SeqNos \in Nat \ {0} /\ RateWindow \in Nat \ {0}
  /\ IntentRate = 1 /\ {SeenMax, MaxIntents, MaxFlight} \subseteq Nat

\* The n-th INTENT of an agent (counted from 0), and what it is told apart by.
Intent == Sender \X (0 .. MaxIntents)
KeyBug(m) == <<0, m[2] % SeqNos>>
Key(m) == <<m[1], m[2] % SeqNos>>

LongAgo == 2 * RateWindow + 1    \* an age past which no property looks

VARIABLES
  rate_limiter,  \* rate_limiter[a]: INTENTs of a since the last reset
  phase,         \* ticks since the last reset
  ages,          \* ages[a]: ticks since the last three INTENTs of a, latest first
  sent,          \* sent[a]: INTENTs a has broadcast
  flight,        \* INTENTs sent
  seen_intents,  \* keys the receiver remembers
  handed,        \* handed[m]: how often m was handed up, counted to 2
  swallowed,     \* INTENTs dropped as duplicates and never handed up
  forgotten      \* keys gc_dedup has removed

senderVars == <<rate_limiter, phase, ages, sent>>
receiverVars == <<seen_intents, handed, swallowed, forgotten>>
transportVars == <<senderVars, flight, receiverVars>>

-----------------------------------------------------------------------------
TransportInit ==
  /\ rate_limiter = [a \in Sender |-> 0] /\ phase = 0
  /\ ages = [a \in Sender |-> [i \in 1 .. 3 |-> LongAgo]]
  /\ sent = [a \in Sender |-> 0] /\ flight = {}
  /\ seen_intents = {} /\ handed = [m \in Intent |-> 0]
  /\ swallowed = {} /\ forgotten = {}

AllowedBug(a) == rate_limiter[a] =< IntentRate
Allowed(a) == rate_limiter[a] < IntentRate

\* can_broadcast_intent() and, as it allows the INTENT, send_triple().
\* A refused broadcast changes nothing.
Broadcast(a) ==
  /\ sent[a] < MaxIntents /\ Cardinality(flight) < MaxFlight
  /\ Allowed(a)
  /\ rate_limiter' = [rate_limiter EXCEPT ![a] = @ + 1]
  /\ ages' = [ages EXCEPT ![a] = [i \in 1 .. 3 |-> IF i = 1 THEN 0 ELSE @[i - 1]]]
  /\ sent' = [sent EXCEPT ![a] = @ + 1]
  /\ flight' = flight \cup {<<a, sent[a]>>}
  /\ UNCHANGED <<phase, receiverVars>>

Older(n) == IF n = LongAgo THEN n ELSE n + 1

\* A tick passes; every RateWindow ticks the caller runs reset_rate_limits().
RateTick ==
  /\ phase' = (phase + 1) % RateWindow
  /\ rate_limiter' =
       IF phase' = 0 THEN [a \in Sender |-> 0] ELSE rate_limiter
  /\ ages' = [a \in Sender |-> [i \in 1 .. 3 |-> Older(ages[a][i])]]
  /\ UNCHANGED <<sent, flight, receiverVars>>

Remembered(m) == seen_intents \cup {Key(m)}

\* recv_all(), for one datagram: an INTENT seen before is skipped ...
SkipDuplicate(m) ==
  /\ Key(m) \in seen_intents
  /\ swallowed' = IF handed[m] = 0 THEN swallowed \cup {m} ELSE swallowed
  /\ UNCHANGED <<senderVars, flight, seen_intents, handed, forgotten>>

\* ... any other is remembered and handed up.
HandUp(m) ==
  /\ Key(m) \notin seen_intents
  /\ seen_intents' = Remembered(m)
  /\ handed' = [handed EXCEPT ![m] = IF @ = 2 THEN 2 ELSE @ + 1]
  /\ UNCHANGED <<senderVars, flight, swallowed, forgotten>>

RecvAll(m) == SkipDuplicate(m) \/ HandUp(m)

\* gc_dedup(): an arbitrary half of the keys goes, in the map's own order.
GcDedup ==
  /\ Cardinality(seen_intents) > SeenMax
  /\ \E half \in SUBSET seen_intents :
       /\ Cardinality(half) = Cardinality(seen_intents) \div 2
       /\ seen_intents' = seen_intents \ half
       /\ forgotten' = forgotten \cup half
  /\ UNCHANGED <<senderVars, flight, handed, swallowed>>

TransportNext ==
  \/ \E a \in Sender : Broadcast(a)
  \/ RateTick
  \/ \E m \in flight : RecvAll(m)
  \/ GcDedup

TransportSpec == TransportInit /\ [][TransportNext]_transportVars

-----------------------------------------------------------------------------
TransportTypeOK ==
  /\ rate_limiter \in [Sender -> 0 .. IntentRate] /\ phase \in 0 .. RateWindow - 1
  /\ ages \in [Sender -> [1 .. 3 -> 0 .. LongAgo]]
  /\ sent \in [Sender -> 0 .. MaxIntents] /\ flight \subseteq Intent
  /\ handed \in [Intent -> 0 .. 2] /\ swallowed \subseteq Intent

\* Deduplication by (agent_id, seq_no) is exact up to its two limits.  An
\* INTENT is handed up twice only if gc_dedup has removed its key in between,
\* and it is never handed up at all, as a duplicate, only if another INTENT of
\* its sender, with the same wrapped sequence number, was handed up.
DedupExact ==
  /\ \A m \in Intent : handed[m] = 2 => Key(m) \in forgotten
  /\ \A m \in swallowed : \E n \in Intent :
       n # m /\ n[1] = m[1] /\ Key(n) = Key(m) /\ handed[n] > 0

\* The limiter counts in fixed windows of RateWindow ticks: two INTENTs of an
\* agent may be a tick apart, across a reset, but three never lie within
\* RateWindow ticks.
IntentsSpaced ==
  \A a \in Sender : ages[a][1] = 0 => ages[a][3] > RateWindow
=============================================================================
