---------------------------- MODULE DeviceProofs ----------------------------
(***************************************************************************)
(* What an agent is made of besides its decisions: its radio, its drive,   *)
(* its localization and its interlock.                                     *)
(*                                                                         *)
(* DedupExact and IntentsSpaced of Transport, for every fleet, number of   *)
(* sequence numbers, rate window and memory of the receiver, and any loss, *)
(* repetition and reordering of datagrams; ActiveListed of Telemetry and   *)
(* WindowsKept of CfpBurst, for every interval, window, delay and loss;    *)
(* SpeedsRamped of Drive, for every set of gains, limits and errors (the   *)
(* motor driver needs nothing of the controller but integers); FusedPose   *)
(* of Localizer, for every grid, cell size, displacement and counter width.*)
(***************************************************************************)
EXTENDS Transport, Telemetry, CfpBurst, Drive, Localizer, Interlock, TLAPS

(* Transport                                                               *)

\* A key the receiver ever took down came from an INTENT it handed up, and
\* keeps standing for it, in its memory or as a forgotten key.
KeysHanded ==
  /\ handed \in [Intent -> 0 .. 2] /\ flight \subseteq Intent /\ sent \in [Sender -> Nat]
  /\ \A m \in Intent : handed[m] > 0 => Key(m) \in seen_intents \cup forgotten
  /\ \A k \in seen_intents : \E n \in Intent : Key(n) = k /\ handed[n] > 0

DedupInv == KeysHanded /\ DedupExact

\* The ages of the last INTENTs of an agent against the fixed windows: at most
\* one lies in the present window, and each earlier one in a window of its own.
AgesInWindows ==
  \A a \in Sender :
    \/ /\ rate_limiter[a] = 0 /\ ages[a][1] > phase /\ ages[a][2] > phase + RateWindow
    \/ /\ rate_limiter[a] = 1 /\ ages[a][2] > phase /\ ages[a][3] > phase + RateWindow

Clocks ==
  /\ phase \in 0 .. RateWindow - 1 /\ rate_limiter \in [Sender -> 0 .. 1]
  /\ ages \in [Sender -> [1 .. 3 -> 0 .. LongAgo]]

SpacingInv == Clocks /\ AgesInWindows

-----------------------------------------------------------------------------
LEMMA SameKey ==
  ASSUME NEW m \in Intent, NEW n \in Intent, Key(m) = Key(n) PROVE m[1] = n[1]
BY DEF Key

LEMMA HandUpStep ==
  ASSUME DedupInv, NEW m \in Intent, HandUp(m) PROVE DedupInv'
<1>1. /\ handed \in [Intent -> 0 .. 2] /\ flight' = flight /\ sent' = sent
      /\ handed' = [handed EXCEPT ![m] = IF @ = 2 THEN 2 ELSE @ + 1]
      /\ seen_intents' = seen_intents \cup {Key(m)} /\ Key(m) \notin seen_intents
      /\ forgotten' = forgotten /\ swallowed' = swallowed
  BY DEF DedupInv, KeysHanded, HandUp, Remembered, senderVars
<1>2. /\ handed' \in [Intent -> 0 .. 2] /\ handed'[m] > 0
      /\ \A n \in Intent \ {m} : handed'[n] = handed[n]
      /\ \A n \in Intent : handed[n] > 0 => handed'[n] > 0
  BY <1>1
<1>3. handed'[m] = 2 => Key(m) \in forgotten
  BY <1>1 DEF DedupInv, KeysHanded
<1>4. KeysHanded'
  <2>1. \A n \in Intent : handed'[n] > 0 => Key(n) \in seen_intents' \cup forgotten'
    BY <1>1, <1>2 DEF DedupInv, KeysHanded
  <2>2. \A k \in seen_intents' : \E n \in Intent : Key(n) = k /\ handed'[n] > 0
    BY <1>1, <1>2 DEF DedupInv, KeysHanded
  <2> QED BY <1>1, <1>2, <2>1, <2>2 DEF KeysHanded, DedupInv, Key
<1>5. DedupExact'
  <2>1. \A n \in Intent : handed'[n] = 2 => Key(n) \in forgotten'
    BY <1>1, <1>2, <1>3 DEF DedupInv, DedupExact
  <2>2. \A n \in swallowed' : \E o \in Intent :
          o # n /\ o[1] = n[1] /\ Key(o) = Key(n) /\ handed'[o] > 0
    BY <1>1, <1>2 DEF DedupInv, DedupExact
  <2> QED BY <2>1, <2>2 DEF DedupExact, Key
<1> QED BY <1>4, <1>5 DEF DedupInv

LEMMA SkipStep ==
  ASSUME DedupInv, NEW m \in Intent, SkipDuplicate(m) PROVE DedupInv'
<1>1. /\ UNCHANGED <<handed, seen_intents, forgotten, flight, sent>>
      /\ Key(m) \in seen_intents
      /\ swallowed' = IF handed[m] = 0 THEN swallowed \cup {m} ELSE swallowed
  BY DEF SkipDuplicate, senderVars
<1>2. KeysHanded'
  BY <1>1 DEF DedupInv, KeysHanded, Key
<1>3. \A n \in swallowed' : \E o \in Intent :
        o # n /\ o[1] = n[1] /\ Key(o) = Key(n) /\ handed[o] > 0
  <2>1. CASE handed[m] = 0
    <3>1. PICK o \in Intent : Key(o) = Key(m) /\ handed[o] > 0
      BY <1>1 DEF DedupInv, KeysHanded
    <3>2. o # m /\ o[1] = m[1]
      BY <2>1, <3>1, SameKey
    <3> QED BY <1>1, <3>1, <3>2 DEF DedupInv, DedupExact
  <2>2. CASE handed[m] # 0
    BY <1>1, <2>2 DEF DedupInv, DedupExact
  <2> QED BY <2>1, <2>2
<1> QED BY <1>1, <1>2, <1>3 DEF DedupInv, DedupExact, Key

\* What the receiver remembers and has handed up, together inductive.
THEOREM DedupInductive == TransportSpec => []DedupInv
<1>1. TransportInit => DedupInv
  <2> SUFFICES ASSUME TransportInit PROVE DedupInv
    OBVIOUS
  <2>1. /\ \A m \in Intent : handed[m] = 0
        /\ handed \in [Intent -> 0 .. 2] /\ flight = {} /\ seen_intents = {}
        /\ swallowed = {} /\ sent \in [Sender -> Nat]
    BY DEF TransportInit
  <2>2. KeysHanded
    BY <2>1 DEF KeysHanded
  <2>3. \A m \in Intent : handed[m] # 2
    BY <2>1
  <2>4. \A m \in swallowed : \E n \in Intent :
          n # m /\ n[1] = m[1] /\ Key(n) = Key(m) /\ handed[n] > 0
    BY <2>1
  <2>5. DedupExact
    BY <2>3, <2>4 DEF DedupExact
  <2> QED BY <2>2, <2>5 DEF DedupInv
<1>2. DedupInv /\ [TransportNext]_transportVars => DedupInv'
  <2> SUFFICES ASSUME DedupInv, [TransportNext]_transportVars PROVE DedupInv'
    OBVIOUS
  <2>1. ASSUME NEW a \in Sender, Broadcast(a) PROVE DedupInv'
    <3>1. /\ UNCHANGED <<handed, seen_intents, forgotten, swallowed>>
          /\ flight' = flight \cup {<<a, sent[a]>>}
          /\ sent' = [sent EXCEPT ![a] = @ + 1] /\ sent[a] < MaxIntents
      BY <2>1 DEF Broadcast, receiverVars
    <3>2. sent[a] \in Nat /\ sent' \in [Sender -> Nat]
      BY <3>1 DEF DedupInv, KeysHanded
    <3>3. <<a, sent[a]>> \in Intent
      BY <3>1, <3>2, TransportAssumption DEF Intent
    <3> QED BY <3>1, <3>2, <3>3 DEF DedupInv, KeysHanded, DedupExact, Key
  <2>2. CASE RateTick \/ UNCHANGED transportVars
    BY <2>2 DEF RateTick, transportVars, senderVars, receiverVars, DedupInv, KeysHanded, DedupExact, Key
  <2>3. ASSUME NEW m \in flight, RecvAll(m) PROVE DedupInv'
    BY <2>3, HandUpStep, SkipStep DEF RecvAll, DedupInv, KeysHanded
  <2>4. CASE GcDedup
    <3>1. PICK half \in SUBSET seen_intents :
            /\ seen_intents' = seen_intents \ half /\ forgotten' = forgotten \cup half
            /\ UNCHANGED <<flight, handed, swallowed, sent>>
      BY <2>4 DEF GcDedup, senderVars
    <3> QED BY <3>1 DEF DedupInv, KeysHanded, DedupExact, Key
  <2> QED BY <2>1, <2>2, <2>3, <2>4 DEF TransportNext
<1> QED BY <1>1, <1>2, PTL DEF TransportSpec

\* Deduplication is exact up to gc_dedup and the wrap of sequence numbers.
THEOREM DedupIsExact == TransportSpec => []DedupExact
<1>1. DedupInv => DedupExact
  BY DEF DedupInv
<1> QED BY <1>1, DedupInductive, PTL

-----------------------------------------------------------------------------
LEMMA NextPhase ==
  ASSUME phase \in 0 .. RateWindow - 1
  PROVE  IF phase = RateWindow - 1 THEN (phase + 1) % RateWindow = 0
                                   ELSE (phase + 1) % RateWindow = phase + 1
<1>1. RateWindow \in Nat /\ RateWindow > 0
  BY TransportAssumption
<1>2. CASE phase = RateWindow - 1
  <2>1. phase + 1 = RateWindow
    BY <1>1, <1>2
  <2> QED BY <1>1, <1>2, <2>1
<1>3. CASE phase # RateWindow - 1
  <2>1. phase + 1 \in Nat /\ phase + 1 < RateWindow
    BY <1>1, <1>3
  <2> QED BY <1>1, <1>3, <2>1
<1> QED BY <1>2, <1>3

LEMMA BroadcastSpaced ==
  ASSUME SpacingInv, NEW a \in Sender, Broadcast(a) PROVE SpacingInv'
<1>1. /\ rate_limiter[a] = 0 /\ rate_limiter' = [rate_limiter EXCEPT ![a] = @ + 1]
      /\ ages' = [ages EXCEPT ![a] = [i \in 1 .. 3 |-> IF i = 1 THEN 0 ELSE @[i - 1]]]
      /\ phase' = phase
  BY TransportAssumption DEF Broadcast, Allowed, SpacingInv, Clocks
<1>2. LongAgo \in Nat
  BY TransportAssumption DEF LongAgo
<1>3. Clocks'
  <2>1. [i \in 1 .. 3 |-> IF i = 1 THEN 0 ELSE ages[a][i - 1]] \in [1 .. 3 -> 0 .. LongAgo]
    BY <1>2 DEF SpacingInv, Clocks
  <2> QED BY <1>1, <2>1 DEF SpacingInv, Clocks, LongAgo
<1>4. /\ rate_limiter'[a] = 1
      /\ ages'[a][2] = ages[a][1] /\ ages'[a][3] = ages[a][2]
      /\ \A b \in Sender \ {a} : rate_limiter'[b] = rate_limiter[b] /\ ages'[b] = ages[b]
  BY <1>1 DEF SpacingInv, Clocks
<1>5. AgesInWindows'
  <2> SUFFICES ASSUME NEW b \in Sender
               PROVE  \/ /\ rate_limiter'[b] = 0 /\ ages'[b][1] > phase'
                         /\ ages'[b][2] > phase' + RateWindow
                      \/ /\ rate_limiter'[b] = 1 /\ ages'[b][2] > phase'
                         /\ ages'[b][3] > phase' + RateWindow
    BY DEF AgesInWindows
  <2> QED BY <1>1, <1>4 DEF SpacingInv, AgesInWindows
<1> QED BY <1>3, <1>5 DEF SpacingInv

LEMMA TickSpaced == ASSUME SpacingInv, RateTick PROVE SpacingInv'
<1>1. RateWindow \in Nat /\ RateWindow > 0 /\ LongAgo = 2 * RateWindow + 1
  BY TransportAssumption DEF LongAgo
<1>2. phase' = IF phase = RateWindow - 1 THEN 0 ELSE phase + 1
  BY NextPhase DEF RateTick, SpacingInv, Clocks
<1>3. \A a \in Sender :
        /\ rate_limiter'[a] = IF phase' = 0 THEN 0 ELSE rate_limiter[a]
        /\ \A i \in 1 .. 3 :
             ages'[a][i] = IF ages[a][i] = LongAgo THEN LongAgo ELSE ages[a][i] + 1
  BY DEF RateTick, Older, SpacingInv, Clocks
<1>4. Clocks'
  <2>1. rate_limiter' \in [Sender -> 0 .. 1]
    BY DEF RateTick, SpacingInv, Clocks
  <2>2. \A a \in Sender, i \in 1 .. 3 : Older(ages[a][i]) \in 0 .. LongAgo
    BY <1>1 DEF Older, SpacingInv, Clocks
  <2>3. ages' \in [Sender -> [1 .. 3 -> 0 .. LongAgo]]
    BY <2>2 DEF RateTick
  <2> QED BY <1>1, <1>2, <2>1, <2>3 DEF SpacingInv, Clocks, LongAgo
<1>5. ASSUME NEW a \in Sender
      PROVE  \/ /\ rate_limiter'[a] = 0 /\ ages'[a][1] > phase'
                /\ ages'[a][2] > phase' + RateWindow
             \/ /\ rate_limiter'[a] = 1 /\ ages'[a][2] > phase'
                /\ ages'[a][3] > phase' + RateWindow
  <2> DEFINE old == ages[a]
  <2>1. /\ old[1] \in 0 .. LongAgo /\ old[2] \in 0 .. LongAgo /\ old[3] \in 0 .. LongAgo
        /\ phase \in 0 .. RateWindow - 1 /\ rate_limiter[a] \in 0 .. 1
    BY DEF SpacingInv, Clocks
  <2>2. \/ rate_limiter[a] = 0 /\ old[1] > phase /\ old[2] > phase + RateWindow
        \/ rate_limiter[a] = 1 /\ old[2] > phase /\ old[3] > phase + RateWindow
    BY DEF SpacingInv, AgesInWindows
  <2> QED BY <1>1, <1>2, <1>3, <2>1, <2>2
<1> QED BY <1>4, <1>5 DEF SpacingInv, AgesInWindows

\* The ages of the last INTENTs and the limiter's windows, together inductive.
THEOREM SpacingInductive == TransportSpec => []SpacingInv
<1>1. TransportInit => SpacingInv
  BY TransportAssumption DEF TransportInit, SpacingInv, Clocks, AgesInWindows, LongAgo
<1>2. SpacingInv /\ [TransportNext]_transportVars => SpacingInv'
  <2> SUFFICES ASSUME SpacingInv, [TransportNext]_transportVars PROVE SpacingInv'
    OBVIOUS
  <2>1. CASE UNCHANGED <<rate_limiter, phase, ages>>
    BY <2>1 DEF SpacingInv, Clocks, AgesInWindows, LongAgo
  <2>2. CASE (\E m \in flight : RecvAll(m)) \/ GcDedup \/ UNCHANGED transportVars
    BY <2>1, <2>2 DEF RecvAll, HandUp, SkipDuplicate, GcDedup, transportVars, senderVars
  <2> QED BY <2>2, BroadcastSpaced, TickSpaced DEF TransportNext
<1> QED BY <1>1, <1>2, PTL DEF TransportSpec

\* Three INTENTs of an agent never lie within RateWindow ticks.
THEOREM IntentsAreSpaced == TransportSpec => []IntentsSpaced
<1>1. SpacingInv => IntentsSpaced
  BY TransportAssumption DEF SpacingInv, Clocks, AgesInWindows, IntentsSpaced, LongAgo
<1> QED BY <1>1, SpacingInductive, PTL

\* The types of the sender and the receiver; sent is bounded by the guard of
\* Broadcast, the rest by the two inductive invariants.
THEOREM TransportTypes == TransportSpec => []TransportTypeOK
<1> DEFINE Rest == /\ sent \in [Sender -> 0 .. MaxIntents] /\ flight \subseteq Intent
                   /\ swallowed \subseteq Intent
<1>1. TransportInit => Rest
  BY TransportAssumption DEF TransportInit
<1>2. Rest /\ [TransportNext]_transportVars => Rest'
  <2> SUFFICES ASSUME Rest, [TransportNext]_transportVars PROVE Rest'
    OBVIOUS
  <2>1. ASSUME NEW a \in Sender, Broadcast(a) PROVE Rest'
    <3>1. /\ sent' = [sent EXCEPT ![a] = @ + 1] /\ sent[a] \in 0 .. MaxIntents
          /\ sent[a] < MaxIntents /\ flight' = flight \cup {<<a, sent[a]>>}
          /\ swallowed' = swallowed
      BY <2>1 DEF Broadcast, receiverVars
    <3>2. sent[a] + 1 \in 0 .. MaxIntents /\ <<a, sent[a]>> \in Intent
      BY <3>1, TransportAssumption DEF Intent
    <3> QED BY <3>1, <3>2
  <2>2. ASSUME NEW m \in flight, RecvAll(m) PROVE Rest'
    BY <2>2 DEF RecvAll, SkipDuplicate, HandUp, senderVars
  <2>3. CASE RateTick \/ GcDedup \/ UNCHANGED transportVars
    BY <2>3 DEF RateTick, GcDedup, transportVars, senderVars, receiverVars
  <2> QED BY <2>1, <2>2, <2>3 DEF TransportNext
<1>3. Rest /\ SpacingInv /\ DedupInv => TransportTypeOK
  BY TransportAssumption DEF SpacingInv, Clocks, DedupInv, KeysHanded, TransportTypeOK
<1> QED BY <1>1, <1>2, <1>3, SpacingInductive, DedupInductive, PTL DEF TransportSpec

-----------------------------------------------------------------------------
(* Telemetry and CFP burst                                                 *)

\* The entry is no older than g and the delay of the snapshot it came with, or
\* the agent has not been active for longer than g.
UpToDate(g) == activeFor =< g \/ (latest # NotListed /\ latest =< g + Delay)
UpToDateNext(g) == activeFor' =< g \/ (latest' # NotListed /\ latest' =< g + Delay)

\* How old the newest snapshot that arrived can be: as old as the broadcasts
\* lost since then make it, or, if snapshots are under way, one broadcast that
\* arrived before some of them.
EntryFresh ==
  /\ network = {} => UpToDate(since + lost * Interval)
  /\ network # {} => \E age \in network : UpToDate(age + (Losses + 1) * Interval)

ListedInv ==
  /\ TelemetryTypeOK
  /\ active /\ asked /\ since = Interval => activeFor = 0
  /\ active /\ Staleness < MaxAge => EntryFresh

-----------------------------------------------------------------------------
LEMMA StalenessNat ==
  /\ (Losses + 1) * Interval \in Nat /\ (Losses + 1) * Interval >= Interval
  /\ (Losses + 1) * Interval + Delay < Staleness /\ Staleness \in Nat
<1>1. Losses \in Nat /\ Interval \in Nat \ {0} /\ Delay \in Nat \ {0}
  BY TelemetryAssumption
<1>2. (Losses + 1) * Interval = Losses * Interval + Interval /\ Losses * Interval \in Nat
  BY <1>1
<1> QED BY <1>1, <1>2 DEF Staleness

\* The broadcasts lost make up less than one that cannot be lost any more.
LEMMA LostTime ==
  ASSUME ListedInv
  PROVE  /\ since \in Nat /\ lost * Interval \in Nat /\ lost \in Nat
         /\ since + lost * Interval =< (Losses + 1) * Interval
         /\ (lost + 1) * Interval = lost * Interval + Interval
<1>1. /\ lost \in 0 .. Losses /\ since \in 0 .. Interval
      /\ Losses \in Nat /\ Interval \in Nat \ {0}
  BY TelemetryAssumption DEF ListedInv, TelemetryTypeOK
<1>2. lost * Interval =< Losses * Interval /\ lost * Interval \in Nat
  BY <1>1
<1>3. (Losses + 1) * Interval = Losses * Interval + Interval
  BY <1>1
<1>4. Losses * Interval \in Nat /\ (lost + 1) * Interval = lost * Interval + Interval
  BY <1>1
<1> QED BY <1>1, <1>2, <1>3, <1>4

LEMMA SendFresh ==
  ASSUME ListedInv, Send, UNCHANGED <<activeFor, latest>>, EntryFresh
  PROVE  /\ since' = 0 /\ lost' \in 0 .. Losses /\ network' \subseteq 0 .. Delay
         /\ EntryFresh'
<1> DEFINE all == (Losses + 1) * Interval
<1>1. /\ Interval \in Nat \ {0} /\ Delay \in Nat \ {0} /\ Losses \in Nat
      /\ since \in 0 .. Interval /\ lost \in 0 .. Losses /\ network \subseteq 0 .. Delay
      /\ activeFor \in Nat /\ latest \in Int
  BY TelemetryAssumption, StalenessNat DEF ListedInv, TelemetryTypeOK
<1>2. since' = 0
  BY DEF Send
<1>3. all \in Nat /\ lost * Interval \in Nat /\ since + lost * Interval =< all
  BY LostTime, StalenessNat
<1> HIDE DEF all
<1>4. CASE lost < Losses /\ lost' = lost + 1 /\ network' = network
  <2>1. lost' * Interval = lost * Interval + Interval /\ lost' \in 0 .. Losses
    BY <1>1, <1>4, LostTime
  <2>2. CASE network = {}
    <3>1. UpToDate(since + lost * Interval)
      BY <2>2 DEF EntryFresh
    <3> DEFINE before == lost * Interval
               after == lost' * Interval
    <3>2. before \in Nat /\ after = before + Interval
      BY <1>3, <2>1
    <3>3. UpToDateNext(before + Interval)
      <4>1. UpToDate(since + before)
        BY <3>1
      <4> HIDE DEF before, after
      <4> QED BY <1>1, <3>2, <4>1 DEF UpToDate, UpToDateNext
    <3>4. since' + after = before + Interval
      <4> HIDE DEF before, after
      <4> QED BY <1>1, <1>2, <3>2
    <3>5. UpToDateNext(since' + after)
      BY <3>3, <3>4
    <3>6. network' = {}
      BY <1>4, <2>2
    <3>7. EntryFresh'
      BY <3>5, <3>6 DEF EntryFresh, UpToDate, UpToDateNext
    <3> QED BY <1>1, <1>2, <1>4, <2>1, <3>7
  <2>3. CASE network # {}
    BY <1>1, <1>2, <1>4, <2>1, <2>3 DEF EntryFresh, UpToDate, UpToDateNext
  <2> QED BY <2>2, <2>3
<1>5. CASE lost' = 0 /\ network' = network \cup {0}
  <2>1. \E age \in network' : UpToDate(age + all)
    <3>1. CASE network = {}
      <4>1. UpToDate(since + lost * Interval)
        BY <3>1 DEF EntryFresh
      <4>2. UpToDate(0 + all)
        BY <1>1, <1>3, <4>1 DEF UpToDate, UpToDateNext
      <4> QED BY <1>5, <4>2
    <3>2. CASE network # {}
      BY <1>5, <3>2 DEF EntryFresh, all
    <3> QED BY <3>1, <3>2
  <2>2. EntryFresh'
    BY <1>1, <1>5, <2>1 DEF EntryFresh, UpToDate, UpToDateNext, all
  <2> QED BY <1>1, <1>2, <1>5, <2>2
<1> QED BY <1>4, <1>5 DEF Send

LEMMA UpdateFresh ==
  ASSUME ListedInv, NEW age \in network, Update(age) PROVE ListedInv'
<1>1. /\ Delay \in Nat /\ Interval \in Nat \ {0} /\ MaxAge \in Nat
      /\ age \in 0 .. Delay /\ network \subseteq 0 .. Delay
      /\ since \in 0 .. Interval /\ lost \in 0 .. Losses
  BY TelemetryAssumption DEF ListedInv, TelemetryTypeOK
<1>2. TelemetryTypeOK'
  BY <1>1 DEF ListedInv, TelemetryTypeOK, Update, AtMost, Staleness
<1>3. active /\ asked /\ since = Interval => activeFor = 0
  BY DEF ListedInv
<1>4. ASSUME Staleness < MaxAge PROVE EntryFresh'
  <2>1. latest' = age /\ latest' \in Nat /\ latest' =< Delay
    BY <1>1, <1>4, StalenessNat DEF Update, AtMost
  <2>2. /\ \A g \in Nat : UpToDateNext(g)
        /\ since' + lost' * Interval \in Nat
        /\ \A a \in network' : a + (Losses + 1) * Interval \in Nat
    BY <1>1, <2>1, LostTime, StalenessNat DEF UpToDate, UpToDateNext, NotListed, Update
  <2>3. network' # {} => \E a \in network' : UpToDateNext(a + (Losses + 1) * Interval)
    BY <2>2
  <2> QED BY <2>2, <2>3 DEF EntryFresh, UpToDate, UpToDateNext
<1> QED BY <1>2, <1>3, <1>4 DEF ListedInv, Update, Staleness

LEMMA TickFresh == ASSUME ListedInv, TelemetryTick PROVE ListedInv'
<1> DEFINE all == (Losses + 1) * Interval
<1>1. /\ Delay \in Nat \ {0} /\ Interval \in Nat \ {0} /\ MaxAge \in Nat /\ Losses \in Nat
      /\ network \subseteq 0 .. Delay /\ since \in 0 .. Interval /\ lost \in 0 .. Losses
      /\ latest \in -1 .. MaxAge /\ activeFor \in 0 .. Staleness /\ Staleness \in Nat
      /\ active \in BOOLEAN
  BY TelemetryAssumption, StalenessNat DEF ListedInv, TelemetryTypeOK
<1>2. /\ active' = active /\ lost' = lost /\ asked' = FALSE
      /\ since' = AtMost(since + 1, Interval) /\ network' = {age + 1 : age \in network}
      /\ latest' = IF latest = NotListed THEN latest ELSE AtMost(latest + 1, MaxAge)
      /\ activeFor' = IF active THEN AtMost(activeFor + 1, Staleness) ELSE activeFor
      /\ \A age \in network : age < Delay
      /\ asked \/ ~active
  BY DEF TelemetryTick
<1>3. TelemetryTypeOK'
  <2>1. clock' \in 0 .. Interval - 1
    <3>1. clock' = (clock + 1) % Interval /\ clock + 1 \in Nat
      BY <1>1 DEF TelemetryTick, ListedInv, TelemetryTypeOK
    <3> QED BY <1>1, <3>1
  <2>2. since' \in 0 .. Interval /\ network' \subseteq 0 .. Delay
    BY <1>1, <1>2 DEF AtMost
  <2>3. latest' \in -1 .. MaxAge /\ activeFor' \in 0 .. Staleness
    BY <1>1, <1>2 DEF AtMost
  <2>4. Staleness' = Staleness
    BY DEF Staleness
  <2> QED BY <1>1, <1>2, <2>1, <2>2, <2>3, <2>4 DEF TelemetryTypeOK
<1>4. ASSUME NEW g \in Nat, g + Delay < MaxAge, active, UpToDate(g) PROVE UpToDateNext(g + 1)
  <2>1. CASE activeFor =< g
    BY <1>1, <1>2, <1>4, <2>1 DEF UpToDate, UpToDateNext, AtMost
  <2>2. CASE latest # NotListed /\ latest =< g + Delay
    BY <1>1, <1>2, <1>4, <2>2 DEF UpToDate, UpToDateNext, AtMost, NotListed
  <2> QED BY <1>4, <2>1, <2>2 DEF UpToDate, UpToDateNext
<1>5. ASSUME active, Staleness < MaxAge PROVE EntryFresh'
  <2>1. /\ all \in Nat /\ lost * Interval \in Nat /\ since + lost * Interval =< all
        /\ all + Delay < Staleness /\ all >= Interval
    BY LostTime, StalenessNat
  <2>2. EntryFresh
    BY <1>5 DEF ListedInv
  <2>3. CASE network = {}
    <3>1. network' = {}
      BY <1>2, <2>3
    <3>2. CASE since < Interval
      <4> DEFINE g == since + lost * Interval
      <4>1. g \in Nat /\ g + Delay < MaxAge /\ UpToDate(g)
        BY <1>1, <1>5, <2>1, <2>2, <2>3 DEF EntryFresh
      <4>2. since' + lost' * Interval = g + 1
        BY <1>1, <1>2, <2>1, <3>2 DEF AtMost
      <4>3. UpToDateNext(since' + lost' * Interval)
        <5> HIDE DEF g
        <5>1. UpToDateNext(g + 1)
          BY <1>4, <1>5, <4>1
        <5> QED BY <4>2, <5>1 DEF g, UpToDate, UpToDateNext
      <4> QED BY <3>1, <4>3 DEF EntryFresh, UpToDate, UpToDateNext
    <3>3. CASE since = Interval
      <4>1. activeFor = 0
        BY <1>2, <1>5, <3>3 DEF ListedInv
      <4>2. activeFor' =< 1 /\ since' = Interval
        BY <1>1, <1>2, <1>5, <3>3, <4>1 DEF AtMost
      <4>3. activeFor' =< since' + lost' * Interval
        BY <1>1, <1>2, <1>3, <2>1, <4>2 DEF TelemetryTypeOK
      <4> QED BY <3>1, <4>3 DEF EntryFresh, UpToDate, UpToDateNext
    <3> QED BY <1>1, <3>2, <3>3
  <2>4. CASE network # {}
    <3>1. PICK age \in network : UpToDate(age + all)
      BY <2>2, <2>4 DEF EntryFresh
    <3>2. age \in Nat /\ age < Delay /\ age + 1 \in network'
      BY <1>1, <1>2
    <3> DEFINE g == age + all
    <3>3. g \in Nat /\ g + Delay < MaxAge
      <4> HIDE DEF all
      <4>1. Staleness = all + 2 * Delay
        BY DEF Staleness, all
      <4> QED BY <1>1, <1>5, <2>1, <3>2, <4>1
    <3>4. (age + 1) + all = g + 1
      <4> HIDE DEF all
      <4> QED BY <2>1, <3>2
    <3> HIDE DEF g
    <3>5. UpToDateNext(g + 1)
      BY <1>4, <1>5, <3>1, <3>3 DEF g
    <3>6. UpToDateNext((age + 1) + all)
      BY <3>4, <3>5 DEF UpToDate, UpToDateNext
    <3> QED BY <3>2, <3>6 DEF EntryFresh, UpToDate, UpToDateNext
  <2> QED BY <2>3, <2>4
<1> QED BY <1>2, <1>3, <1>5 DEF ListedInv, Staleness

LEMMA NextListed ==
  ASSUME ListedInv, [TelemetryNext]_telemetryVars PROVE ListedInv'
<1>1. TelemetryTypeOK
  BY DEF ListedInv
<1>2. Staleness \in Nat /\ Interval \in Nat \ {0} /\ Losses \in Nat /\ Delay \in Nat /\ MaxAge \in Nat
  BY StalenessNat, TelemetryAssumption
<1>3. CASE StartBroadcasts
  <2>1. \A g \in Nat : UpToDateNext(g)
    BY <1>3 DEF StartBroadcasts, UpToDate, UpToDateNext
  <2>2. /\ since + lost * Interval \in Nat
        /\ \A a \in network : a + (Losses + 1) * Interval \in Nat
    BY <1>1, <1>2, LostTime, StalenessNat DEF TelemetryTypeOK
  <2>3. EntryFresh'
    BY <1>3, <2>1, <2>2 DEF EntryFresh, UpToDate, UpToDateNext, StartBroadcasts
  <2> QED BY <1>1, <1>2, <1>3, <2>3 DEF StartBroadcasts, ListedInv, TelemetryTypeOK, Staleness
<1>4. CASE StopBroadcasts
  BY <1>1, <1>4 DEF StopBroadcasts, ListedInv, TelemetryTypeOK, Staleness
<1>5. ASSUME Send, active, UNCHANGED <<active, clock, latest, activeFor>>, asked' \in BOOLEAN
      PROVE  ListedInv'
  <2>1. since' = 0 /\ lost' \in 0 .. Losses /\ network' \subseteq 0 .. Delay
    <3>1. lost \in 0 .. Losses /\ network \subseteq 0 .. Delay
      BY <1>1 DEF TelemetryTypeOK
    <3>2. CASE lost < Losses /\ lost' = lost + 1 /\ network' = network
      BY <1>2, <1>5, <3>1, <3>2 DEF Send
    <3>3. CASE lost' = 0 /\ network' = network \cup {0}
      BY <1>2, <1>5, <3>1, <3>3 DEF Send
    <3> QED BY <1>5, <3>2, <3>3 DEF Send
  <2>2. Staleness < MaxAge => EntryFresh'
    BY <1>5, SendFresh DEF ListedInv
  <2> QED BY <1>1, <1>2, <1>5, <2>1, <2>2 DEF ListedInv, TelemetryTypeOK, Staleness
<1>6. CASE Ask
  <2>1. CASE ShouldBroadcast
    BY <1>5, <1>6, <2>1 DEF Ask, ShouldBroadcast
  <2>2. CASE ~ShouldBroadcast
    <3>1. UNCHANGED <<active, clock, since, lost, network, latest, activeFor>> /\ asked' = TRUE
      BY <1>6, <2>2 DEF Ask
    <3>2. active => since # Interval
      BY <1>2, <2>2 DEF ShouldBroadcast
    <3>3. EntryFresh => EntryFresh'
      BY <3>1 DEF EntryFresh, UpToDate, UpToDateNext
    <3> QED BY <1>1, <3>1, <3>2, <3>3 DEF ListedInv, TelemetryTypeOK, Staleness
  <2> QED BY <2>1, <2>2
<1>7. CASE StateChange
  BY <1>1, <1>5, <1>7 DEF StateChange, TelemetryTypeOK
<1>8. CASE Prune
  <2>1. /\ UNCHANGED <<active, clock, since, asked, lost, network, activeFor>>
        /\ latest' = NotListed /\ latest >= MaxAge
    BY <1>8 DEF Prune, Stale
  <2>2. TelemetryTypeOK'
    BY <1>1, <1>2, <2>1 DEF TelemetryTypeOK, NotListed, Staleness
  <2>3. ASSUME active, Staleness < MaxAge PROVE EntryFresh'
    <3>1. EntryFresh /\ network \subseteq 0 .. Delay /\ latest \in -1 .. MaxAge
      BY <1>1, <2>3 DEF ListedInv, TelemetryTypeOK
    <3>2. ASSUME NEW g \in Nat, g + Delay =< Staleness, UpToDate(g) PROVE UpToDateNext(g)
      BY <1>2, <2>1, <2>3, <3>1, <3>2 DEF UpToDate, UpToDateNext
    <3>3. CASE network = {}
      <4>1. /\ since + lost * Interval \in Nat
            /\ since + lost * Interval + Delay =< Staleness
        BY <1>2, LostTime, StalenessNat
      <4>2. UpToDateNext(since + lost * Interval)
        BY <3>1, <3>2, <3>3, <4>1 DEF EntryFresh
      <4> QED BY <2>1, <3>3, <4>2 DEF EntryFresh, UpToDate, UpToDateNext
    <3>4. CASE network # {}
      <4> DEFINE all == (Losses + 1) * Interval
      <4>1. PICK age \in network : UpToDate(age + all)
        BY <3>1, <3>4 DEF EntryFresh
      <4>2. age + all \in Nat /\ age + all + Delay =< Staleness
        <5>1. Staleness = all + 2 * Delay /\ all \in Nat /\ age \in 0 .. Delay
          BY <3>1, StalenessNat DEF Staleness
        <5> HIDE DEF all
        <5> QED BY <1>2, <5>1
      <4>3. UpToDateNext(age + all)
        BY <3>2, <4>1, <4>2
      <4> QED BY <2>1, <3>4, <4>3 DEF EntryFresh, UpToDate, UpToDateNext
    <3> QED BY <3>3, <3>4
  <2> QED BY <2>1, <2>2, <2>3 DEF ListedInv, Staleness
<1>9. CASE UNCHANGED telemetryVars
  <2>1. EntryFresh => EntryFresh'
    BY <1>9 DEF EntryFresh, UpToDate, UpToDateNext, telemetryVars
  <2> QED BY <1>1, <1>9, <2>1 DEF telemetryVars, ListedInv, TelemetryTypeOK, Staleness
<1> QED BY <1>3, <1>4, <1>6, <1>7, <1>8, <1>9, UpdateFresh, TickFresh DEF TelemetryNext

\* How old an entry can be, inductive with what is under way and lost.
THEOREM ListedInductive == TelemetrySpec => []ListedInv
<1>1. TelemetryInit => ListedInv
  <2> SUFFICES ASSUME TelemetryInit PROVE ListedInv
    OBVIOUS
  <2>1. TelemetryTypeOK
    <3>1. /\ 0 \in 0 .. Interval - 1 /\ 0 \in 0 .. Interval /\ 0 \in 0 .. Losses
          /\ -1 \in -1 .. MaxAge /\ 0 \in 0 .. Staleness
      BY TelemetryAssumption, StalenessNat
    <3> QED BY <3>1 DEF TelemetryInit, TelemetryTypeOK, NotListed
  <2> QED BY <2>1 DEF TelemetryInit, ListedInv
<1>2. ListedInv /\ [TelemetryNext]_telemetryVars => ListedInv'
  BY NextListed
<1> QED BY <1>1, <1>2, PTL DEF TelemetrySpec

\* An agent that broadcasts stays on the dashboard.
THEOREM StaysListed == TelemetrySpec => []ActiveListed
<1>1. ListedInv => ActiveListed
  <2> SUFFICES ASSUME ListedInv, active, activeFor = Staleness, Staleness < MaxAge
               PROVE  latest # NotListed
    BY DEF ActiveListed
  <2>1. EntryFresh /\ network \subseteq 0 .. Delay
    BY DEF ListedInv, TelemetryTypeOK
  <2>2. \A g \in Nat : g < Staleness /\ UpToDate(g) => latest # NotListed
    BY StalenessNat DEF UpToDate, UpToDateNext
  <2>3. CASE network = {}
    <3>1. since + lost * Interval \in Nat /\ since + lost * Interval < Staleness
      BY LostTime, StalenessNat, TelemetryAssumption
    <3> QED BY <2>1, <2>2, <2>3, <3>1 DEF EntryFresh
  <2>4. CASE network # {}
    <3> DEFINE all == (Losses + 1) * Interval
    <3>1. PICK age \in network : UpToDate(age + all)
      BY <2>1, <2>4 DEF EntryFresh
    <3>2. age \in 0 .. Delay /\ all \in Nat /\ all + Delay < Staleness /\ Staleness \in Nat
      BY <2>1, StalenessNat
    <3>3. age + all \in Nat /\ age + all < Staleness
      <4> HIDE DEF all
      <4> QED BY <3>2, TelemetryAssumption
    <3> QED BY <2>2, <3>1, <3>3
  <2> QED BY <2>3, <2>4
<1> QED BY <1>1, ListedInductive, PTL

\* The types of the broadcaster and the dashboard's entry.
THEOREM TelemetryTypes == TelemetrySpec => []TelemetryTypeOK
BY ListedInductive, PTL DEF ListedInv

-----------------------------------------------------------------------------
(* The burst, and the blocked cells.                                       *)

\* Every attempt but the first took an interval of sleep before it.
BurstPaced ==
  /\ elapsed \in Nat /\ called \in Nat /\ attempts \in Nat /\ quorumAt \in Nat
  /\ stage \in {"calling", "sleeping", "ok", "failed"}
  /\ (attempts - 1) * BurstInterval < BurstWindow
  /\ stage \in {"calling", "sleeping"} =>
       elapsed >= (attempts - 1) * BurstInterval + called

\* A loop that sleeps after an answer without a quorum had none when it fell
\* asleep; elapsed never gets to NoQuorum.
QuorumNoticed ==
  /\ stage = "calling" => elapsed - called < BurstWindow /\ called =< MaxCall
  /\ stage = "sleeping" =>
       /\ called =< BurstInterval /\ elapsed =< BurstWindow + MaxCall + called
       /\ ~erred => quorumAt + called >= elapsed
  /\ stage = "failed" =>
       elapsed >= BurstWindow /\ (~erred => quorumAt + BurstInterval >= BurstWindow)

\* No report of a cell is younger than the timestamp all cells share.
ReportsShared ==
  /\ block_timestamp \in 0 .. Never /\ reported \in [BlockedCell -> 0 .. Never]
  /\ \A c \in BlockedCell :
       /\ block_timestamp =< reported[c]
       /\ reported[c] =< BlockedHold => c \in blocked_cells

WindowInv == BurstPaced /\ QuorumNoticed /\ ReportsShared

LEMMA BurstNumbers ==
  /\ BurstInterval \in Nat /\ BurstInterval > 0 /\ BurstWindow \in Nat /\ MaxCall \in Nat
  /\ BlockedHold \in Nat /\ Never = BlockedHold + 1
  /\ NoQuorum = BurstWindow + MaxCall + BurstInterval + 1
BY BurstAssumption DEF Never, NoQuorum

\* The latest a call can end, and the sleep after it.
LEMMA BurstEnds ==
  ASSUME NEW e \in Nat, NEW k \in Nat,
         \/ e - k < BurstWindow /\ k =< MaxCall
         \/ e =< BurstWindow + MaxCall + k /\ k =< BurstInterval
  PROVE  e =< BurstWindow + MaxCall + BurstInterval
BY BurstNumbers

LEMMA AttemptStep ==
  ASSUME BurstPaced, QuorumNoticed, NextAttempt PROVE BurstPaced' /\ QuorumNoticed'
<1>1. /\ stage = "sleeping" /\ called = BurstInterval /\ UNCHANGED <<elapsed, erred, quorumAt>>
      /\ attempts \in Nat /\ elapsed \in Nat
  BY DEF NextAttempt, BurstPaced
<1>2. elapsed >= (attempts - 1) * BurstInterval + BurstInterval
  BY <1>1 DEF BurstPaced
<1>3. (attempts - 1) * BurstInterval + BurstInterval = attempts * BurstInterval
  BY <1>1, BurstNumbers
<1>4. CASE WindowOpen /\ stage' = "calling" /\ called' = 0 /\ attempts' = attempts + 1
  <2>1. (attempts' - 1) * BurstInterval = attempts * BurstInterval
    BY <1>1, <1>4, BurstNumbers
  <2>2. attempts * BurstInterval \in Nat
    BY <1>1, BurstNumbers
  <2>3. BurstPaced'
    BY <1>1, <1>2, <1>3, <1>4, <2>1, <2>2, BurstNumbers DEF BurstPaced, WindowOpen
  <2>4. QuorumNoticed'
    BY <1>1, <1>4, BurstNumbers DEF QuorumNoticed, WindowOpen
  <2> QED BY <2>3, <2>4
<1>5. CASE ~WindowOpen /\ stage' = "failed" /\ UNCHANGED <<called, attempts>>
  BY <1>1, <1>5, BurstNumbers DEF BurstPaced, QuorumNoticed, WindowOpen
<1> QED BY <1>4, <1>5 DEF NextAttempt

LEMMA BurstStep ==
  ASSUME BurstPaced, QuorumNoticed, CallReturns \/ QuorumReached \/ CfpTick
  PROVE  BurstPaced' /\ QuorumNoticed'
<1> DEFINE past == (attempts - 1) * BurstInterval
<1>1. /\ elapsed \in Nat /\ called \in Nat /\ attempts \in Nat /\ quorumAt \in Nat
      /\ past \in Int /\ past < BurstWindow
      /\ stage \in {"calling", "sleeping"} => elapsed >= past + called
  BY BurstNumbers DEF BurstPaced
<1>2. past' = (attempts' - 1) * BurstInterval
  OBVIOUS
<1>3. CASE CallReturns
  <2>1. /\ stage = "calling" /\ called' = 0 /\ UNCHANGED <<elapsed, attempts, quorumAt>>
        /\ stage' \in {"ok", "sleeping"} /\ (stage' = "sleeping" /\ ~erred' => quorumAt = NoQuorum)
    BY <1>3 DEF CallReturns
  <2>2. past' = past
    BY <2>1
  <2> HIDE DEF past
  <2>3. BurstPaced'
    BY <1>1, <2>1, <2>2 DEF BurstPaced, past
  <2>4. QuorumNoticed'
    BY <1>1, <2>1, BurstNumbers DEF QuorumNoticed
  <2> QED BY <2>3, <2>4
<1>4. CASE QuorumReached
  <2>1. /\ UNCHANGED <<stage, elapsed, called, attempts, erred>> /\ quorumAt' = elapsed
        /\ stage \in {"calling", "sleeping"}
    BY <1>4 DEF QuorumReached
  <2> QED BY <1>1, <2>1 DEF BurstPaced, QuorumNoticed
<1>5. CASE CfpTick /\ stage \in {"calling", "sleeping"}
  <2>1. /\ UNCHANGED <<stage, attempts, erred, quorumAt>>
        /\ elapsed' = elapsed + 1 /\ called' = called + 1
        /\ called < IF stage = "calling" THEN MaxCall ELSE BurstInterval
    BY <1>5 DEF CfpTick
  <2>2. past' = past
    BY <2>1
  <2> HIDE DEF past
  <2>3. BurstPaced'
    BY <1>1, <1>5, <2>1, <2>2 DEF BurstPaced, past
  <2>4. QuorumNoticed'
    BY <1>1, <1>5, <2>1, BurstNumbers DEF QuorumNoticed
  <2> QED BY <2>3, <2>4
<1>6. CASE CfpTick /\ stage \notin {"calling", "sleeping"}
  BY <1>6 DEF CfpTick, BurstPaced, QuorumNoticed
<1> QED BY <1>3, <1>4, <1>5, <1>6

LEMMA ReportsStep ==
  ASSUME ReportsShared, GetPayload \/ CfpTick \/ \E c \in BlockedCell : ReportBlocked(c)
  PROVE  ReportsShared'
<1>1. /\ block_timestamp \in 0 .. Never /\ reported \in [BlockedCell -> 0 .. Never]
      /\ BlockedHold \in Nat /\ Never = BlockedHold + 1
  BY BurstNumbers DEF ReportsShared
<1>2. CASE GetPayload
  <2>1. block_timestamp = Never
    BY <1>1, <1>2 DEF GetPayload, Expired
  <2>2. \A c \in BlockedCell : reported[c] = Never
    BY <1>1, <2>1 DEF ReportsShared
  <2> QED BY <1>1, <1>2, <2>2 DEF GetPayload, ReportsShared, Never
<1>3. CASE CfpTick
  <2>1. \A n \in 0 .. Never : Aged(n) \in 0 .. Never /\ n =< Aged(n)
    BY <1>1 DEF Aged
  <2>2. /\ block_timestamp' = Aged(block_timestamp) /\ blocked_cells' = blocked_cells
        /\ reported' = [c \in BlockedCell |-> Aged(reported[c])]
    BY <1>3 DEF CfpTick
  <2>3. \A c \in BlockedCell : Aged(block_timestamp) =< Aged(reported[c])
    BY <1>1 DEF Aged, ReportsShared
  <2>4. reported' \in [BlockedCell -> 0 .. Never] /\ block_timestamp' \in 0 .. Never
    BY <1>1, <2>1, <2>2
  <2>5. ASSUME NEW c \in BlockedCell, Aged(reported[c]) =< BlockedHold PROVE c \in blocked_cells
    BY <1>1, <2>1, <2>5 DEF ReportsShared
  <2> QED BY <2>2, <2>3, <2>4, <2>5 DEF ReportsShared, Never
<1>4. ASSUME NEW c \in BlockedCell, ReportBlocked(c) PROVE ReportsShared'
  BY <1>1, <1>4 DEF ReportBlocked, ReportsShared, Never
<1> QED BY <1>2, <1>3, <1>4

\* The paces of the burst and the ages of the reports, inductive.
THEOREM WindowInductive == CfpSpec => []WindowInv
<1>1. CfpInit => WindowInv
  <2> SUFFICES ASSUME CfpInit PROVE WindowInv
    OBVIOUS
  <2>1. (attempts - 1) * BurstInterval = -BurstInterval
    BY BurstNumbers DEF CfpInit
  <2>2. BurstPaced
    BY <2>1, BurstNumbers DEF CfpInit, BurstPaced
  <2>3. QuorumNoticed
    BY BurstNumbers DEF CfpInit, QuorumNoticed
  <2>4. ReportsShared
    BY BurstNumbers DEF CfpInit, ReportsShared
  <2> QED BY <2>2, <2>3, <2>4 DEF WindowInv
<1>2. WindowInv /\ [CfpNext]_cfpVars => WindowInv'
  <2> SUFFICES ASSUME WindowInv, [CfpNext]_cfpVars PROVE WindowInv'
    OBVIOUS
  <2>1. ASSUME UNCHANGED burstVars PROVE BurstPaced' /\ QuorumNoticed'
    BY <2>1 DEF WindowInv, burstVars, BurstPaced, QuorumNoticed
  <2>2. ASSUME UNCHANGED piggybackVars PROVE ReportsShared'
    BY <2>2 DEF WindowInv, piggybackVars, ReportsShared, Never
  <2>3. CASE NextAttempt
    BY <2>2, <2>3, AttemptStep DEF WindowInv, NextAttempt
  <2>4. CASE CallReturns \/ QuorumReached
    BY <2>2, <2>4, BurstStep DEF WindowInv, CallReturns, QuorumReached
  <2>5. CASE CfpTick
    BY <2>5, BurstStep, ReportsStep DEF WindowInv
  <2>6. CASE GetPayload \/ \E c \in BlockedCell : ReportBlocked(c)
    BY <2>1, <2>6, ReportsStep DEF WindowInv, GetPayload, ReportBlocked
  <2>7. CASE UNCHANGED cfpVars
    BY <2>1, <2>2, <2>7 DEF WindowInv, cfpVars
  <2> QED BY <2>3, <2>4, <2>5, <2>6, <2>7 DEF CfpNext
<1> QED BY <1>1, <1>2, PTL DEF CfpSpec

\* A burst and a blocked cell are kept up for the whole of their windows.
THEOREM WindowsAreKept == CfpSpec => []WindowsKept
<1>1. WindowInv => WindowsKept
  BY DEF WindowInv, BurstPaced, QuorumNoticed, ReportsShared, WindowsKept
<1> QED BY <1>1, WindowInductive, PTL

\* The types of the burst and of the piggyback.
THEOREM CfpTypes == CfpSpec => []CfpTypeOK
<1> DEFINE Rest == /\ elapsed =< BurstWindow + MaxCall + BurstInterval
                   /\ quorumAt =< NoQuorum /\ blocked_cells \subseteq BlockedCell
<1>1. CfpInit => Rest
  BY BurstNumbers DEF CfpInit
<1>2. WindowInv /\ WindowInv' /\ Rest /\ [CfpNext]_cfpVars => Rest'
  <2> SUFFICES ASSUME WindowInv, WindowInv', Rest, [CfpNext]_cfpVars PROVE Rest'
    OBVIOUS
  <2>1. CASE NextAttempt \/ CallReturns \/ UNCHANGED cfpVars
    BY <2>1 DEF NextAttempt, CallReturns, cfpVars, burstVars, piggybackVars, NoQuorum
  <2>2. CASE QuorumReached
    BY <2>2, BurstNumbers DEF QuorumReached, piggybackVars, WindowInv, BurstPaced
  <2>3. CASE GetPayload \/ \E c \in BlockedCell : ReportBlocked(c)
    BY <2>3 DEF GetPayload, ReportBlocked, burstVars, NoQuorum
  <2>4. CASE CfpTick
    <3>1. /\ stage' = stage /\ quorumAt' = quorumAt /\ blocked_cells' = blocked_cells
          /\ quorumAt' =< NoQuorum' /\ blocked_cells' \subseteq BlockedCell
      BY <2>4 DEF CfpTick, NoQuorum
    <3>2. CASE stage \notin {"calling", "sleeping"}
      BY <2>4, <3>1, <3>2 DEF CfpTick, NoQuorum
    <3>3. CASE stage \in {"calling", "sleeping"}
      <4> PICK e \in Nat, k \in Nat : e = elapsed' /\ k = called'
        BY DEF WindowInv, BurstPaced
      <4>1. \/ e - k < BurstWindow /\ k =< MaxCall
            \/ e =< BurstWindow + MaxCall + k /\ k =< BurstInterval
        BY <3>1, <3>3 DEF WindowInv, QuorumNoticed
      <4>2. e =< BurstWindow + MaxCall + BurstInterval
        BY <4>1, BurstEnds
      <4> QED BY <3>1, <4>2
    <3> QED BY <3>2, <3>3
  <2> QED BY <2>1, <2>2, <2>3, <2>4 DEF CfpNext
<1>3. WindowInv /\ Rest => CfpTypeOK
  BY BurstNumbers DEF WindowInv, BurstPaced, ReportsShared, CfpTypeOK
<1> QED BY <1>1, <1>2, <1>3, WindowInductive, PTL DEF CfpSpec

-----------------------------------------------------------------------------
(* Drive                                                                   *)

State == [integral : Int, prev_error : Int]

DriveInv ==
  /\ heading_controller \in State /\ distance_controller \in State
  /\ last_command \in [Wheel -> Int] /\ stops \in 0 .. MaxWheel
  /\ StoppedInTime

-----------------------------------------------------------------------------
(* The arithmetic stays within the integers.                               *)

LEMMA WithinInt ==
  ASSUME NEW n \in Int, NEW bound \in Nat
  PROVE  Within(n, bound) \in Int /\ -bound =< Within(n, bound) /\ Within(n, bound) =< bound
BY DEF Within

LEMMA QuotientInt ==
  ASSUME NEW n \in Int, NEW d \in Nat \ {0} PROVE Quotient(n, d) \in Int
<1>1. \A k \in Nat : k \div d \in Int
  OBVIOUS
<1>2. CASE n < 0
  <2>1. -n \in Nat
    BY <1>2
  <2> QED BY <1>1, <1>2, <2>1 DEF Quotient
<1>3. CASE ~(n < 0)
  BY <1>1, <1>3 DEF Quotient
<1> QED BY <1>2, <1>3

LEMMA AddInt == ASSUME NEW m \in Int, NEW n \in Int PROVE QAdd(m, n) \in Int
BY WithinInt, DriveAssumption DEF QAdd

LEMMA MulInt == ASSUME NEW m \in Int, NEW n \in Int PROVE QMul(m, n) \in Int
<1>1. m * n \in Int /\ One \in Nat \ {0} /\ IntMax \in Nat
  BY DriveAssumption
<1>2. \A k \in Int, d \in Nat \ {0} : k \div d \in Int /\ k % d \in Int
  OBVIOUS
<1>3. (m * n) \div One + IntMax + 1 \in Int /\ 2 * IntMax + 2 \in Nat \ {0}
  BY <1>1, <1>2
<1>4. ((m * n) \div One + IntMax + 1) % (2 * IntMax + 2) \in Int
  BY <1>2, <1>3
<1> QED BY <1>1, <1>4 DEF QMul

LEMMA PidInt ==
  ASSUME NEW c \in State, NEW gains \in Gains, NEW error \in Int
  PROVE  PidOutput(c, gains, error) \in Int /\ PidUpdate(c, gains, error) \in State
<1>1. /\ gains.kp \in Int /\ gains.ki \in Int /\ gains.kd \in Int
      /\ gains.out \in Nat /\ gains.int \in Nat
      /\ c.integral \in Int /\ c.prev_error \in Int
  BY DEF Gains, State
<1>2. Integral(c, gains, error) \in Int
  <2>1. QMul(error, Dt) \in Int
    BY MulInt, DriveAssumption
  <2>2. QAdd(c.integral, QMul(error, Dt)) \in Int
    BY <1>1, <2>1, AddInt
  <2> QED BY <1>1, <2>2, WithinInt DEF Integral
<1>3. Derivative(c, error) \in Int
  <2>1. (error - c.prev_error) * One \in Int /\ Dt \in Nat \ {0} /\ IntMax \in Nat
    BY <1>1, DriveAssumption
  <2> QED BY <2>1, QuotientInt, WithinInt DEF Derivative
<1>4. /\ QMul(gains.kp, error) \in Int /\ QMul(gains.ki, Integral(c, gains, error)) \in Int
      /\ QMul(gains.kd, Derivative(c, error)) \in Int
  BY <1>1, <1>2, <1>3, MulInt
<1>5. PidOutput(c, gains, error) \in Int
  BY <1>1, <1>4, AddInt, WithinInt DEF PidOutput
<1> QED BY <1>2, <1>5 DEF PidUpdate, State

LEMMA WheelsInt ==
  ASSUME NEW v \in Int, NEW omega \in Int
  PROVE  ClampWheels(FromUnicycle(v, omega)) \in [Wheel -> Int]
<1> DEFINE wheels == FromUnicycle(v, omega)
<1>1. wheels \in [Wheel -> Int]
  BY DriveAssumption DEF FromUnicycle, Wheel
<1> DEFINE larger == IF Abs(wheels["left"]) < Abs(wheels["right"])
                     THEN Abs(wheels["right"]) ELSE Abs(wheels["left"])
<1>2. larger \in Nat
  BY <1>1 DEF Abs, Wheel
<1> HIDE DEF wheels
<1>3. ASSUME NEW w \in Wheel, ~(larger =< MaxWheel)
      PROVE  Quotient(wheels[w] * MaxWheel, larger) \in Int
  <2>1. larger \in Nat \ {0} /\ wheels[w] * MaxWheel \in Int
    BY <1>1, <1>2, <1>3, DriveAssumption
  <2> HIDE DEF larger
  <2> QED BY <2>1, QuotientInt
<1>4. ClampWheels(wheels) =
        [w \in Wheel |-> IF larger =< MaxWheel THEN wheels[w]
                         ELSE Quotient(wheels[w] * MaxWheel, larger)]
  BY DEF ClampWheels
<1> HIDE DEF larger
<1>5. ClampWheels(wheels) \in [Wheel -> Int]
  BY <1>1, <1>3, <1>4
<1> QED BY <1>5 DEF wheels

-----------------------------------------------------------------------------
(* The ramp.                                                               *)

LEMMA RampedMeaning ==
  ASSUME NEW last \in Int, NEW target \in Int
  PROVE  /\ Ramped(last, target) \in Int
         /\ Abs(Ramped(last, target) - last) =< Ramp
         /\ Abs(last) =< MaxWheel => Abs(Ramped(last, target)) =< MaxWheel
         /\ target = 0 => IF Abs(last) =< Ramp THEN Ramped(last, target) = 0
                          ELSE Abs(Ramped(last, target)) = Abs(last) - Ramp
BY DriveAssumption DEF Ramped, Within, Abs

LEMMA Bounded ==
  ASSUME DriveInv, NEW w \in Wheel PROVE Abs(last_command[w]) =< MaxWheel
<1>1. stops * Ramp \in Nat /\ last_command[w] \in Int /\ MaxWheel \in Nat
  BY DriveAssumption DEF DriveInv
<1>2. last_command[w] # 0 => Abs(last_command[w]) + stops * Ramp =< MaxWheel
  BY DEF DriveInv, StoppedInTime
<1> QED BY <1>1, <1>2 DEF Abs

LEMMA SendStep ==
  ASSUME DriveInv, NEW target \in [Wheel -> Int], SendWheels(target)
  PROVE  /\ last_command' \in [Wheel -> Int] /\ stops' \in 0 .. MaxWheel
         /\ StoppedInTime'
         /\ \A w \in Wheel : Abs(last_command'[w] - last_command[w]) =< Ramp
         /\ powered \/ UNCHANGED last_command
<1>0. MaxWheel \in Nat /\ Ramp \in Nat /\ Ramp > 0
  BY DriveAssumption
<1>1. CASE ~powered
  BY <1>0, <1>1 DEF SendWheels, DriveInv, StoppedInTime, Abs
<1>2. CASE powered
  <2>1. \A w \in Wheel : last_command'[w] = Ramped(last_command[w], target[w])
    BY <1>2 DEF SendWheels
  <2>2. last_command' \in [Wheel -> Int]
    BY <1>2, RampedMeaning DEF SendWheels, DriveInv
  <2>3. \A w \in Wheel : Abs(last_command'[w] - last_command[w]) =< Ramp
    BY <2>1, RampedMeaning DEF DriveInv
  <2>4. CASE target # Still
    <3>1. stops' = 0
      BY <1>2, <2>4 DEF SendWheels
    <3>2. ASSUME NEW w \in Wheel PROVE Abs(last_command'[w]) =< MaxWheel
      <4>1. last_command[w] \in Int /\ target[w] \in Int /\ Abs(last_command[w]) =< MaxWheel
        BY Bounded DEF DriveInv
      <4>2. Abs(Ramped(last_command[w], target[w])) =< MaxWheel
        BY <4>1, RampedMeaning
      <4> QED BY <2>1, <4>2
    <3>3. \A w \in Wheel : Abs(last_command'[w]) \in Int
      BY <2>2 DEF Abs
    <3>4. StoppedInTime'
      BY <1>0, <3>1, <3>2, <3>3 DEF StoppedInTime, Abs
    <3> QED BY <1>0, <1>2, <2>2, <2>3, <3>1, <3>4
  <2>5. CASE target = Still
    <3>1. stops' = Within(stops + 1, MaxWheel) /\ stops \in 0 .. MaxWheel
      BY <1>2, <2>5 DEF SendWheels, DriveInv
    <3>2. stops' = IF stops = MaxWheel THEN stops ELSE stops + 1
      BY <1>0, <3>1 DEF Within
    <3>3. ASSUME NEW w \in Wheel, last_command'[w] # 0
          PROVE  Abs(last_command'[w]) + stops' * Ramp =< MaxWheel
      <4> DEFINE last == last_command[w]
      <4>1. last \in Int /\ target[w] = 0
        BY <2>5 DEF DriveInv, Still
      <4>2. ~(Abs(last) =< Ramp) /\ Abs(last_command'[w]) = Abs(last) - Ramp
        <5>1. last_command'[w] = Ramped(last, target[w])
          BY <2>1
        <5> HIDE DEF last
        <5>2. IF Abs(last) =< Ramp THEN Ramped(last, target[w]) = 0
              ELSE Abs(Ramped(last, target[w])) = Abs(last) - Ramp
          BY <4>1, RampedMeaning
        <5> QED BY <3>3, <5>1, <5>2
      <4>3. Abs(last) + stops * Ramp =< MaxWheel /\ Abs(last) \in Nat
        BY <1>0, <4>1, <4>2 DEF DriveInv, StoppedInTime, Abs
      <4>4. stops # MaxWheel
        <5>1. SUFFICES ASSUME stops = MaxWheel PROVE FALSE
          OBVIOUS
        <5>2. MaxWheel * Ramp >= MaxWheel
          BY <1>0
        <5> HIDE DEF last
        <5> QED BY <1>0, <4>2, <4>3, <5>1, <5>2
      <4>5. stops' * Ramp = stops * Ramp + Ramp
        BY <1>0, <3>1, <3>2, <4>4
      <4>6. stops * Ramp \in Nat
        BY <1>0, <3>1
      <4> HIDE DEF last
      <4> QED BY <1>0, <4>2, <4>3, <4>5, <4>6
    <3>4. StoppedInTime'
      BY <3>3 DEF StoppedInTime, Abs
    <3> QED BY <1>0, <1>2, <2>2, <2>3, <3>1, <3>2, <3>4
  <2> QED BY <2>4, <2>5
<1> QED BY <1>1, <1>2

LEMMA SteerTarget ==
  ASSUME DriveInv, NEW h \in Int, NEW d \in Int, Steer(h, d)
  PROVE  /\ heading_controller' \in State /\ distance_controller' \in State
         /\ \E target \in [Wheel -> Int] : SendWheels(target)
<1> DEFINE factor == HeadingFactor(h)
           scaled == Quotient(d * factor, 10)
           omega == PidOutput(heading_controller, HeadingGains, h)
           out == PidOutput(distance_controller, DistanceGains, scaled)
           v == Quotient(out * factor, 10)
<1>1. factor \in Int
  BY DEF HeadingFactor, Abs
<1>2. scaled \in Int
  BY <1>1, QuotientInt
<1>3. /\ omega \in Int /\ out \in Int
      /\ PidUpdate(heading_controller, HeadingGains, h) \in State
      /\ PidUpdate(distance_controller, DistanceGains, scaled) \in State
  BY <1>2, PidInt, DriveAssumption DEF DriveInv
<1>4. v \in Int
  BY <1>1, <1>3, QuotientInt
<1>5. /\ heading_controller' = PidUpdate(heading_controller, HeadingGains, h)
      /\ distance_controller' = PidUpdate(distance_controller, DistanceGains, scaled)
      /\ SendWheels(ClampWheels(FromUnicycle(v, omega)))
  BY DEF Steer
<1> HIDE DEF factor, scaled, omega, out, v
<1> QED BY <1>3, <1>4, <1>5, WheelsInt

LEMMA EmergencyStep ==
  ASSUME DriveInv, EmergencyStop PROVE DriveInv' /\ RampStep
BY DriveAssumption DEF EmergencyStop, DriveInv, controllers, Still, StoppedInTime, RampStep,
                       Abs, State

LEMMA NextDrive ==
  ASSUME DriveInv, [DriveNext]_driveVars PROVE DriveInv' /\ (RampStep \/ UNCHANGED driveVars)
<1>1. ASSUME NEW target \in [Wheel -> Int], SendWheels(target),
             heading_controller' \in State, distance_controller' \in State
      PROVE  DriveInv' /\ RampStep
  BY <1>1, SendStep DEF DriveInv, RampStep
<1>2. Still \in [Wheel -> Int] /\ Fresh \in State
  BY DEF Still, Fresh, State
<1>3. ASSUME NEW h \in HeadingError, NEW d \in DistanceError, Steer(h, d)
      PROVE  DriveInv' /\ RampStep
  BY <1>1, <1>3, SteerTarget, DriveAssumption
<1>4. ASSUME NEW t \in [Wheel -> Target], Command(t) PROVE DriveInv' /\ RampStep
  <2>1. t \in [Wheel -> Int]
    BY DriveAssumption
  <2> QED BY <1>1, <1>4, <2>1 DEF Command, controllers, DriveInv
<1>5. CASE StopMotors \/ Shutdown
  BY <1>1, <1>2, <1>5 DEF StopMotors, Command, Shutdown, controllers, DriveInv
<1>6. CASE UNCHANGED <<last_command, stops>> /\ (ResetControllers \/ StartMotors)
  <2>1. heading_controller' \in State /\ distance_controller' \in State
    BY <1>2, <1>6 DEF ResetControllers, StartMotors, controllers, DriveInv
  <2>2. \A w \in Wheel : Abs(last_command'[w] - last_command[w]) =< Ramp
    BY <1>6, DriveAssumption DEF DriveInv, Abs
  <2>3. StoppedInTime'
    BY <1>6 DEF DriveInv, StoppedInTime, Abs
  <2> QED BY <1>6, <2>1, <2>2, <2>3 DEF DriveInv, RampStep
<1>7. CASE UNCHANGED driveVars
  BY <1>7 DEF DriveInv, StoppedInTime, Abs, driveVars, controllers, driver
<1> QED BY <1>3, <1>4, <1>5, <1>6, <1>7, EmergencyStep
        DEF DriveNext, ResetControllers, StartMotors, driver

\* What the wheels do and how many stops they had, inductive for any errors.
THEOREM DriveInductive == DriveSpec => []DriveInv
<1>1. DriveInit => DriveInv
  BY DriveAssumption DEF DriveInit, DriveInv, Fresh, State, Still, StoppedInTime, Abs
<1>2. DriveInv /\ [DriveNext]_driveVars => DriveInv'
  BY NextDrive
<1> QED BY <1>1, <1>2, PTL DEF DriveSpec

\* Whatever the controller computes, the wheels keep to the hardware's speed
\* and ramp and stop within MaxWheel / Ramp stop commands.
THEOREM SpeedsAreRamped == DriveSpec => SpeedsRamped
<1>1. DriveInv /\ [DriveNext]_driveVars => [RampStep]_driveVars
  BY NextDrive
<1>2. DriveInv => StoppedInTime
  BY DEF DriveInv
<1> QED BY <1>1, <1>2, DriveInductive, PTL DEF DriveSpec, SpeedsRamped

\* The types of the controllers and the driver: the integrals stay within the
\* gains' bounds, the wheels within the hardware's speed.
THEOREM DriveTypes == DriveSpec => []DriveTypeOK
<1> DEFINE Rest == /\ heading_controller \in Controller(HeadingGains)
                   /\ distance_controller \in Controller(DistanceGains)
                   /\ powered \in BOOLEAN /\ e_stop \in BOOLEAN
<1>1. HeadingGains.int \in Nat /\ DistanceGains.int \in Nat
  BY DriveAssumption DEF Gains
<1>2. Fresh \in Controller(HeadingGains) /\ Fresh \in Controller(DistanceGains)
  BY <1>1 DEF Fresh, Controller
<1>3. DriveInit => Rest
  BY <1>2 DEF DriveInit
<1>4. DriveInv /\ Rest /\ [DriveNext]_driveVars => Rest'
  <2> SUFFICES ASSUME DriveInv, Rest, [DriveNext]_driveVars PROVE Rest'
    OBVIOUS
  <2>1. ASSUME NEW gains \in Gains, NEW c \in State, NEW error \in Int
        PROVE  PidUpdate(c, gains, error) \in Controller(gains)
    <3>1. gains.int \in Nat /\ QMul(error, Dt) \in Int
      BY MulInt, DriveAssumption DEF Gains
    <3>2. QAdd(c.integral, QMul(error, Dt)) \in Int
      BY <3>1, AddInt DEF State
    <3>3. Integral(c, gains, error) \in -gains.int .. gains.int
      BY <3>1, <3>2, WithinInt DEF Integral
    <3> QED BY <3>3 DEF PidUpdate, Controller
  <2>2. ASSUME NEW target, SendWheels(target), powered' \in BOOLEAN, UNCHANGED controllers
        PROVE  Rest'
    BY <2>2 DEF SendWheels, controllers
  <2>3. ASSUME NEW h \in HeadingError, NEW d \in DistanceError, Steer(h, d) PROVE Rest'
    <3> DEFINE scaled == Quotient(d * HeadingFactor(h), 10)
    <3>1. HeadingFactor(h) \in Int
      BY DriveAssumption DEF HeadingFactor, Abs
    <3>2. scaled \in Int /\ h \in Int
      BY <3>1, QuotientInt, DriveAssumption
    <3>3. /\ heading_controller' = PidUpdate(heading_controller, HeadingGains, h)
          /\ distance_controller' = PidUpdate(distance_controller, DistanceGains, scaled)
          /\ powered' = powered /\ e_stop' \in BOOLEAN
      BY <2>3 DEF Steer, SendWheels
    <3> HIDE DEF scaled
    <3> QED BY <2>1, <3>2, <3>3, DriveAssumption DEF DriveInv
  <2>4. CASE (\E t \in [Wheel -> Target] : Command(t)) \/ StopMotors \/ Shutdown
    BY <2>2, <2>4 DEF Command, StopMotors, Shutdown
  <2>5. CASE ResetControllers \/ StartMotors \/ EmergencyStop \/ UNCHANGED driveVars
    BY <1>2, <2>5 DEF ResetControllers, StartMotors, EmergencyStop, driveVars, driver, controllers
  <2> QED BY <2>3, <2>4, <2>5 DEF DriveNext
<1>5. DriveInv /\ Rest => DriveTypeOK
  BY Bounded, DriveAssumption DEF DriveInv, DriveTypeOK, Abs
<1> QED BY <1>3, <1>4, <1>5, DriveInductive, PTL DEF DriveSpec

-----------------------------------------------------------------------------
(* Localizer                                                               *)

\* While the pose is called fused, the counter of steps without lidar has not
\* wrapped and is the age of the last correction.
PoseInv ==
  /\ x \in Int /\ y \in Int
  /\ mode = "Fused" => dead_reckoning_ticks = scanAge /\ scanAge \in 0 .. MaxDead

-----------------------------------------------------------------------------
(* Division by a variable.                                                 *)

LEMMA Division ==
  ASSUME NEW a \in Int, NEW d \in Nat \ {0}
  PROVE  /\ a \div d \in Int /\ a % d \in 0 .. d - 1
         /\ d * (a \div d) =< a /\ a < d * (a \div d) + d
OBVIOUS

LEMMA Remainder ==
  ASSUME NEW a \in Int, NEW d \in Nat \ {0} PROVE a = d * (a \div d) + (a % d)
OBVIOUS

LEMMA SmallMod == ASSUME NEW k \in Nat, NEW n \in Nat, k < n PROVE k % n = k
<1>1. n > 0
  OBVIOUS
<1> QED BY <1>1

LEMMA Quotients ==
  ASSUME NEW a \in Int, NEW d \in Nat \ {0}, NEW q \in Int, d * q =< a, a < d * q + d
  PROVE  a \div d = q
<1> DEFINE p == a \div d
<1>1. p \in Int /\ d * p =< a /\ a < d * p + d
  BY Division
<1> HIDE DEF p
<1>2. d * (p - q) < d /\ d * (q - p) < d
  BY <1>1
<1>3. p - q < 1
  <2>1. CASE p - q >= 1
    <3>1. d * (p - q) >= d
      BY <1>1, <2>1
    <3> QED BY <1>1, <1>2, <3>1
  <2> QED BY <1>1, <2>1
<1>4. q - p < 1
  <2>1. CASE q - p >= 1
    <3>1. d * (q - p) >= d
      BY <1>1, <2>1
    <3> QED BY <1>1, <1>2, <3>1
  <2> QED BY <1>1, <2>1
<1>5. p = q
  BY <1>1, <1>3, <1>4
<1> QED BY <1>5 DEF p

\* A cell number comes apart into the column and the row it was made of.
LEMMA CellParts ==
  ASSUME NEW column \in 0 .. GridWidth - 1, NEW row \in Nat
  PROVE  /\ (row * GridWidth + column) \div GridWidth = row
         /\ (row * GridWidth + column) % GridWidth = column
<1> DEFINE cell == row * GridWidth + column
<1>1. GridWidth \in Nat \ {0} /\ cell \in Int /\ GridWidth * row = row * GridWidth
  BY LocalizerAssumption
<1>2. cell \div GridWidth = row
  BY <1>1, Quotients
<1>3. cell = GridWidth * (cell \div GridWidth) + (cell % GridWidth)
  <2> HIDE DEF cell
  <2> QED BY <1>1, Remainder
<1>4. cell % GridWidth \in Int
  BY <1>1, Division
<1>5. cell % GridWidth = column
  BY <1>1, <1>2, <1>3, <1>4
<1> QED BY <1>2, <1>5

-----------------------------------------------------------------------------
LEMMA AlongMeaning ==
  ASSUME NEW p \in Int
  PROVE  /\ Along(p) \in Nat /\ p < CellSize * Along(p) + CellSize
         /\ p >= 0 => CellSize * Along(p) =< p
         /\ p < 0 => Along(p) = 0
<1>1. CellSize \in Nat \ {0}
  BY LocalizerAssumption
<1>2. CASE p < 0
  BY <1>1, <1>2 DEF Along
<1>3. CASE p >= 0
  <2>1. p \div CellSize \in Int /\ CellSize * (p \div CellSize) =< p
        /\ p < CellSize * (p \div CellSize) + CellSize
    BY <1>1, Division
  <2> DEFINE q == p \div CellSize
  <2>2. q >= 0
    <3> HIDE DEF q
    <3>1. SUFFICES ASSUME q =< -1 PROVE FALSE
      BY <2>1 DEF q
    <3>2. CellSize * q =< -CellSize
      BY <1>1, <2>1, <3>1 DEF q
    <3> QED BY <1>1, <1>3, <2>1, <3>2 DEF q
  <2> QED BY <1>3, <2>1, <2>2 DEF Along
<1> QED BY <1>2, <1>3

\* A pull towards the centre of one's cell ends in that cell.
LEMMA PulledStays ==
  ASSUME NEW p \in Int
  PROVE  Pulled(p, Along(p)) \in Int /\ Along(Pulled(p, Along(p))) = Along(p)
<1> DEFINE n == Along(p)
           low == CellSize * n
           sum == 7 * p + 3 * Centre(n)
           end == sum \div 10
<1>1. /\ CellSize \in Nat \ {0} /\ n \in Nat /\ low \in Int
      /\ p < low + CellSize /\ (p >= 0 => low =< p) /\ (p < 0 => n = 0 /\ low = 0)
  BY LocalizerAssumption, AlongMeaning
<1>2. Centre(n) \in Int /\ low =< Centre(n) /\ Centre(n) < low + CellSize
  <2>1. CellSize \div 2 \in 0 .. CellSize - 1
    BY <1>1
  <2>2. n * CellSize = low
    BY <1>1
  <2> QED BY <1>1, <2>1, <2>2 DEF Centre
<1> HIDE DEF n, low
<1>3. sum \in Int /\ end \in Int /\ 10 * end =< sum /\ sum < 10 * end + 10
  BY <1>1, <1>2
<1> HIDE DEF end
<1>4. end < low + CellSize /\ (p >= 0 => low =< end)
  BY <1>1, <1>2, <1>3
<1>5. Along(end) = n
  <2>1. CASE end >= 0
    <3>1. low =< end
      BY <1>1, <1>4, <2>1
    <3>2. /\ CellSize \in Nat \ {0} /\ n \in Int /\ end \in Int
          /\ CellSize * n =< end /\ end < CellSize * n + CellSize
      BY <1>1, <1>3, <1>4, <3>1 DEF low
    <3>3. end \div CellSize = n
      BY <3>2, Quotients
    <3> QED BY <1>3, <2>1, <3>3 DEF Along
  <2>2. CASE end < 0
    <3>1. p < 0
      <4>1. low >= 0
        BY <1>1 DEF low
      <4> QED BY <1>1, <1>3, <1>4, <2>2, <4>1
    <3> QED BY <1>1, <2>2, <3>1 DEF Along
  <2> QED BY <1>3, <2>1, <2>2
<1>6. Pulled(p, Along(p)) = end
  BY DEF Pulled, n, end
<1> QED BY <1>3, <1>5, <1>6 DEF n

LEMMA StaysInCell ==
  ASSUME PoseInv, CorrectFromLidar, x < GridWidth * CellSize
  PROVE  CellOf(x', y') = CellOf(x, y)
<1>1. GridWidth \in Nat \ {0} /\ CellSize \in Nat \ {0} /\ x \in Int /\ y \in Int
  BY LocalizerAssumption DEF PoseInv
<1>2. Along(x) \in 0 .. GridWidth - 1
  <2> DEFINE n == Along(x)
  <2>1. n \in Nat /\ (x >= 0 => CellSize * n =< x) /\ (x < 0 => n = 0)
    BY <1>1, AlongMeaning
  <2> HIDE DEF n
  <2>2. n < GridWidth
    <3>1. CASE x < 0
      BY <1>1, <2>1, <3>1
    <3>2. CASE x >= 0
      <4>1. SUFFICES ASSUME n >= GridWidth PROVE FALSE
        BY <1>1, <2>1
      <4>2. CellSize * n >= CellSize * GridWidth
        BY <1>1, <2>1, <4>1
      <4>3. CellSize * GridWidth = GridWidth * CellSize
        BY <1>1
      <4> QED BY <1>1, <2>1, <3>2, <4>2, <4>3
    <3> QED BY <1>1, <3>1, <3>2
  <2> QED BY <1>1, <2>1, <2>2 DEF n
<1>3. Along(y) \in Nat
  BY <1>1, AlongMeaning
<1>4. CellOf(x, y) % GridWidth = Along(x) /\ CellOf(x, y) \div GridWidth = Along(y)
  BY <1>2, <1>3, CellParts DEF CellOf
<1>5. x' = Pulled(x, Along(x)) /\ y' = Pulled(y, Along(y))
  BY <1>4 DEF CorrectFromLidar
<1>6. Along(x') = Along(x) /\ Along(y') = Along(y)
  BY <1>1, <1>5, PulledStays
<1> QED BY <1>6 DEF CellOf

LEMMA NextPose ==
  ASSUME PoseInv, [LocalizerNext]_localizerVars PROVE PoseInv'
<1>1. ASSUME NEW n \in Int PROVE Centre(n) \in Int /\ \A p \in Int : Pulled(p, n) \in Int
  BY LocalizerAssumption DEF Centre, Pulled
<1>2. CASE ResetPose
  <2>1. PICK cell \in 0 .. GridWidth * GridHeight - 1 : PlacedAt(cell)
    BY <1>2 DEF ResetPose
  <2>2. cell \in Int /\ cell % GridWidth \in Int /\ cell \div GridWidth \in Int
    BY LocalizerAssumption, Division
  <2> QED BY <1>1, <2>1, <2>2, LocalizerAssumption DEF PlacedAt, PoseInv
<1>3. CASE UpdateOdometry
  <2>1. x' \in Int /\ y' \in Int
    BY <1>3, LocalizerAssumption DEF UpdateOdometry, PoseInv
  <2>2. ASSUME mode' = "Fused"
        PROVE  dead_reckoning_ticks' = scanAge' /\ scanAge' \in 0 .. MaxDead
    <3>1. mode = "Fused" /\ ~(dead_reckoning_ticks' > MaxDead)
      BY <1>3, <2>2 DEF UpdateOdometry, ModeAfter
    <3>2. dead_reckoning_ticks = scanAge /\ scanAge \in 0 .. MaxDead
      BY <3>1 DEF PoseInv
    <3>3. dead_reckoning_ticks' = scanAge + 1
      BY <1>3, <3>2, SmallMod, LocalizerAssumption DEF UpdateOdometry
    <3> QED BY <1>3, <3>1, <3>2, <3>3, LocalizerAssumption DEF UpdateOdometry, Below
  <2> QED BY <2>1, <2>2 DEF PoseInv
<1>4. CASE CorrectFromLidar
  <2>1. CellOf(x, y) \in Int
    BY AlongMeaning, LocalizerAssumption DEF CellOf, PoseInv
  <2>2. CellOf(x, y) % GridWidth \in Int /\ CellOf(x, y) \div GridWidth \in Int
    BY <2>1, LocalizerAssumption, Division
  <2> QED BY <1>1, <1>4, <2>2, LocalizerAssumption DEF CorrectFromLidar, PoseInv
<1>5. CASE UNCHANGED localizerVars
  BY <1>5 DEF localizerVars, PoseInv
<1> QED BY <1>2, <1>3, <1>4, <1>5 DEF LocalizerNext

\* The pose, its mode and the age of the last correction, inductive.
THEOREM PoseInductive == LocalizerSpec => []PoseInv
<1>1. LocalizerInit => PoseInv
  <2> SUFFICES ASSUME LocalizerInit PROVE PoseInv
    OBVIOUS
  <2>1. PICK cell \in 0 .. GridWidth * GridHeight - 1 :
          x = Centre(cell % GridWidth) /\ y = Centre(cell \div GridWidth)
    BY DEF LocalizerInit
  <2>2. cell \in Int /\ cell % GridWidth \in Int /\ cell \div GridWidth \in Int
    BY LocalizerAssumption, Division
  <2> QED BY <2>1, <2>2, LocalizerAssumption DEF Centre, PoseInv, LocalizerInit
<1>2. PoseInv /\ [LocalizerNext]_localizerVars => PoseInv'
  BY NextPose
<1> QED BY <1>1, <1>2, PTL DEF LocalizerSpec

\* A pose called fused rests on a recent correction, and a correction leaves
\* the agent in its cell.
THEOREM PoseIsFused == LocalizerSpec => FusedPose
<1>1. PoseInv /\ [LocalizerNext]_localizerVars => CorrectionStays
  BY StaysInCell DEF CorrectionStays
<1>2. PoseInv => FusedIsRecent
  BY LocalizerAssumption DEF PoseInv, FusedIsRecent
<1> QED BY <1>1, <1>2, PoseInductive, PTL DEF LocalizerSpec, FusedPose

\* The types of the localizer; its counter wraps within its width.
THEOREM LocalizerTypes == LocalizerSpec => []LocalizerTypeOK
<1> DEFINE Rest == /\ mode \in {"Fused", "DeadReckoning"}
                   /\ dead_reckoning_ticks \in 0 .. CounterSpace - 1
                   /\ scanAge \in 0 .. MaxDead + 1
<1>1. MaxDead \in Nat /\ CounterSpace \in Nat \ {0}
  BY LocalizerAssumption
<1>2. LocalizerInit => Rest
  BY <1>1 DEF LocalizerInit
<1>3. Rest /\ [LocalizerNext]_localizerVars => Rest'
  <2> SUFFICES ASSUME Rest, [LocalizerNext]_localizerVars PROVE Rest'
    OBVIOUS
  <2>1. CASE ResetPose \/ CorrectFromLidar \/ UNCHANGED localizerVars
    BY <1>1, <2>1 DEF ResetPose, PlacedAt, CorrectFromLidar, localizerVars
  <2>2. CASE UpdateOdometry
    <3>1. (dead_reckoning_ticks + 1) % CounterSpace \in 0 .. CounterSpace - 1
      BY <1>1, Division
    <3> QED BY <1>1, <2>2, <3>1 DEF UpdateOdometry, ModeAfter, Below
  <2> QED BY <2>1, <2>2 DEF LocalizerNext
<1>4. PoseInv /\ Rest => LocalizerTypeOK
  BY DEF PoseInv, LocalizerTypeOK
<1> QED BY <1>2, <1>3, <1>4, PoseInductive, PTL DEF LocalizerSpec

-----------------------------------------------------------------------------
(* Interlock: the safety half of TripStops.                                *)

\* The types of the listener; it is done exactly when its pins are released,
\* and once the motors' pin has left high it never returns.  No fairness is
\* needed.
THEOREM InterlockTypes ==
  InterlockInit /\ [][InterlockNext]_interlockVars =>
    /\ []InterlockTypeOK
    /\ [](listener = "done" <=> motor_pin = "released")
    /\ [][motor_pin # "high" => motor_pin' # "high"]_interlockVars
<1> DEFINE Flags == edge \in BOOLEAN /\ receiver \in BOOLEAN
           Room == alerts \in 0 .. AlertCapacity
           Pin == /\ listener \in {"looping", "polling", "failed", "tripped", "alerting", "done"}
                  /\ motor_pin = IF listener = "alerting" THEN "low"
                                 ELSE IF listener = "done" THEN "released" ELSE "high"
<1>1. InterlockInit => Flags /\ Room /\ Pin
  <2> SUFFICES ASSUME InterlockInit PROVE Flags /\ Room /\ Pin
    OBVIOUS
  <2>1. Flags
    BY Zenon DEF InterlockInit
  <2>2. Room
    BY InterlockAssumption DEF InterlockInit
  <2>3. Pin
    BY DEF InterlockInit
  <2> QED BY <2>1, <2>2, <2>3
<1>2. ASSUME Flags, Room, Pin, [InterlockNext]_interlockVars
      PROVE  Flags' /\ Room' /\ Pin' /\ (motor_pin # "high" => motor_pin' # "high")
  <2> USE DEF Listen, Poll, PollReturns, AfterEdge, SetLow, SendAlert, FallingEdge, TakeAlert,
              ReceiverGone, interlockVars
  <2>1. Flags'
    BY <1>2, Zenon DEF InterlockNext
  <2>2. Room'
    BY <1>2, InterlockAssumption DEF InterlockNext
  <2>3. Pin' /\ (motor_pin # "high" => motor_pin' # "high")
    BY <1>2 DEF InterlockNext
  <2> QED BY <2>1, <2>2, <2>3
<1>3. Flags /\ Room /\ Pin => InterlockTypeOK /\ (listener = "done" <=> motor_pin = "released")
  BY DEF InterlockTypeOK
<1> QED BY <1>1, <1>2, <1>3, PTL
=============================================================================
