----------------------------- MODULE IntentLock -----------------------------
(***************************************************************************)
(* IntentLockManager (src/network/consensus.rs): before an agent executes  *)
(* a trajectory it locks every (cell, interval) of it by a two-phase       *)
(* commit with the peers in its lock radius.                               *)
(*                                                                         *)
(*   prepare -> PREPARE -> handle_prepare -> ACK_PROMISE -> receive_ack    *)
(*           -> commit / abort -> COMMIT / ABORT -> handle_commit / _abort *)
(*                                                                         *)
(* Every agent runs one manager; an action of this module is one call of a *)
(* public method of one manager, made by that agent's (external) driver.   *)
(* The datagram network is four sets of messages addressed to one peer     *)
(* each: messages overtake each other, a lost message is one that is never *)
(* received, and with Duplicating a received message may stay and arrive   *)
(* again.                                                                  *)
(*                                                                         *)
(* A HashMap<TransactionId, Vec<lock>> is flattened to the set of its      *)
(* locks, each the record [txn, req]; a trajectory is never empty, and gc  *)
(* drops entries that became empty, so no entry is lost by this.           *)
(***************************************************************************)
EXTENDS SpaceTime, FiniteSets, Sequences

CONSTANTS
  Agent,          \* agents of the fleet
  Cell,           \* cells of the grid
  Peers,          \* Peers[a]: the agents a sends its PREPAREs to
  Plans,          \* Plans[a]: the trajectories a's planner can hand over
  MaxLockCells,   \* MAX_LOCK_CELLS: locks kept per request (256)
  MaxWireLocks,   \* locks a PREPARE datagram carries (255)
  PrepareTimeout, \* PREPARE_TIMEOUT_TICKS (10)
  Duplicating,    \* may the network deliver a message more than once?
  NoTxn,          \* no pending transaction (Option::None)
  MaxClock,       \* bound: no PREPARE and no duplicate once a clock is here
  MaxInFlight,    \* bound: no PREPARE while more messages are in flight
  MaxTick         \* bound: the model's last tick

Request == {r \in [cell : Cell, t_start : Nat, t_end : Nat] : r.t_start =< r.t_end}
TransactionId == [agent : Agent, timestamp : Nat]
Lock == [txn : TransactionId, req : Request]

PendingTransaction ==
  [txn : TransactionId, locks : SUBSET Request, sent_tick : Nat,
   expected : Nat, accepted : Nat, from : SUBSET Agent,
   outcome : {"Pending", "Aborted"}]

ASSUME PeersAssumption ==
  Peers \in [Agent -> SUBSET Agent] /\ \A a \in Agent : a \notin Peers[a]
ASSUME AgentAssumption == IsFiniteSet(Agent)
ASSUME PlansAssumption ==
  \A a \in Agent : \A s \in Plans[a] : s \in Seq(Request) /\ s # <<>>
ASSUME BoundsAssumption ==
  /\ MaxLockCells \in Nat /\ MaxWireLocks \in Nat /\ MaxWireLocks =< MaxLockCells
  /\ PrepareTimeout \in Nat /\ MaxClock \in Nat /\ MaxInFlight \in Nat
  /\ MaxTick \in Nat
  /\ Duplicating \in BOOLEAN
ASSUME NoTxnAssumption == NoTxn \notin PendingTransaction

VARIABLES
  clock,            \* clock[a]: LamportClock.counter
  pending,          \* pending[a]: the outbound transaction, or NoTxn
  own_committed,    \* own_committed[a]: locks a holds
  foreign_locks,    \* foreign_locks[a]: locks a knows others hold
  foreign_prepared, \* foreign_prepared[a]: locks a promised to others
  verdict,          \* verdict[a]: what a's driver was last told of pending[a]
  prepares, acks, commits, aborts,  \* messages in flight
  now               \* tick, synchronised across the fleet

tables == <<own_committed, foreign_locks, foreign_prepared>>
net == <<prepares, acks, commits, aborts>>
vars == <<clock, pending, tables, verdict, net, now>>

PrepareMsg == [to : Agent, txn : TransactionId, lamport_ts : Nat, locks : SUBSET Request]
AckMsg == [to : Agent, txn : TransactionId, responder : Agent, lamport_ts : Nat,
           accepted : BOOLEAN]
DecisionMsg == [to : Agent, txn : TransactionId, lamport_ts : Nat]

-----------------------------------------------------------------------------
(* Helpers *)

\* Definitions named ...Bug are faulty variants of the definition that follows
\* them; no action uses them.  They show that a property can fail.

SendTimestampBug(counter) == counter

\* LamportClock::send_timestamp
SendTimestamp(counter) == counter + 1

\* LamportClock::receive
Receive(counter, remote) == (IF counter > remote THEN counter ELSE remote) + 1

\* The first n requests of a trajectory, as a set.
First(n, s) == {s[i] : i \in {j \in DOMAIN s : j =< n}}

Locks(txn, reqs) == {[txn |-> txn, req |-> r] : r \in reqs}
Of(txn, locks) == {l \in locks : l.txn = txn}
Without(txn, locks) == {l \in locks : l.txn # txn}
LiveAtBug(t, locks) == {l \in locks : l.req.t_start > t}
LiveAt(t, locks) == {l \in locks : l.req.t_end > t}

\* Everything manager z has been told about the locks of others.
Known(z) == foreign_prepared[z] \cup foreign_locks[z]

HasConflictBug(z, reqs, requester) ==
  \E r \in reqs : \E l \in own_committed[z] : Clash(l.req, r)

\* has_conflict.  What the manager itself is asking for (pending) is not
\* looked at, and neither is anything recorded for the requesting agent.
HasConflict(z, reqs, requester) ==
  \E r \in reqs :
    \/ \E l \in own_committed[z] : Clash(l.req, r)
    \/ \E l \in Known(z) : l.txn.agent # requester /\ Clash(l.req, r)

\* What remains of the messages S once z has received m.
AfterDelivery(S, m, z) ==
  IF Duplicating /\ clock[z] < MaxClock THEN S ELSE S \ {m}

EnoughBug(accepted, expected) == accepted + 1 >= expected
Enough(accepted, expected) == accepted >= expected

TimedOutBug(p) == now - p.sent_tick = PrepareTimeout
TimedOut(p) == now - p.sent_tick >= PrepareTimeout

AbortedBug(p) == [p EXCEPT !.outcome = "Committed"]

\* The pending transaction p after one more accepted reply, and after a
\* refusal or the timeout.
Counted(p, responder) == [p EXCEPT !.accepted = @ + 1, !.from = @ \cup {responder}]
Aborted(p) == [p EXCEPT !.outcome = "Aborted"]

-----------------------------------------------------------------------------
Init ==
  /\ clock = [a \in Agent |-> 0]
  /\ pending = [a \in Agent |-> NoTxn]
  /\ own_committed = [a \in Agent |-> {}]
  /\ foreign_locks = [a \in Agent |-> {}]
  /\ foreign_prepared = [a \in Agent |-> {}]
  /\ verdict = [a \in Agent |-> "none"]
  /\ prepares = {} /\ acks = {} /\ commits = {} /\ aborts = {}
  /\ now = 0

\* prepare(), with PreparePayload::to_bytes and the broadcast to the peers.
\* Nothing a promised to others or holds itself is consulted.
Prepare(a, trajectory) ==
  /\ pending[a] = NoTxn
  /\ clock[a] < MaxClock
  /\ Cardinality(prepares) + Cardinality(acks) + Cardinality(commits \cup aborts) =< MaxInFlight
  /\ now + PrepareTimeout =< MaxTick
  /\ \A i \in DOMAIN trajectory : trajectory[i].t_start >= now
  /\ LET ts == SendTimestamp(clock[a])
         txn == [agent |-> a, timestamp |-> ts]
     IN  /\ clock' = [clock EXCEPT ![a] = ts]
         /\ pending' = [pending EXCEPT ![a] =
              [txn |-> txn, locks |-> First(MaxLockCells, trajectory),
               sent_tick |-> now, expected |-> Cardinality(Peers[a]),
               accepted |-> 0, from |-> {}, outcome |-> "Pending"]]
         /\ prepares' = prepares \cup
              {[to |-> z, txn |-> txn, lamport_ts |-> ts,
                locks |-> First(MaxWireLocks, trajectory)] : z \in Peers[a]}
  /\ verdict' = [verdict EXCEPT ![a] = "none"]
  /\ UNCHANGED <<tables, acks, commits, aborts, now>>

\* handle_prepare(), and the reply.
HandlePrepare(m) ==
  LET z == m.to
      ts == SendTimestamp(Receive(clock[z], m.lamport_ts))
      conflicts == HasConflict(z, m.locks, m.txn.agent)
  IN  /\ clock' = [clock EXCEPT ![z] = ts]
      /\ foreign_prepared' =
           IF conflicts THEN foreign_prepared
           ELSE [foreign_prepared EXCEPT ![z] = Without(m.txn, @) \cup Locks(m.txn, m.locks)]
      /\ acks' = acks \cup {[to |-> m.txn.agent, txn |-> m.txn, responder |-> z,
                             lamport_ts |-> ts, accepted |-> ~conflicts]}
      /\ prepares' = AfterDelivery(prepares, m, z)
      /\ UNCHANGED <<pending, own_committed, foreign_locks, verdict, commits, aborts, now>>

\* receive_ack().  An ACK of another transaction, or of one already resolved,
\* only advances the clock.  With the last ACK the driver is told Committed
\* while the outcome stays Pending until it calls commit().
ReceiveAck(k) ==
  LET a == k.to
      p == pending[a]
      counts == p # NoTxn /\ p.txn = k.txn /\ p.outcome = "Pending"
  IN  /\ clock' = [clock EXCEPT ![a] = Receive(@, k.lamport_ts)]
      /\ acks' = AfterDelivery(acks, k, a)
      /\ \/ ~counts /\ UNCHANGED <<pending, verdict>>
         \/ /\ counts /\ k.accepted
            /\ pending' = [pending EXCEPT ![a] = Counted(p, k.responder)]
            /\ verdict' = IF Enough(p.accepted + 1, p.expected)
                          THEN [verdict EXCEPT ![a] = "Committed"] ELSE verdict
         \/ /\ counts /\ ~k.accepted
            /\ pending' = [pending EXCEPT ![a] = Aborted(p)]
            /\ verdict' = [verdict EXCEPT ![a] = "Aborted"]
      /\ UNCHANGED <<tables, prepares, commits, aborts, now>>

Decision(a, ts) ==
  {[to |-> z, txn |-> pending[a].txn, lamport_ts |-> ts] : z \in Peers[a]}

CommitBug(a) ==
  /\ pending[a] # NoTxn
  /\ verdict[a] = "Committed"
  /\ own_committed' =
       [own_committed EXCEPT ![a] = @ \cup Locks(pending[a].txn, pending[a].locks)]
  /\ commits' = commits \cup Decision(a, SendTimestamp(clock[a]))
  /\ UNCHANGED <<clock, pending, verdict, foreign_locks, foreign_prepared, prepares, acks,
                 aborts, now>>

\* commit(), called once receive_ack reported Committed; an agent without
\* peers gets no ACK and commits at once.
Commit(a) ==
  /\ pending[a] # NoTxn
  /\ verdict[a] = "Committed" \/ (verdict[a] = "none" /\ Peers[a] = {})
  /\ clock' = [clock EXCEPT ![a] = SendTimestamp(@)]
  /\ own_committed' =
       [own_committed EXCEPT ![a] = @ \cup Locks(pending[a].txn, pending[a].locks)]
  /\ commits' = commits \cup Decision(a, SendTimestamp(clock[a]))
  /\ pending' = [pending EXCEPT ![a] = NoTxn]
  /\ verdict' = [verdict EXCEPT ![a] = "none"]
  /\ UNCHANGED <<foreign_locks, foreign_prepared, prepares, acks, aborts, now>>

\* abort(), called once the driver was told Aborted.
Abort(a) ==
  /\ pending[a] # NoTxn
  /\ verdict[a] = "Aborted"
  /\ clock' = [clock EXCEPT ![a] = SendTimestamp(@)]
  /\ aborts' = aborts \cup Decision(a, SendTimestamp(clock[a]))
  /\ pending' = [pending EXCEPT ![a] = NoTxn]
  /\ verdict' = [verdict EXCEPT ![a] = "none"]
  /\ UNCHANGED <<tables, prepares, acks, commits, now>>

\* check_timeout()
CheckTimeout(a) ==
  /\ pending[a] # NoTxn
  /\ pending[a].outcome = "Pending"
  /\ TimedOut(pending[a])
  /\ pending' = [pending EXCEPT ![a] = Aborted(pending[a])]
  /\ verdict' = [verdict EXCEPT ![a] = "Aborted"]
  /\ UNCHANGED <<clock, tables, net, now>>

\* handle_commit(): a promise becomes a lock; without one nothing is stored.
HandleCommit(c) ==
  LET z == c.to
      prepared == Of(c.txn, foreign_prepared[z])
  IN  /\ clock' = [clock EXCEPT ![z] = Receive(@, c.lamport_ts)]
      /\ foreign_prepared' = [foreign_prepared EXCEPT ![z] = Without(c.txn, @)]
      /\ foreign_locks' =
           IF prepared = {} THEN foreign_locks
           ELSE [foreign_locks EXCEPT ![z] = Without(c.txn, @) \cup prepared]
      /\ commits' = AfterDelivery(commits, c, z)
      /\ UNCHANGED <<pending, own_committed, verdict, prepares, acks, aborts, now>>

\* handle_abort()
HandleAbort(d) ==
  LET z == d.to
  IN  /\ clock' = [clock EXCEPT ![z] = Receive(@, d.lamport_ts)]
      /\ foreign_prepared' = [foreign_prepared EXCEPT ![z] = Without(d.txn, @)]
      /\ aborts' = AfterDelivery(aborts, d, z)
      /\ UNCHANGED <<pending, own_committed, foreign_locks, verdict, prepares, acks,
                     commits, now>>

\* release_own_locks(): the trajectory is completed.
ReleaseOwnLocks(a, txn) ==
  /\ own_committed' = [own_committed EXCEPT ![a] = Without(txn, @)]
  /\ UNCHANGED <<clock, pending, foreign_locks, foreign_prepared, verdict, net, now>>

\* release_all_own_locks(): battery abort or replan.  The peers are not told.
ReleaseAllOwnLocks(a) ==
  /\ own_committed' = [own_committed EXCEPT ![a] = {}]
  /\ UNCHANGED <<clock, pending, foreign_locks, foreign_prepared, verdict, net, now>>

GcBug(a) ==
  /\ foreign_locks' = [foreign_locks EXCEPT ![a] = LiveAt(now, @)]
  /\ UNCHANGED <<clock, pending, own_committed, foreign_prepared, verdict, net, now>>

\* gc(): forget the foreign locks and promises whose interval is over.
Gc(a) ==
  /\ foreign_locks' = [foreign_locks EXCEPT ![a] = LiveAt(now, @)]
  /\ foreign_prepared' = [foreign_prepared EXCEPT ![a] = LiveAt(now, @)]
  /\ UNCHANGED <<clock, pending, own_committed, verdict, net, now>>

Tick ==
  /\ now < MaxTick
  /\ now' = now + 1
  /\ UNCHANGED <<clock, pending, tables, verdict, net>>

Next ==
  \/ \E a \in Agent :
       \/ \E trajectory \in Plans[a] : Prepare(a, trajectory)
       \/ Commit(a) \/ Abort(a) \/ CheckTimeout(a)
       \/ \E l \in own_committed[a] : ReleaseOwnLocks(a, l.txn)
       \/ ReleaseAllOwnLocks(a)
       \/ Gc(a)
  \/ \E m \in prepares : HandlePrepare(m)
  \/ \E k \in acks : ReceiveAck(k)
  \/ \E c \in commits : HandleCommit(c)
  \/ \E d \in aborts : HandleAbort(d)
  \/ Tick

Spec == Init /\ [][Next]_vars

\* The driver polls every manager: time passes, timeouts are checked, a
\* verdict is acted upon and expired records are collected.  Nothing is
\* assumed of the network.
Fairness ==
  /\ WF_vars(Tick)
  /\ \A a \in Agent : WF_vars(CheckTimeout(a)) /\ WF_vars(Commit(a)) /\ WF_vars(Abort(a))
                      /\ WF_vars(Gc(a))

FairSpec == Spec /\ Fairness

-----------------------------------------------------------------------------
(* Properties *)

\* Every variable keeps its type.
TypeOK ==
  /\ clock \in [Agent -> Nat]
  /\ pending \in [Agent -> PendingTransaction \cup {NoTxn}]
  /\ own_committed \in [Agent -> SUBSET Lock]
  /\ foreign_locks \in [Agent -> SUBSET Lock]
  /\ foreign_prepared \in [Agent -> SUBSET Lock]
  /\ verdict \in [Agent -> {"none", "Committed", "Aborted"}]
  /\ prepares \subseteq PrepareMsg /\ acks \subseteq AckMsg
  /\ commits \subseteq DecisionMsg /\ aborts \subseteq DecisionMsg
  /\ now \in Nat

Live(l) == l.req.t_end > now

\* No two agents ever hold locks on one cell at overlapping times: what the
\* two-phase commit is for (AMR_Plan_Revised.md section 3.2).
LocksExclusive ==
  \A a, b \in Agent : a # b =>
    \A l \in own_committed[a], k \in own_committed[b] :
      Live(l) /\ Live(k) => ~Clash(l.req, k.req)

\* Whatever an agent holds, every peer it asked still knows of, as a promise
\* or as a foreign lock, until the lock lapses: lost and late COMMITs, stray
\* ABORTs and gc never make a peer forget a lock that is held.
CommittedKnown ==
  \A a \in Agent : \A l \in own_committed[a], z \in Peers[a] :
    Live(l) => l \in Known(z)

\* A manager never vouches for two agents at once: what it promised to, or
\* knows is held by, one agent clashes with nothing recorded for another
\* (handle_prepare answers on has_conflict).
PromisesDisjoint ==
  \A z \in Agent : \A l, k \in Known(z) :
    l.txn.agent # k.txn.agent => ~Clash(l.req, k.req)

\* The driver is told Committed only when every peer in the radius accepted
\* the request ("If all ACKs received", doc of IntentLockManager).
AllPeersAcked ==
  \A a \in Agent : verdict[a] = "Committed" =>
    pending[a] # NoTxn /\ pending[a].from = Peers[a]

\* A request that some peer refused never becomes a lock, whatever overtakes
\* the refusal.
RefusedNotCommitted ==
  \A k \in acks : ~k.accepted =>
    \A a \in Agent : Of(k.txn, own_committed[a]) = {}

\* A transaction that a peer records as committed is decided: its coordinator
\* is neither still collecting promises for it nor calling it off.
CommitFinal ==
  \A z \in Agent : \A l \in foreign_locks[z] :
    /\ \A a \in Agent : pending[a] # NoTxn => pending[a].txn # l.txn
    /\ \A d \in aborts : d.txn # l.txn

\* Every transaction identifier of which there is a trace in the fleet.
UsedTxns ==
  (UNION {{l.txn : l \in own_committed[a] \cup Known(a)} : a \in Agent})
    \cup {m.txn : m \in prepares \cup acks \cup commits \cup aborts}

\* prepare() names its transaction with an identifier nobody has seen
\* ("(agent_id, lamport_timestamp) is globally unique").
FreshTxn ==
  \A a \in Agent : pending[a] = NoTxn /\ pending'[a] # NoTxn => pending'[a].txn \notin UsedTxns
TxnIdsFresh == [][FreshTxn]_vars

\* A manager that answered a PREPARE with an ACK holds no lock that clashes
\* with it ("I promise not to lock these cells", doc of AckPromise).
PromiseKept ==
  \A z \in Agent : \A l \in foreign_prepared[z], k \in own_committed[z] :
    Live(l) /\ Live(k) => ~Clash(l.req, k.req)

\* A manager makes no promise that clashes with what it is itself asking for
\* ("conflict with our committed or pending locks", doc of handle_prepare).
PendingRespected ==
  [][\A z \in Agent : pending[z] # NoTxn =>
       \A l \in foreign_prepared'[z] \ foreign_prepared[z], r \in pending[z].locks :
         ~Clash(l.req, r)]_vars

\* Every transaction is decided, however many replies are lost: the timeout
\* ends the collection and the driver acts on the verdict.
PendingResolves ==
  \A a \in Agent : pending[a] # NoTxn ~> pending[a] = NoTxn

\* No manager keeps a lapsed promise or foreign lock for good, even when both
\* COMMIT and ABORT are lost: gc releases what the coordinator forgot.
PromisesLapse == \A w \in Agent : []<>(\A l \in Known(w) : Live(l))

\* The fleet-wide lock register that the protocol implements.
Register == INSTANCE CellLocks WITH held <- own_committed
ImplementsCellLocks == Register!Spec

-----------------------------------------------------------------------------
(* The inductive invariant.  It holds when the network does not duplicate  *)
(* and every trajectory fits a PREPARE datagram; IntentLockProofs proves   *)
(* it, and that it excludes clashing locks once any two agents share a     *)
(* peer.                                                                   *)

TrajectoriesFit == \A a \in Agent : \A s \in Plans[a] : Len(s) =< MaxWireLocks

\* Any two agents have a common peer that arbitrates between them.
CommonArbiter ==
  \A a, b \in Agent : a # b => Peers[a] \cap Peers[b] # {}

IsPending(txn) == \E a \in Agent : pending[a] # NoTxn /\ pending[a].txn = txn

\* A transaction id belongs to its agent and is not ahead of that agent's
\* clock.
Issued(txn) == txn.timestamp =< clock[txn.agent]

IdsIssued ==
  /\ \A a \in Agent : pending[a] # NoTxn => pending[a].txn.agent = a /\ Issued(pending[a].txn)
  /\ \A a \in Agent : \A l \in own_committed[a] : l.txn.agent = a /\ Issued(l.txn)
  /\ \A a \in Agent : \A l \in Known(a) : Issued(l.txn)
  /\ \A m \in prepares \cup acks \cup aborts : Issued(m.txn)

\* A PREPARE in flight goes to a peer, is the only one of its transaction for
\* it, asks for what is pending, and the peer has no record of it yet.
PreparesUnanswered ==
  /\ \A m, n \in prepares : m.txn = n.txn /\ m.to = n.to => m = n
  /\ \A m \in prepares : m.to \in Peers[m.txn.agent]
  /\ \A m \in prepares : \A l \in Known(m.to) : l.txn # m.txn
  /\ \A m \in prepares : \A k \in acks : m.txn = k.txn => m.to # k.responder
  /\ \A m \in prepares, a \in Agent : pending[a] # NoTxn /\ pending[a].txn = m.txn =>
       m.locks = pending[a].locks /\ m.to \notin pending[a].from

\* A reply in flight is the only one of that peer and not counted yet.
AcksUncounted ==
  /\ \A k, h \in acks : k.txn = h.txn /\ k.responder = h.responder => k = h
  /\ \A k \in acks : k.to = k.txn.agent /\ k.responder \in Peers[k.to]
  /\ \A k \in acks, a \in Agent : pending[a] # NoTxn /\ pending[a].txn = k.txn =>
       k.responder \notin pending[a].from

\* The accepted replies are counted once per peer, and all of them before
\* the driver hears Committed.
CountExact ==
  \A a \in Agent :
    /\ pending[a] # NoTxn =>
         /\ pending[a].from \subseteq Peers[a]
         /\ pending[a].accepted = Cardinality(pending[a].from)
         /\ pending[a].expected = Cardinality(Peers[a])
    /\ verdict[a] = "Committed" => pending[a] # NoTxn /\ pending[a].from = Peers[a]

\* A peer that accepted keeps the live locks of the pending request.
Promised(w, txn, reqs) == LiveAt(now, Locks(txn, reqs)) \subseteq Known(w)

AcceptedPromised ==
  \A a \in Agent : pending[a] # NoTxn =>
    /\ \A w \in pending[a].from : Promised(w, pending[a].txn, pending[a].locks)
    /\ \A k \in acks : k.txn = pending[a].txn /\ k.accepted =>
         Promised(k.responder, pending[a].txn, pending[a].locks)

\* A transaction is in one phase only: pending, held or called off; and a
\* peer holds it as a promise or as a lock, not both.
PhasesDisjoint ==
  /\ \A a \in Agent : \A l \in own_committed[a] : ~IsPending(l.txn)
  /\ \A d \in aborts : ~IsPending(d.txn)
  /\ \A d \in aborts, a \in Agent : \A l \in own_committed[a] : l.txn # d.txn
  /\ \A w \in Agent : \A l \in foreign_prepared[w], k \in foreign_locks[w] : l.txn # k.txn

IInv ==
  /\ TypeOK /\ IdsIssued /\ PreparesUnanswered /\ AcksUncounted /\ CountExact
  /\ AcceptedPromised /\ PhasesDisjoint /\ CommittedKnown /\ PromisesDisjoint

=============================================================================
