-------------------------- MODULE IntentLockProofs --------------------------
(***************************************************************************)
(* Proofs about IntentLock, for every fleet, every set of trajectories and *)
(* every value of the bounds.                                              *)
(***************************************************************************)
EXTENDS IntentLock, FiniteSetTheorems, TLAPS

USE PeersAssumption, AgentAssumption, BoundsAssumption DEF SendTimestamp

\* The requests kept of a trajectory are requests, and a trajectory that fits
\* a datagram is sent whole.
LEMMA FirstRequests ==
  ASSUME NEW a \in Agent, NEW s \in Plans[a], NEW n \in Nat
  PROVE  First(n, s) \subseteq Request
BY PlansAssumption DEF First

LEMMA FitsWire ==
  ASSUME TrajectoriesFit, NEW a \in Agent, NEW s \in Plans[a]
  PROVE  First(MaxWireLocks, s) = First(MaxLockCells, s)
<1>1. s \in Seq(Request) /\ Len(s) =< MaxWireLocks
  BY PlansAssumption DEF TrajectoriesFit
<1>2. \A j \in DOMAIN s : j =< MaxWireLocks /\ j =< MaxLockCells
  BY <1>1
<1> QED BY <1>2 DEF First

LEMMA PeersFinite ==
  ASSUME NEW a \in Agent
  PROVE  IsFiniteSet(Peers[a]) /\ Cardinality(Peers[a]) \in Nat
BY FS_Subset, FS_CardinalityType

LEMMA AfterDeliverySubset ==
  ASSUME NEW S, NEW m, NEW w
  PROVE  AfterDelivery(S, m, w) \subseteq S
BY DEF AfterDelivery

\* A reply adds its responder; a refusal or the timeout changes the outcome.
LEMMA CountedFields ==
  ASSUME NEW p \in PendingTransaction, NEW w \in Agent
  PROVE  /\ Counted(p, w) \in PendingTransaction
         /\ Counted(p, w).txn = p.txn /\ Counted(p, w).locks = p.locks
         /\ Counted(p, w).expected = p.expected
         /\ Counted(p, w).accepted = p.accepted + 1
         /\ Counted(p, w).from = p.from \cup {w}
<1> DEFINE n == p.accepted + 1
           f == p.from \cup {w}
<1>1. n \in Nat /\ f \in SUBSET Agent
  BY DEF PendingTransaction
<1>2. [p EXCEPT !.accepted = n, !.from = f] \in PendingTransaction
  <2> HIDE DEF n, f
  <2> QED BY <1>1 DEF PendingTransaction
<1> QED BY <1>2 DEF Counted, PendingTransaction

LEMMA AbortedFields ==
  ASSUME NEW p \in PendingTransaction
  PROVE  /\ Aborted(p) \in PendingTransaction
         /\ Aborted(p).txn = p.txn /\ Aborted(p).locks = p.locks
         /\ Aborted(p).expected = p.expected /\ Aborted(p).accepted = p.accepted
         /\ Aborted(p).from = p.from
BY DEF Aborted, PendingTransaction

\* TypeOK holds initially and no action breaks it.
LEMMA TypeInit == Init => TypeOK
BY DEF Init, TypeOK

LEMMA TypeStep == TypeOK /\ [Next]_vars => TypeOK'
<1> SUFFICES ASSUME TypeOK, [Next]_vars PROVE TypeOK'
  OBVIOUS
<1> USE NoTxnAssumption
<1>1. ASSUME NEW a \in Agent, NEW trajectory \in Plans[a], Prepare(a, trajectory)
      PROVE  TypeOK'
  <2> DEFINE ts == clock[a] + 1
             txn == [agent |-> a, timestamp |-> ts]
             p == [txn |-> txn, locks |-> First(MaxLockCells, trajectory),
                   sent_tick |-> now, expected |-> Cardinality(Peers[a]),
                   accepted |-> 0, from |-> {}, outcome |-> "Pending"]
  <2>1. First(MaxLockCells, trajectory) \subseteq Request
        /\ First(MaxWireLocks, trajectory) \subseteq Request
    BY FirstRequests
  <2>2. ts \in Nat /\ txn \in TransactionId
    BY DEF TypeOK, TransactionId
  <2>3. p \in PendingTransaction
    BY <2>1, <2>2, PeersFinite DEF PendingTransaction, TypeOK
  <2>4. pending' \in [Agent -> PendingTransaction \cup {NoTxn}]
    BY <1>1, <2>3 DEF Prepare, TypeOK
  <2>5. prepares' \subseteq PrepareMsg
    BY <1>1, <2>1, <2>2 DEF Prepare, TypeOK, PrepareMsg
  <2> QED BY <1>1, <2>2, <2>4, <2>5 DEF Prepare, TypeOK, tables
<1>2. ASSUME NEW m \in prepares, HandlePrepare(m) PROVE TypeOK'
  <2> DEFINE w == m.to
             ts == SendTimestamp(Receive(clock[w], m.lamport_ts))
             ack == [to |-> m.txn.agent, txn |-> m.txn, responder |-> w,
                     lamport_ts |-> ts, accepted |-> ~HasConflict(w, m.locks, m.txn.agent)]
  <2>1. m \in PrepareMsg /\ w \in Agent /\ m.txn \in TransactionId
        /\ m.txn.agent \in Agent /\ m.lamport_ts \in Nat /\ m.locks \subseteq Request
    BY DEF TypeOK, PrepareMsg, TransactionId
  <2>2. ts \in Nat
    BY <2>1 DEF TypeOK, Receive
  <2>3. HasConflict(w, m.locks, m.txn.agent) \in BOOLEAN
    BY DEF HasConflict
  <2>4. ack \in AckMsg
    BY <2>1, <2>2, <2>3 DEF AckMsg
  <2>5. Locks(m.txn, m.locks) \subseteq Lock
    BY <2>1 DEF Locks, Lock
  <2>6. foreign_prepared' \in [Agent -> SUBSET Lock]
    BY <1>2, <2>1, <2>5 DEF HandlePrepare, TypeOK, Without
  <2>7. acks' \subseteq AckMsg /\ prepares' \subseteq PrepareMsg
    BY <1>2, <2>4, AfterDeliverySubset DEF HandlePrepare, TypeOK
  <2> QED BY <1>2, <2>1, <2>2, <2>6, <2>7 DEF HandlePrepare, TypeOK
<1>3. ASSUME NEW k \in acks, ReceiveAck(k) PROVE TypeOK'
  <2> DEFINE a == k.to
  <2>1. a \in Agent /\ k.lamport_ts \in Nat /\ k.responder \in Agent
    BY DEF TypeOK, AckMsg
  <2>2. clock' \in [Agent -> Nat]
    BY <1>3, <2>1 DEF ReceiveAck, TypeOK, Receive
  <2>3. acks' \subseteq AckMsg
    BY <1>3, AfterDeliverySubset DEF ReceiveAck, TypeOK
  <2>4. pending' \in [Agent -> PendingTransaction \cup {NoTxn}]
        /\ verdict' \in [Agent -> {"none", "Committed", "Aborted"}]
    <3>1. ASSUME pending[a] # NoTxn
          PROVE  Counted(pending[a], k.responder) \in PendingTransaction
                 /\ Aborted(pending[a]) \in PendingTransaction
      BY <2>1, <3>1, CountedFields, AbortedFields DEF TypeOK
    <3> QED BY <1>3, <2>1, <3>1 DEF ReceiveAck, TypeOK
  <2> QED BY <1>3, <2>2, <2>3, <2>4 DEF ReceiveAck, TypeOK, tables
<1>4. ASSUME NEW a \in Agent, Commit(a) PROVE TypeOK'
  <2>1. pending[a] \in PendingTransaction
    BY <1>4 DEF Commit, TypeOK
  <2>2. Locks(pending[a].txn, pending[a].locks) \subseteq Lock
    BY <2>1 DEF PendingTransaction, Locks, Lock
  <2>3. Decision(a, clock[a] + 1) \subseteq DecisionMsg
    BY <2>1 DEF TypeOK, PendingTransaction, Decision, DecisionMsg
  <2> QED BY <1>4, <2>2, <2>3 DEF Commit, TypeOK
<1>5. ASSUME NEW a \in Agent, Abort(a) PROVE TypeOK'
  <2>1. pending[a] \in PendingTransaction
    BY <1>5 DEF Abort, TypeOK
  <2>2. Decision(a, clock[a] + 1) \subseteq DecisionMsg
    BY <2>1 DEF TypeOK, PendingTransaction, Decision, DecisionMsg
  <2> QED BY <1>5, <2>2 DEF Abort, TypeOK, tables
<1>6. ASSUME NEW a \in Agent, CheckTimeout(a) PROVE TypeOK'
  <2>1. Aborted(pending[a]) \in PendingTransaction
    BY <1>6, AbortedFields DEF CheckTimeout, TypeOK
  <2> QED BY <1>6, <2>1 DEF CheckTimeout, TypeOK, tables, net
<1>7. ASSUME NEW c \in commits, HandleCommit(c) PROVE TypeOK'
  <2>1. c.to \in Agent /\ c.lamport_ts \in Nat
    BY DEF TypeOK, DecisionMsg
  <2>2. commits' \subseteq DecisionMsg
    BY <1>7, AfterDeliverySubset DEF HandleCommit, TypeOK
  <2>3. clock' \in [Agent -> Nat]
    BY <1>7, <2>1 DEF HandleCommit, TypeOK, Receive
  <2>4. foreign_prepared' \in [Agent -> SUBSET Lock] /\ foreign_locks' \in [Agent -> SUBSET Lock]
    BY <1>7, <2>1 DEF HandleCommit, TypeOK, Without, Of
  <2> QED BY <1>7, <2>2, <2>3, <2>4 DEF HandleCommit, TypeOK
<1>8. ASSUME NEW d \in aborts, HandleAbort(d) PROVE TypeOK'
  <2>1. d.to \in Agent /\ d.lamport_ts \in Nat
    BY DEF TypeOK, DecisionMsg
  <2>2. aborts' \subseteq DecisionMsg
    BY <1>8, AfterDeliverySubset DEF HandleAbort, TypeOK
  <2>3. clock' \in [Agent -> Nat]
    BY <1>8, <2>1 DEF HandleAbort, TypeOK, Receive
  <2>4. foreign_prepared' \in [Agent -> SUBSET Lock]
    BY <1>8, <2>1 DEF HandleAbort, TypeOK, Without
  <2> QED BY <1>8, <2>2, <2>3, <2>4 DEF HandleAbort, TypeOK
<1>9. ASSUME NEW a \in Agent, NEW txn, ReleaseOwnLocks(a, txn) PROVE TypeOK'
  BY <1>9 DEF ReleaseOwnLocks, TypeOK, Without, net
<1>10. ASSUME NEW a \in Agent, ReleaseAllOwnLocks(a) PROVE TypeOK'
  BY <1>10 DEF ReleaseAllOwnLocks, TypeOK, net
<1>11. ASSUME NEW a \in Agent, Gc(a) PROVE TypeOK'
  BY <1>11 DEF Gc, TypeOK, LiveAt, net
<1>12. CASE Tick
  BY <1>12 DEF Tick, TypeOK, tables, net
<1>13. CASE UNCHANGED vars
  BY <1>13 DEF vars, TypeOK, tables, net
<1> QED
  BY <1>1, <1>2, <1>3, <1>4, <1>5, <1>6, <1>7, <1>8, <1>9, <1>10, <1>11, <1>12, <1>13
  DEF Next

\* Every variable keeps its type, in every fleet and under every bound.
THEOREM TypeCorrect == Spec => []TypeOK
<1>1. Init => TypeOK
  BY TypeInit
<1>2. TypeOK /\ [Next]_vars => TypeOK'
  BY TypeStep
<1> QED BY <1>1, <1>2, PTL DEF Spec

-----------------------------------------------------------------------------
(* Exclusion.  The network delivers each message at most once and every    *)
(* trajectory fits a PREPARE.                                              *)

Premises == ~Duplicating /\ TrajectoriesFit

LEMMA Delivered ==
  ASSUME Premises, NEW S, NEW m, NEW w
  PROVE  AfterDelivery(S, m, w) = S \ {m}
BY DEF AfterDelivery, Premises

\* A live lock stays live backwards in time.
LEMMA LiveShrinks ==
  ASSUME NEW t \in Nat, NEW txn, NEW reqs, reqs \subseteq Request
  PROVE  LiveAt(t + 1, Locks(txn, reqs)) \subseteq LiveAt(t, Locks(txn, reqs))
BY DEF LiveAt, Locks, Request

\* Every identifier on record is a transaction id, and stays issued while
\* clocks advance.
LEMMA TxnTypes ==
  ASSUME TypeOK
  PROVE  /\ \A b \in Agent : pending[b] # NoTxn => pending[b].txn \in TransactionId
         /\ \A b \in Agent : \A l \in own_committed[b] \cup Known(b) : l.txn \in TransactionId
         /\ \A m \in prepares \cup acks \cup aborts : m.txn \in TransactionId
<1>1. \A b \in Agent : pending[b] # NoTxn => pending[b].txn \in TransactionId
  BY DEF TypeOK, PendingTransaction
<1>2. \A b \in Agent : \A l \in own_committed[b] \cup Known(b) : l.txn \in TransactionId
  BY DEF TypeOK, Known, Lock
<1>3. \A m \in prepares \cup acks \cup aborts : m.txn \in TransactionId
  BY DEF TypeOK, PrepareMsg, AckMsg, DecisionMsg
<1> QED BY <1>1, <1>2, <1>3

LEMMA IssuedGrows ==
  ASSUME TypeOK, \A b \in Agent : clock'[b] \in Nat /\ clock[b] =< clock'[b]
  PROVE  \A txn \in TransactionId : Issued(txn) => Issued(txn)'
BY DEF TypeOK, Issued, TransactionId

LEMMA ClashSymmetric == \A r, s : Clash(r, s) => Clash(s, r)
BY DEF Clash, Overlaps

\* IInv holds initially.
LEMMA IInvInit == Init => IInv
<1> SUFFICES ASSUME Init PROVE IInv
  OBVIOUS
<1>1. TypeOK
  BY TypeInit
<1>2. IdsIssued /\ PreparesUnanswered /\ AcksUncounted
  BY DEF Init, IdsIssued, PreparesUnanswered, AcksUncounted, Known
<1>3. CountExact /\ AcceptedPromised /\ PhasesDisjoint /\ CommittedKnown /\ PromisesDisjoint
  BY DEF Init, CountExact, AcceptedPromised, PhasesDisjoint, CommittedKnown, PromisesDisjoint,
         Known
<1> QED BY <1>1, <1>2, <1>3 DEF IInv

\* A tick only lets locks lapse.
LEMMA TickStep ==
  ASSUME IInv, TypeOK', Tick
  PROVE  IInv'
<1> USE DEF Tick, tables, net, IInv
<1>1. IdsIssued' /\ PreparesUnanswered' /\ AcksUncounted' /\ CountExact'
  BY DEF IdsIssued, Issued, Known, PreparesUnanswered, AcksUncounted, CountExact
<1>2. PhasesDisjoint' /\ PromisesDisjoint'
  BY DEF PhasesDisjoint, IsPending, PromisesDisjoint, Known
<1>3. AcceptedPromised'
  <2> SUFFICES ASSUME NEW a \in Agent, pending[a] # NoTxn, NEW w,
                      Promised(w, pending[a].txn, pending[a].locks)
               PROVE  Promised(w, pending[a].txn, pending[a].locks)'
    BY DEF AcceptedPromised
  <2>1. pending[a].locks \subseteq Request /\ now \in Nat
    BY DEF TypeOK, PendingTransaction
  <2> QED BY <2>1, LiveShrinks DEF Promised, Known
<1>4. CommittedKnown'
  <2> SUFFICES ASSUME NEW a \in Agent, NEW l \in own_committed[a], NEW w \in Peers[a], Live(l)'
               PROVE  l \in Known(w)
    BY DEF CommittedKnown, Known
  <2>1. l.req.t_end \in Nat /\ now \in Nat
    BY DEF TypeOK, Lock, Request
  <2> QED BY <2>1 DEF CommittedKnown, Live
<1> QED BY <1>1, <1>2, <1>3, <1>4

\* gc removes lapsed records only, so no live lock is forgotten.
LEMMA GcStep ==
  ASSUME IInv, TypeOK', NEW w \in Agent, Gc(w)
  PROVE  IInv'
<1> USE DEF Gc, net, IInv
<1>1. \A v \in Agent : /\ Known(v)' \subseteq Known(v)
                       /\ \A l \in Known(v) : Live(l) => l \in Known(v)'
  BY DEF Known, LiveAt, Live, TypeOK
<1>2. IdsIssued'
  BY <1>1 DEF IdsIssued, Issued
<1>3. PreparesUnanswered'
  <2>1. \A m \in prepares : m.to \in Agent
    BY DEF TypeOK, PrepareMsg
  <2> QED BY <1>1, <2>1 DEF PreparesUnanswered
<1>4. AcksUncounted' /\ CountExact'
  BY DEF AcksUncounted, CountExact
<1>5. AcceptedPromised'
  <2>1. \A v \in Agent : \A txn, reqs : Promised(v, txn, reqs) => Promised(v, txn, reqs)'
    BY <1>1 DEF Promised, LiveAt, Live
  <2>2. \A k \in acks : k.responder \in Agent
    BY DEF TypeOK, AckMsg
  <2>3. \A a \in Agent : pending[a] # NoTxn => pending[a].from \subseteq Agent
    BY DEF TypeOK, PendingTransaction
  <2> QED BY <2>1, <2>2, <2>3 DEF AcceptedPromised
<1>6. PhasesDisjoint'
  BY DEF PhasesDisjoint, IsPending, LiveAt, TypeOK
<1>7. CommittedKnown'
  BY <1>1 DEF CommittedKnown, Live
<1>8. PromisesDisjoint'
  BY <1>1 DEF PromisesDisjoint
<1> QED BY <1>2, <1>3, <1>4, <1>5, <1>6, <1>7, <1>8

\* Giving locks up disturbs nobody.
LEMMA ReleaseStep ==
  ASSUME IInv, TypeOK',
         \A b \in Agent : own_committed'[b] \subseteq own_committed[b],
         UNCHANGED <<clock, pending, foreign_locks, foreign_prepared, verdict, net, now>>
  PROVE  IInv'
<1> USE DEF net, IInv
<1>1. IdsIssued' /\ PreparesUnanswered' /\ AcksUncounted' /\ CountExact'
  BY DEF IdsIssued, Issued, Known, PreparesUnanswered, AcksUncounted, CountExact
<1>2. AcceptedPromised' /\ PromisesDisjoint'
  BY DEF AcceptedPromised, Promised, PromisesDisjoint, Known
<1>3. PhasesDisjoint' /\ CommittedKnown'
  BY DEF PhasesDisjoint, IsPending, CommittedKnown, Known, Live
<1> QED BY <1>1, <1>2, <1>3

\* The timeout changes the outcome and the verdict only.
LEMMA CheckTimeoutStep ==
  ASSUME IInv, TypeOK', NEW a \in Agent, CheckTimeout(a)
  PROVE  IInv'
<1> USE DEF CheckTimeout, tables, net, IInv
<1>1. \A b \in Agent : /\ pending'[b] # NoTxn <=> pending[b] # NoTxn
                       /\ pending[b] # NoTxn =>
                            /\ pending'[b].txn = pending[b].txn
                            /\ pending'[b].locks = pending[b].locks
                            /\ pending'[b].from = pending[b].from
                            /\ pending'[b].accepted = pending[b].accepted
                            /\ pending'[b].expected = pending[b].expected
  BY NoTxnAssumption, AbortedFields DEF TypeOK
<1>2. verdict'[a] = "Aborted" /\ \A b \in Agent : b # a => verdict'[b] = verdict[b]
  BY DEF TypeOK
<1>3. \A txn : IsPending(txn)' <=> IsPending(txn)
  BY <1>1 DEF IsPending
<1>4. IdsIssued' /\ PreparesUnanswered' /\ AcksUncounted'
  BY <1>1 DEF IdsIssued, Issued, Known, PreparesUnanswered, AcksUncounted
<1>5. CountExact'
  BY <1>1, <1>2 DEF CountExact
<1>6. AcceptedPromised'
  BY <1>1 DEF AcceptedPromised, Promised, Known
<1>7. PhasesDisjoint' /\ CommittedKnown' /\ PromisesDisjoint'
  BY <1>3 DEF PhasesDisjoint, CommittedKnown, PromisesDisjoint, Known, Live
<1> QED BY <1>4, <1>5, <1>6, <1>7

\* Calling a transaction off: its locks were never held, and no reply to it
\* can count any more.
LEMMA AbortStep ==
  ASSUME IInv, TypeOK', NEW a \in Agent, Abort(a)
  PROVE  IInv'
<1> USE DEF Abort, tables, IInv
<1> DEFINE t == pending[a].txn
<1>1. pending[a] \in PendingTransaction /\ t.agent = a /\ t.timestamp =< clock[a]
  BY DEF TypeOK, IdsIssued, Issued
<1>2. \A b \in Agent : clock'[b] \in Nat /\ clock[b] \in Nat /\ clock[b] =< clock'[b]
  BY DEF TypeOK
<1>3. /\ pending'[a] = NoTxn /\ verdict'[a] = "none"
      /\ \A b \in Agent : b # a => pending'[b] = pending[b] /\ verdict'[b] = verdict[b]
  BY DEF TypeOK
<1>4. \A d \in aborts' : d \in aborts \/ d.txn = t
  BY DEF Decision
<1>5. \A txn : IsPending(txn)' => IsPending(txn) /\ txn # t
  BY <1>1, <1>3 DEF IsPending, IdsIssued
<1>6. IdsIssued'
  <2>1. \A txn \in TransactionId : Issued(txn) => Issued(txn)'
    BY <1>2, IssuedGrows
  <2> QED BY <1>3, <1>4, <2>1, TxnTypes DEF IdsIssued, Known
<1>7. PreparesUnanswered' /\ AcksUncounted'
  BY <1>3 DEF PreparesUnanswered, AcksUncounted, Known
<1>8. CountExact' /\ AcceptedPromised'
  <2>1. \A v, txn, reqs : Promised(v, txn, reqs) <=> Promised(v, txn, reqs)'
    BY DEF Promised, Known
  <2>2. \A b \in Agent : pending'[b] # NoTxn => b # a /\ pending'[b] = pending[b]
    BY <1>3
  <2>3. \A b \in Agent : verdict'[b] = "Committed" => b # a /\ verdict[b] = "Committed"
    BY <1>3
  <2>4. CountExact'
    BY <1>3, <2>2, <2>3 DEF CountExact
  <2>5. AcceptedPromised'
    BY <2>1, <2>2 DEF AcceptedPromised
  <2> QED BY <2>4, <2>5
<1>9. PhasesDisjoint'
  <2>1. \A b \in Agent : \A l \in own_committed[b] : l.txn # t
    BY DEF PhasesDisjoint, IsPending
  <2> QED BY <1>4, <1>5, <2>1 DEF PhasesDisjoint
<1>10. CommittedKnown' /\ PromisesDisjoint'
  BY DEF CommittedKnown, PromisesDisjoint, Known, Live
<1> QED BY <1>6, <1>7, <1>8, <1>9, <1>10

\* Every peer promised what is committed now.
LEMMA CommitStep ==
  ASSUME IInv, TypeOK', NEW a \in Agent, Commit(a)
  PROVE  IInv'
<1> USE DEF Commit, IInv
<1> DEFINE t == pending[a].txn
<1>1. pending[a] \in PendingTransaction /\ t.agent = a /\ t.timestamp =< clock[a]
  BY DEF TypeOK, IdsIssued, Issued
<1>2. \A b \in Agent : clock'[b] \in Nat /\ clock[b] \in Nat /\ clock[b] =< clock'[b]
  BY DEF TypeOK
<1>3. /\ pending'[a] = NoTxn /\ verdict'[a] = "none"
      /\ \A b \in Agent : b # a => pending'[b] = pending[b] /\ verdict'[b] = verdict[b]
  BY DEF TypeOK
<1>4. /\ own_committed'[a] = own_committed[a] \cup Locks(t, pending[a].locks)
      /\ \A b \in Agent : b # a => own_committed'[b] = own_committed[b]
  BY DEF TypeOK
<1>5. \A txn : IsPending(txn)' => IsPending(txn) /\ txn # t
  BY <1>1, <1>3 DEF IsPending, IdsIssued
<1>6. \A l \in Locks(t, pending[a].locks) : l.txn = t
  BY DEF Locks
<1>7. IdsIssued'
  <2>1. \A txn \in TransactionId : Issued(txn) => Issued(txn)'
    BY <1>2, IssuedGrows
  <2>2. t \in TransactionId /\ t.timestamp =< clock'[t.agent]
    BY <1>1, <1>2, TxnTypes DEF TransactionId
  <2>3. \A b \in Agent : \A l \in own_committed'[b] : l.txn.agent = b /\ Issued(l.txn)'
    BY <1>1, <1>4, <1>6, <2>1, <2>2, TxnTypes DEF IdsIssued, Issued
  <2> QED BY <1>3, <2>1, <2>3, TxnTypes DEF IdsIssued, Known
<1>8. PreparesUnanswered' /\ AcksUncounted'
  BY <1>3 DEF PreparesUnanswered, AcksUncounted, Known
<1>9. CountExact' /\ AcceptedPromised'
  <2>1. \A v, txn, reqs : Promised(v, txn, reqs) <=> Promised(v, txn, reqs)'
    BY DEF Promised, Known
  <2>2. \A b \in Agent : pending'[b] # NoTxn => b # a /\ pending'[b] = pending[b]
    BY <1>3
  <2>3. \A b \in Agent : verdict'[b] = "Committed" => b # a /\ verdict[b] = "Committed"
    BY <1>3
  <2>4. CountExact'
    BY <1>3, <2>2, <2>3 DEF CountExact
  <2>5. AcceptedPromised'
    BY <2>1, <2>2 DEF AcceptedPromised
  <2> QED BY <2>4, <2>5
<1>10. PhasesDisjoint'
  <2>1. \A d \in aborts : d.txn # t
    BY DEF PhasesDisjoint, IsPending
  <2> QED BY <1>4, <1>5, <1>6, <2>1 DEF PhasesDisjoint
<1>11. CommittedKnown'
  <2>1. \A w \in Peers[a] : Promised(w, t, pending[a].locks)
    BY DEF CountExact, AcceptedPromised
  <2>2. \A l \in Locks(t, pending[a].locks), w \in Peers[a] : Live(l) => l \in Known(w)
    BY <2>1 DEF Promised, LiveAt, Live
  <2> QED BY <1>4, <2>2 DEF CommittedKnown, Known, Live
<1>12. PromisesDisjoint'
  BY DEF PromisesDisjoint, Known
<1> QED BY <1>7, <1>8, <1>9, <1>10, <1>11, <1>12

\* Turning promises into locks keeps everything known.
LEMMA HandleCommitStep ==
  ASSUME Premises, IInv, TypeOK', NEW c \in commits, HandleCommit(c)
  PROVE  IInv'
<1> USE DEF HandleCommit, IInv
<1> DEFINE w == c.to
<1>1. w \in Agent /\ c.lamport_ts \in Nat
  BY DEF TypeOK, DecisionMsg
<1>2. \A b \in Agent : clock'[b] \in Nat /\ clock[b] \in Nat /\ clock[b] =< clock'[b]
  BY <1>1 DEF TypeOK, Receive
<1>3. /\ foreign_prepared'[w] = Without(c.txn, foreign_prepared[w])
      /\ foreign_locks'[w] = foreign_locks[w] \cup Of(c.txn, foreign_prepared[w])
      /\ \A b \in Agent : b # w => foreign_prepared'[b] = foreign_prepared[b]
                                   /\ foreign_locks'[b] = foreign_locks[b]
  <2>1. Of(c.txn, foreign_prepared[w]) # {} => Without(c.txn, foreign_locks[w]) = foreign_locks[w]
    BY <1>1 DEF PhasesDisjoint, Of, Without
  <2> QED BY <1>1, <2>1 DEF TypeOK
<1>4. \A b \in Agent : Known(b)' = Known(b)
  BY <1>3 DEF Known, Without, Of
<1>5. IdsIssued'
  <2>1. \A txn \in TransactionId : Issued(txn) => Issued(txn)'
    BY <1>2, IssuedGrows
  <2> QED BY <1>4, <2>1, TxnTypes DEF IdsIssued
<1>6. PreparesUnanswered'
  <2>1. \A m \in prepares : m.to \in Agent
    BY DEF TypeOK, PrepareMsg
  <2> QED BY <1>4, <2>1 DEF PreparesUnanswered
<1>7. AcksUncounted' /\ CountExact'
  BY DEF AcksUncounted, CountExact
<1>8. AcceptedPromised'
  <2>1. \A k \in acks : k.responder \in Agent
    BY DEF TypeOK, AckMsg
  <2>2. \A a \in Agent : pending[a] # NoTxn => pending[a].from \subseteq Agent
    BY DEF TypeOK, PendingTransaction
  <2> QED BY <1>4, <2>1, <2>2 DEF AcceptedPromised, Promised
<1>9. PhasesDisjoint'
  <2>1. \A b \in Agent : \A l \in foreign_prepared'[b], k \in foreign_locks'[b] : l.txn # k.txn
    BY <1>3 DEF PhasesDisjoint, Without, Of
  <2> QED BY <2>1 DEF PhasesDisjoint, IsPending
<1>10. CommittedKnown' /\ PromisesDisjoint'
  BY <1>4 DEF CommittedKnown, PromisesDisjoint, Live
<1> QED BY <1>5, <1>6, <1>7, <1>8, <1>9, <1>10

\* An ABORT only withdraws promises of a transaction that is neither held nor
\* pending.
LEMMA HandleAbortStep ==
  ASSUME Premises, IInv, TypeOK', NEW d \in aborts, HandleAbort(d)
  PROVE  IInv'
<1> USE DEF HandleAbort, IInv
<1> DEFINE w == d.to
<1>1. w \in Agent /\ d.lamport_ts \in Nat
  BY DEF TypeOK, DecisionMsg
<1>2. \A b \in Agent : clock'[b] \in Nat /\ clock[b] \in Nat /\ clock[b] =< clock'[b]
  BY <1>1 DEF TypeOK, Receive
<1>3. /\ foreign_prepared'[w] = Without(d.txn, foreign_prepared[w])
      /\ \A b \in Agent : b # w => foreign_prepared'[b] = foreign_prepared[b]
  BY <1>1 DEF TypeOK
<1>4. \A b \in Agent : /\ Known(b)' \subseteq Known(b)
                       /\ \A l \in Known(b) : l.txn # d.txn => l \in Known(b)'
  BY <1>3 DEF Known, Without
<1>5. aborts' \subseteq aborts
  BY AfterDeliverySubset
<1>6. IdsIssued'
  <2>1. \A txn \in TransactionId : Issued(txn) => Issued(txn)'
    BY <1>2, IssuedGrows
  <2> QED BY <1>4, <1>5, <2>1, TxnTypes DEF IdsIssued
<1>7. PreparesUnanswered'
  <2>1. \A m \in prepares : m.to \in Agent
    BY DEF TypeOK, PrepareMsg
  <2> QED BY <1>4, <2>1 DEF PreparesUnanswered
<1>8. AcksUncounted' /\ CountExact'
  BY DEF AcksUncounted, CountExact
<1>9. AcceptedPromised'
  <2>1. \A k \in acks : k.responder \in Agent
    BY DEF TypeOK, AckMsg
  <2>2. \A a \in Agent : pending[a] # NoTxn => pending[a].from \subseteq Agent
    BY DEF TypeOK, PendingTransaction
  <2>3. \A a \in Agent : pending[a] # NoTxn => pending[a].txn # d.txn
    BY DEF PhasesDisjoint, IsPending
  <2>4. \A v \in Agent : \A txn, reqs :
          txn # d.txn /\ Promised(v, txn, reqs) => Promised(v, txn, reqs)'
    BY <1>4 DEF Promised, LiveAt, Locks
  <2> QED BY <2>1, <2>2, <2>3, <2>4 DEF AcceptedPromised
<1>10. PhasesDisjoint'
  <2>1. \A b \in Agent : foreign_prepared'[b] \subseteq foreign_prepared[b]
    BY <1>3 DEF Without
  <2> QED BY <1>5, <2>1 DEF PhasesDisjoint, IsPending
<1>11. CommittedKnown'
  BY <1>4 DEF CommittedKnown, PhasesDisjoint, Live
<1>12. PromisesDisjoint'
  BY <1>4 DEF PromisesDisjoint
<1> QED BY <1>6, <1>7, <1>8, <1>9, <1>10, <1>11, <1>12

\* A new transaction has an identifier nobody has seen.
LEMMA PrepareStep ==
  ASSUME Premises, IInv, TypeOK', NEW a \in Agent, NEW s \in Plans[a], Prepare(a, s)
  PROVE  IInv'
<1> USE DEF IInv
<1> DEFINE t == [agent |-> a, timestamp |-> clock[a] + 1]
           reqs == First(MaxLockCells, s)
           new == {[to |-> w, txn |-> t, lamport_ts |-> clock[a] + 1, locks |-> reqs] :
                     w \in Peers[a]}
<1>1. /\ pending[a] = NoTxn /\ pending'[a] # NoTxn
      /\ pending'[a].txn = t /\ pending'[a].locks = reqs /\ pending'[a].from = {}
      /\ pending'[a].accepted = 0 /\ pending'[a].expected = Cardinality(Peers[a])
      /\ \A b \in Agent : b # a => pending'[b] = pending[b]
  <2>1. pending'[a] = [txn |-> t, locks |-> reqs, sent_tick |-> now,
                       expected |-> Cardinality(Peers[a]), accepted |-> 0, from |-> {},
                       outcome |-> "Pending"]
        /\ pending[a] = NoTxn
        /\ \A b \in Agent : b # a => pending'[b] = pending[b]
    BY DEF Prepare, TypeOK
  <2>2. pending'[a] \in PendingTransaction
    <3>1. reqs \subseteq Request /\ t \in TransactionId
      BY FirstRequests DEF TypeOK, TransactionId
    <3>2. now \in Nat
      BY DEF TypeOK
    <3> HIDE DEF t, reqs
    <3> QED BY <2>1, <3>1, <3>2, PeersFinite DEF PendingTransaction
  <2>3. pending'[a] # NoTxn
    BY <2>2, NoTxnAssumption
  <2>4. /\ pending'[a].txn = t /\ pending'[a].locks = reqs /\ pending'[a].from = {}
        /\ pending'[a].accepted = 0 /\ pending'[a].expected = Cardinality(Peers[a])
    <3> HIDE DEF t, reqs, new
    <3> QED BY <2>1
  <2> QED BY <2>1, <2>3, <2>4
<1>2. prepares' = prepares \cup new
  BY FitsWire DEF Premises, Prepare
<1>3. /\ verdict'[a] = "none"
      /\ \A b \in Agent : b # a => verdict'[b] = verdict[b]
      /\ UNCHANGED <<tables, acks, commits, aborts, now>>
  BY DEF Prepare, TypeOK
<1>4. \A b \in Agent : clock'[b] \in Nat /\ clock[b] =< clock'[b]
  BY DEF Prepare, TypeOK
<1>5. t \in TransactionId /\ t.agent = a /\ t.timestamp = clock'[a]
  BY DEF Prepare, TypeOK, TransactionId
<1>6. ~Issued(t)
  BY DEF Issued, TypeOK
<1>7. \A m \in new : m.to \in Peers[a] /\ m.txn = t /\ m.locks = reqs
  OBVIOUS
<1>8. \A m, n \in new : m.to = n.to => m = n
  OBVIOUS
<1>9. \A b \in Agent : Known(b)' = Known(b)
  BY <1>3 DEF Known, tables
<1> HIDE DEF t, reqs, new
<1>10. IdsIssued'
  <2>1. \A txn \in TransactionId : Issued(txn) => Issued(txn)'
    BY <1>4, IssuedGrows
  <2>2. \A m \in new : Issued(m.txn)'
    BY <1>5, <1>7 DEF Issued, TypeOK
  <2>3. \A b \in Agent : pending'[b] # NoTxn => pending'[b].txn.agent = b /\ Issued(pending[b].txn)'
    BY <1>1, <1>5, <2>1, TxnTypes DEF IdsIssued, Issued, TypeOK
  <2>4. \A b \in Agent : \A l \in own_committed'[b] : l.txn.agent = b /\ Issued(l.txn)'
    BY <1>3, <2>1, TxnTypes DEF IdsIssued, tables
  <2>5. \A b \in Agent : \A l \in Known(b)' : Issued(l.txn)'
    BY <1>9, <2>1, TxnTypes DEF IdsIssued
  <2>6. \A m \in prepares' \cup acks' \cup aborts' : Issued(m.txn)'
    BY <1>2, <1>3, <2>1, <2>2, TxnTypes DEF IdsIssued
  <2> QED BY <2>3, <2>4, <2>5, <2>6 DEF IdsIssued
<1>11. PreparesUnanswered'
  <2>1. \A m \in prepares \cup acks \cup aborts : m.txn # t
    BY <1>6 DEF IdsIssued
  <2>2. \A b \in Agent : \A l \in Known(b) : l.txn # t
    BY <1>6 DEF IdsIssued
  <2>3. \A m \in prepares' : m.to \in Agent /\ m.to \in Peers[m.txn.agent]
    BY <1>2, <1>5, <1>7 DEF PreparesUnanswered, TypeOK, PrepareMsg
  <2>4. \A m, n \in prepares' : m.txn = n.txn /\ m.to = n.to => m = n
    BY <1>2, <1>7, <1>8, <2>1 DEF PreparesUnanswered
  <2>5. \A m \in prepares' : \A l \in Known(m.to)' : l.txn # m.txn
    BY <1>2, <1>7, <1>9, <2>2, <2>3 DEF PreparesUnanswered
  <2>6. \A m \in prepares' : \A k \in acks' : m.txn = k.txn => m.to # k.responder
    BY <1>2, <1>3, <1>7, <2>1 DEF PreparesUnanswered
  <2>7. \A m \in prepares', b \in Agent : pending'[b] # NoTxn /\ pending'[b].txn = m.txn =>
          m.locks = pending'[b].locks /\ m.to \notin pending'[b].from
    <3> SUFFICES ASSUME NEW m \in prepares', NEW b \in Agent,
                        pending'[b] # NoTxn, pending'[b].txn = m.txn
                 PROVE  m.locks = pending'[b].locks /\ m.to \notin pending'[b].from
      OBVIOUS
    <3>1. CASE b = a
      BY <1>1, <1>2, <1>7, <2>1, <3>1
    <3>2. CASE b # a
      <4>1. pending[b].txn.agent = b
        BY <1>1, <3>2 DEF IdsIssued
      <4>2. m \in prepares
        BY <1>1, <1>2, <1>5, <1>7, <3>2, <4>1
      <4> QED BY <1>1, <3>2, <4>2 DEF PreparesUnanswered
    <3> QED BY <3>1, <3>2
  <2> QED BY <2>3, <2>4, <2>5, <2>6, <2>7 DEF PreparesUnanswered
<1>12. AcksUncounted'
  BY <1>1, <1>3 DEF AcksUncounted
<1>13. CountExact'
  <2> SUFFICES ASSUME NEW b \in Agent
               PROVE  /\ pending'[b] # NoTxn =>
                           /\ pending'[b].from \subseteq Peers[b]
                           /\ pending'[b].accepted = Cardinality(pending'[b].from)
                           /\ pending'[b].expected = Cardinality(Peers[b])
                      /\ verdict'[b] = "Committed" => pending'[b] # NoTxn /\ pending'[b].from = Peers[b]
    BY DEF CountExact
  <2>1. CASE b = a
    BY <1>1, <1>3, <2>1, FS_EmptySet
  <2>2. CASE b # a
    BY <1>1, <1>3, <2>2 DEF CountExact
  <2> QED BY <2>1, <2>2
<1>14. AcceptedPromised'
  <2>1. \A k \in acks : k.txn # t
    BY <1>6 DEF IdsIssued
  <2>2. \A k \in acks : k.responder \in Agent
    BY DEF TypeOK, AckMsg
  <2>3. \A b \in Agent : pending[b] # NoTxn => pending[b].from \subseteq Agent
    BY DEF TypeOK, PendingTransaction
  <2>4. \A v \in Agent : \A txn, rs : Promised(v, txn, rs) => Promised(v, txn, rs)'
    BY <1>3, <1>9 DEF Promised
  <2> QED BY <1>1, <1>3, <2>1, <2>2, <2>3, <2>4 DEF AcceptedPromised
<1>15. PhasesDisjoint'
  <2>1. \A txn : IsPending(txn)' => IsPending(txn) \/ txn = t
    BY <1>1 DEF IsPending
  <2>2. /\ \A b \in Agent : \A l \in own_committed[b] : l.txn # t
        /\ \A d \in aborts : d.txn # t
    BY <1>6 DEF IdsIssued
  <2> QED BY <1>3, <2>1, <2>2 DEF PhasesDisjoint, tables
<1>16. CommittedKnown' /\ PromisesDisjoint'
  BY <1>3, <1>9 DEF CommittedKnown, PromisesDisjoint, Live, tables
<1> QED BY <1>10, <1>11, <1>12, <1>13, <1>14, <1>15, <1>16

\* A manager promises only what nothing on its record forbids.
LEMMA HandlePrepareStep ==
  ASSUME Premises, IInv, TypeOK', NEW m \in prepares, HandlePrepare(m)
  PROVE  IInv'
<1> USE DEF IInv
<1> DEFINE w == m.to
           t == m.txn
           conflicts == HasConflict(w, m.locks, t.agent)
           ts == SendTimestamp(Receive(clock[w], m.lamport_ts))
           ack == [to |-> t.agent, txn |-> t, responder |-> w, lamport_ts |-> ts,
                   accepted |-> ~conflicts]
<1>1. /\ w \in Agent /\ t \in TransactionId /\ t.agent \in Agent /\ m.lamport_ts \in Nat
      /\ m.locks \subseteq Request
  BY DEF TypeOK, PrepareMsg, TransactionId
<1>2. \A b \in Agent : clock'[b] \in Nat /\ clock[b] =< clock'[b]
  BY <1>1 DEF HandlePrepare, TypeOK, Receive
<1>3. prepares' = prepares \ {m} /\ acks' = acks \cup {ack}
  BY Delivered DEF HandlePrepare
<1>4. UNCHANGED <<pending, own_committed, foreign_locks, verdict, aborts, now>>
  BY DEF HandlePrepare
<1>5. \A l \in Known(w) : l.txn # t
  BY DEF PreparesUnanswered
<1>6. /\ conflicts => foreign_prepared' = foreign_prepared
      /\ ~conflicts => foreign_prepared'[w] = foreign_prepared[w] \cup Locks(t, m.locks)
      /\ \A b \in Agent : b # w => foreign_prepared'[b] = foreign_prepared[b]
  <2>1. Without(t, foreign_prepared[w]) = foreign_prepared[w]
    BY <1>5 DEF Without, Known
  <2> QED BY <1>1, <2>1 DEF HandlePrepare, TypeOK
<1>7. /\ \A b \in Agent : Known(b) \subseteq Known(b)'
      /\ \A b \in Agent : b # w => Known(b)' = Known(b)
      /\ Known(w)' \subseteq Known(w) \cup Locks(t, m.locks)
      /\ conflicts => Known(w)' = Known(w)
      /\ ~conflicts => Locks(t, m.locks) \subseteq Known(w)'
  <2>1. foreign_locks' = foreign_locks
    BY <1>4
  <2>2. \A b \in Agent : b # w => foreign_prepared'[b] \cup foreign_locks'[b] = Known(b)
    BY <1>6, <2>1 DEF Known
  <2>3. CASE conflicts
    BY <1>6, <2>1, <2>3 DEF Known
  <2>4. CASE ~conflicts
    BY <1>1, <1>6, <2>1, <2>2, <2>4 DEF Known
  <2> QED BY <2>3, <2>4
<1>8. \A l \in Locks(t, m.locks) : l.txn = t /\ l.req \in m.locks
  BY DEF Locks
<1>9. ack.to = t.agent /\ ack.txn = t /\ ack.responder = w /\ (ack.accepted <=> ~conflicts)
  BY DEF HasConflict
<1>10. IdsIssued'
  <2>1. \A txn \in TransactionId : Issued(txn) => Issued(txn)'
    BY <1>2, IssuedGrows
  <2>2. Issued(t)
    BY DEF IdsIssued
  <2>3. \A b \in Agent : \A l \in Known(b)' : l \in Known(b) \/ l.txn = t
    BY <1>7, <1>8
  <2> QED
    BY <1>1, <1>3, <1>4, <1>9, <2>1, <2>2, <2>3, TxnTypes DEF IdsIssued
<1> HIDE DEF conflicts, ts, ack
<1>11. PreparesUnanswered'
  <2>1. \A n \in prepares' : n \in prepares /\ n # m /\ n.to \in Agent
    BY <1>3 DEF TypeOK, PrepareMsg
  <2>2. \A n \in prepares' : n.txn = t => n.to # w
    BY <2>1 DEF PreparesUnanswered
  <2>3. \A n \in prepares' : \A l \in Known(n.to)' : l.txn # n.txn
    BY <1>7, <1>8, <2>1, <2>2 DEF PreparesUnanswered
  <2>4. \A n \in prepares' : \A k \in acks' : n.txn = k.txn => n.to # k.responder
    BY <1>3, <1>9, <2>1, <2>2 DEF PreparesUnanswered
  <2> QED BY <1>4, <2>1, <2>3, <2>4 DEF PreparesUnanswered
<1>12. AcksUncounted'
  <2>1. \A k \in acks : k.txn = t => k.responder # w
    BY DEF PreparesUnanswered
  <2>2. w \in Peers[t.agent]
    BY DEF PreparesUnanswered
  <2>3. \A a \in Agent : pending[a] # NoTxn /\ pending[a].txn = t => w \notin pending[a].from
    BY DEF PreparesUnanswered
  <2> QED BY <1>3, <1>4, <1>9, <2>1, <2>2, <2>3 DEF AcksUncounted
<1>13. CountExact'
  BY <1>4 DEF CountExact
<1>14. AcceptedPromised'
  <2>1. \A v \in Agent : \A txn, reqs : Promised(v, txn, reqs) => Promised(v, txn, reqs)'
    BY <1>4, <1>7 DEF Promised
  <2>2. ~conflicts => Promised(w, t, m.locks)'
    BY <1>7 DEF Promised, LiveAt
  <2>3. \A a \in Agent : pending[a] # NoTxn /\ pending[a].txn = t => pending[a].locks = m.locks
    BY DEF PreparesUnanswered
  <2>4. \A k \in acks : k.responder \in Agent
    BY DEF TypeOK, AckMsg
  <2>5. \A a \in Agent : pending[a] # NoTxn => pending[a].from \subseteq Agent
    BY DEF TypeOK, PendingTransaction
  <2>6. SUFFICES ASSUME NEW a \in Agent, pending[a] # NoTxn
                 PROVE  /\ \A v \in pending[a].from :
                             Promised(v, pending[a].txn, pending[a].locks)'
                        /\ \A k \in acks' : k.txn = pending[a].txn /\ k.accepted =>
                             Promised(k.responder, pending[a].txn, pending[a].locks)'
    BY <1>4 DEF AcceptedPromised
  <2>7. \A v \in pending[a].from : Promised(v, pending[a].txn, pending[a].locks)'
    BY <1>4, <2>1, <2>5, <2>6 DEF AcceptedPromised
  <2>8. \A k \in acks : k.txn = pending[a].txn /\ k.accepted =>
          Promised(k.responder, pending[a].txn, pending[a].locks)'
    BY <1>4, <2>1, <2>4, <2>6 DEF AcceptedPromised
  <2>9. ack.txn = pending[a].txn /\ ack.accepted =>
          Promised(w, pending[a].txn, pending[a].locks)'
    BY <1>4, <1>9, <2>2, <2>3, <2>6
  <2> QED BY <1>3, <1>4, <1>9, <2>7, <2>8, <2>9
<1>15. PhasesDisjoint'
  <2>1. \A b \in Agent : \A l \in foreign_prepared'[b], k \in foreign_locks'[b] : l.txn # k.txn
    BY <1>1, <1>4, <1>5, <1>6, <1>8 DEF PhasesDisjoint, Known
  <2> QED BY <1>4, <2>1 DEF PhasesDisjoint, IsPending
<1>16. CommittedKnown'
  <2>1. \A a \in Agent, v \in Agent : v \in Peers[a] => Known(v) \subseteq Known(v)'
    BY <1>7
  <2> QED BY <1>4, <2>1 DEF CommittedKnown, Live
<1>17. PromisesDisjoint'
  <2>1. ~conflicts => \A l \in Known(w), r \in m.locks : l.txn.agent # t.agent => ~Clash(l.req, r)
    BY DEF conflicts, HasConflict
  <2>2. \A l, k \in Known(w)' : l.txn.agent # k.txn.agent => ~Clash(l.req, k.req)
    BY <1>1, <1>7, <1>8, <2>1, ClashSymmetric DEF PromisesDisjoint
  <2> QED BY <1>7, <2>2 DEF PromisesDisjoint
<1> QED BY <1>10, <1>11, <1>12, <1>13, <1>14, <1>15, <1>16, <1>17

\* A reply is counted once; when as many peers accepted as were asked, they
\* are the peers that were asked.
LEMMA ReceiveAckStep ==
  ASSUME Premises, IInv, TypeOK', NEW k \in acks, ReceiveAck(k)
  PROVE  IInv'
<1> USE DEF IInv
<1> DEFINE a == k.to
           p == pending[a]
           counts == p # NoTxn /\ p.txn = k.txn /\ p.outcome = "Pending"
<1>1. a \in Agent /\ k.responder \in Agent /\ k.responder \in Peers[a] /\ k.lamport_ts \in Nat
  BY DEF TypeOK, AckMsg, AcksUncounted
<1>2. \A b \in Agent : clock'[b] \in Nat /\ clock[b] =< clock'[b]
  BY <1>1 DEF ReceiveAck, TypeOK, Receive
<1>3. acks' = acks \ {k} /\ UNCHANGED <<tables, prepares, aborts, now>>
  BY Delivered DEF ReceiveAck
<1>4. \/ /\ ~counts /\ UNCHANGED <<pending, verdict>>
      \/ /\ counts /\ k.accepted
         /\ pending'[a] = Counted(p, k.responder)
         /\ verdict'[a] = IF p.accepted + 1 >= p.expected THEN "Committed" ELSE verdict[a]
         /\ \A b \in Agent : b # a => pending'[b] = pending[b] /\ verdict'[b] = verdict[b]
      \/ /\ counts /\ ~k.accepted
         /\ pending'[a] = Aborted(p) /\ verdict'[a] = "Aborted"
         /\ \A b \in Agent : b # a => pending'[b] = pending[b] /\ verdict'[b] = verdict[b]
  BY <1>1 DEF ReceiveAck, Enough, TypeOK
<1>5. p # NoTxn => p \in PendingTransaction
  BY <1>1 DEF TypeOK
<1>6. \A b \in Agent : /\ pending'[b] # NoTxn <=> pending[b] # NoTxn
                       /\ pending[b] # NoTxn =>
                            /\ pending'[b].txn = pending[b].txn
                            /\ pending'[b].locks = pending[b].locks
                            /\ pending'[b].expected = pending[b].expected
  <2>1. CASE ~counts /\ UNCHANGED <<pending, verdict>>
    BY <2>1
  <2>2. CASE counts /\ pending'[a] = Counted(p, k.responder)
             /\ \A b \in Agent : b # a => pending'[b] = pending[b]
    <3> HIDE DEF a
    <3> QED BY <1>1, <1>5, <2>2, NoTxnAssumption, CountedFields
  <2>3. CASE counts /\ pending'[a] = Aborted(p)
             /\ \A b \in Agent : b # a => pending'[b] = pending[b]
    <3> HIDE DEF a
    <3> QED BY <1>1, <1>5, <2>3, NoTxnAssumption, AbortedFields
  <2> QED BY <1>4, <2>1, <2>2, <2>3
<1>7. \A b \in Agent : \/ pending[b] # NoTxn =>
                            /\ pending'[b].from = pending[b].from
                            /\ pending'[b].accepted = pending[b].accepted
                       \/ /\ b = a /\ counts /\ k.accepted
                          /\ pending'[a].from = p.from \cup {k.responder}
                          /\ pending'[a].accepted = p.accepted + 1
  <2>1. CASE ~counts /\ UNCHANGED <<pending, verdict>>
    BY <2>1
  <2>2. CASE counts /\ k.accepted /\ pending'[a] = Counted(p, k.responder)
             /\ \A b \in Agent : b # a => pending'[b] = pending[b]
    <3> HIDE DEF a
    <3> QED BY <1>1, <1>5, <2>2, CountedFields
  <2>3. CASE counts /\ pending'[a] = Aborted(p)
             /\ \A b \in Agent : b # a => pending'[b] = pending[b]
    <3> HIDE DEF a
    <3> QED BY <1>1, <1>5, <2>3, AbortedFields
  <2> QED BY <1>4, <2>1, <2>2, <2>3
<1>8. counts => k.responder \notin p.from
  BY <1>1 DEF AcksUncounted
<1>9. \A b \in Agent : Known(b)' = Known(b)
  BY <1>3 DEF Known, tables
<1>10. \A txn : IsPending(txn)' <=> IsPending(txn)
  BY <1>6 DEF IsPending
<1>11. IdsIssued'
  <2>1. \A txn \in TransactionId : Issued(txn) => Issued(txn)'
    BY <1>2, IssuedGrows
  <2> QED BY <1>3, <1>6, <1>9, <2>1, TxnTypes DEF IdsIssued, tables
<1>12. PreparesUnanswered'
  <2>1. \A m \in prepares : m.to \in Agent
    BY DEF TypeOK, PrepareMsg
  <2>2. counts => \A m \in prepares : m.txn = p.txn => m.to # k.responder
    BY DEF PreparesUnanswered
  <2>3. \A m \in prepares, b \in Agent : pending'[b] # NoTxn /\ pending'[b].txn = m.txn =>
          m.locks = pending'[b].locks /\ m.to \notin pending'[b].from
    BY <1>6, <1>7, <2>2 DEF PreparesUnanswered
  <2> QED BY <1>3, <1>9, <2>1, <2>3 DEF PreparesUnanswered
<1>13. AcksUncounted'
  <2>1. counts => \A h \in acks' : h.txn = p.txn => h.responder # k.responder
    BY <1>3 DEF AcksUncounted
  <2>2. \A h \in acks', b \in Agent : pending'[b] # NoTxn /\ pending'[b].txn = h.txn =>
          h.responder \notin pending'[b].from
    BY <1>3, <1>6, <1>7, <2>1 DEF AcksUncounted
  <2> QED BY <1>3, <2>2 DEF AcksUncounted
<1>14. CountExact'
  <2>1. \A b \in Agent : IsFiniteSet(Peers[b])
    BY PeersFinite
  <2>2. \A b \in Agent : pending[b] # NoTxn => IsFiniteSet(pending[b].from)
    BY <2>1, FS_Subset DEF CountExact
  <2>3. counts => Cardinality(p.from \cup {k.responder}) = p.accepted + 1
    <3> SUFFICES ASSUME counts PROVE Cardinality(p.from \cup {k.responder}) = p.accepted + 1
      OBVIOUS
    <3>1. IsFiniteSet(p.from) /\ p.accepted = Cardinality(p.from) /\ k.responder \notin p.from
      BY <1>1, <1>8, <2>2 DEF CountExact
    <3> QED BY <3>1, FS_AddElement
  <2>4. \A b \in Agent : pending'[b] # NoTxn =>
          /\ pending'[b].from \subseteq Peers[b]
          /\ pending'[b].accepted = Cardinality(pending'[b].from)
          /\ pending'[b].expected = Cardinality(Peers[b])
    <3> SUFFICES ASSUME NEW b \in Agent, pending[b] # NoTxn
                 PROVE  /\ pending'[b].from \subseteq Peers[b]
                        /\ pending'[b].accepted = Cardinality(pending'[b].from)
                        /\ pending'[b].expected = Cardinality(Peers[b])
      BY <1>6
    <3>1. /\ pending[b].from \subseteq Peers[b]
          /\ pending[b].accepted = Cardinality(pending[b].from)
          /\ pending'[b].expected = Cardinality(Peers[b])
      BY <1>6 DEF CountExact
    <3> HIDE DEF a, counts
    <3> QED BY <1>1, <1>7, <2>3, <3>1
  <2>5. counts => verdict[a] # "Committed"
    BY <1>1, <1>8 DEF CountExact
  <2>6. \A b \in Agent : verdict'[b] = "Committed" =>
          pending'[b] # NoTxn /\ pending'[b].from = Peers[b]
    <3> SUFFICES ASSUME NEW b \in Agent, verdict'[b] = "Committed"
                 PROVE  pending'[b] # NoTxn /\ pending'[b].from = Peers[b]
      OBVIOUS
    <3>1. CASE b = a /\ counts
      <4>1. p.accepted + 1 >= Cardinality(Peers[a]) /\ k.accepted
        BY <1>1, <1>4, <2>5, <3>1 DEF CountExact
      <4>2. p.from \cup {k.responder} \subseteq Peers[a]
        BY <1>1, <3>1 DEF CountExact
      <4>3. p.from \cup {k.responder} = Peers[a]
        <5>1. IsFiniteSet(Peers[a]) /\ Cardinality(Peers[a]) \in Nat
          BY <1>1, PeersFinite
        <5>2. Cardinality(p.from \cup {k.responder}) >= Cardinality(Peers[a])
          BY <2>3, <3>1, <4>1
        <5>3. Cardinality(p.from \cup {k.responder}) \in Nat
          BY <4>2, <5>1, FS_Subset, FS_CardinalityType
        <5> HIDE DEF a, p
        <5> QED BY <4>2, <5>1, <5>2, <5>3, FS_Subset
      <4>4. pending'[a].from = p.from \cup {k.responder}
        BY <1>4, <1>5, <3>1, <4>1, CountedFields, <1>1
      <4> QED BY <1>1, <1>6, <3>1, <4>3, <4>4
    <3>2. CASE b # a \/ ~counts
      <4>1. verdict'[b] = verdict[b] /\ pending'[b] = pending[b]
        BY <1>4, <3>2
      <4> QED BY <4>1 DEF CountExact
    <3> QED BY <3>1, <3>2
  <2> QED BY <2>4, <2>6 DEF CountExact
<1>15. AcceptedPromised'
  <2>1. \A v \in Agent : \A txn, reqs : Promised(v, txn, reqs) => Promised(v, txn, reqs)'
    BY <1>3, <1>9 DEF Promised
  <2>2. \A h \in acks : h.responder \in Agent
    BY DEF TypeOK, AckMsg
  <2>3. \A b \in Agent : pending[b] # NoTxn => pending[b].from \subseteq Agent
    BY DEF TypeOK, PendingTransaction
  <2>4. SUFFICES ASSUME NEW b \in Agent, pending[b] # NoTxn
                 PROVE  /\ \A v \in pending'[b].from :
                             Promised(v, pending[b].txn, pending[b].locks)'
                        /\ \A h \in acks' : h.txn = pending[b].txn /\ h.accepted =>
                             Promised(h.responder, pending[b].txn, pending[b].locks)'
    BY <1>6 DEF AcceptedPromised
  <2>5. \A v \in pending[b].from : Promised(v, pending[b].txn, pending[b].locks)'
    BY <1>6, <2>1, <2>3, <2>4 DEF AcceptedPromised
  <2>6. \A h \in acks : h.txn = pending[b].txn /\ h.accepted =>
          Promised(h.responder, pending[b].txn, pending[b].locks)'
    BY <1>6, <2>1, <2>2, <2>4 DEF AcceptedPromised
  <2> QED BY <1>3, <1>7, <2>4, <2>5, <2>6
<1>16. PhasesDisjoint'
  BY <1>3, <1>10 DEF PhasesDisjoint, tables
<1>17. CommittedKnown' /\ PromisesDisjoint'
  BY <1>3, <1>9 DEF CommittedKnown, PromisesDisjoint, Live, tables
<1> QED BY <1>11, <1>12, <1>13, <1>14, <1>15, <1>16, <1>17

LEMMA IInvStep ==
  ASSUME Premises
  PROVE  IInv /\ [Next]_vars => IInv'
<1> SUFFICES ASSUME IInv, [Next]_vars PROVE IInv'
  OBVIOUS
<1>1. TypeOK'
  BY TypeStep DEF IInv
<1>2. ASSUME NEW a \in Agent, NEW s \in Plans[a], Prepare(a, s) PROVE IInv'
  BY <1>1, <1>2, PrepareStep
<1>3. ASSUME NEW a \in Agent, Commit(a) \/ Abort(a) \/ CheckTimeout(a) \/ Gc(a) PROVE IInv'
  BY <1>1, <1>3, CommitStep, AbortStep, CheckTimeoutStep, GcStep
<1>4. ASSUME NEW a \in Agent, NEW txn, ReleaseOwnLocks(a, txn) PROVE IInv'
  <2>1. \A b \in Agent : own_committed'[b] \subseteq own_committed[b]
    BY <1>4 DEF ReleaseOwnLocks, Without, IInv, TypeOK
  <2>2. UNCHANGED <<clock, pending, foreign_locks, foreign_prepared, verdict, net, now>>
    BY <1>4 DEF ReleaseOwnLocks
  <2> QED BY <1>1, <2>1, <2>2, ReleaseStep
<1>5. ASSUME NEW a \in Agent, ReleaseAllOwnLocks(a) PROVE IInv'
  <2>1. \A b \in Agent : own_committed'[b] \subseteq own_committed[b]
    BY <1>5 DEF ReleaseAllOwnLocks, IInv, TypeOK
  <2>2. UNCHANGED <<clock, pending, foreign_locks, foreign_prepared, verdict, net, now>>
    BY <1>5 DEF ReleaseAllOwnLocks
  <2> QED BY <1>1, <2>1, <2>2, ReleaseStep
<1>6. ASSUME NEW m \in prepares, HandlePrepare(m) PROVE IInv'
  BY <1>1, <1>6, HandlePrepareStep
<1>7. ASSUME NEW k \in acks, ReceiveAck(k) PROVE IInv'
  BY <1>1, <1>7, ReceiveAckStep
<1>8. ASSUME NEW c \in commits, HandleCommit(c) PROVE IInv'
  BY <1>1, <1>8, HandleCommitStep
<1>9. ASSUME NEW d \in aborts, HandleAbort(d) PROVE IInv'
  BY <1>1, <1>9, HandleAbortStep
<1>10. ASSUME Tick PROVE IInv'
  BY <1>1, <1>10, TickStep
<1>11. ASSUME UNCHANGED vars PROVE IInv'
  <2>1. UNCHANGED <<clock, pending, foreign_locks, foreign_prepared, verdict, net, now>>
        /\ own_committed' = own_committed
    BY <1>11 DEF vars, tables
  <2> QED BY <1>1, <2>1, ReleaseStep
<1> QED
  BY <1>2, <1>3, <1>4, <1>5, <1>6, <1>7, <1>8, <1>9, <1>10, <1>11 DEF Next

\* What a coordinator holds is known to the arbiter it shares with any other
\* agent, and the arbiter's records never clash.
LEMMA ArbiterExcludes ==
  ASSUME CommonArbiter, IInv
  PROVE  LocksExclusive
<1> SUFFICES ASSUME NEW a \in Agent, NEW b \in Agent, a # b,
                    NEW l \in own_committed[a], NEW k \in own_committed[b], Live(l), Live(k)
             PROVE  ~Clash(l.req, k.req)
  BY DEF LocksExclusive
<1>1. PICK w : w \in Peers[a] \cap Peers[b]
  BY DEF CommonArbiter
<1>2. w \in Agent /\ l \in Known(w) /\ k \in Known(w)
  BY <1>1 DEF IInv, CommittedKnown
<1>3. l.txn.agent # k.txn.agent
  BY DEF IInv, IdsIssued
<1> QED BY <1>2, <1>3 DEF IInv, PromisesDisjoint

\* IInv is an invariant of the protocol.
THEOREM Inductive == ASSUME Premises PROVE Spec => []IInv
<1>1. Init => IInv
  BY IInvInit
<1>2. IInv /\ [Next]_vars => IInv'
  BY IInvStep
<1> QED BY <1>1, <1>2, PTL DEF Spec

\* No two agents hold clashing locks, provided the network delivers at most
\* once, trajectories fit a PREPARE and any two agents share a peer.
THEOREM Exclusion ==
  ASSUME Premises, CommonArbiter
  PROVE  Spec => []LocksExclusive
<1>1. IInv => LocksExclusive
  BY ArbiterExcludes
<1>2. Spec => []IInv
  BY Inductive
<1> QED BY <1>1, <1>2, PTL

\* Under the same network, every peer that was asked keeps knowing of the live
\* locks an agent holds.
THEOREM HeldLocksKnown == ASSUME Premises PROVE Spec => []CommittedKnown
<1>1. IInv => CommittedKnown
  BY DEF IInv
<1>2. Spec => []IInv
  BY Inductive
<1> QED BY <1>1, <1>2, PTL

\* The driver hears Committed only after every peer accepted.
THEOREM CommittedMeansAll == ASSUME Premises PROVE Spec => []AllPeersAcked
<1>1. IInv => AllPeersAcked
  BY DEF IInv, CountExact, AllPeersAcked
<1>2. Spec => []IInv
  BY Inductive
<1> QED BY <1>1, <1>2, PTL

-----------------------------------------------------------------------------
(* What holds on any network, duplicating or not, and for trajectories of  *)
(* any length.                                                             *)

LEMMA DisjointStep == TypeOK /\ PromisesDisjoint /\ [Next]_vars => PromisesDisjoint'
<1> SUFFICES ASSUME TypeOK, PromisesDisjoint, [Next]_vars PROVE PromisesDisjoint'
  OBVIOUS
<1>1. ASSUME \A w \in Agent : Known(w)' \subseteq Known(w) PROVE PromisesDisjoint'
  BY <1>1 DEF PromisesDisjoint
<1>2. ASSUME NEW m \in prepares, HandlePrepare(m) PROVE PromisesDisjoint'
  <2> DEFINE w == m.to
             conflicts == HasConflict(w, m.locks, m.txn.agent)
  <2>1. w \in Agent
    BY DEF TypeOK, PrepareMsg
  <2>2. CASE conflicts
    <3>1. \A v \in Agent : Known(v)' = Known(v)
      BY <1>2, <2>2 DEF HandlePrepare, Known
    <3> QED BY <1>1, <3>1
  <2>3. CASE ~conflicts
    <3>1. /\ Known(w)' \subseteq Known(w) \cup Locks(m.txn, m.locks)
          /\ \A v \in Agent : v # w => Known(v)' = Known(v)
      BY <1>2, <2>1, <2>3 DEF HandlePrepare, TypeOK, Known, Without
    <3>2. \A l \in Locks(m.txn, m.locks) : l.txn = m.txn /\ l.req \in m.locks
      BY DEF Locks
    <3>3. \A l \in Known(w), r \in m.locks : l.txn.agent # m.txn.agent => ~Clash(l.req, r)
      BY <2>3 DEF HasConflict
    <3>4. \A l, k \in Known(w)' : l.txn.agent # k.txn.agent => ~Clash(l.req, k.req)
      BY <2>1, <3>1, <3>2, <3>3, ClashSymmetric DEF PromisesDisjoint
    <3> QED BY <3>1, <3>4 DEF PromisesDisjoint
  <2> QED BY <2>2, <2>3
<1>3. ASSUME NEW c \in commits, HandleCommit(c) PROVE PromisesDisjoint'
  <2>1. c.to \in Agent
    BY DEF TypeOK, DecisionMsg
  <2>2. \A w \in Agent : Known(w)' \subseteq Known(w)
    BY <1>3, <2>1 DEF HandleCommit, TypeOK, Known, Without, Of
  <2> QED BY <1>1, <2>2
<1>4. ASSUME NEW d \in aborts, HandleAbort(d) PROVE PromisesDisjoint'
  <2>1. d.to \in Agent
    BY DEF TypeOK, DecisionMsg
  <2>2. \A w \in Agent : Known(w)' \subseteq Known(w)
    BY <1>4, <2>1 DEF HandleAbort, TypeOK, Known, Without
  <2> QED BY <1>1, <2>2
<1>5. ASSUME NEW a \in Agent, Gc(a) PROVE PromisesDisjoint'
  <2>1. \A w \in Agent : Known(w)' \subseteq Known(w)
    BY <1>5 DEF Gc, TypeOK, Known, LiveAt
  <2> QED BY <1>1, <2>1
<1>6. ASSUME UNCHANGED <<foreign_locks, foreign_prepared>> PROVE PromisesDisjoint'
  BY <1>1, <1>6 DEF Known
<1>7. ASSUME NEW a \in Agent, NEW s \in Plans[a], Prepare(a, s) PROVE PromisesDisjoint'
  BY <1>6, <1>7 DEF Prepare, tables
<1>8. ASSUME NEW a \in Agent, Commit(a) \/ Abort(a) \/ CheckTimeout(a) PROVE PromisesDisjoint'
  BY <1>6, <1>8 DEF Commit, Abort, CheckTimeout, tables
<1>9. ASSUME NEW k \in acks, ReceiveAck(k) PROVE PromisesDisjoint'
  BY <1>6, <1>9 DEF ReceiveAck, tables
<1>10. ASSUME NEW a \in Agent, NEW txn, ReleaseOwnLocks(a, txn) \/ ReleaseAllOwnLocks(a)
       PROVE  PromisesDisjoint'
  BY <1>6, <1>10 DEF ReleaseOwnLocks, ReleaseAllOwnLocks
<1>11. ASSUME Tick \/ UNCHANGED vars PROVE PromisesDisjoint'
  BY <1>6, <1>11 DEF Tick, vars, tables
<1> QED
  BY <1>2, <1>3, <1>4, <1>5, <1>7, <1>8, <1>9, <1>10, <1>11 DEF Next

\* No manager ever vouches for two agents at once.
THEOREM NoDoublePromise == Spec => []PromisesDisjoint
<1>1. Init => TypeOK /\ PromisesDisjoint
  BY TypeInit DEF Init, PromisesDisjoint, Known
<1>2. TypeOK /\ PromisesDisjoint /\ [Next]_vars => TypeOK' /\ PromisesDisjoint'
  BY TypeStep, DisjointStep
<1> QED BY <1>1, <1>2, PTL DEF Spec

-----------------------------------------------------------------------------
(* Identifiers and decisions, on any network: what is known of a           *)
(* transaction names it by an identifier that was issued, and a decision   *)
(* is never taken back.                                                    *)

TxnCommitted(txn) ==
  \/ \E c \in commits : c.txn = txn
  \/ \E b \in Agent : \E l \in foreign_locks[b] : l.txn = txn

TxnAborted(txn) == \E d \in aborts : d.txn = txn

HasTrace(txn) ==
  \/ IsPending(txn)
  \/ \E b \in Agent : \E l \in own_committed[b] \cup Known(b) : l.txn = txn
  \/ \E m \in prepares \cup acks \cup commits \cup aborts : m.txn = txn

DecidedInv ==
  /\ TypeOK
  /\ \A b \in Agent : pending[b] # NoTxn => pending[b].txn.agent = b
  /\ \A txn : HasTrace(txn) => txn \in TransactionId /\ Issued(txn)
  /\ \A txn : TxnCommitted(txn) => ~IsPending(txn) /\ ~TxnAborted(txn)
  /\ \A txn : TxnAborted(txn) => ~IsPending(txn)

NewTxn(a) == [agent |-> a, timestamp |-> clock[a] + 1]

LEMMA UsedTraced == ASSUME NEW txn \in UsedTxns PROVE HasTrace(txn)
<1>1. CASE \E m \in prepares \cup acks \cup commits \cup aborts : m.txn = txn
  BY <1>1 DEF HasTrace
<1>2. CASE txn \in UNION {{l.txn : l \in own_committed[a] \cup Known(a)} : a \in Agent}
  BY <1>2 DEF HasTrace
<1> QED BY <1>1, <1>2 DEF UsedTxns

LEMMA ClocksGrow ==
  ASSUME TypeOK, TypeOK', [Next]_vars
  PROVE  \A b \in Agent : clock'[b] \in Nat /\ clock[b] \in Nat /\ clock[b] =< clock'[b]
<1>0. \A b \in Agent : clock[b] \in Nat /\ clock'[b] \in Nat
  BY DEF TypeOK
<1>1. ASSUME NEW w \in Agent, NEW n \in Nat, n >= clock[w], clock' = [clock EXCEPT ![w] = n]
      PROVE  \A b \in Agent : clock[b] =< clock'[b]
  BY <1>0, <1>1 DEF TypeOK
<1>2. ASSUME NEW c \in Nat, NEW r \in Nat PROVE Receive(c, r) \in Nat /\ Receive(c, r) >= c + 1
  BY DEF Receive
<1>3. ASSUME NEW a \in Agent, NEW s \in Plans[a], Prepare(a, s) PROVE \A b \in Agent : clock[b] =< clock'[b]
  BY <1>0, <1>1, <1>3 DEF Prepare
<1>4. ASSUME NEW m \in prepares, HandlePrepare(m) PROVE \A b \in Agent : clock[b] =< clock'[b]
  <2>1. m.to \in Agent /\ m.lamport_ts \in Nat
    BY DEF TypeOK, PrepareMsg
  <2>2. Receive(clock[m.to], m.lamport_ts) \in Nat
        /\ Receive(clock[m.to], m.lamport_ts) >= clock[m.to] + 1
    BY <1>0, <1>2, <2>1
  <2> DEFINE n == Receive(clock[m.to], m.lamport_ts) + 1
  <2>3. clock' = [clock EXCEPT ![m.to] = n]
    BY <1>4 DEF HandlePrepare
  <2>4. n \in Nat /\ n >= clock[m.to]
    BY <1>0, <2>1, <2>2
  <2> HIDE DEF n
  <2> QED BY <1>1, <2>1, <2>3, <2>4
<1>5. ASSUME NEW w \in Agent, NEW r \in Nat, clock' = [clock EXCEPT ![w] = Receive(@, r)]
      PROVE  \A b \in Agent : clock[b] =< clock'[b]
  <2> DEFINE n == Receive(clock[w], r)
  <2>1. n \in Nat /\ n >= clock[w] + 1
    BY <1>0, <1>2
  <2>2. clock' = [clock EXCEPT ![w] = n]
    BY <1>5
  <2>3. n >= clock[w]
    BY <1>0, <2>1
  <2> HIDE DEF n
  <2> QED BY <1>1, <2>1, <2>2, <2>3
<1>6. ASSUME NEW k \in acks, ReceiveAck(k) PROVE \A b \in Agent : clock[b] =< clock'[b]
  BY <1>5, <1>6 DEF ReceiveAck, TypeOK, AckMsg
<1>7. ASSUME NEW c \in commits, HandleCommit(c) PROVE \A b \in Agent : clock[b] =< clock'[b]
  BY <1>5, <1>7 DEF HandleCommit, TypeOK, DecisionMsg
<1>8. ASSUME NEW d \in aborts, HandleAbort(d) PROVE \A b \in Agent : clock[b] =< clock'[b]
  BY <1>5, <1>8 DEF HandleAbort, TypeOK, DecisionMsg
<1>9. ASSUME NEW a \in Agent, Commit(a) \/ Abort(a) PROVE \A b \in Agent : clock[b] =< clock'[b]
  BY <1>0, <1>1, <1>9 DEF Commit, Abort
<1>10. ASSUME clock' = clock PROVE \A b \in Agent : clock[b] =< clock'[b]
  BY <1>0, <1>10
<1>11. ASSUME NEW a \in Agent, NEW txn,
              CheckTimeout(a) \/ Gc(a) \/ ReleaseOwnLocks(a, txn) \/ ReleaseAllOwnLocks(a)
       PROVE  clock' = clock
  BY <1>11 DEF CheckTimeout, Gc, ReleaseOwnLocks, ReleaseAllOwnLocks
<1>12. Tick \/ UNCHANGED vars => clock' = clock
  BY DEF Tick, vars
<1> QED
  BY <1>0, <1>3, <1>4, <1>6, <1>7, <1>8, <1>9, <1>10, <1>11, <1>12 DEF Next

LEMMA PrepareTraces ==
  ASSUME TypeOK, NEW a \in Agent, NEW s \in Plans[a], Prepare(a, s)
  PROVE  /\ pending'[a].txn = NewTxn(a) /\ clock'[a] = clock[a] + 1
         /\ \A b \in Agent : b # a => pending'[b] = pending[b]
         /\ \A txn : HasTrace(txn)' => HasTrace(txn) \/ txn = NewTxn(a)
         /\ \A txn : IsPending(txn)' => IsPending(txn) \/ txn = NewTxn(a)
         /\ \A txn : TxnCommitted(txn)' = TxnCommitted(txn)
         /\ \A txn : TxnAborted(txn)' = TxnAborted(txn)
<1>1. pending'[a].txn = NewTxn(a) /\ \A b \in Agent : b # a => pending'[b] = pending[b]
  BY DEF Prepare, TypeOK, NewTxn
<1>2. clock'[a] = clock[a] + 1
  BY DEF Prepare, TypeOK
<1>3. UNCHANGED <<tables, acks, commits, aborts>>
  BY DEF Prepare
<1>4. \A m \in prepares' : m \in prepares \/ m.txn = NewTxn(a)
  BY DEF Prepare, NewTxn
<1>5. \A txn : IsPending(txn)' => IsPending(txn) \/ txn = NewTxn(a)
  BY <1>1 DEF IsPending
<1>6. \A b \in Agent : own_committed'[b] \cup Known(b)' = own_committed[b] \cup Known(b)
  BY <1>3 DEF tables, Known
<1>7. \A txn : HasTrace(txn)' => HasTrace(txn) \/ txn = NewTxn(a)
  BY <1>3, <1>4, <1>5, <1>6 DEF HasTrace
<1>8. \A txn : TxnCommitted(txn)' = TxnCommitted(txn) /\ TxnAborted(txn)' = TxnAborted(txn)
  BY <1>3 DEF TxnCommitted, TxnAborted, tables
<1> QED BY <1>1, <1>2, <1>5, <1>7, <1>8

\* What a step other than a PREPARE leaves: no new trace, and a decision only
\* where there was a pending transaction.
Settles ==
  /\ \A b \in Agent : pending'[b] # NoTxn => pending[b] # NoTxn /\ pending'[b].txn = pending[b].txn
  /\ \A txn : HasTrace(txn)' => HasTrace(txn)
  /\ \A txn : TxnCommitted(txn)' => TxnCommitted(txn) \/ \E a \in Agent :
       pending[a] # NoTxn /\ pending[a].txn = txn /\ pending'[a] = NoTxn /\ aborts' = aborts
  /\ \A txn : TxnAborted(txn)' => TxnAborted(txn) \/ \E a \in Agent :
       pending[a] # NoTxn /\ pending[a].txn = txn /\ pending'[a] = NoTxn
       /\ UNCHANGED <<commits, foreign_locks>>

LEMMA QuietSettles ==
  ASSUME \A b \in Agent :
           pending'[b] # NoTxn => pending[b] # NoTxn /\ pending'[b].txn = pending[b].txn,
         \A b \in Agent : /\ own_committed'[b] \subseteq own_committed[b]
                          /\ foreign_prepared'[b] \subseteq foreign_prepared[b]
                          /\ foreign_locks'[b] \subseteq foreign_locks[b],
         prepares' = prepares, acks' \subseteq acks, commits' = commits, aborts' \subseteq aborts
  PROVE  Settles
<1>1. \A txn : IsPending(txn)' => IsPending(txn)
  BY DEF IsPending
<1>2. \A b \in Agent : own_committed'[b] \cup Known(b)' \subseteq own_committed[b] \cup Known(b)
  BY DEF Known
<1>3. \A txn : HasTrace(txn)' => HasTrace(txn)
  BY <1>1, <1>2 DEF HasTrace
<1>4. \A txn : (TxnCommitted(txn)' => TxnCommitted(txn)) /\ (TxnAborted(txn)' => TxnAborted(txn))
  BY DEF TxnCommitted, TxnAborted
<1> QED BY <1>3, <1>4 DEF Settles

LEMMA MessageSettles ==
  ASSUME TypeOK
  PROVE  /\ \A m \in prepares : HandlePrepare(m) => Settles
         /\ \A c \in commits : HandleCommit(c) => Settles
<1>1. ASSUME NEW m \in prepares, HandlePrepare(m) PROVE Settles
  <2>0. m.to \in Agent
    BY DEF TypeOK, PrepareMsg
  <2>1. UNCHANGED <<pending, own_committed, foreign_locks, commits, aborts>>
        /\ prepares' \subseteq prepares
    BY <1>1, AfterDeliverySubset DEF HandlePrepare
  <2>2. \A k \in acks' : k \in acks \/ k.txn = m.txn
    BY <1>1 DEF HandlePrepare
  <2>3. \A b \in Agent : \A l \in foreign_prepared'[b] : l \in foreign_prepared[b] \/ l.txn = m.txn
    BY <1>1, <2>0 DEF HandlePrepare, TypeOK, Locks, Without
  <2>4. \A b \in Agent : \A l \in own_committed'[b] \cup Known(b)' :
          l \in own_committed[b] \cup Known(b) \/ l.txn = m.txn
    BY <2>1, <2>3 DEF Known
  <2>5. \A txn : IsPending(txn)' => IsPending(txn)
    BY <2>1 DEF IsPending
  <2>6. HasTrace(m.txn)
    BY DEF HasTrace
  <2>7. \A txn : HasTrace(txn)' => HasTrace(txn)
    <3> SUFFICES ASSUME NEW txn, HasTrace(txn)' PROVE HasTrace(txn)
      OBVIOUS
    <3>1. CASE txn = m.txn
      BY <2>6, <3>1
    <3>2. CASE txn # m.txn
      BY <2>1, <2>2, <2>4, <2>5, <3>2 DEF HasTrace
    <3> QED BY <3>1, <3>2
  <2>8. \A txn : (TxnCommitted(txn)' => TxnCommitted(txn)) /\ (TxnAborted(txn)' => TxnAborted(txn))
    BY <2>1 DEF TxnCommitted, TxnAborted
  <2> QED BY <2>1, <2>7, <2>8 DEF Settles
<1>2. ASSUME NEW c \in commits, HandleCommit(c) PROVE Settles
  <2>0. c.to \in Agent
    BY DEF TypeOK, DecisionMsg
  <2>1. UNCHANGED <<pending, own_committed, prepares, acks, aborts>> /\ commits' \subseteq commits
    BY <1>2, AfterDeliverySubset DEF HandleCommit
  <2>2. \A b \in Agent : /\ foreign_prepared'[b] \subseteq foreign_prepared[b]
                         /\ \A l \in foreign_locks'[b] :
                              l \in foreign_locks[b] \/ (l \in foreign_prepared[b] /\ l.txn = c.txn)
    <3>1. \A b \in Agent : foreign_prepared'[b] \subseteq foreign_prepared[b]
      BY <1>2, <2>0 DEF HandleCommit, TypeOK, Without
    <3>2. \A b \in Agent : foreign_locks'[b] = foreign_locks[b] \/ foreign_locks'[b] =
            Without(c.txn, foreign_locks[b]) \cup Of(c.txn, foreign_prepared[b])
      BY <1>2, <2>0 DEF HandleCommit, TypeOK
    <3> QED BY <3>1, <3>2 DEF Without, Of
  <2>3. \A b \in Agent : own_committed'[b] \cup Known(b)' \subseteq own_committed[b] \cup Known(b)
    BY <2>1, <2>2 DEF Known
  <2>4. \A txn : IsPending(txn)' => IsPending(txn)
    BY <2>1 DEF IsPending
  <2>5. \A txn : HasTrace(txn)' => HasTrace(txn)
    BY <2>1, <2>3, <2>4 DEF HasTrace
  <2>6. \A txn : (TxnCommitted(txn)' => TxnCommitted(txn)) /\ (TxnAborted(txn)' => TxnAborted(txn))
    BY <2>1, <2>2 DEF TxnCommitted, TxnAborted
  <2> QED BY <2>1, <2>5, <2>6 DEF Settles
<1> QED BY <1>1, <1>2

LEMMA DecisionSettles ==
  ASSUME TypeOK, NEW a \in Agent, Commit(a) \/ Abort(a)
  PROVE  Settles
<1> DEFINE t == pending[a].txn
<1>1. /\ pending[a] # NoTxn /\ pending'[a] = NoTxn
      /\ \A b \in Agent : b # a => pending'[b] = pending[b]
      /\ UNCHANGED <<foreign_locks, foreign_prepared, prepares, acks>>
  BY DEF Commit, Abort, tables, TypeOK
<1>2. \A b \in Agent : \A l \in own_committed'[b] : l \in own_committed[b] \/ l.txn = t
  BY DEF Commit, Abort, tables, TypeOK, Locks
<1>3. \A d \in commits' \cup aborts' : d \in commits \cup aborts \/ d.txn = t
  BY DEF Commit, Abort, Decision
<1>4. \A txn : IsPending(txn)' => IsPending(txn)
  BY <1>1 DEF IsPending
<1>5. HasTrace(t)
  BY <1>1 DEF HasTrace, IsPending
<1>6. \A b \in Agent : \A l \in own_committed'[b] \cup Known(b)' :
        l \in own_committed[b] \cup Known(b) \/ l.txn = t
  BY <1>1, <1>2 DEF Known
<1>7. \A txn : HasTrace(txn)' => HasTrace(txn)
  <2> SUFFICES ASSUME NEW txn, HasTrace(txn)' PROVE HasTrace(txn)
    OBVIOUS
  <2>1. CASE txn = t
    BY <1>5, <2>1
  <2>2. CASE txn # t
    BY <1>1, <1>3, <1>4, <1>6, <2>2 DEF HasTrace
  <2> QED BY <2>1, <2>2
<1>8. CASE Commit(a)
  <2>1. aborts' = aborts /\ \A c \in commits' : c \in commits \/ c.txn = t
    BY <1>8 DEF Commit, Decision
  <2> QED BY <1>1, <1>7, <2>1 DEF Settles, TxnCommitted, TxnAborted
<1>9. CASE Abort(a)
  <2>1. commits' = commits /\ \A d \in aborts' : d \in aborts \/ d.txn = t
    BY <1>9 DEF Abort, Decision
  <2> QED BY <1>1, <1>7, <2>1 DEF Settles, TxnCommitted, TxnAborted
<1> QED BY <1>8, <1>9

LEMMA StepSettles ==
  ASSUME TypeOK, [Next]_vars
  PROVE  Settles \/ \E a \in Agent : \E s \in Plans[a] : Prepare(a, s)
<1>1. ASSUME NEW m \in prepares, HandlePrepare(m) PROVE Settles
  BY <1>1, MessageSettles
<1>2. ASSUME NEW c \in commits, HandleCommit(c) PROVE Settles
  BY <1>2, MessageSettles
<1>3. ASSUME NEW a \in Agent, Commit(a) \/ Abort(a) PROVE Settles
  BY <1>3, DecisionSettles
<1>4. ASSUME NEW a \in Agent, CheckTimeout(a) PROVE Settles
  <2>1. \A b \in Agent :
          pending'[b] # NoTxn => pending[b] # NoTxn /\ pending'[b].txn = pending[b].txn
    BY <1>4, AbortedFields DEF CheckTimeout, TypeOK
  <2> QED BY <1>4, <2>1, QuietSettles DEF CheckTimeout, tables, net
<1>5. ASSUME NEW k \in acks, ReceiveAck(k) PROVE Settles
  <2>0. k.to \in Agent /\ k.responder \in Agent
    BY DEF TypeOK, AckMsg
  <2>1. \A b \in Agent :
          pending'[b] # NoTxn => pending[b] # NoTxn /\ pending'[b].txn = pending[b].txn
    <3> DEFINE p == pending[k.to]
    <3>1. p # NoTxn => p \in PendingTransaction
      BY <2>0 DEF TypeOK
    <3>2. \/ pending' = pending
          \/ p # NoTxn /\ pending' = [pending EXCEPT ![k.to] = Counted(p, k.responder)]
          \/ p # NoTxn /\ pending' = [pending EXCEPT ![k.to] = Aborted(p)]
      BY <1>5 DEF ReceiveAck
    <3>3. p # NoTxn => Counted(p, k.responder).txn = p.txn /\ Aborted(p).txn = p.txn
      BY <2>0, <3>1, CountedFields, AbortedFields
    <3> QED BY <3>2, <3>3 DEF TypeOK
  <2>2. acks' \subseteq acks
    BY <1>5, AfterDeliverySubset DEF ReceiveAck
  <2> QED BY <1>5, <2>1, <2>2, QuietSettles DEF ReceiveAck, tables
<1>6. ASSUME NEW d \in aborts, HandleAbort(d) PROVE Settles
  <2>0. d.to \in Agent
    BY DEF TypeOK, DecisionMsg
  <2>1. \A b \in Agent : foreign_prepared'[b] \subseteq foreign_prepared[b]
    BY <1>6, <2>0 DEF HandleAbort, TypeOK, Without
  <2>2. aborts' \subseteq aborts
    BY <1>6, AfterDeliverySubset DEF HandleAbort
  <2> QED BY <1>6, <2>1, <2>2, QuietSettles DEF HandleAbort
<1>7. ASSUME NEW a \in Agent, NEW txn, ReleaseOwnLocks(a, txn) \/ ReleaseAllOwnLocks(a)
      PROVE  Settles
  <2>1. \A b \in Agent : own_committed'[b] \subseteq own_committed[b]
    BY <1>7 DEF ReleaseOwnLocks, ReleaseAllOwnLocks, Without, TypeOK
  <2> QED BY <1>7, <2>1, QuietSettles DEF ReleaseOwnLocks, ReleaseAllOwnLocks, net
<1>8. ASSUME NEW a \in Agent, Gc(a) PROVE Settles
  <2>1. \A b \in Agent : /\ foreign_prepared'[b] \subseteq foreign_prepared[b]
                         /\ foreign_locks'[b] \subseteq foreign_locks[b]
    BY <1>8 DEF Gc, LiveAt, TypeOK
  <2> QED BY <1>8, <2>1, QuietSettles DEF Gc, net
<1>9. ASSUME Tick \/ UNCHANGED vars PROVE Settles
  BY <1>9, QuietSettles DEF Tick, vars, tables, net
<1> QED
  BY <1>1, <1>2, <1>3, <1>4, <1>5, <1>6, <1>7, <1>8, <1>9 DEF Next

LEMMA DecidedInit == Init => DecidedInv
<1> SUFFICES ASSUME Init PROVE DecidedInv
  OBVIOUS
<1>1. TypeOK
  BY TypeInit
<1>2. \A txn : ~HasTrace(txn) /\ ~TxnCommitted(txn) /\ ~TxnAborted(txn)
  BY DEF Init, HasTrace, IsPending, Known, TxnCommitted, TxnAborted
<1> QED BY <1>1, <1>2 DEF DecidedInv, Init

LEMMA DecidedStep == DecidedInv /\ [Next]_vars => DecidedInv'
<1> SUFFICES ASSUME DecidedInv, [Next]_vars PROVE DecidedInv'
  OBVIOUS
<1>1. TypeOK /\ TypeOK'
  BY TypeStep DEF DecidedInv
<1>2. \A b \in Agent : clock'[b] \in Nat /\ clock[b] \in Nat /\ clock[b] =< clock'[b]
  BY <1>1, ClocksGrow
<1>3. \A txn \in TransactionId : Issued(txn) => Issued(txn)'
  BY <1>1, <1>2, IssuedGrows
<1>4. CASE Settles
  <2>1. \A b \in Agent : pending'[b] # NoTxn => pending'[b].txn.agent = b
    BY <1>4 DEF Settles, DecidedInv
  <2>2. \A txn : HasTrace(txn)' => txn \in TransactionId /\ Issued(txn)'
    BY <1>3, <1>4 DEF Settles, DecidedInv
  <2>3. \A txn : IsPending(txn)' => IsPending(txn)
    BY <1>4 DEF Settles, IsPending
  <2>4. ASSUME NEW a \in Agent, NEW txn,
               pending[a] # NoTxn, pending[a].txn = txn, pending'[a] = NoTxn
        PROVE  ~IsPending(txn)' /\ IsPending(txn)
    BY <1>4, <2>4 DEF Settles, IsPending, DecidedInv
  <2>5. ASSUME NEW txn, TxnCommitted(txn)' PROVE ~IsPending(txn)' /\ ~TxnAborted(txn)'
    <3>1. CASE TxnCommitted(txn)
      <4>1. ~IsPending(txn)' /\ ~TxnAborted(txn)
        BY <2>3, <3>1 DEF DecidedInv
      <4>2. ASSUME NEW a \in Agent, pending[a] # NoTxn, pending[a].txn = txn, pending'[a] = NoTxn
            PROVE  FALSE
        BY <2>4, <3>1, <4>2 DEF DecidedInv
      <4> QED BY <1>4, <4>1, <4>2 DEF Settles
    <3>2. CASE ~TxnCommitted(txn)
      <4>1. PICK a \in Agent : /\ pending[a] # NoTxn /\ pending[a].txn = txn
                               /\ pending'[a] = NoTxn /\ aborts' = aborts
        BY <1>4, <2>5, <3>2 DEF Settles
      <4>2. ~IsPending(txn)' /\ IsPending(txn)
        BY <2>4, <4>1
      <4> QED BY <4>1, <4>2 DEF DecidedInv, TxnAborted
    <3> QED BY <3>1, <3>2
  <2>6. ASSUME NEW txn, TxnAborted(txn)' PROVE ~IsPending(txn)'
    <3>1. CASE TxnAborted(txn)
      BY <2>3, <3>1 DEF DecidedInv
    <3>2. CASE ~TxnAborted(txn)
      BY <1>4, <2>4, <2>6, <3>2 DEF Settles
    <3> QED BY <3>1, <3>2
  <2> QED BY <1>1, <2>1, <2>2, <2>5, <2>6 DEF DecidedInv
<1>5. ASSUME NEW a \in Agent, NEW s \in Plans[a], Prepare(a, s) PROVE DecidedInv'
  <2>1. /\ pending'[a].txn = NewTxn(a) /\ clock'[a] = clock[a] + 1
        /\ \A b \in Agent : b # a => pending'[b] = pending[b]
        /\ \A txn : HasTrace(txn)' => HasTrace(txn) \/ txn = NewTxn(a)
        /\ \A txn : IsPending(txn)' => IsPending(txn) \/ txn = NewTxn(a)
        /\ \A txn : TxnCommitted(txn)' = TxnCommitted(txn)
        /\ \A txn : TxnAborted(txn)' = TxnAborted(txn)
    BY <1>1, <1>5, PrepareTraces
  <2> PICK t : t = NewTxn(a)
    OBVIOUS
  <2>2. t \in TransactionId /\ Issued(t)' /\ ~Issued(t)
    BY <1>1, <1>2, <2>1 DEF NewTxn, TransactionId, Issued
  <2>3. \A b \in Agent : pending'[b] # NoTxn => pending'[b].txn.agent = b
    BY <2>1 DEF DecidedInv, NewTxn
  <2>4. \A txn : HasTrace(txn)' => txn \in TransactionId /\ Issued(txn)'
    BY <1>3, <2>1, <2>2 DEF DecidedInv
  <2>5. \A txn : TxnCommitted(txn) \/ TxnAborted(txn) => HasTrace(txn)
    BY DEF HasTrace, TxnCommitted, TxnAborted, Known
  <2>6. ~TxnCommitted(t) /\ ~TxnAborted(t)
    BY <2>2, <2>5 DEF DecidedInv
  <2> QED BY <1>1, <2>1, <2>3, <2>4, <2>6 DEF DecidedInv
<1> QED BY <1>1, <1>4, <1>5, StepSettles

LEMMA DecidedInductive == Spec => []DecidedInv
BY DecidedInit, DecidedStep, PTL DEF Spec

\* On any network a transaction that some peer records as committed is neither
\* pending nor called off.
THEOREM CommitIsFinal == Spec => []CommitFinal
<1>1. DecidedInv => CommitFinal
  <2> SUFFICES ASSUME DecidedInv, NEW w \in Agent, NEW l \in foreign_locks[w]
               PROVE  /\ \A a \in Agent : pending[a] # NoTxn => pending[a].txn # l.txn
                      /\ \A d \in aborts : d.txn # l.txn
    BY DEF CommitFinal
  <2>1. TxnCommitted(l.txn)
    BY DEF TxnCommitted
  <2> QED BY <2>1 DEF DecidedInv, IsPending, TxnAborted
<1> QED BY <1>1, DecidedInductive, PTL

\* On any network a transaction is named with an identifier that nobody has
\* seen.
THEOREM TxnIdsAreFresh == Spec => TxnIdsFresh
<1>1. DecidedInv /\ [Next]_vars => FreshTxn
  <2> SUFFICES ASSUME DecidedInv, [Next]_vars, NEW a \in Agent,
                      pending[a] = NoTxn, pending'[a] # NoTxn
               PROVE  pending'[a].txn \notin UsedTxns
    BY DEF FreshTxn
  <2>1. TypeOK /\ \A b \in Agent : clock[b] \in Nat
    BY DEF DecidedInv, TypeOK
  <2>2. PICK b \in Agent : \E s \in Plans[b] : Prepare(b, s)
    BY <2>1, StepSettles DEF Settles
  <2>3. b = a /\ pending'[a].txn = NewTxn(a)
    <3>1. PICK s \in Plans[b] : Prepare(b, s)
      BY <2>2
    <3> QED BY <2>1, <3>1, PrepareTraces
  <2>4. ~Issued(NewTxn(a))
    BY <2>1 DEF NewTxn, Issued
  <2> QED BY <2>3, <2>4, UsedTraced DEF DecidedInv
<1> QED BY <1>1, DecidedInductive, PTL DEF Spec, TxnIdsFresh

-----------------------------------------------------------------------------
(* Refusals, and the register.  At-most-once delivery again.               *)

\* While a PREPARE is on its way its transaction cannot be committed, nor can
\* one of which a refusal is on its way.
OpenInv ==
  /\ IInv /\ RefusedNotCommitted
  /\ \A m \in prepares, a \in Agent : Of(m.txn, own_committed[a]) = {}

\* A peer whose reply is outstanding or is a refusal keeps the coordinator
\* from committing.
LEMMA OutstandingBlocks ==
  ASSUME IInv, NEW a \in Agent, Commit(a)
  PROVE  /\ \A m \in prepares : m.txn # pending[a].txn
         /\ \A k \in acks : k.txn # pending[a].txn
<1>1. pending[a] # NoTxn /\ pending[a].txn.agent = a /\ pending[a].from \subseteq Peers[a]
  BY DEF Commit, IInv, IdsIssued, CountExact
<1>2. pending[a].from = Peers[a] \/ Peers[a] = {}
  BY DEF Commit, IInv, CountExact
<1>3. \A m \in prepares : m.txn = pending[a].txn => m.to \in Peers[a] /\ m.to \notin pending[a].from
  BY <1>1 DEF IInv, PreparesUnanswered
<1>4. \A k \in acks : k.txn = pending[a].txn =>
        k.responder \in Peers[a] /\ k.responder \notin pending[a].from
  BY <1>1 DEF IInv, AcksUncounted
<1> QED BY <1>2, <1>3, <1>4

LEMMA OpenStep == ASSUME Premises PROVE OpenInv /\ [Next]_vars => OpenInv'
<1> SUFFICES ASSUME OpenInv, [Next]_vars PROVE OpenInv'
  OBVIOUS
<1>1. IInv /\ IInv' /\ TypeOK
  BY IInvStep DEF OpenInv, IInv
<1>2. ASSUME \A m \in prepares' : \A a \in Agent : Of(m.txn, own_committed'[a]) = {},
             \A k \in acks' : ~k.accepted => \A a \in Agent : Of(k.txn, own_committed'[a]) = {}
      PROVE  OpenInv'
  BY <1>1, <1>2 DEF OpenInv, RefusedNotCommitted, Of
<1>3. ASSUME \A a \in Agent : own_committed'[a] \subseteq own_committed[a],
             prepares' \subseteq prepares, acks' \subseteq acks
      PROVE  OpenInv'
  BY <1>2, <1>3 DEF OpenInv, RefusedNotCommitted, Of
<1>4. ASSUME NEW a \in Agent, NEW s \in Plans[a], Prepare(a, s) PROVE OpenInv'
  <2>1. UNCHANGED <<own_committed, acks>> /\ \A m \in prepares' : m \in prepares \/ m.txn = NewTxn(a)
    BY <1>4 DEF Prepare, tables, NewTxn
  <2>2. \A b \in Agent : Of(NewTxn(a), own_committed[b]) = {}
    <3>1. ~Issued(NewTxn(a))
      BY <1>1 DEF NewTxn, Issued, TypeOK
    <3> QED BY <1>1, <3>1 DEF IInv, IdsIssued, Of
  <2> QED BY <1>2, <2>1, <2>2 DEF OpenInv, RefusedNotCommitted
<1>5. ASSUME NEW a \in Agent, Commit(a) PROVE OpenInv'
  <2>1. UNCHANGED <<prepares, acks>>
    BY <1>5 DEF Commit
  <2>2. \A b \in Agent : \A l \in own_committed'[b] :
          l \in own_committed[b] \/ l.txn = pending[a].txn
    BY <1>1, <1>5 DEF Commit, TypeOK, Locks
  <2> QED BY <1>1, <1>2, <1>5, <2>1, <2>2, OutstandingBlocks DEF OpenInv, RefusedNotCommitted, Of
<1>6. ASSUME NEW m \in prepares, HandlePrepare(m) PROVE OpenInv'
  <2>1. own_committed' = own_committed /\ prepares' \subseteq prepares
        /\ \A k \in acks' : k \in acks \/ k.txn = m.txn
    BY <1>6, AfterDeliverySubset DEF HandlePrepare
  <2> QED BY <1>2, <2>1 DEF OpenInv, RefusedNotCommitted
<1>7. ASSUME NEW k \in acks, ReceiveAck(k) PROVE OpenInv'
  BY <1>3, <1>7, AfterDeliverySubset DEF ReceiveAck, tables
<1>8. ASSUME NEW a \in Agent, NEW txn, ReleaseOwnLocks(a, txn) \/ ReleaseAllOwnLocks(a)
      PROVE  OpenInv'
  <2>1. \A b \in Agent : own_committed'[b] \subseteq own_committed[b]
    BY <1>1, <1>8 DEF ReleaseOwnLocks, ReleaseAllOwnLocks, Without, TypeOK
  <2> QED BY <1>3, <1>8, <2>1 DEF ReleaseOwnLocks, ReleaseAllOwnLocks, net
<1>9. ASSUME UNCHANGED <<own_committed, prepares, acks>> PROVE OpenInv'
  BY <1>3, <1>9
<1>10. ASSUME NEW a \in Agent, Abort(a) \/ CheckTimeout(a) \/ Gc(a)
       PROVE  UNCHANGED <<own_committed, prepares, acks>>
  BY <1>10 DEF Abort, CheckTimeout, Gc, tables, net
<1>11. ASSUME NEW c \in commits, HandleCommit(c) PROVE UNCHANGED <<own_committed, prepares, acks>>
  BY <1>11 DEF HandleCommit
<1>12. ASSUME NEW d \in aborts, HandleAbort(d) PROVE UNCHANGED <<own_committed, prepares, acks>>
  BY <1>12 DEF HandleAbort
<1>13. ASSUME Tick \/ UNCHANGED vars PROVE UNCHANGED <<own_committed, prepares, acks>>
  BY <1>13 DEF Tick, vars, tables, net
<1> QED
  BY <1>4, <1>5, <1>6, <1>7, <1>8, <1>9, <1>10, <1>11, <1>12, <1>13 DEF Next

\* A request that some peer refused is never committed, provided the network
\* delivers at most once and trajectories fit a PREPARE.
THEOREM RefusalsBind == ASSUME Premises PROVE Spec => []RefusedNotCommitted
<1>1. Init => OpenInv
  BY IInvInit DEF Init, OpenInv, RefusedNotCommitted
<1>2. OpenInv /\ [Next]_vars => OpenInv'
  BY OpenStep
<1>3. OpenInv => RefusedNotCommitted
  BY DEF OpenInv
<1> QED BY <1>1, <1>2, <1>3, PTL DEF Spec

\* Only commit() acquires, and what it acquires clashes with nobody's locks,
\* because nobody's locks clash after the step.
LEMMA StepMapsToRegister ==
  ASSUME TypeOK, LocksExclusive', [Next]_vars
  PROVE  [Register!Next]_(Register!vars)
<1>1. ASSUME NEW a \in Agent, Commit(a) PROVE Register!Acquire(a)
  <2>1. /\ now' = now
        /\ own_committed' =
             [own_committed EXCEPT ![a] = @ \cup Locks(pending[a].txn, pending[a].locks)]
    BY <1>1 DEF Commit
  <2> DEFINE granted == own_committed'[a] \ own_committed[a]
  <2>2. \A l \in granted : l.txn = pending[a].txn
    BY <2>1 DEF TypeOK, Locks
  <2>3. own_committed' = [own_committed EXCEPT ![a] = @ \cup granted]
    BY <2>1 DEF TypeOK
  <2>4. ASSUME NEW b \in Agent \ {a}, NEW l \in granted, NEW k \in own_committed[b],
               Register!Live(l), Register!Live(k)
        PROVE  ~Clash(l.req, k.req)
    <3>1. l \in own_committed'[a] /\ k \in own_committed'[b]
      BY <2>1 DEF TypeOK
    <3>2. Live(l)' /\ Live(k)'
      BY <2>1, <2>4 DEF Live, Register!Live
    <3> QED BY <3>1, <3>2 DEF LocksExclusive
  <2> QED BY <2>1, <2>2, <2>3, <2>4
          DEF Register!Acquire, Register!Clash, Register!Overlaps, Clash, Overlaps
<1>2. ASSUME NEW a \in Agent, NEW txn, ReleaseOwnLocks(a, txn) \/ ReleaseAllOwnLocks(a)
      PROVE  Register!Release(a)
  BY <1>2 DEF ReleaseOwnLocks, ReleaseAllOwnLocks, Without, TypeOK, Register!Release
<1>3. ASSUME Tick PROVE Register!Tick
  BY <1>3 DEF Tick, tables, Register!Tick
<1>4. ASSUME UNCHANGED <<own_committed, now>> PROVE UNCHANGED Register!vars
  BY <1>4 DEF Register!vars
<1>5. ASSUME NEW a \in Agent, NEW s \in Plans[a], Prepare(a, s)
      PROVE  UNCHANGED <<own_committed, now>>
  BY <1>5 DEF Prepare, tables
<1>6. ASSUME NEW a \in Agent, Abort(a) \/ CheckTimeout(a) \/ Gc(a)
      PROVE  UNCHANGED <<own_committed, now>>
  BY <1>6 DEF Abort, CheckTimeout, Gc, tables
<1>7. ASSUME NEW m \in prepares, HandlePrepare(m) PROVE UNCHANGED <<own_committed, now>>
  BY <1>7 DEF HandlePrepare
<1>8. ASSUME NEW k \in acks, ReceiveAck(k) PROVE UNCHANGED <<own_committed, now>>
  BY <1>8 DEF ReceiveAck, tables
<1>9. ASSUME NEW c \in commits, HandleCommit(c) PROVE UNCHANGED <<own_committed, now>>
  BY <1>9 DEF HandleCommit
<1>10. ASSUME NEW d \in aborts, HandleAbort(d) PROVE UNCHANGED <<own_committed, now>>
  BY <1>10 DEF HandleAbort
<1>11. UNCHANGED vars => UNCHANGED <<own_committed, now>>
  BY DEF vars, tables
<1> QED
  BY <1>1, <1>2, <1>3, <1>4, <1>5, <1>6, <1>7, <1>8, <1>9, <1>10, <1>11
  DEF Next, Register!Next

\* The two-phase commit implements the register of locks, under the premises
\* of Exclusion.
THEOREM RegisterImplemented ==
  ASSUME Premises, CommonArbiter
  PROVE  Spec => ImplementsCellLocks
<1>1. Init => Register!Init
  BY DEF Init, Register!Init
<1>2. TypeOK /\ LocksExclusive' /\ [Next]_vars => [Register!Next]_(Register!vars)
  BY StepMapsToRegister
<1>3. Spec => []TypeOK /\ []LocksExclusive
  BY TypeCorrect, Exclusion, PTL
<1> QED BY <1>1, <1>2, <1>3, PTL DEF Spec, Register!Spec, ImplementsCellLocks

=============================================================================
