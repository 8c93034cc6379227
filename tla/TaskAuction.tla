----------------------------- MODULE TaskAuction -----------------------------
(***************************************************************************)
(* The implicit contract net (src/network/implicit_cnp.rs): a CnpManager   *)
(* announces tasks (CFP), collects bids for a window, awards each task to  *)
(* the best bid and retries the tasks nobody bid for; a CnpBidder on every *)
(* agent answers a CFP with a bid.                                         *)
(*                                                                         *)
(* CFPs and bids are sent in three unacknowledged bursts and are not       *)
(* deduplicated: a message that was sent stays in cfps or bids, arrives    *)
(* any number of times, in any order, or never.                            *)
(*                                                                         *)
(* Time is relative, so that it needs no bound: an auction has its age     *)
(* (current_tick - start_tick, capped where nothing depends on it any      *)
(* more), a deferred task the ticks left to next_retry_tick.               *)
(***************************************************************************)
EXTENDS Naturals, FiniteSets

CONSTANTS
  Agent,         \* ids of the bidding agents
  Utility,       \* utilities (u16) compute_bid can come to
  MaxUtility,    \* the largest u16 (65535)
  IdSpace,       \* number of task ids (2^16): next_task_id wraps
  SeqSpace,      \* number of sequence numbers (2^16): seq_no wraps
  BidWindow,     \* BID_WINDOW_TICKS (5)
  RetryInterval, \* RETRY_INTERVAL_TICKS (20)
  BackoffCap,    \* longest backoff (100)
  MaxRetries,    \* MAX_RETRIES (5)
  AuctionAge,    \* age at which a handled auction is collected (500)
  HistoryCap,    \* max_entries of CnpBidder::gc
  MaxTasks,      \* bound: tasks created
  MaxBids,       \* bound: bids sent by one agent
  MaxOpen        \* bound: no task is created while so many are unresolved

ASSUME NumbersAssumption ==
  /\ Agent \subseteq Nat /\ Utility \subseteq Nat /\ MaxUtility \in Nat
  /\ \A u \in Utility : u =< MaxUtility
  /\ {IdSpace, SeqSpace, BidWindow, RetryInterval, BackoffCap, MaxRetries,
      AuctionAge, HistoryCap, MaxTasks, MaxBids, MaxOpen} \subseteq Nat
  /\ BidWindow =< AuctionAge /\ SeqSpace > 0
ASSUME IdsAssumption == MaxTasks + 1 < IdSpace

TaskId == 0 .. IdSpace - 1
Bid == [agent : Agent, utility : Utility]
AuctionState == [bids : SUBSET Bid, age : 0 .. AuctionAge, awarded : BOOLEAN]
DeferredTask == [task : TaskId, retry_count : 0 .. MaxRetries, wait : Nat]

VARIABLES
  next_task_id,
  auctions,     \* auctions[t], for the tasks t the manager still records
  deferred,     \* tasks awaiting a retry
  bid_history,  \* bid_history[a][t]: sequence number of a's bid for t
  seq_no,       \* seq_no[a]
  cfps,         \* CFPs sent, by task id
  bids,         \* bids sent, [task, bid]
  awards,       \* TASK_AWARDs sent, [task, agent]
  gone,         \* tasks given up by check_retries
  heard         \* retried tasks for which a bid reached the manager in time

manager == <<next_task_id, auctions, deferred, awards, gone, heard>>
bidders == <<bid_history, seq_no>>
vars == <<manager, bidders, cfps, bids>>

-----------------------------------------------------------------------------
(* Helpers.  Definitions named ...Bug are faulty variants that no action   *)
(* uses.                                                                   *)

MinOf(m, n) == IF m =< n THEN m ELSE n

\* retry_interval * 2^retry_count, the exponent and the product capped
Backoff(count) == MinOf(RetryInterval * 2 ^ MinOf(count, 3), BackoffCap)

\* Highest utility; the lower id wins a tie.
Better(b, c) ==
  b.utility > c.utility \/ (b.utility = c.utility /\ b.agent =< c.agent)
Best(S) == CHOOSE b \in S : \A c \in S : Better(b, c)

HandledBug(auction) ==
  [auction EXCEPT !.awarded = auction.bids # {} /\ auction.age > BidWindow]
Handled(auction) == [auction EXCEPT !.awarded = TRUE]

SpentBug(d) == d.retry_count > MaxRetries
Spent(d) == d.retry_count >= MaxRetries

\* The auctions whose bid window is over and that nobody has handled.
Closed == {t \in DOMAIN auctions : ~auctions[t].awarded /\ auctions[t].age >= BidWindow}

RetriedBug(d) == [d EXCEPT !.wait = Backoff(d.retry_count + 1)]
Retried(d) ==
  [d EXCEPT !.retry_count = @ + 1, !.wait = Backoff(d.retry_count + 1)]

RecentBug(seq, s) == s < seq

\* seq > cutoff, cutoff = seq_no.wrapping_sub(max_entries / 2)
Recent(seq, s) == s > (SeqSpace + seq - HistoryCap \div 2) % SeqSpace

-----------------------------------------------------------------------------
Init ==
  /\ next_task_id = 1
  /\ auctions = [t \in {} |-> 0] /\ deferred = {}
  /\ bid_history = [a \in Agent |-> [t \in {} |-> 0]]
  /\ seq_no = [a \in Agent |-> 0]
  /\ cfps = {} /\ bids = {} /\ awards = {} /\ gone = {} /\ heard = {}

\* create_task(), and the broadcast of the CFP
CreateTask ==
  /\ next_task_id =< MaxTasks
  /\ Cardinality({t \in DOMAIN auctions : ~auctions[t].awarded}) + Cardinality(deferred)
       < MaxOpen
  /\ next_task_id' = (next_task_id + 1) % IdSpace
  /\ auctions' = [t \in DOMAIN auctions \cup {next_task_id} |->
       IF t = next_task_id THEN [bids |-> {}, age |-> 0, awarded |-> FALSE]
       ELSE auctions[t]]
  /\ cfps' = cfps \cup {next_task_id}
  /\ UNCHANGED <<deferred, awards, gone, heard, bidders, bids>>

AcceptsBug(t) == TRUE
Accepts(t) == ~auctions[t].awarded

\* receive_bid()
ReceiveBid(m) ==
  /\ auctions' = IF m.task \in DOMAIN auctions /\ Accepts(m.task)
                 THEN [auctions EXCEPT ![m.task].bids = @ \cup {m.bid}]
                 ELSE auctions
  /\ heard' = heard \cup {d.task : d \in
                  {e \in deferred : e.task = m.task /\ e.retry_count > 0}}
  /\ UNCHANGED <<next_task_id, deferred, awards, gone, bidders, cfps, bids>>

\* check_awards(): every auction whose window is over, in one call
CheckAwards ==
  LET won == {t \in Closed : auctions[t].bids # {}}
  IN  /\ Closed # {}
      /\ auctions' = [t \in DOMAIN auctions |->
           IF t \in Closed THEN Handled(auctions[t]) ELSE auctions[t]]
      /\ awards' = awards \cup
           {[task |-> t, agent |-> Best(auctions[t].bids).agent] : t \in won}
      /\ deferred' = deferred \cup
           {[task |-> t, retry_count |-> 0, wait |-> RetryInterval] : t \in Closed \ won}
      /\ UNCHANGED <<next_task_id, gone, heard, bidders, cfps, bids>>

\* check_retries(), and the broadcast of the returned CFPs.  The auction of a
\* retried task stays as check_awards left it: handled.
CheckRetries ==
  LET due == {d \in deferred : d.wait = 0}
      spent == {d \in due : Spent(d)}
  IN  /\ due # {}
      /\ deferred' = (deferred \ due) \cup {Retried(d) : d \in due \ spent}
      /\ gone' = gone \cup {d.task : d \in spent}
      /\ cfps' = cfps \cup {d.task : d \in due \ spent}
      /\ UNCHANGED <<next_task_id, auctions, awards, heard, bidders, bids>>

KeptBug(auction) == auction.age < AuctionAge
Kept(auction) == ~auction.awarded \/ auction.age < AuctionAge

\* CnpManager::gc()
ManagerGc ==
  /\ auctions' = [t \in {u \in DOMAIN auctions : Kept(auctions[u])} |-> auctions[t]]
  /\ UNCHANGED <<next_task_id, deferred, awards, gone, heard, bidders, cfps, bids>>

\* compute_bid() for a CFP that arrived, and the bid it sends.  The utility is
\* left open: distance, battery and queue depth change between two calls.
ComputeBid(a, t, u) ==
  LET seq == (seq_no[a] + 1) % SeqSpace
  IN  /\ seq_no[a] < MaxBids
      /\ t \notin DOMAIN bid_history[a]
      /\ seq_no' = [seq_no EXCEPT ![a] = seq]
      /\ bid_history' = [bid_history EXCEPT ![a] =
           [k \in DOMAIN bid_history[a] \cup {t} |->
              IF k = t THEN seq ELSE bid_history[a][k]]]
      /\ bids' = bids \cup {[task |-> t, bid |-> [agent |-> a, utility |-> u]]}
      /\ UNCHANGED <<manager, cfps>>

\* CnpBidder::gc()
BidderGc(a) ==
  LET history == bid_history[a]
      kept == {t \in DOMAIN history : Recent(seq_no[a], history[t])}
  IN  /\ Cardinality(DOMAIN history) > HistoryCap
      /\ bid_history' = [bid_history EXCEPT ![a] = [t \in kept |-> history[t]]]
      /\ UNCHANGED <<manager, seq_no, cfps, bids>>

Tick ==
  /\ auctions' = [t \in DOMAIN auctions |->
       [auctions[t] EXCEPT !.age = MinOf(@ + 1, AuctionAge)]]
  /\ deferred' = {[d EXCEPT !.wait = IF @ = 0 THEN 0 ELSE @ - 1] : d \in deferred}
  /\ UNCHANGED <<next_task_id, awards, gone, heard, bidders, cfps, bids>>

Next ==
  \/ CreateTask \/ CheckAwards \/ CheckRetries \/ ManagerGc \/ Tick
  \/ \E m \in bids : ReceiveBid(m)
  \/ \E a \in Agent : \/ \E t \in cfps, u \in Utility : ComputeBid(a, t, u)
                      \/ BidderGc(a)

Spec == Init /\ [][Next]_vars

\* The manager's driver polls: time passes, and closed auctions and due
\* retries are looked at.  Nothing is assumed of the network or the bidders.
Fairness == WF_vars(Tick) /\ WF_vars(CheckAwards) /\ WF_vars(CheckRetries)
FairSpec == Spec /\ Fairness

-----------------------------------------------------------------------------
(* Properties *)

\* Every variable keeps its type.
TypeOK ==
  /\ next_task_id \in TaskId
  /\ DOMAIN auctions \subseteq TaskId
  /\ \A t \in DOMAIN auctions : auctions[t] \in AuctionState
  /\ deferred \subseteq DeferredTask
  /\ \A a \in Agent : DOMAIN bid_history[a] \subseteq TaskId
                      /\ \A t \in DOMAIN bid_history[a] : bid_history[a][t] \in 0 .. SeqSpace - 1
  /\ seq_no \in [Agent -> 0 .. SeqSpace - 1]
  /\ cfps \subseteq TaskId
  /\ bids \subseteq [task : TaskId, bid : Bid]
  /\ awards \subseteq [task : TaskId, agent : Agent]
  /\ gone \subseteq TaskId /\ heard \subseteq TaskId

\* A task is awarded to one agent only, however often its CFP and its bids
\* are repeated: no two robots set out for one pickup.
OneWinner == \A x, y \in awards : x.task = y.task => x = y

\* As long as an auction is on record its award stands against every bid on
\* record: nobody bid more, and on a tie nobody has a lower id ("Award to
\* highest utility; tiebreak by lowest agent_id").
BestBidWins ==
  \A x \in awards : x.task \in DOMAIN auctions =>
    \E b \in auctions[x.task].bids :
      /\ b.agent = x.agent
      /\ \A c \in auctions[x.task].bids :
           c.utility < b.utility \/ (c.utility = b.utility /\ b.agent =< c.agent)

\* A task is in one place: a task that is being retried, or was given up, has
\* no winner, is queued once, and its auction is not open.
DeferredApart ==
  /\ \A d \in deferred :
       /\ \A x \in awards : x.task # d.task
       /\ \A e \in deferred : e.task = d.task => e = d
       /\ d.task \notin gone
       /\ d.task \in DOMAIN auctions => auctions[d.task].awarded
  /\ \A x \in awards : x.task \notin gone

\* No task is forgotten: what was announced is open, awarded, queued for a
\* retry or given up, whatever gc collects.
NoTaskLost ==
  \A t \in 1 .. next_task_id - 1 :
    \/ t \in DOMAIN auctions /\ ~auctions[t].awarded
    \/ \E x \in awards : x.task = t
    \/ \E d \in deferred : d.task = t
    \/ t \in gone

\* A bidder remembers its most recent bids, so that the next copy of a CFP is
\* not answered again ("Keep only the most recent half").
RecentBidsKnown ==
  \A a \in Agent : \A s \in 1 .. seq_no[a] :
    s + HistoryCap \div 2 > seq_no[a] =>
      \E t \in DOMAIN bid_history[a] : bid_history[a][t] = s

\* Every task is eventually awarded or given up: retries end.
TaskResolves ==
  \A t \in 1 .. MaxTasks :
    t < next_task_id ~> t \in gone \/ \E x \in awards : x.task = t

\* The allocation of tasks that the contract net implements: each is decided
\* once and for all, for an agent that bid for it or for none.
Allocation == INSTANCE TaskAllocation WITH
  announced <- next_task_id - 1,
  offers <- {[task |-> m.task, agent |-> m.bid.agent] : m \in bids},
  allocated <- awards,
  dropped <- gone
ImplementsAllocation == Allocation!Spec

\* A task is given up only if no bid reached the manager while it was being
\* retried ("~85% first window, ~99.5% after retry"): a retry that is answered
\* leads to an award.
GivenUpUnwanted == gone \cap heard = {}

=============================================================================
