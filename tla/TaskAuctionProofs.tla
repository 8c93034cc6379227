-------------------------- MODULE TaskAuctionProofs --------------------------
(***************************************************************************)
(* The contract net, for any number of agents, tasks, bids and retries,    *)
(* and any repetition, reordering and loss of messages: one winner a task, *)
(* the best bidder; no task in two places, and none forgotten.             *)
(***************************************************************************)
EXTENDS TaskAuction, FiniteSetTheorems, TLAPS

Issued == 1 .. next_task_id - 1

\* Tasks are recorded under ids that were issued, so that a new id is fresh.
Shapes ==
  /\ next_task_id \in 1 .. MaxTasks + 1
  /\ DOMAIN auctions \subseteq Issued
  /\ \A t \in DOMAIN auctions :
       auctions[t] \in [bids : SUBSET Bid, age : Nat, awarded : BOOLEAN]
  /\ \A d \in deferred :
       /\ d.task \in Issued
       /\ DOMAIN d = {"task", "retry_count", "wait"}
  /\ \A x \in awards : x.task \in Issued
  /\ gone \subseteq Issued
  /\ \A m \in bids : m.bid \in Bid

\* An auction is handled before its task is awarded, deferred or given up, and
\* stays so: check_awards never takes it up again.
HandledOnce ==
  /\ \A x \in awards : x.task \in DOMAIN auctions => auctions[x.task].awarded
  /\ \A t \in gone : t \in DOMAIN auctions => auctions[t].awarded

AuctionInv ==
  Shapes /\ HandledOnce /\ OneWinner /\ DeferredApart /\ NoTaskLost /\ BestBidWins

-----------------------------------------------------------------------------
LEMMA LeastNatural ==
  ASSUME NEW T \in SUBSET Nat, T # {}
  PROVE  \E m \in T : \A k \in T : m =< k
<1> DEFINE less == {ss \in Nat \X Nat : ss[1] < ss[2]}
<1>1. IsWellFoundedOn(less, Nat)
  BY NatLessThanWellFounded, Zenon DEF OpToRel
<1> HIDE DEF less
<1>2. PICK m \in T : \A k \in T : ~(<<k, m>> \in less)
  BY <1>1, WFMin
<1>3. SUFFICES ASSUME NEW k \in T PROVE m =< k
  BY <1>2
<1>4. m \in Nat /\ k \in Nat /\ ~(m =< k) => <<k, m>> \in Nat \X Nat /\ k < m
  BY SMT
<1>5. <<k, m>> \in Nat \X Nat /\ k < m => <<k, m>> \in less
  BY Zenon DEF less
<1> QED BY <1>2, <1>4, <1>5

\* A set of bids has a best one: utilities and ids are bounded from one side.
LEMMA BestExists ==
  ASSUME NEW S \in SUBSET Bid, S # {}
  PROVE  Best(S) \in S /\ \A c \in S : Better(Best(S), c)
<1> DEFINE Short == {MaxUtility - b.utility : b \in S}
<1>1. \A b \in S : /\ b.utility \in Nat /\ b.utility =< MaxUtility /\ b.agent \in Nat
                  /\ MaxUtility \in Nat
  BY NumbersAssumption DEF Bid
<1>2. Short \in SUBSET Nat /\ Short # {}
  BY <1>1
<1>3. PICK m \in Short : \A k \in Short : m =< k
  BY <1>2, LeastNatural
<1>4. PICK top \in S : m = MaxUtility - top.utility
  BY <1>3
<1>5. \A c \in S : c.utility =< top.utility
  <2> TAKE c \in S
  <2>1. MaxUtility - top.utility =< MaxUtility - c.utility
    BY <1>3, <1>4
  <2> QED BY <1>1, <2>1
<1> DEFINE Ids == {b.agent : b \in {a \in S : a.utility = top.utility}}
<1>6. Ids \in SUBSET Nat /\ Ids # {}
  BY <1>1
<1>7. PICK i \in Ids : \A k \in Ids : i =< k
  BY <1>6, LeastNatural
<1>8. PICK best \in S : best.utility = top.utility /\ best.agent = i
  BY <1>7
<1>9. \A c \in S : Better(best, c)
  <2> TAKE c \in S
  <2>1. CASE c.utility = top.utility
    BY <1>7, <1>8, <2>1 DEF Better
  <2>2. CASE c.utility # top.utility
    BY <1>1, <1>5, <1>8, <2>2 DEF Better
  <2> QED BY <2>1, <2>2
<1> QED BY <1>9 DEF Best

LEMMA SmallMod == ASSUME NEW k \in Nat, NEW n \in Nat, k < n PROVE k % n = k
<1>1. n > 0
  OBVIOUS
<1> QED BY <1>1

LEMMA FreshId == ASSUME Shapes
              PROVE  next_task_id \notin Issued /\ next_task_id \in Nat \ {0}
BY NumbersAssumption DEF Shapes, Issued

-----------------------------------------------------------------------------
LEMMA InitAuction == Init => AuctionInv
<1> SUFFICES ASSUME Init PROVE AuctionInv
  OBVIOUS
<1>1. next_task_id \in 1 .. MaxTasks + 1
  BY NumbersAssumption DEF Init
<1>2. Shapes
  BY <1>1 DEF Init, Shapes, Issued
<1>3. Issued = {}
  BY DEF Init, Issued
<1> QED BY <1>2, <1>3
     DEF Init, AuctionInv, HandledOnce, OneWinner, DeferredApart, NoTaskLost, BestBidWins, Issued

\* Task ids do not wrap while the manager creates at most MaxTasks of them.
LEMMA NextId ==
  ASSUME Shapes, CreateTask
  PROVE  /\ next_task_id \in Nat \ {0} /\ next_task_id =< MaxTasks /\ MaxTasks \in Nat
         /\ next_task_id' = next_task_id + 1
         /\ Issued' = Issued \cup {next_task_id} /\ next_task_id \notin Issued
<1>1. MaxTasks \in Nat /\ IdSpace \in Nat
  BY NumbersAssumption
<1>2. next_task_id \in Nat \ {0} /\ next_task_id =< MaxTasks
  BY FreshId DEF CreateTask
<1>3. next_task_id + 1 \in 0 .. IdSpace - 1
  BY <1>1, <1>2, IdsAssumption
<1>4. (next_task_id + 1) % IdSpace = next_task_id + 1
  BY <1>1, <1>3, SmallMod
<1>5. next_task_id' = next_task_id + 1
  BY <1>4 DEF CreateTask
<1> QED BY <1>1, <1>2, <1>5, FreshId DEF Issued

LEMMA CreateStep == ASSUME AuctionInv, CreateTask PROVE AuctionInv'
<1> USE DEF AuctionInv
<1>1. /\ next_task_id \in Nat \ {0} /\ next_task_id =< MaxTasks /\ MaxTasks \in Nat
      /\ next_task_id' = next_task_id + 1
  BY NextId
<1>2. Issued' = Issued \cup {next_task_id} /\ next_task_id \notin Issued
  BY NextId
<1>3. /\ DOMAIN auctions' = DOMAIN auctions \cup {next_task_id}
      /\ auctions'[next_task_id] = [bids |-> {}, age |-> 0, awarded |-> FALSE]
      /\ \A t \in DOMAIN auctions : auctions'[t] = auctions[t]
  BY <1>2 DEF CreateTask, Shapes
<1>4. deferred' = deferred /\ awards' = awards /\ gone' = gone /\ bids' = bids
  BY DEF CreateTask
<1>5. Shapes'
  <2>1. next_task_id' \in 1 .. MaxTasks + 1
    BY <1>1 DEF Shapes
  <2>2. \A t \in DOMAIN auctions' :
          auctions'[t] \in [bids : SUBSET Bid, age : Nat, awarded : BOOLEAN]
    <3>1. [bids |-> {}, age |-> 0, awarded |-> FALSE]
            \in [bids : SUBSET Bid, age : Nat, awarded : BOOLEAN]
      OBVIOUS
    <3> QED BY <1>3, <3>1, Zenon DEF Shapes
  <2> QED BY <1>2, <1>3, <1>4, <2>1, <2>2 DEF Shapes
<1>6. HandledOnce' /\ OneWinner' /\ DeferredApart' /\ BestBidWins'
  BY <1>2, <1>3, <1>4 DEF Shapes, HandledOnce, OneWinner, DeferredApart, BestBidWins
<1>7. NoTaskLost'
  <2>1. ~auctions'[next_task_id].awarded
    BY <1>3
  <2> QED BY <1>2, <1>3, <1>4, <2>1 DEF NoTaskLost, Issued
<1> QED BY <1>5, <1>6, <1>7

\* receive_bid leaves the bids of a handled auction alone.
LEMMA ReceiveStep == ASSUME AuctionInv, NEW m \in bids, ReceiveBid(m) PROVE AuctionInv'
<1> USE DEF AuctionInv
<1>1. /\ next_task_id' = next_task_id /\ deferred' = deferred /\ awards' = awards
      /\ gone' = gone /\ bids' = bids
  BY DEF ReceiveBid
<1>2. DOMAIN auctions' = DOMAIN auctions
  BY DEF ReceiveBid
<1>3. \A t \in DOMAIN auctions :
        /\ auctions'[t] \in [bids : SUBSET Bid, age : Nat, awarded : BOOLEAN]
        /\ auctions'[t].awarded = auctions[t].awarded
        /\ auctions[t].awarded => auctions'[t] = auctions[t]
  BY DEF ReceiveBid, Accepts, Shapes
<1>4. Shapes'
  BY <1>1, <1>2, <1>3 DEF Shapes, Issued
<1> QED BY <1>1, <1>2, <1>3, <1>4
     DEF HandledOnce, OneWinner, DeferredApart, NoTaskLost, BestBidWins

\* check_awards handles exactly the closed auctions, whose tasks were neither
\* awarded, nor deferred, nor given up before.
LEMMA AwardStep == ASSUME AuctionInv, CheckAwards PROVE AuctionInv'
<1> USE DEF AuctionInv
<1> DEFINE won == {t \in Closed : auctions[t].bids # {}}
           Prize(t) == [task |-> t, agent |-> Best(auctions[t].bids).agent]
           Later(t) == [task |-> t, retry_count |-> 0, wait |-> RetryInterval]
<1>1. /\ next_task_id' = next_task_id /\ gone' = gone /\ bids' = bids
      /\ awards' = awards \cup {Prize(t) : t \in won}
      /\ deferred' = deferred \cup {Later(t) : t \in Closed \ won}
  BY DEF CheckAwards
<1>2. /\ DOMAIN auctions' = DOMAIN auctions
      /\ \A t \in DOMAIN auctions :
           /\ auctions'[t] \in [bids : SUBSET Bid, age : Nat, awarded : BOOLEAN]
           /\ auctions'[t].bids = auctions[t].bids
           /\ auctions'[t].awarded <=> auctions[t].awarded \/ t \in Closed
  BY DEF CheckAwards, Handled, Shapes
<1>3. Closed \subseteq DOMAIN auctions /\ \A t \in Closed : ~auctions[t].awarded
  BY DEF Closed
<1>4. \A t \in Closed :
        /\ \A x \in awards : x.task # t
        /\ \A d \in deferred : d.task # t
        /\ t \notin gone /\ t \in Issued
  BY <1>3 DEF HandledOnce, DeferredApart, Shapes
<1>5. Issued' = Issued
  BY <1>1 DEF Issued
<1>6. Shapes'
  <2>1. \A d \in deferred' :
          /\ d.task \in Issued
          /\ DOMAIN d = {"task", "retry_count", "wait"}
    BY <1>1, <1>4 DEF Shapes
  <2>2. \A x \in awards' : x.task \in Issued
    BY <1>1, <1>4 DEF Shapes
  <2> QED BY <1>1, <1>2, <1>5, <2>1, <2>2 DEF Shapes
<1>7. HandledOnce'
  BY <1>1, <1>2, <1>3 DEF HandledOnce
<1>8. OneWinner'
  BY <1>1, <1>4 DEF OneWinner
<1>9. DeferredApart'
  <2>1. \A t \in Closed \ won : \A x \in awards' : x.task # t
    BY <1>1, <1>4
  <2>2. \A d \in deferred : d.task \notin Closed
    BY <1>4
  <2>3. \A d \in deferred', x \in awards' : x.task # d.task
    BY <1>1, <2>1, <2>2 DEF DeferredApart
  <2>4. \A d, e \in deferred' : e.task = d.task => e = d
    BY <1>1, <2>2 DEF DeferredApart
  <2>5. \A d \in deferred' : d.task \notin gone'
    BY <1>1, <1>4 DEF DeferredApart
  <2>6. \A d \in deferred' : d.task \in DOMAIN auctions' => auctions'[d.task].awarded
    BY <1>1, <1>2, <1>3 DEF DeferredApart
  <2>7. \A x \in awards' : x.task \notin gone'
    BY <1>1, <1>4 DEF DeferredApart
  <2> QED BY <2>3, <2>4, <2>5, <2>6, <2>7 DEF DeferredApart
<1>10. NoTaskLost'
  <2> SUFFICES ASSUME NEW t \in Issued
               PROVE  \/ t \in DOMAIN auctions' /\ ~auctions'[t].awarded
                      \/ \E x \in awards' : x.task = t
                      \/ \E d \in deferred' : d.task = t
                      \/ t \in gone'
    BY <1>1 DEF NoTaskLost, Issued
  <2>1. CASE t \in won
    <3>1. Prize(t) \in awards' /\ Prize(t).task = t
      BY <1>1, <2>1
    <3> QED BY <3>1
  <2>2. CASE t \in Closed \ won
    <3>1. Later(t) \in deferred' /\ Later(t).task = t
      BY <1>1, <2>2
    <3> QED BY <3>1
  <2>3. CASE t \notin Closed
    BY <1>1, <1>2, <2>3 DEF NoTaskLost, Issued
  <2> QED BY <2>1, <2>2, <2>3
<1>11. BestBidWins'
  <2> SUFFICES ASSUME NEW x \in awards', x.task \in DOMAIN auctions
               PROVE  \E b \in auctions[x.task].bids :
                        /\ b.agent = x.agent
                        /\ \A c \in auctions[x.task].bids :
                             c.utility < b.utility
                             \/ (c.utility = b.utility /\ b.agent =< c.agent)
    BY <1>2 DEF BestBidWins
  <2>1. CASE x \in awards
    BY <2>1 DEF BestBidWins
  <2>2. ASSUME NEW t \in won, x = Prize(t)
        PROVE  \E b \in auctions[x.task].bids :
                 /\ b.agent = x.agent
                 /\ \A c \in auctions[x.task].bids :
                      c.utility < b.utility
                      \/ (c.utility = b.utility /\ b.agent =< c.agent)
    <3> DEFINE S == auctions[t].bids
    <3>1. S \in SUBSET Bid /\ S # {}
      BY <1>3 DEF Shapes
    <3>2. Best(S) \in S /\ \A c \in S : Better(Best(S), c)
      BY <3>1, BestExists
    <3>3. \A b \in S : b.utility \in Nat
      BY <3>1, NumbersAssumption DEF Bid
    <3>4. \A c \in S : \/ c.utility < Best(S).utility
                       \/ c.utility = Best(S).utility /\ Best(S).agent =< c.agent
      BY <3>2, <3>3 DEF Better
    <3>5. x.task = t /\ x.agent = Best(S).agent
      BY <2>2
    <3> QED BY <3>2, <3>4, <3>5
  <2> QED BY <1>1, <2>1, <2>2
<1> QED BY <1>6, <1>7, <1>8, <1>9, <1>10, <1>11

\* check_retries moves each due task to its next retry, or gives it up.
LEMMA RetryStep == ASSUME AuctionInv, CheckRetries PROVE AuctionInv'
<1> USE DEF AuctionInv
<1> DEFINE due == {d \in deferred : d.wait = 0}
           spent == {d \in due : Spent(d)}
<1>1. /\ next_task_id' = next_task_id /\ auctions' = auctions /\ awards' = awards
      /\ bids' = bids
      /\ deferred' = (deferred \ due) \cup {Retried(d) : d \in due \ spent}
      /\ gone' = gone \cup {d.task : d \in spent}
  BY DEF CheckRetries
<1>2. \A d \in deferred :
        /\ Retried(d).task = d.task
        /\ DOMAIN Retried(d) = {"task", "retry_count", "wait"}
  BY DEF Shapes, Retried
<1>3. \A e \in deferred' :
        \E d \in deferred \ spent :
          /\ d.task = e.task
          /\ (e = d /\ d \notin due) \/ (e = Retried(d) /\ d \in due)
  BY <1>1, <1>2
<1>4. Shapes'
  <2>1. \A e \in deferred' :
          /\ e.task \in Issued
          /\ DOMAIN e = {"task", "retry_count", "wait"}
    BY <1>1, <1>2 DEF Shapes
  <2>2. gone' \subseteq Issued
    BY <1>1 DEF Shapes
  <2> QED BY <1>1, <2>1, <2>2 DEF Shapes, Issued
<1>5. HandledOnce' /\ OneWinner' /\ BestBidWins'
  BY <1>1 DEF HandledOnce, OneWinner, BestBidWins, DeferredApart
<1>6. DeferredApart'
  <2>1. \A d, e \in deferred : d.task = e.task => d = e
    BY DEF DeferredApart
  <2>2. \A d, e \in deferred' : e.task = d.task => e = d
    <3> TAKE d, e \in deferred'
    <3>1. PICK dd \in deferred \ spent :
            /\ dd.task = d.task
            /\ (d = dd /\ dd \notin due) \/ (d = Retried(dd) /\ dd \in due)
      BY <1>3
    <3>2. PICK ee \in deferred \ spent :
            /\ ee.task = e.task
            /\ (e = ee /\ ee \notin due) \/ (e = Retried(ee) /\ ee \in due)
      BY <1>3
    <3> QED BY <2>1, <3>1, <3>2
  <2>3. \A d \in deferred' : d.task \notin gone'
    BY <1>1, <1>3, <2>1 DEF DeferredApart
  <2>4. \A d \in deferred' : /\ \A x \in awards' : x.task # d.task
                             /\ d.task \in DOMAIN auctions' => auctions'[d.task].awarded
    BY <1>1, <1>3 DEF DeferredApart
  <2>5. \A x \in awards' : x.task \notin gone'
    BY <1>1 DEF DeferredApart
  <2> QED BY <2>2, <2>3, <2>4, <2>5 DEF DeferredApart
<1>7. NoTaskLost'
  <2>1. \A d \in deferred : d.task \in gone' \/ \E e \in deferred' : e.task = d.task
    <3> TAKE d \in deferred
    <3>1. CASE d \in spent
      BY <1>1, <3>1
    <3>2. CASE d \in due \ spent
      <4>1. Retried(d) \in deferred' /\ Retried(d).task = d.task
        BY <1>1, <1>2, <3>2
      <4> QED BY <4>1
    <3>3. CASE d \notin due
      BY <1>1, <3>3
    <3> QED BY <3>1, <3>2, <3>3
  <2>2. gone \subseteq gone'
    BY <1>1
  <2> QED BY <1>1, <2>1, <2>2 DEF NoTaskLost
<1> QED BY <1>4, <1>5, <1>6, <1>7

\* gc drops only auctions that were handled: their tasks are elsewhere.
LEMMA GcStep == ASSUME AuctionInv, ManagerGc PROVE AuctionInv'
<1> USE DEF AuctionInv
<1>1. /\ next_task_id' = next_task_id /\ deferred' = deferred /\ awards' = awards
      /\ gone' = gone /\ bids' = bids
  BY DEF ManagerGc
<1>2. /\ DOMAIN auctions' \subseteq DOMAIN auctions
      /\ \A t \in DOMAIN auctions' : auctions'[t] = auctions[t]
      /\ \A t \in DOMAIN auctions : ~auctions[t].awarded => t \in DOMAIN auctions'
  BY DEF ManagerGc, Kept
<1>3. Shapes'
  BY <1>1, <1>2 DEF Shapes, Issued
<1>4. NoTaskLost'
  BY <1>1, <1>2 DEF NoTaskLost
<1> QED BY <1>1, <1>2, <1>3, <1>4 DEF HandledOnce, OneWinner, DeferredApart, BestBidWins

LEMMA TickStep == ASSUME AuctionInv, Tick PROVE AuctionInv'
<1> USE DEF AuctionInv
<1> DEFINE Older(d) == [d EXCEPT !.wait = IF @ = 0 THEN 0 ELSE @ - 1]
<1>1. /\ next_task_id' = next_task_id /\ awards' = awards /\ gone' = gone /\ bids' = bids
      /\ deferred' = {Older(d) : d \in deferred}
  BY DEF Tick
<1>2. /\ DOMAIN auctions' = DOMAIN auctions
      /\ \A t \in DOMAIN auctions :
           /\ auctions'[t] \in [bids : SUBSET Bid, age : Nat, awarded : BOOLEAN]
           /\ auctions'[t].bids = auctions[t].bids
           /\ auctions'[t].awarded = auctions[t].awarded
  BY NumbersAssumption DEF Tick, Shapes, MinOf
<1>3. \A d \in deferred :
        /\ Older(d).task = d.task
        /\ DOMAIN Older(d) = {"task", "retry_count", "wait"}
  BY DEF Shapes
<1> HIDE DEF Older
<1>4. Shapes'
  <2>1. \A e \in deferred' :
          /\ e.task \in Issued
          /\ DOMAIN e = {"task", "retry_count", "wait"}
    BY <1>1, <1>3 DEF Shapes
  <2> QED BY <1>1, <1>2, <2>1 DEF Shapes, Issued
<1>5. HandledOnce' /\ OneWinner' /\ BestBidWins'
  BY <1>1, <1>2 DEF HandledOnce, OneWinner, BestBidWins
<1>6. DeferredApart'
  BY <1>1, <1>2, <1>3 DEF DeferredApart
<1>7. NoTaskLost'
  <2>1. \A d \in deferred : \E e \in deferred' : e.task = d.task
    BY <1>1, <1>3
  <2> QED BY <1>1, <1>2, <2>1 DEF NoTaskLost
<1> QED BY <1>4, <1>5, <1>6, <1>7

\* A bidder reaches the manager's state only by its bids.
LEMMA BidderStep ==
  ASSUME AuctionInv, NEW a \in Agent,
         (\E t \in cfps, u \in Utility : ComputeBid(a, t, u)) \/ BidderGc(a)
  PROVE  AuctionInv'
<1> USE DEF AuctionInv
<1>1. /\ next_task_id' = next_task_id /\ auctions' = auctions /\ deferred' = deferred
      /\ awards' = awards /\ gone' = gone
  BY DEF ComputeBid, BidderGc, manager
<1>2. \A m \in bids' : m.bid \in Bid
  <2>1. CASE \E t \in cfps, u \in Utility : ComputeBid(a, t, u)
    <3>1. PICK t \in cfps, u \in Utility : ComputeBid(a, t, u)
      BY <2>1
    <3>2. bids' = bids \cup {[task |-> t, bid |-> [agent |-> a, utility |-> u]]}
      BY <3>1 DEF ComputeBid
    <3> QED BY <3>2 DEF Bid, Shapes
  <2>2. CASE BidderGc(a)
    BY <2>2 DEF BidderGc, Shapes
  <2> QED BY <2>1, <2>2
<1>3. Shapes'
  BY <1>1, <1>2 DEF Shapes, Issued
<1> QED BY <1>1, <1>3 DEF HandledOnce, OneWinner, DeferredApart, NoTaskLost, BestBidWins

\* Where each task is, and who won it, together inductive.
THEOREM AuctionInductive == Spec => []AuctionInv
<1>1. Init => AuctionInv
  BY InitAuction
<1>2. AuctionInv /\ [Next]_vars => AuctionInv'
  <2> SUFFICES ASSUME AuctionInv, [Next]_vars PROVE AuctionInv'
    OBVIOUS
  <2>1. CASE CreateTask \/ CheckAwards \/ CheckRetries \/ ManagerGc \/ Tick
    BY <2>1, CreateStep, AwardStep, RetryStep, GcStep, TickStep
  <2>2. CASE \E m \in bids : ReceiveBid(m)
    BY <2>2, ReceiveStep
  <2>3. CASE \E a \in Agent : \/ \E t \in cfps, u \in Utility : ComputeBid(a, t, u)
                              \/ BidderGc(a)
    BY <2>3, BidderStep
  <2>4. CASE UNCHANGED vars
    BY <2>4 DEF vars, manager, bidders, AuctionInv, Shapes, Issued, HandledOnce, OneWinner,
                DeferredApart, NoTaskLost, BestBidWins
  <2> QED BY <2>1, <2>2, <2>3, <2>4 DEF Next
<1> QED BY <1>1, <1>2, PTL DEF Spec

\* A task is awarded to one agent only.
THEOREM SingleWinner == Spec => []OneWinner
BY AuctionInductive, PTL DEF AuctionInv

\* The winner on record has the best bid on record.
THEOREM WinnerIsBest == Spec => []BestBidWins
BY AuctionInductive, PTL DEF AuctionInv

\* A deferred task has no winner, is queued once and is not open.
THEOREM DeferralsApart == Spec => []DeferredApart
BY AuctionInductive, PTL DEF AuctionInv

\* Every task announced is open, awarded, queued or given up.
THEOREM NoneForgotten == Spec => []NoTaskLost
BY AuctionInductive, PTL DEF AuctionInv

-----------------------------------------------------------------------------
(* The types, given that invariant.                                        *)

AuctionsTyped == \A t \in DOMAIN auctions : auctions[t] \in AuctionState

MessagesTyped ==
  /\ cfps \subseteq TaskId /\ bids \subseteq [task : TaskId, bid : Bid]
  /\ gone \subseteq TaskId /\ heard \subseteq TaskId
  /\ \A x \in awards : x \in [task : TaskId, agent : Agent]

HistoriesTyped ==
  /\ DOMAIN bid_history = Agent /\ seq_no \in [Agent -> 0 .. SeqSpace - 1]
  /\ \A a \in Agent :
       /\ DOMAIN bid_history[a] \subseteq TaskId
       /\ \A t \in DOMAIN bid_history[a] : bid_history[a][t] \in 0 .. SeqSpace - 1

Types ==
  AuctionsTyped /\ deferred \subseteq DeferredTask /\ MessagesTyped /\ HistoriesTyped

LEMMA BackoffNat == ASSUME NEW count \in Nat PROVE Backoff(count) \in Nat
<1>1. MinOf(count, 3) \in {0, 1, 2, 3}
  BY DEF MinOf
<1>2. 2 ^ MinOf(count, 3) \in {1, 2, 4, 8}
  <2>1. 2 ^ 0 = 1 /\ 2 ^ 1 = 2 /\ 2 ^ 2 = 4 /\ 2 ^ 3 = 8
    OBVIOUS
  <2> QED BY <1>1, <2>1
<1>3. RetryInterval * 2 ^ MinOf(count, 3) \in Nat
  BY <1>2, NumbersAssumption
<1> QED BY <1>3, NumbersAssumption DEF Backoff, MinOf

LEMMA IssuedIds == ASSUME Shapes PROVE Issued \subseteq TaskId /\ next_task_id \in TaskId
BY NumbersAssumption, IdsAssumption DEF Shapes, Issued, TaskId

\* The steps of the manager and of the network.
LEMMA ManagerTypes ==
  ASSUME AuctionInv, Types,
         CreateTask \/ CheckAwards \/ ManagerGc \/ Tick \/ \E m \in bids : ReceiveBid(m)
  PROVE  Types'
<1> USE NumbersAssumption
<1>1. CASE CreateTask
  <2>1. next_task_id \in TaskId
    BY IssuedIds DEF AuctionInv
  <2>2. [bids |-> {}, age |-> 0, awarded |-> FALSE] \in AuctionState
    BY DEF AuctionState
  <2> QED BY <1>1, <2>1, <2>2
       DEF CreateTask, bidders, Types, AuctionsTyped, MessagesTyped, HistoriesTyped
<1>2. CASE CheckAwards
  <2> DEFINE won == {t \in Closed : auctions[t].bids # {}}
  <2>1. /\ \A t \in DOMAIN auctions' : t \in DOMAIN auctions /\
             (auctions'[t] = auctions[t] \/ auctions'[t] = Handled(auctions[t]))
        /\ awards' = awards \cup
             {[task |-> t, agent |-> Best(auctions[t].bids).agent] : t \in won}
        /\ deferred' = deferred \cup
             {[task |-> t, retry_count |-> 0, wait |-> RetryInterval] : t \in Closed \ won}
        /\ UNCHANGED <<gone, heard, bid_history, seq_no, cfps, bids>>
    BY <1>2 DEF CheckAwards, bidders
  <2>2. Closed \subseteq TaskId /\ Closed \subseteq DOMAIN auctions
    BY IssuedIds DEF Closed, AuctionInv, Shapes
  <2>3. AuctionsTyped'
    BY <2>1 DEF Types, AuctionsTyped, AuctionState, Handled
  <2>4. deferred' \subseteq DeferredTask
    BY <2>1, <2>2 DEF Types, DeferredTask
  <2>5. ASSUME NEW t \in won PROVE Best(auctions[t].bids).agent \in Agent
    <3>1. auctions[t].bids \in SUBSET Bid /\ auctions[t].bids # {}
      BY <2>2, <2>5 DEF Types, AuctionsTyped, AuctionState
    <3>2. Best(auctions[t].bids) \in Bid
      BY <3>1, BestExists
    <3> QED BY <3>2 DEF Bid
  <2>6. MessagesTyped'
    BY <2>1, <2>2, <2>5 DEF Types, MessagesTyped
  <2>7. HistoriesTyped'
    BY <2>1 DEF Types, HistoriesTyped
  <2> QED BY <2>3, <2>4, <2>6, <2>7 DEF Types
<1>3. CASE ManagerGc
  BY <1>3 DEF ManagerGc, bidders, Types, AuctionsTyped, MessagesTyped, HistoriesTyped
<1>4. CASE Tick
  <2>1. AuctionsTyped'
    BY <1>4 DEF Tick, Types, AuctionsTyped, AuctionState, MinOf
  <2>2. deferred' \subseteq DeferredTask
    BY <1>4 DEF Tick, Types, DeferredTask
  <2>3. MessagesTyped' /\ HistoriesTyped'
    BY <1>4 DEF Tick, bidders, Types, MessagesTyped, HistoriesTyped
  <2> QED BY <2>1, <2>2, <2>3 DEF Types
<1>5. ASSUME NEW m \in bids, ReceiveBid(m) PROVE Types'
  <2>1. m.bid \in Bid
    BY DEF Types, MessagesTyped
  <2>2. AuctionsTyped'
    BY <1>5, <2>1 DEF ReceiveBid, Types, AuctionsTyped, AuctionState
  <2>3. heard' \subseteq TaskId
    BY <1>5 DEF ReceiveBid, Types, MessagesTyped, DeferredTask
  <2> QED BY <1>5, <2>2, <2>3 DEF ReceiveBid, bidders, Types, MessagesTyped, HistoriesTyped
<1> QED BY <1>1, <1>2, <1>3, <1>4, <1>5

LEMMA RetryTypes == ASSUME Types, CheckRetries PROVE Types'
<1> DEFINE due == {d \in deferred : d.wait = 0}
           spent == {d \in due : Spent(d)}
<1>1. /\ deferred' = (deferred \ due) \cup {Retried(d) : d \in due \ spent}
      /\ gone' = gone \cup {d.task : d \in spent}
      /\ cfps' = cfps \cup {d.task : d \in due \ spent}
      /\ UNCHANGED <<auctions, awards, heard, bid_history, seq_no, bids>>
  BY DEF CheckRetries, bidders
<1>2. \A d \in due : d \in DeferredTask /\ d.task \in TaskId
  BY DEF Types, DeferredTask
<1>3. ASSUME NEW d \in due \ spent PROVE Retried(d) \in DeferredTask
  <2>1. d.retry_count \in 0 .. MaxRetries /\ d.retry_count < MaxRetries
    BY <1>2, NumbersAssumption DEF Spent, DeferredTask
  <2>2. d.retry_count + 1 \in 0 .. MaxRetries /\ Backoff(d.retry_count + 1) \in Nat
    BY <2>1, BackoffNat, NumbersAssumption
  <2> QED BY <1>2, <2>2 DEF Retried, DeferredTask
<1> HIDE DEF due, spent
<1>4. spent \subseteq due
  BY DEF spent
<1> QED BY <1>1, <1>2, <1>3, <1>4 DEF Types, AuctionsTyped, MessagesTyped, HistoriesTyped

LEMMA BidderTypes ==
  ASSUME Types, NEW a \in Agent,
         (\E t \in cfps, u \in Utility : ComputeBid(a, t, u)) \/ BidderGc(a)
  PROVE  Types'
<1>1. ASSUME NEW h, NEW seq \in 0 .. SeqSpace - 1, DOMAIN h \subseteq TaskId,
             \A t \in DOMAIN h : h[t] \in 0 .. SeqSpace - 1,
             bid_history' = [bid_history EXCEPT ![a] = h],
             seq_no' = [seq_no EXCEPT ![a] = seq]
      PROVE  HistoriesTyped'
  BY <1>1 DEF Types, HistoriesTyped
<1>2. ASSUME NEW t \in cfps, NEW u \in Utility, ComputeBid(a, t, u) PROVE Types'
  <2> DEFINE seq == (seq_no[a] + 1) % SeqSpace
             h == [k \in DOMAIN bid_history[a] \cup {t} |->
                     IF k = t THEN seq ELSE bid_history[a][k]]
  <2>1. seq \in 0 .. SeqSpace - 1
    <3>1. seq_no[a] + 1 \in Nat /\ SeqSpace \in Nat \ {0}
      BY NumbersAssumption DEF Types, HistoriesTyped
    <3> QED BY <3>1
  <2>2. t \in TaskId /\ [agent |-> a, utility |-> u] \in Bid
    BY DEF Types, MessagesTyped, Bid
  <2>3. /\ bid_history' = [bid_history EXCEPT ![a] = h] /\ seq_no' = [seq_no EXCEPT ![a] = seq]
        /\ bids' = bids \cup {[task |-> t, bid |-> [agent |-> a, utility |-> u]]}
        /\ UNCHANGED <<auctions, deferred, awards, gone, heard, cfps>>
    BY <1>2 DEF ComputeBid, manager
  <2> HIDE DEF seq
  <2>4. DOMAIN h \subseteq TaskId /\ \A k \in DOMAIN h : h[k] \in 0 .. SeqSpace - 1
    BY <2>1, <2>2 DEF Types, HistoriesTyped
  <2> HIDE DEF h
  <2>5. HistoriesTyped'
    BY <1>1, <2>1, <2>3, <2>4
  <2> QED BY <2>2, <2>3, <2>5 DEF Types, AuctionsTyped, MessagesTyped
<1>3. CASE BidderGc(a)
  <2> DEFINE kept == {t \in DOMAIN bid_history[a] : Recent(seq_no[a], bid_history[a][t])}
             h == [t \in kept |-> bid_history[a][t]]
  <2>1. /\ bid_history' = [bid_history EXCEPT ![a] = h]
        /\ seq_no' = [seq_no EXCEPT ![a] = seq_no[a]]
    BY <1>3 DEF BidderGc, Types, HistoriesTyped
  <2>2. /\ DOMAIN h \subseteq TaskId /\ \A k \in DOMAIN h : h[k] \in 0 .. SeqSpace - 1
        /\ seq_no[a] \in 0 .. SeqSpace - 1
    BY DEF Types, HistoriesTyped
  <2> HIDE DEF h
  <2>3. HistoriesTyped'
    BY <1>1, <2>1, <2>2
  <2> QED BY <1>3, <2>3 DEF BidderGc, manager, Types, AuctionsTyped, MessagesTyped
<1> QED BY <1>2, <1>3

\* Every variable of the contract net keeps its type, with Q8.8 utilities,
\* ids and sequence numbers that wrap, and backoffs that are capped.
THEOREM AuctionTypes == Spec => []TypeOK
<1>1. Init => Types
  BY NumbersAssumption DEF Init, Types, AuctionsTyped, MessagesTyped, HistoriesTyped
<1>2. AuctionInv /\ Types /\ [Next]_vars => Types'
  <2> SUFFICES ASSUME AuctionInv, Types, [Next]_vars PROVE Types'
    OBVIOUS
  <2>1. CASE UNCHANGED vars
    BY <2>1 DEF vars, manager, bidders, Types, AuctionsTyped, MessagesTyped, HistoriesTyped
  <2> QED BY <2>1, ManagerTypes, RetryTypes, BidderTypes DEF Next
<1>3. AuctionInv /\ Types => TypeOK
  <2> SUFFICES ASSUME AuctionInv, Types PROVE TypeOK
    OBVIOUS
  <2>1. next_task_id \in TaskId /\ DOMAIN auctions \subseteq TaskId
    BY IssuedIds DEF AuctionInv, Shapes
  <2> QED BY <2>1 DEF Types, AuctionsTyped, MessagesTyped, HistoriesTyped, TypeOK
<1> QED BY <1>1, <1>2, <1>3, AuctionInductive, PTL DEF Spec

-----------------------------------------------------------------------------
(* The abstract allocation that the contract net implements.               *)

\* Every CFP is about a task announced, every bid answers one, and what an
\* auction records was sent: no award can go to an agent that made no offer.
Heard ==
  /\ cfps \subseteq Issued
  /\ bids \subseteq [task : Issued, bid : Bid]
  /\ \A t \in DOMAIN auctions : \A b \in auctions[t].bids : [task |-> t, bid |-> b] \in bids

LEMMA HeardStep == ASSUME AuctionInv, Heard, [Next]_vars PROVE Heard'
<1> USE DEF AuctionInv
<1>1. CASE CreateTask
  <2>1. /\ next_task_id' = next_task_id + 1 /\ next_task_id \in Nat \ {0}
        /\ Issued \subseteq Issued' /\ next_task_id \in Issued'
    BY <1>1, NextId DEF Issued
  <2>2. /\ cfps' = cfps \cup {next_task_id} /\ bids' = bids
        /\ \A t \in DOMAIN auctions' :
             \/ t \in DOMAIN auctions /\ auctions'[t] = auctions[t]
             \/ auctions'[t].bids = {}
    BY <1>1 DEF CreateTask
  <2>3. bids' \subseteq [task : Issued', bid : Bid]
    BY <2>1, <2>2 DEF Heard
  <2> QED BY <2>1, <2>2, <2>3 DEF Heard
<1>2. ASSUME NEW m \in bids, ReceiveBid(m) PROVE Heard'
  <2>1. /\ next_task_id' = next_task_id /\ cfps' = cfps /\ bids' = bids
        /\ DOMAIN auctions' = DOMAIN auctions
        /\ \A t \in DOMAIN auctions : \A b \in auctions'[t].bids :
             b \in auctions[t].bids \/ (t = m.task /\ b = m.bid)
    BY <1>2 DEF ReceiveBid, Shapes
  <2>2. [task |-> m.task, bid |-> m.bid] = m
    BY DEF Heard
  <2> QED BY <2>1, <2>2 DEF Heard, Issued
<1>3. CASE CheckAwards
  <2>1. /\ next_task_id' = next_task_id /\ cfps' = cfps /\ bids' = bids
        /\ DOMAIN auctions' = DOMAIN auctions
        /\ \A t \in DOMAIN auctions : auctions'[t].bids = auctions[t].bids
    BY <1>3 DEF CheckAwards, Handled, Shapes
  <2> QED BY <2>1 DEF Heard, Issued
<1>4. CASE CheckRetries
  <2>1. /\ next_task_id' = next_task_id /\ bids' = bids /\ auctions' = auctions
        /\ cfps' \subseteq cfps \cup {d.task : d \in deferred}
    BY <1>4 DEF CheckRetries
  <2> QED BY <2>1 DEF Heard, Issued, Shapes
<1>5. CASE ManagerGc \/ Tick
  <2>1. /\ next_task_id' = next_task_id /\ cfps' = cfps /\ bids' = bids
        /\ DOMAIN auctions' \subseteq DOMAIN auctions
        /\ \A t \in DOMAIN auctions' : auctions'[t].bids = auctions[t].bids
    BY <1>5 DEF ManagerGc, Tick, Shapes
  <2> QED BY <2>1 DEF Heard, Issued
<1>6. ASSUME NEW a \in Agent, NEW t \in cfps, NEW u \in Utility, ComputeBid(a, t, u)
      PROVE  Heard'
  <2>1. /\ next_task_id' = next_task_id /\ cfps' = cfps /\ auctions' = auctions
        /\ bids' = bids \cup {[task |-> t, bid |-> [agent |-> a, utility |-> u]]}
    BY <1>6 DEF ComputeBid, manager
  <2> QED BY <2>1 DEF Heard, Issued, Bid
<1>7. CASE UNCHANGED <<manager, cfps, bids>>
  BY <1>7 DEF manager, Heard, Issued
<1> QED BY <1>1, <1>2, <1>3, <1>4, <1>5, <1>6, <1>7 DEF Next, vars, BidderGc

\* check_awards gives away tasks that nobody has and that are not given up, to
\* bidders of theirs.
LEMMA AwardMaps ==
  ASSUME AuctionInv, Heard, CheckAwards PROVE Allocation!Allocate
<1> USE DEF AuctionInv
<1> DEFINE won == {t \in Closed : auctions[t].bids # {}}
           Prize(t) == [task |-> t, agent |-> Best(auctions[t].bids).agent]
           offers == {[task |-> m.task, agent |-> m.bid.agent] : m \in bids}
           given == awards' \ awards
<1>1. /\ next_task_id' = next_task_id /\ gone' = gone /\ bids' = bids
      /\ awards' = awards \cup {Prize(t) : t \in won}
  BY DEF CheckAwards
<1>2. ASSUME NEW t \in won
      PROVE  /\ Prize(t) \in offers
             /\ t \notin gone /\ \A x \in awards : x.task # t
  <2>1. t \in DOMAIN auctions /\ ~auctions[t].awarded
    BY DEF Closed
  <2>2. auctions[t].bids \in SUBSET Bid /\ auctions[t].bids # {}
    BY <2>1 DEF Shapes
  <2>3. PICK b \in auctions[t].bids : b = Best(auctions[t].bids)
    BY <2>2, BestExists
  <2>4. [task |-> t, bid |-> b] \in bids
    BY <2>1 DEF Heard
  <2>5. Prize(t) = [task |-> t, agent |-> b.agent]
    BY <2>3
  <2> QED BY <2>1, <2>4, <2>5 DEF HandledOnce
<1>3. \A x \in given : \E t \in won : x = Prize(t) /\ x.task = t
  BY <1>1
<1>4. given \subseteq offers
  BY <1>2, <1>3
<1>5. \A x \in given : x.task \notin Allocation!Decided
  BY <1>2, <1>3 DEF Allocation!Decided
<1>6. \A x, y \in given : x.task = y.task => x = y
  BY <1>3
<1>7. awards' = awards \cup given
  BY <1>1
<1> QED BY <1>1, <1>4, <1>5, <1>6, <1>7 DEF Allocation!Allocate

\* check_retries gives up tasks of the queue: nobody has them.
LEMMA RetryMaps ==
  ASSUME AuctionInv, CheckRetries PROVE Allocation!Drop
<1> USE DEF AuctionInv
<1>1. /\ next_task_id' = next_task_id /\ awards' = awards /\ bids' = bids
      /\ gone \subseteq gone' /\ gone' \ gone \subseteq {d.task : d \in deferred}
  BY DEF CheckRetries
<1>2. gone' \ gone \subseteq (1 .. next_task_id - 1) \ Allocation!Decided
  BY <1>1 DEF DeferredApart, Shapes, Issued, Allocation!Decided
<1> QED BY <1>1, <1>2 DEF Allocation!Drop

LEMMA StepMapsToAllocation ==
  ASSUME AuctionInv, Heard, [Next]_vars
  PROVE  [Allocation!Next]_(Allocation!vars)
<1>1. ASSUME CreateTask PROVE Allocation!Announce
  BY <1>1, NextId DEF CreateTask, AuctionInv, Allocation!Announce
<1>2. ASSUME NEW a \in Agent, NEW t \in cfps, NEW u \in Utility, ComputeBid(a, t, u)
      PROVE  Allocation!Offer
  <2>1. t \in 1 .. next_task_id - 1
    BY DEF Heard, Issued
  <2>2. /\ bids' = bids \cup {[task |-> t, bid |-> [agent |-> a, utility |-> u]]}
        /\ UNCHANGED <<next_task_id, awards, gone>>
    BY <1>2 DEF ComputeBid, manager
  <2>3. {[task |-> m.task, agent |-> m.bid.agent] : m \in bids'}
          = {[task |-> m.task, agent |-> m.bid.agent] : m \in bids}
              \cup {[task |-> t, agent |-> a]}
    <3> DEFINE Made(m) == [task |-> m.task, agent |-> m.bid.agent]
               sent == [task |-> t, bid |-> [agent |-> a, utility |-> u]]
    <3>1. bids' = bids \cup {sent} /\ Made(sent) = [task |-> t, agent |-> a]
      BY <2>2
    <3> HIDE DEF Made, sent
    <3>2. {Made(m) : m \in bids'} = {Made(m) : m \in bids} \cup {Made(sent)}
      BY <3>1, Zenon
    <3> QED BY <3>1, <3>2 DEF Made
  <2> QED BY <2>1, <2>2, <2>3 DEF Allocation!Offer
<1>3. ASSUME UNCHANGED <<next_task_id, bids, awards, gone>>
      PROVE  UNCHANGED Allocation!vars
  BY <1>3 DEF Allocation!vars
<1>4. ASSUME \/ ManagerGc \/ Tick \/ UNCHANGED vars
             \/ \E m \in bids : ReceiveBid(m)
             \/ \E a \in Agent : BidderGc(a)
      PROVE  UNCHANGED <<next_task_id, bids, awards, gone>>
  BY <1>4 DEF ManagerGc, Tick, vars, manager, ReceiveBid, BidderGc
<1> QED BY <1>1, <1>2, <1>3, <1>4, AwardMaps, RetryMaps DEF Next, Allocation!Next

\* The contract net implements the allocation: whatever is lost, repeated or
\* overtaken, a task is decided once, for an agent that bid for it or for none.
THEOREM AllocationImplemented == Spec => ImplementsAllocation
<1>1. Init => Allocation!Init
  BY DEF Init, Allocation!Init
<1>2. Init => Heard
  BY DEF Init, Heard
<1>3. AuctionInv /\ Heard /\ [Next]_vars => Heard' /\ [Allocation!Next]_(Allocation!vars)
  BY HeardStep, StepMapsToAllocation
<1> QED BY <1>1, <1>2, <1>3, AuctionInductive, PTL
        DEF Spec, Allocation!Spec, ImplementsAllocation

-----------------------------------------------------------------------------
(* The history of a bidder whose sequence numbers do not wrap.             *)

\* Every recorded bid has a sequence number of its own, already given out.
History(a) ==
  /\ seq_no[a] \in 0 .. MaxBids
  /\ \A t \in DOMAIN bid_history[a] : bid_history[a][t] \in 1 .. seq_no[a]
  /\ \A t, u \in DOMAIN bid_history[a] : bid_history[a][t] = bid_history[a][u] => t = u
  /\ \A s \in 1 .. seq_no[a] :
       s + HistoryCap \div 2 > seq_no[a] =>
         \E t \in DOMAIN bid_history[a] : bid_history[a][t] = s

HistoryInv ==
  /\ DOMAIN bid_history = Agent /\ DOMAIN seq_no = Agent
  /\ \A a \in Agent : History(a)

\* gc starts only after more bids than it has room for.
LEMMA HistoryShort ==
  ASSUME HistoryInv, NEW a \in Agent
  PROVE  /\ Cardinality(DOMAIN bid_history[a]) \in Nat
         /\ Cardinality(DOMAIN bid_history[a]) =< seq_no[a]
<1> DEFINE h == bid_history[a]
           f == [t \in DOMAIN h |-> h[t]]
<1>1. seq_no[a] \in Nat
  BY NumbersAssumption DEF HistoryInv, History
<1>2. f \in Injection(DOMAIN h, 1 .. seq_no[a])
  BY DEF HistoryInv, History, Injection, IsInjective
<1>3. IsFiniteSet(1 .. seq_no[a]) /\ Cardinality(1 .. seq_no[a]) = seq_no[a]
  <2>1. 1 \in Int /\ seq_no[a] \in Int
    BY <1>1
  <2>2. IsFiniteSet(1 .. seq_no[a])
        /\ Cardinality(1 .. seq_no[a]) = IF 1 > seq_no[a] THEN 0 ELSE seq_no[a] - 1 + 1
    BY <2>1, FS_Interval
  <2> QED BY <1>1, <2>2
<1> HIDE DEF f, h
<1>4. IsFiniteSet(DOMAIN h) /\ Cardinality(DOMAIN h) =< Cardinality(1 .. seq_no[a])
  BY <1>2, <1>3, FS_Injection
<1> QED BY <1>3, <1>4, FS_CardinalityType DEF h

LEMMA Cutoff ==
  ASSUME NEW m \in Nat, NEW n \in Nat, NEW k \in Nat, k =< n, n < m
  PROVE  (m + n - k) % m = n - k
<1> DEFINE r == n - k
<1>1. r \in Nat /\ r < m /\ m > 0 /\ m + n - k = m + r
  OBVIOUS
<1> HIDE DEF r
<1>2. (m + r) % m = r
  BY <1>1
<1> QED BY <1>1, <1>2 DEF r

\* Without a wrap of its sequence numbers a bidder remembers its recent bids,
\* whatever gc collects.
THEOREM RecentBidsRemembered ==
  ASSUME MaxBids < SeqSpace
  PROVE  Spec => []RecentBidsKnown
<1> USE NumbersAssumption
<1>1. Init => HistoryInv
  BY DEF Init, HistoryInv, History
<1>2. HistoryInv /\ [Next]_vars => HistoryInv'
  <2> SUFFICES ASSUME HistoryInv, [Next]_vars PROVE HistoryInv'
    OBVIOUS
  <2>1. ASSUME UNCHANGED bidders PROVE HistoryInv'
    BY <2>1 DEF bidders, HistoryInv, History
  <2>2. ASSUME NEW a \in Agent, NEW t \in cfps, NEW u \in Utility, ComputeBid(a, t, u)
        PROVE  HistoryInv'
    <3> DEFINE h == bid_history[a]
               seq == seq_no[a] + 1
    <3>1. seq_no[a] \in Nat /\ seq_no[a] < MaxBids /\ History(a)
      BY <2>2 DEF ComputeBid, HistoryInv, History
    <3>2. (seq_no[a] + 1) % SeqSpace = seq
      BY <3>1, SmallMod
    <3>3. /\ seq_no' = [seq_no EXCEPT ![a] = seq]
          /\ bid_history' = [bid_history EXCEPT ![a] =
               [k \in DOMAIN h \cup {t} |-> IF k = t THEN seq ELSE h[k]]]
          /\ t \notin DOMAIN h
      BY <2>2, <3>2 DEF ComputeBid
    <3>4. /\ seq_no'[a] = seq /\ DOMAIN bid_history'[a] = DOMAIN h \cup {t}
          /\ bid_history'[a][t] = seq
          /\ \A k \in DOMAIN h : k # t /\ bid_history'[a][k] = h[k]
      BY <3>3 DEF HistoryInv
    <3>5. History(a)'
      BY <3>1, <3>4 DEF History
    <3>6. \A b \in Agent : b # a => History(b)'
      BY <3>3 DEF HistoryInv, History
    <3> QED BY <3>3, <3>5, <3>6 DEF HistoryInv
  <2>3. ASSUME NEW a \in Agent, BidderGc(a) PROVE HistoryInv'
    <3> DEFINE h == bid_history[a]
               kept == {t \in DOMAIN h : Recent(seq_no[a], h[t])}
               half == HistoryCap \div 2
    <3>1. seq_no[a] \in Nat /\ seq_no[a] < SeqSpace /\ History(a)
      BY DEF HistoryInv, History
    <3>2. half \in Nat /\ half =< seq_no[a]
      <4>1. Cardinality(DOMAIN h) > HistoryCap /\ Cardinality(DOMAIN h) =< seq_no[a]
           /\ Cardinality(DOMAIN h) \in Nat
        BY <2>3, HistoryShort DEF BidderGc
      <4> QED BY <3>1, <4>1
    <3>3. (SeqSpace + seq_no[a] - half) % SeqSpace = seq_no[a] - half
      <4>1. SeqSpace \in Nat
        OBVIOUS
      <4> HIDE DEF half
      <4> QED BY <3>1, <3>2, <4>1, Cutoff
    <3>4. \A t \in DOMAIN h : t \in kept <=> h[t] + half > seq_no[a]
      BY <3>1, <3>2, <3>3 DEF Recent, History
    <3>5. /\ seq_no' = seq_no
          /\ bid_history' = [bid_history EXCEPT ![a] = [t \in kept |-> h[t]]]
      BY <2>3 DEF BidderGc
    <3>6. /\ DOMAIN bid_history'[a] = kept
          /\ \A t \in kept : bid_history'[a][t] = h[t]
      BY <3>5 DEF HistoryInv
    <3>7. History(a)'
      BY <3>1, <3>4, <3>5, <3>6 DEF History
    <3>8. \A b \in Agent : b # a => History(b)'
      BY <3>5 DEF HistoryInv, History
    <3> QED BY <3>5, <3>7, <3>8 DEF HistoryInv
  <2>4. CASE CreateTask \/ CheckAwards \/ CheckRetries \/ ManagerGc \/ Tick \/ UNCHANGED vars
    BY <2>1, <2>4 DEF CreateTask, CheckAwards, CheckRetries, ManagerGc, Tick, vars
  <2>5. CASE \E m \in bids : ReceiveBid(m)
    BY <2>1, <2>5 DEF ReceiveBid
  <2> QED BY <2>2, <2>3, <2>4, <2>5 DEF Next
<1>3. HistoryInv => RecentBidsKnown
  BY DEF HistoryInv, History, RecentBidsKnown
<1> QED BY <1>1, <1>2, <1>3, PTL DEF Spec

=============================================================================
