---------------------------- MODULE TaskAllocation ----------------------------
(***************************************************************************)
(* What the contract net promises: tasks are announced one by one, agents  *)
(* offer to carry them out, and each task is decided at most once: it goes *)
(* to one agent that offered to take it, or is dropped.  No decision is    *)
(* ever taken back.  There are no auctions, windows, retries or records    *)
(* here: TaskAuction.tla implements this allocation.                       *)
(***************************************************************************)
EXTENDS Naturals

CONSTANT Agent

VARIABLES
  announced,  \* the number of tasks announced; the tasks are 1 .. announced
  offers,     \* the offers made, [task, agent]
  allocated,  \* the tasks given away, [task, agent]
  dropped     \* the tasks given up

vars == <<announced, offers, allocated, dropped>>

Decided == {x.task : x \in allocated} \cup dropped

Init == announced = 0 /\ offers = {} /\ allocated = {} /\ dropped = {}

Announce == announced' = announced + 1 /\ UNCHANGED <<offers, allocated, dropped>>

Offer ==
  /\ \E t \in 1 .. announced, a \in Agent :
       offers' = offers \cup {[task |-> t, agent |-> a]}
  /\ UNCHANGED <<announced, allocated, dropped>>

\* Some undecided tasks go to one agent each, of those that offered.
Allocate ==
  LET given == allocated' \ allocated
  IN  /\ given \subseteq offers
      /\ \A x \in given : x.task \notin Decided
      /\ \A x, y \in given : x.task = y.task => x = y
      /\ allocated' = allocated \cup given
      /\ UNCHANGED <<announced, offers, dropped>>

\* Some undecided tasks are given up.
Drop ==
  LET lost == dropped' \ dropped
  IN  /\ lost \subseteq (1 .. announced) \ Decided
      /\ dropped' = dropped \cup lost
      /\ UNCHANGED <<announced, offers, allocated>>

Next == Announce \/ Offer \/ Allocate \/ Drop

Spec == Init /\ [][Next]_vars

=============================================================================
