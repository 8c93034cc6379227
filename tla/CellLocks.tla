------------------------------ MODULE CellLocks ------------------------------
(***************************************************************************)
(* What the intent-lock protocol promises: a fleet-wide register of        *)
(* space-time locks.  An agent acquires the locks of one trajectory in one *)
(* step, and only when none of them clashes with a lock another agent      *)
(* still holds; locks are given up freely and lapse when their interval    *)
(* is over.  There are no messages, peers or timeouts here: IntentLock.tla *)
(* implements this register with a two-phase commit.                       *)
(***************************************************************************)
EXTENDS SpaceTime

CONSTANT Agent

VARIABLES
  held,   \* held[a]: the locks [txn, req] agent a holds
  now     \* the fleet's synchronised tick

vars == <<held, now>>

Live(l) == l.req.t_end > now

Init == held = [a \in Agent |-> {}] /\ now = 0

\* Agent a acquires the locks of one transaction.
Acquire(a) ==
  LET granted == held'[a] \ held[a]
  IN  /\ \A l, k \in granted : l.txn = k.txn
      /\ \A b \in Agent \ {a}, l \in granted :
           \A k \in held[b] : Live(l) /\ Live(k) => ~Clash(l.req, k.req)
      /\ held' = [held EXCEPT ![a] = @ \cup granted]
      /\ now' = now

\* Agent a gives up some of its locks.
Release(a) ==
  /\ held'[a] \subseteq held[a]
  /\ held' = [held EXCEPT ![a] = held'[a]]
  /\ now' = now

Tick == now' = now + 1 /\ held' = held

Next == Tick \/ \E a \in Agent : Acquire(a) \/ Release(a)

Spec == Init /\ [][Next]_vars

=============================================================================
