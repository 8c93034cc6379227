-------------------------- MODULE ReservationTable --------------------------
(***************************************************************************)
(* The reservation bitset (src/planner/reservation.rs): for every cell one *)
(* word, bit b of which says that the cell is taken at tick                *)
(* current_tick + b.  A word is modelled as the set of its bits.  The      *)
(* window moves only when the control loop calls gc, every GC_INTERVAL     *)
(* ticks, so it lags behind the time by up to that much.                   *)
(*                                                                         *)
(* Reservations come from the agent itself (control_loop.rs:69) and, by    *)
(* its caller, from the INTENTs of others; those may be late, and name     *)
(* ticks that are over.                                                    *)
(***************************************************************************)
EXTENDS Naturals, FiniteSets

CONSTANTS
  Cell, Agent,
  Horizon,      \* TIME_HORIZON_TICKS (64)
  GcInterval,   \* GC_INTERVAL (50)
  MaxTick,      \* bound: the time ends here
  MaxLength,    \* bound: longest reservation
  MaxAccepted   \* bound: reservations made

ASSUME HorizonAssumption == Horizon \in Nat \ {0} /\ GcInterval \in Nat \ {0}
ASSUME BoundsAssumption == MaxTick \in Nat /\ MaxLength \in Nat /\ MaxAccepted \in Nat

VARIABLES
  grid_blocks,   \* grid_blocks[c]: bits set in the word of c
  current_tick,  \* first tick of the window
  now,           \* ctx.tick of the agent
  accepted       \* reservations for which insert_interval returned Ok

vars == <<grid_blocks, current_tick, now, accepted>>

Bits == 0 .. Horizon - 1

\* until: the first tick that was beyond the window when it was accepted.
Reservation ==
  [cell : Cell, agent_id : Agent, t_start : Nat, t_end : Nat, from : Nat, until : Nat]

-----------------------------------------------------------------------------
(* Helpers.  Definitions named ...Bug are faulty variants that no action   *)
(* uses.                                                                   *)

\* t.saturating_sub(current_tick)
Relative(t) == IF t > current_tick THEN t - current_tick ELSE 0

MaskBug(s, e) == {b \in Bits : Relative(s) =< b /\ b =< Relative(e)}

MaskUncutBug(s, e) == {b \in 0 .. Relative(e) : Relative(s) =< b /\ b < Relative(e)}

\* interval_to_mask(); its None is the empty mask, which collides with
\* nothing and takes nothing.
Mask(s, e) == {b \in Bits : Relative(s) =< b /\ b < Relative(e)}

IsFreeBug(c, s, e) == Relative(s) \notin grid_blocks[c]
IsFree(c, s, e) == grid_blocks[c] \cap Mask(s, e) = {}

ShiftedBug(block, delta) == {b \in block : b >= delta}

\* A word shifted down; nothing is left of it after Horizon ticks.
Shifted(block, delta) == {b - delta : b \in {d \in block : d >= delta}}

-----------------------------------------------------------------------------
Init ==
  /\ grid_blocks = [c \in Cell |-> {}]
  /\ current_tick = 0 /\ now = 0 /\ accepted = {}

\* insert_interval(); on a collision nothing changes.
Insert(c, a, s, e) ==
  /\ IsFree(c, s, e)
  /\ grid_blocks' = [grid_blocks EXCEPT ![c] = @ \cup Mask(s, e)]
  /\ accepted' = accepted \cup
       {[cell |-> c, agent_id |-> a, t_start |-> s, t_end |-> e,
         from |-> current_tick, until |-> current_tick + Horizon]}
  /\ UNCHANGED <<current_tick, now>>

\* The end of tick(): gc() when it is time, then the next tick.
EndTick ==
  /\ now < MaxTick
  /\ IF now % GcInterval = 0 /\ now > 0
     THEN /\ grid_blocks' = [c \in Cell |-> Shifted(grid_blocks[c], now - current_tick)]
          /\ current_tick' = now
     ELSE UNCHANGED <<grid_blocks, current_tick>>
  /\ now' = now + 1
  /\ UNCHANGED accepted

Next ==
  \/ EndTick
  \/ \E c \in Cell, a \in Agent, s \in 0 .. MaxTick, n \in 0 .. MaxLength :
       Cardinality(accepted) < MaxAccepted /\ Insert(c, a, s, s + n)

Spec == Init /\ [][Next]_vars

-----------------------------------------------------------------------------
(* Properties *)

\* Every variable keeps its type; the window never runs ahead of the time.
TypeOK ==
  /\ grid_blocks \in [Cell -> SUBSET Bits]
  /\ current_tick \in Nat /\ now \in Nat /\ current_tick =< now
  /\ accepted \subseteq Reservation

Covers(r, t) == r.t_start =< t /\ t < r.t_end

\* The table says neither more nor less than what was reserved: however often
\* the window moved since, a cell is taken at a tick of the window exactly if
\* an accepted reservation covers that tick and the tick was within the window
\* when the reservation was made.  No reservation fades before it is over, none
\* outlives it, and none reappears at another tick.
TableExact ==
  \A c \in Cell : \A b \in Bits :
    b \in grid_blocks[c] <=>
      \E r \in accepted :
        r.cell = c /\ Covers(r, current_tick + b) /\ current_tick + b < r.until

\* Two reservations of different agents never share a tick of a cell, unless
\* that tick was out of the window for one of them: over, or too far ahead.
AcceptedApart ==
  \A r, s \in accepted : \A t \in 0 .. 2 * MaxTick + Horizon :
    r.agent_id # s.agent_id /\ r.cell = s.cell /\ Covers(r, t) /\ Covers(s, t) =>
      \/ t < r.from \/ t < s.from
      \/ t >= r.until \/ t >= s.until

\* "Each `u64` represents 64 ticks (e.g., 6.4s) into the future": what is
\* reserved within that distance from the present is seen by everyone else.
\* The window starts at the last gc, so it reaches less far.
LooksAhead ==
  \A c \in Cell : \A r \in accepted : \A t \in now .. now + Horizon - 1 :
    r.cell = c /\ Covers(r, t) => ~IsFree(c, t, t + 1)

=============================================================================
