----------------------- MODULE ReservationTableProofs -----------------------
(***************************************************************************)
(* The reservation table, for any horizon, gc interval, grid and number of *)
(* agents: its bits are exactly the reservations made, and reservations of *)
(* different agents do not meet inside the window.                         *)
(***************************************************************************)
EXTENDS ReservationTable, TLAPS

\* A reservation was made at or before the present window, and reaches as far
\* as the window did then.
Windows == \A r \in accepted : r.from =< current_tick /\ r.until = r.from + Horizon

TableInv == TypeOK /\ Windows /\ TableExact

-----------------------------------------------------------------------------
\* The bits of interval_to_mask are the ticks of the window in the interval,
\* wherever the interval starts and ends.
LEMMA MaskMeaning ==
  ASSUME current_tick \in Nat, NEW s \in Nat, NEW e \in Nat, NEW b \in Bits
  PROVE  b \in Mask(s, e) <=> s =< current_tick + b /\ current_tick + b < e
BY HorizonAssumption DEF Mask, Relative, Bits

\* Shifting down by delta moves the bit b + delta to b and brings in no other.
LEMMA ShiftMeaning ==
  ASSUME NEW block \in SUBSET Bits, NEW delta \in Nat
  PROVE  /\ Shifted(block, delta) \in SUBSET Bits
         /\ \A b \in Bits : b \in Shifted(block, delta) <=> b + delta \in block
<1>1. Shifted(block, delta) \in SUBSET Bits
  BY HorizonAssumption DEF Shifted, Bits
<1>2. ASSUME NEW b \in Bits, b \in Shifted(block, delta) PROVE b + delta \in block
  <2>1. PICK d \in block : d >= delta /\ b = d - delta
    BY <1>2 DEF Shifted
  <2> QED BY <2>1, HorizonAssumption DEF Bits
<1>3. ASSUME NEW b \in Bits, b + delta \in block PROVE b \in Shifted(block, delta)
  <2>1. b = (b + delta) - delta /\ b + delta >= delta
    BY HorizonAssumption DEF Bits
  <2> QED BY <1>3, <2>1 DEF Shifted
<1> QED BY <1>1, <1>2, <1>3

-----------------------------------------------------------------------------
LEMMA InitInv == Init => TableInv
BY DEF Init, TableInv, TypeOK, Windows, TableExact, Bits, Reservation

\* insert_interval keeps the table exact: it adds the bits of the interval it
\* reserves to one word, and leaves the window where it is.
LEMMA InsertInv ==
  ASSUME TableInv, NEW c \in Cell, NEW a \in Agent, NEW s \in Nat, NEW e \in Nat,
         Insert(c, a, s, e)
  PROVE  TableInv'
<1> USE DEF TableInv
<1> DEFINE new == [cell |-> c, agent_id |-> a, t_start |-> s, t_end |-> e,
                   from |-> current_tick, until |-> current_tick + Horizon]
<1>1. /\ grid_blocks' = [grid_blocks EXCEPT ![c] = @ \cup Mask(s, e)]
      /\ accepted' = accepted \cup {new}
      /\ current_tick' = current_tick /\ now' = now
  BY DEF Insert
<1>2. new \in Reservation
  BY HorizonAssumption DEF TypeOK, Reservation
<1>3. TypeOK'
  <2>1. Mask(s, e) \subseteq Bits
    BY DEF Mask
  <2> QED BY <1>1, <1>2, <2>1 DEF TypeOK
<1>4. Windows'
  BY <1>1, HorizonAssumption DEF Windows, TypeOK
<1>5. TableExact'
  <2> SUFFICES ASSUME NEW d \in Cell, NEW b \in Bits
               PROVE  b \in grid_blocks'[d] <=>
                        \E r \in accepted' :
                          /\ r.cell = d /\ Covers(r, current_tick + b)
                          /\ current_tick + b < r.until
    BY <1>1 DEF TableExact, Covers
  <2>1. b \in grid_blocks[d] <=>
          \E r \in accepted :
            r.cell = d /\ Covers(r, current_tick + b) /\ current_tick + b < r.until
    BY DEF TableExact
  <2>2. b \in Mask(s, e) <=> Covers(new, current_tick + b)
    BY MaskMeaning DEF TypeOK, Covers
  <2>3. current_tick + b < new.until
    BY HorizonAssumption DEF TypeOK, Bits
  <2>4. CASE d = c
    <3>1. b \in grid_blocks'[d] <=> b \in grid_blocks[d] \/ b \in Mask(s, e)
      BY <1>1, <2>4 DEF TypeOK
    <3> QED BY <1>1, <2>1, <2>2, <2>3, <2>4, <3>1
  <2>5. CASE d # c
    <3>1. grid_blocks'[d] = grid_blocks[d]
      BY <1>1, <2>5 DEF TypeOK
    <3>2. new.cell # d
      BY <2>5
    <3> QED BY <1>1, <2>1, <3>1, <3>2
  <2> QED BY <2>4, <2>5
<1> QED BY <1>3, <1>4, <1>5

\* gc keeps the table exact: the bits it drops are of ticks that are over, and
\* no reservation reaches the ticks that come into the window.
LEMMA EndTickInv == ASSUME TableInv, EndTick PROVE TableInv'
<1> USE DEF TableInv
<1>1. accepted' = accepted /\ now' = now + 1
  BY DEF EndTick
<1>2. CASE UNCHANGED <<grid_blocks, current_tick>>
  BY <1>1, <1>2 DEF TypeOK, Windows, TableExact, Covers
<1>3. CASE /\ grid_blocks' = [c \in Cell |-> Shifted(grid_blocks[c], now - current_tick)]
           /\ current_tick' = now
  <2> DEFINE delta == now - current_tick
  <2>1. delta \in Nat /\ current_tick \in Nat /\ now \in Nat
    BY DEF TypeOK
  <2>2. \A c \in Cell : grid_blocks[c] \in SUBSET Bits
    BY DEF TypeOK
  <2>3. TypeOK'
    BY <1>1, <1>3, <2>1, <2>2, ShiftMeaning DEF TypeOK
  <2>4. Windows'
    BY <1>1, <1>3, <2>1, HorizonAssumption DEF Windows, TypeOK, Reservation
  <2>5. TableExact'
    <3> SUFFICES ASSUME NEW c \in Cell, NEW b \in Bits
                 PROVE  b \in grid_blocks'[c] <=>
                          \E r \in accepted :
                            r.cell = c /\ Covers(r, now + b) /\ now + b < r.until
      BY <1>1, <1>3 DEF TableExact, Covers
    <3>1. b \in grid_blocks'[c] <=> b + delta \in grid_blocks[c]
      BY <1>3, <2>1, <2>2, ShiftMeaning
    <3>2. b \in Nat /\ b + delta \in Nat /\ current_tick + (b + delta) = now + b
      BY <2>1, HorizonAssumption DEF Bits
    <3>3. CASE b + delta \in Bits
      <4>1. b + delta \in grid_blocks[c] <=>
              \E r \in accepted :
                /\ r.cell = c /\ Covers(r, current_tick + (b + delta))
                /\ current_tick + (b + delta) < r.until
        BY <3>3 DEF TableExact
      <4> QED BY <3>1, <3>2, <4>1
    <3>4. CASE b + delta \notin Bits
      <4>1. b + delta >= Horizon
        BY <3>2, <3>4, HorizonAssumption DEF Bits
      <4>2. \A r \in accepted : ~(now + b < r.until)
        <5> TAKE r \in accepted
        <5>1. r.from \in Nat /\ r.from =< current_tick /\ r.until = r.from + Horizon
          BY DEF Windows, TypeOK, Reservation
        <5> QED BY <2>1, <3>2, <4>1, <5>1, HorizonAssumption
      <4>3. b + delta \notin grid_blocks[c]
        BY <2>2, <3>4
      <4> QED BY <3>1, <4>2, <4>3
    <3> QED BY <3>3, <3>4
  <2> QED BY <2>3, <2>4, <2>5
<1> QED BY <1>2, <1>3 DEF EndTick

LEMMA InsertRanges ==
  ASSUME NEW s \in 0 .. MaxTick, NEW n \in 0 .. MaxLength
  PROVE  s \in Nat /\ s + n \in Nat
BY BoundsAssumption

\* The bits are exactly the reservations made, through any sequence of
\* insertions and late shifts of the window.
THEOREM TableInductive == Spec => []TableInv
<1>1. Init => TableInv
  BY InitInv
<1>2. TableInv /\ [Next]_vars => TableInv'
  <2> SUFFICES ASSUME TableInv, [Next]_vars PROVE TableInv'
    OBVIOUS
  <2>1. CASE EndTick
    BY <2>1, EndTickInv
  <2>2. ASSUME NEW c \in Cell, NEW a \in Agent, NEW s \in 0 .. MaxTick,
               NEW n \in 0 .. MaxLength, Insert(c, a, s, s + n)
        PROVE  TableInv'
    BY <2>2, InsertInv, InsertRanges
  <2>3. CASE UNCHANGED vars
    BY <2>3 DEF vars, TableInv, TypeOK, Windows, TableExact, Covers
  <2> QED BY <2>1, <2>2, <2>3 DEF Next
<1> QED BY <1>1, <1>2, PTL DEF Spec

\* A cell is taken at a tick of the window exactly if an accepted reservation
\* covers it.
THEOREM Exactness == Spec => []TableExact
<1>1. TableInv => TableExact
  BY DEF TableInv
<1> QED BY <1>1, TableInductive, PTL

-----------------------------------------------------------------------------
\* A new reservation meets no earlier one inside the window: by TableExact the
\* bit of a shared tick was set, and is_free would have refused.
LEMMA NewApart ==
  ASSUME TableInv, NEW c \in Cell, NEW a \in Agent, NEW s \in Nat, NEW e \in Nat,
         IsFree(c, s, e), NEW r \in accepted, r.cell = c,
         NEW t \in Nat, Covers(r, t), s =< t, t < e, t >= current_tick,
         t < current_tick + Horizon
  PROVE  t >= r.until
<1> USE DEF TableInv
<1> SUFFICES ASSUME t < r.until PROVE FALSE
  BY HorizonAssumption DEF TypeOK, Reservation
<1> DEFINE b == t - current_tick
<1>1. b \in Bits /\ current_tick + b = t
  BY HorizonAssumption DEF TypeOK, Bits
<1> HIDE DEF b
<1>2. b \in grid_blocks[c]
  BY <1>1 DEF TableExact
<1>3. b \in Mask(s, e)
  BY <1>1, MaskMeaning DEF TypeOK
<1> QED BY <1>2, <1>3 DEF IsFree

LEMMA ApartStep ==
  ASSUME TableInv, AcceptedApart, [Next]_vars
  PROVE  AcceptedApart'
<1>1. CASE accepted' = accepted
  BY <1>1 DEF AcceptedApart, Covers
<1>2. ASSUME NEW c \in Cell, NEW a \in Agent, NEW s \in Nat, NEW e \in Nat,
             Insert(c, a, s, e)
      PROVE  AcceptedApart'
  <2> DEFINE new == [cell |-> c, agent_id |-> a, t_start |-> s, t_end |-> e,
                     from |-> current_tick, until |-> current_tick + Horizon]
             Apart(q, r, t) ==
               q.agent_id # r.agent_id /\ q.cell = r.cell /\ Covers(q, t) /\ Covers(r, t) =>
                 t < q.from \/ t < r.from \/ t >= q.until \/ t >= r.until
  <2>1. accepted' = accepted \cup {new}
    BY <1>2 DEF Insert
  <2>2. \A t \in Nat, r \in accepted : Apart(new, r, t) /\ Apart(r, new, t)
    <3> SUFFICES ASSUME NEW t \in Nat, NEW r \in accepted, r.cell = c, Covers(r, t),
                        s =< t, t < e, ~(t < current_tick), ~(t >= current_tick + Horizon)
                 PROVE  t >= r.until
      BY DEF Covers
    <3>1. current_tick \in Nat
      BY DEF TableInv, TypeOK
    <3>2. t >= current_tick /\ t < current_tick + Horizon
      BY <3>1, HorizonAssumption
    <3> QED BY <1>2, <3>2, NewApart DEF Insert
  <2>3. \A t \in 0 .. 2 * MaxTick + Horizon : t \in Nat
    BY BoundsAssumption, HorizonAssumption
  <2>4. \A t \in 0 .. 2 * MaxTick + Horizon, q, r \in accepted : Apart(q, r, t)
    BY DEF AcceptedApart
  <2>5. \A t : Apart(new, new, t)
    OBVIOUS
  <2>6. \A t \in 0 .. 2 * MaxTick + Horizon, q, r \in accepted' : Apart(q, r, t)
    BY <2>1, <2>2, <2>3, <2>4, <2>5
  <2> QED BY <2>6 DEF AcceptedApart, Covers
<1>3. ASSUME NEW c \in Cell, NEW a \in Agent, NEW s \in 0 .. MaxTick,
             NEW n \in 0 .. MaxLength, Insert(c, a, s, s + n)
      PROVE  AcceptedApart'
  BY <1>2, <1>3, InsertRanges
<1> QED BY <1>1, <1>3 DEF Next, EndTick, vars

\* Reservations of different agents never share a tick of a cell that was in
\* the window for both.
THEOREM Apartness == Spec => []AcceptedApart
<1>1. Init => AcceptedApart
  BY DEF Init, AcceptedApart
<1>2. TableInv /\ AcceptedApart /\ [Next]_vars => AcceptedApart'
  BY ApartStep
<1> QED BY <1>1, <1>2, TableInductive, PTL DEF Spec

=============================================================================
