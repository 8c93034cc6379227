------------------------------ MODULE MCDSipp ------------------------------
(***************************************************************************)
(* Small grids for DSipp, with at most one obstacle and a few               *)
(* reservations of another agent.                                          *)
(***************************************************************************)
EXTENDS DSipp

CONSTANTS self, other

MCCell == 0 .. Width * Height - 1

MCObstacles == {{}, {1}, {3}}

Booking(c, s, e) ==
  [cell |-> c, agent_id |-> other, t_start |-> s, t_end |-> e, from |-> 0, until |-> Horizon]

\* Nothing reserved, one reservation, or a short and a long one.
MCBookings ==
  {{}} \cup {{Booking(c, s, s + 2)} : c \in Cell, s \in 0 .. 2}
       \cup {{Booking(0, 0, 3), Booking(c, 2, 9)} : c \in Cell}

MCNoBookings == {{}}

\* What another agent may announce later: a short stay on one of two cells.
MCIntents == {Booking(c, 3, 5) : c \in {1, 4}}

=============================================================================
