----------------------------- MODULE SpaceTime -----------------------------
(***************************************************************************)
(* Half-open tick intervals and space-time requests, from                  *)
(* src/space_time/mod.rs.  A request claims a cell over an interval:       *)
(* [cell, t_start, t_end]; any record with t_start and t_end is an         *)
(* interval.  SafeInterval::new asserts t_start <= t_end, so an interval   *)
(* may be empty.                                                           *)
(***************************************************************************)
EXTENDS Naturals

\* SafeInterval::overlaps.  An empty interval strictly inside another one
\* still overlaps it.
Overlaps(i, j) == ~(i.t_end =< j.t_start \/ j.t_end =< i.t_start)

\* Two requests clash when they want the same cell at overlapping times.
Clash(r, s) == r.cell = s.cell /\ Overlaps(r, s)

=============================================================================
