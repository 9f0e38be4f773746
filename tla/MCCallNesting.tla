---------------------------- MODULE MCCallNesting ---------------------------
(* A task over instants 0..3 with three calls and up to two event waits: *)
(* nested, disjoint, touching and identical calls, and waits inside,     *)
(* between and around them.                                              *)
EXTENDS CallNesting

MCCalls == {1, 2, 3}
MCTimes == 0..3

(* The window of the whole run, trim_time_range(0, last_time).          *)
MCFullWindow == {[lo |-> 0, hi |-> 3]}

(* trim_time_range(lo, hi) windows with lo <= hi <= last_time.           *)
MCWindows == {[lo |-> 1, hi |-> 2], [lo |-> 1, hi |-> 3]}
=============================================================================
