----------------------------- MODULE MCTimeSet -----------------------------
(***************************************************************************)
(* Instance of the time sets for TLC: every set of a few dates, with every  *)
(* pair of limits that holds it, and a default range that leaves dates out  *)
(* on both sides.                                                           *)
(***************************************************************************)
EXTENDS TimeSetCounting

MCJumps == {-4, -2, -1, 1, 2, 3}
=============================================================================
