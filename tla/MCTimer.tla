------------------------------- MODULE MCTimer -------------------------------
(* The timer with a few requests and cancellations. *)
EXTENDS Timer
=============================================================================
