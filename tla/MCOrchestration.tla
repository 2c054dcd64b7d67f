----------------------------- MODULE MCOrchestration -----------------------------
(* Two bookings that compete for one truck with a tracker, two requests at a   *)
(* time.  Bookings and requests are interchangeable.                           *)
EXTENDS Orchestration, TLC

OrchSymmetry == Permutations(Request) \cup Permutations(Booking)
================================================================================
