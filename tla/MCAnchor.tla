--------------------------------- MODULE MCAnchor ---------------------------------
(* The anchor pipeline of one trip.  Liveness is checked, so no symmetry.       *)
EXTENDS TripProofs, TLC
================================================================================
