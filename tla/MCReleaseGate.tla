------------------------------ MODULE MCReleaseGate ------------------------------
(* The release gate with two requests at a time over one piece of the manifest *)
(* and one that is not on it.  Liveness is checked, so no symmetry.            *)
EXTENDS ReleaseGate, TLC
================================================================================
