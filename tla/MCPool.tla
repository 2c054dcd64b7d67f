---------------------------------- MODULE MCPool ----------------------------------
(* Three requests and a pool of two: more requests than clients.  Liveness is  *)
(* checked, so no symmetry.                                                    *)
EXTENDS ConnectionPool, TLC
================================================================================
