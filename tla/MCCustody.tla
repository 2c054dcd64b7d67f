------------------------------- MODULE MCCustody -------------------------------
(* CustodyManifest on a small instance.  The keys are interchangeable: no     *)
(* action or property names one.                                              *)
EXTENDS CustodyManifest, TLC

KeySymmetry == Permutations(Key)
===============================================================================
