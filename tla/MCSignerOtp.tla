------------------------------- MODULE MCSignerOtp -------------------------------
(* Three requests at a time for one phone.  Requests and key pairs are         *)
(* interchangeable.                                                            *)
EXTENDS SignerOtp, TLC

SignerSymmetry == Permutations(Request) \cup Permutations(Key)
================================================================================
