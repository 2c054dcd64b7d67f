----------------------------- MODULE MCSubscriptions -----------------------------
(* One company, two calls at a time; two modules are toggled, one of which the    *)
(* other needs, and two plans are asked for besides the smallest.                 *)
EXTENDS Subscriptions, TLC

RequestSymmetry == Permutations(Request)
================================================================================
