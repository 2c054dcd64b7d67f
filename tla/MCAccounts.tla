------------------------------- MODULE MCAccounts -------------------------------
(* Two admins of one company, a stranger two companies may invite, two calls   *)
(* at a time.  Admins, sessions, documents and requests are interchangeable,   *)
(* and only invariants and action properties are checked.                      *)
EXTENDS Onboarding, TLC

AccountsSymmetry ==
  Permutations(Admin) \cup Permutations(Session)
    \cup Permutations(Document) \cup Permutations(Request)
================================================================================
