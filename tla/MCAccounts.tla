---------------------------- MODULE MCAccounts ----------------------------
(* Two users and two addresses cross in every way: the bounds of the README. *)
EXTENDS Accounts, TLC

MCSymmetry == Permutations(User) \cup Permutations(Address) \cup Permutations(Request)
=============================================================================
