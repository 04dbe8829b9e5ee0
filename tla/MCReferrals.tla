----------------------------- MODULE MCReferrals -----------------------------
(* A small instance of Referrals for TLC.                                   *)
EXTENDS Referrals, TLC

MCSymmetry == Permutations(User) \cup Permutations(Address) \cup Permutations(Douyin)
=============================================================================
