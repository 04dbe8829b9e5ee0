----------------------------- MODULE MCRenewals -----------------------------
(* A small instance of Renewals for TLC.                                    *)
EXTENDS Renewals, TLC

CONSTANTS u1, g1

MCOwner == g1 :> u1
MCPlans == {"month", "year", "year_friend"}
MCSymmetry == Permutations(Order) \cup Permutations(Channel)
=============================================================================
