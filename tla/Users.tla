------------------------------- MODULE Users -------------------------------
(***************************************************************************)
(* The users of the console, for the modules about what they buy and earn. *)
(***************************************************************************)
EXTENDS FiniteSets

CONSTANTS
    User,          \* a bound
    None           \* nobody, and no address, identity, promotion, grant or order

ASSUME UsersAssumption == IsFiniteSet(User) /\ None \notin User
=============================================================================
