--------------------------- MODULE MCTaskCapacity ---------------------------
(* A small instance of TaskCapacity for TLC: three tasks, the first maybe   *)
(* from before lists of friends, two grants, a term that ends at the next   *)
(* moment and one that begins then.                                         *)
EXTENDS TaskCapacityLoop

MCTasks == 1..3
MCGrants == 1..2

Of(amount, starts, expires) == [amount |-> amount, starts |-> starts, expires |-> expires]
MCOld == {1}
MCTerms == {Of(2, 0, 1), Of(1, 1, 2)}
\* A bound: not both grants are revoked, and an owner is disabled between runs (a
\* run that is going on only keeps its task from being deleted then, by an
\* administrator).
MCBound ==
    /\ \E g \in Grant : ~grant[g].revoked
    /\ status = "disabled" => busy = None
=============================================================================
