-------------------------- MODULE TaskCapacityLoop --------------------------
(***************************************************************************)
(* reconcile_user as the loop it is, against the closed form the other     *)
(* operators of TaskCapacity and their proofs use.                         *)
(***************************************************************************)
EXTENDS TaskCapacity

\* Tasks in the order of their creation: how many come before one is its place.
Nth(S, k) == CHOOSE t \in S : TaskRank(S, t) = k

\* bind_task within the loop: held, or the error, and the bindings it deleted.
LoopBind(rows, bound, t) ==
    LET free == Slots(rows) \ {bound[u] : u \in Enabled}
        first == CHOOSE s \in free : \A r \in free : ~SlotBefore(rows, r, s)
        looked == IF free = {} THEN {g \in Grant : GrantActive(rows, g)}
                  ELSE {g \in Grant : GrantActive(rows, g) /\ ~GrantBefore(rows, first[1], g)}
        cleared == [u \in Task |-> IF u \notin Enabled /\ bound[u] # None /\ bound[u][1] \in looked
                                   THEN None ELSE bound[u]]
    IN  IF free = {} THEN [bound |-> cleared, ok |-> FALSE]
        ELSE [bound |-> [cleared EXCEPT ![t] = first], ok |-> TRUE]

LoopStep(rows, acc, t) ==
    LET bound == LoopBind(rows, acc.held, t)
    IN  IF acc.stop \/ status # "active" \/ acc.count >= LimitFor(rows) THEN [acc EXCEPT !.stop = TRUE]
        ELSE IF t \notin Expired(rows) THEN acc
        ELSE [held |-> bound.bound, stop |-> FALSE,
              count |-> IF bound.ok THEN acc.count + 1 ELSE acc.count]

\* The loop after each of the enabled tasks.
After(rows) ==
    LET acc[k \in 0..Cardinality(Enabled)] ==
            IF k = 0
            THEN [held |-> held, stop |-> FALSE,
                  count |-> Cardinality({t \in Enabled : TaskAuthorized(rows, held, t)})]
            ELSE LoopStep(rows, acc[k - 1], Nth(Enabled, k - 1))
    IN  acc

Looped(rows) == After(rows)[Cardinality(Enabled)].held

LoopExcess(rows, bound) ==
    LET able == {t \in Enabled : TaskAuthorized(rows, bound, t)}
    IN  (Enabled \ able) \cup {Nth(able, k) : k \in LimitFor(rows)..Cardinality(able) - 1}

\* In every reachable state the closed form of a reconciliation is what the loop
\* computes: the tasks that move, where they move, what is deleted on the way and
\* what is paused.
LoopAgrees ==
    LET looped == Looped(grant)
    IN  Rebound(grant) = looped /\ Paused(grant) = LoopExcess(grant, looped)
=============================================================================
