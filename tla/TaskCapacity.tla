---------------------------- MODULE TaskCapacity ----------------------------
(***************************************************************************)
(* The quota of one owner (services/task_capacity.py): grants of so many   *)
(* task slots for a time, the binding of each enabled task to one slot of  *)
(* one grant, and the reconciliation that moves tasks off expired grants   *)
(* and pauses the ones without a slot.  Owners share nothing but the       *)
(* worker, so one owner is enough; he is not an administrator, who has no  *)
(* quota.  Every handler is one transaction.                               *)
(***************************************************************************)
EXTENDS Integers, FiniteSets

CONSTANTS
    Task,       \* tasks of the owner, numbered by their creation
    Grant,      \* rows of task_quota_grants (a bound), numbered in order of their ids
    Old,        \* tasks there may be from before lists of friends (a bound)
    Horizon,    \* the last moment the clock shows (a bound)
    MaxAmount,  \* MAX_TASK_LIMIT
    MaxSaved,   \* max_saved_tasks of the policy
    Term,       \* what a grant may be given for: amount, start and end (a bound)
    None        \* no binding, no task

ASSUME TasksAssumption == Task \subseteq Nat /\ IsFiniteSet(Task) /\ Old \subseteq Task
ASSUME GrantsAssumption == Grant \subseteq Nat /\ IsFiniteSet(Grant)
ASSUME BoundsAssumption == Horizon \in Nat /\ MaxAmount \in Nat /\ MaxSaved \in Nat
ASSUME TermsAssumption ==
    Term \subseteq [amount : 1..MaxAmount, starts : 0..Horizon, expires : 1..Horizon + 1]
ASSUME NoneAssumption == None \notin Task /\ None \notin Grant \X Nat

VARIABLES
    now,        \* the clock
    status,     \* of the owner
    grant,      \* TaskQuotaGrant
    task,       \* SparkTask.enabled, or "none" where there is no task
    legacy,     \* tasks from before lists of friends: they have no recipients
    held,       \* TaskQuotaBinding: the slot a task is bound to
    busy        \* the task the worker has claimed

vars == <<now, status, grant, task, legacy, held, busy>>

Never == Horizon + 1    \* expires_at is null: after every moment
Moment == 0..Horizon
Row == [issued : BOOLEAN, amount : 0..MaxAmount, starts : Moment,
        expires : 1..Never, revoked : BOOLEAN]
NoRow == [issued |-> FALSE, amount |-> 0, starts |-> 0, expires |-> Never, revoked |-> FALSE]
Issue(x) == [issued |-> TRUE, amount |-> x.amount, starts |-> x.starts, expires |-> x.expires,
             revoked |-> FALSE]

-----------------------------------------------------------------------------
\* What the services compute, from rows that may have just been changed.

GrantActive(rows, g) ==
    /\ rows[g].issued /\ ~rows[g].revoked
    /\ rows[g].starts <= now /\ now < rows[g].expires

\* The slots an owner may use: as many as limit_for sums up.
Slots(rows) == {s \in Grant \X (0..MaxAmount) : GrantActive(rows, s[1]) /\ s[2] < rows[s[1]].amount}
LimitFor(rows) == Cardinality(Slots(rows))

Enabled == {t \in Task : task[t] = "on"}
Saved == {t \in Task : task[t] # "none"}

\* task_authorized: a task without a binding is let through by any slot at all.
TaskAuthorized(rows, bound, t) ==
    /\ status = "active"
    /\ IF bound[t] = None THEN Slots(rows) # {} ELSE bound[t] \in Slots(rows)

\* Grants are used up soonest to expire first, then in order of their ids.
GrantBefore(rows, g, h) ==
    \/ rows[g].expires < rows[h].expires
    \/ /\ rows[g].expires = rows[h].expires
       /\ g < h
SlotBefore(rows, r, s) ==
    \/ GrantBefore(rows, r[1], s[1])
    \/ /\ r[1] = s[1]
       /\ r[2] < s[2]

\* Faulty: the slots of other tasks are not looked at.
FreeUnchecked(rows) == Slots(rows)

Free(rows) == Slots(rows) \ {held[t] : t \in Enabled}

\* How many members of a set come before one, in the order of slots and of tasks.
SlotRank(rows, F, s) == Cardinality({r \in F : SlotBefore(rows, r, s)})
TaskRank(S, t) == Cardinality({u \in S : u < t})

\* Faulty: the bindings of paused tasks stay.
DeletedNever(rows, taken, u) == FALSE

\* bind_task looks at the grants up to the one it takes a slot of, and deletes
\* the bindings of paused tasks in each of them.
Deleted(rows, taken, u) ==
    /\ u \notin Enabled /\ held[u] # None
    /\ GrantActive(rows, held[u][1])
    /\ \E s \in taken : ~GrantBefore(rows, s[1], held[u][1])

-----------------------------------------------------------------------------
\* reconcile_user: tasks whose grant has expired move to free slots, the oldest
\* task and the soonest slot first, while fewer tasks are authorized than there
\* are slots.  What is not authorized after that is paused, and whatever exceeds
\* the limit.

Expired(rows) ==
    {t \in Enabled : /\ held[t] # None
                     /\ ~rows[held[t][1]].revoked /\ rows[held[t][1]].expires <= now}

Room(rows) ==
    IF status = "active"
    THEN LimitFor(rows) - Cardinality({t \in Enabled : TaskAuthorized(rows, held, t)})
    ELSE 0

\* Faulty: tasks whose grant expired are not moved.
NoMigrants(rows) == {}

Migrants(rows) ==
    LET expired == Expired(rows)
        room == Room(rows)
    IN  {t \in expired : TaskRank(expired, t) < room}

\* The slot a migrating task gets: both in their order.
Taken(rows, t) ==
    LET free == Free(rows)
        rank == TaskRank(Expired(rows), t)
    IN  CHOOSE s \in free : SlotRank(rows, free, s) = rank

Rebound(rows) ==
    LET M == Migrants(rows)
        taken == {Taken(rows, t) : t \in M}
    IN  [u \in Task |-> CASE u \in M -> Taken(rows, u)
                          [] Deleted(rows, taken, u) -> None
                          [] OTHER -> held[u]]

Paused(rows) ==
    LET bound == Rebound(rows)
        able == {t \in Enabled : TaskAuthorized(rows, bound, t)}
        limit == LimitFor(rows)
    IN  (Enabled \ able) \cup {t \in able : TaskRank(able, t) >= limit}

Reconcile(rows) ==
    LET paused == Paused(rows) IN
    /\ held' = Rebound(rows)
    /\ task' = [t \in Task |-> IF t \in paused THEN "off" ELSE task[t]]

\* bind_task: a task keeps a slot it may use and else gets the first free one.
\* Without one the transaction is undone.
BindTask(t) ==
    IF held[t] # None /\ TaskAuthorized(grant, held, t) THEN held' = held
    ELSE \E s \in Free(grant) :
            /\ SlotRank(grant, Free(grant), s) = 0
            /\ held' = [u \in Task |-> CASE u = t -> s
                                         [] u # t /\ Deleted(grant, {s}, u) -> None
                                         [] OTHER -> held[u]]

MayEnable == Cardinality(Enabled) < LimitFor(grant)

-----------------------------------------------------------------------------
\* The initial grant (bootstrap_user), and tasks of an earlier release.
Init ==
    /\ now = 0 /\ status = "active"
    /\ \E g \in Grant, x \in {y \in Term : y.starts = 0} :
         grant = [h \in Grant |-> IF h = g THEN Issue(x) ELSE NoRow]
    /\ legacy \in SUBSET Old
    /\ task = [t \in Task |-> IF t \in legacy THEN "on" ELSE "none"]
    /\ held = [t \in Task |-> None]
    /\ busy = None

TimePasses ==
    /\ now < Horizon
    /\ now' = now + 1
    /\ UNCHANGED <<status, grant, task, legacy, held, busy>>

\* set_disabled: an administrator stops or readmits the owner.
SetStatus ==
    /\ status' \in {"active", "disabled"} \ {status}
    /\ UNCHANGED <<now, grant, task, legacy, held, busy>>

\* grant, and each slot of purchase_slots.
AddGrant(g, x) ==
    /\ ~grant[g].issued /\ x.starts < x.expires
    /\ grant' = [grant EXCEPT ![g] = Issue(x)]
    /\ UNCHANGED <<now, status, task, legacy, held, busy>>

\* renew_slot: from now or from its end, whichever is later; nothing is reconciled.
RenewSlot(g, days) ==
    LET from == IF grant[g].expires < now THEN now ELSE grant[g].expires IN
    /\ grant[g].issued /\ ~grant[g].revoked
    /\ grant[g].amount >= 1 /\ grant[g].expires # Never
    /\ from + days <= Never
    /\ grant' = [grant EXCEPT ![g].expires = from + days]
    /\ UNCHANGED <<now, status, task, legacy, held, busy>>

UpdateGrant(g, x) ==
    LET rows == [grant EXCEPT ![g] = Issue(x)] IN
    /\ grant[g].issued /\ ~grant[g].revoked /\ x.starts < x.expires
    /\ grant' = rows /\ Reconcile(rows)
    /\ UNCHANGED <<now, status, legacy, busy>>

Revoke(g) ==
    LET rows == [grant EXCEPT ![g].revoked = TRUE] IN
    /\ grant[g].issued /\ ~grant[g].revoked
    /\ grant' = rows /\ Reconcile(rows)
    /\ UNCHANGED <<now, status, legacy, busy>>

\* set_limit: the earliest grant, whatever has become of it, gets the new amount.
SetLimit(g, limit) ==
    /\ grant[g].issued
    /\ \A h \in Grant : grant[h].issued => grant[g].starts <= grant[h].starts
    /\ grant' = [grant EXCEPT ![g].amount = limit]
    /\ UNCHANGED <<now, status, task, legacy, held, busy>>

\* reconcile_all: whenever a page of the console with quotas in it is opened.
ShowPage ==
    /\ Reconcile(grant)
    /\ UNCHANGED <<now, status, grant, legacy, busy>>

CreateTask(t) ==
    /\ status = "active"
    /\ task[t] = "none"
    /\ \A u \in Task : u < t <=> \E v \in Saved : u <= v
    /\ Cardinality(Saved) < MaxSaved /\ MayEnable
    /\ task' = [task EXCEPT ![t] = "on"]
    /\ BindTask(t)
    /\ UNCHANGED <<now, status, grant, legacy, busy>>

\* set_enabled, for the owner and for an administrator.
Enable(t) ==
    /\ status = "active"
    /\ task[t] = "off" /\ MayEnable
    /\ task' = [task EXCEPT ![t] = "on"]
    /\ IF t \in legacy THEN held' = held ELSE BindTask(t)
    /\ UNCHANGED <<now, status, grant, legacy, busy>>

Pause(t) ==
    /\ task[t] = "on"
    /\ task' = [task EXCEPT ![t] = "off"]
    /\ UNCHANGED <<now, status, grant, legacy, held, busy>>

\* update_owned: the form holds a list of friends, so the task gets one.
Edit(t) ==
    /\ status = "active"
    /\ task[t] # "none" /\ busy # t
    /\ legacy' = legacy \ {t}
    /\ IF task[t] = "on" THEN BindTask(t) ELSE held' = held
    /\ UNCHANGED <<now, status, grant, task, busy>>

\* By the owner, or by an administrator for any owner.
Delete(t) ==
    /\ task[t] # "none" /\ busy # t
    /\ task' = [task EXCEPT ![t] = "none"]
    /\ legacy' = legacy \ {t}
    /\ held' = [held EXCEPT ![t] = None]
    /\ UNCHANGED <<now, status, grant, busy>>

\* Faulty: the worker claims first and leaves the reconciliation to the pages.
ClaimFirst(t) ==
    /\ busy = None /\ task[t] = "on" /\ busy' = t
    /\ UNCHANGED <<now, status, grant, task, legacy, held>>

\* Worker.run_once: the owners of due tasks are reconciled, then one is claimed.
Claim(t) ==
    /\ busy = None /\ task[t] = "on"
    /\ Reconcile(grant)
    /\ task'[t] = "on" /\ busy' = t
    /\ UNCHANGED <<now, status, grant, legacy>>

Finish ==
    /\ busy # None /\ busy' = None
    /\ UNCHANGED <<now, status, grant, task, legacy, held>>

Office ==
    \/ SetStatus
    \/ \E g \in Grant : \/ \E x \in Term : AddGrant(g, x) \/ UpdateGrant(g, x) \/ SetLimit(g, x.amount)
                        \/ RenewSlot(g, 1)
                        \/ Revoke(g)
Console == ShowPage \/ \E t \in Task : CreateTask(t) \/ Enable(t) \/ Pause(t) \/ Edit(t) \/ Delete(t)
Worker == Finish \/ \E t \in Task : Claim(t)

Next == TimePasses \/ Office \/ Console \/ Worker

Spec == Init /\ [][Next]_vars

-----------------------------------------------------------------------------
TypeOK ==
    /\ now \in Moment /\ status \in {"active", "disabled"}
    /\ grant \in [Grant -> Row]
    /\ task \in [Task -> {"none", "on", "off"}] /\ legacy \subseteq Task
    /\ held \in [Task -> {None} \cup Grant \X (0..MaxAmount)]
    /\ busy \in {None} \cup Task

\* The unique index uq_task_quota_position never refuses a write: no two
\* bindings name one slot, although bindings of paused tasks linger.
SlotsDistinct == \A t, u \in Task : t # u /\ held[t] # None => held[t] # held[u]

\* A task with a list of friends runs on a binding; a task without one, or none
\* at all, has none; a binding's grant exists, and so do old tasks.
BindingsInPlace ==
    \A t \in Task : /\ task[t] = "on" /\ t \notin legacy => held[t] # None
                    /\ task[t] = "none" \/ t \in legacy => held[t] = None
                    /\ held[t] # None => grant[held[t][1]].issued
                    /\ t \in legacy => task[t] # "none"

\* The invariant of the quota, over grants that are added, changed, revoked and
\* expire while tasks come, go and move.
QuotaInv == TypeOK /\ SlotsDistinct /\ BindingsInPlace

\* At any moment, no more tasks with a list of friends may send than the owner
\* has slots, whether or not anyone has reconciled since a grant ended.
WithinQuota ==
    Cardinality({t \in Enabled \ legacy : TaskAuthorized(grant, held, t)}) <= LimitFor(grant)

\* The worker claims a task only on a slot of its own, or an old one on the
\* owner's quota, at the moment of the claim, with the owner within his limit
\* ("so another owner cannot bypass quotas", worker.py).
ClaimsWithinQuota ==
    [][busy' \notin {None, busy} =>
        /\ TaskAuthorized(grant, held, busy)'
        /\ (Cardinality(Enabled) <= LimitFor(grant))']_vars

\* A reconciliation pauses no task whose grant merely expired while a slot is
\* free, and it never starts one.
PausesOnlyForWant ==
    [][(task' # task /\ ~\E t \in Task : CreateTask(t) \/ Enable(t) \/ Pause(t) \/ Delete(t)) =>
        \A t \in Task :
            /\ task'[t] = "on" => task[t] = "on"
            /\ task'[t] # task[t] /\ status = "active" /\ held[t] # None
                /\ ~grant'[held[t][1]].revoked /\ grant'[held[t][1]].expires <= now
               => (Cardinality(Enabled) = LimitFor(grant))']_vars
=============================================================================
