------------------------- MODULE TaskCapacityProofs -------------------------
(* QuotaInv is inductive for any tasks, grants and terms: what a            *)
(* reconciliation or bind_task writes never names one slot twice.  The      *)
(* heart of it is a count: there are at least as many free slots as there   *)
(* is room, so that the k-th task to move finds a k-th free slot.  At the   *)
(* end, the loop of TaskCapacityLoop is shown to compute that closed form.  *)
EXTENDS TaskCapacityLoop, TLAPS, FiniteSetTheorems, FunctionTheorems, WellFoundedInduction

Rows == [Grant -> Row]

\* Facts about the constants that the steps need.
LEMMA Numbers ==
    /\ Task \subseteq Nat /\ Grant \subseteq Nat /\ IsFiniteSet(Task) /\ IsFiniteSet(Grant)
    /\ Horizon \in Nat /\ MaxAmount \in Nat /\ Never \in Int
    /\ None \notin Grant \X Nat /\ None \notin Task /\ Old \subseteq Task
    /\ \A rows \in Rows, g \in Grant : rows[g] \in Row
    /\ \A r \in Row : /\ r.amount \in Nat /\ r.amount <= MaxAmount
                      /\ r.starts \in Int /\ r.expires \in Int
                      /\ r.issued \in BOOLEAN /\ r.revoked \in BOOLEAN
  BY TasksAssumption, GrantsAssumption, BoundsAssumption, NoneAssumption
     DEF Rows, Row, Never, Moment

\* There are finitely many slots, and each is a position in a grant.
LEMMA SlotsFinite ==
    ASSUME NEW rows \in Rows
    PROVE  /\ IsFiniteSet(Slots(rows)) /\ Slots(rows) \subseteq Grant \X (0..MaxAmount)
           /\ LimitFor(rows) \in Nat
           /\ IsFiniteSet(Free(rows)) /\ Free(rows) \subseteq Slots(rows)
  <1>1. IsFiniteSet(0..MaxAmount)
    BY FS_Interval, Numbers
  <1>2. IsFiniteSet(Grant \X (0..MaxAmount))
    BY <1>1, FS_Product, Numbers
  <1>3. Slots(rows) \subseteq Grant \X (0..MaxAmount) /\ Free(rows) \subseteq Slots(rows)
    BY DEF Slots, Free
  <1>4. IsFiniteSet(Slots(rows))
    BY <1>2, <1>3, FS_Subset
  <1>5. IsFiniteSet(Free(rows))
    BY <1>3, <1>4, FS_Subset
  <1> QED
    BY <1>3, <1>4, <1>5, FS_CardinalityType DEF LimitFor

\* bind_task's order of slots is a strict total order.
LEMMA SlotOrder ==
    ASSUME NEW rows \in Rows, NEW r \in Grant \X (0..MaxAmount), NEW s \in Grant \X (0..MaxAmount)
    PROVE  /\ ~SlotBefore(rows, r, r)
           /\ r # s => SlotBefore(rows, r, s) \/ SlotBefore(rows, s, r)
           /\ \A q \in Grant \X (0..MaxAmount) :
                SlotBefore(rows, q, r) /\ SlotBefore(rows, r, s) => SlotBefore(rows, q, s)
  <1>1. /\ r[1] \in Grant /\ r[2] \in Int /\ r = <<r[1], r[2]>>
        /\ s[1] \in Grant /\ s[2] \in Int /\ s = <<s[1], s[2]>>
    BY Numbers
  <1>2. \A g \in Grant : g \in Int /\ rows[g].expires \in Int
    <2>1. \A g \in Grant : rows[g] \in Row
      BY Numbers
    <2> QED
      BY <2>1, Numbers
  <1>3. ~SlotBefore(rows, r, r)
    BY <1>1, <1>2 DEF SlotBefore, GrantBefore
  <1>4. r # s => SlotBefore(rows, r, s) \/ SlotBefore(rows, s, r)
    BY <1>1, <1>2 DEF SlotBefore, GrantBefore
  <1>5. ASSUME NEW q \in Grant \X (0..MaxAmount), SlotBefore(rows, q, r), SlotBefore(rows, r, s)
        PROVE  SlotBefore(rows, q, s)
    <2>1. q[1] \in Grant /\ q[2] \in Int
      BY Numbers
    <2> QED
      BY <1>1, <1>2, <1>5, <2>1 DEF SlotBefore, GrantBefore
  <1> QED
    BY <1>3, <1>4, <1>5

\* An earlier slot has a lower rank, and ranks are below the number of slots.
LEMMA SlotRankOrder ==
    ASSUME NEW rows \in Rows, NEW F \in SUBSET (Grant \X (0..MaxAmount)), IsFiniteSet(F), NEW s \in F
    PROVE  /\ SlotRank(rows, F, s) \in 0..Cardinality(F) - 1
           /\ \A r \in F : SlotBefore(rows, r, s) => SlotRank(rows, F, r) < SlotRank(rows, F, s)
  <1> DEFINE B(x) == {r \in F : SlotBefore(rows, r, x)}
  <1>1. \A x \in F : IsFiniteSet(B(x)) /\ Cardinality(B(x)) \in Nat /\ SlotRank(rows, F, x) = Cardinality(B(x))
    <2> TAKE x \in F
    <2>1. B(x) \in SUBSET F
      OBVIOUS
    <2>2. IsFiniteSet(B(x))
      BY <2>1, FS_Subset
    <2> QED
      BY <2>2, FS_CardinalityType DEF SlotRank
  <1>2. Cardinality(B(s)) < Cardinality(F)
    <2>1. s \notin B(s) /\ B(s) \in SUBSET F
      BY SlotOrder
    <2>2. Cardinality(B(s)) <= Cardinality(F) /\ (Cardinality(F) = Cardinality(B(s)) => F = B(s))
      BY <2>1, FS_Subset
    <2>3. Cardinality(F) \in Nat
      BY FS_CardinalityType
    <2> QED
      BY <1>1, <2>1, <2>2, <2>3
  <1>3. ASSUME NEW r \in F, SlotBefore(rows, r, s)
        PROVE  Cardinality(B(r)) < Cardinality(B(s))
    <2>1. B(r) \subseteq B(s)
      BY <1>3, SlotOrder
    <2>2. r \in B(s) /\ r \notin B(r)
      BY <1>3, SlotOrder
    <2>3. /\ Cardinality(B(r)) <= Cardinality(B(s))
          /\ Cardinality(B(s)) = Cardinality(B(r)) => B(s) = B(r)
      <3> HIDE DEF B
      <3> QED
        BY <1>1, <2>1, FS_Subset
    <2> HIDE DEF B
    <2> QED
      BY <1>1, <2>2, <2>3
  <1>4. Cardinality(F) \in Nat
    BY FS_CardinalityType
  <1> HIDE DEF B
  <1> QED
    BY <1>1, <1>2, <1>3, <1>4

\* Every rank below the number of slots is taken, and by one slot only.
LEMMA SlotRankOnto ==
    ASSUME NEW rows \in Rows, NEW F \in SUBSET (Grant \X (0..MaxAmount)), IsFiniteSet(F)
    PROVE  /\ \A k \in 0..Cardinality(F) - 1 : \E s \in F : SlotRank(rows, F, s) = k
           /\ \A r, s \in F : SlotRank(rows, F, r) = SlotRank(rows, F, s) => r = s
  <1> DEFINE n == Cardinality(F)
             rank == [s \in F |-> SlotRank(rows, F, s)]
  <1>1. n \in Nat
    BY FS_CardinalityType
  <1>2. \A s \in F : SlotRank(rows, F, s) \in 0..n - 1
    BY SlotRankOrder
  <1>3. \A r, s \in F : SlotRank(rows, F, r) = SlotRank(rows, F, s) => r = s
    <2> SUFFICES ASSUME NEW r \in F, NEW s \in F, r # s
                 PROVE  SlotRank(rows, F, r) # SlotRank(rows, F, s)
      OBVIOUS
    <2>1. SlotBefore(rows, r, s) \/ SlotBefore(rows, s, r)
      BY SlotOrder
    <2>2. SlotRank(rows, F, r) < SlotRank(rows, F, s) \/ SlotRank(rows, F, s) < SlotRank(rows, F, r)
      BY <2>1, SlotRankOrder
    <2> QED
      BY <1>1, <1>2, <2>2
  <1>4. rank \in Injection(F, 0..n - 1)
    BY <1>2, <1>3 DEF Injection, IsInjective
  <1>5. IsFiniteSet(0..n - 1) /\ Cardinality(0..n - 1) = n
    <2> HIDE DEF n
    <2>1. n - 1 \in Int /\ (0 > n - 1 => n = 0) /\ n - 1 - 0 + 1 = n
      BY <1>1
    <2> QED
      BY <2>1, FS_Interval
  <1>6. rank \in Surjection(F, 0..n - 1)
    <2> HIDE DEF rank
    <2> QED
      BY <1>4, <1>5, FS_Injection
  <1>7. \A k \in 0..n - 1 : \E s \in F : rank[s] = k
    <2> HIDE DEF rank
    <2> QED
      BY <1>6 DEF Surjection
  <1> QED
    BY <1>3, <1>7

\* The ranks of tasks tell them apart.
LEMMA TaskRankDistinct ==
    ASSUME NEW S \in SUBSET Task, NEW t \in S
    PROVE  /\ TaskRank(S, t) \in Nat
           /\ \A u \in S : u # t => TaskRank(S, u) # TaskRank(S, t)
  <1> DEFINE B(x) == {u \in S : u < x}
  <1>1. \A x \in S : IsFiniteSet(B(x)) /\ Cardinality(B(x)) \in Nat /\ TaskRank(S, x) = Cardinality(B(x))
    <2> TAKE x \in S
    <2>1. B(x) \in SUBSET Task
      OBVIOUS
    <2>2. IsFiniteSet(B(x))
      BY <2>1, FS_Subset, Numbers
    <2> QED
      BY <2>2, FS_CardinalityType DEF TaskRank
  <1>2. ASSUME NEW u \in S, NEW v \in S, u < v
        PROVE  TaskRank(S, u) # TaskRank(S, v)
    <2>1. u \in Nat /\ v \in Nat /\ \A x \in S : x \in Nat
      BY Numbers
    <2>2. B(u) \subseteq B(v) /\ u \in B(v) /\ u \notin B(u)
      <3>1. \A x \in S : x < u => x < v
        BY <1>2, <2>1
      <3>2. ~(u < u)
        BY <2>1
      <3> QED
        BY <1>2, <3>1, <3>2, Zenon
    <2> HIDE DEF B
    <2>3. Cardinality(B(v)) = Cardinality(B(u)) => B(v) = B(u)
      BY <1>1, <2>2, FS_Subset
    <2> QED
      BY <1>1, <2>2, <2>3
  <1>3. ASSUME NEW u \in S, u # t
        PROVE  TaskRank(S, u) # TaskRank(S, t)
    <2>1. u < t \/ t < u
      BY <1>3, Numbers
    <2> QED
      BY <1>2, <2>1
  <1> QED
    BY <1>1, <1>3

\* There is no more room than free slots: a task that is not authorized is bound
\* to none of the slots.
LEMMA RoomIsFree ==
    ASSUME TypeOK, NEW rows \in Rows
    PROVE  /\ Room(rows) \in Int
           /\ Room(rows) <= Cardinality(Free(rows)) \/ Room(rows) = 0
  <1> DEFINE A == {t \in Enabled : TaskAuthorized(rows, held, t)}
             H == {t \in A : held[t] # None}
             U == {held[t] : t \in H}
             f == [t \in H |-> held[t]]
  <1>0. CASE status # "active"
    BY <1>0 DEF Room
  <1> SUFFICES ASSUME status = "active" PROVE Room(rows) \in Int /\ Room(rows) <= Cardinality(Free(rows))
    BY <1>0
  <1>1. A \in SUBSET Task /\ H \in SUBSET A
    BY DEF Enabled
  <1>2. IsFiniteSet(A) /\ IsFiniteSet(H) /\ Cardinality(A) \in Nat /\ Cardinality(H) \in Nat
        /\ Cardinality(H) <= Cardinality(A)
    <2> HIDE DEF A, H
    <2>1. IsFiniteSet(A)
      BY <1>1, Numbers, FS_Subset
    <2> QED
      BY <1>1, <2>1, FS_Subset, FS_CardinalityType
  <1>3. f \in Surjection(H, U)
    BY DEF Surjection
  <1>4. IsFiniteSet(U) /\ Cardinality(U) <= Cardinality(H) /\ Cardinality(U) \in Nat
    <2> HIDE DEF f, U, H
    <2> QED
      BY <1>2, <1>3, FS_Surjection, FS_CardinalityType
  <1>5. Slots(rows) \subseteq Free(rows) \cup U
    <2> SUFFICES ASSUME NEW s \in Slots(rows), s \notin Free(rows) PROVE s \in U
      OBVIOUS
    <2>1. PICK t \in Enabled : held[t] = s
      BY DEF Free
    <2>2. s # None
      BY SlotsFinite, Numbers
    <2>3. t \in H
      BY <2>1, <2>2 DEF TaskAuthorized
    <2> QED
      BY <2>1, <2>3
  <1>6. Cardinality(Free(rows) \cup U) <= Cardinality(Free(rows)) + Cardinality(U)
        /\ IsFiniteSet(Free(rows) \cup U) /\ Cardinality(Free(rows)) \in Nat
        /\ Cardinality(Free(rows) \cup U) \in Nat
    <2> HIDE DEF U
    <2>1. IsFiniteSet(Free(rows)) /\ IsFiniteSet(Free(rows) \cap U)
      BY <1>4, SlotsFinite, FS_Subset
    <2>2. Cardinality(Free(rows) \cap U) \in Nat /\ Cardinality(Free(rows)) \in Nat
      BY <2>1, FS_CardinalityType
    <2>3. /\ IsFiniteSet(Free(rows) \cup U)
          /\ Cardinality(Free(rows) \cup U)
               = Cardinality(Free(rows)) + Cardinality(U) - Cardinality(Free(rows) \cap U)
      BY <1>4, <2>1, FS_Union
    <2>4. Cardinality(Free(rows) \cup U) \in Nat
      BY <2>3, FS_CardinalityType
    <2> QED
      BY <1>4, <2>2, <2>3, <2>4
  <1>7. Cardinality(Slots(rows)) <= Cardinality(Free(rows) \cup U) /\ Cardinality(Slots(rows)) \in Nat
    <2> HIDE DEF U
    <2> QED
      BY <1>5, <1>6, SlotsFinite, FS_Subset, FS_CardinalityType
  <1>8. Room(rows) = Cardinality(Slots(rows)) - Cardinality(A)
    BY DEF Room, LimitFor
  <1> HIDE DEF A, H, U, f
  <1> QED
    BY <1>2, <1>4, <1>6, <1>7, <1>8

\* Tasks that move get free slots, each another one.
LEMMA TakenFree ==
    ASSUME TypeOK, NEW rows \in Rows
    PROVE  /\ Migrants(rows) \subseteq Enabled
           /\ \A t \in Migrants(rows) : held[t] # None /\ Taken(rows, t) \in Free(rows)
           /\ \A t, u \in Migrants(rows) : Taken(rows, t) = Taken(rows, u) => t = u
  <1> DEFINE F == Free(rows)
  <1>1. F \in SUBSET (Grant \X (0..MaxAmount)) /\ IsFiniteSet(F)
    BY SlotsFinite
  <1>2. Expired(rows) \in SUBSET Task /\ Migrants(rows) \subseteq Expired(rows) /\ Expired(rows) \subseteq Enabled
        /\ \A t \in Expired(rows) : held[t] # None
    BY DEF Expired, Migrants, Enabled
  <1>3. ASSUME NEW t \in Migrants(rows)
        PROVE  Taken(rows, t) \in F /\ SlotRank(rows, F, Taken(rows, t)) = TaskRank(Expired(rows), t)
    <2>1. TaskRank(Expired(rows), t) \in Nat /\ TaskRank(Expired(rows), t) < Room(rows)
      BY <1>2, TaskRankDistinct DEF Migrants
    <2>2. Cardinality(F) \in Nat
      BY <1>1, FS_CardinalityType
    <2>3. Room(rows) \in Int /\ Room(rows) <= Cardinality(F)
      BY <2>1, <2>2, RoomIsFree
    <2>4. TaskRank(Expired(rows), t) \in 0..Cardinality(F) - 1
      BY <2>1, <2>2, <2>3
    <2>5. \E s \in F : SlotRank(rows, F, s) = TaskRank(Expired(rows), t)
      BY <1>1, <2>4, SlotRankOnto
    <2> QED
      BY <2>5 DEF Taken
  <1>4. ASSUME NEW t \in Migrants(rows), NEW u \in Migrants(rows), Taken(rows, t) = Taken(rows, u)
        PROVE  t = u
    BY <1>2, <1>3, <1>4, TaskRankDistinct
  <1> QED
    BY <1>2, <1>3, <1>4

\* What a reconciliation leaves, for any rows that issue no fewer grants.
LEMMA ReconcileKeeps ==
    ASSUME QuotaInv, NEW rows \in Rows, \A g \in Grant : grant[g].issued => rows[g].issued,
           Reconcile(rows), grant' = rows, UNCHANGED <<now, status, legacy>>, busy' \in {None} \cup Task
    PROVE  QuotaInv'
  <1> DEFINE M == Migrants(rows)
             taken == {Taken(rows, t) : t \in M}
  <1>1. /\ M \subseteq Enabled /\ Enabled \subseteq Task
        /\ \A t \in M : held[t] # None /\ Taken(rows, t) \in Free(rows)
        /\ \A t, u \in M : Taken(rows, t) = Taken(rows, u) => t = u
    BY TakenFree DEF Enabled, QuotaInv
  <1>2. Free(rows) \subseteq Slots(rows) /\ Slots(rows) \subseteq Grant \X (0..MaxAmount)
        /\ \A s \in Slots(rows) : GrantActive(rows, s[1]) /\ s # None /\ s[1] \in Grant
    <2>1. \A s \in Grant \X (0..MaxAmount) : s \in Grant \X Nat
      BY Numbers
    <2> QED
      BY <2>1, SlotsFinite, Numbers DEF Slots
  <1>3. \A t \in Task : held'[t] = CASE t \in M -> Taken(rows, t)
                                     [] Deleted(rows, taken, t) -> None
                                     [] OTHER -> held[t]
    BY DEF Reconcile, Rebound
  <1>4. \A t \in Task : /\ ~(t \in M /\ Deleted(rows, taken, t))
                        /\ t \in M => held'[t] = Taken(rows, t)
                        /\ Deleted(rows, taken, t) => held'[t] = None
                        /\ t \notin M /\ ~Deleted(rows, taken, t) => held'[t] = held[t]
    <2>1. \A t \in Task : ~(t \in M /\ Deleted(rows, taken, t))
      BY <1>1 DEF Deleted
    <2> HIDE DEF M, taken
    <2> QED
      BY <1>3, <2>1
  <1>5. TypeOK'
    <2>1. held' \in [Task -> {None} \cup Grant \X (0..MaxAmount)]
      <3>1. held' = [t \in Task |-> held'[t]]
        BY DEF Reconcile, Rebound
      <3>2. \A t \in Task : held[t] \in {None} \cup Grant \X (0..MaxAmount)
        BY DEF QuotaInv, TypeOK
      <3>3. \A t \in Task : held'[t] \in {None} \cup Grant \X (0..MaxAmount)
        BY <1>1, <1>2, <1>4, <3>2
      <3> HIDE DEF M, taken
      <3> QED
        BY <3>1, <3>3
    <2>2. task' \in [Task -> {"none", "on", "off"}]
      BY DEF QuotaInv, TypeOK, Reconcile
    <2>3. grant' \in [Grant -> Row]
      BY DEF Rows
    <2> QED
      BY <2>1, <2>2, <2>3 DEF QuotaInv, TypeOK
  <1>6. SlotsDistinct'
    <2> SUFFICES ASSUME NEW t \in Task, NEW u \in Task, t # u, held'[t] # None, held'[t] = held'[u]
                 PROVE  FALSE
      BY DEF SlotsDistinct
    <2>1. \A v \in Task, w \in M : v \notin M /\ ~Deleted(rows, taken, v) => held[v] # Taken(rows, w)
      <3> SUFFICES ASSUME NEW v \in Task, NEW w \in M, v \notin M, held[v] = Taken(rows, w)
                   PROVE  Deleted(rows, taken, v)
        OBVIOUS
      <3>1. Taken(rows, w) \in Free(rows) /\ Taken(rows, w) \in Slots(rows) /\ Taken(rows, w) # None
        BY <1>1, <1>2
      <3>2. v \notin Enabled
        BY <3>1 DEF Free
      <3>3. ~GrantBefore(rows, Taken(rows, w)[1], Taken(rows, w)[1])
        <4>1. Taken(rows, w)[1] \in Grant
          BY <1>2, <3>1
        <4>2. rows[Taken(rows, w)[1]].expires \in Int /\ Taken(rows, w)[1] \in Nat
          <5>1. rows[Taken(rows, w)[1]] \in Row
            BY <4>1, Numbers
          <5> QED
            BY <4>1, <5>1, Numbers
        <4> QED
          BY <4>2 DEF GrantBefore
      <3> QED
        BY <1>2, <3>1, <3>2, <3>3 DEF Deleted
    <2> HIDE DEF M, taken
    <2>2. CASE t \in M /\ u \in M
      BY <1>1, <1>4, <2>2
    <2>3. CASE t \in M /\ u \notin M
      BY <1>4, <2>1, <2>3
    <2>4. CASE t \notin M /\ u \in M
      BY <1>4, <2>1, <2>4
    <2>5. CASE t \notin M /\ u \notin M
      BY <1>4, <2>5 DEF QuotaInv, SlotsDistinct
    <2> QED
      BY <2>2, <2>3, <2>4, <2>5
  <1>7. BindingsInPlace'
    <2> SUFFICES ASSUME NEW t \in Task
                 PROVE  /\ task'[t] = "on" /\ t \notin legacy => held'[t] # None
                        /\ task'[t] = "none" \/ t \in legacy => held'[t] = None
                        /\ held'[t] # None => rows[held'[t][1]].issued
                        /\ t \in legacy => task'[t] # "none"
      BY DEF BindingsInPlace
    <2>1. /\ task'[t] = "on" => task[t] = "on" /\ t \in Enabled
          /\ task'[t] = "none" <=> task[t] = "none"
      BY DEF Reconcile, Enabled, Paused, QuotaInv, TypeOK
    <2>2. CASE t \in M
      <3>1. held'[t] \in Slots(rows) /\ held'[t] # None /\ held'[t][1] \in Grant
        BY <1>1, <1>2, <1>4, <2>2
      <3>2. task[t] # "none" /\ t \notin legacy
        BY <1>1, <2>2 DEF QuotaInv, BindingsInPlace
      <3> QED
        BY <1>2, <2>1, <3>1, <3>2 DEF GrantActive
    <2>3. CASE Deleted(rows, taken, t)
      <3>1. t \notin Enabled /\ held[t] # None /\ held'[t] = None
        BY <1>4, <2>3 DEF Deleted
      <3> QED
        BY <2>1, <3>1 DEF QuotaInv, BindingsInPlace
    <2>4. CASE t \notin M /\ ~Deleted(rows, taken, t)
      <3>1. held'[t] = held[t]
        BY <1>4, <2>4
      <3>2. held[t] # None => held[t][1] \in Grant
        BY DEF QuotaInv, TypeOK
      <3> QED
        BY <2>1, <3>1, <3>2 DEF QuotaInv, BindingsInPlace
    <2> QED
      BY <2>2, <2>3, <2>4
  <1> QED
    BY <1>5, <1>6, <1>7 DEF QuotaInv

\* What bind_task leaves, for a task with a list of friends that may just have
\* been created or enabled.
LEMMA BindKeeps ==
    ASSUME QuotaInv, NEW t \in Task, BindTask(t),
           legacy' = legacy \ {t}, task' = [task EXCEPT ![t] = "on"],
           UNCHANGED <<now, status, grant>>, busy' = busy
    PROVE  QuotaInv'
  <1> DEFINE moved(s) == held' = [u \in Task |-> CASE u = t -> s
                                   [] u # t /\ Deleted(grant, {s}, u) -> None
                                   [] OTHER -> held[u]]
  <1>1. TypeOK /\ SlotsDistinct /\ BindingsInPlace /\ grant \in Rows
    BY DEF QuotaInv, TypeOK, Rows
  <1>2. \A u \in Task : task'[u] = IF u = t THEN "on" ELSE task[u]
    BY <1>1 DEF TypeOK
  <1>3. TypeOK' <=> held' \in [Task -> {None} \cup Grant \X (0..MaxAmount)]
    BY <1>1 DEF TypeOK
  <1>4. CASE held[t] # None /\ held' = held
    BY <1>1, <1>2, <1>3, <1>4 DEF QuotaInv, TypeOK, SlotsDistinct, BindingsInPlace
  <1>5. ASSUME NEW s \in Free(grant), moved(s)
        PROVE  QuotaInv'
    <2>1. /\ s \in Grant \X (0..MaxAmount) /\ s # None /\ s[1] \in Grant
          /\ GrantActive(grant, s[1]) /\ \A v \in Enabled : held[v] # s
      <3>1. s \in Slots(grant) /\ s \in Grant \X (0..MaxAmount) /\ \A v \in Enabled : held[v] # s
        BY <1>1, <1>5, SlotsFinite DEF Free
      <3>2. s # None
        BY <3>1, Numbers
      <3> QED
        BY <3>1, <3>2 DEF Slots
    <2>2. \A u \in Task : /\ u = t => held'[u] = s
                          /\ u # t /\ Deleted(grant, {s}, u) => held'[u] = None
                          /\ u # t /\ ~Deleted(grant, {s}, u) => held'[u] = held[u]
      BY <1>5
    <2>3. TypeOK'
      <3>1. \A u \in Task : held'[u] \in {None} \cup Grant \X (0..MaxAmount)
        BY <1>1, <2>1, <2>2 DEF TypeOK
      <3>2. held' = [u \in Task |-> held'[u]]
        BY <1>5
      <3> QED
        BY <1>3, <3>1, <3>2
    <2>4. \A u \in Task : u # t /\ ~Deleted(grant, {s}, u) => held[u] # s
      <3> SUFFICES ASSUME NEW u \in Task, u # t, held[u] = s PROVE Deleted(grant, {s}, u)
        OBVIOUS
      <3>1. u \notin Enabled
        BY <2>1
      <3>2. ~GrantBefore(grant, s[1], s[1])
        <4>1. grant[s[1]].expires \in Int /\ s[1] \in Nat
          <5>1. grant[s[1]] \in Row
            BY <1>1, <2>1, Numbers
          <5> QED
            BY <2>1, <5>1, Numbers
        <4> QED
          BY <4>1 DEF GrantBefore
      <3> QED
        BY <2>1, <3>1, <3>2 DEF Deleted
    <2> HIDE DEF moved
    <2>5. SlotsDistinct'
      <3> SUFFICES ASSUME NEW u \in Task, NEW v \in Task, u # v, held'[u] # None PROVE held'[u] # held'[v]
        BY DEF SlotsDistinct
      <3>1. CASE u = t
        BY <2>1, <2>2, <2>4, <3>1
      <3>2. CASE v = t
        BY <2>1, <2>2, <2>4, <3>2
      <3>3. CASE u # t /\ v # t
        BY <1>1, <2>2, <3>3 DEF SlotsDistinct
      <3> QED
        BY <3>1, <3>2, <3>3
    <2>6. BindingsInPlace'
      <3> SUFFICES ASSUME NEW u \in Task
                   PROVE  /\ task'[u] = "on" /\ u \notin legacy' => held'[u] # None
                          /\ task'[u] = "none" \/ u \in legacy' => held'[u] = None
                          /\ held'[u] # None => grant[held'[u][1]].issued
                          /\ u \in legacy' => task'[u] # "none"
        BY DEF BindingsInPlace
      <3>1. CASE u = t
        BY <1>2, <2>1, <2>2, <3>1 DEF GrantActive
      <3>2. CASE u # t /\ Deleted(grant, {s}, u)
        <4>1. u \notin Enabled /\ held[u] # None /\ held'[u] = None
          BY <2>2, <3>2 DEF Deleted
        <4> QED
          BY <1>1, <1>2, <3>2, <4>1 DEF BindingsInPlace, Enabled
      <3>3. CASE u # t /\ ~Deleted(grant, {s}, u)
        BY <1>1, <1>2, <2>2, <3>3 DEF BindingsInPlace
      <3> QED
        BY <3>1, <3>2, <3>3
    <2> QED
      BY <2>3, <2>5, <2>6 DEF QuotaInv
  <1> QED
    BY <1>4, <1>5 DEF BindTask

\* The rows an administrator's change leaves.
LEMMA RowsKept ==
    ASSUME QuotaInv, NEW g \in Grant, NEW r \in Row, r.issued
    PROVE  /\ [grant EXCEPT ![g] = r] \in Rows
           /\ \A h \in Grant : grant[h].issued => [grant EXCEPT ![g] = r][h].issued
  BY DEF QuotaInv, TypeOK, Rows

\* A change of the rows alone.
LEMMA RowsOnly ==
    ASSUME QuotaInv, grant' \in Rows, \A h \in Grant : grant[h].issued => grant'[h].issued,
           UNCHANGED <<now, status, task, legacy, held, busy>>
    PROVE  QuotaInv'
  <1>1. TypeOK'
    BY DEF QuotaInv, TypeOK, Rows
  <1>2. SlotsDistinct'
    BY DEF QuotaInv, SlotsDistinct
  <1>3. BindingsInPlace'
    BY DEF QuotaInv, TypeOK, BindingsInPlace
  <1> QED
    BY <1>1, <1>2, <1>3 DEF QuotaInv

\* What a term makes of a row.
LEMMA IssueRow == \A x \in Term : Issue(x) \in Row /\ Issue(x).issued
  <1> SUFFICES ASSUME NEW x \in Term PROVE Issue(x) \in Row /\ Issue(x).issued
    OBVIOUS
  <1>1. x.amount \in 1..MaxAmount /\ x.starts \in 0..Horizon /\ x.expires \in 1..Horizon + 1
    BY TermsAssumption
  <1> QED
    BY <1>1, Numbers DEF Issue, Row, Moment, Never

\* The initial grant and the tasks of an earlier release.
LEMMA QuotaInit == Init => QuotaInv
  <1> SUFFICES ASSUME Init PROVE QuotaInv
    OBVIOUS
  <1>1. grant \in [Grant -> Row]
    <2>1. NoRow \in Row
      BY Numbers DEF NoRow, Row, Moment, Never
    <2> QED
      BY <2>1, IssueRow DEF Init
  <1>2. TypeOK
    BY <1>1, Numbers DEF Init, TypeOK, Moment
  <1>3. SlotsDistinct /\ BindingsInPlace
    BY DEF Init, SlotsDistinct, BindingsInPlace
  <1> QED
    BY <1>2, <1>3 DEF QuotaInv

\* The office: administrators, purchases and renewals.
LEMMA OfficeKeeps == QuotaInv /\ Office => QuotaInv'
  <1> SUFFICES ASSUME QuotaInv, Office PROVE QuotaInv'
    OBVIOUS
  <1>0. TypeOK /\ grant \in Rows
    BY DEF QuotaInv, TypeOK, Rows
  <1>1. CASE SetStatus
    BY <1>1 DEF SetStatus, QuotaInv, TypeOK, SlotsDistinct, BindingsInPlace
  <1>2. ASSUME NEW g \in Grant, NEW x \in Term, AddGrant(g, x) PROVE QuotaInv'
    BY <1>2, RowsKept, RowsOnly, IssueRow DEF AddGrant
  <1>3. ASSUME NEW g \in Grant, NEW x \in Term, UpdateGrant(g, x) PROVE QuotaInv'
    <2> DEFINE rows == [grant EXCEPT ![g] = Issue(x)]
    <2>1. busy' \in {None} \cup Task
      BY <1>0, <1>3 DEF UpdateGrant, TypeOK
    <2>2. /\ grant' = rows /\ Reconcile(rows) /\ UNCHANGED <<now, status, legacy>>
      BY <1>3 DEF UpdateGrant
    <2>3. rows \in Rows /\ \A h \in Grant : grant[h].issued => rows[h].issued
      BY RowsKept, IssueRow
    <2> HIDE DEF rows
    <2> QED
      BY <2>1, <2>2, <2>3, ReconcileKeeps
  <1>4. ASSUME NEW g \in Grant, NEW x \in Term, SetLimit(g, x.amount) PROVE QuotaInv'
    <2>1. x.amount \in 0..MaxAmount
      BY TermsAssumption
    <2>2. [grant[g] EXCEPT !.amount = x.amount] \in Row /\ [grant[g] EXCEPT !.amount = x.amount].issued
      BY <1>0, <1>4, <2>1 DEF SetLimit, TypeOK, Row
    <2>3. grant' = [grant EXCEPT ![g] = [grant[g] EXCEPT !.amount = x.amount]]
      BY <1>4 DEF SetLimit
    <2> QED
      BY <1>4, <2>2, <2>3, RowsKept, RowsOnly DEF SetLimit
  <1>5. ASSUME NEW g \in Grant, RenewSlot(g, 1) PROVE QuotaInv'
    <2> DEFINE e == (IF grant[g].expires < now THEN now ELSE grant[g].expires) + 1
    <2>1. e \in 1..Never
      <3>1. grant[g].expires \in 1..Never /\ now \in Nat
        BY <1>0, Numbers DEF TypeOK, Row, Moment
      <3> QED
        BY <1>5, <3>1, Numbers DEF RenewSlot
    <2>2. grant' = [grant EXCEPT ![g] = [grant[g] EXCEPT !.expires = e]]
      BY <1>5 DEF RenewSlot
    <2>3. [grant[g] EXCEPT !.expires = e] \in Row /\ [grant[g] EXCEPT !.expires = e].issued
      <3> HIDE DEF e
      <3> QED
        BY <1>0, <1>5, <2>1 DEF RenewSlot, TypeOK, Row
    <2>4. UNCHANGED <<now, status, task, legacy, held, busy>>
      BY <1>5 DEF RenewSlot
    <2> HIDE DEF e
    <2>5. grant' \in Rows /\ \A h \in Grant : grant[h].issued => grant'[h].issued
      BY <2>2, <2>3, RowsKept
    <2> QED
      BY <2>4, <2>5, RowsOnly
  <1>6. ASSUME NEW g \in Grant, Revoke(g) PROVE QuotaInv'
    <2> DEFINE rows == [grant EXCEPT ![g].revoked = TRUE]
    <2>1. [grant[g] EXCEPT !.revoked = TRUE] \in Row /\ [grant[g] EXCEPT !.revoked = TRUE].issued
      BY <1>0, <1>6 DEF Revoke, TypeOK, Row
    <2>2. rows = [grant EXCEPT ![g] = [grant[g] EXCEPT !.revoked = TRUE]]
      OBVIOUS
    <2>3. busy' \in {None} \cup Task
      BY <1>0, <1>6 DEF Revoke, TypeOK
    <2>4. /\ grant' = rows /\ Reconcile(rows) /\ UNCHANGED <<now, status, legacy>>
      BY <1>6 DEF Revoke
    <2> HIDE DEF rows
    <2> QED
      BY <2>1, <2>2, <2>3, <2>4, RowsKept, ReconcileKeeps
  <1> QED
    BY <1>1, <1>2, <1>3, <1>4, <1>5, <1>6 DEF Office

\* The pages: tasks come, go, stop and start.
LEMMA ConsoleKeeps == QuotaInv /\ Console => QuotaInv'
  <1> SUFFICES ASSUME QuotaInv, Console PROVE QuotaInv'
    OBVIOUS
  <1>0. TypeOK /\ SlotsDistinct /\ BindingsInPlace /\ grant \in Rows /\ busy \in {None} \cup Task
    BY DEF QuotaInv, TypeOK, Rows
  <1>1. CASE ShowPage
    BY <1>0, <1>1, ReconcileKeeps DEF ShowPage
  <1> SUFFICES ASSUME NEW t \in Task, CreateTask(t) \/ Enable(t) \/ Pause(t) \/ Edit(t) \/ Delete(t)
               PROVE  QuotaInv'
    BY <1>1 DEF Console
  <1>2. CASE CreateTask(t) /\ t \notin legacy
    <2>1. legacy' = legacy \ {t}
      BY <1>2 DEF CreateTask
    <2> QED
      BY <1>2, <2>1, BindKeeps DEF CreateTask
  <1>3. CASE Enable(t) /\ t \in legacy
    <2>1. /\ held' = held /\ UNCHANGED <<now, status, grant, legacy, busy>>
          /\ task' = [task EXCEPT ![t] = "on"] /\ task[t] = "off"
      BY <1>3 DEF Enable
    <2>2. \A u \in Task : task'[u] = IF u = t THEN "on" ELSE task[u]
      BY <1>0, <2>1 DEF TypeOK
    <2>3. TypeOK'
      BY <1>0, <2>1 DEF TypeOK
    <2> QED
      BY <1>0, <1>3, <2>1, <2>2, <2>3 DEF QuotaInv, SlotsDistinct, BindingsInPlace
  <1>4. CASE Enable(t) /\ t \notin legacy
    <2>1. legacy' = legacy \ {t}
      BY <1>4 DEF Enable
    <2> QED
      BY <1>4, <2>1, BindKeeps DEF Enable
  <1>5. CASE Pause(t)
    <2>1. \A u \in Task : task'[u] = IF u = t THEN "off" ELSE task[u]
      BY <1>0, <1>5 DEF Pause, TypeOK
    <2>2. TypeOK'
      BY <1>0, <1>5 DEF Pause, TypeOK
    <2> QED
      BY <1>0, <1>5, <2>1, <2>2 DEF Pause, QuotaInv, SlotsDistinct, BindingsInPlace
  <1>6. CASE Edit(t) /\ task[t] = "on"
    <2>1. task' = [task EXCEPT ![t] = "on"]
      BY <1>0, <1>6 DEF Edit, TypeOK
    <2> QED
      BY <1>6, <2>1, BindKeeps DEF Edit
  <1>7. CASE Edit(t) /\ task[t] # "on"
    <2>1. /\ legacy' = legacy \ {t} /\ held' = held /\ task' = task
          /\ UNCHANGED <<now, status, grant, busy>>
      BY <1>7 DEF Edit
    <2>2. TypeOK'
      BY <1>0, <2>1 DEF TypeOK
    <2> QED
      BY <1>0, <1>7, <2>1, <2>2 DEF QuotaInv, SlotsDistinct, BindingsInPlace
  <1>8. CASE Delete(t)
    <2>1. \A u \in Task : /\ task'[u] = IF u = t THEN "none" ELSE task[u]
                          /\ held'[u] = IF u = t THEN None ELSE held[u]
      BY <1>0, <1>8 DEF Delete, TypeOK
    <2>2. TypeOK'
      BY <1>0, <1>8 DEF Delete, TypeOK
    <2> QED
      BY <1>0, <1>8, <2>1, <2>2 DEF Delete, QuotaInv, SlotsDistinct, BindingsInPlace
  <1>9. CreateTask(t) => t \notin legacy
    BY <1>0 DEF CreateTask, BindingsInPlace
  <1> QED
    BY <1>2, <1>3, <1>4, <1>5, <1>6, <1>7, <1>8, <1>9

\* The clock and the worker.
LEMMA WorkerKeeps == QuotaInv /\ (TimePasses \/ Worker) => QuotaInv'
  <1> SUFFICES ASSUME QuotaInv, TimePasses \/ Worker PROVE QuotaInv'
    OBVIOUS
  <1>0. TypeOK /\ SlotsDistinct /\ BindingsInPlace /\ grant \in Rows
    BY DEF QuotaInv, TypeOK, Rows
  <1>1. CASE TimePasses
    <2>1. TypeOK'
      BY <1>0, <1>1, Numbers DEF TimePasses, TypeOK, Moment
    <2> QED
      BY <1>0, <1>1, <2>1 DEF TimePasses, QuotaInv, SlotsDistinct, BindingsInPlace
  <1>2. CASE Finish
    BY <1>0, <1>2 DEF Finish, QuotaInv, TypeOK, SlotsDistinct, BindingsInPlace
  <1>3. ASSUME NEW t \in Task, Claim(t) PROVE QuotaInv'
    BY <1>0, <1>3, ReconcileKeeps DEF Claim
  <1> QED
    BY <1>1, <1>2, <1>3 DEF Worker

\* Whatever the owner, an administrator, the worker and the clock do, no slot is
\* named twice, and a task with a list of friends runs on a binding.
THEOREM QuotaInductive == Spec => []QuotaInv
  <1>1. QuotaInv /\ [Next]_vars => QuotaInv'
    <2> SUFFICES ASSUME QuotaInv, [Next]_vars PROVE QuotaInv'
      OBVIOUS
    <2>1. CASE UNCHANGED vars
      BY <2>1 DEF vars, QuotaInv, TypeOK, SlotsDistinct, BindingsInPlace
    <2> QED
      BY <2>1, OfficeKeeps, ConsoleKeeps, WorkerKeeps DEF Next
  <1> QED
    BY <1>1, QuotaInit, PTL DEF Spec

\* No more tasks with lists of friends may send than the owner has slots: they
\* hold different slots.
THEOREM StaysWithinQuota == Spec => []WithinQuota
  <1>1. QuotaInv => WithinQuota
    <2> SUFFICES ASSUME QuotaInv PROVE WithinQuota
      OBVIOUS
    <2> DEFINE A == {t \in Enabled \ legacy : TaskAuthorized(grant, held, t)}
               S == Slots(grant)
               f == [t \in A |-> held[t]]
    <2>1. \A t \in A : t \in Task /\ held[t] \in S /\ held[t] # None
      BY DEF QuotaInv, BindingsInPlace, TaskAuthorized, Enabled
    <2>2. f \in Injection(A, S)
      BY <2>1 DEF Injection, IsInjective, QuotaInv, SlotsDistinct
    <2>3. IsFiniteSet(S)
      BY SlotsFinite DEF QuotaInv, TypeOK, Rows
    <2>4. Cardinality(A) <= Cardinality(S)
      <3> HIDE DEF A, S, f
      <3> QED
        BY <2>2, <2>3, FS_Injection
    <2> QED
      BY <2>4 DEF WithinQuota, LimitFor
  <1> QED
    BY <1>1, QuotaInductive, PTL

\* After a reconciliation no more tasks are enabled than there are slots.
LEMMA ReconcileWithin ==
    ASSUME TypeOK, NEW rows \in Rows, Reconcile(rows), grant' = rows, now' = now
    PROVE  Cardinality(Enabled') <= LimitFor(grant)'
  <1> DEFINE bound == Rebound(rows)
             A == {t \in Enabled : TaskAuthorized(rows, bound, t)}
             L == LimitFor(rows)
             f == [t \in Enabled' |-> TaskRank(A, t)]
  <1>1. A \in SUBSET Task /\ L \in Nat /\ IsFiniteSet(A)
    <2>1. A \in SUBSET Task
      BY DEF Enabled
    <2> HIDE DEF A
    <2> QED
      BY <2>1, SlotsFinite, Numbers, FS_Subset
  <1>2. Enabled' = {t \in A : ~(TaskRank(A, t) >= L)}
    BY DEF Reconcile, Paused, TypeOK, Enabled
  <1> HIDE DEF A, L, bound
  <1>3. f \in Injection(Enabled', 0..L - 1)
    <2>1. \A t \in Enabled' : TaskRank(A, t) \in 0..L - 1
      BY <1>1, <1>2, TaskRankDistinct
    <2>2. \A t, u \in Enabled' : TaskRank(A, t) = TaskRank(A, u) => t = u
      BY <1>1, <1>2, TaskRankDistinct
    <2> QED
      BY <2>1, <2>2 DEF Injection, IsInjective
  <1>4. IsFiniteSet(0..L - 1) /\ Cardinality(0..L - 1) = L
    <2>1. L - 1 \in Int /\ (0 > L - 1 => L = 0) /\ L - 1 - 0 + 1 = L
      BY <1>1
    <2> QED
      BY <2>1, FS_Interval
  <1>5. Cardinality(Enabled') <= L
    <2> HIDE DEF f
    <2> QED
      BY <1>3, <1>4, FS_Injection
  <1>6. LimitFor(grant)' = L
    BY DEF LimitFor, Slots, GrantActive, L
  <1> QED
    BY <1>5, <1>6

\* The worker claims only what an owner may run at that moment.
THEOREM ClaimsAreWithinQuota == Spec => ClaimsWithinQuota
  <1>1. ASSUME QuotaInv, [Next]_vars, busy' \notin {None, busy}
        PROVE  TaskAuthorized(grant, held, busy)' /\ (Cardinality(Enabled) <= LimitFor(grant))'
    <2>1. PICK t \in Task : Claim(t)
      BY <1>1 DEF Next, vars, TimePasses, Office, SetStatus, AddGrant, UpdateGrant, SetLimit, RenewSlot,
           Revoke, Console, ShowPage, CreateTask, Enable, Pause, Edit, Delete, Worker, Finish
    <2>2. TypeOK /\ grant \in Rows
      BY <1>1 DEF QuotaInv, TypeOK, Rows
    <2>3. /\ Reconcile(grant) /\ UNCHANGED <<now, status, grant>> /\ task'[t] = "on" /\ busy' = t
      BY <2>1 DEF Claim
    <2>4. (Cardinality(Enabled) <= LimitFor(grant))'
      BY <2>2, <2>3, ReconcileWithin
    <2>5. t \in Enabled /\ t \notin Paused(grant) /\ held' = Rebound(grant)
      BY <2>2, <2>3 DEF Reconcile, Enabled, TypeOK
    <2>6. TaskAuthorized(grant, Rebound(grant), t)
      BY <2>5 DEF Paused
    <2>7. TaskAuthorized(grant, held, busy)'
      BY <2>3, <2>5, <2>6 DEF TaskAuthorized, Slots, GrantActive
    <2> QED
      BY <2>4, <2>7
  <1> QED
    BY <1>1, QuotaInductive, PTL DEF Spec, ClaimsWithinQuota

\* Tasks have the ranks 0 to n - 1, so the first k of them are k.
LEMMA FirstRanked ==
    ASSUME NEW S \in SUBSET Task, NEW k \in Nat
    PROVE  /\ IsFiniteSet(S) /\ Cardinality(S) \in Nat
           /\ \A t \in S : TaskRank(S, t) \in 0..Cardinality(S) - 1
           /\ k <= Cardinality(S) => Cardinality({t \in S : TaskRank(S, t) < k}) = k
  <1> DEFINE n == Cardinality(S)
             First == {t \in S : TaskRank(S, t) < k}
             rank == [t \in S |-> TaskRank(S, t)]
             cut == [t \in First |-> TaskRank(S, t)]
  <1>1. IsFiniteSet(S) /\ n \in Nat
    BY Numbers, FS_Subset, FS_CardinalityType
  <1>2. ASSUME NEW t \in S PROVE TaskRank(S, t) \in 0..n - 1
    <2> DEFINE B == {u \in S : u < t}
    <2>1. B \in SUBSET S /\ t \notin B
      BY Numbers
    <2>2. TaskRank(S, t) = Cardinality(B)
      BY DEF TaskRank
    <2> HIDE DEF B
    <2>3. IsFiniteSet(B) /\ Cardinality(B) <= n /\ (n = Cardinality(B) => S = B)
      BY <1>1, <2>1, FS_Subset
    <2>4. Cardinality(B) \in Nat
      BY <2>3, FS_CardinalityType
    <2> QED
      BY <1>1, <2>1, <2>2, <2>3, <2>4
  <1>3. \A t, u \in S : TaskRank(S, t) = TaskRank(S, u) => t = u
    BY TaskRankDistinct
  <1>4. ASSUME NEW m \in Nat PROVE IsFiniteSet(0..m - 1) /\ Cardinality(0..m - 1) = m
    <2>1. m - 1 \in Int /\ (0 > m - 1 => m = 0) /\ m - 1 - 0 + 1 = m
      OBVIOUS
    <2> QED
      BY <2>1, FS_Interval
  <1>5. \A i \in 0..n - 1 : \E t \in S : TaskRank(S, t) = i
    <2> HIDE DEF n
    <2>1. rank \in Injection(S, 0..n - 1)
      BY <1>2, <1>3 DEF Injection, IsInjective
    <2>2. rank \in Surjection(S, 0..n - 1)
      <3> HIDE DEF rank
      <3>1. IsFiniteSet(0..n - 1) /\ Cardinality(S) = Cardinality(0..n - 1)
        BY <1>1, <1>4 DEF n
      <3> QED
        BY <2>1, <3>1, FS_Injection
    <2>3. \A i \in 0..n - 1 : \E t \in S : rank[t] = i
      <3> HIDE DEF rank
      <3> QED
        BY <2>2 DEF Surjection
    <2> QED
      BY <2>3
  <1>6. ASSUME k <= n PROVE Cardinality(First) = k
    <2> HIDE DEF n
    <2>1. First \in SUBSET S
      OBVIOUS
    <2>2. IsFiniteSet(First)
      <3> HIDE DEF First
      <3> QED
        BY <1>1, <2>1, FS_Subset
    <2>3. \A t \in First : TaskRank(S, t) \in 0..k - 1
      BY <1>1, <1>2
    <2>4. cut \in Injection(First, 0..k - 1)
      BY <1>3, <2>3 DEF Injection, IsInjective
    <2>5. cut \in Surjection(First, 0..k - 1)
      <3>1. \A i \in 0..k - 1 : \E t \in First : TaskRank(S, t) = i
        <4> TAKE i \in 0..k - 1
        <4>1. i \in 0..n - 1 /\ i < k
          BY <1>1, <1>6
        <4>2. PICK t \in S : TaskRank(S, t) = i
          BY <1>5, <4>1
        <4> QED
          BY <4>1, <4>2
      <3> HIDE DEF First
      <3> QED
        BY <2>3, <3>1 DEF Surjection
    <2>6. Cardinality(First) <= k
      <3> HIDE DEF First, cut
      <3> QED
        BY <1>4, <2>4, FS_Injection
    <2>7. k <= Cardinality(First)
      <3> HIDE DEF First, cut
      <3> QED
        BY <1>4, <2>2, <2>5, FS_Surjection
    <2>8. Cardinality(First) \in Nat
      <3> HIDE DEF First
      <3> QED
        BY <2>2, FS_CardinalityType
    <2> HIDE DEF First
    <2> QED
      BY <2>6, <2>7, <2>8
  <1> QED
    BY <1>1, <1>2, <1>6

\* When a task whose grant has expired is paused, the slots are all in use: its
\* rank among the expired was beyond the room there was, so the room was filled.
LEMMA ReconcilePausesForWant ==
    ASSUME QuotaInv, status = "active", NEW rows \in Rows, Reconcile(rows), grant' = rows, now' = now,
           NEW u \in Expired(rows), task'[u] # "on"
    PROVE  Cardinality(Enabled') = LimitFor(grant)'
  <1> DEFINE bound == Rebound(rows)
             L == LimitFor(rows)
             X == Expired(rows)
             M == Migrants(rows)
             R == Room(rows)
             B == {t \in Enabled : TaskAuthorized(rows, held, t)}
             A == {t \in Enabled : TaskAuthorized(rows, bound, t)}
  <1>1. /\ X \in SUBSET Task /\ X \subseteq Enabled /\ M = {t \in X : TaskRank(X, t) < R}
        /\ A \in SUBSET Task /\ B \in SUBSET Task /\ u \in Enabled
        /\ \A t \in X : held[t] # None /\ rows[held[t][1]].expires <= now
    BY DEF Expired, Migrants, Enabled
  <1>2. L \in Nat /\ R = L - Cardinality(B)
    BY SlotsFinite DEF Room
  <1>3. Enabled' = {t \in A : TaskRank(A, t) < L}
    <2>1. Enabled' = {t \in A : ~(TaskRank(A, t) >= L)}
      BY DEF Reconcile, Paused, QuotaInv, TypeOK, Enabled
    <2>2. \A t \in A : TaskRank(A, t) \in Nat
      BY <1>1, TaskRankDistinct
    <2> HIDE DEF A, L
    <2> QED
      BY <1>2, <2>1, <2>2
  <1>4. M \subseteq A
    <2> SUFFICES ASSUME NEW t \in M PROVE t \in A
      OBVIOUS
    <2>1. t \in Enabled /\ Taken(rows, t) \in Slots(rows) /\ Taken(rows, t) # None
      <3>1. Taken(rows, t) \in Free(rows) /\ t \in Enabled
        BY TakenFree DEF QuotaInv
      <3>2. Taken(rows, t) \in Slots(rows) /\ Taken(rows, t) \in Grant \X (0..MaxAmount)
        BY <3>1, SlotsFinite
      <3> QED
        BY <3>1, <3>2, Numbers
    <2>2. bound[t] = Taken(rows, t)
      BY <2>1 DEF Rebound, Deleted, Enabled
    <2> QED
      BY <2>1, <2>2 DEF TaskAuthorized
  <1>5. B \subseteq A /\ B \cap M = {}
    <2> SUFFICES ASSUME NEW t \in B PROVE t \in A /\ t \notin M
      OBVIOUS
    <2>1. t \notin X
      <3> SUFFICES ASSUME t \in X PROVE FALSE
        OBVIOUS
      <3>1. held[t] \in Slots(rows) /\ rows[held[t][1]].expires <= now
        BY <1>1 DEF TaskAuthorized
      <3>2. now < rows[held[t][1]].expires /\ held[t][1] \in Grant
        BY <3>1 DEF Slots, GrantActive
      <3>3. rows[held[t][1]].expires \in Int /\ now \in Int
        <4>1. rows[held[t][1]] \in Row
          BY <3>2, Numbers
        <4> QED
          BY <4>1, Numbers DEF QuotaInv, TypeOK, Moment
      <3> QED
        BY <3>1, <3>2, <3>3
    <2>2. t \notin M
      BY <1>1, <2>1
    <2>3. bound[t] = held[t]
      BY <2>2 DEF Rebound, Deleted, Enabled
    <2> QED
      BY <2>2, <2>3 DEF TaskAuthorized
  <1>6. /\ IsFiniteSet(A) /\ Cardinality(A) \in Nat /\ IsFiniteSet(B) /\ Cardinality(B) \in Nat
        /\ IsFiniteSet(M) /\ Cardinality(M) \in Nat /\ M \in SUBSET Task
        /\ Cardinality(X) \in Nat /\ \A t \in X : TaskRank(X, t) \in 0..Cardinality(X) - 1
    <2>1. M \in SUBSET Task
      BY <1>1
    <2> HIDE DEF A, B, M, X
    <2> QED
      BY <1>1, <2>1, FirstRanked
  <1>7. Cardinality(B) + Cardinality(M) <= Cardinality(A)
    <2> HIDE DEF A, B, M
    <2>1. IsFiniteSet(B \cup M) /\ Cardinality(B \cup M)
            = Cardinality(B) + Cardinality(M) - Cardinality(B \cap M)
      BY <1>6, FS_Union
    <2>2. Cardinality(B \cap M) = 0
      BY <1>5, FS_EmptySet
    <2>3. Cardinality(B \cup M) <= Cardinality(A)
      BY <1>4, <1>5, <1>6, FS_Subset
    <2> QED
      BY <1>6, <2>1, <2>2, <2>3
  <1>8. L <= Cardinality(A)
    <2>1. CASE u \in A
      <3>1. u \notin Enabled'
        BY DEF Enabled
      <3>2. ~(TaskRank(A, u) < L) /\ TaskRank(A, u) \in 0..Cardinality(A) - 1
        <4> HIDE DEF A, L
        <4> QED
          BY <1>1, <1>3, <2>1, <3>1, FirstRanked
      <3> HIDE DEF A, L
      <3> QED
        BY <1>2, <1>6, <3>2
    <2>2. CASE u \notin A
      <3>1. u \notin M /\ u \in X
        BY <1>4, <2>2
      <3>2. ~(TaskRank(X, u) < R) /\ TaskRank(X, u) \in 0..Cardinality(X) - 1
        <4> HIDE DEF M, X, R
        <4> QED
          BY <1>1, <1>6, <3>1
      <3> HIDE DEF A, B, M, X, R, L
      <3>3. CASE R <= 0
        BY <1>2, <1>6, <1>7, <3>3
      <3>4. CASE R > 0
        <4>1. R \in Nat /\ R <= Cardinality(X)
          BY <1>2, <1>6, <3>2, <3>4
        <4>2. Cardinality(M) = R
          BY <1>1, <4>1, FirstRanked
        <4> QED
          BY <1>2, <1>6, <1>7, <4>2
      <3> QED
        BY <1>2, <1>6, <3>3, <3>4
    <2> QED
      BY <2>1, <2>2
  <1>9. Cardinality(Enabled') = L
    <2> HIDE DEF A, L
    <2> QED
      BY <1>1, <1>2, <1>3, <1>8, FirstRanked
  <1>10. LimitFor(grant)' = L
    BY DEF LimitFor, Slots, GrantActive
  <1> QED
    BY <1>9, <1>10

\* A reconciliation never starts a task, and pauses one whose grant merely
\* expired only when every slot is in use.
THEOREM PausesForWant == Spec => PausesOnlyForWant
  <1>1. ASSUME QuotaInv, [Next]_vars
        PROVE  (task' # task /\ ~\E t \in Task : CreateTask(t) \/ Enable(t) \/ Pause(t) \/ Delete(t)) =>
                  \A t \in Task :
                      /\ task'[t] = "on" => task[t] = "on"
                      /\ task'[t] # task[t] /\ status = "active" /\ held[t] # None
                          /\ ~grant'[held[t][1]].revoked /\ grant'[held[t][1]].expires <= now
                         => (Cardinality(Enabled) = LimitFor(grant))'
    <2> SUFFICES ASSUME task' # task, NEW t \in Task,
                        ~\E u \in Task : CreateTask(u) \/ Enable(u) \/ Pause(u) \/ Delete(u)
                 PROVE  /\ task'[t] = "on" => task[t] = "on"
                        /\ task'[t] # task[t] /\ status = "active" /\ held[t] # None
                            /\ ~grant'[held[t][1]].revoked /\ grant'[held[t][1]].expires <= now
                           => (Cardinality(Enabled) = LimitFor(grant))'
      OBVIOUS
    <2>1. PICK rows : rows = grant' /\ Reconcile(rows) /\ now' = now
      BY <1>1 DEF Next, vars, TimePasses, Office, SetStatus, AddGrant, UpdateGrant, SetLimit, RenewSlot,
           Revoke, Console, ShowPage, Edit, Worker, Finish, Claim
    <2>2. rows \in Rows
      <3>1. TypeOK'
        <4>1. QuotaInv'
          <5>1. CASE UNCHANGED vars
            BY <1>1, <5>1 DEF vars
          <5> QED
            BY <1>1, <5>1, OfficeKeeps, ConsoleKeeps, WorkerKeeps DEF Next
        <4> QED
          BY <4>1 DEF QuotaInv
      <3> QED
        BY <2>1, <3>1 DEF TypeOK, Rows
    <2>3. task'[t] = IF t \in Paused(rows) THEN "off" ELSE task[t]
      BY <2>1 DEF Reconcile
    <2>4. Paused(rows) \subseteq Enabled
      BY DEF Paused
    <2>5. task'[t] # task[t] => t \in Enabled /\ task'[t] # "on"
      BY <2>3, <2>4
    <2>6. ASSUME task'[t] # task[t], status = "active", held[t] # None,
                 ~grant'[held[t][1]].revoked, grant'[held[t][1]].expires <= now
          PROVE  (Cardinality(Enabled) = LimitFor(grant))'
      <3>1. t \in Expired(rows)
        BY <2>1, <2>5, <2>6 DEF Expired
      <3> QED
        BY <1>1, <2>1, <2>2, <2>5, <2>6, <3>1, ReconcilePausesForWant
    <2> QED
      BY <2>3, <2>6
  <1> QED
    BY <1>1, QuotaInductive, PTL DEF Spec, PausesOnlyForWant
-----------------------------------------------------------------------------
(* The loop.  After each task it has bound as many of the tasks that move as *)
(* it has seen, or it has stopped and bound them all.                        *)

\* The places of tasks are in their order, and each is some task's.
LEMMA TaskPlaces ==
    ASSUME NEW S \in SUBSET Task
    PROVE  /\ IsFiniteSet(S) /\ Cardinality(S) \in Nat
           /\ \A t \in S : TaskRank(S, t) \in 0..Cardinality(S) - 1
           /\ \A t, u \in S : u < t => TaskRank(S, u) < TaskRank(S, t)
           /\ \A k \in 0..Cardinality(S) - 1 : Nth(S, k) \in S /\ TaskRank(S, Nth(S, k)) = k
  <1> DEFINE n == Cardinality(S)
             B(x) == {u \in S : u < x}
             rank == [t \in S |-> TaskRank(S, t)]
  <1>1. IsFiniteSet(S) /\ n \in Nat
    BY Numbers, FS_Subset, FS_CardinalityType
  <1>2. ASSUME NEW x \in S
        PROVE  /\ IsFiniteSet(B(x)) /\ TaskRank(S, x) = Cardinality(B(x)) /\ Cardinality(B(x)) \in Nat
               /\ Cardinality(B(x)) < n
    <2>1. B(x) \in SUBSET S /\ x \notin B(x)
      BY Numbers
    <2>2. TaskRank(S, x) = Cardinality(B(x))
      BY DEF TaskRank
    <2> HIDE DEF B
    <2>3. IsFiniteSet(B(x)) /\ Cardinality(B(x)) <= n /\ (n = Cardinality(B(x)) => S = B(x))
      BY <1>1, <2>1, FS_Subset
    <2> QED
      BY <1>1, <2>1, <2>2, <2>3, FS_CardinalityType
  <1>3. ASSUME NEW t \in S, NEW u \in S, u < t
        PROVE  TaskRank(S, u) < TaskRank(S, t)
    <2>1. B(u) \subseteq B(t) /\ u \in B(t) /\ u \notin B(u)
      <3>1. ~(u < u) /\ \A x \in S : x < u => x < t
        BY <1>3, Numbers
      <3> QED
        BY <1>3, <3>1, Zenon
    <2> HIDE DEF B
    <2>2. Cardinality(B(u)) <= Cardinality(B(t)) /\ (Cardinality(B(t)) = Cardinality(B(u)) => B(t) = B(u))
      BY <1>2, <2>1, FS_Subset
    <2> QED
      BY <1>2, <2>1, <2>2
  <1>4. \A t \in S : TaskRank(S, t) \in 0..n - 1
    <2> HIDE DEF B, n
    <2> QED
      BY <1>1, <1>2
  <1>5. rank \in Injection(S, 0..n - 1)
    BY <1>4, TaskRankDistinct DEF Injection, IsInjective
  <1>6. IsFiniteSet(0..n - 1) /\ Cardinality(0..n - 1) = n
    <2> HIDE DEF n
    <2>1. n - 1 \in Int /\ (0 > n - 1 => n = 0) /\ n - 1 - 0 + 1 = n
      BY <1>1
    <2> QED
      BY <2>1, FS_Interval
  <1>7. rank \in Surjection(S, 0..n - 1)
    <2> HIDE DEF rank
    <2> QED
      BY <1>5, <1>6, FS_Injection
  <1>8. \A k \in 0..n - 1 : \E t \in S : TaskRank(S, t) = k
    BY <1>7 DEF Surjection
  <1>9. \A k \in 0..n - 1 : Nth(S, k) \in S /\ TaskRank(S, Nth(S, k)) = k
    BY <1>8 DEF Nth
  <1> QED
    BY <1>1, <1>3, <1>4, <1>9

\* What is still before the loop, and after k tasks of it.
Before(rows) ==
    [held |-> held, stop |-> FALSE,
     count |-> Cardinality({t \in Enabled : TaskAuthorized(rows, held, t)})]
Runs(rows, f, n) ==
    f = [k \in 0..n |-> IF k = 0 THEN Before(rows) ELSE LoopStep(rows, f[k - 1], Nth(Enabled, k - 1))]

LEMMA SomeRuns == ASSUME NEW rows PROVE \A n \in Nat : \E f : Runs(rows, f, n)
  <1> DEFINE Step(a, k) == LoopStep(rows, a, Nth(Enabled, k))
             Bad == {n \in Nat : ~\E f : Runs(rows, f, n)}
             Below == OpToRel(<, Nat)
  <1> SUFFICES ASSUME Bad # {} PROVE FALSE
    OBVIOUS
  <1>1. IsWellFoundedOn(Below, Nat)
    BY NatLessThanWellFounded, Zenon
  <1>2. \A m, n \in Nat : m < n => <<m, n>> \in Below
    BY DEF OpToRel
  <1>3. Bad \subseteq Nat
    OBVIOUS
  <1> HIDE DEF Below, Bad
  <1>4. PICK m \in Bad : \A n \in Bad : ~(<<n, m>> \in Below)
    BY <1>1, <1>3, WFMin
  <1>5. m \in Nat /\ \A n \in Nat : n < m => \E f : Runs(rows, f, n)
    BY <1>2, <1>3, <1>4 DEF Bad
  <1>6. CASE m = 0
    <2>1. Runs(rows, [k \in 0..0 |-> Before(rows)], 0)
      BY DEF Runs
    <2> QED
      BY <1>4, <1>6, <2>1 DEF Bad
  <1>7. CASE m # 0
    <2>1. m - 1 \in Nat /\ m - 1 < m
      BY <1>5, <1>7
    <2>2. PICK f : Runs(rows, f, m - 1)
      BY <1>5, <2>1
    <2> DEFINE g == [k \in 0..m |-> IF k = m THEN Step(f[m - 1], m - 1) ELSE f[k]]
               h == [k \in 0..m |-> IF k = 0 THEN Before(rows) ELSE Step(g[k - 1], k - 1)]
    <2>3. \A k \in 0..(m - 1) : f[k] = IF k = 0 THEN Before(rows) ELSE Step(f[k - 1], k - 1)
      BY <2>2 DEF Runs
    <2> HIDE DEF Step
    <2>4. ASSUME NEW k \in 0..m PROVE g[k] = h[k]
      <3>1. CASE k = m
        <4>1. m - 1 \in 0..m /\ m - 1 # m /\ g[m - 1] = f[m - 1]
          BY <1>5, <2>1
        <4> QED
          BY <1>7, <2>1, <3>1, <4>1
      <3>2. CASE k # m
        <4>1. k \in 0..(m - 1) /\ g[k] = f[k] /\ (k # 0 => g[k - 1] = f[k - 1])
          BY <1>5, <2>1, <3>2
        <4> QED
          BY <2>3, <4>1
      <3> QED
        BY <3>1, <3>2
    <2>5. g = h
      BY <2>4
    <2>6. Runs(rows, g, m)
      <3> HIDE DEF g
      <3> QED
        BY <2>5 DEF Runs, Step
    <2> QED
      BY <1>4, <2>6 DEF Bad
  <1> QED
    BY <1>6, <1>7

LEMMA AfterEach ==
    ASSUME NEW rows
    PROVE  \A k \in 0..Cardinality(Enabled) :
              After(rows)[k] = IF k = 0 THEN Before(rows)
                               ELSE LoopStep(rows, After(rows)[k - 1], Nth(Enabled, k - 1))
  <1> DEFINE n == Cardinality(Enabled)
  <1>1. n \in Nat
    BY TaskPlaces DEF Enabled
  <1>2. \E f : Runs(rows, f, n)
    BY <1>1, SomeRuns
  <1>3. After(rows) = CHOOSE f : Runs(rows, f, n)
    BY DEF After, Runs, Before
  <1>4. Runs(rows, After(rows), n)
    BY <1>2, <1>3, Zenon
  <1> HIDE DEF n
  <1> QED
    BY <1>4 DEF n, Runs
\* The bindings once the tasks of S have moved, and the tasks that have, or have
\* been seen with a grant that expired, among the first k.
HeldBy(rows, S) ==
    LET taken == {Taken(rows, t) : t \in S}
    IN  [u \in Task |-> CASE u \in S -> Taken(rows, u)
                          [] Deleted(rows, taken, u) -> None
                          [] OTHER -> held[u]]
Moved(rows, k) == {t \in Migrants(rows) : TaskRank(Enabled, t) < k}
Seen(rows, k) == {t \in Expired(rows) : TaskRank(Enabled, t) < k}

LEMMA ReboundIsHeldBy == ASSUME NEW rows PROVE Rebound(rows) = HeldBy(rows, Migrants(rows))
BY DEF Rebound, HeldBy

\* A task that moves gets the slot at its place among the free ones.
LEMMA TakenAt ==
    ASSUME TypeOK, NEW rows \in Rows, NEW t \in Migrants(rows)
    PROVE  /\ t \in Expired(rows) /\ TaskRank(Expired(rows), t) < Room(rows)
           /\ Taken(rows, t) \in Free(rows)
           /\ SlotRank(rows, Free(rows), Taken(rows, t)) = TaskRank(Expired(rows), t)
  <1>1. Expired(rows) \in SUBSET Task /\ t \in Expired(rows) /\ TaskRank(Expired(rows), t) < Room(rows)
    BY DEF Expired, Migrants, Enabled
  <1>2. TaskRank(Expired(rows), t) \in Nat
    BY <1>1, TaskRankDistinct
  <1>3. Free(rows) \in SUBSET (Grant \X (0..MaxAmount)) /\ IsFiniteSet(Free(rows))
        /\ Cardinality(Free(rows)) \in Nat
    BY SlotsFinite, FS_CardinalityType
  <1>4. TaskRank(Expired(rows), t) \in 0..Cardinality(Free(rows)) - 1
    BY <1>1, <1>2, <1>3, RoomIsFree
  <1>5. \E s \in Free(rows) : SlotRank(rows, Free(rows), s) = TaskRank(Expired(rows), t)
    BY <1>3, <1>4, SlotRankOnto
  <1> QED
    BY <1>1, <1>5 DEF Taken

\* The free slots that are left when the tasks of S have moved.
Left(rows, S) == Free(rows) \ {Taken(rows, u) : u \in S}

\* Of the slots that are left, the first is the one of the next task that moves.
LEMMA FirstLeft ==
    ASSUME TypeOK, NEW rows \in Rows, NEW t \in Migrants(rows), NEW S,
           S = {u \in Expired(rows) : u < t}, S \subseteq Migrants(rows)
    PROVE  /\ Taken(rows, t) \in Left(rows, S)
           /\ \A s \in Left(rows, S) :
                 (\A r \in Left(rows, S) : ~SlotBefore(rows, r, s)) <=> s = Taken(rows, t)
  <1> DEFINE F == Free(rows)
             left == Left(rows, S)
             X == Expired(rows)
             first == Taken(rows, t)
  <1>1. X \in SUBSET Task /\ t \in X /\ t \in Nat
    BY TakenAt, Numbers DEF Expired, Enabled
  <1>2. F \in SUBSET (Grant \X (0..MaxAmount)) /\ IsFiniteSet(F) /\ Cardinality(F) \in Nat
    BY SlotsFinite, FS_CardinalityType
  <1>3. first \in F /\ SlotRank(rows, F, first) = TaskRank(X, t)
    BY TakenAt
  <1>4. first \in left
    <2>1. \A u \in S : u # t
      BY <1>1
    <2> QED
      BY <1>3, <2>1, TakenFree DEF Left
  <1>5. ASSUME NEW r \in left PROVE ~SlotBefore(rows, r, first)
    <2> SUFFICES ASSUME SlotBefore(rows, r, first) PROVE FALSE
      OBVIOUS
    <2>1. r \in F /\ SlotRank(rows, F, r) \in Nat /\ SlotRank(rows, F, r) < TaskRank(X, t)
      BY <1>2, <1>3, SlotRankOrder DEF Left
    <2>2. TaskRank(X, t) \in 0..Cardinality(X) - 1 /\ Cardinality(X) \in Nat
      BY <1>1, TaskPlaces
    <2>3. SlotRank(rows, F, r) \in 0..Cardinality(X) - 1
      BY <2>1, <2>2
    <2>4. PICK u \in X : TaskRank(X, u) = SlotRank(rows, F, r)
      BY <1>1, <2>3, TaskPlaces
    <2>5. u < t
      <3>1. u # t /\ ~(t < u)
        BY <1>1, <2>1, <2>2, <2>4, TaskPlaces
      <3>2. u \in Nat
        BY <1>1, Numbers
      <3> QED
        BY <1>1, <3>1, <3>2
    <2>6. u \in S /\ u \in Migrants(rows)
      BY <2>5
    <2>7. Taken(rows, u) \in F /\ SlotRank(rows, F, Taken(rows, u)) = SlotRank(rows, F, r)
      BY <2>4, <2>6, TakenAt
    <2>8. r = Taken(rows, u)
      BY <1>2, <2>1, <2>7, SlotRankOnto
    <2> QED
      BY <2>6, <2>8 DEF Left
  <1> HIDE DEF first
  <1>6. ASSUME NEW s \in left, \A r \in left : ~SlotBefore(rows, r, s) PROVE s = first
    <2>1. s \in Grant \X (0..MaxAmount) /\ first \in Grant \X (0..MaxAmount)
      BY <1>2, <1>3 DEF Left
    <2> QED
      BY <1>4, <1>5, <1>6, <2>1, SlotOrder
  <1> QED
    BY <1>4, <1>5, <1>6 DEF first

\* bind_task, in the loop, moves the next task and deletes what it looks at.
LEMMA BindMoves ==
    ASSUME TypeOK, NEW rows \in Rows, NEW t \in Migrants(rows), NEW S,
           S = {u \in Expired(rows) : u < t}, S \subseteq Migrants(rows)
    PROVE  LoopBind(rows, HeldBy(rows, S), t) = [bound |-> HeldBy(rows, S \cup {t}), ok |-> TRUE]
  <1> DEFINE old == HeldBy(rows, S)
             new == HeldBy(rows, S \cup {t})
             taken == {Taken(rows, u) : u \in S}
             left == Left(rows, S)
             first == Taken(rows, t)
             free == Slots(rows) \ {old[u] : u \in Enabled}
             looked == {g \in Grant : GrantActive(rows, g) /\ ~GrantBefore(rows, first[1], g)}
             cleared == [u \in Task |-> IF u \notin Enabled /\ old[u] # None /\ old[u][1] \in looked
                                        THEN None ELSE old[u]]
  <1>1. /\ Migrants(rows) \subseteq Enabled /\ Enabled \subseteq Task /\ Expired(rows) \subseteq Enabled
        /\ \A u \in Expired(rows) : held[u] # None /\ held[u] \notin Slots(rows)
    <2>1. ASSUME NEW u \in Expired(rows) PROVE held[u] # None /\ held[u] \notin Slots(rows)
      <3>1. u \in Task /\ held[u] # None /\ held[u] \in Grant \X (0..MaxAmount)
            /\ rows[held[u][1]].expires <= now
        BY DEF Expired, Enabled, TypeOK
      <3>2. held[u][1] \in Grant /\ rows[held[u][1]] \in Row
        BY <3>1, Numbers
      <3>4. now \in Int
        BY Numbers DEF TypeOK, Moment
      <3>3. rows[held[u][1]].expires \in Int
        BY <3>2, Numbers
      <3> QED
        BY <3>1, <3>3, <3>4 DEF Slots, GrantActive
    <2> QED
      BY <2>1, TakenFree DEF Enabled, Expired
  <1>2. \A u \in Enabled : old[u] = IF u \in S THEN Taken(rows, u) ELSE held[u]
    BY <1>1 DEF HeldBy, Deleted
  <1>3. \A u \in Task \ Enabled : old[u] = IF Deleted(rows, taken, u) THEN None ELSE held[u]
    BY <1>1 DEF HeldBy
  <1>4. free = left
    <2>1. ASSUME NEW s \in Slots(rows)
          PROVE  s \in {old[u] : u \in Enabled} <=> s \in taken \/ s \in {held[u] : u \in Enabled}
      <3>1. s \in {old[u] : u \in Enabled} => s \in taken \/ s \in {held[u] : u \in Enabled}
        BY <1>2
      <3>2. s \in taken => s \in {old[u] : u \in Enabled}
        BY <1>1, <1>2
      <3>3. s \in {held[u] : u \in Enabled} => s \in {old[u] : u \in Enabled}
        <4> SUFFICES ASSUME NEW u \in Enabled, s = held[u] PROVE s \in {old[v] : v \in Enabled}
          OBVIOUS
        <4>1. u \notin S
          BY <1>1
        <4> QED
          BY <1>2, <4>1
      <3> QED
        BY <3>1, <3>2, <3>3
    <2> HIDE DEF old, taken
    <2> QED
      BY <2>1 DEF Free, Left, taken
  <1>5. /\ first \in free
        /\ first = CHOOSE s \in free : \A r \in free : ~SlotBefore(rows, r, s)
    <2>1. /\ first \in left
          /\ \A s \in left : (\A r \in left : ~SlotBefore(rows, r, s)) <=> s = first
      BY FirstLeft
    <2> HIDE DEF free, first, left
    <2> QED
      BY <1>4, <2>1
  <1>6. LoopBind(rows, old, t) = [bound |-> [cleared EXCEPT ![t] = first], ok |-> TRUE]
    <2>1. free # {}
      BY <1>5
    <2> HIDE DEF old, first
    <2> QED
      BY <1>5, <2>1 DEF LoopBind
  <1>7. [cleared EXCEPT ![t] = first] = new
    <2>1. \A u \in Enabled : new[u] = IF u \in S \cup {t} THEN Taken(rows, u) ELSE held[u]
      BY <1>1 DEF HeldBy, Deleted
    <2>2. \A u \in Task \ Enabled :
             new[u] = IF Deleted(rows, taken \cup {first}, u) THEN None ELSE held[u]
      <3>1. {Taken(rows, u) : u \in S \cup {t}} = taken \cup {first}
        OBVIOUS
      <3>2. new = [u \in Task |-> CASE u \in S \cup {t} -> Taken(rows, u)
                                    [] Deleted(rows, taken \cup {first}, u) -> None
                                    [] OTHER -> held[u]]
        BY <3>1 DEF HeldBy
      <3> QED
        BY <1>1, <3>2
    <2>3. ASSUME NEW u \in Task \ Enabled PROVE cleared[u] = new[u]
      <3>1. held[u] # None => held[u][1] \in Grant
        BY DEF TypeOK
      <3>2. Deleted(rows, taken \cup {first}, u) <=>
              Deleted(rows, taken, u) \/ (held[u] # None /\ held[u][1] \in looked)
        BY <3>1 DEF Deleted
      <3> HIDE DEF old, new, taken, looked, first
      <3> QED
        BY <1>3, <2>2, <3>2
    <2>4. ASSUME NEW u \in Enabled PROVE [cleared EXCEPT ![t] = first][u] = new[u]
      <3>1. cleared[u] = old[u]
        BY <1>1
      <3> HIDE DEF old, new
      <3> QED
        BY <1>1, <1>2, <2>1, <3>1
    <2>5. \A u \in Task : [cleared EXCEPT ![t] = first][u] = new[u]
      <3> HIDE DEF new, first, old, looked
      <3> QED
        BY <1>1, <2>3, <2>4
    <2>6. /\ new = [u \in Task |-> new[u]]
          /\ [cleared EXCEPT ![t] = first] = [u \in Task |-> [cleared EXCEPT ![t] = first][u]]
      <3>1. new = [u \in Task |-> new[u]]
        BY DEF HeldBy
      <3>2. cleared = [u \in Task |-> cleared[u]]
        OBVIOUS
      <3> HIDE DEF new, cleared, first
      <3> QED
        BY <3>1, <3>2
    <2> HIDE DEF new, cleared
    <2> QED
      BY <2>5, <2>6
  <1> QED
    BY <1>6, <1>7
\* What the loop has after k tasks.  It goes on only while the tasks that moved
\* are all it has seen with a grant that expired, and stops when it has moved all.
LoopInv(rows, k) ==
    \E stop \in BOOLEAN :
        /\ After(rows)[k] = [held |-> HeldBy(rows, Moved(rows, k)), stop |-> stop,
                             count |-> Before(rows).count + Cardinality(Moved(rows, k))]
        /\ Moved(rows, k) = IF stop THEN Migrants(rows) ELSE Seen(rows, k)

LEMMA LoopStarts == ASSUME TypeOK, NEW rows \in Rows PROVE LoopInv(rows, 0)
  <1>0. Enabled \in SUBSET Task
    BY DEF Enabled
  <1>1. Cardinality(Enabled) \in Nat /\ Migrants(rows) \subseteq Expired(rows)
        /\ Expired(rows) \subseteq Enabled /\ \A t \in Enabled : TaskRank(Enabled, t) \in Nat
    BY <1>0, TaskPlaces, TaskRankDistinct DEF Migrants, Expired
  <1>2. Moved(rows, 0) = {} /\ Seen(rows, 0) = {}
    BY <1>1 DEF Moved, Seen
  <1>3. After(rows)[0] = Before(rows)
    BY <1>1, AfterEach
  <1>4. HeldBy(rows, {}) = held
    BY DEF HeldBy, Deleted, TypeOK
  <1>5. Cardinality({}) = 0
    BY FS_EmptySet
  <1>6. Before(rows).count \in Nat
    <2>1. {t \in Enabled : TaskAuthorized(rows, held, t)} \in SUBSET Task
      BY DEF Enabled
    <2> QED
      BY <2>1, TaskPlaces DEF Before
  <1>7. Before(rows) = [held |-> held, stop |-> FALSE, count |-> Before(rows).count]
    BY DEF Before
  <1>8. Before(rows).count + 0 = Before(rows).count
    BY <1>6
  <1> HIDE DEF Before
  <1> QED
    BY <1>2, <1>3, <1>4, <1>5, <1>7, <1>8 DEF LoopInv

\* The tasks before a task that is next: their number is its place.
LEMMA NextInPlace ==
    ASSUME TypeOK, NEW rows \in Rows, NEW k \in 0..Cardinality(Enabled) - 1,
           NEW t \in Enabled, t = Nth(Enabled, k)
    PROVE  /\ Seen(rows, k) = {u \in Expired(rows) : u < t}
           /\ Seen(rows, k + 1) = IF t \in Expired(rows) THEN Seen(rows, k) \cup {t} ELSE Seen(rows, k)
           /\ Moved(rows, k + 1) = IF t \in Migrants(rows) THEN Moved(rows, k) \cup {t} ELSE Moved(rows, k)
           /\ t \notin Moved(rows, k)
  <1>1. /\ Enabled \in SUBSET Task /\ Expired(rows) \subseteq Enabled
        /\ Migrants(rows) \subseteq Expired(rows) /\ \A u \in Enabled : u \in Nat
    BY Numbers DEF Enabled, Expired, Migrants
  <1>2. /\ Cardinality(Enabled) \in Nat /\ TaskRank(Enabled, t) = k
        /\ \A u \in Enabled : TaskRank(Enabled, u) \in Nat
    BY <1>1, TaskPlaces
  <1>3. \A u \in Enabled : TaskRank(Enabled, u) < k <=> u < t
    <2> SUFFICES ASSUME NEW u \in Enabled PROVE TaskRank(Enabled, u) < k <=> u < t
      OBVIOUS
    <2>1. u < t => TaskRank(Enabled, u) < k
      BY <1>1, <1>2, TaskPlaces
    <2>2. t < u => k < TaskRank(Enabled, u)
      BY <1>1, <1>2, TaskPlaces
    <2> QED
      BY <1>1, <1>2, <2>1, <2>2
  <1>4. \A u \in Enabled : TaskRank(Enabled, u) < k + 1 <=> TaskRank(Enabled, u) < k \/ u = t
    <2> SUFFICES ASSUME NEW u \in Enabled
                 PROVE  TaskRank(Enabled, u) < k + 1 <=> TaskRank(Enabled, u) < k \/ u = t
      OBVIOUS
    <2>1. u # t => TaskRank(Enabled, u) # k
      BY <1>1, <1>2, TaskRankDistinct
    <2> QED
      BY <1>2, <2>1
  <1>5. Seen(rows, k) = {u \in Expired(rows) : u < t}
    BY <1>1, <1>3 DEF Seen
  <1>6. Seen(rows, k + 1) = IF t \in Expired(rows) THEN Seen(rows, k) \cup {t} ELSE Seen(rows, k)
    BY <1>1, <1>4 DEF Seen
  <1>7. Moved(rows, k + 1) = IF t \in Migrants(rows) THEN Moved(rows, k) \cup {t} ELSE Moved(rows, k)
    BY <1>1, <1>4 DEF Moved
  <1>8. t \notin Moved(rows, k)
    BY <1>2 DEF Moved
  <1> QED
    BY <1>5, <1>6, <1>7, <1>8

LEMMA LoopGoesOn ==
    ASSUME TypeOK, NEW rows \in Rows, NEW k \in 0..Cardinality(Enabled) - 1, LoopInv(rows, k)
    PROVE  LoopInv(rows, k + 1)
  <1> DEFINE a == After(rows)[k]
             b == After(rows)[k + 1]
             t == Nth(Enabled, k)
             S == Moved(rows, k)
             X == Expired(rows)
             n == Before(rows).count
  <1>1. /\ Enabled \in SUBSET Task /\ X \in SUBSET Task /\ X \subseteq Enabled
        /\ Migrants(rows) = {u \in X : TaskRank(X, u) < Room(rows)}
    BY DEF Enabled, Expired, Migrants
  <1>2. Cardinality(Enabled) \in Nat /\ t \in Enabled /\ k + 1 \in 1..Cardinality(Enabled)
    BY <1>1, TaskPlaces
  <1>3. b = LoopStep(rows, a, t)
    <2>1. k + 1 \in 0..Cardinality(Enabled) /\ k + 1 # 0 /\ (k + 1) - 1 = k
      BY <1>2
    <2> QED
      BY <2>1, AfterEach
  <1>4. PICK stop \in BOOLEAN :
              /\ a = [held |-> HeldBy(rows, S), stop |-> stop, count |-> n + Cardinality(S)]
              /\ S = IF stop THEN Migrants(rows) ELSE Seen(rows, k)
    BY DEF LoopInv
  <1>5. /\ Seen(rows, k) = {u \in X : u < t} /\ t \notin S
        /\ Seen(rows, k + 1) = IF t \in X THEN Seen(rows, k) \cup {t} ELSE Seen(rows, k)
        /\ Moved(rows, k + 1) = IF t \in Migrants(rows) THEN S \cup {t} ELSE S
    BY <1>2, NextInPlace
  <1>6. /\ S \subseteq Migrants(rows) /\ S \in SUBSET Task
        /\ IsFiniteSet(S) /\ Cardinality(S) \in Nat /\ n \in Nat /\ LimitFor(rows) \in Nat
    <2>1. S \subseteq Migrants(rows) /\ S \in SUBSET Task
      BY <1>1 DEF Moved
    <2>2. {u \in Enabled : TaskAuthorized(rows, held, u)} \in SUBSET Task
      BY <1>1
    <2> QED
      BY <2>1, <2>2, TaskPlaces, SlotsFinite DEF Before
  <1>7. status = "active" => Room(rows) = LimitFor(rows) - n
    BY DEF Room, Before
  <1>8. TaskRank(X, t) = Cardinality(Seen(rows, k))
    BY <1>5 DEF TaskRank
  <1> HIDE DEF a, b, t, S, X, n
  <1>9. CASE stop \/ status # "active" \/ a.count >= LimitFor(rows)
    <2>1. b = [a EXCEPT !.stop = TRUE]
      BY <1>3, <1>4, <1>9 DEF LoopStep
    <2>2. S = Migrants(rows)
      <3>1. CASE stop
        BY <1>4, <3>1
      <3>2. CASE status # "active"
        <4>1. Room(rows) = 0 /\ \A u \in X : TaskRank(X, u) \in Nat
          BY <1>1, <3>2, TaskPlaces DEF Room
        <4>2. Migrants(rows) = {}
          BY <1>1, <4>1
        <4> QED
          BY <1>6, <4>2
      <3>3. CASE ~stop /\ status = "active" /\ a.count >= LimitFor(rows)
        <4>1. Cardinality(S) >= Room(rows) /\ S = Seen(rows, k) /\ Room(rows) \in Int
          BY <1>4, <1>6, <1>7, <3>3
        <4>2. ASSUME NEW u \in Migrants(rows), u \notin S PROVE FALSE
          <5>1. u \in X /\ TaskRank(X, u) < Room(rows) /\ TaskRank(X, u) \in Nat
            BY <1>1, <4>2, TaskRankDistinct
          <5>2. ~(u < t)
            BY <1>5, <4>1, <4>2, <5>1
          <5>3. S \subseteq {v \in X : v < u}
            <6>1. u \in Nat /\ t \in Nat /\ \A v \in X : v \in Nat
              BY <1>1, <1>2, <5>1, Numbers
            <6> QED
              BY <1>5, <4>1, <5>2, <6>1
          <5>4. IsFiniteSet({v \in X : v < u}) /\ Cardinality({v \in X : v < u}) = TaskRank(X, u)
            <6>1. {v \in X : v < u} \in SUBSET Task
              BY <1>1
            <6> QED
              BY <6>1, TaskPlaces DEF TaskRank
          <5>5. Cardinality(S) <= TaskRank(X, u)
            BY <5>3, <5>4, FS_Subset
          <5> QED
            BY <1>6, <4>1, <5>1, <5>5
        <4> QED
          BY <1>6, <4>2
      <3> QED
        BY <1>9, <3>1, <3>2, <3>3
    <2>3. Moved(rows, k + 1) = S
      BY <1>5, <2>2
    <2>4. b = [held |-> HeldBy(rows, S), stop |-> TRUE, count |-> n + Cardinality(S)]
      BY <1>4, <2>1
    <2> QED
      BY <2>2, <2>3, <2>4 DEF LoopInv, b, n
  <1>10. CASE ~(stop \/ status # "active" \/ a.count >= LimitFor(rows)) /\ t \notin X
    <2>1. b = a
      BY <1>3, <1>4, <1>10 DEF LoopStep, X
    <2>2. t \notin Migrants(rows)
      BY <1>1, <1>10
    <2>3. Moved(rows, k + 1) = S /\ Seen(rows, k + 1) = Seen(rows, k)
      BY <1>5, <1>10, <2>2
    <2> QED
      BY <1>4, <1>10, <2>1, <2>3 DEF LoopInv, b, n
  <1>11. CASE ~(stop \/ status # "active" \/ a.count >= LimitFor(rows)) /\ t \in X
    <2>1. S = Seen(rows, k) /\ S = {u \in X : u < t}
      BY <1>4, <1>5, <1>11
    <2>2. t \in Migrants(rows)
      <3>1. Cardinality(S) < Room(rows)
        BY <1>4, <1>6, <1>7, <1>11
      <3> QED
        BY <1>1, <1>8, <1>11, <2>1, <3>1
    <2>3. LoopBind(rows, a.held, t) = [bound |-> HeldBy(rows, S \cup {t}), ok |-> TRUE]
      <3>1. a.held = HeldBy(rows, S)
        BY <1>4
      <3> QED
        BY <1>6, <2>1, <2>2, <3>1, BindMoves DEF X
    <2>4. b = [held |-> HeldBy(rows, S \cup {t}), stop |-> FALSE, count |-> a.count + 1]
      <3>1. ~a.stop /\ status = "active" /\ ~(a.count >= LimitFor(rows)) /\ t \in Expired(rows)
        BY <1>4, <1>11 DEF X
      <3>2. LoopStep(rows, a, t) = [held |-> LoopBind(rows, a.held, t).bound, stop |-> FALSE,
                                    count |-> IF LoopBind(rows, a.held, t).ok THEN a.count + 1 ELSE a.count]
        BY <3>1 DEF LoopStep
      <3> QED
        BY <1>3, <2>3, <3>2
    <2>5. Moved(rows, k + 1) = S \cup {t} /\ Seen(rows, k + 1) = S \cup {t}
      BY <1>5, <1>11, <2>1, <2>2
    <2>6. Cardinality(S \cup {t}) = Cardinality(S) + 1
      BY <1>5, <1>6, FS_AddElement
    <2>7. a.count + 1 = n + Cardinality(S \cup {t})
      BY <1>4, <1>6, <2>6
    <2> QED
      BY <2>4, <2>5, <2>7 DEF LoopInv, b, n
  <1> QED
    BY <1>9, <1>10, <1>11

LEMMA LoopThroughout ==
    ASSUME TypeOK, NEW rows \in Rows
    PROVE  \A k \in 0..Cardinality(Enabled) : LoopInv(rows, k)
  <1> DEFINE Bad == {k \in 0..Cardinality(Enabled) : ~LoopInv(rows, k)}
             Below == OpToRel(<, Nat)
  <1> SUFFICES ASSUME Bad # {} PROVE FALSE
    OBVIOUS
  <1>1. IsWellFoundedOn(Below, Nat)
    BY NatLessThanWellFounded, Zenon
  <1>2. \A m, n \in Nat : m < n => <<m, n>> \in Below
    BY DEF OpToRel
  <1>3. Cardinality(Enabled) \in Nat
    BY TaskPlaces DEF Enabled
  <1>4. Bad \subseteq Nat
    BY <1>3
  <1> HIDE DEF Below
  <1>5. PICK m \in Bad : \A n \in Bad : ~(<<n, m>> \in Below)
    <2> HIDE DEF Bad
    <2> QED
      BY <1>1, <1>4, WFMin
  <1>6. m # 0
    BY <1>5, LoopStarts
  <1>7. m - 1 \in 0..Cardinality(Enabled) - 1 /\ m - 1 < m /\ m - 1 \in Nat /\ m \in Nat
    BY <1>3, <1>5, <1>6
  <1>8. LoopInv(rows, m - 1)
    <2>1. m - 1 \notin Bad /\ m - 1 \in 0..Cardinality(Enabled)
      <3> HIDE DEF Bad
      <3>1. m - 1 \in 0..Cardinality(Enabled)
        BY <1>3, <1>7
      <3> QED
        BY <1>2, <1>5, <1>7, <3>1
    <2> QED
      BY <2>1
  <1>9. LoopInv(rows, (m - 1) + 1)
    BY <1>7, <1>8, LoopGoesOn
  <1> QED
    BY <1>5, <1>7, <1>9

\* reconcile_user is Rebound and Paused, for whatever rows it reads.
LEMMA LoopIsRebound ==
    ASSUME TypeOK, NEW rows \in Rows
    PROVE  Rebound(rows) = Looped(rows) /\ Paused(rows) = LoopExcess(rows, Looped(rows))
  <1> DEFINE n == Cardinality(Enabled)
             able == {t \in Enabled : TaskAuthorized(rows, Looped(rows), t)}
  <1>1. Enabled \in SUBSET Task /\ n \in Nat /\ LoopInv(rows, n)
    BY TaskPlaces, LoopThroughout DEF Enabled
  <1>2. Migrants(rows) \subseteq Expired(rows) /\ Expired(rows) \subseteq Enabled
    BY DEF Migrants, Expired
  <1>3. \A t \in Enabled : TaskRank(Enabled, t) < n
    BY <1>1, TaskPlaces
  <1>4. Moved(rows, n) = Migrants(rows)
    BY <1>2, <1>3 DEF Moved
  <1>5. Rebound(rows) = Looped(rows)
    BY <1>1, <1>4, ReboundIsHeldBy DEF LoopInv, Looped
  <1>6. able \in SUBSET Task
    BY <1>1
  <1> HIDE DEF able
  <1>7. {t \in able : TaskRank(able, t) >= LimitFor(rows)}
          = {Nth(able, k) : k \in LimitFor(rows)..Cardinality(able) - 1}
    <2>1. LimitFor(rows) \in Nat /\ Cardinality(able) \in Nat
      BY <1>6, SlotsFinite, TaskPlaces
    <2>2. ASSUME NEW t \in able, TaskRank(able, t) >= LimitFor(rows)
          PROVE  \E k \in LimitFor(rows)..Cardinality(able) - 1 : t = Nth(able, k)
      <3>1. TaskRank(able, t) \in 0..Cardinality(able) - 1
        BY <1>6, TaskPlaces
      <3>2. Nth(able, TaskRank(able, t)) \in able
            /\ TaskRank(able, Nth(able, TaskRank(able, t))) = TaskRank(able, t)
        BY <1>6, <3>1, TaskPlaces
      <3>3. t = Nth(able, TaskRank(able, t))
        BY <1>6, <3>2, TaskRankDistinct
      <3>4. TaskRank(able, t) \in LimitFor(rows)..Cardinality(able) - 1
        BY <2>1, <2>2, <3>1
      <3> QED
        BY <3>3, <3>4
    <2>3. ASSUME NEW k \in LimitFor(rows)..Cardinality(able) - 1
          PROVE  Nth(able, k) \in able /\ TaskRank(able, Nth(able, k)) >= LimitFor(rows)
      <3>1. k \in 0..Cardinality(able) - 1
        BY <2>1
      <3> QED
        BY <1>6, <2>1, <3>1, TaskPlaces
    <2> QED
      BY <2>2, <2>3
  <1>8. Paused(rows) = (Enabled \ able) \cup {t \in able : TaskRank(able, t) >= LimitFor(rows)}
    BY <1>5 DEF Paused, able
  <1> QED
    BY <1>5, <1>7, <1>8 DEF LoopExcess, able

\* The closed form of a reconciliation, which the theorems above are about, is
\* what the loop computes, in every state.
THEOREM LoopIsClosedForm == Spec => []LoopAgrees
  <1>1. QuotaInv => LoopAgrees
    <2> SUFFICES ASSUME QuotaInv PROVE LoopAgrees
      OBVIOUS
    <2>1. TypeOK /\ grant \in Rows
      BY DEF QuotaInv, TypeOK, Rows
    <2> QED
      BY <2>1, LoopIsRebound DEF LoopAgrees
  <1> QED
    BY <1>1, QuotaInductive, PTL
=============================================================================
