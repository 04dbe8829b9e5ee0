-------------------------- MODULE PushQueueProofs --------------------------
(***************************************************************************)
(* Theorems about PushQueue: for any notifiers, channels, events, users    *)
(* and number of attempts, PushInv is an invariant, and with it a run or a *)
(* test is notified at most once, the queue tells the truth, and a first   *)
(* request goes where it was meant to go.                                  *)
(***************************************************************************)
EXTENDS PushQueue, TLAPS

USE OwnerAssumption, KindAssumption, SettingsAssumption, AttemptsAssumption

RowsGood == \A r \in Delivery : RowOK(r) /\ Untried(r) /\ AheadOK(r) /\ RowHonest(r)
JobsGood == \A n \in Notifier : JobOK(n) /\ JobCopies(n)
Single == \A r \in Delivery : Once(r) => copies[r] <= 1

LEMMA Parts == PushInv <=> TypeOK /\ RowsGood /\ JobsGood /\ Single
  BY DEF PushInv, RowsGood, JobsGood, Single

LEMMA DeliveryType == \A r \in Delivery : r[1] \in Channel /\ r[2] \in Event
  BY DEF Delivery

LEMMA InitGood == Init => PushInv
  <1> SUFFICES ASSUME Init PROVE PushInv
    OBVIOUS
  <1>1. TypeOK
    <2>1. chan \in [Channel -> Config \cup {NoChannel}]
      BY DEF Init
    <2>2. row \in [Delivery -> Row \cup {NoRow}]
      BY DEF Init
    <2>3. job \in [Notifier -> Job \cup {Idle}]
      BY DEF Init
    <2>4. since \in [Channel -> SUBSET Event]
      BY DEF Init
    <2>5. event \in [Event -> {"not yet", "new", "old", "gone"}] /\ active \subseteq User
      BY DEF Init
    <2>6. copies \in [Delivery -> 0 .. 2]
      <3>1. copies = [r \in Delivery |-> 0]
        BY DEF Init
      <3>2. 0 \in 0 .. 2
        OBVIOUS
      <3> QED
        BY <3>1, <3>2
    <2> QED
      BY <2>1, <2>2, <2>3, <2>4, <2>5, <2>6 DEF TypeOK
  <1>2. \A n \in Notifier : ~Busy(n)
    BY DEF Init, Busy, Idle
  <1>3. RowsGood
    BY <1>2, DeliveryType DEF Init, RowsGood, RowOK, Untried, AheadOK, Ahead, RowHonest, NoRow
  <1>4. JobsGood
    BY <1>2 DEF JobsGood, JobOK, JobCopies, Held
  <1>5. Single
    <2>1. \A r \in Delivery : copies[r] = 0
      BY DEF Init
    <2> QED
      BY <2>1 DEF Single
  <1> QED
    BY <1>1, <1>3, <1>4, <1>5, Parts
-----------------------------------------------------------------------------
(* The surroundings and the clock: no step writes a request.               *)

LEMMA WorldGood ==
    ASSUME PushInv,
           \/ \E e \in Event : Happens(e) \/ Vanishes(e) \/ GrowsOld(e)
           \/ \E u \in User : Toggle(u)
    PROVE  PushInv'
  <1>0. TypeOK /\ RowsGood /\ JobsGood /\ Single
    BY Parts
  <1>1. UNCHANGED <<chan, row, job, copies>>
    BY DEF Happens, Vanishes, GrowsOld, Toggle, config, queue, world
  <1>2. TypeOK'
    <2>1. since' \in [Channel -> SUBSET Event]
      <3>1. CASE \E e \in Event : Happens(e)
        <4>1. PICK e \in Event : Happens(e)
          BY <3>1
        <4>2. since' = [c \in Channel |-> IF chan[c].saved /\ OwnerOf[c] = UserOf[e]
                                          THEN since[c] \cup {e} ELSE since[c]]
          BY <4>1 DEF Happens
        <4>3. since \in [Channel -> SUBSET Event]
          BY <1>0 DEF TypeOK
        <4> QED
          BY <4>2, <4>3
      <3>2. CASE ~ \E e \in Event : Happens(e)
        BY <1>0, <3>2 DEF Vanishes, GrowsOld, Toggle, config, TypeOK
      <3> QED
        BY <3>1, <3>2
    <2>2. event' \in [Event -> {"not yet", "new", "old", "gone"}]
      BY <1>0 DEF Happens, Vanishes, GrowsOld, Toggle, world, TypeOK
    <2>3. active' \subseteq User
      BY <1>0 DEF Happens, Vanishes, GrowsOld, Toggle, world, TypeOK
    <2> QED
      BY <1>0, <1>1, <2>1, <2>2, <2>3 DEF TypeOK
  <1>3. ASSUME NEW r \in Delivery, Ahead(r)' PROVE Ahead(r)
    <2>1. r[1] \in Channel /\ r[2] \in Event
      BY DeliveryType
    <2>2. CASE \E e \in Event : Happens(e)
      <3>1. PICK e \in Event : Happens(e)
        BY <2>2
      <3>2. CASE r[2] = e
        BY <3>1, <3>2 DEF Happens, Ahead
      <3>3. CASE r[2] # e
        <4>1. event[r[2]]' = event[r[2]]
          BY <1>0, <2>1, <3>1, <3>3 DEF Happens, TypeOK
        <4>2. r[2] \in since[r[1]]' => r[2] \in since[r[1]]
          BY <2>1, <3>1, <3>3 DEF Happens
        <4> QED
          BY <1>1, <1>3, <4>1, <4>2 DEF Ahead, Run
      <3> QED
        BY <3>2, <3>3
    <2>3. CASE ~ \E e \in Event : Happens(e)
      <3>1. since' = since
        BY <2>3 DEF Vanishes, GrowsOld, Toggle, config
      <3>2. event[r[2]]' \in {"not yet", "new"} => event[r[2]]' = event[r[2]]
        BY <1>0, <2>1, <2>3 DEF Vanishes, GrowsOld, Toggle, world, TypeOK
      <3> QED
        BY <1>1, <1>3, <3>1, <3>2 DEF Ahead, Run
    <2> QED
      BY <2>2, <2>3
  <1>4. \A r \in Delivery : event[r[2]]' = "new" /\ Run(r) => event[r[2]] = "new" \/ row[r] = NoRow
    <2> SUFFICES ASSUME NEW r \in Delivery, event[r[2]]' = "new", Run(r), event[r[2]] # "new"
                 PROVE  row[r] = NoRow
      OBVIOUS
    <2>1. event[r[2]] = "not yet"
      BY <1>0, DeliveryType DEF Happens, Vanishes, GrowsOld, Toggle, world, TypeOK
    <2> QED
      BY <1>0, <2>1 DEF RowsGood, AheadOK, Ahead, Run, Once
  <1>5. RowsGood'
    <2> SUFFICES ASSUME NEW r \in Delivery
                 PROVE  RowOK(r)' /\ Untried(r)' /\ AheadOK(r)' /\ RowHonest(r)'
      BY DEF RowsGood
    <2>1. RowOK(r)'
      BY <1>0, <1>1, <1>4 DEF RowsGood, RowOK, Run
    <2>2. Untried(r)'
      BY <1>0, <1>1 DEF RowsGood, Untried
    <2>3. AheadOK(r)'
      BY <1>0, <1>1, <1>3 DEF RowsGood, AheadOK, Once, Busy
    <2>4. RowHonest(r)'
      BY <1>0, <1>1 DEF RowsGood, RowHonest, Once, Busy
    <2> QED
      BY <2>1, <2>2, <2>3, <2>4
  <1>6. JobsGood' /\ Single'
    BY <1>0, <1>1 DEF JobsGood, JobOK, JobCopies, Held, Busy, Once, Single
  <1> QED
    BY <1>2, <1>5, <1>6 DEF PushInv, RowsGood, JobsGood, Single
-----------------------------------------------------------------------------
(* What a step may do to the rows it does not claim or complete.           *)

Alike(r) ==
    /\ row[r] # NoRow /\ row'[r] # NoRow
    /\ row'[r].status = row[r].status
    /\ row'[r].attempts = row[r].attempts
    /\ row'[r].body <=> row[r].body
    /\ row[r].status = "pending" => (row'[r].moved <=> row[r].moved)
    /\ Run(r) /\ row'[r].age > 0 => event[r[2]] # "new"
EndsHere(r) ==
    /\ row[r] # NoRow /\ row'[r] # NoRow
    /\ \/ row[r].status = "pending" /\ row'[r].status = "cancelled"
       \/ row[r].status = "sending" /\ row'[r].status = "unknown"
    /\ row'[r].attempts = row[r].attempts
    /\ ~row'[r].body
    /\ row'[r].age = row[r].age
Forsaken(r) == \A n \in Notifier : Held(n)' => job'[n].row # r
Goes(r) == row'[r] = NoRow /\ Forsaken(r) /\ (Once(r) => ~Ahead(r)')
Comes(r) ==
    /\ event[r[2]] = "new" /\ r[2] \in since[r[1]]
    /\ KindOf[r[2]] # "test"
    /\ Once(r) => row[r] = NoRow
    /\ Forsaken(r)
    /\ row'[r] # NoRow
    /\ row'[r].status \in {"pending", "cancelled"}
    /\ row'[r].body <=> row'[r].status = "pending"
    /\ row'[r].attempts = 0
    /\ ~row'[r].moved
    /\ row'[r].age = 0
Moves(r) == \/ row[r] = NoRow /\ row'[r] = NoRow
            \/ Alike(r) \/ EndsHere(r) \/ Goes(r) \/ Comes(r)

\* Rows outside R0 that only move in these ways, and requests outside N0 that
\* only forget their row, stay good.
LEMMA Others ==
    ASSUME TypeOK, RowsGood, JobsGood, Single,
           NEW R0 \in SUBSET Delivery, NEW N0 \in SUBSET Notifier,
           event' = event,
           \A c \in Channel : since'[c] \subseteq since[c],
           \A r \in Delivery \ R0 : Moves(r) /\ copies'[r] = copies[r],
           \A n \in Notifier \ N0 : \/ job'[n] = job[n]
                                    \/ Busy(n) /\ job'[n] = [job[n] EXCEPT !.known = FALSE]
                                    \/ Busy(n) /\ job'[n] = [job[n] EXCEPT !.holds = FALSE],
           \A n \in Notifier \ N0 : Busy(n) /\ Once(job[n].row) =>
               job'[n].known \/ ~job[n].known \/ row'[job[n].row] = NoRow,
           \A n \in N0 : Busy(n)' => job'[n].row \in R0,
           \A n \in Notifier \ N0 : Busy(n) /\ (Once(job[n].row) \/ Held(n)') => job[n].row \notin R0
    PROVE  /\ \A r \in Delivery \ R0 : /\ RowOK(r)' /\ Untried(r)' /\ AheadOK(r)'
                                       /\ RowHonest(r)' /\ (Once(r) => copies'[r] <= 1)
           /\ \A n \in Notifier \ N0 : JobOK(n)' /\ JobCopies(n)'
  <1>1. ASSUME NEW n \in Notifier \ N0
        PROVE  /\ Busy(n)' <=> Busy(n)
               /\ Held(n)' => Held(n)
               /\ Busy(n) => /\ job'[n].row = job[n].row /\ job[n].row \in Delivery
                             /\ job'[n].phase = job[n].phase
                             /\ job'[n].answer = job[n].answer
                             /\ job'[n].moved = job[n].moved
    <2>0. job[n] \in Job \cup {Idle}
      BY DEF TypeOK
    <2>1. CASE job'[n] = job[n]
      <3>1. Busy(n) => job[n].row \in Delivery
        BY <2>0 DEF Busy, Job, Idle
      <3> QED
        BY <2>1, <3>1 DEF Busy, Held
    <2>2. CASE Busy(n) /\ job'[n] = [job[n] EXCEPT !.known = FALSE]
      <3>1. job[n] \in Job
        BY <2>0, <2>2 DEF Busy, Idle
      <3> QED
        BY <2>2, <3>1 DEF Busy, Held, Job
    <2>3. CASE Busy(n) /\ job'[n] = [job[n] EXCEPT !.holds = FALSE]
      <3>1. job[n] \in Job
        BY <2>0, <2>3 DEF Busy, Idle
      <3> QED
        BY <2>3, <3>1 DEF Busy, Held, Job
    <2> QED
      BY <2>1, <2>2, <2>3
  <1>2. ASSUME NEW r \in Delivery \ R0
        PROVE  RowOK(r)' /\ Untried(r)' /\ AheadOK(r)' /\ RowHonest(r)' /\ (Once(r) => copies'[r] <= 1)
    <2>0. /\ RowOK(r) /\ Untried(r) /\ AheadOK(r) /\ RowHonest(r)
          /\ Moves(r) /\ copies'[r] = copies[r] /\ (Once(r) => copies[r] <= 1)
          /\ r[1] \in Channel /\ r[2] \in Event
      BY DeliveryType DEF RowsGood, Single
    <2>1. RowOK(r)'
      BY <2>0, AttemptsAssumption DEF RowOK, Moves, Alike, EndsHere, Goes, Comes, Run, Waiting
    <2>2. Untried(r)'
      BY <2>0 DEF Untried, Moves, Alike, EndsHere, Goes, Comes
    <2>3. Ahead(r)' /\ Once(r) => Ahead(r) /\ row[r] = NoRow /\ row'[r] = NoRow
      BY <2>0 DEF Ahead, AheadOK, RowOK, Moves, Alike, EndsHere, Goes, Comes, Run, Once
    <2>4. (\A n \in Notifier : Busy(n) => job[n].row # r)
            => \A n \in Notifier : Busy(n)' => job'[n].row # r
      BY <1>1
    <2>5. AheadOK(r)'
      BY <2>0, <2>3, <2>4 DEF AheadOK, Once
    <2>6. Comes(r) /\ Once(r) => Ahead(r)
      BY <2>0, KindAssumption DEF Comes, Once, Ahead, Run, Kind
    <2>7. RowHonest(r)'
      <3>1. CASE Comes(r)
        BY <2>0, <2>4, <2>6, <3>1 DEF RowHonest, AheadOK, Comes, Once
      <3>2. CASE Alike(r)
        BY <2>0, <2>4, <3>2 DEF RowHonest, Alike, Once
      <3>3. CASE EndsHere(r)
        BY <2>0, <3>3 DEF RowHonest, EndsHere, Once
      <3> QED
        BY <2>0, <3>1, <3>2, <3>3 DEF Moves, Goes, RowHonest
    <2> QED
      BY <2>0, <2>1, <2>2, <2>5, <2>7
  <1>3. ASSUME NEW n \in Notifier \ N0, Held(n)' PROVE JobOK(n)'
    <2>0. Held(n) /\ Busy(n) /\ job[n].row \in Delivery \ R0 /\ job'[n].row = job[n].row
      BY <1>1, <1>3 DEF Held
    <2> DEFINE r == job[n].row
    <2>1. Moves(r) /\ JobOK(n)
      BY <2>0 DEF JobsGood
    <2>2. /\ row'[r] # NoRow
          /\ row'[r].status \in {"sending", "unknown"}
          /\ row'[r].attempts = row[r].attempts
      BY <1>3, <2>0, <2>1 DEF JobOK, Moves, Alike, EndsHere, Goes, Comes, Forsaken
    <2>3. ASSUME NEW m \in Notifier \ {n}, Held(m)' PROVE job'[m].row # r
      <3>1. CASE m \in N0
        BY <2>0, <2>3, <3>1 DEF Held
      <3>2. CASE m \notin N0
        BY <1>1, <2>0, <2>1, <2>3, <3>2 DEF JobOK, Held
      <3> QED
        BY <3>1, <3>2
    <2> QED
      BY <1>1, <2>0, <2>1, <2>2, <2>3 DEF JobOK
  <1>4. ASSUME NEW n \in Notifier \ N0, Busy(n)', Once(job'[n].row) PROVE JobCopies(n)'
    <2>0. Busy(n) /\ Once(job[n].row) /\ job[n].row \in Delivery \ R0 /\ job'[n].row = job[n].row
      BY <1>1, <1>4
    <2>1. JobCopies(n) /\ copies'[job[n].row] = copies[job[n].row]
      BY <2>0 DEF JobsGood
    <2>3. Moves(job[n].row) /\ AheadOK(job[n].row) /\ job[n].row[2] \in Event
      BY <2>0, DeliveryType DEF RowsGood
    <2>4. ~job'[n].known => row'[job[n].row] = NoRow
      <3>1. CASE job[n].known
        BY <2>0, <3>1
      <3>2. CASE ~job[n].known
        <4>1. row[job[n].row] = NoRow
          BY <2>0, <2>1, <3>2 DEF JobCopies
        <4>2. ~Comes(job[n].row)
          BY <2>0, <2>3, KindAssumption DEF Comes, AheadOK, Ahead, Once, Run, Kind
        <4> QED
          BY <2>3, <4>1, <4>2 DEF Moves, Alike, EndsHere, Goes
      <3> QED
        BY <3>1, <3>2
    <2>2. ASSUME NEW m \in Notifier \ {n}, Busy(m)' PROVE job'[m].row # job[n].row
      <3>1. CASE m \in N0
        BY <2>0, <2>2, <3>1
      <3>2. CASE m \notin N0
        BY <1>1, <2>0, <2>1, <2>2, <3>2 DEF JobCopies
      <3> QED
        BY <3>1, <3>2
    <2> QED
      BY <1>1, <2>0, <2>1, <2>2, <2>4 DEF JobCopies
  <1> QED
    BY <1>2, <1>3, <1>4 DEF JobOK, JobCopies
\* No row is claimed, queued by hand or completed, no request starts or ends.
LEMMA AllMove ==
    ASSUME PushInv, TypeOK',
           event' = event, copies' = copies,
           \A c \in Channel : since'[c] \subseteq since[c],
           \A r \in Delivery : Moves(r),
           \A n \in Notifier : \/ job'[n] = job[n]
                               \/ Busy(n) /\ job'[n] = [job[n] EXCEPT !.known = FALSE]
                               \/ Busy(n) /\ job'[n] = [job[n] EXCEPT !.holds = FALSE],
           \A n \in Notifier : Busy(n) /\ Once(job[n].row) =>
               job'[n].known \/ ~job[n].known \/ row'[job[n].row] = NoRow
    PROVE  PushInv'
  <1>0. TypeOK /\ RowsGood /\ JobsGood /\ Single
    BY Parts
  <1>1. {} \in SUBSET Delivery /\ {} \in SUBSET Notifier
    OBVIOUS
  <1>3. /\ \A r \in Delivery \ {} : Moves(r) /\ copies'[r] = copies[r]
        /\ \A n \in {} : Busy(n)' => job'[n].row \in {}
    OBVIOUS
  <1>4. /\ \A n \in Notifier \ {} : \/ job'[n] = job[n]
                                    \/ Busy(n) /\ job'[n] = [job[n] EXCEPT !.known = FALSE]
                                    \/ Busy(n) /\ job'[n] = [job[n] EXCEPT !.holds = FALSE]
        /\ \A n \in Notifier \ {} : Busy(n) /\ Once(job[n].row) =>
               job'[n].known \/ ~job[n].known \/ row'[job[n].row] = NoRow
        /\ \A n \in Notifier \ {} :
               Busy(n) /\ (Once(job[n].row) \/ Held(n)') => job[n].row \notin {}
    OBVIOUS
  <1>2. /\ \A r \in Delivery \ {} : /\ RowOK(r)' /\ Untried(r)' /\ AheadOK(r)'
                                    /\ RowHonest(r)' /\ (Once(r) => copies'[r] <= 1)
        /\ \A n \in Notifier \ {} : JobOK(n)' /\ JobCopies(n)'
    BY <1>0, <1>1, <1>3, <1>4, Others
  <1> QED
    BY <1>2 DEF PushInv, Once

LEMMA RowTypes ==
    ASSUME TypeOK, NEW r \in Delivery
    PROVE  /\ row[r] = NoRow \/ row[r] \in Row
           /\ row[r] # NoRow => row[r] \in Row
           /\ row[r].status # "none" => row[r] # NoRow
           /\ RowOK(r) /\ row[r] # NoRow /\ Run(r) /\ row[r].age > 0 => event[r[2]] # "new"
  <1>1. row[r] \in Row \cup {NoRow}
    BY DEF TypeOK
  <1>2. row[r].status # "none" => row[r] # NoRow
    BY DEF NoRow
  <1>3. RowOK(r) /\ row[r] # NoRow /\ Run(r) /\ row[r].age > 0 => event[r[2]] # "new"
    BY DEF RowOK
  <1> QED
    BY <1>1, <1>2, <1>3

LEMMA EndedType ==
    ASSUME NEW d \in Row, NEW status \in Settled
    PROVE  /\ Ended(d, status) \in Row
           /\ Ended(d, status) # NoRow
           /\ Ended(d, status).status = status
           /\ Ended(d, status).attempts = d.attempts
           /\ Ended(d, status).age = d.age
           /\ ~Ended(d, status).body
  BY DEF Ended, Row, NoRow, Settled

\* A row nothing happens to.
LEMMA Untouched ==
    ASSUME TypeOK, RowsGood, NEW r \in Delivery, row'[r] = row[r]
    PROVE  Moves(r)
  BY RowTypes DEF RowsGood, Moves, Alike

LEMMA ClockGood ==
    ASSUME PushInv, Clock
    PROVE  PushInv'
  <1>0. TypeOK /\ RowsGood /\ JobsGood /\ Single
    BY Parts
  <1>1. UNCHANGED <<since, event, active, job, copies>>
    BY DEF Clock, RowAges, BecomesDue, ClaimOverdue, PauseOver, config, queue, world
  <1>2. CASE \E c \in Channel : PauseOver(c)
    <2>1. PICK c \in Channel : PauseOver(c)
      BY <1>2
    <2>2. chan' \in [Channel -> Config \cup {NoChannel}]
      <3>1. chan[c] \in Config
        <4>1. chan[c] \in Config \cup {NoChannel} /\ chan[c].saved
          BY <1>0, <2>1 DEF PauseOver, Pausing, TypeOK
        <4> QED
          BY <4>1 DEF NoChannel
      <3>2. [chan[c] EXCEPT !.recent = FALSE] \in Config
        BY <3>1 DEF Config
      <3>3. chan \in [Channel -> Config \cup {NoChannel}]
        BY <1>0 DEF TypeOK
      <3> QED
        BY <2>1, <3>2, <3>3 DEF PauseOver
    <2>3. row' = row
      BY <2>1 DEF PauseOver, queue
    <2>4. TypeOK'
      BY <1>0, <1>1, <2>2, <2>3 DEF TypeOK
    <2> QED
      BY <1>0, <1>1, <2>3, <2>4, Untouched, AllMove
  <1>3. CASE \E r \in Delivery : RowAges(r) \/ BecomesDue(r) \/ ClaimOverdue(r)
    <2>1. PICK r \in Delivery : RowAges(r) \/ BecomesDue(r) \/ ClaimOverdue(r)
      BY <1>3
    <2>2. chan' = chan
      BY <2>1 DEF RowAges, BecomesDue, ClaimOverdue, config
    <2>3. row[r] \in Row
      BY <1>0, <2>1, RowTypes DEF RowAges, BecomesDue, ClaimOverdue
    <2>4. \/ row' = row
          \/ row' = [row EXCEPT ![r] = [row[r] EXCEPT !.overdue = TRUE]]
          \/ /\ row' = [row EXCEPT ![r] = [row[r] EXCEPT !.age = row[r].age + 1]]
             /\ row[r].age < 2
             /\ Run(r) => event[r[2]] # "new"
      BY <2>1, <2>3 DEF RowAges, BecomesDue, ClaimOverdue, Run, Row
    <2>5. row' \in [Delivery -> Row \cup {NoRow}] /\ Moves(r)
      <3>1. row \in [Delivery -> Row \cup {NoRow}]
        BY <1>0 DEF TypeOK
      <3>2. CASE row' = row
        BY <1>0, <3>1, <3>2, Untouched
      <3>3. CASE row' = [row EXCEPT ![r] = [row[r] EXCEPT !.overdue = TRUE]]
        <4>1. [row[r] EXCEPT !.overdue = TRUE] \in Row
          BY <2>3 DEF Row
        <4>2. row'[r] = [row[r] EXCEPT !.overdue = TRUE]
          BY <3>1, <3>3
        <4>3. RowOK(r)
          BY <1>0 DEF RowsGood
        <4> QED
          BY <2>3, <3>1, <3>3, <4>1, <4>2, <4>3 DEF Moves, Alike, RowOK, Row, NoRow
      <3>4. CASE /\ row' = [row EXCEPT ![r] = [row[r] EXCEPT !.age = row[r].age + 1]]
                 /\ row[r].age < 2
                 /\ Run(r) => event[r[2]] # "new"
        <4>1. [row[r] EXCEPT !.age = row[r].age + 1] \in Row
          BY <2>3, <3>4 DEF Row
        <4>2. row'[r] = [row[r] EXCEPT !.age = row[r].age + 1]
          BY <3>1, <3>4
        <4> QED
          BY <2>3, <3>1, <3>4, <4>1, <4>2 DEF Moves, Alike, Row, NoRow
      <3> QED
        BY <2>4, <3>2, <3>3, <3>4
    <2>6. \A q \in Delivery : Moves(q)
      <3> SUFFICES ASSUME NEW q \in Delivery, q # r PROVE Moves(q)
        BY <2>5
      <3>1. row'[q] = row[q]
        BY <1>0, <2>4 DEF TypeOK
      <3> QED
        BY <1>0, <3>1, Untouched
    <2>7. TypeOK'
      BY <1>0, <1>1, <2>2, <2>5 DEF TypeOK
    <2> QED
      BY <1>1, <2>6, <2>7, AllMove
  <1> QED
    BY <1>2, <1>3 DEF Clock
-----------------------------------------------------------------------------
(* The owner.                                                              *)

LEMMA BusyJob ==
    ASSUME TypeOK, NEW n \in Notifier, Busy(n)
    PROVE  job[n] \in Job /\ job[n].row \in Delivery
  <1>1. job[n] \in Job \cup {Idle}
    BY DEF TypeOK
  <1>2. job[n] \in Job
    BY <1>1 DEF Busy, Idle
  <1> QED
    BY <1>2 DEF Job

LEMMA ForgottenJobs ==
    ASSUME TypeOK, NEW gone \in SUBSET Delivery, NEW n \in Notifier
    PROVE  /\ Forgotten(gone)[n] \in Job \cup {Idle}
           /\ \/ Forgotten(gone)[n] = job[n]
              \/ Busy(n) /\ Forgotten(gone)[n] = [job[n] EXCEPT !.known = FALSE]
           /\ Forgotten(gone)[n].phase # "idle" /\ Forgotten(gone)[n].known =>
                  Forgotten(gone)[n].row \notin gone /\ Forgotten(gone)[n] = job[n]
  <1>1. job[n] \in Job \cup {Idle}
    BY DEF TypeOK
  <1>2. CASE Busy(n) /\ job[n].row \in gone
    <2>1. job[n] \in Job
      BY <1>1, <1>2 DEF Busy, Idle
    <2>2. Forgotten(gone)[n] = [job[n] EXCEPT !.known = FALSE]
      BY <1>2 DEF Forgotten
    <2>3. [job[n] EXCEPT !.known = FALSE] \in Job /\ ~[job[n] EXCEPT !.known = FALSE].known
      BY <2>1 DEF Job
    <2> QED
      BY <1>2, <2>2, <2>3
  <1>3. CASE ~(Busy(n) /\ job[n].row \in gone)
    <2>1. Forgotten(gone)[n] = job[n]
      BY <1>3 DEF Forgotten
    <2> QED
      BY <1>1, <1>3, <2>1 DEF Busy
  <1> QED
    BY <1>2, <1>3

LEMMA SaveGood ==
    ASSUME PushInv, NEW c \in Channel, NEW other \in BOOLEAN, NEW choice \in Settings,
           Save(c, other, choice)
    PROVE  PushInv'
  <1>0. TypeOK /\ RowsGood /\ JobsGood /\ Single
    BY Parts
  <1>1. UNCHANGED <<event, active, job, copies>>
    BY DEF Save, world
  <1>2. chan' \in [Channel -> Config \cup {NoChannel}]
    <2>1. choice[1] \in BOOLEAN /\ choice[2] \in SUBSET Kind
      BY SettingsAssumption
    <2>2. Pausing(c) \in BOOLEAN
      <3>1. chan[c] \in Config \cup {NoChannel}
        BY <1>0 DEF TypeOK
      <3> QED
        BY <3>1 DEF Pausing, Config, NoChannel
    <2>3. [saved |-> TRUE, enabled |-> choice[1], wants |-> choice[2],
           blocked |-> FALSE, recent |-> Pausing(c)] \in Config
      BY <2>1, <2>2 DEF Config
    <2>4. chan \in [Channel -> Config \cup {NoChannel}]
      BY <1>0 DEF TypeOK
    <2> QED
      BY <2>3, <2>4 DEF Save, Configured
  <1>3. since' \in [Channel -> SUBSET Event] /\ \A d \in Channel : since'[d] \subseteq since[d]
    <2>1. since \in [Channel -> SUBSET Event] /\ since' = [since EXCEPT ![c] = {}]
      BY <1>0 DEF TypeOK, Save
    <2> QED
      BY <2>1
  <1>4. ASSUME NEW r \in Delivery PROVE row'[r] \in Row \cup {NoRow} /\ Moves(r)
    <2>1. row'[r] = IF r[1] = c THEN Resaved(row[r], other) ELSE row[r]
      BY DEF Save
    <2>2. row[r] \in Row \cup {NoRow} /\ RowOK(r)
      BY <1>0 DEF TypeOK, RowsGood
    <2>3. CASE row'[r] = row[r]
      BY <1>0, <2>2, <2>3, Untouched
    <2>4. CASE row[r].status = "pending" /\ row'[r] = Ended(row[r], "cancelled")
      BY <2>2, <2>4, EndedType DEF Moves, EndsHere, NoRow, Settled
    <2>5. CASE row[r].status = "sending" /\ row'[r] = [row[r] EXCEPT !.moved = @ \/ other]
      <3>1. row[r] \in Row
        BY <2>2, <2>5 DEF NoRow
      <3> DEFINE moved == row[r].moved \/ other
      <3>2. moved \in BOOLEAN /\ row'[r] = [row[r] EXCEPT !.moved = moved]
        BY <2>5
      <3> HIDE DEF moved
      <3>3. row'[r] \in Row /\ row'[r].status = "sending"
        BY <2>5, <3>1, <3>2 DEF Row
      <3> QED
        BY <2>2, <2>5, <3>1, <3>2, <3>3 DEF Moves, Alike, RowOK, Row, NoRow
    <2> QED
      BY <2>1, <2>3, <2>4, <2>5 DEF Resaved
  <1>5. TypeOK'
    <2>1. row' \in [Delivery -> Row \cup {NoRow}]
      BY <1>4 DEF Save
    <2> QED
      BY <1>0, <1>1, <1>2, <1>3, <2>1 DEF TypeOK
  <1> QED
    BY <1>1, <1>3, <1>4, <1>5, AllMove

LEMMA RemoveGood ==
    ASSUME PushInv, NEW c \in Channel, RemoveChannel(c)
    PROVE  PushInv'
  <1>0. TypeOK /\ RowsGood /\ JobsGood /\ Single
    BY Parts
  <1> DEFINE gone == {r \in Delivery : r[1] = c}
  <1>1. UNCHANGED <<event, active, copies>> /\ job' = Forgotten(gone)
    BY DEF RemoveChannel, world
  <1>2. chan' \in [Channel -> Config \cup {NoChannel}]
    BY <1>0 DEF TypeOK, RemoveChannel
  <1>3. since' \in [Channel -> SUBSET Event] /\ \A d \in Channel : since'[d] \subseteq since[d]
    <2>1. since \in [Channel -> SUBSET Event] /\ since' = [since EXCEPT ![c] = {}]
      BY <1>0 DEF TypeOK, RemoveChannel
    <2> QED
      BY <2>1
  <1>4. gone \in SUBSET Delivery
    OBVIOUS
  <1>5. \A r \in Delivery : row'[r] = IF r \in gone THEN NoRow ELSE row[r]
    BY DEF RemoveChannel
  <1> HIDE DEF gone
  <1>6. \A r \in gone : Forsaken(r)
    <2> SUFFICES ASSUME NEW r \in gone, NEW n \in Notifier, Held(n)'
                 PROVE  job'[n].row # r
      BY DEF Forsaken
    <2>1. job'[n].row \notin gone
      BY <1>0, <1>1, <1>4, ForgottenJobs DEF Held, Busy
    <2> QED
      BY <2>1
  <1>7. ASSUME NEW r \in Delivery PROVE Moves(r)
    <2>1. CASE r \in gone
      <3>1. since'[r[1]] = {}
        BY <1>0, <2>1, DeliveryType DEF RemoveChannel, TypeOK, gone
      <3>2. Once(r) /\ Ahead(r)' => Ahead(r) /\ row[r] = NoRow
        BY <1>0, <1>1, <3>1 DEF Ahead, RowsGood, AheadOK, Once
      <3> QED
        BY <1>5, <1>6, <2>1, <3>2 DEF Moves, Goes
    <2>2. CASE r \notin gone
      BY <1>0, <1>5, <2>2, Untouched
    <2> QED
      BY <2>1, <2>2
  <1>8. TypeOK'
    <2>1. row' \in [Delivery -> Row \cup {NoRow}]
      BY <1>0, <1>5 DEF TypeOK, RemoveChannel
    <2>2. job' \in [Notifier -> Job \cup {Idle}]
      <3>1. \A n \in Notifier : Forgotten(gone)[n] \in Job \cup {Idle}
        BY <1>0, <1>4, ForgottenJobs
      <3> QED
        BY <1>1, <3>1 DEF Forgotten
    <2> QED
      BY <1>0, <1>1, <1>2, <1>3, <2>1, <2>2 DEF TypeOK
  <1>9. \A n \in Notifier : \/ job'[n] = job[n]
                            \/ Busy(n) /\ job'[n] = [job[n] EXCEPT !.known = FALSE]
    BY <1>0, <1>1, <1>4, ForgottenJobs
  <1>10. \A n \in Notifier : Busy(n) =>
             job'[n].known \/ ~job[n].known \/ row'[job[n].row] = NoRow
    BY <1>0, <1>1, <1>5, BusyJob DEF Forgotten
  <1> QED
    BY <1>1, <1>3, <1>7, <1>8, <1>9, <1>10, AllMove

LEMMA QueueTestGood ==
    ASSUME PushInv, NEW c \in Channel, NEW e \in Event, QueueTest(c, e)
    PROVE  PushInv'
  <1>0. TypeOK /\ RowsGood /\ JobsGood /\ Single
    BY Parts
  <1> DEFINE t == <<c, e>>
  <1>1. t \in Delivery /\ t[2] = e /\ KindOf[e] = "test" /\ event[e] = "not yet"
    BY DEF QueueTest
  <1>2. /\ UNCHANGED <<chan, since, active, job, copies>>
        /\ event' = [event EXCEPT ![e] = "new"]
        /\ row' = [row EXCEPT ![t] = NewRow]
    BY DEF QueueTest, config
  <1> HIDE DEF t
  <1>3. NewRow \in Row /\ NewRow # NoRow
    BY AttemptsAssumption DEF NewRow, Row, NoRow, Waiting
  <1>4. TypeOK'
    <2>1. row' \in [Delivery -> Row \cup {NoRow}]
      BY <1>0, <1>1, <1>2, <1>3 DEF TypeOK
    <2>2. event' \in [Event -> {"not yet", "new", "old", "gone"}]
      BY <1>0, <1>2 DEF TypeOK
    <2> QED
      BY <1>0, <1>2, <2>1, <2>2 DEF TypeOK
  <1>5. /\ row[t] = NoRow /\ copies[t] = 0
        /\ \A n \in Notifier : Busy(n) => job[n].row # t
    BY <1>0, <1>1 DEF RowsGood, AheadOK, Ahead, Once
  <1>6. ASSUME NEW r \in Delivery
        PROVE  /\ RowOK(r)' /\ Untried(r)' /\ AheadOK(r)' /\ RowHonest(r)'
    <2>0. RowOK(r) /\ Untried(r) /\ AheadOK(r) /\ RowHonest(r) /\ r[2] \in Event
      BY <1>0, DeliveryType DEF RowsGood
    <2>1. CASE r = t
      <3>1. row'[r] = NewRow /\ event'[r[2]] = "new" /\ KindOf[r[2]] = "test"
        BY <1>0, <1>1, <1>2, <2>1 DEF TypeOK
      <3>2. RowOK(r)' /\ Untried(r)'
        BY <3>1, AttemptsAssumption DEF RowOK, Untried, NewRow, Run, Waiting
      <3>3. AheadOK(r)'
        BY <3>1 DEF AheadOK, Ahead, Run
      <3>4. RowHonest(r)'
        BY <1>2, <1>5, <2>1, <3>1 DEF RowHonest, NewRow, Busy
      <3> QED
        BY <3>2, <3>3, <3>4
    <2>2. CASE r # t
      <3>1. row'[r] = row[r]
        BY <1>0, <1>2, <2>2 DEF TypeOK
      <3>2. Run(r) => event'[r[2]] = event[r[2]]
        BY <1>0, <1>1, <1>2, <2>0 DEF TypeOK, Run
      <3>3. Ahead(r)' => Ahead(r)
        BY <1>0, <1>1, <1>2, <2>0, <3>1, <3>2 DEF Ahead, Run, TypeOK
      <3> QED
        BY <1>2, <2>0, <3>1, <3>2, <3>3 DEF RowOK, Untried, AheadOK, RowHonest, Run, Once, Busy
    <2> QED
      BY <2>1, <2>2
  <1>7. ASSUME NEW n \in Notifier PROVE JobOK(n)' /\ JobCopies(n)'
    <2>0. JobOK(n) /\ JobCopies(n) /\ (Busy(n) => job[n].row # t)
      BY <1>0, <1>5 DEF JobsGood
    <2>1. Busy(n) => row'[job[n].row] = row[job[n].row]
      <3>1. Busy(n) => job[n].row \in Delivery
        BY <1>0, BusyJob
      <3> QED
        BY <1>0, <1>2, <2>0, <3>1 DEF TypeOK
    <2> QED
      BY <1>2, <2>0, <2>1 DEF JobOK, JobCopies, Held, Busy, Once
  <1> QED
    BY <1>0, <1>2, <1>4, <1>6, <1>7 DEF PushInv, Single, Once
-----------------------------------------------------------------------------
(* Requests and answers.                                                   *)

\* The service is asked: only n's request and its count change.
LEMMA AnswersGood ==
    ASSUME PushInv, NEW n \in Notifier, Answers(n)
    PROVE  PushInv'
  <1>0. TypeOK /\ RowsGood /\ JobsGood /\ Single
    BY Parts
  <1> DEFINE t == job[n].row
  <1>1. PICK answer \in Answer : Accepts(n, answer) \/ Rejects(n, answer)
    BY DEF Answers
  <1>2. job[n].phase = "sending" /\ Busy(n)
    BY <1>1 DEF Accepts, Rejects, Busy
  <1>3. job[n] \in Job /\ t \in Delivery
    BY <1>0, <1>2, BusyJob
  <1>4. UNCHANGED <<chan, since, row, event, active>>
    BY <1>1 DEF Accepts, Rejects, config, queue, world
  <1>5. job' = [job EXCEPT ![n] = [job[n] EXCEPT !.phase = "answered", !.answer = answer]]
    BY <1>1, <1>3 DEF Accepts, Rejects, Job
  <1>6. \/ copies' = copies /\ answer # "accepted"
        \/ answer \in {"accepted", "unknown"} /\ copies' = Counted(t)
    BY <1>1 DEF Accepts, Rejects
  <1>7. copies \in [Delivery -> 0 .. 2] /\ job \in [Notifier -> Job \cup {Idle}]
    BY <1>0 DEF TypeOK
  <1>8. copies' \in [Delivery -> 0 .. 2] /\ \A r \in Delivery \ {t} : copies'[r] = copies[r]
    <2>1. Smaller(2, copies[t] + 1) \in 0 .. 2
      BY <1>3, <1>7 DEF Smaller
    <2> QED
      BY <1>6, <1>7, <2>1 DEF Counted
  <1>9. Once(t) => /\ copies[t] = 0
                   /\ copies'[t] = IF copies' = copies THEN 0 ELSE 1
                   /\ \A m \in Notifier \ {n} : Busy(m) => job[m].row # t
    <2>1. Once(t) => copies[t] = 0 /\ \A m \in Notifier \ {n} : Busy(m) => job[m].row # t
      BY <1>0, <1>2 DEF JobsGood, JobCopies
    <2>2. copies[t] = 0 /\ copies' = Counted(t) => copies'[t] = 1
      BY <1>3, <1>7 DEF Counted, Smaller
    <2> QED
      BY <1>6, <2>1, <2>2
  <1>10. /\ job'[n].row = t /\ job'[n].known = job[n].known /\ job'[n].moved = job[n].moved
         /\ job'[n].phase = "answered" /\ job'[n].answer = answer
         /\ job'[n] \in Job
         /\ \A m \in Notifier \ {n} : job'[m] = job[m]
    BY <1>3, <1>5, <1>7 DEF Job
  <1>11. TypeOK'
    <2>1. job' \in [Notifier -> Job \cup {Idle}]
      BY <1>5, <1>7, <1>10
    <2> QED
      BY <1>0, <1>4, <1>8, <2>1 DEF TypeOK
  <1> HIDE DEF t
  <1>12. \A m \in Notifier : /\ Busy(m)' <=> Busy(m)
                             /\ Held(m)' <=> Held(m)
                             /\ Busy(m) => job'[m].row = job[m].row
    BY <1>2, <1>10 DEF Busy, Held, t
  <1>13. ASSUME NEW r \in Delivery
         PROVE  RowOK(r)' /\ Untried(r)' /\ AheadOK(r)' /\ RowHonest(r)' /\ (Once(r) => copies'[r] <= 1)
    <2>0. RowOK(r) /\ Untried(r) /\ AheadOK(r) /\ RowHonest(r) /\ (Once(r) => copies[r] <= 1)
      BY <1>0 DEF RowsGood, Single
    <2>1. RowOK(r)' /\ Untried(r)'
      BY <1>4, <2>0 DEF RowOK, Untried, Run
    <2>2. CASE r # t
      BY <1>4, <1>8, <1>12, <2>0, <2>1, <2>2 DEF AheadOK, Ahead, RowHonest, Once, Run
    <2>3. CASE r = t
      <3>1. Once(r) => ~Ahead(r)
        BY <1>2, <2>0, <2>3 DEF AheadOK, t
      <3>2. AheadOK(r)'
        BY <1>4, <3>1 DEF AheadOK, Ahead, Once, Run
      <3>3. Once(r) /\ row[r] # NoRow => row[r].status \in {"sending", "unknown"}
        BY <1>0, <1>2, <2>3 DEF JobsGood, JobCopies, JobOK, Held, t
      <3> QED
        BY <1>4, <1>9, <2>1, <2>3, <3>2, <3>3 DEF RowHonest, Once
    <2> QED
      BY <2>2, <2>3
  <1>14. ASSUME NEW m \in Notifier PROVE JobOK(m)' /\ JobCopies(m)'
    <2>0. JobOK(m) /\ JobCopies(m)
      BY <1>0 DEF JobsGood
    <2>1. JobOK(m)'
      <3>1. Busy(m) => job'[m].moved = job[m].moved
        BY <1>10
      <3> QED
        BY <1>4, <1>12, <2>0, <3>1 DEF JobOK, Held
    <2>2. CASE m # n
      <3>1. Busy(m) => job[m].row \in Delivery /\ (Once(job[m].row) => job[m].row # t)
        BY <1>0, <1>9, <2>2, BusyJob
      <3>2. Busy(m) /\ Once(job[m].row) => copies'[job[m].row] = copies[job[m].row]
        BY <1>8, <3>1
      <3> QED
        BY <1>4, <1>10, <1>12, <2>0, <2>1, <2>2, <3>2 DEF JobCopies, Once
    <2>3. CASE m = n
      <3>1. ~job[n].known /\ Once(t) => row[t] = NoRow
        BY <1>0, <1>2, <2>3 DEF JobsGood, JobCopies, t
      <3>2. Once(t) => \A k \in Notifier \ {n} : Busy(k)' => job'[k].row # t
        BY <1>9, <1>12
      <3>3. Once(t) /\ answer = "accepted" => copies'[t] = 1
        BY <1>6, <1>9, <1>3, <1>7 DEF Counted, Smaller
      <3>4. Once(t) /\ answer \notin {"accepted", "unknown"} => copies'[t] = 0
        BY <1>6, <1>9
      <3> QED
        BY <1>4, <1>10, <2>1, <2>3, <3>1, <3>2, <3>3, <3>4 DEF JobCopies, Once
    <2> QED
      BY <2>2, <2>3
  <1> QED
    BY <1>11, <1>13, <1>14 DEF PushInv, Once

LEMMA DiesGood ==
    ASSUME PushInv, NEW n \in Notifier, Dies(n) \/ LosesLock(n)
    PROVE  PushInv'
  <1>0. TypeOK /\ RowsGood /\ JobsGood /\ Single
    BY Parts
  <1>1. UNCHANGED <<chan, since, row, event, active, copies>> /\ Busy(n)
    BY DEF Dies, LosesLock, config, queue, world
  <1>2. job[n] \in Job /\ job \in [Notifier -> Job \cup {Idle}]
    BY <1>0, <1>1, BusyJob DEF TypeOK
  <1>3. job' = [job EXCEPT ![n] = Idle] \/ job' = [job EXCEPT ![n] = [job[n] EXCEPT !.holds = FALSE]]
    BY <1>2 DEF Dies, LosesLock, Job
  <1>4. TypeOK'
    <2>1. [job[n] EXCEPT !.holds = FALSE] \in Job
      BY <1>2 DEF Job
    <2>2. job' \in [Notifier -> Job \cup {Idle}]
      BY <1>2, <1>3, <2>1
    <2> QED
      BY <1>0, <1>1, <2>2 DEF TypeOK
  <1>5. ASSUME NEW m \in Notifier
        PROVE  \/ job'[m] = job[m]
               \/ m = n /\ (job'[m] = Idle \/ job'[m] = [job[n] EXCEPT !.holds = FALSE])
    <2>1. CASE job' = [job EXCEPT ![n] = Idle]
      BY <1>2, <2>1
    <2>2. CASE job' = [job EXCEPT ![n] = [job[n] EXCEPT !.holds = FALSE]]
      BY <1>2, <2>2
    <2> QED
      BY <1>3, <2>1, <2>2
  <1>6. ASSUME NEW m \in Notifier, Busy(m)'
        PROVE  /\ Busy(m)
               /\ job'[m].row = job[m].row /\ job'[m].known = job[m].known
               /\ job'[m].moved = job[m].moved /\ job'[m].phase = job[m].phase
               /\ job'[m].answer = job[m].answer
    <2>1. job'[m] # Idle
      BY <1>6 DEF Busy, Idle
    <2> QED
      BY <1>1, <1>2, <1>5, <1>6, <2>1 DEF Busy, Job
  <1>7. ASSUME NEW r \in Delivery
        PROVE  RowOK(r)' /\ Untried(r)' /\ AheadOK(r)' /\ RowHonest(r)'
    <2>0. RowOK(r) /\ Untried(r) /\ AheadOK(r) /\ RowHonest(r)
      BY <1>0 DEF RowsGood
    <2>1. RowOK(r)' /\ Untried(r)'
      BY <1>1, <2>0 DEF RowOK, Untried, Run
    <2>2. AheadOK(r)'
      BY <1>1, <1>6, <2>0 DEF AheadOK, Ahead, Run, Once
    <2>3. RowHonest(r)'
      BY <1>1, <1>6, <2>0 DEF RowHonest, Once
    <2> QED
      BY <2>1, <2>2, <2>3
  <1>8. ASSUME NEW m \in Notifier PROVE JobOK(m)' /\ JobCopies(m)'
    <2>1. JobOK(m) /\ JobCopies(m)
      BY <1>0 DEF JobsGood
    <2>2. JobOK(m)'
      BY <1>1, <1>6, <2>1 DEF JobOK, Held
    <2>3. JobCopies(m)'
      BY <1>1, <1>6, <2>1 DEF JobCopies, Once
    <2> QED
      BY <2>2, <2>3
  <1> QED
    BY <1>0, <1>1, <1>4, <1>7, <1>8 DEF PushInv, Single, Once
LEMMA CompleteGood ==
    ASSUME PushInv, NEW n \in Notifier, Complete(n)
    PROVE  PushInv'
  <1>0. TypeOK /\ RowsGood /\ JobsGood /\ Single
    BY Parts
  <1> DEFINE answer == job[n].answer
  <1>1. Busy(n) /\ job[n].phase = "answered"
    BY DEF Complete, Busy
  <1>2. PICK t \in Delivery : t = job[n].row /\ job[n] \in Job
    BY <1>0, <1>1, BusyJob
  <1>3. UNCHANGED <<since, event, active, copies>> /\ job' = [job EXCEPT ![n] = Idle]
    BY DEF Complete, world
  <1>4. job \in [Notifier -> Job \cup {Idle}] /\ row \in [Delivery -> Row \cup {NoRow}]
    BY <1>0 DEF TypeOK
  <1>5. job'[n] = Idle /\ \A m \in Notifier \ {n} : job'[m] = job[m]
    BY <1>3, <1>4
  <1>6. ~Busy(n)' /\ ~Held(n)'
    BY <1>5 DEF Busy, Held, Idle
  <1>7. \/ ~Applies(n) /\ row' = row
        \/ Applies(n) /\ row' = [row EXCEPT ![t] = Outcome(row[t], answer)]
    BY <1>2 DEF Complete
  <1>8. JobOK(n) /\ JobCopies(n) /\ RowOK(t) /\ AheadOK(t) /\ RowHonest(t)
    BY <1>0, <1>2 DEF RowsGood, JobsGood
  <1>9. ASSUME Applies(n)
        PROVE  /\ row[t] \in Row /\ row[t].status = "sending" /\ job[n].known
               /\ \/ row'[t] = Ended(row[t], "accepted") /\ answer = "accepted"
                  \/ row'[t] = Ended(row[t], "unknown")
                  \/ row'[t] = Ended(row[t], "failed") /\ answer \notin {"accepted", "unknown"}
                  \/ /\ row'[t] = [row[t] EXCEPT !.status = "pending", !.overdue = FALSE]
                     /\ row[t].attempts < MaxAttempts
                     /\ answer \notin {"accepted", "unknown"}
    <2>1. job[n].known /\ row[t].status = "sending"
      BY <1>2, <1>9 DEF Applies
    <2>2. row[t] \in Row
      BY <1>2, <1>4, <2>1 DEF NoRow
    <2>3. row'[t] = Outcome(row[t], answer)
      BY <1>2, <1>4, <1>7, <1>9
    <2> HIDE DEF answer
    <2>4. CASE answer = "accepted"
      BY <2>1, <2>2, <2>3, <2>4 DEF Outcome
    <2>5. CASE answer = "unknown"
      BY <2>1, <2>2, <2>3, <2>5 DEF Outcome
    <2>6. CASE answer = "retry" /\ row[t].attempts < MaxAttempts
      BY <2>1, <2>2, <2>3, <2>6 DEF Outcome
    <2>7. CASE answer \notin {"accepted", "unknown"} /\ ~(answer = "retry" /\ row[t].attempts < MaxAttempts)
      <3>1. Outcome(row[t], answer) = Ended(row[t], "failed")
        BY <2>7 DEF Outcome
      <3> QED
        BY <2>1, <2>2, <2>3, <2>7, <3>1
    <2> QED
      BY <2>4, <2>5, <2>6, <2>7
  <1> HIDE DEF answer
  <1>10. row' \in [Delivery -> Row \cup {NoRow}]
    <2>1. ASSUME Applies(n) PROVE row'[t] \in Row
      <3>1. \A status \in Settled : Ended(row[t], status) \in Row
        BY <1>9, <2>1, EndedType
      <3>2. [row[t] EXCEPT !.status = "pending", !.overdue = FALSE] \in Row
        BY <1>9, <2>1 DEF Row, Waiting
      <3>3. {"accepted", "unknown", "failed"} \subseteq Settled
        BY DEF Settled
      <3> QED
        BY <1>9, <2>1, <3>1, <3>2, <3>3
    <2> QED
      BY <1>2, <1>4, <1>7, <2>1
  <1>11. chan' \in [Channel -> Config \cup {NoChannel}]
    <2>1. CASE chan' = chan
      BY <1>0, <2>1 DEF TypeOK
    <2>2. CASE chan' # chan
      <3>1. PICK blocked : chan' = [c \in Channel |-> IF chan[c].saved /\ c \in blocked
                                          THEN [chan[c] EXCEPT !.blocked = TRUE] ELSE chan[c]]
        BY <2>2 DEF Complete
      <3>2. ASSUME NEW c \in Channel, chan[c].saved
            PROVE  [chan[c] EXCEPT !.blocked = TRUE] \in Config
        <4>0. chan[c] \in Config \cup {NoChannel}
          BY <1>0 DEF TypeOK
        <4>1. chan[c] \in Config
          BY <3>2, <4>0 DEF NoChannel
        <4> QED
          BY <4>1 DEF Config
      <3>3. chan \in [Channel -> Config \cup {NoChannel}]
        BY <1>0 DEF TypeOK
      <3> QED
        BY <3>1, <3>2, <3>3
    <2> QED
      BY <2>1, <2>2
  <1>12. TypeOK'
    <2>1. job' \in [Notifier -> Job \cup {Idle}]
      BY <1>3, <1>4
    <2> QED
      BY <1>0, <1>3, <1>10, <1>11, <2>1 DEF TypeOK
  <1> DEFINE R0 == IF Applies(n) THEN {t} ELSE {}
  <1>13. R0 \in SUBSET Delivery /\ {n} \in SUBSET Notifier
    BY <1>2
  <1>14. \A r \in Delivery \ R0 : Moves(r) /\ copies'[r] = copies[r]
    <2>1. \A r \in Delivery \ R0 : row'[r] = row[r]
      BY <1>4, <1>7
    <2> QED
      BY <1>0, <1>3, <2>1, Untouched
  <1>15. \A m \in Notifier \ {n} :
            Busy(m) /\ (Once(job[m].row) \/ Held(m)') => job[m].row \notin R0
    <2> SUFFICES ASSUME NEW m \in Notifier \ {n}, Busy(m), Once(job[m].row) \/ Held(m)', Applies(n)
                 PROVE  job[m].row # t
      OBVIOUS
    <2>1. Held(n)
      BY <1>1 DEF Held, Applies
    <2>2. CASE Once(job[m].row)
      BY <1>1, <1>2, <1>8, <2>2 DEF JobCopies
    <2>3. CASE Held(m)'
      <3>1. Held(m)
        BY <1>5, <2>3 DEF Held, Busy
      <3> QED
        BY <1>2, <1>8, <2>1, <3>1 DEF JobOK
    <2> QED
      BY <2>2, <2>3
  <1> HIDE DEF R0
  <1>16. /\ \A c \in Channel : since'[c] \subseteq since[c]
         /\ \A m \in Notifier \ {n} : \/ job'[m] = job[m]
                                      \/ Busy(m) /\ job'[m] = [job[m] EXCEPT !.known = FALSE]
                                      \/ Busy(m) /\ job'[m] = [job[m] EXCEPT !.holds = FALSE]
         /\ \A m \in Notifier \ {n} : Busy(m) /\ Once(job[m].row) =>
                job'[m].known \/ ~job[m].known \/ row'[job[m].row] = NoRow
         /\ \A m \in {n} : Busy(m)' => job'[m].row \in R0
    BY <1>3, <1>5, <1>6
  <1>17. /\ \A r \in Delivery \ R0 : /\ RowOK(r)' /\ Untried(r)' /\ AheadOK(r)'
                                     /\ RowHonest(r)' /\ (Once(r) => copies'[r] <= 1)
         /\ \A m \in Notifier \ {n} : JobOK(m)' /\ JobCopies(m)'
    BY <1>0, <1>3, <1>13, <1>14, <1>15, <1>16, Others
  <1>18. JobOK(n)' /\ JobCopies(n)'
    BY <1>6 DEF JobOK, JobCopies
  <1>19. ASSUME Applies(n)
         PROVE  RowOK(t)' /\ Untried(t)' /\ AheadOK(t)' /\ RowHonest(t)' /\ (Once(t) => copies'[t] <= 1)
    <2>1. /\ row[t] \in Row /\ row[t] # NoRow /\ row[t].status = "sending"
          /\ row'[t] \in Row /\ row'[t] # NoRow
          /\ row'[t].attempts = row[t].attempts /\ row'[t].age = row[t].age
          /\ row'[t].status \in {"accepted", "unknown", "failed", "pending"}
          /\ row'[t].body <=> row'[t].status = "pending"
          /\ row'[t].status = "accepted" => answer = "accepted"
          /\ row'[t].status \in {"failed", "pending"} => answer \notin {"accepted", "unknown"}
          /\ row'[t].status = "pending" => row[t].attempts < MaxAttempts
      <3>1. row[t] # NoRow /\ row[t] \in Row /\ row[t].status = "sending" /\ row[t].body
        BY <1>8, <1>9, <1>19 DEF RowOK, NoRow, Waiting
      <3>2. CASE row'[t] = [row[t] EXCEPT !.status = "pending", !.overdue = FALSE]
        <4>1. row'[t] \in Row
          BY <3>1, <3>2 DEF Row, Waiting
        <4>2. /\ row'[t].status = "pending" /\ row'[t].attempts = row[t].attempts
              /\ row'[t].age = row[t].age /\ row'[t].body
          BY <3>1, <3>2 DEF Row
        <4>3. row[t].attempts < MaxAttempts /\ answer \notin {"accepted", "unknown"}
          BY <1>9, <1>19, <3>1, <3>2, <4>2 DEF Ended, Row
        <4> QED
          BY <3>1, <4>1, <4>2, <4>3 DEF NoRow
      <3>3. CASE \/ row'[t] = Ended(row[t], "accepted") /\ answer = "accepted"
                 \/ row'[t] = Ended(row[t], "unknown")
                 \/ row'[t] = Ended(row[t], "failed") /\ answer \notin {"accepted", "unknown"}
        BY <3>1, <3>3, EndedType DEF Settled
      <3> QED
        BY <1>9, <1>19, <3>2, <3>3
    <2>2. RowOK(t)' /\ Untried(t)'
      <3>1. row[t].attempts \in Nat /\ row[t].attempts > 0
        BY <1>8, <2>1 DEF RowOK, Row
      <3>2. Run(t) /\ row[t].age > 0 => event[t[2]] # "new"
        BY <1>8, <2>1 DEF RowOK
      <3>3. RowOK(t)'
        BY <1>3, <2>1, <3>1, <3>2 DEF RowOK, Run, Waiting
      <3>4. Untried(t)'
        BY <2>1, <3>1 DEF Untried
      <3> QED
        BY <3>3, <3>4
    <2>3. AheadOK(t)'
      BY <1>3, <1>8, <2>1 DEF AheadOK, Ahead, Once, Run
    <2>4. Once(t) => copies'[t] <= 1 /\ \A m \in Notifier : Busy(m)' => job'[m].row # t
      <3>1. Once(t) => \A m \in Notifier \ {n} : Busy(m) => job[m].row # t
        BY <1>1, <1>2, <1>8 DEF JobCopies
      <3>2. Once(t) => copies[t] <= 1
        BY <1>0, <1>2 DEF Single
      <3> QED
        BY <1>3, <1>5, <1>6, <3>1, <3>2 DEF Busy
    <2>5. Once(t) => /\ answer = "accepted" => copies[t] = 1
                     /\ answer \notin {"accepted", "unknown"} => copies[t] = 0
      BY <1>1, <1>2, <1>8 DEF JobCopies, answer
    <2>6. RowHonest(t)'
      BY <1>3, <2>1, <2>4, <2>5 DEF RowHonest, Once
    <2> QED
      BY <2>2, <2>3, <2>4, <2>6
  <1> QED
    BY <1>12, <1>17, <1>18, <1>19 DEF PushInv, R0, Once
-----------------------------------------------------------------------------
(* The notifier's cycle: retention, collection, sweep, then the claim.     *)

LEMMA NewRowType == NewRow \in Row /\ NewRow # NoRow /\ NewRow.status = "pending"
                    /\ NewRow.body /\ NewRow.attempts = 0 /\ NewRow.age = 0 /\ ~NewRow.moved
  BY AttemptsAssumption DEF NewRow, Row, NoRow, Waiting

\* What is collected is asked for, is news, and was never reported.
LEMMA NewsAreNew ==
    ASSUME TypeOK, RowsGood, NEW r \in News(Kept)
    PROVE  /\ event[r[2]] = "new" /\ r[2] \in since[r[1]] /\ KindOf[r[2]] # "test"
           /\ row[r] = NoRow \/ r \in Outdated
           /\ Once(r) => row[r] = NoRow
  <1>1. r \in Delivery /\ r[1] \in Channel /\ r[2] \in Event
    BY DeliveryType DEF News
  <1>2. Listens(r[1]) /\ KindOf[r[2]] \in chan[r[1]].wants
    BY DEF News
  <1>3. KindOf[r[2]] \in Kind
    <2>1. chan[r[1]] \in Config \cup {NoChannel} /\ chan[r[1]].saved
      BY <1>1, <1>2 DEF TypeOK, Listens
    <2>2. chan[r[1]] \in Config
      BY <2>1 DEF NoChannel
    <2>3. chan[r[1]].wants \subseteq Kind
      BY <2>2 DEF Config
    <2> QED
      BY <1>2, <2>3
  <1>4. event[r[2]] = "new" /\ r[2] \in since[r[1]] /\ Kept[r] = NoRow
    BY DEF News
  <1>5. row[r] = NoRow \/ r \in Outdated
    BY <1>1, <1>4 DEF Kept
  <1>6. Once(r) => Run(r)
    BY <1>3 DEF Once, Run, Kind
  <1>7. Run(r) => r \notin Outdated
    <2> SUFFICES ASSUME Run(r), r \in Outdated PROVE FALSE
      OBVIOUS
    <2>1. RowOK(r) /\ row[r] # NoRow /\ row[r].age = 2
      BY <1>1 DEF Outdated, RowsGood, NoRow, Settled
    <2> QED
      BY <1>4, <2>1 DEF RowOK
  <1> QED
    BY <1>3, <1>4, <1>5, <1>6, <1>7 DEF Kind

LEMMA SweptRows ==
    ASSUME TypeOK, RowsGood, NEW r \in Delivery
    PROVE  LET S == Swept(Collected) IN
           /\ S[r] \in Row \cup {NoRow}
           /\ \/ r \in News(Kept) /\ S[r] = NewRow
              \/ r \notin News(Kept) /\ r \in Outdated /\ S[r] = NoRow
              \/ r \notin News(Kept) /\ r \notin Outdated /\ S[r] = row[r]
              \/ /\ r \notin News(Kept) /\ r \notin Outdated
                 /\ row[r].status = "sending" /\ S[r] = Ended(row[r], "unknown")
  <1> DEFINE S == Swept(Collected)
  <1>0. row[r] \in Row \cup {NoRow}
    BY DEF TypeOK
  <1>1. S[r] = IF Collected[r].status = "sending" /\ Collected[r].overdue
               THEN Ended(Collected[r], "unknown") ELSE Collected[r]
    BY DEF Swept
  <1>2. CASE r \in News(Kept)
    <2>1. Collected[r] = NewRow
      BY <1>2 DEF Collected
    <2> QED
      BY <1>1, <1>2, <2>1, NewRowType
  <1>3. CASE r \notin News(Kept) /\ r \in Outdated
    <2>1. Collected[r] = NoRow
      BY <1>3 DEF Collected, Kept
    <2> QED
      BY <1>1, <1>3, <2>1 DEF NoRow
  <1>4. CASE r \notin News(Kept) /\ r \notin Outdated
    <2>1. Collected[r] = row[r]
      BY <1>4 DEF Collected, Kept
    <2>2. CASE row[r].status = "sending" /\ row[r].overdue
      <3>1. row[r] \in Row
        BY <1>0, <2>2 DEF NoRow
      <3>2. Ended(row[r], "unknown") \in Row
        BY <3>1, EndedType DEF Settled
      <3> QED
        BY <1>1, <1>4, <2>1, <2>2, <3>2
    <2>3. CASE ~(row[r].status = "sending" /\ row[r].overdue)
      BY <1>0, <1>1, <1>4, <2>1, <2>3
    <2> QED
      BY <2>2, <2>3
  <1> QED
    BY <1>2, <1>3, <1>4

CycleRow(r) ==
    LET S == Swept(Collected) IN
    row'[r] = S[r] \/ (S[r].status = "pending" /\ row'[r] = Ended(S[r], "cancelled"))

\* A row the cycle does not claim moves, and an outdated run or test is gone.
LEMMA CycleMoves ==
    ASSUME TypeOK, RowsGood, JobsGood, NEW r \in Delivery, CycleRow(r),
           event' = event, since' = since,
           r \in Outdated => Forsaken(r),
           \A n \in Notifier : Held(n)' => (Held(n) /\ job'[n].row = job[n].row) \/ job'[n].row # r
    PROVE  /\ row'[r] \in Row \cup {NoRow}
           /\ Moves(r)
           /\ Once(r) /\ r \in Outdated => row'[r] = NoRow
  <1> DEFINE S == Swept(Collected)
  <1>1. /\ S[r] \in Row \cup {NoRow}
        /\ \/ r \in News(Kept) /\ S[r] = NewRow
           \/ r \notin News(Kept) /\ r \in Outdated /\ S[r] = NoRow
           \/ r \notin News(Kept) /\ r \notin Outdated /\ S[r] = row[r]
           \/ /\ r \notin News(Kept) /\ r \notin Outdated
              /\ row[r].status = "sending" /\ S[r] = Ended(row[r], "unknown")
    BY SweptRows
  <1>2. row'[r] = S[r] \/ (S[r].status = "pending" /\ row'[r] = Ended(S[r], "cancelled"))
    BY DEF CycleRow
  <1> HIDE DEF S
  <1>3. row'[r] \in Row \cup {NoRow}
    <2>1. S[r].status = "pending" => S[r] \in Row
      BY <1>1 DEF NoRow
    <2>2. S[r].status = "pending" => Ended(S[r], "cancelled") \in Row
      BY <2>1, EndedType DEF Settled
    <2> QED
      BY <1>1, <1>2, <2>2
  <1>4. RowOK(r) /\ AheadOK(r) /\ row[r] \in Row \cup {NoRow}
    BY DEF RowsGood, TypeOK
  <1>5. CASE r \in News(Kept)
    <2>1. S[r] = NewRow
      BY <1>1, <1>5
    <2>2. /\ row'[r] # NoRow /\ row'[r].status \in {"pending", "cancelled"}
          /\ row'[r].body <=> row'[r].status = "pending"
          /\ row'[r].attempts = 0 /\ ~row'[r].moved /\ row'[r].age = 0
      <3>1. CASE row'[r] = NewRow
        BY <3>1, NewRowType
      <3>2. CASE row'[r] = Ended(NewRow, "cancelled")
        BY <3>2 DEF Ended, NewRow, NoRow
      <3> QED
        BY <1>2, <2>1, <3>1, <3>2
    <2>3. Forsaken(r)
      <3>1. CASE r \in Outdated
        BY <3>1
      <3>2. CASE row[r] = NoRow
        BY <3>2 DEF Forsaken, JobsGood, JobOK
      <3> QED
        BY <1>5, <3>1, <3>2, NewsAreNew
    <2>4. Comes(r) /\ (Once(r) => row[r] = NoRow)
      BY <1>5, <2>2, <2>3, NewsAreNew DEF Comes
    <2> QED
      BY <1>3, <2>4 DEF Moves, Outdated, NoRow, Settled
  <1>6. CASE r \notin News(Kept) /\ r \in Outdated
    <2>1. row'[r] = NoRow
      BY <1>1, <1>2, <1>6 DEF NoRow
    <2>2. row[r] # NoRow /\ row[r].age = 2
      BY <1>6 DEF Outdated, NoRow, Settled
    <2>3. Once(r) => event[r[2]] # "not yet"
      BY <1>4, <2>2 DEF Ahead, AheadOK
    <2>4. Run(r) => event[r[2]] # "new"
      BY <1>4, <2>2 DEF RowOK
    <2>5. Once(r) => ~Ahead(r)'
      BY <2>3, <2>4 DEF Ahead, Run
    <2> QED
      BY <1>3, <1>6, <2>1, <2>5 DEF Moves, Goes
  <1>7. CASE r \notin News(Kept) /\ r \notin Outdated
    <2>1. CASE row'[r] = row[r]
      BY <1>3, <1>7, <2>1, Untouched
    <2>2. CASE row[r].status = "sending" /\ row'[r] = Ended(row[r], "unknown")
      <3>1. row[r] \in Row /\ row[r] # NoRow
        BY <1>4, <2>2 DEF NoRow
      <3> QED
        BY <1>3, <1>7, <2>2, <3>1, EndedType DEF Moves, EndsHere, Settled
    <2>3. CASE row[r].status = "pending" /\ row'[r] = Ended(row[r], "cancelled")
      <3>1. row[r] \in Row /\ row[r] # NoRow
        BY <1>4, <2>3 DEF NoRow
      <3> QED
        BY <1>3, <1>7, <2>3, <3>1, EndedType DEF Moves, EndsHere, Settled
    <2>4. row[r].status = "sending" /\ S[r] = Ended(row[r], "unknown") => S[r].status # "pending"
      BY DEF Ended
    <2> QED
      BY <1>1, <1>2, <1>7, <2>1, <2>2, <2>3, <2>4
  <1> QED
    BY <1>5, <1>6, <1>7

\* What every cycle makes of the requests that are out.
LEMMA CycleForgets ==
    ASSUME TypeOK, RowsGood, JobsGood, NEW n \in Notifier
    PROVE  LET f == Forgotten(Outdated)[n] IN
           /\ f \in Job \cup {Idle}
           /\ f = job[n] \/ (Busy(n) /\ f = [job[n] EXCEPT !.known = FALSE])
           /\ f.phase # "idle" /\ f.known =>
                  f = job[n] /\ job[n].row \notin Outdated
           /\ Busy(n) => f.known \/ ~job[n].known \/ job[n].row \in Outdated
  <1>1. Outdated \in SUBSET Delivery
    BY DEF Outdated
  <1>2. Busy(n) => \/ Forgotten(Outdated)[n].known \/ ~job[n].known
                   \/ job[n].row \in Outdated
    BY DEF Forgotten
  <1>3. /\ Forgotten(Outdated)[n] \in Job \cup {Idle}
        /\ \/ Forgotten(Outdated)[n] = job[n]
           \/ Busy(n) /\ Forgotten(Outdated)[n] = [job[n] EXCEPT !.known = FALSE]
        /\ Forgotten(Outdated)[n].phase # "idle" /\ Forgotten(Outdated)[n].known =>
               Forgotten(Outdated)[n].row \notin Outdated /\ Forgotten(Outdated)[n] = job[n]
    BY <1>1, ForgottenJobs
  <1> HIDE DEF Outdated, Forgotten
  <1> QED
    BY <1>2, <1>3

LEMMA CycleIdleGood ==
    ASSUME PushInv, NEW n \in Notifier, CycleIdle(n)
    PROVE  PushInv'
  <1>0. TypeOK /\ RowsGood /\ JobsGood /\ Single
    BY Parts
  <1>1. /\ UNCHANGED <<chan, since, event, active, copies>>
        /\ job' = Forgotten(Outdated)
    BY DEF CycleIdle, config, world
  <1>2. PICK unfit : row' = Dropped(Swept(Collected), unfit)
    BY DEF CycleIdle
  <1>3. \A m \in Notifier : /\ job'[m] \in Job \cup {Idle}
                            /\ \/ job'[m] = job[m]
                               \/ Busy(m) /\ job'[m] = [job[m] EXCEPT !.known = FALSE]
                            /\ Held(m)' => job'[m] = job[m] /\ job[m].row \notin Outdated
                            /\ Busy(m) => \/ job'[m].known \/ ~job[m].known
                                          \/ job[m].row \in Outdated
    BY <1>0, <1>1, CycleForgets DEF Held, Busy
  <1>4. ASSUME NEW r \in Delivery
        PROVE  /\ row'[r] \in Row \cup {NoRow}
               /\ Moves(r)
               /\ Once(r) /\ r \in Outdated => row'[r] = NoRow
    <2>1. CycleRow(r)
      <3>1. row'[r] = IF r \in unfit /\ Swept(Collected)[r].status = "pending"
                      THEN Ended(Swept(Collected)[r], "cancelled") ELSE Swept(Collected)[r]
        BY <1>2, Zenon DEF Dropped
      <3> QED
        BY <3>1, Zenon DEF CycleRow
    <2>2. r \in Outdated => Forsaken(r)
      BY <1>3 DEF Forsaken
    <2>3. \A m \in Notifier : Held(m)' => (Held(m) /\ job'[m].row = job[m].row) \/ job'[m].row # r
      BY <1>3 DEF Held, Busy
    <2> QED
      BY <1>0, <1>1, <2>1, <2>2, <2>3, CycleMoves
  <1>5. TypeOK'
    <2>1. row' \in [Delivery -> Row \cup {NoRow}]
      BY <1>2, <1>4 DEF Dropped
    <2>2. job' \in [Notifier -> Job \cup {Idle}]
      BY <1>1, <1>3 DEF Forgotten
    <2> QED
      BY <1>0, <1>1, <2>1, <2>2 DEF TypeOK
  <1>6. \A m \in Notifier : Busy(m) /\ Once(job[m].row) =>
            job'[m].known \/ ~job[m].known \/ row'[job[m].row] = NoRow
    BY <1>0, <1>3, <1>4, BusyJob
  <1> QED
    BY <1>1, <1>3, <1>4, <1>5, <1>6, AllMove

\* The delivery a cycle claims: what is known of it before.
LEMMA ClaimedRow ==
    ASSUME TypeOK, RowsGood, JobsGood, Single, NEW t \in Delivery,
           Swept(Collected)[t].status = "pending"
    PROVE  LET d == Swept(Collected)[t] IN
           /\ d \in Row
           /\ d.attempts < MaxAttempts /\ (d.attempts = 0 => ~d.moved) /\ d.body
           /\ Run(t) /\ d.age > 0 => event[t[2]] # "new"
           /\ \/ t \in News(Kept)
              \/ t \notin Outdated /\ d = row[t] /\ row[t].status = "pending"
           /\ \A n \in Notifier : Held(n) => job[n].row # t \/ t \in Outdated
           /\ Once(t) => /\ copies[t] = 0
                         /\ t \notin Outdated
                         /\ event[t[2]] # "not yet"
                         /\ \A n \in Notifier : Busy(n) => job[n].row # t
  <1> DEFINE d == Swept(Collected)[t]
  <1>1. /\ d \in Row \cup {NoRow}
        /\ \/ t \in News(Kept) /\ d = NewRow
           \/ t \notin News(Kept) /\ t \in Outdated /\ d = NoRow
           \/ t \notin News(Kept) /\ t \notin Outdated /\ d = row[t]
           \/ /\ t \notin News(Kept) /\ t \notin Outdated
              /\ row[t].status = "sending" /\ d = Ended(row[t], "unknown")
    BY SweptRows
  <1>2. d.status = "pending"
    OBVIOUS
  <1> HIDE DEF d
  <1>3. d \in Row
    BY <1>1, <1>2 DEF NoRow
  <1>4. RowOK(t) /\ Untried(t) /\ AheadOK(t) /\ RowHonest(t) /\ row[t] \in Row \cup {NoRow}
    BY DEF RowsGood, TypeOK
  <1>5. d # Ended(row[t], "unknown") \/ row[t].status # "sending"
    <2>1. row[t].status = "sending" => row[t] \in Row
      BY <1>4 DEF NoRow
    <2>2. row[t].status = "sending" => Ended(row[t], "unknown").status = "unknown"
      BY <2>1, EndedType DEF Settled
    <2> QED
      BY <1>2, <2>2
  <1>6. CASE t \in News(Kept)
    <2>1. d = NewRow
      BY <1>1, <1>6
    <2>2. /\ event[t[2]] = "new" /\ t[2] \in since[t[1]] /\ KindOf[t[2]] # "test"
          /\ row[t] = NoRow \/ t \in Outdated
          /\ Once(t) => row[t] = NoRow
      BY <1>6, NewsAreNew
    <2>3. Once(t) => Ahead(t)
      BY <2>2, DeliveryType, KindAssumption DEF Ahead, Once, Run, Kind
    <2>4. \A n \in Notifier : Held(n) => job[n].row # t \/ t \in Outdated
      BY <2>2 DEF JobsGood, JobOK
    <2>5. Once(t) => t \notin Outdated
      BY <2>2 DEF Outdated, NoRow, Settled
    <2>6. Once(t) => copies[t] = 0 /\ \A n \in Notifier : Busy(n) => job[n].row # t
      BY <1>4, <2>3 DEF AheadOK
    <2>7. d.attempts < MaxAttempts /\ (d.attempts = 0 => ~d.moved) /\ d.body /\ d.age = 0
      BY <2>1, NewRowType
    <2> QED
      BY <1>3, <1>6, <2>2, <2>4, <2>5, <2>6, <2>7 DEF d
  <1>7. CASE t \notin News(Kept)
    <2>1. t \notin Outdated /\ d = row[t]
      BY <1>1, <1>2, <1>5, <1>7 DEF NoRow
    <2>2. row[t] # NoRow /\ row[t].status = "pending"
      BY <1>2, <2>1 DEF NoRow
    <2>3. /\ d.attempts < MaxAttempts /\ (d.attempts = 0 => ~d.moved) /\ d.body
          /\ Run(t) /\ d.age > 0 => event[t[2]] # "new"
      BY <1>4, <2>1, <2>2 DEF RowOK, Untried, Waiting
    <2>4. Once(t) => copies[t] = 0 /\ \A n \in Notifier : Busy(n) => job[n].row # t
      BY <1>4, <2>2 DEF RowHonest
    <2>5. \A n \in Notifier : Held(n) => job[n].row # t
      BY <2>2 DEF JobsGood, JobOK
    <2>6. Once(t) => event[t[2]] # "not yet"
      BY <1>4, <2>2 DEF AheadOK, Ahead
    <2> QED
      BY <1>3, <2>1, <2>2, <2>3, <2>4, <2>5, <2>6 DEF d
  <1> QED
    BY <1>6, <1>7

\* A cycle that claims: the delivery, the candidates before it that it drops, and
\* whether its token and text can be read.
LEMMA Claim ==
    ASSUME NEW n \in Notifier, CycleClaims(n)
    PROVE  \E t \in Delivery, readable \in BOOLEAN : \E unfit :
            /\ Listens(t[1])
            /\ Swept(Collected)[t].status = "pending"
            /\ t \notin unfit
            /\ LET tried == Claimed(Dropped(Swept(Collected), unfit), t) IN
               row' = IF readable THEN tried
                      ELSE [tried EXCEPT ![t] = Ended(tried[t], "failed")]
            /\ chan' = [chan EXCEPT ![t[1]].recent = TRUE]
            /\ job' = IF readable
                      THEN [Forgotten(Outdated) EXCEPT ![n] =
                              [phase |-> "sending", row |-> t, moved |-> Swept(Collected)[t].moved,
                               known |-> TRUE, holds |-> TRUE, answer |-> "none"]]
                      ELSE Forgotten(Outdated)
  <1>1. PICK t \in Delivery, new \in SetToSeqs(News(Kept)), readable \in BOOLEAN :
          \E k \in 1 .. Smaller(Limit, Len(due \o new)) :
            /\ (due \o new)[k] = t
            /\ Swept(Collected)[t].status = "pending"
            /\ Fit(Swept(Collected), t) /\ ~Paused(t)
            /\ NoneFree(Swept(Collected), due \o new, k - 1)
            /\ row' = IF readable
                      THEN Claimed(Dropped(Swept(Collected),
                                           Unfit(Swept(Collected), due \o new, k - 1)), t)
                      ELSE [Claimed(Dropped(Swept(Collected),
                                            Unfit(Swept(Collected), due \o new, k - 1)), t)
                            EXCEPT ![t] = Ended(Claimed(Dropped(Swept(Collected),
                                Unfit(Swept(Collected), due \o new, k - 1)), t)[t], "failed")]
            /\ due' = SelectSeq(due \o new, LAMBDA q : row'[q].status = "pending")
            /\ chan' = [chan EXCEPT ![t[1]].recent = TRUE]
            /\ job' = IF readable
                      THEN [Forgotten(Outdated) EXCEPT ![n] =
                              [phase |-> "sending", row |-> t, moved |-> Swept(Collected)[t].moved,
                               known |-> TRUE, holds |-> TRUE, answer |-> "none"]]
                      ELSE Forgotten(Outdated)
    BY DEF CycleClaims
  <1>2. PICK unfit :
            /\ t \notin unfit
            /\ LET tried == Claimed(Dropped(Swept(Collected), unfit), t) IN
               row' = IF readable THEN tried
                      ELSE [tried EXCEPT ![t] = Ended(tried[t], "failed")]
    <2>1. PICK k : LET rows == Swept(Collected)
                       line == due \o new IN
            /\ Fit(rows, t)
            /\ LET tried == Claimed(Dropped(rows, Unfit(rows, line, k - 1)), t) IN
               row' = IF readable THEN tried
                      ELSE [tried EXCEPT ![t] = Ended(tried[t], "failed")]
      BY <1>1, Zenon
    <2>2. t \notin Unfit(Swept(Collected), due \o new, k - 1)
      BY <2>1 DEF Unfit
    <2> QED
      BY <2>1, <2>2, Zenon
  <1>3. Listens(t[1])
    BY <1>1 DEF Fit, Allowed
  <1> QED
    BY <1>1, <1>2, <1>3, Zenon

LEMMA CycleClaimsGood ==
    ASSUME PushInv, NEW n \in Notifier, CycleClaims(n)
    PROVE  PushInv'
  <1>0. TypeOK /\ RowsGood /\ JobsGood /\ Single
    BY Parts
  <1>1. PICK t \in Delivery, readable \in BOOLEAN : \E unfit :
            /\ Listens(t[1])
            /\ Swept(Collected)[t].status = "pending"
            /\ t \notin unfit
            /\ LET tried == Claimed(Dropped(Swept(Collected), unfit), t) IN
               row' = IF readable THEN tried
                      ELSE [tried EXCEPT ![t] = Ended(tried[t], "failed")]
            /\ chan' = [chan EXCEPT ![t[1]].recent = TRUE]
            /\ job' = IF readable
                      THEN [Forgotten(Outdated) EXCEPT ![n] =
                              [phase |-> "sending", row |-> t, moved |-> Swept(Collected)[t].moved,
                               known |-> TRUE, holds |-> TRUE, answer |-> "none"]]
                      ELSE Forgotten(Outdated)
    BY Claim
  <1>pick. PICK unfit : LET tried == Claimed(Dropped(Swept(Collected), unfit), t) IN
                   /\ t \notin unfit
                   /\ row' = IF readable THEN tried
                             ELSE [tried EXCEPT ![t] = Ended(tried[t], "failed")]
    BY <1>1, Zenon
  <1>2. UNCHANGED <<since, event, active, copies>> /\ ~Busy(n)
    BY DEF CycleClaims, world
  <1>3. PICK d : d = Swept(Collected)[t]
    OBVIOUS
  <1>4. /\ d \in Row
        /\ d.attempts < MaxAttempts /\ (d.attempts = 0 => ~d.moved) /\ d.body
        /\ Run(t) /\ d.age > 0 => event[t[2]] # "new"
        /\ \A m \in Notifier : Held(m) => job[m].row # t \/ t \in Outdated
        /\ Once(t) => /\ copies[t] = 0
                      /\ t \notin Outdated
                      /\ event[t[2]] # "not yet"
                      /\ \A m \in Notifier : Busy(m) => job[m].row # t
    BY <1>0, <1>1, <1>3, ClaimedRow
  <1>typed. d \in Row
    BY <1>4
  <1>less. d.attempts < MaxAttempts
    BY <1>4
  <1>count. d.attempts \in Nat /\ d.attempts \in 0 .. MaxAttempts
    <2>1. d.attempts \in 0 .. MaxAttempts
      BY <1>typed DEF Row
    <2> QED
      BY <2>1, AttemptsAssumption
  <1>fresh. d.attempts = 0 => ~d.moved
    BY <1>4
  <1>text. d.body
    BY <1>4
  <1>young. Run(t) /\ d.age > 0 => event[t[2]] # "new"
    BY <1>4
  <1>free. \A m \in Notifier : Held(m) => job[m].row # t \/ t \in Outdated
    BY <1>4
  <1>once. Once(t) => /\ copies[t] = 0
                     /\ t \notin Outdated
                     /\ event[t[2]] # "not yet"
                     /\ \A m \in Notifier : Busy(m) => job[m].row # t
    BY <1>4
  <1> DEFINE trial == [d EXCEPT !.status = "sending", !.attempts = @ + 1]
  <1>5. /\ trial \in Row /\ trial.status = "sending" /\ trial.attempts = d.attempts + 1
        /\ trial.body /\ trial.age = d.age
    <2>1. d.attempts + 1 \in 0 .. MaxAttempts
      BY <1>less, <1>count, AttemptsAssumption
    <2>2. "sending" \in Waiting \cup Settled
      BY DEF Waiting
    <2> QED
      BY <1>typed, <1>text, <2>1, <2>2 DEF Row
  <1>6. /\ row'[t] = IF readable THEN trial ELSE Ended(trial, "failed")
        /\ \A q \in Delivery \ {t} : CycleRow(q)
        /\ row' = [q \in Delivery |-> row'[q]]
    <2> DEFINE S == Swept(Collected)
               D == Dropped(S, unfit)
    <2>1. D = [q \in Delivery |-> IF q \in unfit /\ S[q].status = "pending"
                                  THEN Ended(S[q], "cancelled") ELSE S[q]]
      BY DEF Dropped
    <2>2. row' = IF readable THEN [D EXCEPT ![t].status = "sending", ![t].attempts = @ + 1]
                 ELSE [[D EXCEPT ![t].status = "sending", ![t].attempts = @ + 1] EXCEPT
                          ![t] = Ended([D EXCEPT ![t].status = "sending", ![t].attempts = @ + 1][t],
                                       "failed")]
      BY <1>pick DEF Claimed
    <2>3. S[t] = d /\ t \notin unfit
      BY <1>3, <1>pick
    <2>4. \A q \in Delivery \ {t} : row'[q] = S[q] \/ (S[q].status = "pending" /\ row'[q] = Ended(S[q], "cancelled"))
            => CycleRow(q)
      BY Zenon DEF CycleRow
    <2> HIDE DEF S
    <2>5. D[t] = d
      BY <2>1, <2>3
    <2>6. [D EXCEPT ![t].status = "sending", ![t].attempts = @ + 1] = [D EXCEPT ![t] = trial]
      BY <1>typed, <2>1, <2>5 DEF Row
    <2> HIDE DEF trial
    <2>7. row' = [D EXCEPT ![t] = IF readable THEN trial ELSE Ended(trial, "failed")]
      BY <2>1, <2>2, <2>6
    <2> QED
      BY <2>1, <2>4, <2>7
  <1> HIDE DEF trial
  <1>7. row'[t] \in Row /\ row'[t] # NoRow
    BY <1>5, <1>6, EndedType DEF Settled, Row, NoRow
  <1>10. ASSUME NEW m \in Notifier \ {n}
         PROVE  /\ job'[m] \in Job \cup {Idle}
                /\ \/ job'[m] = job[m]
                   \/ Busy(m) /\ job'[m] = [job[m] EXCEPT !.known = FALSE]
                /\ Held(m)' => job'[m] = job[m] /\ job[m].row \notin Outdated /\ Held(m)
                /\ Busy(m) => job'[m].known \/ ~job[m].known \/ job[m].row \in Outdated
    <2>1. job'[m] = Forgotten(Outdated)[m]
      BY <1>1 DEF Forgotten
    <2> QED
      BY <1>0, <2>1, CycleForgets DEF Held, Busy
  <1>11. /\ readable => job'[n] = [phase |-> "sending", row |-> t, moved |-> d.moved,
                                  known |-> TRUE, holds |-> TRUE, answer |-> "none"]
         /\ ~readable => job'[n] = job[n] /\ ~Busy(n)'
    <2>1. Forgotten(Outdated)[n] = job[n]
      BY <1>2 DEF Forgotten
    <2> QED
      BY <1>1, <1>2, <1>3, <2>1 DEF Forgotten, Busy
  <1>12. ASSUME NEW q \in Delivery \ {t}
         PROVE  /\ row'[q] \in Row \cup {NoRow}
                /\ Moves(q)
                /\ Once(q) /\ q \in Outdated => row'[q] = NoRow
    <2>1. \A m \in Notifier : Held(m)' => job'[m].row = t \/ (Held(m) /\ job'[m] = job[m] /\ job[m].row \notin Outdated)
      <3> SUFFICES ASSUME NEW m \in Notifier, Held(m)', job'[m].row # t
                   PROVE  Held(m) /\ job'[m] = job[m] /\ job[m].row \notin Outdated
        OBVIOUS
      <3>1. m # n
        BY <1>11 DEF Held
      <3> QED
        BY <1>10, <3>1
    <2>2. q \in Outdated => Forsaken(q)
      BY <2>1 DEF Forsaken
    <2>3. \A m \in Notifier : Held(m)' => (Held(m) /\ job'[m].row = job[m].row) \/ job'[m].row # q
      BY <2>1
    <2> QED
      BY <1>0, <1>2, <1>6, <2>2, <2>3, CycleMoves
  <1>13. TypeOK'
    <2>1. row' \in [Delivery -> Row \cup {NoRow}]
      <3>1. \A q \in Delivery : row'[q] \in Row \cup {NoRow}
        BY <1>7, <1>12
      <3> QED
        BY <1>6, <3>1
    <2>2. job' \in [Notifier -> Job \cup {Idle}]
      <3>1. job'[n] \in Job \cup {Idle}
        <4>1. CASE readable
          <5>1. d.moved \in BOOLEAN
            BY <1>typed DEF Row
          <5>2. job'[n] = [phase |-> "sending", row |-> t, moved |-> d.moved,
                           known |-> TRUE, holds |-> TRUE, answer |-> "none"]
            BY <1>11, <4>1
          <5> QED
            BY <5>1, <5>2 DEF Job
        <4>2. CASE ~readable
          BY <1>0, <1>11, <4>2 DEF TypeOK
        <4> QED
          BY <4>1, <4>2
      <3>2. job' = [m \in Notifier |-> job'[m]]
        BY <1>1 DEF Forgotten
      <3> QED
        BY <1>10, <3>1, <3>2
    <2>3. chan' \in [Channel -> Config \cup {NoChannel}]
      <3>1. chan[t[1]] \in Config \cup {NoChannel} /\ chan[t[1]].saved
        BY <1>0, <1>1, DeliveryType DEF TypeOK, Listens
      <3>2. chan[t[1]] \in Config
        BY <3>1 DEF NoChannel
      <3>3. [chan[t[1]] EXCEPT !.recent = TRUE] \in Config
        BY <3>2 DEF Config
      <3>4. chan \in [Channel -> Config \cup {NoChannel}]
        BY <1>0 DEF TypeOK
      <3> QED
        BY <1>1, <3>3, <3>4
    <2> QED
      BY <1>0, <1>2, <2>1, <2>2, <2>3 DEF TypeOK
  <1>14. /\ {t} \in SUBSET Delivery /\ {n} \in SUBSET Notifier
         /\ \A c \in Channel : since'[c] \subseteq since[c]
         /\ \A q \in Delivery \ {t} : Moves(q) /\ copies'[q] = copies[q]
    BY <1>2, <1>12
  <1>15. ASSUME NEW m \in Notifier \ {n}, Busy(m)
         PROVE  /\ Once(job[m].row) \/ Held(m)' => job[m].row # t
                /\ Once(job[m].row) =>
                       job'[m].known \/ ~job[m].known \/ row'[job[m].row] = NoRow
    <2>1. Once(job[m].row) => job[m].row # t
      BY <1>once, <1>15
    <2>2. Held(m)' => job[m].row # t
      BY <1>free, <1>10
    <2>3. job[m].row \in Delivery
      BY <1>0, <1>15, BusyJob
    <2> QED
      BY <1>10, <1>12, <1>15, <2>1, <2>2, <2>3
  <1>16. /\ \A m \in Notifier \ {n} : \/ job'[m] = job[m]
                                      \/ Busy(m) /\ job'[m] = [job[m] EXCEPT !.known = FALSE]
                                      \/ Busy(m) /\ job'[m] = [job[m] EXCEPT !.holds = FALSE]
         /\ \A m \in Notifier \ {n} : Busy(m) /\ Once(job[m].row) =>
                job'[m].known \/ ~job[m].known \/ row'[job[m].row] = NoRow
         /\ \A m \in {n} : Busy(m)' => job'[m].row \in {t}
         /\ \A m \in Notifier \ {n} :
                Busy(m) /\ (Once(job[m].row) \/ Held(m)') => job[m].row \notin {t}
    BY <1>10, <1>11, <1>15
  <1>17. /\ \A r \in Delivery \ {t} : /\ RowOK(r)' /\ Untried(r)' /\ AheadOK(r)'
                                      /\ RowHonest(r)' /\ (Once(r) => copies'[r] <= 1)
         /\ \A m \in Notifier \ {n} : JobOK(m)' /\ JobCopies(m)'
    BY <1>0, <1>2, <1>14, <1>16, Others
  <1>18. RowOK(t)' /\ Untried(t)' /\ AheadOK(t)' /\ RowHonest(t)' /\ (Once(t) => copies'[t] <= 1)
    <2>2. /\ row'[t].status \in {"sending", "failed"}
          /\ row'[t].body <=> row'[t].status = "sending"
          /\ row'[t].age = d.age /\ row'[t].attempts = d.attempts + 1
      BY <1>5, <1>6, EndedType DEF Settled
    <2>1. row'[t].attempts > 0
      BY <1>count, <2>2
    <2>3. RowOK(t)'
      BY <1>2, <1>young, <2>1, <2>2 DEF RowOK, Run, Waiting
    <2>4. Untried(t)'
      BY <2>2 DEF Untried
    <2>5. AheadOK(t)'
      BY <1>2, <1>7, <1>once DEF AheadOK, Ahead, Once
    <2>6. RowHonest(t)' /\ (Once(t) => copies'[t] <= 1)
      <3>1. Once(t) => copies'[t] = 0
        BY <1>2, <1>once
      <3> QED
        BY <2>2, <3>1 DEF RowHonest, Once
    <2> QED
      BY <2>3, <2>4, <2>5, <2>6
  <1>19. JobOK(n)' /\ JobCopies(n)'
    <2>1. CASE ~readable
      BY <1>11, <2>1 DEF JobOK, JobCopies, Held
    <2>2. CASE readable
      <3>1. row'[t] = trial /\ trial # NoRow
        BY <1>6, <1>7, <2>2
      <3>2. row'[t].attempts = 1 => d.attempts = 0
        BY <1>5, <1>count, <3>1
      <3>3. row'[t].attempts = 1 => ~d.moved
        BY <1>fresh, <3>2
      <3>4. /\ job'[n].row = t /\ (job'[n].moved <=> d.moved) /\ job'[n].known
            /\ job'[n].phase = "sending" /\ job'[n].answer = "none"
        BY <1>11, <2>2
      <3>5. \A m \in Notifier \ {n} : Held(m)' => job'[m].row # t
        BY <1>free, <1>10
      <3>6. JobOK(n)'
        BY <1>5, <3>1, <3>3, <3>4, <3>5 DEF JobOK
      <3>7. \A m \in Notifier \ {n} : Busy(m)' /\ Once(t) => job'[m].row # t
        <4> SUFFICES ASSUME NEW m \in Notifier \ {n}, Busy(m)', Once(t) PROVE job'[m].row # t
          OBVIOUS
        <4>1. Busy(m) /\ job'[m].row = job[m].row
          <5>1. CASE job'[m] = job[m]
            BY <5>1 DEF Busy
          <5>2. CASE Busy(m) /\ job'[m] = [job[m] EXCEPT !.known = FALSE]
            <6>1. job[m] \in Job
              BY <1>0, <5>2, BusyJob
            <6> QED
              BY <5>2, <6>1 DEF Job
          <5> QED
            BY <1>10, <5>1, <5>2
        <4> QED
          BY <1>once, <4>1
      <3>8. JobCopies(n)'
        BY <1>2, <1>once, <3>4, <3>7 DEF JobCopies, Once
      <3> QED
        BY <3>6, <3>8
    <2> QED
      BY <2>1, <2>2
  <1> QED
    BY <1>13, <1>17, <1>18, <1>19 DEF PushInv, Once
-----------------------------------------------------------------------------
(* The theorems.                                                           *)

LEMMA StepGood == PushInv /\ [Next]_vars => PushInv'
  <1> SUFFICES ASSUME PushInv, [Next]_vars PROVE PushInv'
    OBVIOUS
  <1>1. CASE UNCHANGED vars
    <2>0. TypeOK /\ RowsGood
      BY Parts
    <2>1. UNCHANGED <<chan, since, row, event, active, job, copies>>
      BY <1>1 DEF vars, config, queue, world
    <2>2. TypeOK'
      BY <2>0, <2>1 DEF TypeOK
    <2>3. \A r \in Delivery : Moves(r)
      BY <2>0, <2>1, Untouched
    <2> QED
      BY <2>1, <2>2, <2>3, AllMove
  <1>2. CASE Owners
    BY <1>2, SaveGood, QueueTestGood, RemoveGood DEF Owners
  <1>3. CASE Around
    BY <1>3, WorldGood DEF Around
  <1>4. CASE Clock
    BY <1>4, ClockGood
  <1>5. CASE Notifiers
    BY <1>5, CycleIdleGood, CycleClaimsGood, AnswersGood, CompleteGood, DiesGood
       DEF Notifiers, Cycle
  <1> QED
    BY <1>1, <1>2, <1>3, <1>4, <1>5 DEF Next

\* PushInv: rows, requests and what the service has agree in every reachable state,
\* whichever notifier dies and whatever the owner saves or removes meanwhile.
THEOREM PushInductive == Spec => []PushInv
  BY InitGood, StepGood, PTL DEF Spec

\* NotTwice: a finished run or a test reaches a channel's recipient at most once.
THEOREM NeverTwice == Spec => []NotTwice
  <1>1. PushInv => NotTwice
    BY DEF PushInv, NotTwice
  <1> QED
    BY <1>1, PushInductive, PTL

\* HonestOutcome: what the owner reads of a delivery's outcome is true.
THEOREM OutcomesHonest == Spec => []HonestOutcome
  <1>1. PushInv => HonestOutcome
    BY RowTypes DEF PushInv, RowHonest, HonestOutcome
  <1> QED
    BY <1>1, PushInductive, PTL

\* FirstTryStays: a first request goes to the recipient it was queued for.
THEOREM FirstTriesStay == Spec => []FirstTryStays
  <1>1. PushInv => FirstTryStays
    BY DEF PushInv, JobOK, FirstTryStays
  <1> QED
    BY <1>1, PushInductive, PTL

\* BodyErased: the text is kept exactly as long as it may be needed.
THEOREM BodiesErased == Spec => []BodyErased
  <1>1. PushInv => BodyErased
    BY DEF PushInv, RowOK, BodyErased
  <1> QED
    BY <1>1, PushInductive, PTL

\* A row that is settled: no step but its deletion changes its status.
LEMMA StepSettled ==
    ASSUME PushInv, [Next]_vars, NEW r \in Delivery, row[r].status \in Settled, r \notin Outdated
    PROVE  row'[r] = NoRow \/ row'[r].status = row[r].status
  <1>0. TypeOK /\ RowsGood /\ JobsGood /\ Single
    BY Parts
  <1>1. /\ row \in [Delivery -> Row \cup {NoRow}] /\ row[r] # NoRow /\ row[r] \in Row
        /\ row[r].status \notin {"none", "pending", "sending"}
    BY <1>0, RowTypes DEF TypeOK, Settled
  <1>2. CASE row' = row
    BY <1>2
  <1>3. CASE Owners
    <2>1. CASE \E c \in Channel, other \in BOOLEAN, choice \in Settings : Save(c, other, choice)
      <3>1. PICK c \in Channel, other \in BOOLEAN, choice \in Settings : Save(c, other, choice)
        BY <2>1
      <3>2. row'[r] = IF r[1] = c THEN Resaved(row[r], other) ELSE row[r]
        BY <3>1 DEF Save
      <3>3. Resaved(row[r], other) = row[r]
        BY <1>1 DEF Resaved
      <3> QED
        BY <3>2, <3>3
    <2>2. CASE \E c \in Channel, e \in Event : QueueTest(c, e)
      <3>1. PICK c \in Channel, e \in Event : QueueTest(c, e)
        BY <2>2
      <3>2. PICK t \in Delivery : t = <<c, e>>
        BY <3>1 DEF QueueTest
      <3>3. event[t[2]] = "not yet" /\ Once(t) /\ row' = [row EXCEPT ![t] = NewRow]
        BY <3>1, <3>2 DEF QueueTest, Once
      <3>4. t # r
        BY <1>0, <1>1, <3>3 DEF RowsGood, AheadOK, Ahead
      <3> QED
        BY <1>1, <3>3, <3>4
    <2>3. CASE \E c \in Channel : RemoveChannel(c)
      BY <2>3 DEF RemoveChannel
    <2> QED
      BY <1>3, <2>1, <2>2, <2>3 DEF Owners
  <1>4. CASE Clock
    <2>1. CASE \E q \in Delivery : RowAges(q)
      <3>1. PICK q \in Delivery : RowAges(q)
        BY <2>1
      <3>2. row' = [row EXCEPT ![q].age = row[q].age + 1]
        BY <3>1 DEF RowAges
      <3> QED
        BY <1>1, <3>2 DEF Row
    <2>2. CASE \E q \in Delivery : ClaimOverdue(q)
      <3>1. PICK q \in Delivery : row[q].status = "sending" /\ row' = [row EXCEPT ![q].overdue = TRUE]
        BY <2>2 DEF ClaimOverdue
      <3> QED
        BY <1>1, <3>1
    <2> QED
      BY <1>2, <1>4, <2>1, <2>2 DEF Clock, BecomesDue, PauseOver, queue
  <1>5. CASE \E n \in Notifier : Cycle(n)
    <2>0. r \notin News(Kept)
      BY <1>1, NewsAreNew, <1>0
    <2>1. Swept(Collected)[r] = row[r]
      BY <1>0, <1>1, <2>0, SweptRows
    <2>2. CASE \E n \in Notifier : CycleIdle(n)
      <3>1. PICK unfit : row' = Dropped(Swept(Collected), unfit)
        BY <2>2 DEF CycleIdle
      <3>2. row'[r] = IF r \in unfit /\ Swept(Collected)[r].status = "pending"
                      THEN Ended(Swept(Collected)[r], "cancelled") ELSE Swept(Collected)[r]
        BY <3>1, Zenon DEF Dropped
      <3> QED
        BY <1>1, <2>1, <3>2
    <2>3. CASE \E n \in Notifier : CycleClaims(n)
      <3>1. PICK n \in Notifier : CycleClaims(n)
        BY <2>3
      <3>2. PICK t \in Delivery, readable \in BOOLEAN : \E unfit :
                /\ Swept(Collected)[t].status = "pending"
                /\ LET tried == Claimed(Dropped(Swept(Collected), unfit), t) IN
                   row' = IF readable THEN tried
                          ELSE [tried EXCEPT ![t] = Ended(tried[t], "failed")]
        BY <3>1, Claim
      <3>3. PICK unfit :
                LET tried == Claimed(Dropped(Swept(Collected), unfit), t) IN
                row' = IF readable THEN tried
                       ELSE [tried EXCEPT ![t] = Ended(tried[t], "failed")]
        BY <3>2, Zenon
      <3>4. t # r
        BY <1>1, <2>1, <3>2
      <3>5. row'[r] = Dropped(Swept(Collected), unfit)[r]
        BY <3>3, <3>4 DEF Claimed, Dropped
      <3>6. row'[r] = IF r \in unfit /\ Swept(Collected)[r].status = "pending"
                      THEN Ended(Swept(Collected)[r], "cancelled") ELSE Swept(Collected)[r]
        BY <3>5, Zenon DEF Dropped
      <3> QED
        BY <1>1, <2>1, <3>6
    <2> QED
      BY <1>5, <2>2, <2>3 DEF Cycle
  <1>6. CASE \E n \in Notifier : Complete(n)
    <2>1. PICK n \in Notifier : Complete(n)
      BY <1>6
    <2>2. CASE Applies(n)
      <3>1. Busy(n)
        BY <2>1 DEF Complete, Busy
      <3>2. PICK t \in Delivery : t = job[n].row
        BY <1>0, <3>1, BusyJob
      <3>3. row' = [row EXCEPT ![t] = Outcome(row[t], job[n].answer)] /\ row[t].status = "sending"
        BY <2>1, <2>2, <3>2 DEF Complete, Applies
      <3> QED
        BY <1>1, <3>3
    <2>3. CASE ~Applies(n)
      BY <1>2, <2>1, <2>3 DEF Complete
    <2> QED
      BY <2>2, <2>3
  <1> QED
    BY <1>2, <1>3, <1>4, <1>5, <1>6 DEF Next, Around, Notifiers, Answers, Happens, Vanishes, GrowsOld,
       Toggle, Accepts, Rejects, Dies, LosesLock, vars, queue

\* SettledStays: an outcome once shown is not changed by late answers, saves or sweeps.
THEOREM SettledNeverChanges == Spec => SettledStays
  <1>1. PushInv /\ [Next]_vars =>
            [\A r \in Delivery : row[r].status \in Settled =>
               \/ row'[r] = NoRow \/ r \in Outdated
               \/ row'[r].status = row[r].status]_vars
    BY StepSettled
  <1> QED
    BY <1>1, PushInductive, PTL DEF Spec, SettledStays
=============================================================================
