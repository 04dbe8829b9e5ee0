----------------------------- MODULE PushQueue -----------------------------
(***************************************************************************)
(* Notifications through PushPlus: a user configures a channel (WeChat, QQ)*)
(* in the console, and the notifier collects finished runs and expired     *)
(* logins into a queue of deliveries, claims one at a time, posts it, and  *)
(* records the answer (push_notifications.py, push_notifier.py).  The      *)
(* service has no idempotency key: a request whose answer was lost may     *)
(* have been accepted.                                                     *)
(*                                                                         *)
(* Every session_scope is one transaction under a global lock, so one step.*)
(* Time is qualitative: a delivery is due or not, a claim is overdue or    *)
(* not, a row is fresh, over a day or over thirty days old.                *)
(***************************************************************************)
EXTENDS Naturals, Sequences, SequencesExt

CONSTANTS
    Notifier,       \* processes of run_loop, on any host
    Channel,        \* a user's WeChat or QQ configuration
    Event,          \* runs that finish, logins that expire, tests (a bound)
    User,
    OwnerOf,        \* the user of a channel
    UserOf,         \* the user an event concerns
    KindOf,         \* "success", "failure", "login" or "test"
    Settings,        \* boxes of the form: whether enabled, and for what (a bound)
    MaxAttempts,    \* 4 in complete
    Limit           \* candidates read by a claim, 100 in claim

Kind == {"success", "failure", "login"}
Delivery == {r \in Channel \X Event : OwnerOf[r[1]] = UserOf[r[2]]}

ASSUME OwnerAssumption == OwnerOf \in [Channel -> User] /\ UserOf \in [Event -> User]
ASSUME KindAssumption == KindOf \in [Event -> Kind \cup {"test"}]
ASSUME SettingsAssumption == Settings \subseteq BOOLEAN \X SUBSET Kind
ASSUME AttemptsAssumption == MaxAttempts \in Nat \ {0} /\ Limit \in Nat \ {0}

VARIABLES
    chan,       \* PushChannel
    since,      \* events of a channel's owner since its enabled_since
    row,        \* PushDelivery
    due,        \* pending deliveries whose next_attempt_at has come, in that order
    event,      \* what became of each event
    active,     \* users whose status is active
    job,        \* each notifier's request
    copies      \* observation: requests the service accepted, counted to two

config == <<chan, since>>
queue == <<row, due>>
world == <<event, active>>
vars == <<config, queue, world, job, copies>>

Waiting == {"pending", "sending"}
Settled == {"accepted", "failed", "unknown", "cancelled"}
NoChannel == [saved |-> FALSE]
Config == [saved : {TRUE}, enabled : BOOLEAN, wants : SUBSET Kind,
           blocked : BOOLEAN, recent : BOOLEAN]

NoRow == [status |-> "none"]
\* age: 0 fresh, 1 over a day, 2 over thirty days; overdue: claimed more than
\* five minutes ago; to: observation, the recipient configured when it was queued.
Row == [status : Waiting \cup Settled, attempts : 0 .. MaxAttempts, age : 0 .. 2,
        overdue : BOOLEAN, body : BOOLEAN, moved : BOOLEAN]
NewRow == [status |-> "pending", attempts |-> 0, age |-> 0, overdue |-> FALSE,
           body |-> TRUE, moved |-> FALSE]

Ended(d, status) == [d EXCEPT !.status = status, !.overdue = FALSE, !.body = FALSE]

Idle == [phase |-> "idle"]
Answer == {"accepted", "unknown", "retry", "refused"}
\* known: the claimed row has not been deleted; holds: NOTIFIER_LOCK.
Job == [phase : {"sending", "answered"}, row : Delivery, moved : BOOLEAN,
        known : BOOLEAN, holds : BOOLEAN, answer : Answer \cup {"none"}]

Init ==
    /\ chan = [c \in Channel |-> NoChannel]
    /\ since = [c \in Channel |-> {}]
    /\ row = [r \in Delivery |-> NoRow]
    /\ due = << >>
    /\ event = [e \in Event |-> "not yet"]
    /\ active = User
    /\ job = [n \in Notifier |-> Idle]
    /\ copies = [r \in Delivery |-> 0]

Busy(n) == job[n].phase # "idle"

\* Deliveries are ordered by next_attempt_at, the order in which they became due.
StillDue == SelectSeq(due, LAMBDA r : row'[r].status = "pending")

\* What jobs know once some rows are deleted.
Forgotten(gone) ==
    [n \in Notifier |-> IF Busy(n) /\ job[n].row \in gone
                        THEN [job[n] EXCEPT !.known = FALSE] ELSE job[n]]

-----------------------------------------------------------------------------
(* The owner, in the console.                                              *)

\* last_attempt_at is less than thirty seconds ago.
Pausing(c) == chan[c].saved /\ chan[c].recent


Configured(c, choice) ==
    [chan EXCEPT ![c] = [saved |-> TRUE, enabled |-> choice[1], wants |-> choice[2],
                         blocked |-> FALSE, recent |-> Pausing(c)]]

\* What a save makes of the channel's deliveries: what waits is cancelled.
Resaved(d, other) ==
    CASE d.status = "pending" -> Ended(d, "cancelled")
      [] d.status = "sending" -> [d EXCEPT !.moved = @ \/ other]
      [] OTHER -> d

\* save, with the recipient so far or another; earlier events are not caught up on.
Save(c, other, choice) ==
    /\ OwnerOf[c] \in active
    /\ chan' = Configured(c, choice)
    /\ since' = [since EXCEPT ![c] = {}]
    /\ row' = [r \in Delivery |-> IF r[1] = c THEN Resaved(row[r], other) ELSE row[r]]
    /\ due' = StillDue
    /\ UNCHANGED <<world, job, copies>>

Listens(c) == chan[c].saved /\ chan[c].enabled /\ ~chan[c].blocked

\* queue_test; its limit of one test a minute only delays a test.
QueueTest(c, e) ==
    /\ <<c, e>> \in Delivery
    /\ KindOf[e] = "test"
    /\ event[e] = "not yet"
    /\ OwnerOf[c] \in active /\ Listens(c)
    /\ event' = [event EXCEPT ![e] = "new"]
    /\ row' = [row EXCEPT ![<<c, e>>] = NewRow]
    /\ due' = Append(due, <<c, e>>)
    /\ UNCHANGED <<config, active, job, copies>>

\* remove: the channel and its deliveries are deleted.
RemoveChannel(c) ==
    /\ OwnerOf[c] \in active
    /\ chan[c].saved
    /\ chan' = [chan EXCEPT ![c] = NoChannel]
    /\ since' = [since EXCEPT ![c] = {}]
    /\ row' = [r \in Delivery |-> IF r[1] = c THEN NoRow ELSE row[r]]
    /\ due' = StillDue
    /\ job' = Forgotten({r \in Delivery : r[1] = c})
    /\ UNCHANGED <<world, copies>>

-----------------------------------------------------------------------------
(* The rest of the console: runs, accounts, users.                         *)

\* A run finishes, or a login is found expired.
Happens(e) ==
    /\ event[e] = "not yet"
    /\ KindOf[e] \in Kind
    /\ event' = [event EXCEPT ![e] = "new"]
    /\ since' = [c \in Channel |-> IF chan[c].saved /\ OwnerOf[c] = UserOf[e]
                                   THEN since[c] \cup {e} ELSE since[c]]
    /\ UNCHANGED <<chan, queue, active, job, copies>>

\* The task is deleted, or the account is bound again.
Vanishes(e) ==
    /\ event[e] \in {"new", "old"}
    /\ KindOf[e] \in Kind
    /\ event' = [event EXCEPT ![e] = "gone"]
    /\ UNCHANGED <<config, queue, active, job, copies>>

Toggle(u) ==
    /\ active' = IF u \in active THEN active \ {u} ELSE active \cup {u}
    /\ UNCHANGED <<config, queue, event, job, copies>>

-----------------------------------------------------------------------------
(* Time.                                                                   *)


\* A finished run is news for a day; an expired login until it is renewed.
GrowsOld(e) ==
    /\ event[e] = "new"
    /\ KindOf[e] \in {"success", "failure"}
    /\ event' = [event EXCEPT ![e] = "old"]
    /\ UNCHANGED <<config, queue, active, job, copies>>

\* A row is younger than the run it reports; claims, retries and pauses take
\* less than a day; thirty days matter to settled rows only.
RowAges(r) ==
    /\ row[r].status # "none"
    /\ row[r].age < IF row[r].status \in Waiting THEN 1 ELSE 2
    /\ row[r].status = "sending" => row[r].overdue
    /\ row[r].status = "pending" => r \in Range(due)
    /\ KindOf[r[2]] \in {"success", "failure"} => event[r[2]] # "new"
    /\ row' = [row EXCEPT ![r].age = @ + 1]
    /\ UNCHANGED <<config, due, world, job, copies>>

BecomesDue(r) ==
    /\ row[r].status = "pending"
    /\ r \notin Range(due)
    /\ due' = Append(due, r)
    /\ UNCHANGED <<config, row, world, job, copies>>

ClaimOverdue(r) ==
    /\ row[r].status = "sending"
    /\ ~row[r].overdue
    /\ row' = [row EXCEPT ![r].overdue = TRUE]
    /\ UNCHANGED <<config, due, world, job, copies>>

PauseOver(c) ==
    /\ Pausing(c)
    /\ chan' = [chan EXCEPT ![c].recent = FALSE]
    /\ UNCHANGED <<since, queue, world, job, copies>>

-----------------------------------------------------------------------------
(* The notifier.                                                           *)

\* collect: rows over thirty days old are deleted once they are settled ...
Outdated == {r \in Delivery : row[r].status \in Settled /\ row[r].age = 2}
Kept == [r \in Delivery |-> IF r \in Outdated THEN NoRow ELSE row[r]]

\* ... and what happened since, is wanted and has no row gets one.
News(rows) ==
    {r \in Delivery : /\ Listens(r[1]) /\ OwnerOf[r[1]] \in active
                      /\ r[2] \in since[r[1]] /\ event[r[2]] = "new"
                      /\ KindOf[r[2]] \in chan[r[1]].wants
                      /\ rows[r] = NoRow}
Collected == [r \in Delivery |-> IF r \in News(Kept) THEN NewRow ELSE Kept[r]]

\* Faulty: claims of dead notifiers are sent again, or stay for ever.
SweptRetries(rows) ==
    [r \in Delivery |-> IF rows[r].status = "sending" /\ rows[r].overdue
                        THEN [rows[r] EXCEPT !.status = "pending", !.overdue = FALSE] ELSE rows[r]]
SweptNever(rows) == [r \in Delivery |-> rows[r]]

\* claim: a process may die after acceptance, so an overdue claim is uncertain.
Swept(rows) ==
    [r \in Delivery |-> IF rows[r].status = "sending" /\ rows[r].overdue
                        THEN Ended(rows[r], "unknown") ELSE rows[r]]

Relevant(r) == KindOf[r[2]] = "test" \/ event[r[2]] \in {"new", "old"}
Allowed(r) == Listens(r[1]) /\ OwnerOf[r[1]] \in active /\ Relevant(r)
Fit(rows, r) == Allowed(r) /\ rows[r].age = 0
Paused(r) == \E c \in Channel : OwnerOf[c] = OwnerOf[r[1]] /\ Pausing(c)

Dropped(rows, unfit) ==
    [r \in Delivery |-> IF r \in unfit /\ rows[r].status = "pending"
                        THEN Ended(rows[r], "cancelled") ELSE rows[r]]
Claimed(rows, r) ==
    [rows EXCEPT ![r].status = "sending", ![r].attempts = @ + 1]

\* The unfit among the first k candidates, and whether none of them can be sent.
Unfit(rows, line, k) == {line[i] : i \in {j \in 1 .. k : ~Fit(rows, line[j])}}
NoneFree(rows, line, k) == \A i \in 1 .. k : Fit(rows, line[i]) => Paused(line[i])
Smaller(a, b) == IF a < b THEN a ELSE b

\* run_once finds nothing to send.
CycleIdle(n) ==
    /\ ~Busy(n)
    /\ \A m \in Notifier : Busy(m) => ~job[m].holds
    /\ LET rows == Swept(Collected) IN
       \E new \in SetToSeqs(News(Kept)) :
         LET line == due \o new
             seen == Smaller(Limit, Len(line)) IN
         /\ NoneFree(rows, line, seen)
         /\ row' = Dropped(rows, Unfit(rows, line, seen))
         /\ due' = SelectSeq(line, LAMBDA r : row'[r].status = "pending")
    /\ job' = Forgotten(Outdated)
    /\ UNCHANGED <<config, world, copies>>

\* run_once claims the first delivery it may send; one whose token or text
\* cannot be decrypted fails in the same transaction.
CycleClaims(n) ==
    /\ ~Busy(n)
    /\ \A m \in Notifier : Busy(m) => ~job[m].holds
    /\ LET rows == Swept(Collected) IN
       \E r \in Delivery, new \in SetToSeqs(News(Kept)), readable \in BOOLEAN :
         LET line == due \o new IN
         \E k \in 1 .. Smaller(Limit, Len(line)) :
           /\ line[k] = r
           /\ rows[r].status = "pending"
           /\ Fit(rows, r) /\ ~Paused(r)
           /\ NoneFree(rows, line, k - 1)
           /\ LET tried == Claimed(Dropped(rows, Unfit(rows, line, k - 1)), r) IN
              row' = IF readable THEN tried
                     ELSE [tried EXCEPT ![r] = Ended(tried[r], "failed")]
           /\ due' = SelectSeq(line, LAMBDA q : row'[q].status = "pending")
           /\ chan' = [chan EXCEPT ![r[1]].recent = TRUE]
           /\ job' = IF readable
                     THEN [Forgotten(Outdated) EXCEPT ![n] =
                             [phase |-> "sending", row |-> r, moved |-> rows[r].moved,
                              known |-> TRUE, holds |-> TRUE, answer |-> "none"]]
                     ELSE Forgotten(Outdated)
    /\ UNCHANGED <<since, world, copies>>

Counted(r) == [copies EXCEPT ![r] = Smaller(2, @ + 1)]

\* The service takes the message, and its answer may be lost.
Accepts(n, answer) ==
    /\ job[n].phase = "sending"
    /\ answer \in {"accepted", "unknown"}
    /\ copies' = Counted(job[n].row)
    /\ job' = [job EXCEPT ![n].phase = "answered", ![n].answer = answer]
    /\ UNCHANGED <<config, queue, world>>

\* It does not: no connection, an error status or code, or silence.
Rejects(n, answer) ==
    /\ job[n].phase = "sending"
    /\ answer \in Answer \ {"accepted"}
    /\ job' = [job EXCEPT ![n].phase = "answered", ![n].answer = answer]
    /\ UNCHANGED <<config, queue, world, copies>>

\* Faulty: a lost answer is taken for a failed connection.
OutcomeRetriesUnknown(d, answer) ==
    CASE answer = "accepted" -> Ended(d, "accepted")
      [] answer \in {"retry", "unknown"} /\ d.attempts < MaxAttempts ->
           [d EXCEPT !.status = "pending", !.overdue = FALSE]
      [] OTHER -> Ended(d, "failed")

\* complete: what an answer makes of its row.
Outcome(d, answer) ==
    CASE answer = "accepted" -> Ended(d, "accepted")
      [] answer = "unknown" -> Ended(d, "unknown")
      [] answer = "retry" /\ d.attempts < MaxAttempts ->
           [d EXCEPT !.status = "pending", !.overdue = FALSE]
      [] OTHER -> Ended(d, "failed")

\* A refusal's code may block the channel, or all channels of its user.
MayBlock(answer, c) ==
    {{}} \cup IF answer = "refused" THEN {{c}, {d \in Channel : OwnerOf[d] = OwnerOf[c]}} ELSE {}

\* Faulty: the answer is recorded whatever has become of the row.
AppliesAlways(n) == job[n].known /\ row[job[n].row].status # "none"
Applies(n) == job[n].known /\ row[job[n].row].status = "sending"

Complete(n) ==
    /\ job[n].phase = "answered"
    /\ job' = [job EXCEPT ![n] = Idle]
    /\ UNCHANGED <<since, due, world, copies>>
    /\ LET r == job[n].row IN
       IF Applies(n)
       THEN /\ row' = [row EXCEPT ![r] = Outcome(row[r], job[n].answer)]
            /\ \E blocked \in MayBlock(job[n].answer, r[1]) :
                 chan' = [c \in Channel |-> IF chan[c].saved /\ c \in blocked
                                            THEN [chan[c] EXCEPT !.blocked = TRUE] ELSE chan[c]]
       ELSE UNCHANGED <<row, chan>>

Dies(n) ==
    /\ Busy(n)
    /\ job' = [job EXCEPT ![n] = Idle]
    /\ UNCHANGED <<config, queue, world, copies>>

\* The session that holds NOTIFIER_LOCK is lost while the request goes on.
LosesLock(n) ==
    /\ Busy(n) /\ job[n].holds
    /\ job' = [job EXCEPT ![n].holds = FALSE]
    /\ UNCHANGED <<config, queue, world, copies>>

-----------------------------------------------------------------------------
Owners ==
    \/ \E c \in Channel, other \in BOOLEAN, choice \in Settings : Save(c, other, choice)
    \/ \E c \in Channel, e \in Event : QueueTest(c, e)
    \/ \E c \in Channel : RemoveChannel(c)
Around ==
    \/ \E e \in Event : Happens(e) \/ Vanishes(e) \/ GrowsOld(e)
    \/ \E u \in User : Toggle(u)
Clock ==
    \/ \E r \in Delivery : RowAges(r) \/ BecomesDue(r) \/ ClaimOverdue(r)
    \/ \E c \in Channel : PauseOver(c)
Cycle(n) == CycleIdle(n) \/ CycleClaims(n)
Answers(n) == \E answer \in Answer : Accepts(n, answer) \/ Rejects(n, answer)
Notifiers ==
    \/ \E n \in Notifier : Cycle(n) \/ Answers(n) \/ Complete(n)
    \/ \E n \in Notifier : Dies(n) \/ LosesLock(n)

Next == Owners \/ Around \/ Clock \/ Notifiers
Spec == Init /\ [][Next]_vars

\* Notifiers are restarted and keep cycling, requests time out, time passes.
FairSpec ==
    /\ Spec
    /\ WF_vars(\E n \in Notifier : Cycle(n))
    /\ \A n \in Notifier : WF_vars(Answers(n)) /\ WF_vars(Complete(n))
    /\ \A r \in Delivery : WF_vars(BecomesDue(r)) /\ WF_vars(ClaimOverdue(r))
    /\ \A c \in Channel : WF_vars(PauseOver(c))
-----------------------------------------------------------------------------
(* Properties.                                                             *)

TypeOK ==
    /\ chan \in [Channel -> Config \cup {NoChannel}]
    /\ since \in [Channel -> SUBSET Event]
    /\ row \in [Delivery -> Row \cup {NoRow}]
    /\ event \in [Event -> {"not yet", "new", "old", "gone"}]
    /\ active \subseteq User
    /\ job \in [Notifier -> Job \cup {Idle}]
    /\ copies \in [Delivery -> 0 .. 2]

Run(r) == KindOf[r[2]] \in {"success", "failure"}
Once(r) == KindOf[r[2]] # "login"

\* A row by itself: attempts are left while it waits, one is used while it is out; only settled rows have no
\* text; a run is reported by a row younger than the run.
RowOK(r) ==
    row[r] # NoRow =>
        /\ row[r].body <=> row[r].status \in Waiting
        /\ row[r].status = "pending" => row[r].attempts < MaxAttempts
        /\ row[r].status = "sending" => row[r].attempts > 0
        /\ Run(r) /\ row[r].age > 0 => event[r[2]] # "new"

\* A delivery nobody has claimed goes where its channel pointed.
Untried(r) ==
    row[r] # NoRow /\ row[r].status = "pending" /\ row[r].attempts = 0 => ~row[r].moved

Held(n) == Busy(n) /\ job[n].known

\* A request's row is still claimed, by nobody else, or was given up on.
JobOK(n) ==
    Held(n) =>
        /\ row[job[n].row] # NoRow
        /\ row[job[n].row].status \in {"sending", "unknown"}
        /\ row[job[n].row].attempts = 1 => ~job[n].moved
        /\ \A m \in Notifier \ {n} : Held(m) => job[m].row # job[n].row

\* What the service has, while a request for r is out or answered.
JobCopies(n) ==
    Busy(n) /\ Once(job[n].row) =>
        /\ ~job[n].known => row[job[n].row] = NoRow
        /\ job[n].phase = "sending" => copies[job[n].row] = 0
        /\ job[n].answer = "accepted" => copies[job[n].row] = 1
        /\ job[n].phase = "answered" /\ job[n].answer \notin {"accepted", "unknown"} =>
               copies[job[n].row] = 0
        /\ \A m \in Notifier \ {n} : Busy(m) => job[m].row # job[n].row

\* Deliveries that may yet be queued for the first time.
Ahead(r) ==
    \/ event[r[2]] = "not yet"
    \/ event[r[2]] = "new" /\ Run(r) /\ r[2] \in since[r[1]] /\ row[r] = NoRow
AheadOK(r) ==
    Once(r) /\ Ahead(r) =>
        /\ row[r] = NoRow
        /\ copies[r] = 0
        /\ \A n \in Notifier : Busy(n) => job[n].row # r

\* What a row says of the service.
RowHonest(r) ==
    Once(r) /\ row[r] # NoRow =>
        /\ row[r].status \in {"pending", "cancelled", "failed"} => copies[r] = 0
        /\ row[r].status = "accepted" => copies[r] = 1
        /\ row[r].status = "pending" => \A n \in Notifier : Busy(n) => job[n].row # r

\* The inductive invariant: rows, requests and what the service has agree.
PushInv ==
    /\ TypeOK
    /\ \A r \in Delivery : RowOK(r) /\ Untried(r) /\ AheadOK(r) /\ RowHonest(r)
    /\ \A n \in Notifier : JobOK(n) /\ JobCopies(n)
    /\ \A r \in Delivery : Once(r) => copies[r] <= 1

\* A finished run or a test reaches a channel's recipient at most once, although
\* notifiers die, answers are lost, rows are deleted and claims are given up on
\* ("Preserve uncertainty, not duplicates" in claim).
NotTwice == \A r \in Delivery : Once(r) => copies[r] <= 1

\* A delivery shown as failed or cancelled was not accepted, one shown as accepted
\* was, once: what the owner reads under "recent notifications" is true.
HonestOutcome ==
    \A r \in Delivery : Once(r) =>
        /\ row[r].status \in {"failed", "cancelled"} => copies[r] = 0
        /\ row[r].status = "accepted" => copies[r] = 1

\* The first request for a delivery goes to the recipient it was queued for,
\* however often the owner saves the channel meanwhile.
FirstTryStays ==
    \A n \in Notifier : Held(n) /\ row[job[n].row].attempts = 1 => ~job[n].moved

\* The text of a notification is kept exactly as long as it may be needed
\* ("No payload retention after completion" in collect).
BodyErased == \A r \in Delivery : row[r] # NoRow => (row[r].body <=> row[r].status \in Waiting)

\* A settled delivery keeps its outcome, whatever late answers, saves and sweeps
\* do, until its row is deleted.
SettledStays ==
    [][\A r \in Delivery : row[r].status \in Settled =>
           \/ row'[r] = NoRow \/ r \in Outdated
           \/ row'[r].status = row[r].status]_vars

\* Every delivery is accepted, failed, given up on, cancelled or deleted in the
\* end: notifiers that die, other users' deliveries before it in line and the
\* pause between requests only delay it.
Settles == \A r \in Delivery : row[r].status \in Waiting ~> row[r].status \notin Waiting

=============================================================================
