----------------------------- MODULE EmailQueue -----------------------------
(***************************************************************************)
(* The queue of e-mails and the notifiers that send them                   *)
(* (services/notifications.py, notifier.py, resend.py).  A notifier holds  *)
(* a lock of the database from before it claims an event until it has      *)
(* recorded the answer; the lock is one of its connection, which may break *)
(* while the notifier goes on.  Answers get lost, notifiers die, and the   *)
(* provider remembers the key of a request for a day only.                 *)
(*                                                                         *)
(* What a mail is about is its dedupe_key; what tells its requests apart   *)
(* is the id of its row, a UUID.  That no user gets two mails about one    *)
(* thing rests on both: one row for a dedupe_key, one key for a row.       *)
(***************************************************************************)
EXTENDS Integers, Sequences, FiniteSets

CONSTANTS
    DedupeKey,     \* what mails are about (a bound)
    Migration,     \* those about a task that moved to another grant
    Event,         \* ids of notification_events (a bound)
    Notifier,      \* processes
    Breaking,      \* those whose connection to the database may break (a bound)
    MaxAttempts,   \* one more than there are RETRY_DELAYS
    MaxForgotten,  \* keys the provider forgets (a bound)
    None

ASSUME EventsAssumption == IsFiniteSet(Event) /\ Migration \subseteq DedupeKey
ASSUME AttemptsAssumption == MaxAttempts \in Nat \ {0} /\ MaxForgotten \in Nat
ASSUME NoneAssumption == None \notin Event \cup Notifier \cup DedupeKey

VARIABLES
    event,      \* NotificationEvent: status, attempt_count and dedupe_key
    ready,      \* the pending events whose time has come, in order of next_attempt_at
    stale,      \* events claimed more than five minutes ago
    moved,      \* moves of tasks that no mail tells of yet
    paused,     \* the setting email_paused
    lock,       \* who holds NOTIFIER_LOCK
    node,       \* what a notifier is doing
    readable,   \* whether an event's body and recipient can be decrypted
    known,      \* the provider: keys of requests it remembers
    delivered,  \* the provider: how many mails it sent about something
    forgotten   \* the provider: how often it forgot the key of one of them

queue == <<event, ready, stale, moved, paused>>
provider == <<known, delivered, forgotten>>
vars == <<queue, lock, node, readable, provider>>

NoEvent == [status |-> "none", attempts |-> 0, dedupe |-> None]
Idle == [pc |-> "idle", event |-> None, answer |-> "none"]

\* attempt_count is only compared with the number of delays: it counts up to
\* MaxAttempts and then stays.
Row == [status : {"none", "pending", "sending", "sent", "failed"}, attempts : 0..MaxAttempts,
        dedupe : DedupeKey \cup {None}]
Work == [pc : {"sending", "answered"}, event : Event,
         answer : {"none", "accepted", "retryable", "final"}]

New(k) == [status |-> "pending", attempts |-> 0, dedupe |-> k]
Claimed(x) == [x EXCEPT !.status = "sending",
                        !.attempts = IF @ < MaxAttempts THEN @ + 1 ELSE MaxAttempts]

Made(k) == \E e \in Event : event[e].dedupe = k
Unused == {e \in Event : event[e] = NoEvent}
IsReady(e) == \E i \in 1..Len(ready) : ready[i] = e

OneToOne(S, T) == {f \in [S -> T] : \A i, j \in S : f[i] = f[j] => i = j}

\* All the orders that a set of events may get.
Orders(S) == OneToOne(1..Cardinality(S), S)

Unlock(n) == lock' = IF lock = n THEN None ELSE lock

-----------------------------------------------------------------------------
Init ==
    /\ event = [e \in Event |-> NoEvent]
    /\ ready = <<>> /\ stale = {} /\ moved = {} /\ paused = FALSE
    /\ lock = None /\ node = [n \in Notifier |-> Idle]
    /\ readable \in [Event -> BOOLEAN]
    /\ known = {}
    /\ delivered = [k \in DedupeKey |-> 0] /\ forgotten = [k \in DedupeKey |-> 0]

\* A second call with the same dedupe_key returns the row of the first.
EnqueueTemplate(k, e) ==
    /\ k \notin Migration /\ ~Made(k) /\ e \in Unused
    /\ event' = [event EXCEPT ![e] = New(k)]
    /\ ready' = Append(ready, e)
    /\ UNCHANGED <<stale, moved, paused, lock, node, readable, provider>>

\* A reconciliation moves a task (TaskCapacity), which a mail is to tell of.
TaskMoves(k) ==
    /\ k \in Migration /\ ~Made(k) /\ k \notin moved
    /\ moved' = moved \cup {k}
    /\ UNCHANGED <<event, ready, stale, paused, lock, node, readable, provider>>

NextAttempt(e) ==
    /\ event[e].status = "pending" /\ ~IsReady(e)
    /\ ready' = Append(ready, e)
    /\ UNCHANGED <<event, stale, moved, paused, lock, node, readable, provider>>

FiveMinutesPass(e) ==
    /\ event[e].status = "sending" /\ e \notin stale
    /\ stale' = stale \cup {e}
    /\ UNCHANGED <<event, ready, moved, paused, lock, node, readable, provider>>

\* enqueue_quota_migration_emails: a move whose details do not parse gets no mail,
\* one of a user without an address waits, and each of the others gets a row.
Mails == UNION {OneToOne(S, moved) : S \in SUBSET Unused}
ToldOf(mail) == {mail[e] : e \in DOMAIN mail}

\* That, and recover_stale.
Recovered(mail) ==
    [e \in Event |-> IF e \in stale THEN [event[e] EXCEPT !.status = "pending"]
                     ELSE IF e \in DOMAIN mail THEN New(mail[e]) ELSE event[e]]

\* The transaction that claims an event.  A head of the queue that cannot be
\* decrypted undoes it all, and the notifier dies.
ClaimDue(n) ==
    /\ lock = None /\ node[n] = Idle
    /\ \E mail \in Mails : \E bad \in SUBSET (moved \ ToldOf(mail)) :
       \E order \in Orders(stale \cup DOMAIN mail) :
        LET line == ready \o order IN
        /\ line # <<>> /\ ~paused => readable[Head(line)]
        /\ moved' = moved \ (ToldOf(mail) \cup bad) /\ stale' = {}
        /\ IF paused \/ line = <<>>
           THEN /\ event' = Recovered(mail) /\ ready' = line
                /\ UNCHANGED <<lock, node>>
           ELSE LET e == Head(line) IN
                /\ event' = [Recovered(mail) EXCEPT ![e] = Claimed(@)]
                /\ ready' = Tail(line)
                /\ lock' = n
                /\ node' = [node EXCEPT ![n] = [pc |-> "sending", event |-> e, answer |-> "none"]]
    /\ UNCHANGED <<paused, readable, provider>>

-----------------------------------------------------------------------------
\* What a notifier's mail is about, and the Idempotency-Key of its request.
About(n) == event[node[n].event].dedupe

\* Faulty: each attempt has a key of its own.
KeyOfAttempt(n) == <<node[n].event, event[node[n].event].attempts>>

RequestKey(n) == node[n].event

\* The provider takes a mail or not.  A request whose key it remembers sends none.
Take(k, key, taken) ==
    /\ known' = IF taken THEN known \cup {key} ELSE known
    /\ delivered' = [delivered EXCEPT ![k] = IF taken /\ key \notin known THEN @ + 1 ELSE @]
    /\ UNCHANGED forgotten

\* Faulty: a request without an answer counts as sent.
PostHopefully(n) ==
    /\ node[n].pc = "sending"
    /\ \E taken \in BOOLEAN :
        /\ Take(About(n), RequestKey(n), taken)
        /\ node' = [node EXCEPT ![n].pc = "answered", ![n].answer = "accepted"]
    /\ UNCHANGED <<queue, lock, readable>>

\* 2xx; no answer, or 429 or 5xx; any other answer.
Post(n) ==
    /\ node[n].pc = "sending"
    /\ \E taken \in BOOLEAN, answer \in {"accepted", "retryable", "final"} :
        /\ answer = "accepted" => taken
        /\ answer = "final" => ~taken
        /\ Take(About(n), RequestKey(n), taken)
        /\ node' = [node EXCEPT ![n].pc = "answered", ![n].answer = answer]
    /\ UNCHANGED <<queue, lock, readable>>

\* Faulty: there is no end to the retries.
AfterAnswer(x, answer) ==
    CASE answer = "accepted" -> [x EXCEPT !.status = "sent"]
      [] answer = "retryable" -> [x EXCEPT !.status = "pending"]
      [] OTHER -> [x EXCEPT !.status = "failed"]

\* mark_sent and mark_failed.
After(x, answer) ==
    CASE answer = "accepted" -> [x EXCEPT !.status = "sent"]
      [] answer = "retryable" /\ x.attempts < MaxAttempts -> [x EXCEPT !.status = "pending"]
      [] OTHER -> [x EXCEPT !.status = "failed"]

\* Faulty: the event need no longer be "sending".
MarkAnyway(n) ==
    LET e == node[n].event IN
    /\ node[n].pc = "answered"
    /\ event' = [event EXCEPT ![e] = After(@, node[n].answer)]
    /\ stale' = stale \ {e}
    /\ node' = [node EXCEPT ![n] = Idle]
    /\ Unlock(n)
    /\ UNCHANGED <<ready, moved, paused, readable, provider>>

\* An event that is not being sent is an error, of which the notifier dies.
Mark(n) ==
    LET e == node[n].event IN
    /\ node[n].pc = "answered"
    /\ IF event[e].status = "sending"
       THEN /\ event' = [event EXCEPT ![e] = After(@, node[n].answer)]
            /\ stale' = stale \ {e}
       ELSE UNCHANGED <<event, stale>>
    /\ node' = [node EXCEPT ![n] = Idle]
    /\ Unlock(n)
    /\ UNCHANGED <<ready, moved, paused, readable, provider>>

Crash(n) ==
    /\ node[n] # Idle
    /\ node' = [node EXCEPT ![n] = Idle]
    /\ Unlock(n)
    /\ UNCHANGED <<queue, readable, provider>>

\* The connection of the lock breaks; the notifier does not notice.
LoseLock(n) ==
    /\ lock = n /\ n \in Breaking
    /\ lock' = None
    /\ UNCHANGED <<queue, node, readable, provider>>

-----------------------------------------------------------------------------
RetryFailed(e) ==
    /\ event[e].status = "failed"
    /\ event' = [event EXCEPT ![e].status = "pending"]
    /\ ready' = Append(ready, e)
    /\ UNCHANGED <<stale, moved, paused, lock, node, readable, provider>>

SetPaused ==
    /\ paused' = ~paused
    /\ UNCHANGED <<event, ready, stale, moved, lock, node, readable, provider>>

Forget(e) ==
    /\ e \in known /\ forgotten[event[e].dedupe] < MaxForgotten
    /\ known' = known \ {e}
    /\ forgotten' = [forgotten EXCEPT ![event[e].dedupe] = @ + 1]
    /\ UNCHANGED <<queue, lock, node, readable, delivered>>

EventStep(e) == NextAttempt(e) \/ FiveMinutesPass(e) \/ RetryFailed(e) \/ Forget(e)

NodeStep(n) == ClaimDue(n) \/ Post(n) \/ Mark(n) \/ Crash(n) \/ LoseLock(n)

Next ==
    \/ \E k \in DedupeKey : TaskMoves(k) \/ \E e \in Event : EnqueueTemplate(k, e)
    \/ \E e \in Event : EventStep(e)
    \/ \E n \in Notifier : NodeStep(n)
    \/ SetPaused

Spec == Init /\ [][Next]_vars

Posts(e) == \E n \in Notifier : node[n].event = e /\ Post(n)
Records(e) == \E n \in Notifier : Mark(n) /\ node[n].event = e /\ event'[e] # event[e]

\* Time passes, the loops go on, a pause ends and the lock's connection stops
\* breaking; and of the notifiers that take up a mail again and again one lives
\* to post it and one to record the answer.
FairSpec ==
    /\ Spec
    /\ WF_vars(paused /\ SetPaused)
    /\ <>[][\A n \in Notifier : ~LoseLock(n)]_vars
    /\ \A e \in Event : WF_vars(NextAttempt(e)) /\ WF_vars(FiveMinutesPass(e))
    /\ \A n \in Notifier : WF_vars(Mark(n))
    /\ SF_vars(~paused /\ \E n \in Notifier : ClaimDue(n))
    /\ \A e \in Event : SF_vars(Posts(e)) /\ SF_vars(Records(e))

-----------------------------------------------------------------------------
TypeOK ==
    /\ event \in [Event -> Row]
    /\ ready \in Seq(Event)
    /\ stale \subseteq Event /\ moved \subseteq Migration
    /\ paused \in BOOLEAN
    /\ lock \in Notifier \cup {None}
    /\ node \in [Notifier -> Work \cup {Idle}]
    /\ readable \in [Event -> BOOLEAN]
    /\ known \subseteq Event
    /\ delivered \in [DedupeKey -> Nat] /\ forgotten \in [DedupeKey -> Nat]

\* Only what is pending waits in line, each event once; and only what is being
\* sent is recovered.
InLine ==
    /\ \A i \in 1..Len(ready) : event[ready[i]].status = "pending"
    /\ \A i, j \in 1..Len(ready) : ready[i] = ready[j] => i = j
    /\ \A e \in stale : event[e].status = "sending"

\* A row is about something, no two are about the same, and a move a mail is yet
\* to tell of has none; a notifier works on a row.
OneRowEach ==
    /\ \A e \in Event : event[e] # NoEvent => event[e].status # "none" /\ event[e].dedupe # None
    /\ \A d, e \in Event : event[d] # NoEvent /\ event[d].dedupe = event[e].dedupe => d = e
    /\ \A k \in moved : ~Made(k)
    /\ \A n \in Notifier : node[n] # Idle => event[node[n].event] # NoEvent

\* What was sent about something is what the provider remembers of its row's key
\* and what it forgot.
Counted ==
    /\ \A k \in DedupeKey : delivered[k] > 0 => Made(k)
    /\ \A e \in Event \ Unused :
          delivered[event[e].dedupe] <= forgotten[event[e].dedupe] + (IF e \in known THEN 1 ELSE 0)
    /\ \A e \in known : event[e] # NoEvent /\ delivered[event[e].dedupe] > 0

\* However answers, crashes and recoveries fall, the line, the rows and what the
\* provider was asked agree (notifications.py:91-300).
MailInv == TypeOK /\ InLine /\ OneRowEach /\ Counted

\* A second mail about one thing is sent only after the provider forgot the first
\* request, whichever cycles, calls, retries, recoveries and notifiers without
\* their lock came between: what is queued has one row (notifications.py:102-106,
\* :149 and :185), and a row is sent under one key (resend.py:46).
NotTwice == \A k \in DedupeKey : delivered[k] <= forgotten[k] + 1

\* "sent" is never claimed of a mail that the provider was not given, not even
\* by the answer to another attempt (notifications.py:237).
SentIsDelivered ==
    /\ \A e \in Event : event[e].status = "sent" => delivered[event[e].dedupe] > 0
    /\ \A n \in Notifier : node[n].answer = "accepted" => delivered[About(n)] > 0

\* Once sent, an event stays so: no late answer of another notifier and no
\* recovery sends it again, which its body, erased by then, would not survive
\* (notifications.py:239-243 and :257).
SentStays == [][\A e \in Event : event[e].status = "sent" => event'[e].status = "sent"]_vars

\* A head that cannot be decrypted stops the queue (notifier.py:63-69).
Blocked == ready # <<>> /\ ~readable[Head(ready)]

\* Every mail is sent or given up in the end, unless the queue is blocked or
\* administrators pause it or retry what failed for ever.
Settles ==
    \A e \in Event : event[e].status \in {"pending", "sending"} ~>
                        event[e].status \in {"sent", "failed"} \/ Blocked
=============================================================================
