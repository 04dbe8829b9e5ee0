# DouYinSparkFlow in TLA+

DouYinSparkFlow sends a daily chat message (a "spark") to the friends of its
users' Douyin accounts. A web console keeps users, accounts, tasks and quotas in
one PostgreSQL database; short-lived browser jobs, started by a supervisor per
role on each host, claim due tasks and drive a headless browser; a notifier posts
e-mails and push messages. This directory models the parts of that system in
which order, failure and repetition matter, checks them with TLC on small
instances, and proves the most important results for every instance with TLAPS.

Sources are named relative to `src/spark_console/` unless they start with `src/`.

## Inventory

| component | state | operations | hard part | correct when |
|---|---|---|---|---|
| batch runs: `worker.py`, `scheduler.py`, `services/batch_execution.py`, `services/manual_retries.py` | `TaskRun`, `TaskRunRecipient`, `TaskBatchRetry`, `ManualRunRetry` | recover, claim, prepare, before_send, record, interrupt, schedule retry, manual retry | jobs die at any point; a retry must not repeat what may have been done | no friend of an occurrence is sent to twice; recorded outcomes are true and final; runs and retries end |
| executor: `executor.py` | one browser page | open session, select friend, checkpoint, Enter, confirm | an Enter whose effect is unknown | each Enter is preceded by a committed checkpoint |
| tasks: `services/tasks.py` | `SparkTask`, `SparkTaskRecipient` | create, enable, edit, delete | edits while a run works from the old list; enabling at the limit | a run works with the current list; no more tasks than quota |
| accounts: `services/accounts.py` | `DouyinAccount` | bind, invalidate, delete | deletion while a run is going on | nothing is sent from a lost login |
| quota: `services/task_capacity.py` | `TaskQuotaGrant`, `TaskQuotaBinding` | grant, change, renew, revoke, bind, reconcile, spread | grants end one by one while tasks move between them, and between two friends of a run | no more tasks send than there are slots; none pauses while one is free; at most one Enter after the end |
| browser slot and supervisor: `browser_runtime.py`, `cluster.py`, `runtime_job.py` | slot file lock, advisory lock, guard row, job processes | acquire, probe, heartbeat, run, clean up, release, quarantine | two hosts, a lost session, a job that outlives its supervisor | one browser job at a time; the slot comes back |
| QR scans: `auth_worker.py`, `auth_scanner.py`, `services/scan_sessions.py`, `web/account_scan_routes.py` | `DouyinLoginSession`, the account's login | start, poll, cancel, expire, claim, publish, capture, bind, fail | late callbacks of the browser against cancel and expiry | a login is saved exactly by a scan that succeeded; every scan ends |
| push queue: `push_notifier.py`, `pushplus.py`, `services/push_notifications.py` | `PushChannel`, `PushDelivery` | save, test, remove, collect, claim, send, complete, retention | a lost answer of a service without idempotency keys; saves while sending | nobody is notified twice of one thing; the shown outcome is true |
| e-mail queue: `notifier.py`, `services/notifications.py`, `resend.py` | `NotificationEvent`, the notifiers' lock | queue, claim, send, record, recover, retry, pause | a lock that is lost while a mail is sent; lost answers; a key the provider forgets | nobody gets two mails about one thing while the provider remembers the request; "sent" is true and final; every mail settles |
| registration, sessions and verification: `services/email_verification.py`, `services/users.py`, `services/profiles.py` | `User`, sessions, `EmailVerificationRequest`, `PendingRegistration` | register, verify, log in, change address or password, reset, disable, delete | codes of an older address or password still open | one address, one user; nobody but its user replaces an address or a password; guesses are bounded |
| renewals: `services/renewals.py`, `web/renewal_routes.py` | `RenewalOrder`, `RenewalPromotionClaim` | price, order, cancel, confirm, approve, reject | promotions reserved by orders that are cancelled, rejected or overtaken | a promotion once; no duplicate of an unpaid order; days given once |
| referrals: `services/referrals.py`, `services/invites.py`, `douyin_referral_identity.py` | `ReferralCode`, relations, ledgers of addresses and identities, rewards | create code, join, review, reward | deleted users and changed addresses that come again; reviews of many friends in one call | each reward is earned once, tiers in order |
| contacts: `contact_sync.py`, `services/contacts.py` | a row per account, names | request, claim, finish, cancel | a stale import | not modelled yet |
| console pages, reports, name approvals, gifts and trials, command line, message text, cryptography, deployment | - | - | each is one transaction, a sum, a conversion or an operator's tool | not modelled |

How they interact: every console handler and every step of a job is one
`session_scope`, a database transaction that takes one global advisory lock
(`db.py:148-162`; SQLite has one writer), so transactions do not interleave and each is one action.
What does interleave are the transactions of different processes, and the
browser and network steps between them. Worker jobs and scan jobs run only while
their supervisor holds the browser slot (`BrowserSlot`), which is why `SparkBatch`
and `ScanSession` have one job each. A lost login ends a batch (`SparkBatch`),
is bound again by a scan (`ScanSession`), and is notified of (`PushQueue`,
`EmailQueue`); a finished run is an event of both queues. `TaskCapacity` is what
`SparkBatch` sees as the one flag `authorized`; a scan that succeeds is what
`Referrals` counts as a verified identity, a registration of `Accounts` is its
`Join`, and the friends it rewards set the prices of `Renewals`; an order
that is approved ends in a grant of `TaskCapacity`.

`PROJECT.json` lists every component with what is modelled of it, the hazards at
their lines with the properties that would catch them, and for every modelling
definition the lines it stands for.

## Modules

### SparkBatch and Delivery

`SparkBatch` is one scheduled task with several friends. Its variables are the
columns of the rows named above (`enabled`, `next`, `account`, `friends`;
`link` is the task's `TaskBatchRetry`, `manual`/`asked` the administrator's
`ManualRunRetry`; `status`, `rows` the runs and their recipients), and the job's
place and local variables (`pc`, `run`, `todo`, `verdict`, `stopped`, `denied`).
The actions follow a job: `StartJob`/`Recover` (constructor and recovery of
`worker.py`), `ClaimFindsNothing`, `ClaimEndsEarly`, `ClaimFresh`, `ClaimRetry`
(`claim_next_due_task` and `prepare`), `SessionOpens`/`SessionFails`, per friend
`SelectFails`, `BeforeSend`/`BeforeSendDenied`, `CheckpointFails`, `PressEnter`,
`Confirms`, then `BatchAborts`, `CloseRows` and the three ways to finish;
`JobDies` at any point. Around it the owner disables, enables, edits; accounts
are deleted and bound again; the quota ends and returns; an administrator
schedules a manual retry. `edition` counts edits of the list, `ripe` says that
`next_run_at` has come; instants are compared for equality only, as the retry
link does. `origin`, `pressed` and `overrun` are observations: the occurrence a
run belongs to, Enter presses per friend, presses since sending was forbidden.

`Delivery` is the abstract promise for one friend: commit, then withdraw, send, or
lose; a lost one is never tried again. `KeepsPromise` is the refinement.

### BrowserSlot

Supervisors on hosts go through `admit_and_run`: slot file, advisory lock, guard
row, admission, heartbeat, job, cleanup, release, close. A session may be dropped
by the server, or linger as a ghost after its client died; a job may survive its
supervisor until its alarm; a cleanup may fail and quarantine the supervisor.
Time counts down in `guard` (until `blocked_until`) and `left` (until a job's
start or alarm). In single-host mode only the slot file exists
(`Clustered = FALSE`, covered by the proof).

### ScanSession

Rows of `DouyinLoginSession` are changed by compare-and-set only; `Sources` is the
code's `ALLOWED`. The console's `Start`, `Poll` and `Cancel` sweep expired scans
first; the job boots (failing abandoned scans), claims, and runs the scanner,
whose callbacks (`call`) are threads that may act late; `Authenticated`,
`Capture`, `Bind` end in a committed login. `Defects` names two calls that raise
in the sources under `src/spark_console`; the copy deployed for the auth role
(`src/cloud_sources/overrides/auth`) does not have the first. `Defects = {}` is the
protocol as its tests describe it, and the passing run and the proofs for every
`Defects` hold for it too.

### PushQueue

A user's channel (`chan`), the events since it was last saved (`since`), the
deliveries (`row`, a record of the columns that matter), the line of due
deliveries in order of `next_attempt_at` (`due`), and each notifier's request
(`job`). A cycle (`CycleIdle`, `CycleClaims`) is the one transaction of
`PushNotifier.run_once`: retention, collection, sweep of overdue claims, the walk
over the candidates that drops what may not be sent, and the claim. Then the
service accepts or rejects (`Accepts`, `Rejects`, with any answer that may come
of it), and `Complete` records the answer if the row is still claimed. Time is
qualitative: a delivery is due, a claim overdue (five minutes), a row a day or
thirty days old, a channel pausing (thirty seconds). Ages of rows that wait or
are out are only let pass when they can matter next (a row is due, a claim is
overdue), which is all that a reader of `created_at` can see. `moved` and
`copies` are observations: whether the channel got another recipient since the
delivery was queued, and how often the service accepted it.

The service itself is external: an explicit rejection (no connection, an error
status, an error code) is taken at its word; a lost answer may hide an acceptance.
Left out: the minute between two tests, the 100 runs a collection reads, texts.

### EmailQueue

What a mail is about is its `dedupe_key`; each has one row at most (`Made`), whose id
is drawn when it is queued (`Unused`) and is the key of its requests to the provider
(`RequestKey`). Rows (`event`: status, attempts, dedupe_key) wait in `ready`, in order
of `next_attempt_at`; `stale` are those claimed more than five minutes ago, `moved` the
moves of tasks that no mail tells of yet. `EnqueueTemplate` queues a mail at the call
of another component. A notifier (`node`) takes `NOTIFIER_LOCK`, and in one
transaction makes the mails of moved tasks, recovers what is stale and claims the head
(`ClaimDue`, which takes the lock with the claim: what lies between them in the code
is an attempt of the same holder); it posts (`Post`), and records the answer (`Mark`).
Its lock is one of a database connection that may break while it goes on (`LoseLock`),
so two may send. The provider is external: it remembers a key (`known`) until it
forgets (a day in truth), and takes a mail at most once per key.
`delivered` and `forgotten` are observations: how many mails it sent about a
dedupe_key, and how many of their requests it forgot. A head that cannot be decrypted
(`readable`) stops the queue, and nothing here repairs it. Saturates:
`attempt_count` beyond `MaxAttempts`, which no code tells apart. Left out:
the limit of 100 mails made per cycle, messages on the console, the one-time tokens of
links, rendering, and the rows that go with a deleted user.

### TaskCapacity and TaskCapacityLoop

One owner's grants (`grant`), tasks (`task`, `legacy` those without a list of
friends) and bindings (`held`), the clock, and the worker's claim (`busy`).
Administrators add, change, renew and revoke grants; a purchase of k cards is k
`AddGrant`s, and resuming the tasks of a grant is a series of `Enable`s. Grant ids
are UUIDs, so any order of creation against order of ids occurs. `Rebound`, `Paused` and
`Reconcile` are `reconcile_user` in closed form - which tasks move, which pause - and
`TaskCapacityLoop` has it as the loop over tasks and slots that the code is; the
invariant `LoopAgrees` compares them, and is proved for any number of tasks and
slots, so the proofs about the closed form speak of the loop. Administrators have no quota and are not
owners here. Left out: initial grants that are set to no slots for a new paid account
(`web/app.py:1189`).

### Accounts

Users (`acct`), whether they have sessions (`sess`), open verification requests
(`row`) and registrations (`pend`). A row that is consumed, revoked or past its
time answers like one that is not there, so it is `NoRow`. `RequestExpires` and
its like stand for time. User names, rates and the lock after failed logins only
refuse calls, and are left out; a registration by invitation without e-mail is
`CreateUser`. `aged` says that the credentials have changed since the request. For a
request to bind it is what the tag of the old password tells, and a guard
(`Verifiable`): a second line of defence, as the same change revokes the
request; for a reset it is an observation. `wrong` (wrong codes of a registration,
over all sendings) is one too. What keeps handlers
from interleaving is the lock of `session_scope`: the web server's `mutation_lock` is not
taken by all of them (`web/registration_routes.py:127`, `web/email_routes.py:49`). `UserService.reset_password` has no caller
among the routes and is modelled as the operation it is.

### Users, Renewals and Referrals

`Users` declares the users that the other two are about; `RewardsProofs` has the
theorems of both, and of what they have in common: the friends that `Referrals`
rewards are those `Renewals` counts.

`Renewals`: orders with the terms they were offered under, the reservations of
promotions (`claim`), and what prices depend on: friends rewarded (0, 1, or two and
more), accounts that are active, grants that may be extended (`single`).
"fulfilling" exists within a transaction only. `promotion` in the terms and
`fulfilled` are observations. Left out: limits of submissions and of mails, which
refuse or skip; the upload of payment codes; what becomes of the extended
grant, which is a change of `TaskCapacity`. Users with orders cannot be deleted.

`Referrals`: members, their addresses and Douyin identities, the ledgers of who had each
first (`firstEmail`, `firstDouyin`), codes, inviters, the stage a friend was
rewarded for, and the days (`total`) given. One transaction may review several
users; `todo` holds what is left of it, and nothing else moves meanwhile.
`Reach` is the input that stands for what other parts decide: account status, the
first grant, a task authorised. Codes that are lost, expired or revoked
are codes never used. Left out: the twenty codes a day, administrators'
invitations, registration by code where e-mail is off, the reason shown for a wait, and the expiry of the inviter's grant, of
which only the sum of days counts here.

## Runs

| run | instance | what it shows |
|---|---|---|
| `spark_friends` | two friends, two runs | `NoDoubleSend`, `OutcomesAreKept`, `OneInFlight`, `StopBoundsInFlight`: per friend one Enter per occurrence over crashes, automatic and manual retries; what is known is carried along; one outcome at most in doubt; one Enter at most after a stop |
| `spark_faults` | one friend, two runs, one edit, every failure | `IInv` (the invariant of the proofs), `OutcomeIsHonest`, `LinkIsTail`, `RunsCurrentEdition`: rows tell what was pressed, retries continue the last run only and never use an old list; the refinement `KeepsPromise`, and `RunEventuallyFinished` |
| `slot_cluster` | three supervisors, two hosts, 10/6/3 minutes | `SlotInv`, `OneBrowser`, and `SlotReturns` |
| `scans` | two scans, two owners | `SessionInv`, `SavedIffSucceeded`, `EveryScanEnds` |
| `scan_root` | one defect | violated: `HandsOver` (the finding below) |
| `push_queue` | two notifiers, a failed run and a test, one channel | `PushInv`, `NotTwice`, `HonestOutcome`, `SettledStays` |
| `push_settles` | one notifier, two tests | `Settles`: no delivery waits for ever |
| `mail` | two notifiers, two mails, two attempts, one key forgotten | `NotTwice`, `SentIsDelivered`, `SentStays`: a second mail about one thing is sent only after the provider forgot the first request, "sent" is true and final; `Settles`: every mail is sent or given up unless the head cannot be read |
| `quota` | three tasks, two grants, two moments | `QuotaInv`, `WithinQuota`, `LoopAgrees`, `ClaimsWithinQuota`, `PausesOnlyForWant` |
| `accounts` | two users, two addresses, three requests, one registration | `AccountsInv`, `GuessesBound`, `ReplacedInPerson`, `ReplacedByOwner` |
| `renewals` | one user, three orders, a grant, three plans | `RenewalInv`, `PromotionsOnce`, `NoDuplicates` |
| `referrals` | three users, three addresses, two identities | `ReferralInv`, `CodesAreEarned`, `TiersInOrder` |

Every property of a passing run has a mutant in `PROJECT.json`: a named faulty
variant of one definition, kept beside it in the module and marked "Faulty", under
which TLC finds the property violated.

### Bounds, and why they are enough

- `SparkBatch`: friends are handled one after the other and only meet in the
  batch's verdict and in "one in flight", so two suffice; every property of one
  friend is checked with one. Two runs show a crash with its recovery and a retry;
  one edit between the runs makes the list stale. `Instant` is a symmetric set: two values tell the remembered
  time from another. `Reportable`
  restricts the browser's failures in the larger instances to one retryable
  failure; `spark_faults` has all of them.
- `BrowserSlot`: times are the code's minutes (600 s guard, 360 s alarm) and a start
  delay of 3 minutes above what the code's timeouts allow. Two supervisors on one
  host and one on another are the smallest set with both kinds of contention.
- `ScanSession`: the slot is global, so a second scan is every other scan; two
  owners are needed for one owner's cancel against the other's scan.
- `PushQueue`: claims of different channels of one user differ only in the common
  pause; `Limit = 1` makes a delivery that may not be sent block the window
  of candidates, which needs 100 deliveries in the code. `MaxAttempts = 2` has
  a retry and a last attempt. `Settings` has the enabled form only; the disabled
  one is covered by the proof. `push_settles` uses tests, whose news is never
  withdrawn: nothing but the notifier settles them.
- `EmailQueue`: of the two mails one is queued by a call and one by a cycle of the
  notifiers, and each is every other mail in the line to the other; the code's number
  of attempts only repeats the retry of the first of two. `MCBound` draws ids
  in order and lets the provider forget the key of one mail, which is enough to meet the bound of
  `NotTwice` and not to exceed it. `Breaking`, the notifiers that may lose their lock,
  is one of the two: the other is at work beside the one that lost it. With both in
  `Breaking` the same properties hold (240 476 states, five minutes).
- `TaskCapacity`: a move needs a task, a slot that ends and a slot of another
  grant, and a competitor for it; a term that ends and one that begins at the same
  moment are the sharpest case. The owner may have one task from before lists of friends. `MCBound` leaves out the
  states in which both grants are revoked, and the ones in which an owner is
  disabled while a run is going on: `busy` only keeps a task from being deleted then,
  by an administrator. Without the second part every property holds as well
  (646 192 states, two minutes).
- `Accounts`: every hazard is between two users over one address or two requests
  of one user; a third request is open while both exist. `MaxAttempts = 2` has
  a wrong code that still counts and one that closes.
- `Renewals`: users are independent of each other. `MaxOpen = 2` of the code's 10
  leaves the third order to meet the limit, or a cancelled and ordered-again one.
- `Referrals`: an inviter with two friends, or a chain of three; `Cap = 16` is reached
  by two friends' tiers; three codes exceed `FreeCodes = 2`; one change of
  address or deletion (`MaxMoves`) is enough to free an address or an identity
  that is then used again. All users may be deleted, so the run may end
  (`CHECK_DEADLOCK FALSE`); in `quota` the clock ends (`Horizon`).

### Fairness

- `SparkBatch`: `WF(Job)` only. The supervisor starts a job again and again
  (`browser_runtime.py`, the loop of `run_supervisor`) and kills one that hangs
  at its timeout; which job step happens, a crash included, is not promised, and
  nobody else must act. That is enough because each new job first recovers.
- `BrowserSlot`: a supervisor that has begun goes on (its statements have
  timeouts), jobs end by their alarm, dead sessions are found by the server, time
  passes. Nobody is asked to start.
- `ScanSession`: while a scan holds the slot the supervisor starts a job (it polls
  for pending scans; that the browser slot returns is `SlotReturns`), a job ends by
  its scanner's or its supervisor's timeout, and time passes. Owners need not poll.
- `PushQueue`: some notifier keeps cycling (`run_loop`, restarted by its unit),
  requests end (15 s timeouts of `httpx.Client`), answers are recorded or the
  notifier dies, and time passes. One weak fairness for all notifiers together: which
  of them holds the lock does not matter.
- `EmailQueue`: the loops go on (`run_loop`, restarted by the unit), time passes,
  requests end, a pause by administrators ends, and the connection that carries the
  lock stops breaking some day. `SF` on claiming, because pauses come and go; `SF` on
  posting and recording per mail, over all notifiers together: one that takes up the
  same mail again and again does not die every time before it has posted, nor every
  time before it has recorded the answer.
- `TaskCapacity`, `Accounts`, `Renewals` and `Referrals` are driven by people; nothing
  is promised, and no fairness is assumed.

## Theorems

| module | theorem | statement |
|---|---|---|
| `SparkBatchProofs` | `TypeCorrect` | `Spec => []TypeOK` |
| | `StopBounded` | `Spec => []StopBoundsInFlight` |
| | `Inductive` | `Spec => []IInv` |
| | `SendsOnce`, `UnsentIsTrue`, `RunsOneAtATime` | `[]NoDoubleSend`, `[]UnsentIsUnsent`, `[]OneRunning` |
| | `OneCheckpoint`, `HistoryIsKept`, `RecordsAreHonest` | `[]OneInFlight`, `[]OutcomesAreKept`, `[]OutcomeIsHonest` |
| | `RetryContinuesTail`, `RunsTheLastEdition` | `[]LinkIsTail`, `[]RunsCurrentEdition` |
| | `ImplementsDelivery`, `RefinesDelivery` | `KeepsPromise`: `Promise(o, p)!Spec` for each occurrence and friend |
| `BrowserSlotProofs` | `SlotInductive`, `OneBrowserAtATime` | `[]SlotInv`, `[]OneBrowser` |
| `ScanSessionProofs` | `SessionInductive`, `SavedOnlyBySuccess`, `EndedForEver` | `[]SessionInv`, `[]SavedIffSucceeded`, `EndedStays` |
| `PushQueueProofs` | `PushInductive` | `[]PushInv` |
| | `NeverTwice`, `OutcomesHonest`, `FirstTriesStay`, `BodiesErased`, `SettledNeverChanges` | `[]NotTwice`, `[]HonestOutcome`, `[]FirstTryStays`, `[]BodyErased`, `SettledStays` |
| `EmailQueueProofs` | `MailInductive` | `[]MailInv` |
| | `NeverTwice`, `SentWasDelivered`, `SentForGood` | `[]NotTwice`, `[]SentIsDelivered`, `SentStays` |
| `TaskCapacityProofs` | `QuotaInductive` | `[]QuotaInv` |
| | `StaysWithinQuota`, `ClaimsAreWithinQuota`, `PausesForWant` | `[]WithinQuota`, `ClaimsWithinQuota`, `PausesOnlyForWant` |
| | `LoopIsClosedForm` | `[]LoopAgrees` |
| `AccountsProofs` | `AccountsInductive` | `[]AccountsInv` |
| | `GuessesAreBounded`, `AddressesReplacedInPerson`, `PasswordsReplacedByOwner` | `[]GuessesBound`, `ReplacedInPerson`, `ReplacedByOwner` |
| `RewardsProofs` | `RenewalInductive` | `[]RenewalInv` |
| | `PromotionsAreOnce`, `NoneOrderedTwice` | `[]PromotionsOnce`, `[]NoDuplicates` |
| | `ReferralInductive` | `ReferralSpec => []ReferralInv` |
| | `CodesEarned`, `TiersGivenInOrder` | `[]CodesAreEarned`, `[]TiersInOrder` |
| | `FriendsComeOneByOne` | the rewarded friends, counted up to two, start and step as in `FriendRewarded` |

They hold for every value of the constants under the named assumptions of the
modules, which TLC evaluates on the instances:

- `SparkBatch`: positions are a finite set of numbers, at least one attempt. The
  bounds on runs and edits are arbitrary. `NoDoubleSend` is not inductive: that a
  friend is pending does not by itself say he was not sent to. `IInv` adds that
  the last run of an occurrence is right about the unsent (`UnsentIsUnsent`), that
  a running run is the last one and no retry is remembered beside it
  (`RunningInv`), that the job's list is pending but for the open checkpoint
  (`JobInv`), that retryable and manually chosen friends are unsent (`RetryInv`),
  and that the remembered retry continues the tail of its occurrence (`LinkInv`).
  For the history of an occurrence it adds that a row is "sending" only in the
  running run and, while a job is at work, only for the friend it is at
  (`CheckpointInv`), and what the records say of each other: who is recorded as
  reached was sent to, outcomes are carried along, the remembered retry is the tail
  and the running run is of the last edition (`RecordsInv`).
- The refinement `KeepsPromise` is a step simulation for one friend of one
  occurrence. `OutcomeOf` reads the friend's row in the last run of the occurrence
  and counts his presses, so the proof first says which run is read before and after
  a step (`LastOf`, by the least number of runs that remain), and then, action by
  action, that what is read either stays or makes one move of `Delivery`: the
  checkpoint commits, Enter sends, a recorded failure withdraws, a recovery loses what was
  in doubt. A retry's new run is read in place of the old one, and shows the same
  because `Copied` keeps what `OutcomesAreKept` says.
- `BrowserSlot`: `StartDelay + JobLife < Guard`. The code has 600 s and 360 s; the
  start comes after statements with a timeout of 15 s (lock timeout 10 s) and local
  probes. `SlotInv` says that the guard outlasts whoever was admitted (`GuardInv`),
  so whoever reads it down under the lock is alone (`AloneInv`).
- `ScanSession`: for any `Defects`. `SessionInv` adds to the safety properties that
  the job's scan left the queue and that a job about to claim finds only queued
  scans (`JobOwnsScan`). `EndedStays` follows because every operation changes open
  rows only.
- `PushQueue`: any owners, kinds, settings, at least one attempt and one
  candidate. `PushInv` ties the three places that speak of a delivery together: a
  row that waits or failed has not been accepted and no request of it is out
  (`RowHonest`, `JobCopies`); a request whose row is still known is claimed or given
  up on, by nobody else (`JobOK`); what may be queued yet was never asked for
  (`AheadOK`), and that survives retention only because a row is younger than
  the run it reports, so its run is old news when the row is deleted (`RowOK`).
  The lemma `Others` is the core of the argument: rows that only move in five named
  ways and requests that only forget their row stay good; each action then has to
  show which row and request it touches besides.

- `EmailQueue`: any mails, rows, notifiers and attempts. `NotTwice` speaks of what mails
  are about and rests on a chain that the code holds together in three places, each of them
  a conjunct of `MailInv`: no two rows are about the same, however it was queued
  (`OneRowEach`, for which a move that waits for its mail has no row); the
  requests of a row have one key, so the mails sent about it are no more than the key the
  provider remembers and those it forgot (`Counted`); and the line holds pending rows once
  each (`InLine`). `Rows` and `Adds` say once how a transaction may change the rows.
- `TaskCapacity`: any tasks, grants and terms. `QuotaInv` says that no two bindings
  name one slot, although those of paused tasks linger. The proof counts: there
  are at least as many free slots as there is room for tasks that move, ranks
  of slots and of tasks are distinct, so that the k-th task to move finds a k-th free
  slot (`RoomIsFree`, `SlotRankOnto`, `TaskRankDistinct`). `WithinQuota` and
  `ClaimsWithinQuota` are injections of tasks into slots. `PausesOnlyForWant` counts
  the other way: a task of an expired grant that pauses did not move, so every place of
  room was given to a task before it, and the ones left enabled fill the quota.
  `LoopAgrees` is an induction over the tasks of the loop (the least number of
  tasks after which the claim would fail): while it has not stopped, the tasks that have moved
  are all those it met whose grant expired, and their number is at once the place of the
  next one among them and the place of the first slot that is left (`LoopInv`, `FirstLeft`).
  The induction is not on an operator, so the provers take it.
- `Accounts`: any users, addresses and limits. `AccountsInv` includes that open
  requests are of the present address and credentials (`RequestsAreCurrent`), which the
  two action properties rest on; for `GuessesBound`, `GuessesLeft` adds the guesses
  that the open code still takes.
- `Renewals`: any users, orders and grants, and plans among the code's.
  `RenewalInv` ties each reservation to one order that is open or approved and each
  such order to its reservation (`ClaimsFollowOrders`), and each price to what it was
  asked for (`PricesHold`).
- `Referrals`: any finite set of users, any addresses, identities, cap and bounds.
  `ReferralInv` is inductive because the two ledgers forget nobody (`Remembers`) and
  because a step under way keeps its premises: the friends still to be reviewed are
  members with an inviter, a new address is still nobody's (`Underway`), and who never
  came has left no trace (`Newcomer`), so that nobody can invite himself. The one
  review that all handlers make (`Verified`) is proved once, in `VerifiedKeeps`, for
  whatever its caller set before. `TiersInOrder` is inductive on top of it: a review moves
  one friend between two counts of one inviter (`FriendCounts`), days up to the cap add up like
  days (`CapAdds`), and the recursive `TierSum` is what its definition says for every
  number of friends (`TierSumType`).

Proved beyond what the runs name: `UnsentIsUnsent`, `OneRunning`, `FirstTryStays`,
`BodyErased`, `EndedStays`, `MailInv`, and the conjuncts of the invariants
(`OneOpenScan` and `EndedIsClean` of `SessionInv`, for example).

Every invariant and action property of a passing run, and the refinement, is stated by a
theorem. Only model-checked: the liveness properties (`RunEventuallyFinished`,
`SlotReturns`, `EveryScanEnds`, and `Settles` of both queues), which are out of the
prover's reach like every property under fairness.

## Findings

`scan_root`: `auth_worker.py:141` passes a callback that is not defined, so a
claimed scan fails before the scanner runs. The deployed copy does not.

Observations made while modelling, where no document promises otherwise or the case
is one the authors seem to accept; they have no run:

- A quarantined supervisor keeps its lock "never to overlap a surviving job"
  (`browser_runtime.py:331`), but nothing renews the guard: when its session is lost
  after the guard has run out, another host is admitted beside the surviving
  job. `OneBrowser` is about supervisors that are admitted and not quarantined.
- `auth_scanner.py:313` passes `None` for the `cancelled` that `_checkpoint` (`:926`)
  calls, so that a confirmed login would not be captured; `Defects` of `ScanSession` names it.
- A push that is being sent when its recipient is saved anew, and fails retryably,
  goes to the new one on the retry; `save` cancels what is waiting only.
- The reminder of an expired login is sent again after thirty days, when retention
  has deleted the row that remembers it.

## Not modelled, and why

`PROJECT.json` lists each component and what is left out of those modelled in part.

- Console pages, reports, name approvals: routing, or edits of single rows.
- Gifts and registration trials (`services/quota_gifts.py`, `registration_trials.py`): they
  set or move days of grants, in one transaction each; sums of days appear in no property.
- Message text, diagnostics, encryption, parsing of credentials: conversions
  without a protocol.
- Command line, backup, migration, deployment: an operator's tools.
- The copies under `src/cloud_sources/overrides`: earlier or later editions of the same
  modules, a directory for each role. They are the larger part of the repository's lines;
  what is said here is about `src/spark_console`.
- The single-user script under `src/core` and `src/utils`, which the console replaces, and
  the run of a task with a single friend in the older format (`worker.py:160`).
- The spreading of send times over a window (`next_available_run_at`): arithmetic on dates,
  no state of its own.
- Contact import (`contact_sync.py`): a protocol like the scans', with one row per
  account under one slot. It is the one part with a protocol of its own that is missing.

## Plan

Done, the most important behaviour first: `Delivery` and `SparkBatch` - send once;
`BrowserSlot` - one job at a time; `ScanSession` - binding a login; `PushQueue` and
`EmailQueue` - notifying once; `TaskCapacity` - the quota; `Accounts` - who may change
what; `Renewals` and `Referrals` - paid and earned days.

Left: `ContactSync`; the older run of a single friend; the spreading of times as a
function against a reference definition; abstract promises of the two queues, to be
refined like `Delivery`.
