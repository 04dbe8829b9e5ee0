----------------------------- MODULE SparkBatch -----------------------------
(***************************************************************************)
(* One scheduled task of several friends, from its due time to the last    *)
(* friend's recorded outcome: the claim (scheduler.py), the disposable     *)
(* Worker job (worker.py), the per-friend checkpoints (BatchRunService),   *)
(* the browser steps between them (executor.py), the crash of a job at any *)
(* point, the recovery made by the next job, the admin's manual retry, and *)
(* the changes the owner, the quota and the account binding make meanwhile.*)
(*                                                                         *)
(* Every action but the four marked "browser" is one database transaction: *)
(* session_scope serialises them (db.py), so they are atomic.  Clock       *)
(* values are instants that are only compared for equality; `ripe` says    *)
(* that next_run_at has been reached.                                      *)
(***************************************************************************)
EXTENDS Naturals, FiniteSets

CONSTANTS
    Position,       \* positions of the friends in the task's list
    Account,        \* Douyin accounts the owner may bind
    Instant,        \* values of next_run_at
    MaxAttempts,    \* attempts at a friend in one occurrence: 3 in the code
    Reportable,     \* bound: the browser's failures that are modelled
    MaxRuns,        \* bound: runs of the task that are modelled
    MaxEdits,       \* bound: edits of the task by its owner
    NoAccount,      \* SparkTask.douyin_account_id is NULL
    NoTime          \* next_run_at is NULL

ASSUME PositionAssumption == Position \subseteq Nat /\ IsFiniteSet(Position)
ASSUME BoundAssumption == MaxRuns \in Nat /\ MaxEdits \in Nat
ASSUME AttemptAssumption == MaxAttempts \in Nat \ {0}
ASSUME NullAssumption == NoAccount \notin Account /\ NoTime \notin Instant

VARIABLES
    \* SparkTask, SparkTaskRecipient and the owner's quota
    enabled, next, ripe, account, friends, edition, authorized,
    \* DouyinAccount.validation_state; "absent" is a deleted account
    accState,
    \* TaskBatchRetry of the task; ManualRunRetry of each run
    link, asked, manual,
    \* TaskRun and TaskRunRecipient
    nruns, status, rows, runAccount, runEdition,
    \* the Worker job: where it is and its local variables
    pc, run, todo, verdict, stopped, denied,
    \* observation: the occurrence a run belongs to, Enter presses, and
    \* presses made since sending was last forbidden
    origin, pressed, overrun

taskVars == <<enabled, next, ripe, account, friends, edition>>
retryVars == <<link, asked, manual>>
runVars == <<nruns, status, rows, runAccount, runEdition, origin>>
jobVars == <<pc, run, todo, verdict, stopped, denied>>
vars == <<taskVars, authorized, accState, retryVars, runVars, jobVars,
          pressed, overrun>>

Run == 1..MaxRuns

RunStatus == {"none", "running", "success", "partial", "failed", "skipped"}
RowStatus == {"none", "pending", "sending", "success", "submitted", "failed",
              "uncertain"}
Stage == {"queued", "not_started", "authenticating", "selecting_target",
          "authorization", "sending", "rejected", "complete", "submitted"}
Code == {"none", "batch_not_started", "login_expired", "chat_ui_unavailable",
         "chat_load_failed", "target_not_found", "conversation_not_opened",
         "authorization_ended", "delivery_uncertain", "delivery_rejected"}
Row == [status : RowStatus, stage : Stage, code : Code, retryable : BOOLEAN,
        attempt : Nat]
NoRow == [status |-> "none", stage |-> "queued", code |-> "none",
          retryable |-> FALSE, attempt |-> 0]
Phase == {"off", "ready", "open", "failing", "select", "refused",
          "checkpoint", "pressed", "finish"}
NoLink == [source |-> 0, at |-> NoTime]

-----------------------------------------------------------------------------
(* What the executor reports of one friend (ExecutionResult).              *)

Failure(stage, code, retryable) ==
    [ok |-> FALSE, stage |-> stage, code |-> code, retryable |-> retryable]
Success(stage) ==
    [ok |-> TRUE, stage |-> stage, code |-> "none", retryable |-> FALSE]

Modelled(results) == {x \in results : x.ok \/ x.code \in Reportable}

\* The code also reports cookie_invalid; every reader treats the two alike.
LoginExpired == Failure("authenticating", "login_expired", FALSE)
\* The session never gets a usable chat page: one result for every friend.
SessionFailure ==
    Modelled({ LoginExpired,
               Failure("authenticating", "chat_ui_unavailable", TRUE),
               Failure("authenticating", "chat_load_failed", TRUE) })
\* Opening the conversation and typing fails; nothing has been sent.
SelectFailure ==
    Modelled({ LoginExpired,
               Failure("selecting_target", "target_not_found", FALSE),
               Failure("selecting_target", "conversation_not_opened", TRUE) })
Denial == Failure("authorization", "authorization_ended", FALSE)
Unknown == Failure("sending", "delivery_uncertain", FALSE)
\* After the checkpoint and before Enter: the conversation changed, or Enter
\* raised before it reached the page.
CheckpointFailure ==
    Modelled({ Failure("selecting_target", "conversation_not_opened", TRUE), Unknown })
\* After Enter: accepted (or confirmed on the page), submitted, rejected by
\* the server, or unknown.
Confirmation ==
    Modelled({ Success("complete"), Success("submitted"),
               Failure("rejected", "delivery_rejected", FALSE), Unknown })
Result == SessionFailure \cup SelectFailure \cup {Denial, Unknown} \cup
          CheckpointFailure \cup Confirmation

-----------------------------------------------------------------------------
(* Row transformers of BatchRunService.                                    *)

Queued(attempt) ==
    [status |-> "pending", stage |-> "queued", code |-> "none",
     retryable |-> FALSE, attempt |-> attempt]

RecordedStatus(result) ==
    IF result.ok THEN IF result.stage = "submitted" THEN "submitted" ELSE "success"
    ELSE IF result.stage = "sending" THEN "uncertain" ELSE "failed"

\* record(): the last attempt ends the automatic retries.
Recorded(row, result) ==
    [row EXCEPT !.status = RecordedStatus(result),
                !.stage = result.stage,
                !.code = result.code,
                !.retryable = /\ result.retryable
                              /\ RecordedStatus(result) = "failed"
                              /\ row.attempt < MaxAttempts]

NotStarted(row, retryable) ==
    [row EXCEPT !.status = "failed", !.stage = "not_started",
                !.code = "batch_not_started", !.retryable = retryable]

Unconfirmed(row) ==
    [row EXCEPT !.status = "uncertain", !.stage = "sending",
                !.code = "delivery_uncertain", !.retryable = FALSE]

\* Faulty: an open checkpoint is taken for a friend that was not started.
InterruptedResends(row, retryPending) ==
    IF row.status \in {"pending", "sending"}
    THEN NotStarted(row, retryPending /\ row.attempt < MaxAttempts) ELSE row

\* Faulty: pending friends stay pending when they may not be retried.
InterruptedLeavesPending(row, retryPending) ==
    IF row.status = "sending" THEN Unconfirmed(row)
    ELSE IF row.status = "pending" /\ retryPending
    THEN NotStarted(row, row.attempt < MaxAttempts) ELSE row

\* interrupt(): an open checkpoint means an unknown outcome, never a retry.
Interrupted(row, retryPending) ==
    IF row.status = "sending" THEN Unconfirmed(row)
    ELSE IF row.status = "pending"
    THEN NotStarted(row, retryPending /\ row.attempt < MaxAttempts) ELSE row

\* prepare(): which friends of the source run are tried again.
TriedAgain(source, p) ==
    IF source \in asked
    THEN p \in manual[source] /\ rows[source][p].status \in {"pending", "failed"}
    ELSE rows[source][p].status = "pending" \/ rows[source][p].retryable

\* Faulty: friends that are not tried again are left out.
CopiedPartly(source, p) ==
    LET row == rows[source][p] IN
    IF row.status # "none" /\ TriedAgain(source, p)
    THEN Queued(IF source \in asked THEN 1 ELSE row.attempt + 1) ELSE NoRow

\* prepare(): the row a retry run starts with.
Copied(source, p) ==
    LET row == rows[source][p] IN
    IF row.status = "none" THEN NoRow
    ELSE IF TriedAgain(source, p)
         THEN Queued(IF source \in asked THEN 1 ELSE row.attempt + 1)
         ELSE [row EXCEPT !.retryable = FALSE, !.attempt = 1]

Listed(rs) == {p \in Position : rs[p].status # "none"}
Retryable(rs) == \E p \in Position : rs[p].retryable
Reached(rs) == {p \in Position : rs[p].status \in {"success", "submitted"}}

\* summary()
Summary(rs) ==
    IF Listed(rs) # {} /\ Reached(rs) = Listed(rs) THEN "success"
    ELSE IF Reached(rs) # {} THEN "partial" ELSE "failed"

-----------------------------------------------------------------------------
(* Scheduling helpers.                                                     *)

\* next_run_at := a time computed now, unlike any time still remembered.
Reschedule(t) ==
    /\ t \in Instant \ {next, link.at}
    /\ next' = t
    /\ ripe' = FALSE

Due == enabled /\ account # NoAccount /\ next # NoTime /\ ripe
Running == {r \in Run : status[r] = "running"}
Usable(a) == a # NoAccount /\ accState[a] \notin {"absent", "invalid"}
\* What before_send asks of the task, the account and the quota.
Allowed == enabled /\ authorized /\ Usable(account)

Pause ==
    /\ enabled' = FALSE
    /\ next' = NoTime
    /\ ripe' = FALSE

\* _record_auth_incident(a): the account and every enabled task of it stop.
AuthIncident(a) ==
    /\ accState' = [accState EXCEPT ![a] = "invalid"]
    /\ IF enabled /\ account = a THEN Pause ELSE UNCHANGED <<enabled, next, ripe>>

JobExits ==
    /\ pc' = "off"
    /\ run' = 0
    /\ todo' = {}
    /\ verdict' = Unknown
    /\ stopped' = FALSE
    /\ denied' = FALSE

Init ==
    /\ enabled = TRUE
    /\ next \in Instant
    /\ ripe = FALSE
    /\ account \in Account
    /\ friends = Position
    /\ edition = 0
    /\ authorized = TRUE
    /\ accState \in [Account -> {"unverified", "valid"}]
    /\ link = NoLink
    /\ asked = {}
    /\ manual = [r \in Run |-> {}]
    /\ nruns = 0
    /\ status = [r \in Run |-> "none"]
    /\ rows = [r \in Run |-> [p \in Position |-> NoRow]]
    /\ runAccount = [r \in Run |-> NoAccount]
    /\ runEdition = [r \in Run |-> 0]
    /\ pc = "off"
    /\ run = 0
    /\ todo = {}
    /\ verdict = Unknown
    /\ stopped = FALSE
    /\ denied = FALSE
    /\ origin = [r \in Run |-> 0]
    /\ pressed = [r \in Run |-> [p \in Position |-> 0]]
    /\ overrun = 0

-----------------------------------------------------------------------------
(* The supervisor starts a job when a run is running or the task is due;   *)
(* the job's constructor first closes the run a dead job left behind.      *)

\* Faulty: the interrupted run is not closed first.
StartJobUnrecovered ==
    /\ pc = "off"
    /\ Due
    /\ pc' = "ready"
    /\ UNCHANGED <<run, todo, verdict, stopped, denied, taskVars, authorized,
                   accState, retryVars, runVars, pressed>>

StartJob ==
    /\ pc = "off"
    /\ Running = {}
    /\ Due
    /\ pc' = "ready"
    /\ UNCHANGED <<run, todo, verdict, stopped, denied, taskVars, authorized,
                   accState, retryVars, runVars, pressed>>

\* Faulty: the run of a task that was paused meanwhile is skipped.
RecoverEnabledOnly(r) ==
    /\ pc = "off"
    /\ status[r] = "running"
    /\ enabled
    /\ LET closed == [p \in Position |-> Interrupted(rows[r][p], TRUE)] IN
       /\ rows' = [rows EXCEPT ![r] = closed]
       /\ status' = [status EXCEPT ![r] = Summary(closed)]
       /\ IF Retryable(closed) /\ enabled
          THEN \E t \in Instant : Reschedule(t) /\ link' = [source |-> r, at |-> t]
          ELSE UNCHANGED <<next, ripe, link>>
    /\ pc' = "ready"
    /\ UNCHANGED <<enabled, account, friends, edition, authorized, accState,
                   asked, manual, nruns, runAccount, runEdition, origin,
                   run, todo, verdict, stopped, denied, pressed>>

Recover(r) ==
    /\ pc = "off"
    /\ status[r] = "running"
    /\ LET closed == [p \in Position |-> Interrupted(rows[r][p], TRUE)] IN
       /\ rows' = [rows EXCEPT ![r] = closed]
       /\ status' = [status EXCEPT ![r] = Summary(closed)]
       /\ IF Retryable(closed) /\ enabled
          THEN \E t \in Instant : Reschedule(t) /\ link' = [source |-> r, at |-> t]
          ELSE UNCHANGED <<next, ripe, link>>
    /\ pc' = "ready"
    /\ UNCHANGED <<enabled, account, friends, edition, authorized, accState,
                   asked, manual, nruns, runAccount, runEdition, origin,
                   run, todo, verdict, stopped, denied, pressed>>

-----------------------------------------------------------------------------
(* The first transaction of run_once.                                      *)

\* reconcile_all pauses the due task whose quota ended; nothing is claimed.
ClaimPausesUnauthorized ==
    /\ pc = "ready"
    /\ Due
    /\ ~authorized
    /\ Pause
    /\ JobExits
    /\ UNCHANGED <<account, friends, edition, authorized, accState, retryVars,
                   runVars, pressed>>

ClaimFindsNothing ==
    /\ pc = "ready"
    /\ ~Due
    /\ JobExits
    /\ UNCHANGED <<taskVars, authorized, accState, retryVars, runVars, pressed>>

\* claim_next_due_task: a new run, and the task's next daily time.
Claims(r) ==
    /\ pc = "ready"
    /\ Due
    /\ authorized
    /\ r = nruns + 1
    /\ r \in Run
    /\ nruns' = r
    /\ \E t \in Instant : Reschedule(t)
    /\ UNCHANGED <<enabled, account, friends, edition, authorized, accState,
                   asked, manual, pressed>>

\* An unhealthy clock fails the run; a run claimed too late is skipped.
ClaimEndsEarly(r) ==
    /\ Claims(r)
    /\ \E s \in {"failed", "skipped"} : status' = [status EXCEPT ![r] = s]
    /\ origin' = [origin EXCEPT ![r] = r]
    /\ JobExits
    /\ UNCHANGED <<link, rows, runAccount, runEdition>>

\* prepare(): the remembered retry is used for its own occurrence only.
LinkMatches ==
    /\ link.source # 0
    /\ link.at = next
    /\ runAccount[link.source] = account

\* Faulty: prepare() does not delete the remembered retry.
OpensKeepsRetry(r, first) ==
    /\ status' = [status EXCEPT ![r] = "running"]
    /\ rows' = [rows EXCEPT ![r] = first]
    /\ runAccount' = [runAccount EXCEPT ![r] = account]
    /\ pc' = "open"
    /\ run' = r
    /\ todo' = {p \in Position : first[p].status = "pending"}
    /\ UNCHANGED <<link, verdict, stopped, denied>>

Opens(r, first) ==
    /\ status' = [status EXCEPT ![r] = "running"]
    /\ rows' = [rows EXCEPT ![r] = first]
    /\ runAccount' = [runAccount EXCEPT ![r] = account]
    /\ link' = NoLink
    /\ pc' = "open"
    /\ run' = r
    /\ todo' = {p \in Position : first[p].status = "pending"}
    /\ UNCHANGED <<verdict, stopped, denied>>

ClaimFresh(r) ==
    /\ Claims(r)
    /\ ~LinkMatches
    /\ Opens(r, [p \in Position |-> IF p \in friends THEN Queued(1) ELSE NoRow])
    /\ runEdition' = [runEdition EXCEPT ![r] = edition]
    /\ origin' = [origin EXCEPT ![r] = r]

ClaimRetry(r) ==
    /\ Claims(r)
    /\ LinkMatches
    /\ Opens(r, [p \in Position |-> Copied(link.source, p)])
    /\ runEdition' = [runEdition EXCEPT ![r] = runEdition[link.source]]
    /\ origin' = [origin EXCEPT ![r] = origin[link.source]]

-----------------------------------------------------------------------------
(* The batch in the browser, and its checkpoints.                          *)

\* The friend the loop is at.
Current(p) == p \in todo /\ \A q \in todo : p <= q

\* browser: the session opens, or every friend gets the same failure.
SessionOpens ==
    /\ pc = "open"
    /\ pc' = IF todo = {} THEN "finish" ELSE "select"
    /\ UNCHANGED <<run, todo, verdict, stopped, denied, taskVars, authorized,
                   accState, retryVars, runVars, pressed>>

\* browser
SessionFails(result) ==
    /\ pc = "open"
    /\ todo # {}
    /\ pc' = "failing"
    /\ verdict' = result
    /\ UNCHANGED <<run, todo, stopped, denied, taskVars, authorized,
                   accState, retryVars, runVars, pressed>>

\* on_result: record the friend, stop the account when the login is gone.
\* When the account row was deleted meanwhile the incident raises: nothing is
\* recorded and the batch ends.
OnResult(p, result, resume) ==
    /\ IF result.code = "login_expired" /\ accState[runAccount[run]] = "absent"
       THEN /\ pc' = "finish"
            /\ UNCHANGED <<rows, todo, accState, enabled, next, ripe>>
       ELSE /\ rows' = [rows EXCEPT ![run][p] = Recorded(rows[run][p], result)]
            /\ todo' = todo \ {p}
            /\ pc' = IF todo' = {} THEN "finish" ELSE resume
            /\ IF result.code = "login_expired" THEN AuthIncident(runAccount[run])
               ELSE UNCHANGED <<accState, enabled, next, ripe>>
    /\ stopped' = (stopped \/ result.code = "login_expired")
    /\ denied' = (denied \/ result.code = "authorization_ended")
    /\ UNCHANGED <<run, verdict, account, friends, edition, authorized, retryVars,
                   nruns, status, runAccount, runEdition, origin, pressed>>

RecordSessionFailure(p) ==
    /\ pc = "failing"
    /\ Current(p)
    /\ OnResult(p, verdict, "failing")

\* A lost login ends the loop; any other failure goes on to the next friend.
SelectFails(p, result) ==
    /\ pc = "select"
    /\ Current(p)
    /\ OnResult(p, result, IF result = LoginExpired THEN "finish" ELSE "select")

\* Faulty: pauses, lost logins and ended quotas are not read again.
MaySendUnchecked(p) == rows[run][p].status = "pending"

MaySend(p) ==
    /\ rows[run][p].status = "pending"
    /\ Allowed
    /\ account = runAccount[run]

\* Faulty: Enter is pressed before the checkpoint is written.
BeforeSendUnwritten(p) ==
    /\ pc = "select"
    /\ Current(p)
    /\ MaySend(p)
    /\ pc' = "checkpoint"
    /\ UNCHANGED <<run, todo, verdict, stopped, denied, taskVars, authorized,
                   accState, retryVars, runVars, pressed>>

\* before_send: the durable checkpoint, committed before Enter.
BeforeSend(p) ==
    /\ pc = "select"
    /\ Current(p)
    /\ MaySend(p)
    /\ rows' = [rows EXCEPT ![run][p].status = "sending", ![run][p].stage = "sending"]
    /\ pc' = "checkpoint"
    /\ UNCHANGED <<run, todo, verdict, stopped, denied, taskVars, authorized,
                   accState, retryVars, nruns, status, runAccount, runEdition,
                   origin, pressed>>

BeforeSendDenied(p) ==
    /\ pc = "select"
    /\ Current(p)
    /\ ~MaySend(p)
    /\ pc' = "refused"
    /\ denied' = TRUE
    /\ UNCHANGED <<run, todo, verdict, stopped, taskVars, authorized, accState,
                   retryVars, runVars, pressed>>

\* The executor reports the refusal and the loop ends.
RecordDenial(p) ==
    /\ pc = "refused"
    /\ Current(p)
    /\ OnResult(p, Denial, "finish")

CheckpointFails(p, result) ==
    /\ pc = "checkpoint"
    /\ Current(p)
    /\ OnResult(p, result, "select")

\* browser: the one Enter.
PressEnter(p) ==
    /\ pc = "checkpoint"
    /\ Current(p)
    /\ pressed' = [pressed EXCEPT ![origin[run]][p] = @ + 1]
    /\ pc' = "pressed"
    /\ UNCHANGED <<run, todo, verdict, stopped, denied, taskVars, authorized,
                   accState, retryVars, runVars>>

Confirms(p, result) ==
    /\ pc = "pressed"
    /\ Current(p)
    /\ OnResult(p, result, "select")

\* browser: the three-minute timeout, a browser error or a failed callback
\* ends the batch; checkpoints decide what is safe.
BatchAborts ==
    /\ pc \in {"open", "failing", "select", "refused", "checkpoint", "pressed"}
    /\ pc' = "finish"
    /\ UNCHANGED <<run, todo, verdict, stopped, denied, taskVars, authorized,
                   accState, retryVars, runVars, pressed>>

-----------------------------------------------------------------------------
(* The last transaction of _run_batch.                                     *)

Closed == [p \in Position |-> Interrupted(rows[run][p], ~(stopped \/ denied))]

CloseRows ==
    /\ pc = "finish"
    /\ rows' = [rows EXCEPT ![run] = Closed]
    /\ JobExits
    /\ UNCHANGED <<account, edition, authorized, asked, manual, nruns,
                   runAccount, runEdition, origin, pressed>>

MayRetry == Retryable(Closed) /\ enabled /\ ~stopped /\ ~denied

\* _schedule_retry found a delay not used lately; the run is remembered.
FinishWithRetry ==
    /\ CloseRows
    /\ MayRetry
    /\ \E t \in Instant : Reschedule(t) /\ link' = [source |-> run, at |-> t]
    /\ status' = [status EXCEPT ![run] = "failed"]
    /\ UNCHANGED <<enabled, friends, accState>>

ChatUnavailable ==
    Listed(Closed) # {} /\ \A p \in Listed(Closed) : Closed[p].code = "chat_ui_unavailable"

\* _pause_stuck_selection_recipients: friends that could not be selected today
\* and on the two days before (the history is arbitrary here) leave the task;
\* the last one stays and pauses it.
RemoveStuck(stuck) ==
    IF friends \ stuck # {}
    THEN friends' = friends \ stuck /\ UNCHANGED <<enabled, next, ripe>>
    ELSE /\ \E p \in friends : /\ \A q \in friends : q <= p
                               /\ friends' = {p}
         /\ Pause

StuckToday ==
    {p \in Position : /\ Closed[p].stage = "selecting_target"
                      /\ Closed[p].status \notin {"none", "success", "submitted"}}

\* No retry: not allowed, nothing retryable, or both delays used lately.
FinishForGood ==
    /\ CloseRows
    /\ ~ChatUnavailable
    /\ status' = [status EXCEPT ![run] = Summary(Closed)]
    /\ UNCHANGED <<link, accState>>
    /\ \/ /\ Summary(Closed) = "success"
          /\ UNCHANGED <<friends, enabled, next, ripe>>
       \/ /\ Summary(Closed) # "success"
          /\ \E stuck \in SUBSET StuckToday : RemoveStuck(stuck)

\* Every friend met an unusable chat page: the account is stopped too.  For a
\* deleted account the incident raises, and the next job recovers the run.
FinishChatUnavailable ==
    /\ CloseRows
    /\ ChatUnavailable
    /\ accState[runAccount[run]] # "absent"
    /\ AuthIncident(runAccount[run])
    /\ status' = [status EXCEPT ![run] = Summary(Closed)]
    /\ UNCHANGED <<link, friends>>

\* The job dies: killed by the supervisor at its timeout, by its own alarm,
\* with its host, or by an exception outside the batch.
JobDies ==
    /\ pc # "off"
    /\ JobExits
    /\ UNCHANGED <<taskVars, authorized, accState, retryVars, runVars, pressed>>

-----------------------------------------------------------------------------
(* The owner, the administrator, the quota and the clock.                  *)

TimeArrives ==
    /\ next # NoTime
    /\ ~ripe
    /\ ripe' = TRUE
    /\ UNCHANGED <<enabled, next, account, friends, edition, authorized,
                   accState, retryVars, runVars, jobVars, pressed>>

\* set_enabled(FALSE) leaves next_run_at as it is.
Disable ==
    /\ enabled
    /\ enabled' = FALSE
    /\ UNCHANGED <<next, ripe, account, friends, edition, authorized, accState,
                   retryVars, runVars, jobVars, pressed>>

\* set_enabled(TRUE): an account (in any state), a quota slot, the daily time.
Enable ==
    /\ ~enabled
    /\ account # NoAccount
    /\ authorized
    /\ enabled' = TRUE
    /\ \E t \in Instant : Reschedule(t)
    /\ UNCHANGED <<account, friends, edition, authorized, accState, retryVars,
                   runVars, jobVars, pressed>>

\* Faulty: a running batch does not refuse the edit.
EditAnytime(a) ==
    /\ edition < MaxEdits
    /\ accState[a] # "absent"
    /\ enabled => authorized
    /\ account' = a
    /\ friends' = Position
    /\ edition' = edition + 1
    /\ link' = NoLink
    /\ \E t \in Instant : Reschedule(t)
    /\ UNCHANGED <<enabled, authorized, accState, asked, manual, runVars,
                   jobVars, pressed>>

\* update_owned with a new list of friends: the remembered retry goes.
Edit(a) ==
    /\ Running = {}
    /\ edition < MaxEdits
    /\ accState[a] # "absent"
    /\ enabled => authorized
    /\ account' = a
    /\ friends' = Position
    /\ edition' = edition + 1
    /\ link' = NoLink
    /\ \E t \in Instant : Reschedule(t)
    /\ UNCHANGED <<enabled, authorized, accState, asked, manual, runVars,
                   jobVars, pressed>>

\* delete_owned of the account is not refused while a run is going on.
DeleteAccount(a) ==
    /\ accState[a] # "absent"
    /\ accState' = [accState EXCEPT ![a] = "absent"]
    /\ IF account = a THEN enabled' = FALSE /\ account' = NoAccount
       ELSE UNCHANGED <<enabled, account>>
    /\ UNCHANGED <<next, ripe, friends, edition, authorized, retryVars, runVars,
                   jobVars, pressed>>

\* A successful scan binds the account again.
Rebind(a) ==
    /\ accState[a] \in {"unverified", "invalid"}
    /\ accState' = [accState EXCEPT ![a] = "valid"]
    /\ UNCHANGED <<taskVars, authorized, retryVars, runVars, jobVars, pressed>>

QuotaEnds ==
    /\ authorized
    /\ authorized' = FALSE
    /\ UNCHANGED <<taskVars, accState, retryVars, runVars, jobVars, pressed>>

QuotaReturns ==
    /\ ~authorized
    /\ authorized' = TRUE
    /\ UNCHANGED <<taskVars, accState, retryVars, runVars, jobVars, pressed>>

\* reconcile_user after an administrator's change of the owner's quota.
QuotaPauses ==
    /\ enabled
    /\ ~authorized
    /\ Pause
    /\ UNCHANGED <<account, friends, edition, authorized, accState, retryVars,
                   runVars, jobVars, pressed>>

\* Friends of a run that are known not to have been sent to.
SafeStages == {"authenticating", "selecting_target", "not_started", "queued"}
SafeCodes ==
    {"conversation_not_opened", "target_not_found", "chat_load_failed",
     "chat_ui_unavailable", "login_expired", "batch_not_started"}
\* Faulty: every failed friend may be chosen.
ManualSafeAnyFailure(row) == row.status \in {"failed", "pending"}

ManualSafe(row) ==
    \/ row.status = "failed" /\ row.stage \in SafeStages /\ row.code \in SafeCodes
    \/ row.status = "pending" /\ row.stage \in {"queued", "not_started"}

\* ManualRetryService.schedule for the latest run r and the chosen friends.
ScheduleManual(r, chosen) ==
    /\ r = nruns
    /\ r \notin asked
    /\ status[r] \in {"failed", "partial", "skipped"}
    /\ enabled
    /\ account # NoAccount
    /\ accState[account] = "valid"
    /\ authorized
    /\ Running = {}
    /\ link = NoLink
    /\ IF Listed(rows[r]) = {}
       THEN status[r] = "skipped" /\ chosen = {}
       ELSE /\ status[r] # "skipped"
            /\ chosen # {}
            /\ \A p \in chosen : ManualSafe(rows[r][p])
            /\ runAccount[r] = account
            /\ runEdition[r] = edition
            /\ Listed(rows[r]) = friends
    /\ asked' = asked \cup {r}
    /\ manual' = [manual EXCEPT ![r] = chosen]
    /\ \E t \in Instant :
          /\ Reschedule(t)
          /\ link' = IF chosen = {} THEN link ELSE [source |-> r, at |-> t]
    /\ UNCHANGED <<enabled, account, friends, edition, authorized, accState,
                   runVars, jobVars, pressed>>

-----------------------------------------------------------------------------

Start == StartJob \/ \E r \in Run : Recover(r)
Claim ==
    \/ ClaimPausesUnauthorized
    \/ ClaimFindsNothing
    \/ \E r \in Run : ClaimEndsEarly(r) \/ ClaimFresh(r) \/ ClaimRetry(r)
Batch ==
    \/ SessionOpens
    \/ \E result \in SessionFailure : SessionFails(result)
    \/ \E p \in Position :
          \/ RecordSessionFailure(p)
          \/ BeforeSend(p)
          \/ BeforeSendDenied(p)
          \/ RecordDenial(p)
          \/ PressEnter(p)
          \/ \E result \in SelectFailure : SelectFails(p, result)
          \/ \E result \in CheckpointFailure : CheckpointFails(p, result)
          \/ \E result \in Confirmation : Confirms(p, result)
    \/ BatchAborts
Finish == FinishWithRetry \/ FinishForGood \/ FinishChatUnavailable
Job == Start \/ Claim \/ Batch \/ Finish \/ JobDies
Environment ==
    \/ TimeArrives \/ Disable \/ Enable
    \/ \E a \in Account : Edit(a) \/ DeleteAccount(a) \/ Rebind(a)
    \/ QuotaEnds \/ QuotaReturns \/ QuotaPauses
    \/ \E r \in Run, chosen \in SUBSET Position : ScheduleManual(r, chosen)

\* Observation: Enter presses since sending was last allowed.
Observe ==
    overrun' = IF Allowed' THEN 0
               ELSE IF pc = "checkpoint" /\ pc' = "pressed" THEN overrun + 1
               ELSE overrun

Next == (Job \/ Environment) /\ Observe

Spec == Init /\ [][Next]_vars
-----------------------------------------------------------------------------
(* Correctness.                                                            *)

TypeOK ==
    /\ enabled \in BOOLEAN /\ ripe \in BOOLEAN /\ authorized \in BOOLEAN
    /\ next \in Instant \cup {NoTime}
    /\ account \in Account \cup {NoAccount}
    /\ friends \subseteq Position
    /\ edition \in 0..MaxEdits
    /\ accState \in [Account -> {"absent", "unverified", "valid", "invalid"}]
    /\ link \in [source : 0..MaxRuns, at : Instant \cup {NoTime}]
    /\ asked \subseteq Run
    /\ manual \in [Run -> SUBSET Position]
    /\ nruns \in 0..MaxRuns
    /\ status \in [Run -> RunStatus]
    /\ rows \in [Run -> [Position -> Row]]
    /\ runAccount \in [Run -> Account \cup {NoAccount}]
    /\ runEdition \in [Run -> 0..MaxEdits]
    /\ pc \in Phase
    /\ run \in 0..MaxRuns
    /\ todo \subseteq Position
    /\ verdict \in Result
    /\ stopped \in BOOLEAN /\ denied \in BOOLEAN
    /\ origin \in [Run -> 0..MaxRuns]
    /\ pressed \in [Run -> [Position -> Nat]]
    /\ overrun \in Nat

Tail(r) == r <= nruns /\ \A q \in Run : q <= nruns /\ origin[q] = origin[r] => q <= r
Sent(r, p) == pressed[origin[r]][p]
Unsent(row) ==
    \/ row.status = "pending"
    \/ row.status = "failed" /\ row.stage # "rejected"
Chain(o) == {r \in Run : r <= nruns /\ origin[r] = o}

\* Enter is pressed at most once for a friend of an occurrence, over all the
\* runs, crashes, automatic and manual retries of that occurrence.
NoDoubleSend == \A o \in Run, p \in Position : pressed[o][p] <= 1

\* A friend that the last run of an occurrence still calls unsent (so that a
\* retry may send to it) has not been sent to by any run of the occurrence.
UnsentIsUnsent ==
    \A r \in Run : Tail(r) =>
        \A p \in Position : Unsent(rows[r][p]) => Sent(r, p) = 0

\* A friend recorded as reached was sent to, and a run that is not running
\* leaves no friend open: "pending" and "sending" rows are always closed.
OutcomeIsHonest ==
    \A r \in Run : r <= nruns =>
        \A p \in Position :
            /\ rows[r][p].status \in {"success", "submitted"} => Sent(r, p) = 1
            /\ status[r] # "running" => rows[r][p].status \notin {"pending", "sending"}

\* What is known of a friend is carried into every later run of the occurrence:
\* a friend that was reached, or may have been, stays so in the retry runs.
OutcomesAreKept ==
    \A r, q \in Run :
        (r < q /\ q <= nruns /\ origin[r] = origin[q]) =>
            \A p \in Position :
                rows[r][p].status \in {"success", "submitted", "uncertain"}
                    => rows[q][p].status = rows[r][p].status

\* At most one run is running: the last one, and the job's own while a job works.
OneRunning ==
    \A r \in Run : status[r] = "running" =>
        r = nruns /\ link.source = 0 /\ (pc \in {"off", "ready"} \/ run = r)

\* At most one friend of the task is checkpointed at any time, so an interrupted
\* job leaves at most one outcome unknown.
OneInFlight ==
    \A r, q \in Run, p, s \in Position :
        (rows[r][p].status = "sending" /\ rows[q][s].status = "sending") => (r = q /\ p = s)

\* The remembered retry continues the last run of its occurrence, and that run
\* has ended: no occurrence is ever continued from two runs.
LinkIsTail ==
    link.source # 0 => /\ status[link.source] \in {"failed", "partial"}
                       /\ Tail(link.source)

\* A run works with the list of friends its owner saved last, retries included.
RunsCurrentEdition == \A r \in Run : status[r] = "running" => runEdition[r] = edition

\* After a pause, an edit of the account, a lost login or the end of the quota
\* at most the one Enter that was already checkpointed is still pressed.
StopBoundsInFlight == overrun <= 1

\* The friend as Delivery sees it: what was done, and else what the last run of
\* the occurrence records.
Latest(o) == CHOOSE r \in Chain(o) : \A q \in Chain(o) : q <= r
OutcomeOf(o, p) ==
    IF pressed[o][p] > 1 THEN "twice"
    ELSE IF pressed[o][p] = 1 THEN "sent"
    ELSE IF Chain(o) = {} THEN "unsent"
    ELSE IF rows[Latest(o)][p].status = "sending" THEN "committed"
    ELSE IF rows[Latest(o)][p].status = "uncertain" THEN "lost"
    ELSE "unsent"
Promise(o, p) == INSTANCE Delivery WITH outcome <- OutcomeOf(o, p)

\* The batch keeps the promise of Delivery for every friend of every occurrence:
\* a friend is sent to once, after a checkpoint, or given up for good when
\* nobody knows whether it was.  (\A o, p : Promise(o, p)!Spec, in TLC's form.)
KeepsPromise ==
    /\ \A o \in Run, p \in Position : Promise(o, p)!Init
    /\ [][\A o \in Run, p \in Position :
            [Promise(o, p)!Next]_(OutcomeOf(o, p))]_vars

-----------------------------------------------------------------------------
(* The inductive invariant behind NoDoubleSend and the history of a run.    *)

\* Runs are numbered as they are claimed; a retry run keeps the occurrence of
\* an earlier run; nothing is sent in an occurrence that has no run yet.
NumberingInv ==
    /\ \A r \in Run : r <= nruns => origin[r] \in 1..r
    /\ \A r \in Run : r > nruns =>
          /\ status[r] = "none" /\ r \notin asked
          /\ \A p \in Position : rows[r][p] = NoRow /\ pressed[r][p] = 0

\* Only the last run may be running, and then no retry is remembered; an ended
\* run has no open friend.
RunningInv ==
    \A r \in Run :
        /\ status[r] = "running" => r = nruns /\ link.source = 0
        /\ status[r] # "running" =>
              \A p \in Position : rows[r][p].status \notin {"pending", "sending"}

\* The job works on the running run: the friends it still has to do are
\* pending, but for the one whose checkpoint is open.
JobInv ==
    /\ pc = "ready" => \A r \in Run : status[r] # "running"
    /\ pc \in {"off", "ready"} => run = 0
    /\ pc \notin {"off", "ready"} => run \in Run /\ status[run] = "running"
    /\ pc \notin {"off", "ready", "finish"} =>
          \A p \in todo :
              \/ rows[run][p].status = "pending"
              \/ /\ pc \in {"checkpoint", "pressed"}
                 /\ Current(p)
                 /\ rows[run][p].status = "sending"
    /\ pc = "checkpoint" =>
          \A p \in todo : Current(p) => rows[run][p].status = "sending" /\ Sent(run, p) = 0
    /\ pc = "pressed" =>
          \A p \in todo : Current(p) => rows[run][p].status = "sending"

\* A retryable friend failed unsent, and so is every friend chosen for a manual retry.
RetryInv ==
    /\ \A r \in Run, p \in Position :
          rows[r][p].retryable => rows[r][p].status = "failed" /\ Unsent(rows[r][p])
    /\ \A r \in asked :
          status[r] # "running" /\ \A p \in manual[r] : Unsent(rows[r][p])

\* The remembered retry continues the last run of its occurrence.
LinkInv == link.source # 0 => link.source \in Run /\ Tail(link.source)

\* Only the friend the job is at has an open checkpoint; once Enter is pressed he
\* was sent to; and a session that failed has no verdict of success.
CheckpointInv ==
    /\ pc \in {"open", "failing", "select", "refused"} =>
          \A p \in Position : rows[run][p].status # "sending"
    /\ pc \in {"checkpoint", "pressed"} =>
          \A p \in Position : rows[run][p].status = "sending" => Current(p)
    /\ pc = "pressed" => \A p \in todo : Current(p) => Sent(run, p) = 1
    /\ pc = "failing" => verdict \in SessionFailure

\* What the records say for good: one open checkpoint at most, sent to whoever was
\* reached, kept in the runs that follow, and one retry, of the owner's last
\* edition, that continues the last run.
ReachedIsSent ==
    \A r \in Run, p \in Position :
        rows[r][p].status \in {"success", "submitted"} => Sent(r, p) = 1
RecordsInv ==
    /\ \A r \in Run, p, s \in Position :
          rows[r][p].status = "sending" /\ rows[r][s].status = "sending" => p = s
    /\ ReachedIsSent
    /\ OutcomesAreKept
    /\ LinkIsTail
    /\ RunsCurrentEdition
    /\ link.source # 0 => runEdition[link.source] = edition

IInv ==
    /\ TypeOK /\ NumberingInv /\ RunningInv /\ JobInv /\ RetryInv /\ LinkInv
    /\ UnsentIsUnsent /\ NoDoubleSend /\ CheckpointInv /\ RecordsInv

-----------------------------------------------------------------------------
(* Liveness: the supervisor starts a job again and again, and a job goes on *)
(* or is killed at its timeout.  Nobody else is asked to act.               *)

FairSpec == Spec /\ WF_vars(Job /\ Observe)

\* Every run ends: in its own job or by the recovery of a later one.
RunEventuallyFinished ==
    \A r \in Run : status[r] = "running" ~> status[r] # "running"
=============================================================================
