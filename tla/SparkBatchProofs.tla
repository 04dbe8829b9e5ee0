-------------------------- MODULE SparkBatchProofs --------------------------
(* Theorems about SparkBatch, for every list of friends, every set of       *)
(* accounts and every bound.                                                *)
EXTENDS SparkBatch, WellFoundedInduction, TLAPS

ResultRecord ==
    [ok : BOOLEAN, stage : Stage, code : Code, retryable : BOOLEAN]

LEMMA FailureType ==
    ASSUME NEW stage \in Stage, NEW code \in Code, NEW retryable \in BOOLEAN
    PROVE  Failure(stage, code, retryable) \in ResultRecord
BY DEF Failure, ResultRecord

LEMMA SuccessType ==
    ASSUME NEW stage \in Stage
    PROVE  Success(stage) \in ResultRecord
BY DEF Success, ResultRecord, Code

\* What the executor reports has the fields of an ExecutionResult.
LEMMA ResultType == Result \subseteq ResultRecord
<1>1. /\ LoginExpired \in ResultRecord
      /\ Denial \in ResultRecord
      /\ Unknown \in ResultRecord
  BY FailureType DEF LoginExpired, Denial, Unknown, Stage, Code
<1>2. /\ Failure("authenticating", "chat_ui_unavailable", TRUE) \in ResultRecord
      /\ Failure("authenticating", "chat_load_failed", TRUE) \in ResultRecord
  BY FailureType DEF Stage, Code
<1>3. /\ Failure("selecting_target", "target_not_found", FALSE) \in ResultRecord
      /\ Failure("selecting_target", "conversation_not_opened", TRUE) \in ResultRecord
  BY FailureType DEF Stage, Code
<1>4. /\ Failure("rejected", "delivery_rejected", FALSE) \in ResultRecord
      /\ Success("complete") \in ResultRecord
      /\ Success("submitted") \in ResultRecord
  BY FailureType, SuccessType DEF Stage, Code
<1>5. SessionFailure \subseteq ResultRecord
  BY <1>1, <1>2 DEF SessionFailure, Modelled
<1>6. SelectFailure \subseteq ResultRecord
  BY <1>1, <1>3 DEF SelectFailure, Modelled
<1>7. CheckpointFailure \subseteq ResultRecord
  BY <1>1, <1>3 DEF CheckpointFailure, Modelled
<1>8. Confirmation \subseteq ResultRecord
  BY <1>1, <1>4 DEF Confirmation, Modelled
<1> QED
  BY <1>1, <1>5, <1>6, <1>7, <1>8 DEF Result

\* record() keeps the shape of a row.
LEMMA RecordedType ==
    ASSUME NEW row \in Row, NEW result \in Result
    PROVE  Recorded(row, result) \in Row
<1>1. result \in ResultRecord
  BY ResultType
<1>2. RecordedStatus(result) \in RowStatus
  BY DEF RecordedStatus, RowStatus
<1> QED
  BY <1>1, <1>2 DEF Recorded, Row, ResultRecord

\* interrupt() keeps the shape of a row.
LEMMA InterruptedType ==
    ASSUME NEW row \in Row, NEW retryPending
    PROVE  Interrupted(row, retryPending) \in Row
BY DEF Interrupted, Unconfirmed, NotStarted, Row, RowStatus, Stage, Code

LEMMA QueuedType == \A n \in Nat : Queued(n) \in Row
BY DEF Queued, Row, RowStatus, Stage, Code

LEMMA NoRowType == NoRow \in Row
BY DEF NoRow, Row, RowStatus, Stage, Code

\* prepare() copies a row, or queues the friend again.
LEMMA CopiedType ==
    ASSUME TypeOK, NEW source \in Run, NEW p \in Position
    PROVE  Copied(source, p) \in Row
<1> DEFINE row == rows[source][p]
<1>1. row \in Row
  BY DEF TypeOK
<1>2. 1 \in Nat /\ row.attempt + 1 \in Nat
  BY <1>1 DEF Row
<1>3. [row EXCEPT !.retryable = FALSE, !.attempt = 1] \in Row
  BY <1>1 DEF Row
<1>4. Queued(IF source \in asked THEN 1 ELSE row.attempt + 1) \in Row
  BY <1>2, QueuedType
<1> QED
  BY <1>3, <1>4, NoRowType DEF Copied

-----------------------------------------------------------------------------
(* Type correctness.                                                       *)

LEMMA TypeInit == Init => TypeOK
<1> SUFFICES ASSUME Init PROVE TypeOK
  OBVIOUS
<1>1. [r \in Run |-> [p \in Position |-> NoRow]] \in [Run -> [Position -> Row]]
  BY NoRowType
<1>2. link \in [source : 0..MaxRuns, at : Instant \cup {NoTime}]
  BY BoundAssumption DEF Init, NoLink
<1>3. Unknown \in Result /\ "off" \in Phase /\ "none" \in RunStatus
  BY DEF Result, Phase, RunStatus
<1>4. 0 \in 0..MaxRuns /\ 0 \in 0..MaxEdits
  BY BoundAssumption
<1>5. /\ accState \in [Account -> {"absent", "unverified", "valid", "invalid"}]
      /\ pressed \in [Run -> [Position -> Nat]]
  BY DEF Init
<1> QED
  BY <1>1, <1>2, <1>3, <1>4, <1>5 DEF Init, TypeOK

LEMMA TypeObserve ==
    ASSUME TypeOK, Observe
    PROVE  overrun' \in Nat
BY DEF TypeOK, Observe

LEMMA RescheduleType ==
    ASSUME NEW t, Reschedule(t)
    PROVE  next' \in Instant /\ ripe' \in BOOLEAN /\ t \in Instant
BY DEF Reschedule

LEMMA AuthIncidentType ==
    ASSUME TypeOK, NEW a, AuthIncident(a)
    PROVE  /\ accState' \in [Account -> {"absent", "unverified", "valid", "invalid"}]
           /\ enabled' \in BOOLEAN /\ ripe' \in BOOLEAN
           /\ next' \in Instant \cup {NoTime}
BY DEF TypeOK, AuthIncident, Pause

LEMMA OnResultType ==
    ASSUME TypeOK, Observe, NEW p \in Position, NEW result \in Result,
           NEW resume \in Phase, OnResult(p, result, resume)
    PROVE  TypeOK'
<1>1. run \in Run => Recorded(rows[run][p], result) \in Row
  BY RecordedType DEF TypeOK
<1>2. rows' \in [Run -> [Position -> Row]]
  <2>1. CASE rows' = rows
    BY <2>1 DEF TypeOK
  <2>2. CASE rows' = [rows EXCEPT ![run][p] = Recorded(rows[run][p], result)]
    <3>1. CASE run \in Run
      BY <1>1, <2>2, <3>1 DEF TypeOK
    <3>2. CASE run \notin Run
      BY <2>2, <3>2 DEF TypeOK
    <3> QED
      BY <3>1, <3>2
  <2> QED
    BY <2>1, <2>2 DEF OnResult
<1>3. /\ accState' \in [Account -> {"absent", "unverified", "valid", "invalid"}]
      /\ enabled' \in BOOLEAN /\ ripe' \in BOOLEAN
      /\ next' \in Instant \cup {NoTime}
  BY AuthIncidentType DEF OnResult, TypeOK
<1>4. todo' \subseteq Position /\ pc' \in Phase
  BY DEF OnResult, TypeOK, Phase
<1>5. stopped' \in BOOLEAN /\ denied' \in BOOLEAN
  BY Zenon DEF OnResult, TypeOK
<1> QED
  BY <1>2, <1>3, <1>4, <1>5, TypeObserve DEF OnResult, TypeOK, retryVars

LEMMA ClosedType == TypeOK /\ run \in Run => Closed \in [Position -> Row]
<1> SUFFICES ASSUME TypeOK, run \in Run,
                    NEW p \in Position
             PROVE  Interrupted(rows[run][p], ~(stopped \/ denied)) \in Row
  BY DEF Closed
<1>1. rows[run][p] \in Row
  BY DEF TypeOK
<1> QED
  BY <1>1, InterruptedType

LEMMA OpensType ==
    ASSUME TypeOK, Observe, NEW r \in Run, NEW first \in [Position -> Row],
           Claims(r), Opens(r, first), runEdition' \in [Run -> 0..MaxEdits],
           origin' \in [Run -> 0..MaxRuns]
    PROVE  TypeOK'
<1>1. next' \in Instant /\ ripe' \in BOOLEAN
  BY RescheduleType DEF Claims
<1>2. /\ status' \in [Run -> RunStatus]
      /\ rows' \in [Run -> [Position -> Row]]
  BY DEF TypeOK, Opens, RunStatus
<1>2a. /\ runAccount' \in [Run -> Account \cup {NoAccount}]
  BY DEF TypeOK, Opens, RunStatus
<1>3. /\ link' \in [source : 0..MaxRuns, at : Instant \cup {NoTime}]
      /\ run' \in 0..MaxRuns /\ nruns' \in 0..MaxRuns
  BY BoundAssumption DEF Opens, Claims, NoLink, Run
<1>4. pc' \in Phase /\ todo' \subseteq Position
  BY DEF Opens, Phase
<1> QED
  BY <1>1, <1>2, <1>2a, <1>3, <1>4, TypeObserve DEF TypeOK, Opens, Claims

LEMMA JobExitsType ==
    ASSUME JobExits
    PROVE  /\ pc' \in Phase /\ run' \in 0..MaxRuns /\ todo' \subseteq Position
           /\ verdict' \in Result /\ stopped' \in BOOLEAN /\ denied' \in BOOLEAN
<1>1. Unknown \in Result
  BY DEF Result
<1>2. 0 \in 0..MaxRuns
  BY BoundAssumption
<1>3. "off" \in Phase
  BY DEF Phase
<1> QED
  BY <1>1, <1>2, <1>3 DEF JobExits

LEMMA TypeStep == TypeOK /\ [Next]_vars => TypeOK'
<1> SUFFICES ASSUME TypeOK, [Next]_vars PROVE TypeOK'
  OBVIOUS
<1>1. CASE UNCHANGED vars
  BY <1>1 DEF TypeOK, vars, taskVars, retryVars, runVars, jobVars
<1>2. CASE Job /\ Observe
  <2> USE <1>2
  <2>1. overrun' \in Nat
    BY TypeObserve
  <2>2. CASE StartJob
    BY <2>1, <2>2 DEF StartJob, TypeOK, Phase, taskVars, retryVars, runVars
  <2>3. ASSUME NEW r \in Run, Recover(r) PROVE TypeOK'
    <3> DEFINE closed == [p \in Position |-> Interrupted(rows[r][p], TRUE)]
    <3>1. closed \in [Position -> Row]
      <4>1. ASSUME NEW p \in Position PROVE Interrupted(rows[r][p], TRUE) \in Row
        <5>1. rows[r][p] \in Row
          BY DEF TypeOK
        <5> QED
          BY <5>1, InterruptedType
      <4> QED
        BY <4>1
    <3>2. Summary(closed) \in RunStatus
      BY DEF Summary, RunStatus
    <3>3. /\ rows' = [rows EXCEPT ![r] = closed]
          /\ status' = [status EXCEPT ![r] = Summary(closed)]
      BY <2>3 DEF Recover
    <3>4. rows' \in [Run -> [Position -> Row]] /\ status' \in [Run -> RunStatus]
      BY <3>1, <3>2, <3>3 DEF TypeOK
    <3>5. /\ next' \in Instant \cup {NoTime} /\ ripe' \in BOOLEAN
          /\ link' \in [source : 0..MaxRuns, at : Instant \cup {NoTime}]
      <4>1. CASE \E t \in Instant : Reschedule(t) /\ link' = [source |-> r, at |-> t]
        BY <4>1, RescheduleType DEF Run
      <4>2. CASE UNCHANGED <<next, ripe, link>>
        BY <4>2 DEF TypeOK
      <4> QED
        BY <2>3, <4>1, <4>2 DEF Recover
    <3> QED
      BY <2>1, <2>3, <3>4, <3>5 DEF Recover, TypeOK, Phase
  <2>4. CASE ClaimPausesUnauthorized
    BY <2>1, <2>4, JobExitsType
       DEF ClaimPausesUnauthorized, Pause, TypeOK, retryVars, runVars
  <2>5. CASE ClaimFindsNothing
    BY <2>1, <2>5, JobExitsType DEF ClaimFindsNothing, TypeOK, taskVars, retryVars, runVars
  <2>6. ASSUME NEW r \in Run, ClaimEndsEarly(r) PROVE TypeOK'
    <3>1. next' \in Instant /\ ripe' \in BOOLEAN /\ nruns' \in 0..MaxRuns
      <4>1. PICK t \in Instant : Reschedule(t)
        BY <2>6 DEF ClaimEndsEarly, Claims
      <4> QED
        BY <2>6, <4>1, RescheduleType DEF ClaimEndsEarly, Claims, Run
    <3>2. status' \in [Run -> RunStatus] /\ origin' \in [Run -> 0..MaxRuns]
      BY <2>6 DEF ClaimEndsEarly, TypeOK, RunStatus, Run
    <3> QED
      BY <2>1, <2>6, <3>1, <3>2, JobExitsType DEF ClaimEndsEarly, Claims, TypeOK
  <2>7. ASSUME NEW r \in Run, ClaimFresh(r) PROVE TypeOK'
    <3> DEFINE first == [p \in Position |-> IF p \in friends THEN Queued(1) ELSE NoRow]
    <3>1. first \in [Position -> Row]
      BY QueuedType, NoRowType
    <3>2. runEdition' \in [Run -> 0..MaxEdits] /\ origin' \in [Run -> 0..MaxRuns]
      BY <2>7 DEF ClaimFresh, TypeOK, Run
    <3>3. Claims(r) /\ Opens(r, first)
      BY <2>7 DEF ClaimFresh
    <3> QED
      BY <3>1, <3>2, <3>3, OpensType
  <2>8. ASSUME NEW r \in Run, ClaimRetry(r) PROVE TypeOK'
    <3> DEFINE first == [p \in Position |-> Copied(link.source, p)]
    <3>1. link.source \in Run
      BY <2>8, BoundAssumption DEF ClaimRetry, LinkMatches, TypeOK, Run
    <3>2. first \in [Position -> Row]
      BY <3>1, CopiedType
    <3>3. runEdition' \in [Run -> 0..MaxEdits] /\ origin' \in [Run -> 0..MaxRuns]
      BY <2>8, <3>1 DEF ClaimRetry, TypeOK
    <3>4. Claims(r) /\ Opens(r, first)
      BY <2>8 DEF ClaimRetry
    <3> QED
      BY <3>2, <3>3, <3>4, OpensType
  <2>9. CASE SessionOpens
    BY <2>1, <2>9 DEF SessionOpens, TypeOK, Phase, taskVars, retryVars, runVars
  <2>10. ASSUME NEW result \in SessionFailure, SessionFails(result) PROVE TypeOK'
    BY <2>1, <2>10 DEF SessionFails, TypeOK, Phase, Result, taskVars, retryVars, runVars
  <2>11. ASSUME NEW p \in Position, RecordSessionFailure(p) PROVE TypeOK'
    <3>1. verdict \in Result /\ "failing" \in Phase
      BY DEF TypeOK, Phase
    <3> QED
      BY <2>11, <3>1, OnResultType DEF RecordSessionFailure
  <2>12. ASSUME NEW p \in Position, BeforeSend(p) PROVE TypeOK'
    <3>1. rows' \in [Run -> [Position -> Row]]
      <4>1. CASE run \in Run
        <5>1. rows[run][p] \in Row
          BY <4>1 DEF TypeOK
        <5>2. "sending" \in RowStatus /\ "sending" \in Stage
          BY DEF RowStatus, Stage
        <5>3. [rows[run][p] EXCEPT !.status = "sending", !.stage = "sending"] \in Row
          BY <5>1, <5>2 DEF Row
        <5> QED
          BY <2>12, <4>1, <5>3 DEF BeforeSend, TypeOK
      <4>2. CASE run \notin Run
        BY <2>12, <4>2 DEF BeforeSend, TypeOK
      <4> QED
        BY <4>1, <4>2
    <3> QED
      BY <2>1, <2>12, <3>1 DEF BeforeSend, TypeOK, Phase, taskVars, retryVars
  <2>13. ASSUME NEW p \in Position, BeforeSendDenied(p) PROVE TypeOK'
    BY <2>1, <2>13 DEF BeforeSendDenied, TypeOK, Phase, taskVars, retryVars, runVars
  <2>14. ASSUME NEW p \in Position, RecordDenial(p) PROVE TypeOK'
    <3>1. Denial \in Result /\ "finish" \in Phase
      BY DEF Result, Phase
    <3> QED
      BY <2>14, <3>1, OnResultType DEF RecordDenial
  <2>15. ASSUME NEW p \in Position, PressEnter(p) PROVE TypeOK'
    <3>1. pressed' \in [Run -> [Position -> Nat]]
      <4> DEFINE o == origin[run]
      <4>1. CASE o \in Run
        BY <2>15, <4>1 DEF PressEnter, TypeOK
      <4>2. CASE o \notin Run
        BY <2>15, <4>2 DEF PressEnter, TypeOK
      <4> QED
        BY <4>1, <4>2
    <3> QED
      BY <2>1, <2>15, <3>1 DEF PressEnter, TypeOK, Phase, taskVars, retryVars, runVars
  <2>16. ASSUME NEW p \in Position, NEW result \in SelectFailure, SelectFails(p, result)
         PROVE  TypeOK'
    <3>1. result \in Result /\ "finish" \in Phase /\ "select" \in Phase
      BY DEF Result, Phase
    <3> QED
      BY <2>16, <3>1, OnResultType DEF SelectFails
  <2>17. ASSUME NEW p \in Position, NEW result \in CheckpointFailure,
                CheckpointFails(p, result)
         PROVE  TypeOK'
    <3>1. result \in Result /\ "select" \in Phase
      BY DEF Result, Phase
    <3> QED
      BY <2>17, <3>1, OnResultType DEF CheckpointFails
  <2>18. ASSUME NEW p \in Position, NEW result \in Confirmation, Confirms(p, result)
         PROVE  TypeOK'
    <3>1. result \in Result /\ "select" \in Phase
      BY DEF Result, Phase
    <3> QED
      BY <2>18, <3>1, OnResultType DEF Confirms
  <2>19. CASE BatchAborts
    BY <2>1, <2>19 DEF BatchAborts, TypeOK, Phase, taskVars, retryVars, runVars
  <2>20. CASE Finish
    <3>1. ASSUME CloseRows PROVE rows' \in [Run -> [Position -> Row]]
      BY <3>1, ClosedType DEF CloseRows, TypeOK
    <3>2. Summary(Closed) \in RunStatus /\ "failed" \in RunStatus
      BY DEF Summary, RunStatus
    <3>3. CASE FinishWithRetry
      <4>1. PICK t \in Instant : Reschedule(t) /\ link' = [source |-> run, at |-> t]
        BY <3>3 DEF FinishWithRetry
      <4>2. /\ next' \in Instant /\ ripe' \in BOOLEAN
            /\ link' \in [source : 0..MaxRuns, at : Instant \cup {NoTime}]
        BY <4>1, RescheduleType DEF TypeOK
      <4> QED
        BY <2>1, <3>1, <3>2, <3>3, <4>2, JobExitsType DEF FinishWithRetry, CloseRows, TypeOK
    <3>4. CASE FinishForGood
      <4>1. /\ friends' \subseteq Position /\ enabled' \in BOOLEAN
            /\ next' \in Instant \cup {NoTime} /\ ripe' \in BOOLEAN
        <5>1. CASE UNCHANGED <<friends, enabled, next, ripe>>
          BY <5>1 DEF TypeOK
        <5>2. ASSUME NEW stuck, RemoveStuck(stuck)
              PROVE  /\ friends' \subseteq Position /\ enabled' \in BOOLEAN
                     /\ next' \in Instant \cup {NoTime} /\ ripe' \in BOOLEAN
          <6>1. friends' \subseteq friends
            BY <5>2 DEF RemoveStuck
          <6>2. Pause \/ UNCHANGED <<enabled, next, ripe>>
            BY <5>2 DEF RemoveStuck
          <6> QED
            BY <6>1, <6>2 DEF Pause, TypeOK
        <5> QED
          BY <3>4, <5>1, <5>2 DEF FinishForGood
      <4> QED
        BY <2>1, <3>1, <3>2, <3>4, <4>1, JobExitsType DEF FinishForGood, CloseRows, TypeOK
    <3>5. CASE FinishChatUnavailable
      BY <2>1, <3>1, <3>2, <3>5, JobExitsType, AuthIncidentType
         DEF FinishChatUnavailable, CloseRows, TypeOK
    <3> QED
      BY <2>20, <3>3, <3>4, <3>5 DEF Finish
  <2>21. CASE JobDies
    BY <2>1, <2>21, JobExitsType DEF JobDies, TypeOK, taskVars, retryVars, runVars
  <2> QED
    BY <2>2, <2>3, <2>4, <2>5, <2>6, <2>7, <2>8, <2>9, <2>10, <2>11, <2>12, <2>13,
       <2>14, <2>15, <2>16, <2>17, <2>18, <2>19, <2>20, <2>21
       DEF Job, Start, Claim, Batch
<1>3. CASE Environment /\ Observe
  <2> USE <1>3
  <2>1. overrun' \in Nat
    BY TypeObserve
  <2>2. CASE TimeArrives
    BY <2>1, <2>2 DEF TimeArrives, TypeOK, retryVars, runVars, jobVars
  <2>3. CASE Disable
    BY <2>1, <2>3 DEF Disable, TypeOK, retryVars, runVars, jobVars
  <2>4. CASE Enable
    BY <2>1, <2>4, RescheduleType DEF Enable, TypeOK, retryVars, runVars, jobVars
  <2>5. ASSUME NEW a \in Account, Edit(a) PROVE TypeOK'
    <3>1. /\ link' \in [source : 0..MaxRuns, at : Instant \cup {NoTime}]
          /\ edition' \in 0..MaxEdits
      BY <2>5, BoundAssumption DEF Edit, NoLink, TypeOK
    <3> QED
      BY <2>1, <2>5, <3>1, RescheduleType DEF Edit, TypeOK, runVars, jobVars
  <2>6. ASSUME NEW a \in Account, DeleteAccount(a) PROVE TypeOK'
    BY <2>1, <2>6 DEF DeleteAccount, TypeOK, retryVars, runVars, jobVars
  <2>7. ASSUME NEW a \in Account, Rebind(a) PROVE TypeOK'
    BY <2>1, <2>7 DEF Rebind, TypeOK, taskVars, retryVars, runVars, jobVars
  <2>8. CASE QuotaEnds
    BY <2>1, <2>8 DEF QuotaEnds, TypeOK, taskVars, retryVars, runVars, jobVars
  <2>8a. CASE QuotaReturns
    BY <2>1, <2>8a DEF QuotaReturns, TypeOK, taskVars, retryVars, runVars, jobVars
  <2>9. CASE QuotaPauses
    BY <2>1, <2>9 DEF QuotaPauses, Pause, TypeOK, retryVars, runVars, jobVars
  <2>10. ASSUME NEW r \in Run, NEW chosen \in SUBSET Position, ScheduleManual(r, chosen)
         PROVE  TypeOK'
    <3>1. PICK t \in Instant :
             /\ Reschedule(t)
             /\ link' = IF chosen = {} THEN link ELSE [source |-> r, at |-> t]
      BY <2>10 DEF ScheduleManual
    <3>2. link' \in [source : 0..MaxRuns, at : Instant \cup {NoTime}]
      BY <3>1 DEF TypeOK, Run
    <3>3. asked' \subseteq Run /\ manual' \in [Run -> SUBSET Position]
      BY <2>10 DEF ScheduleManual, TypeOK
    <3> QED
      BY <2>1, <2>10, <3>1, <3>2, <3>3, RescheduleType
         DEF ScheduleManual, TypeOK, runVars, jobVars
  <2> QED
    BY <2>2, <2>3, <2>4, <2>5, <2>6, <2>7, <2>8, <2>8a, <2>9, <2>10 DEF Environment
<1> QED
  BY <1>1, <1>2, <1>3 DEF Next

\* Every variable keeps its type.
THEOREM TypeCorrect == Spec => []TypeOK
<1> QED
  BY TypeInit, TypeStep, PTL DEF Spec

-----------------------------------------------------------------------------
(* Sending stops: the checkpoint read what a stop writes, so only the Enter *)
(* of a checkpoint that was already open can follow it.                    *)

StopInv ==
    /\ overrun \in {0, 1}
    /\ (Allowed \/ pc = "checkpoint") => overrun = 0

\* The owner, the administrator, the quota and the clock leave the job alone.
LEMMA EnvironmentKeepsJob == Environment => UNCHANGED jobVars
BY DEF Environment, TimeArrives, Disable, Enable, Edit, DeleteAccount, Rebind,
       QuotaEnds, QuotaReturns, QuotaPauses, ScheduleManual

\* Only before_send opens a checkpoint.
LEMMA CheckpointOpens ==
    ASSUME Next, pc # "checkpoint", pc' = "checkpoint"
    PROVE  \E p \in Position : BeforeSend(p)
<1>1. ~Environment
  BY EnvironmentKeepsJob DEF jobVars
<1>2. ~(Start \/ Claim)
  BY DEF Start, Claim, StartJob, Recover, ClaimPausesUnauthorized, ClaimFindsNothing,
         ClaimEndsEarly, ClaimFresh, ClaimRetry, Opens, JobExits
<1>3. ~(Finish \/ JobDies)
  BY DEF Finish, JobDies, FinishWithRetry, FinishForGood, FinishChatUnavailable,
         CloseRows, JobExits
<1>4. ASSUME NEW p, NEW result, NEW resume \in {"failing", "select", "finish"},
             OnResult(p, result, resume)
      PROVE  FALSE
  BY <1>4 DEF OnResult
<1>5. Batch
  BY <1>1, <1>2, <1>3 DEF Next, Job
<1>6. ~(SessionOpens \/ BatchAborts)
  BY DEF SessionOpens, BatchAborts
<1>7. \A result : ~SessionFails(result)
  BY DEF SessionFails
<1>8. \A p : ~(RecordSessionFailure(p) \/ RecordDenial(p))
  BY <1>4 DEF RecordSessionFailure, RecordDenial
<1>9. \A p : ~(BeforeSendDenied(p) \/ PressEnter(p))
  BY DEF BeforeSendDenied, PressEnter
<1>10. \A p, result : ~SelectFails(p, result)
  BY <1>4 DEF SelectFails
<1>11. \A p, result : ~(CheckpointFails(p, result) \/ Confirms(p, result))
  BY <1>4 DEF CheckpointFails, Confirms
<1> QED
  BY <1>5, <1>6, <1>7, <1>8, <1>9, <1>10, <1>11 DEF Batch

LEMMA StopInit == Init => StopInv
BY DEF Init, StopInv

LEMMA StopStep == StopInv /\ [Next]_vars => StopInv'
<1> SUFFICES ASSUME StopInv, [Next]_vars PROVE StopInv'
  OBVIOUS
<1>1. CASE UNCHANGED vars
  BY <1>1 DEF StopInv, Allowed, Usable, vars, taskVars, jobVars
<1>2. CASE Next
  <2>1. CASE pc' # "checkpoint" /\ pc # "checkpoint"
    BY <1>2, <2>1 DEF StopInv, Next, Observe
  <2>2. CASE pc = "checkpoint" /\ pc' # "checkpoint"
    BY <1>2, <2>2 DEF StopInv, Next, Observe
  <2>3. CASE pc = "checkpoint" /\ pc' = "checkpoint"
    BY <1>2, <2>3 DEF StopInv, Next, Observe
  <2>4. CASE pc # "checkpoint" /\ pc' = "checkpoint"
    <3>1. \E p \in Position : BeforeSend(p)
      BY <1>2, <2>4, CheckpointOpens
    <3>2. Allowed /\ Allowed'
      BY <3>1 DEF BeforeSend, MaySend, Allowed, Usable, taskVars
    <3> QED
      BY <1>2, <2>4, <3>2 DEF StopInv, Next, Observe
  <2> QED
    BY <2>1, <2>2, <2>3, <2>4
<1> QED
  BY <1>1, <1>2

\* After sending is forbidden at most the one checkpointed Enter follows.
THEOREM StopBounded == Spec => []StopBoundsInFlight
<1>1. StopInv => StopBoundsInFlight
  BY DEF StopInv, StopBoundsInFlight
<1> QED
  BY <1>1, StopInit, StopStep, PTL DEF Spec
-----------------------------------------------------------------------------
(* Enter is pressed at most once for a friend of an occurrence: the         *)
(* inductive invariant IInv.                                                *)

dataVars == <<link, asked, manual, nruns, status, rows, origin, pressed>>

DataInv ==
    /\ NumberingInv /\ RunningInv /\ RetryInv /\ LinkInv
    /\ UnsentIsUnsent /\ NoDoubleSend

LEMMA SafeInit == Init => DataInv /\ JobInv
<1> SUFFICES ASSUME Init PROVE DataInv /\ JobInv
  OBVIOUS
<1>1. nruns = 0 /\ \A r \in Run : ~(r <= nruns) /\ r > nruns
  BY BoundAssumption DEF Init, Run
<1>2. NumberingInv
  BY <1>1 DEF Init, NumberingInv
<1>3. RunningInv
  BY DEF Init, RunningInv, NoRow
<1>4. RetryInv /\ LinkInv /\ NoDoubleSend
  BY DEF Init, RetryInv, LinkInv, NoDoubleSend, NoRow, NoLink
<1>5. UnsentIsUnsent
  BY <1>1 DEF UnsentIsUnsent, Tail
<1>6. JobInv
  BY DEF Init, JobInv
<1> QED
  BY <1>2, <1>3, <1>4, <1>5, <1>6 DEF DataInv

LEMMA DataFrame == DataInv /\ UNCHANGED dataVars => DataInv'
BY DEF dataVars, DataInv, NumberingInv, RunningInv, RetryInv, LinkInv, UnsentIsUnsent,
       NoDoubleSend, Unsent, Tail, Sent

LEMMA JobFrame ==
    JobInv /\ UNCHANGED <<pc, run, todo, rows, status, origin, pressed>> => JobInv'
BY DEF JobInv, Current, Sent

-----------------------------------------------------------------------------
(* What the row transformers preserve.                                     *)

LEMMA RetryableIsUnsent ==
    ASSUME NEW row \in Row, NEW result \in Result
    PROVE  /\ Recorded(row, result).status \notin {"pending", "sending"}
           /\ Recorded(row, result).retryable =>
                 Recorded(row, result).status = "failed" /\ Unsent(Recorded(row, result))
<1>1. result.stage = "rejected" => result.retryable = FALSE
  BY DEF Result, SessionFailure, SelectFailure, CheckpointFailure, Confirmation,
         Modelled, LoginExpired, Denial, Unknown, Failure, Success
<1>2. Recorded(row, result).stage = result.stage
  BY DEF Recorded, Row
<1>3. Recorded(row, result).status = RecordedStatus(result)
  BY DEF Recorded, Row
<1>4. Recorded(row, result).retryable =>
         result.retryable /\ RecordedStatus(result) = "failed"
  BY DEF Recorded, Row
<1> QED
  BY <1>1, <1>2, <1>3, <1>4 DEF RecordedStatus, Unsent

LEMMA InterruptedKeeps ==
    ASSUME NEW row \in Row, NEW retryPending
    PROVE  LET new == Interrupted(row, retryPending) IN
           /\ new.status \notin {"pending", "sending"}
           /\ Unsent(new) => Unsent(row)
           /\ new.retryable => new = row \/ (new.status = "failed" /\ Unsent(new))
           /\ row.status \notin {"pending", "sending"} => new = row
BY DEF Interrupted, Unconfirmed, NotStarted, Row, Unsent

LEMMA OpenIsLast ==
    ASSUME TypeOK, DataInv, JobInv, pc \notin {"off", "ready"}
    PROVE  /\ run \in Run /\ run = nruns /\ status[run] = "running"
           /\ link.source = 0 /\ run \notin asked
           /\ origin[run] \in Run /\ Tail(run)
           /\ \A r \in Run : Tail(r) /\ origin[r] = origin[run] => r = run
<1>1. run \in Run /\ status[run] = "running"
  BY DEF JobInv
<1>2. run = nruns /\ link.source = 0 /\ run \notin asked
  BY <1>1 DEF DataInv, RunningInv, RetryInv
<1>3. origin[run] \in Run
  <2>1. origin[run] \in 1..run
    BY <1>1, <1>2 DEF DataInv, NumberingInv, Run
  <2> QED
    BY <1>1, <2>1, BoundAssumption DEF Run
<1>4. Tail(run)
  BY <1>1, <1>2 DEF Tail, Run
<1>5. \A r \in Run : Tail(r) /\ origin[r] = origin[run] => r = run
  BY <1>1, <1>2 DEF Tail, Run
<1> QED
  BY <1>1, <1>2, <1>3, <1>4, <1>5

-----------------------------------------------------------------------------
(* A friend's outcome is recorded.                                         *)

LEMMA OnResultData ==
    ASSUME TypeOK, DataInv, JobInv, pc \notin {"off", "ready"},
           NEW p \in Position, NEW result \in Result, NEW resume,
           OnResult(p, result, resume),
           Unsent(Recorded(rows[run][p], result)) => Sent(run, p) = 0
    PROVE  DataInv'
<1>1. /\ run \in Run /\ run = nruns /\ status[run] = "running"
      /\ link.source = 0 /\ run \notin asked
      /\ origin[run] \in Run /\ Tail(run)
  BY OpenIsLast
<1>2. UNCHANGED <<link, asked, manual, nruns, status, origin, pressed>>
  BY DEF OnResult, retryVars
<1>3. CASE rows' = rows
  BY <1>2, <1>3, DataFrame DEF dataVars
<1>4. CASE rows' = [rows EXCEPT ![run][p] = Recorded(rows[run][p], result)]
  <2> DEFINE new == Recorded(rows[run][p], result)
  <2>1. rows[run][p] \in Row
    BY <1>1 DEF TypeOK
  <2>2. new.status \notin {"pending", "sending"} /\ (new.retryable => new.status = "failed" /\ Unsent(new))
    BY <2>1, RetryableIsUnsent
  <2>3. \A r \in Run, q \in Position :
           rows'[r][q] = IF r = run /\ q = p THEN new ELSE rows[r][q]
    BY <1>1, <1>4 DEF TypeOK
  <2> HIDE DEF new
  <2>4. NumberingInv'
    BY <1>1, <1>2, <2>3 DEF DataInv, NumberingInv, TypeOK
  <2>5. RunningInv'
    BY <1>1, <1>2, <2>3 DEF DataInv, RunningInv
  <2>6. RetryInv'
    <3>1. ASSUME NEW r \in Run, NEW q \in Position, rows'[r][q].retryable
          PROVE  rows'[r][q].status = "failed" /\ Unsent(rows'[r][q])
      <4>1. CASE r = run /\ q = p
        BY <2>2, <2>3, <3>1, <4>1
      <4>2. CASE ~(r = run /\ q = p)
        BY <2>3, <3>1, <4>2 DEF DataInv, RetryInv
      <4> QED
        BY <4>1, <4>2
    <3>2. ASSUME NEW r \in asked
          PROVE  status[r] # "running" /\ \A q \in manual[r] : Unsent(rows'[r][q])
      <4>1. r \in Run /\ r # run /\ manual[r] \subseteq Position
        BY <1>1, <3>2 DEF TypeOK
      <4>2. \A q \in manual[r] : rows'[r][q] = rows[r][q]
        BY <2>3, <4>1
      <4> QED
        BY <3>2, <4>2 DEF DataInv, RetryInv
    <3> QED
      BY <1>2, <3>1, <3>2 DEF RetryInv, Unsent
  <2>7. LinkInv' /\ NoDoubleSend'
    BY <1>2 DEF DataInv, LinkInv, NoDoubleSend, Tail
  <2>8. UnsentIsUnsent'
    <3> SUFFICES ASSUME NEW r \in Run, Tail(r)', NEW q \in Position, Unsent(rows[r][q])'
                 PROVE  Sent(r, q)' = 0
      BY DEF UnsentIsUnsent
    <3>1. Tail(r) /\ Sent(r, q)' = Sent(r, q)
      BY <1>2 DEF Tail, Sent
    <3>2. CASE r = run /\ q = p
      BY <2>3, <3>1, <3>2 DEF new, Unsent
    <3>3. CASE ~(r = run /\ q = p)
      BY <2>3, <3>1, <3>3 DEF DataInv, UnsentIsUnsent, Unsent
    <3> QED
      BY <3>2, <3>3
  <2> QED
    BY <2>4, <2>5, <2>6, <2>7, <2>8 DEF DataInv
<1> QED
  BY <1>3, <1>4 DEF OnResult

LEMMA OnResultJob ==
    ASSUME TypeOK, DataInv, JobInv, pc \notin {"off", "ready", "finish"},
           NEW p \in Position, Current(p), NEW result \in Result,
           NEW resume \in {"failing", "select", "finish"},
           OnResult(p, result, resume)
    PROVE  JobInv'
<1>1. /\ run \in Run /\ status[run] = "running"
      /\ run' = run /\ status' = status
  BY OpenIsLast DEF OnResult
<1>2. CASE pc' = "finish"
  BY <1>1, <1>2 DEF JobInv
<1>3. CASE pc' # "finish"
  <2>1. /\ pc' \in {"failing", "select"}
        /\ rows' = [rows EXCEPT ![run][p] = Recorded(rows[run][p], result)]
        /\ todo' = todo \ {p}
    BY <1>3 DEF OnResult
  <2>2. ASSUME NEW q \in todo' PROVE rows'[run][q].status = "pending"
    <3>1. q \in todo /\ q # p /\ q \in Position
      BY <2>1, <2>2 DEF TypeOK
    <3>2. ~Current(q)
      BY <3>1, PositionAssumption DEF Current, TypeOK
    <3>3. rows'[run][q] = rows[run][q]
      BY <1>1, <2>1, <3>1 DEF TypeOK
    <3> QED
      BY <3>1, <3>2, <3>3 DEF JobInv
  <2> QED
    BY <1>1, <2>1, <2>2 DEF JobInv
<1> QED
  BY <1>2, <1>3

-----------------------------------------------------------------------------
(* The batch's own steps.                                                  *)

LEMMA BatchStep ==
    ASSUME TypeOK, DataInv, JobInv, Batch
    PROVE  DataInv' /\ JobInv'
<1>1. CASE SessionOpens \/ BatchAborts \/ \E result \in SessionFailure : SessionFails(result)
  <2>1. UNCHANGED dataVars /\ pc \notin {"off", "ready"} /\ pc' \notin {"off", "ready"}
    BY <1>1 DEF SessionOpens, BatchAborts, SessionFails, dataVars, retryVars, runVars
  <2>2. /\ run' = run /\ todo' = todo
        /\ pc' = "finish" \/ (pc = "open" /\ pc' \in {"select", "failing"})
    BY <1>1 DEF SessionOpens, BatchAborts, SessionFails
  <2>3. JobInv'
    BY <2>1, <2>2 DEF JobInv, dataVars, Current
  <2> QED
    BY <2>1, <2>3, DataFrame
<1>2. ASSUME NEW p \in Position, BeforeSendDenied(p) PROVE DataInv' /\ JobInv'
  <2>1. /\ UNCHANGED dataVars /\ pc = "select" /\ pc' = "refused"
        /\ run' = run /\ todo' = todo
    BY <1>2 DEF BeforeSendDenied, dataVars, retryVars, runVars
  <2>2. JobInv'
    BY <2>1 DEF JobInv, dataVars, Current
  <2> QED
    BY <2>1, <2>2, DataFrame
<1>3. ASSUME NEW p \in Position, NEW result \in Result, Current(p), pc # "pressed",
             pc \notin {"off", "ready", "finish"},
             NEW resume \in {"failing", "select", "finish"}, OnResult(p, result, resume)
      PROVE  DataInv' /\ JobInv'
  <2>1. Sent(run, p) = 0
    <3>1. /\ run \in Run /\ Tail(run) /\ p \in todo
      BY <1>3, OpenIsLast DEF Current
    <3>2. CASE pc = "checkpoint"
      BY <1>3, <3>1, <3>2 DEF JobInv
    <3>3. CASE pc # "checkpoint"
      <4>1. Unsent(rows[run][p])
        BY <1>3, <3>1, <3>3 DEF JobInv, Unsent
      <4> QED
        BY <3>1, <4>1 DEF DataInv, UnsentIsUnsent
    <3> QED
      BY <3>2, <3>3
  <2> QED
    BY <1>3, <2>1, OnResultData, OnResultJob
<1>4. ASSUME NEW p \in Position, RecordSessionFailure(p) PROVE DataInv' /\ JobInv'
  BY <1>3, <1>4 DEF RecordSessionFailure, TypeOK
<1>5. ASSUME NEW p \in Position, RecordDenial(p) PROVE DataInv' /\ JobInv'
  BY <1>3, <1>5 DEF RecordDenial, Result
<1>6. ASSUME NEW p \in Position, NEW result \in SelectFailure, SelectFails(p, result)
      PROVE  DataInv' /\ JobInv'
  BY <1>3, <1>6 DEF SelectFails, Result
<1>7. ASSUME NEW p \in Position, NEW result \in CheckpointFailure,
             CheckpointFails(p, result)
      PROVE  DataInv' /\ JobInv'
  BY <1>3, <1>7 DEF CheckpointFails, Result
<1>8. ASSUME NEW p \in Position, NEW result \in Confirmation, Confirms(p, result)
      PROVE  DataInv' /\ JobInv'
  <2>1. run \in Run /\ rows[run][p] \in Row
    BY <1>8, OpenIsLast DEF Confirms, TypeOK
  <2>2. result.ok \/ result.stage \in {"rejected", "sending"}
    BY <1>8 DEF Confirmation, Modelled, Unknown, Failure, Success
  <2>3. ~Unsent(Recorded(rows[run][p], result))
    BY <2>1, <2>2 DEF Unsent, Recorded, RecordedStatus, Row
  <2> QED
    BY <1>8, <2>3, OnResultData, OnResultJob DEF Confirms, Result
<1>9. ASSUME NEW p \in Position, BeforeSend(p) PROVE DataInv' /\ JobInv'
  <2>1. /\ run \in Run /\ run = nruns /\ status[run] = "running"
        /\ run \notin asked /\ Tail(run) /\ Current(p) /\ p \in todo
        /\ rows[run][p].status = "pending" /\ rows[run][p] \in Row
    BY <1>9, OpenIsLast DEF BeforeSend, MaySend, Current, TypeOK
  <2>2. /\ UNCHANGED <<link, asked, manual, nruns, status, origin, pressed, run, todo>>
        /\ pc = "select" /\ pc' = "checkpoint"
    BY <1>9 DEF BeforeSend, retryVars
  <2> DEFINE new == [rows[run][p] EXCEPT !.status = "sending", !.stage = "sending"]
  <2>3. \A r \in Run, q \in Position :
           rows'[r][q] = IF r = run /\ q = p THEN new ELSE rows[r][q]
    BY <1>9, <2>1 DEF BeforeSend, TypeOK
  <2>4. new.status = "sending" /\ ~Unsent(new) /\ new.retryable = rows[run][p].retryable
    BY <2>1 DEF Row, Unsent
  <2>5. Sent(run, p) = 0
    BY <2>1 DEF DataInv, UnsentIsUnsent, Unsent
  <2>6. rows[run][p].retryable = FALSE
    BY <2>1 DEF DataInv, RetryInv, Row
  <2> HIDE DEF new
  <2>7. NumberingInv' /\ RunningInv'
    BY <2>1, <2>2, <2>3 DEF DataInv, NumberingInv, RunningInv, TypeOK
  <2>8. LinkInv' /\ NoDoubleSend'
    BY <2>2 DEF DataInv, LinkInv, NoDoubleSend, Tail
  <2>9. UnsentIsUnsent'
    <3> SUFFICES ASSUME NEW r \in Run, Tail(r)', NEW q \in Position, Unsent(rows[r][q])'
                 PROVE  Sent(r, q)' = 0
      BY DEF UnsentIsUnsent
    <3>1. Tail(r) /\ Sent(r, q)' = Sent(r, q)
      BY <2>2 DEF Tail, Sent
    <3>2. ~(r = run /\ q = p) /\ Unsent(rows[r][q])
      BY <2>3, <2>4 DEF Unsent
    <3> QED
      BY <3>1, <3>2 DEF DataInv, UnsentIsUnsent
  <2>10. RetryInv'
    <3>1. ASSUME NEW r \in Run, NEW q \in Position, rows'[r][q].retryable
          PROVE  rows'[r][q].status = "failed" /\ Unsent(rows'[r][q])
      BY <2>3, <2>4, <2>6, <3>1 DEF DataInv, RetryInv
    <3>2. ASSUME NEW r \in asked
          PROVE  status[r] # "running" /\ \A q \in manual[r] : Unsent(rows'[r][q])
      <4>1. r \in Run /\ r # run /\ manual[r] \subseteq Position
        BY <2>1, <3>2 DEF TypeOK
      <4>2. \A q \in manual[r] : rows'[r][q] = rows[r][q]
        BY <2>3, <4>1
      <4> QED
        BY <3>2, <4>2 DEF DataInv, RetryInv
    <3> QED
      BY <2>2, <3>1, <3>2 DEF RetryInv, Unsent
  <2>11. JobInv'
    <3>1. ASSUME NEW q \in todo, ~Current(q) PROVE rows'[run][q].status = "pending"
      <4>1. q # p /\ q \in Position
        BY <2>1, <3>1 DEF TypeOK
      <4> QED
        BY <2>1, <2>2, <2>3, <3>1, <4>1 DEF JobInv
    <3>2. ASSUME NEW q \in todo, Current(q)
          PROVE  rows'[run][q].status = "sending" /\ Sent(run, q) = 0
      <4>1. q = p
        BY <2>1, <3>2, PositionAssumption DEF Current, TypeOK
      <4> QED
        BY <2>1, <2>3, <2>4, <2>5, <4>1
    <3>3. \A q : Current(q)' <=> Current(q)
      BY <2>2 DEF Current
    <3>4. \A q : Sent(run, q)' = Sent(run, q)
      BY <2>2 DEF Sent
    <3> QED
      BY <2>1, <2>2, <3>1, <3>2, <3>3, <3>4 DEF JobInv
  <2> QED
    BY <2>7, <2>8, <2>9, <2>10, <2>11 DEF DataInv
<1>10. ASSUME NEW p \in Position, PressEnter(p) PROVE DataInv' /\ JobInv'
  <2>1. /\ run \in Run /\ run = nruns /\ status[run] = "running"
        /\ origin[run] \in Run /\ Tail(run) /\ Current(p)
        /\ \A r \in Run : Tail(r) /\ origin[r] = origin[run] => r = run
    BY <1>10, OpenIsLast DEF PressEnter
  <2>2. /\ UNCHANGED <<link, asked, manual, nruns, status, rows, origin, run, todo>>
        /\ pc = "checkpoint" /\ pc' = "pressed"
    BY <1>10 DEF PressEnter, retryVars, runVars
  <2>3. rows[run][p].status = "sending" /\ pressed[origin[run]][p] = 0
    BY <2>1, <2>2 DEF JobInv, Current, Sent
  <2>4. \A o \in Run, q \in Position :
           pressed'[o][q] = IF o = origin[run] /\ q = p THEN 1 ELSE pressed[o][q]
    BY <1>10, <2>1, <2>3 DEF PressEnter, TypeOK
  <2>5. NumberingInv'
    <3>1. origin[run] <= nruns
      BY <2>1, BoundAssumption DEF DataInv, NumberingInv, Run, TypeOK
    <3>2. ASSUME NEW r \in Run, r > nruns, NEW q \in Position
          PROVE  pressed'[r][q] = 0
      <4>1. r # origin[run]
        BY <2>1, <3>1, <3>2, BoundAssumption DEF Run, TypeOK
      <4> QED
        BY <2>4, <3>2, <4>1 DEF DataInv, NumberingInv
    <3> QED
      BY <2>2, <3>2 DEF DataInv, NumberingInv
  <2>6. RunningInv' /\ RetryInv' /\ LinkInv'
    BY <2>2 DEF DataInv, RunningInv, RetryInv, LinkInv, Tail, Unsent
  <2>7. NoDoubleSend'
    BY <2>4 DEF DataInv, NoDoubleSend
  <2>8. UnsentIsUnsent'
    <3> SUFFICES ASSUME NEW r \in Run, Tail(r)', NEW q \in Position, Unsent(rows[r][q])'
                 PROVE  Sent(r, q)' = 0
      BY DEF UnsentIsUnsent
    <3>1. Tail(r) /\ Unsent(rows[r][q]) /\ Sent(r, q) = 0
      BY <2>2 DEF Tail, Unsent, DataInv, UnsentIsUnsent
    <3>2. ~(r = run /\ q = p)
      BY <2>3, <3>1 DEF Unsent
    <3>3. ~(origin[r] = origin[run] /\ q = p)
      BY <2>1, <3>1, <3>2
    <3>4. origin[r] \in Run
      BY <3>1, BoundAssumption DEF Tail, DataInv, NumberingInv, Run, TypeOK
    <3> QED
      BY <2>2, <2>4, <3>1, <3>3, <3>4 DEF Sent
  <2>9. JobInv'
    BY <2>1, <2>2 DEF JobInv, Current
  <2> QED
    BY <2>5, <2>6, <2>7, <2>8, <2>9 DEF DataInv
<1> QED
  BY <1>1, <1>2, <1>4, <1>5, <1>6, <1>7, <1>8, <1>9, <1>10 DEF Batch

-----------------------------------------------------------------------------
(* A run ends: in its own job, or in the recovery.                         *)

LEMMA RunEnds ==
    ASSUME TypeOK, DataInv, NEW r \in Run, status[r] = "running",
           NEW closed \in [Position -> Row], NEW pending,
           \A p \in Position : closed[p] = Interrupted(rows[r][p], pending),
           NEW ended, ended # "running", ended # "none",
           rows' = [rows EXCEPT ![r] = closed],
           status' = [status EXCEPT ![r] = ended],
           UNCHANGED <<asked, manual, nruns, origin, pressed>>,
           link' = link \/ link'.source = r
    PROVE  DataInv' /\ \A q \in Run : status'[q] # "running"
<1>1. /\ r = nruns /\ link.source = 0 /\ r \notin asked
      /\ \A q \in Run : q # r => status[q] # "running"
  BY DEF DataInv, RunningInv, RetryInv
<1>2. Tail(r)
  BY <1>1 DEF Tail, Run
<1>3. \A q \in Run : /\ status'[q] = IF q = r THEN ended ELSE status[q]
                     /\ rows'[q] = IF q = r THEN closed ELSE rows[q]
  BY DEF TypeOK
<1>4. \A q \in Run : status'[q] # "running"
  BY <1>1, <1>3
<1>5. ASSUME NEW p \in Position
      PROVE  /\ closed[p].status \notin {"pending", "sending"}
             /\ Unsent(closed[p]) => Unsent(rows[r][p])
             /\ closed[p].retryable =>
                   closed[p] = rows[r][p] \/ (closed[p].status = "failed" /\ Unsent(closed[p]))
  <2>1. rows[r][p] \in Row
    BY DEF TypeOK
  <2> QED
    BY <2>1, InterruptedKeeps
<1>6. NumberingInv'
  BY <1>1, <1>3 DEF DataInv, NumberingInv, TypeOK
<1>7. RunningInv'
  BY <1>3, <1>4, <1>5 DEF DataInv, RunningInv
<1>8. RetryInv'
  <2>1. ASSUME NEW q \in Run, NEW p \in Position, rows'[q][p].retryable
        PROVE  rows'[q][p].status = "failed" /\ Unsent(rows'[q][p])
    BY <1>3, <1>5, <2>1 DEF DataInv, RetryInv
  <2>2. ASSUME NEW q \in asked
        PROVE  status'[q] # "running" /\ \A p \in manual[q] : Unsent(rows'[q][p])
    <3>1. q \in Run /\ q # r
      BY <1>1, <2>2 DEF TypeOK
    <3> QED
      BY <1>3, <1>4, <2>2, <3>1 DEF DataInv, RetryInv
  <2> QED
    BY <2>1, <2>2 DEF RetryInv, Unsent
<1>9. LinkInv' /\ NoDoubleSend'
  BY <1>2 DEF DataInv, LinkInv, NoDoubleSend, Tail
<1>10. UnsentIsUnsent'
  <2> SUFFICES ASSUME NEW q \in Run, Tail(q)', NEW p \in Position, Unsent(rows[q][p])'
               PROVE  Sent(q, p)' = 0
    BY DEF UnsentIsUnsent
  <2>1. Tail(q) /\ Sent(q, p)' = Sent(q, p)
    BY DEF Tail, Sent
  <2>2. Unsent(rows[q][p])
    BY <1>3, <1>5 DEF Unsent
  <2> QED
    BY <2>1, <2>2 DEF DataInv, UnsentIsUnsent
<1> QED
  BY <1>4, <1>6, <1>7, <1>8, <1>9, <1>10 DEF DataInv

LEMMA RecoverStep ==
    ASSUME TypeOK, DataInv, JobInv, NEW r \in Run, Recover(r)
    PROVE  DataInv' /\ JobInv'
<1> DEFINE closed == [p \in Position |-> Interrupted(rows[r][p], TRUE)]
<1>1. closed \in [Position -> Row]
  <2>1. ASSUME NEW p \in Position PROVE Interrupted(rows[r][p], TRUE) \in Row
    <3>1. rows[r][p] \in Row
      BY DEF TypeOK
    <3> QED
      BY <3>1, InterruptedType
  <2> QED
    BY <2>1
<1>2. /\ rows' = [rows EXCEPT ![r] = closed]
      /\ status' = [status EXCEPT ![r] = Summary(closed)]
      /\ UNCHANGED <<asked, manual, nruns, origin, pressed>>
      /\ status[r] = "running"
  BY DEF Recover
<1>3. link' = link \/ link'.source = r
  BY DEF Recover
<1>4. Summary(closed) \notin {"running", "none"}
  BY DEF Summary
<1>5. \A p \in Position : closed[p] = Interrupted(rows[r][p], TRUE)
  OBVIOUS
<1> HIDE DEF closed
<1>6. DataInv' /\ \A q \in Run : status'[q] # "running"
  BY <1>1, <1>2, <1>3, <1>4, <1>5, RunEnds
<1>7. JobInv'
  BY <1>6 DEF JobInv, Recover
<1> QED
  BY <1>6, <1>7

LEMMA FinishStep ==
    ASSUME TypeOK, DataInv, JobInv, Finish
    PROVE  DataInv' /\ JobInv'
<1>1. CloseRows
  BY DEF Finish, FinishWithRetry, FinishForGood, FinishChatUnavailable
<1>2. run \in Run /\ status[run] = "running"
  BY <1>1, OpenIsLast DEF CloseRows
<1>3. Closed \in [Position -> Row]
  BY <1>2, ClosedType
<1>4. /\ rows' = [rows EXCEPT ![run] = Closed]
      /\ UNCHANGED <<asked, manual, nruns, origin, pressed>>
  BY <1>1 DEF CloseRows
<1>5. link' = link \/ link'.source = run
  BY DEF Finish, FinishWithRetry, FinishForGood, FinishChatUnavailable
<1>6. PICK ended \in {"failed", "partial", "success"} :
         status' = [status EXCEPT ![run] = ended]
  BY DEF Finish, FinishWithRetry, FinishForGood, FinishChatUnavailable, Summary
<1>7. \A p \in Position : Closed[p] = Interrupted(rows[run][p], ~(stopped \/ denied))
  BY DEF Closed
<1>8. DataInv' /\ \A q \in Run : status'[q] # "running"
  BY <1>2, <1>3, <1>4, <1>5, <1>6, <1>7, RunEnds
<1>9. JobInv'
  BY <1>1, <1>8 DEF JobInv, CloseRows, JobExits
<1> QED
  BY <1>8, <1>9

-----------------------------------------------------------------------------
(* A run is claimed.                                                       *)

LEMMA OpensStep ==
    ASSUME TypeOK, DataInv, JobInv, NEW r \in Run, NEW first \in [Position -> Row],
           Claims(r), Opens(r, first),
           NEW o \in 1..r, origin' = [origin EXCEPT ![r] = o],
           \A p \in Position :
              /\ first[p].retryable = FALSE /\ first[p].status # "sending"
              /\ Unsent(first[p]) => pressed[o][p] = 0
    PROVE  DataInv' /\ JobInv'
<1>1. /\ r = nruns + 1 /\ nruns' = r /\ pc = "ready" /\ r > nruns /\ nruns \in Nat
      /\ UNCHANGED <<asked, manual, pressed>> /\ link'.source = 0
      /\ pc' = "open" /\ run' = r
  BY BoundAssumption DEF Claims, Opens, NoLink, TypeOK
<1>2. \A q \in Run : /\ status'[q] = IF q = r THEN "running" ELSE status[q]
                     /\ rows'[q] = IF q = r THEN first ELSE rows[q]
                     /\ origin'[q] = IF q = r THEN o ELSE origin[q]
  BY DEF Opens, TypeOK
<1>3. /\ \A q \in Run : status[q] # "running"
      /\ r \notin asked
  BY <1>1 DEF JobInv, DataInv, NumberingInv
<1>4. \A q \in Run : q # r => (q <= nruns' <=> q <= nruns) /\ (q > nruns' => q > nruns)
  BY <1>1 DEF Run
<1>5. NumberingInv'
  BY <1>1, <1>2, <1>4 DEF DataInv, NumberingInv, Run
<1>6. RunningInv'
  BY <1>1, <1>2, <1>3 DEF DataInv, RunningInv
<1>7. RetryInv'
  <2>1. ASSUME NEW q \in Run, NEW p \in Position, rows'[q][p].retryable
        PROVE  rows'[q][p].status = "failed" /\ Unsent(rows'[q][p])
    BY <1>2, <2>1 DEF DataInv, RetryInv
  <2>2. ASSUME NEW q \in asked
        PROVE  status'[q] # "running" /\ \A p \in manual[q] : Unsent(rows'[q][p])
    BY <1>2, <1>3, <2>2 DEF DataInv, RetryInv, TypeOK
  <2> QED
    BY <1>1, <2>1, <2>2 DEF RetryInv, Unsent
<1>8. LinkInv' /\ NoDoubleSend'
  BY <1>1 DEF DataInv, LinkInv, NoDoubleSend
<1>9. UnsentIsUnsent'
  <2> SUFFICES ASSUME NEW q \in Run, Tail(q)', NEW p \in Position, Unsent(rows[q][p])'
               PROVE  Sent(q, p)' = 0
    BY DEF UnsentIsUnsent
  <2>1. CASE q = r
    BY <1>1, <1>2, <2>1 DEF Sent, Unsent
  <2>2. CASE q # r
    <3>1. Tail(q)
      BY <1>1, <1>2, <1>4, <2>2 DEF Tail, Run
    <3>2. Unsent(rows[q][p]) /\ Sent(q, p)' = Sent(q, p)
      BY <1>1, <1>2, <2>2 DEF Unsent, Sent
    <3> QED
      BY <3>1, <3>2 DEF DataInv, UnsentIsUnsent
  <2> QED
    BY <2>1, <2>2
<1>10. JobInv'
  <2>1. \A p \in todo' : rows'[r][p].status = "pending"
    BY <1>2 DEF Opens
  <2> QED
    BY <1>1, <1>2, <2>1 DEF JobInv
<1> QED
  BY <1>5, <1>6, <1>7, <1>8, <1>9, <1>10 DEF DataInv

LEMMA ClaimFreshStep ==
    ASSUME TypeOK, DataInv, JobInv, NEW r \in Run, ClaimFresh(r)
    PROVE  DataInv' /\ JobInv'
<1> DEFINE first == [p \in Position |-> IF p \in friends THEN Queued(1) ELSE NoRow]
<1>1. first \in [Position -> Row]
  BY QueuedType, NoRowType
<1>2. r > nruns /\ r \in 1..r
  BY BoundAssumption DEF ClaimFresh, Claims, TypeOK, Run
<1>3. \A p \in Position :
         /\ first[p].retryable = FALSE /\ first[p].status # "sending"
         /\ Unsent(first[p]) => pressed[r][p] = 0
  BY <1>2 DEF Queued, NoRow, DataInv, NumberingInv
<1>4. Claims(r) /\ Opens(r, first) /\ origin' = [origin EXCEPT ![r] = r]
  BY DEF ClaimFresh
<1> HIDE DEF first
<1> QED
  BY <1>1, <1>2, <1>3, <1>4, OpensStep

LEMMA ClaimRetryStep ==
    ASSUME TypeOK, DataInv, JobInv, NEW r \in Run, ClaimRetry(r)
    PROVE  DataInv' /\ JobInv'
<1> DEFINE s == link.source
           first == [p \in Position |-> Copied(s, p)]
           o == origin[s]
<1>1. /\ s \in Run /\ Tail(s) /\ s <= nruns /\ status[s] # "running"
      /\ Claims(r) /\ Opens(r, first) /\ origin' = [origin EXCEPT ![r] = o]
  BY DEF ClaimRetry, LinkMatches, Claims, DataInv, LinkInv, JobInv, Tail
<1>2. o \in 1..r
  BY <1>1, BoundAssumption DEF DataInv, NumberingInv, Claims, Run, TypeOK
<1>3. first \in [Position -> Row]
  BY <1>1, CopiedType
<1>4. ASSUME NEW p \in Position
      PROVE  /\ first[p].retryable = FALSE /\ first[p].status # "sending"
             /\ Unsent(first[p]) => pressed[o][p] = 0
  <2> DEFINE row == rows[s][p]
  <2>1. row \in Row /\ row.status \notin {"pending", "sending"}
    BY <1>1 DEF TypeOK, DataInv, RunningInv
  <2>2. Unsent(row) => pressed[o][p] = 0
    BY <1>1 DEF DataInv, UnsentIsUnsent, Sent
  <2>3. CASE row.status = "none"
    BY <2>3 DEF Copied, NoRow, Unsent
  <2>4. CASE row.status # "none" /\ TriedAgain(s, p)
    <3>1. Unsent(row)
      BY <1>1, <2>1, <2>4 DEF TriedAgain, DataInv, RetryInv
    <3> QED
      BY <2>2, <2>4, <3>1 DEF Copied, Queued
  <2>5. CASE row.status # "none" /\ ~TriedAgain(s, p)
    <3>1. first[p] = [row EXCEPT !.retryable = FALSE, !.attempt = 1]
      BY <2>5 DEF Copied
    <3>2. /\ first[p].retryable = FALSE /\ first[p].status = row.status
          /\ first[p].stage = row.stage
      BY <2>1, <3>1 DEF Row
    <3> QED
      BY <2>1, <2>2, <3>2 DEF Unsent
  <2> QED
    BY <2>3, <2>4, <2>5
<1> HIDE DEF first, s, o
<1> QED
  BY <1>1, <1>2, <1>3, <1>4, OpensStep

LEMMA ClaimEndsEarlyStep ==
    ASSUME TypeOK, DataInv, JobInv, NEW r \in Run, ClaimEndsEarly(r)
    PROVE  DataInv' /\ JobInv'
<1>1. /\ r = nruns + 1 /\ nruns' = r /\ pc = "ready" /\ r > nruns /\ nruns \in Nat
      /\ UNCHANGED <<asked, manual, pressed, rows, link>>
      /\ pc' = "off" /\ run' = 0
  BY BoundAssumption DEF ClaimEndsEarly, Claims, JobExits, TypeOK
<1>2. /\ \A q \in Run : q # r => status'[q] = status[q] /\ origin'[q] = origin[q]
      /\ origin'[r] = r /\ status'[r] # "running"
  BY DEF ClaimEndsEarly, TypeOK
<1>3. \A q \in Run : status[q] # "running"
  BY <1>1 DEF JobInv
<1>4. \A q \in Run : status'[q] # "running"
  BY <1>2, <1>3
<1>5. \A q \in Run : q # r => (q <= nruns' <=> q <= nruns) /\ (q > nruns' => q > nruns)
  BY <1>1 DEF Run
<1>6. NumberingInv'
  BY <1>1, <1>2, <1>5 DEF DataInv, NumberingInv, Run
<1>7. \A p \in Position : rows[r][p] = NoRow /\ pressed[r][p] = 0
  BY <1>1 DEF DataInv, NumberingInv
<1>8. RunningInv' /\ RetryInv' /\ NoDoubleSend'
  <2>1. RunningInv'
    BY <1>1, <1>3, <1>4 DEF DataInv, RunningInv
  <2>2. ASSUME NEW q \in asked
        PROVE  status'[q] # "running" /\ \A p \in manual[q] : Unsent(rows[q][p])
    BY <1>4, <2>2 DEF DataInv, RetryInv, TypeOK
  <2>3. RetryInv'
    BY <1>1, <2>2 DEF DataInv, RetryInv, Unsent
  <2> QED
    BY <1>1, <2>1, <2>3 DEF DataInv, NoDoubleSend
<1>9. ASSUME NEW q \in Run, q # r PROVE Tail(q)' => Tail(q)
  BY <1>1, <1>2, <1>5, <1>9 DEF Tail, Run
<1>10. ASSUME NEW q \in Run, Tail(q) PROVE Tail(q)'
  <2>1. q # r /\ origin[q] \in 1..q /\ q <= nruns
    BY <1>1, <1>10 DEF Tail, DataInv, NumberingInv, Run
  <2>2. origin[q] # r
    BY <1>1, <2>1 DEF Run
  <2> QED
    BY <1>1, <1>2, <1>5, <1>10, <2>1, <2>2 DEF Tail
<1>11. LinkInv'
  BY <1>1, <1>10 DEF DataInv, LinkInv
<1>12. UnsentIsUnsent'
  <2> SUFFICES ASSUME NEW q \in Run, Tail(q)', NEW p \in Position, Unsent(rows[q][p])'
               PROVE  Sent(q, p)' = 0
    BY DEF UnsentIsUnsent
  <2>1. CASE q = r
    BY <1>1, <1>7, <2>1 DEF Unsent, NoRow
  <2>2. CASE q # r
    BY <1>1, <1>2, <1>9, <2>2 DEF Unsent, Sent, DataInv, UnsentIsUnsent
  <2> QED
    BY <2>1, <2>2
<1>13. JobInv'
  BY <1>1, <1>4 DEF JobInv
<1> QED
  BY <1>6, <1>8, <1>11, <1>12, <1>13 DEF DataInv

-----------------------------------------------------------------------------
(* The steps that touch no run, and the manual retry.                      *)

LEMMA JobControlStep ==
    ASSUME DataInv, JobInv,
           StartJob \/ ClaimPausesUnauthorized \/ ClaimFindsNothing \/ JobDies
    PROVE  DataInv' /\ JobInv'
<1>1. UNCHANGED dataVars
  BY DEF StartJob, ClaimPausesUnauthorized, ClaimFindsNothing, JobDies, dataVars,
         retryVars, runVars
<1>2. CASE StartJob
  <2>1. /\ pc' = "ready" /\ run' = run /\ run = 0 /\ status' = status
        /\ \A r \in Run : status[r] # "running"
    BY <1>2 DEF StartJob, Running, JobInv, runVars
  <2> QED
    BY <1>1, <2>1, DataFrame DEF JobInv
<1>3. CASE JobExits
  <2>1. pc' = "off" /\ run' = 0
    BY <1>3 DEF JobExits
  <2> QED
    BY <1>1, <2>1, DataFrame DEF JobInv
<1> QED
  BY <1>2, <1>3 DEF ClaimPausesUnauthorized, ClaimFindsNothing, JobDies

LEMMA EditStep ==
    ASSUME DataInv, JobInv, NEW a \in Account, Edit(a)
    PROVE  DataInv' /\ JobInv'
<1>1. /\ UNCHANGED <<asked, manual, nruns, status, rows, origin, pressed>>
      /\ link'.source = 0 /\ UNCHANGED jobVars
  BY DEF Edit, runVars, NoLink
<1>2. DataInv'
  BY <1>1 DEF DataInv, NumberingInv, RunningInv, RetryInv, LinkInv, UnsentIsUnsent,
         NoDoubleSend, Unsent, Tail, Sent
<1> QED
  BY <1>1, <1>2, JobFrame DEF jobVars

LEMMA ScheduleManualStep ==
    ASSUME TypeOK, DataInv, JobInv, NEW r \in Run, NEW chosen \in SUBSET Position,
           ScheduleManual(r, chosen)
    PROVE  DataInv' /\ JobInv'
<1>1. /\ UNCHANGED <<nruns, status, rows, origin, pressed>> /\ UNCHANGED jobVars
      /\ r = nruns /\ \A q \in Run : status[q] # "running"
  BY DEF ScheduleManual, runVars, Running
<1>2. /\ asked' = asked \cup {r}
      /\ manual' = [manual EXCEPT ![r] = chosen]
      /\ link' = link \/ link'.source = r
  BY DEF ScheduleManual
<1>3. \A p \in chosen : Unsent(rows[r][p])
  BY DEF ScheduleManual, ManualSafe, SafeStages, Unsent
<1>4. Tail(r)
  BY <1>1 DEF Tail, Run
<1>5. NumberingInv' /\ RunningInv' /\ NoDoubleSend'
  <2>1. \A q \in Run : q > nruns => q # r
    BY <1>1 DEF Run
  <2> QED
    BY <1>1, <1>2, <2>1 DEF DataInv, NumberingInv, RunningInv, NoDoubleSend
<1>6. ASSUME NEW q \in asked'
      PROVE  status[q] # "running" /\ \A p \in manual'[q] : Unsent(rows[q][p])
  <2>1. CASE q = r
    BY <1>1, <1>2, <1>3, <2>1 DEF TypeOK
  <2>2. CASE q # r
    BY <1>2, <1>6, <2>2 DEF DataInv, RetryInv, TypeOK
  <2> QED
    BY <2>1, <2>2
<1>7. RetryInv'
  BY <1>1, <1>6 DEF DataInv, RetryInv, Unsent
<1>8. LinkInv'
  BY <1>1, <1>2, <1>4 DEF DataInv, LinkInv, Tail
<1>9. UnsentIsUnsent'
  BY <1>1 DEF DataInv, UnsentIsUnsent, Tail, Sent, Unsent
<1> QED
  BY <1>1, <1>5, <1>7, <1>8, <1>9, JobFrame DEF DataInv, jobVars

LEMMA SafeStep ==
    ASSUME TypeOK, DataInv, JobInv, [Next]_vars
    PROVE  DataInv' /\ JobInv'
<1>1. CASE UNCHANGED vars
  BY <1>1, DataFrame, JobFrame
     DEF vars, dataVars, retryVars, runVars, jobVars
<1>2. CASE Job
  <2>1. CASE Start
    BY <2>1, JobControlStep, RecoverStep DEF Start
  <2>2. CASE Claim
    BY <2>2, JobControlStep, ClaimEndsEarlyStep, ClaimFreshStep, ClaimRetryStep DEF Claim
  <2>3. CASE Batch
    BY <2>3, BatchStep
  <2>4. CASE Finish
    BY <2>4, FinishStep
  <2>5. CASE JobDies
    BY <2>5, JobControlStep
  <2> QED
    BY <1>2, <2>1, <2>2, <2>3, <2>4, <2>5 DEF Job
<1>3. CASE Environment
  <2>1. ASSUME NEW a \in Account, Edit(a) PROVE DataInv' /\ JobInv'
    BY <2>1, EditStep
  <2>2. ASSUME NEW r \in Run, NEW chosen \in SUBSET Position, ScheduleManual(r, chosen)
        PROVE  DataInv' /\ JobInv'
    BY <2>2, ScheduleManualStep
  <2>3. ASSUME UNCHANGED <<dataVars, jobVars>> PROVE DataInv' /\ JobInv'
    BY <2>3, DataFrame, JobFrame DEF dataVars, jobVars
  <2>4. ASSUME TimeArrives \/ Disable \/ Enable \/ QuotaEnds \/ QuotaReturns \/ QuotaPauses
        PROVE  UNCHANGED <<dataVars, jobVars>>
    BY <2>4 DEF TimeArrives, Disable, Enable, QuotaEnds, QuotaReturns, QuotaPauses,
       dataVars, retryVars, runVars
  <2>5. ASSUME NEW a \in Account, DeleteAccount(a) \/ Rebind(a)
        PROVE  UNCHANGED <<dataVars, jobVars>>
    BY <2>5 DEF DeleteAccount, Rebind, dataVars, retryVars, runVars
  <2> QED
    BY <1>3, <2>1, <2>2, <2>3, <2>4, <2>5 DEF Environment
<1> QED
  BY <1>1, <1>2, <1>3 DEF Next

-----------------------------------------------------------------------------
(* What is on record stays true: CheckpointInv and RecordsInv.              *)

BaseInv == TypeOK /\ DataInv /\ JobInv

Final == {"success", "submitted", "uncertain"}

LEMMA HistoryInit == Init => CheckpointInv /\ RecordsInv
<1> SUFFICES ASSUME Init PROVE CheckpointInv /\ RecordsInv
  OBVIOUS
<1>1. nruns = 0 /\ \A r \in Run : ~(r <= nruns)
  BY BoundAssumption DEF Init, Run
<1>2. \A r \in Run, p \in Position : rows[r][p].status = "none"
  BY DEF Init, NoRow
<1>3. OutcomesAreKept
  BY <1>1 DEF OutcomesAreKept
<1>4. CheckpointInv
  BY DEF Init, CheckpointInv
<1>5. link.source = 0 /\ \A r \in Run : status[r] # "running"
  BY DEF Init, NoLink
<1> QED
  BY <1>2, <1>3, <1>4, <1>5 DEF RecordsInv, ReachedIsSent, LinkIsTail, RunsCurrentEdition

\* The rows of the running run change: no second checkpoint opens, whoever is
\* reached was sent to, and what is final stays.
LEMMA RowsChange ==
    ASSUME BaseInv, RecordsInv, NEW r \in Run, status[r] = "running",
           NEW new \in [Position -> Row], rows' = [rows EXCEPT ![r] = new],
           UNCHANGED <<nruns, origin, pressed>>,
           \A p, s \in Position : new[p].status = "sending" /\ new[s].status = "sending" => p = s,
           \A p \in Position :
              /\ new[p].status \in {"success", "submitted"} => Sent(r, p) = 1
              /\ rows[r][p].status \in Final => new[p].status = rows[r][p].status
    PROVE  /\ \A q \in Run, p, s \in Position :
                 rows'[q][p].status = "sending" /\ rows'[q][s].status = "sending" => p = s
           /\ ReachedIsSent'
           /\ OutcomesAreKept'
<1>1. r = nruns
  BY DEF BaseInv, DataInv, RunningInv
<1>2. \A q \in Run : rows'[q] = IF q = r THEN new ELSE rows[q]
  BY DEF BaseInv, TypeOK
<1>3. \A q, p : Sent(q, p)' = Sent(q, p)
  BY DEF Sent
<1>4. ReachedIsSent'
  <2> SUFFICES ASSUME NEW q \in Run, NEW p \in Position,
                      rows'[q][p].status \in {"success", "submitted"}
               PROVE  Sent(q, p) = 1
    BY <1>3 DEF ReachedIsSent
  <2> QED
    BY <1>2 DEF RecordsInv, ReachedIsSent
<1>5. OutcomesAreKept'
  <2> SUFFICES ASSUME NEW e \in Run, NEW q \in Run, e < q, q <= nruns, origin[e] = origin[q],
                      NEW p \in Position, rows'[e][p].status \in Final
               PROVE  rows'[q][p].status = rows'[e][p].status
    BY DEF OutcomesAreKept, Final
  <2>1. e # r
    BY <1>1, BoundAssumption DEF Run
  <2>2. rows'[e] = rows[e] /\ rows[q][p].status = rows[e][p].status
    BY <1>2, <2>1 DEF RecordsInv, OutcomesAreKept, Final
  <2> QED
    BY <1>2, <2>2
<1>6. ASSUME NEW q \in Run, NEW p \in Position, NEW s \in Position,
             rows'[q][p].status = "sending", rows'[q][s].status = "sending"
      PROVE  p = s
  BY <1>2, <1>6 DEF RecordsInv
<1> QED
  BY <1>4, <1>5, <1>6

\* The retry that is remembered and the edition of the run that is running.
LEMMA LinkFrame ==
    ASSUME RecordsInv, UNCHANGED <<link, status, nruns, origin, runEdition, edition>>
    PROVE  /\ LinkIsTail' /\ RunsCurrentEdition'
           /\ (link.source # 0 => runEdition[link.source] = edition)'
BY DEF RecordsInv, LinkIsTail, RunsCurrentEdition, Tail

LEMMA RecordsFrame ==
    RecordsInv /\ UNCHANGED <<dataVars, runEdition, edition>> => RecordsInv'
BY DEF RecordsInv, ReachedIsSent, OutcomesAreKept, LinkIsTail, RunsCurrentEdition, Tail, Sent,
       dataVars

LEMMA CheckpointFrame ==
    CheckpointInv /\ UNCHANGED <<pc, run, todo, rows, origin, pressed, verdict>> => CheckpointInv'
BY DEF CheckpointInv, Current, Sent

\* The friend the job is at: pending or checkpointed.
LEMMA CurrentIsOpen ==
    ASSUME BaseInv, pc \notin {"off", "ready", "finish"}, NEW p \in Position, Current(p)
    PROVE  rows[run][p].status \in {"pending", "sending"} /\ run \in Run /\ status[run] = "running"
BY OpenIsLast DEF BaseInv, JobInv, Current

\* record() of the friend the job is at.
LEMMA OnResultRecords ==
    ASSUME BaseInv, RecordsInv, pc \notin {"off", "ready", "finish"},
           NEW p \in Position, Current(p), NEW result \in Result, NEW resume,
           OnResult(p, result, resume), result.ok => Sent(run, p) = 1
    PROVE  RecordsInv'
<1>1. rows[run][p].status \in {"pending", "sending"} /\ run \in Run /\ status[run] = "running"
      /\ rows[run][p] \in Row /\ rows[run] \in [Position -> Row]
  BY CurrentIsOpen DEF BaseInv, TypeOK
<1>2. UNCHANGED <<link, status, nruns, origin, pressed, runEdition, edition>>
  BY DEF OnResult, retryVars
<1>3. LinkIsTail' /\ RunsCurrentEdition' /\ (link.source # 0 => runEdition[link.source] = edition)'
  BY <1>2, LinkFrame
<1>4. CASE rows' = rows
  BY <1>2, <1>3, <1>4 DEF RecordsInv, ReachedIsSent, OutcomesAreKept, Sent
<1>5. CASE rows' = [rows EXCEPT ![run][p] = Recorded(rows[run][p], result)]
  <2> DEFINE row == Recorded(rows[run][p], result)
             new == [rows[run] EXCEPT ![p] = row]
  <2>0. row \in Row
    BY <1>1, RecordedType
  <2>1. row.status = RecordedStatus(result)
    BY <1>1 DEF Recorded, Row
  <2>2. row.status # "sending" /\ (row.status \in {"success", "submitted"} => result.ok)
    BY <2>1 DEF RecordedStatus
  <2> HIDE DEF row
  <2>3. new \in [Position -> Row] /\ rows' = [rows EXCEPT ![run] = new]
    BY <1>1, <1>5, <2>0 DEF row, BaseInv, TypeOK
  <2>4. \A s \in Position : new[s] = IF s = p THEN row ELSE rows[run][s]
    BY <1>1
  <2> HIDE DEF new
  <2>5. \A s, t \in Position : new[s].status = "sending" /\ new[t].status = "sending" => s = t
    BY <1>1, <2>2, <2>4 DEF RecordsInv
  <2>6. \A s \in Position :
           /\ new[s].status \in {"success", "submitted"} => Sent(run, s) = 1
           /\ rows[run][s].status \in Final => new[s].status = rows[run][s].status
    BY <1>1, <2>2, <2>4 DEF RecordsInv, ReachedIsSent, Final
  <2> QED
    BY <1>1, <1>2, <1>3, <2>3, <2>5, <2>6, RowsChange DEF RecordsInv
<1> QED
  BY <1>3, <1>4, <1>5 DEF OnResult

LEMMA OnResultCheckpoint ==
    ASSUME BaseInv, CheckpointInv, pc \notin {"off", "ready", "finish"},
           NEW p \in Position, Current(p), NEW result \in Result,
           NEW resume \in {"failing", "select", "finish"}, OnResult(p, result, resume),
           resume = "failing" => pc = "failing"
    PROVE  CheckpointInv'
<1>1. CASE pc' = "finish"
  BY <1>1 DEF CheckpointInv
<1>2. CASE pc' # "finish"
  <2>1. /\ pc' = resume /\ pc' \in {"failing", "select"}
        /\ rows' = [rows EXCEPT ![run][p] = Recorded(rows[run][p], result)]
        /\ run' = run /\ verdict' = verdict
    BY <1>2 DEF OnResult
  <2>2. run \in Run /\ rows[run][p] \in Row
    BY CurrentIsOpen DEF BaseInv, TypeOK
  <2>3. Recorded(rows[run][p], result).status # "sending"
    BY <2>2, RetryableIsUnsent
  <2>4. ASSUME NEW s \in Position PROVE rows'[run][s].status # "sending"
    <3>1. CASE s = p
      BY <2>1, <2>2, <2>3, <3>1 DEF BaseInv, TypeOK
    <3>2. CASE s # p
      <4>1. ~Current(s)
        BY <3>2, PositionAssumption DEF Current, BaseInv, TypeOK
      <4>2. rows[run][s].status # "sending"
        BY <4>1 DEF CheckpointInv, BaseInv, TypeOK, Phase
      <4> QED
        BY <2>1, <2>2, <3>2, <4>2 DEF BaseInv, TypeOK
    <3> QED
      BY <3>1, <3>2
  <2> QED
    BY <2>1, <2>4 DEF CheckpointInv
<1> QED
  BY <1>1, <1>2

LEMMA BatchHistory ==
    ASSUME BaseInv, CheckpointInv, RecordsInv, Batch
    PROVE  CheckpointInv' /\ RecordsInv'
<1>1. CASE SessionOpens \/ BatchAborts \/ \E result \in SessionFailure : SessionFails(result)
  <2>1. UNCHANGED <<dataVars, runEdition, edition, run, todo>>
    BY <1>1 DEF SessionOpens, BatchAborts, SessionFails, dataVars, taskVars, retryVars, runVars
  <2>2. pc' = "finish" \/ (pc = "open" /\ pc' = "select")
        \/ (pc = "open" /\ pc' = "failing" /\ verdict' \in SessionFailure)
    BY <1>1 DEF SessionOpens, BatchAborts, SessionFails
  <2>3. CheckpointInv'
    BY <2>1, <2>2 DEF CheckpointInv, dataVars
  <2> QED
    BY <2>1, <2>3, RecordsFrame
<1>2. ASSUME NEW p \in Position, BeforeSendDenied(p) PROVE CheckpointInv' /\ RecordsInv'
  <2>1. /\ UNCHANGED <<dataVars, runEdition, edition, run, todo>>
        /\ pc = "select" /\ pc' = "refused"
    BY <1>2 DEF BeforeSendDenied, dataVars, taskVars, retryVars, runVars
  <2>2. CheckpointInv'
    BY <2>1 DEF CheckpointInv, dataVars
  <2> QED
    BY <2>1, <2>2, RecordsFrame
<1>3. ASSUME NEW p \in Position, NEW result \in Result, Current(p),
             pc \notin {"off", "ready", "finish"}, result.ok => Sent(run, p) = 1,
             NEW resume \in {"failing", "select", "finish"}, resume = "failing" => pc = "failing",
             OnResult(p, result, resume)
      PROVE  CheckpointInv' /\ RecordsInv'
  BY <1>3, OnResultRecords, OnResultCheckpoint
<1>4. \A result \in SessionFailure \cup SelectFailure \cup CheckpointFailure \cup {Denial} :
         result.ok = FALSE
  BY DEF SessionFailure, SelectFailure, CheckpointFailure, Modelled, LoginExpired, Denial,
         Unknown, Failure
<1>5. ASSUME NEW p \in Position, RecordSessionFailure(p) PROVE CheckpointInv' /\ RecordsInv'
  <2>1. verdict \in SessionFailure /\ verdict \in Result
    BY <1>5 DEF RecordSessionFailure, CheckpointInv, Result
  <2> QED
    BY <1>3, <1>4, <1>5, <2>1 DEF RecordSessionFailure
<1>6. ASSUME NEW p \in Position, RecordDenial(p) PROVE CheckpointInv' /\ RecordsInv'
  BY <1>3, <1>4, <1>6 DEF RecordDenial, Result
<1>7. ASSUME NEW p \in Position, NEW result \in SelectFailure, SelectFails(p, result)
      PROVE  CheckpointInv' /\ RecordsInv'
  BY <1>3, <1>4, <1>7 DEF SelectFails, Result
<1>8. ASSUME NEW p \in Position, NEW result \in CheckpointFailure, CheckpointFails(p, result)
      PROVE  CheckpointInv' /\ RecordsInv'
  BY <1>3, <1>4, <1>8 DEF CheckpointFails, Result
<1>9. ASSUME NEW p \in Position, NEW result \in Confirmation, Confirms(p, result)
      PROVE  CheckpointInv' /\ RecordsInv'
  <2>1. Sent(run, p) = 1
    BY <1>9 DEF Confirms, CheckpointInv, Current
  <2> QED
    BY <1>3, <1>9, <2>1 DEF Confirms, Result
<1>10. ASSUME NEW p \in Position, BeforeSend(p) PROVE CheckpointInv' /\ RecordsInv'
  <2> DEFINE row == [rows[run][p] EXCEPT !.status = "sending", !.stage = "sending"]
             new == [rows[run] EXCEPT ![p] = row]
  <2>1. /\ pc = "select" /\ pc' = "checkpoint" /\ Current(p)
        /\ UNCHANGED <<link, status, nruns, origin, pressed, runEdition, edition, run, todo>>
        /\ rows' = [rows EXCEPT ![run][p].status = "sending", ![run][p].stage = "sending"]
        /\ rows[run][p].status = "pending"
    BY <1>10 DEF BeforeSend, MaySend, taskVars, retryVars
  <2>2. /\ run \in Run /\ status[run] = "running" /\ rows[run][p] \in Row
        /\ rows[run] \in [Position -> Row]
    BY <2>1, CurrentIsOpen DEF BaseInv, TypeOK
  <2>3. row \in Row /\ row.status = "sending"
    BY <2>2 DEF Row, RowStatus, Stage
  <2>4. rows' = [rows EXCEPT ![run] = new]
    BY <2>1, <2>2 DEF BaseInv, TypeOK
  <2> HIDE DEF row
  <2>5. new \in [Position -> Row]
    BY <2>2, <2>3
  <2>6. \A s \in Position : new[s] = IF s = p THEN row ELSE rows[run][s]
    BY <2>2
  <2>7. \A s \in Position : rows[run][s].status # "sending"
    BY <2>1 DEF CheckpointInv
  <2> HIDE DEF new
  <2>8. \A s, t \in Position : new[s].status = "sending" /\ new[t].status = "sending" => s = t
    BY <2>6, <2>7
  <2>9. \A s \in Position :
           /\ new[s].status \in {"success", "submitted"} => Sent(run, s) = 1
           /\ rows[run][s].status \in Final => new[s].status = rows[run][s].status
    BY <2>1, <2>2, <2>3, <2>6 DEF RecordsInv, ReachedIsSent, Final
  <2>10. RecordsInv'
    <3>1. /\ \A q \in Run, s, t \in Position :
                rows'[q][s].status = "sending" /\ rows'[q][t].status = "sending" => s = t
          /\ ReachedIsSent' /\ OutcomesAreKept'
      BY <2>1, <2>2, <2>4, <2>5, <2>8, <2>9, RowsChange
    <3> QED
      BY <2>1, <3>1, LinkFrame DEF RecordsInv
  <2>11. \A s \in Position : rows'[run'][s] = new[s]
    BY <2>1, <2>2, <2>4 DEF BaseInv, TypeOK
  <2>12. CheckpointInv'
    <3>1. ASSUME NEW s \in Position, rows'[run'][s].status = "sending" PROVE Current(s)'
      BY <2>1, <2>6, <2>7, <2>11, <3>1 DEF Current
    <3> QED
      BY <2>1, <3>1 DEF CheckpointInv
  <2> QED
    BY <2>10, <2>12
<1>11. ASSUME NEW p \in Position, PressEnter(p) PROVE CheckpointInv' /\ RecordsInv'
  <2>1. /\ run \in Run /\ run = nruns /\ origin[run] \in Run /\ Current(p)
    BY <1>11, OpenIsLast DEF PressEnter, BaseInv
  <2>2. /\ UNCHANGED <<link, status, rows, nruns, origin, runEdition, edition, run, todo>>
        /\ pc = "checkpoint" /\ pc' = "pressed"
    BY <1>11 DEF PressEnter, taskVars, retryVars, runVars
  <2>3. Sent(run, p) = 0
    BY <2>1, <2>2 DEF BaseInv, JobInv, Current
  <2>4. \A o \in Run, q \in Position :
           pressed'[o][q] = IF o = origin[run] /\ q = p THEN 1 ELSE pressed[o][q]
    BY <1>11, <2>1, <2>3 DEF PressEnter, BaseInv, TypeOK, Sent
  <2>5. ReachedIsSent'
    <3> SUFFICES ASSUME NEW q \in Run, NEW s \in Position,
                        rows[q][s].status \in {"success", "submitted"}
                 PROVE  Sent(q, s)' = 1
      BY <2>2 DEF ReachedIsSent
    <3>1. Sent(q, s) = 1
      BY DEF RecordsInv, ReachedIsSent
    <3>2. origin[q] \in Run
      <4>1. q <= nruns
        BY BoundAssumption DEF BaseInv, DataInv, NumberingInv, TypeOK, Run, NoRow
      <4> QED
        BY <4>1, BoundAssumption DEF BaseInv, DataInv, NumberingInv, Run, TypeOK
    <3> QED
      BY <2>2, <2>4, <3>1, <3>2 DEF Sent
  <2>6. RecordsInv'
    BY <2>2, <2>5, LinkFrame DEF RecordsInv, OutcomesAreKept
  <2>7. CheckpointInv'
    <3>1. ASSUME NEW s \in todo, Current(s) PROVE Sent(run, s)' = 1
      <4>1. s = p
        BY <2>1, <3>1, PositionAssumption DEF Current, BaseInv, TypeOK
      <4> QED
        BY <2>1, <2>2, <2>4, <4>1 DEF Sent
    <3>2. \A s : Current(s)' <=> Current(s)
      BY <2>2 DEF Current
    <3> QED
      BY <2>2, <3>1, <3>2 DEF CheckpointInv
  <2> QED
    BY <2>6, <2>7
<1> QED
  BY <1>1, <1>2, <1>5, <1>6, <1>7, <1>8, <1>9, <1>10, <1>11 DEF Batch

\* interrupt() of an open friend.
LEMMA InterruptedOpen ==
    ASSUME NEW row \in Row, row.status \in {"pending", "sending"}, NEW retryPending
    PROVE  Interrupted(row, retryPending).status
             = IF row.status = "sending" THEN "uncertain" ELSE "failed"
BY DEF Interrupted, Unconfirmed, NotStarted, Row

\* A run ends, and may be remembered for a retry.
LEMMA RunEndsRecords ==
    ASSUME BaseInv, RecordsInv, NEW r \in Run, status[r] = "running",
           NEW closed \in [Position -> Row], NEW pending,
           \A p \in Position : closed[p] = Interrupted(rows[r][p], pending),
           NEW ended, ended # "running",
           rows' = [rows EXCEPT ![r] = closed],
           status' = [status EXCEPT ![r] = ended],
           UNCHANGED <<nruns, origin, pressed, runEdition, edition>>,
           link' = link \/ (link'.source = r /\ ended \in {"failed", "partial"})
    PROVE  RecordsInv'
<1>1. /\ r = nruns /\ link.source = 0
      /\ \A q \in Run : q # r => status[q] # "running"
  BY DEF BaseInv, DataInv, RunningInv
<1>2. \A q \in Run : status'[q] = IF q = r THEN ended ELSE status[q]
  BY DEF BaseInv, TypeOK
<1>3. ASSUME NEW p \in Position
      PROVE  /\ closed[p].status # "sending"
             /\ closed[p].status \in {"success", "submitted"} => Sent(r, p) = 1
             /\ rows[r][p].status \in Final => closed[p].status = rows[r][p].status
  <2>1. rows[r][p] \in Row
    BY DEF BaseInv, TypeOK
  <2>2. closed[p] = Interrupted(rows[r][p], pending)
    OBVIOUS
  <2>3. CASE rows[r][p].status \in {"pending", "sending"}
    BY <2>1, <2>2, <2>3, InterruptedOpen DEF Final
  <2>4. CASE rows[r][p].status \notin {"pending", "sending"}
    <3>1. closed[p] = rows[r][p]
      BY <2>2, <2>4 DEF Interrupted
    <3> QED
      BY <2>4, <3>1 DEF RecordsInv, ReachedIsSent
  <2> QED
    BY <2>3, <2>4
<1>4. /\ \A q \in Run, p, s \in Position :
            rows'[q][p].status = "sending" /\ rows'[q][s].status = "sending" => p = s
      /\ ReachedIsSent' /\ OutcomesAreKept'
  BY <1>3, RowsChange
<1>5. LinkIsTail'
  <2> SUFFICES ASSUME link'.source # 0
               PROVE  status'[link'.source] \in {"failed", "partial"} /\ Tail(link.source)'
    BY DEF LinkIsTail
  <2>1. link'.source = r /\ ended \in {"failed", "partial"}
    BY <1>1
  <2>2. Tail(r)'
    BY <1>1 DEF Tail, Run
  <2> QED
    BY <1>2, <2>1, <2>2
<1>6. RunsCurrentEdition'
  BY <1>1, <1>2 DEF RunsCurrentEdition
<1>7. (link.source # 0 => runEdition[link.source] = edition)'
  BY <1>1 DEF RecordsInv, RunsCurrentEdition
<1> QED
  BY <1>4, <1>5, <1>6, <1>7 DEF RecordsInv

\* A friend that may be tried again is listed and was not reached.
LEMMA RetryableIsNoSuccess ==
    ASSUME BaseInv, NEW r \in Run, NEW pending, NEW closed \in [Position -> Row],
           \A p \in Position : closed[p] = Interrupted(rows[r][p], pending), Retryable(closed)
    PROVE  Summary(closed) \in {"failed", "partial"}
<1>1. PICK p \in Position : closed[p].retryable
  BY DEF Retryable
<1>2. rows[r][p] \in Row /\ (rows[r][p].retryable => rows[r][p].status = "failed")
  BY DEF BaseInv, TypeOK, DataInv, RetryInv
<1>3. closed[p].status = "failed"
  BY <1>1, <1>2, InterruptedKeeps
<1>4. p \in Listed(closed) /\ p \notin Reached(closed)
  BY <1>3 DEF Listed, Reached
<1> QED
  BY <1>4, Zenon DEF Summary

LEMMA RecoverHistory ==
    ASSUME BaseInv, CheckpointInv, RecordsInv, NEW r \in Run, Recover(r)
    PROVE  CheckpointInv' /\ RecordsInv'
<1> DEFINE closed == [p \in Position |-> Interrupted(rows[r][p], TRUE)]
<1>1. closed \in [Position -> Row]
  <2>1. ASSUME NEW p \in Position PROVE Interrupted(rows[r][p], TRUE) \in Row
    <3>1. rows[r][p] \in Row
      BY DEF BaseInv, TypeOK
    <3> QED
      BY <3>1, InterruptedType
  <2> QED
    BY <2>1
<1>2. /\ rows' = [rows EXCEPT ![r] = closed]
      /\ status' = [status EXCEPT ![r] = Summary(closed)]
      /\ UNCHANGED <<nruns, origin, pressed, runEdition, edition>>
      /\ status[r] = "running" /\ pc' = "ready"
  BY DEF Recover
<1>3. link' = link \/ (link'.source = r /\ Retryable(closed))
  BY DEF Recover
<1>4. \A p \in Position : closed[p] = Interrupted(rows[r][p], TRUE)
  OBVIOUS
<1> HIDE DEF closed
<1>5. Summary(closed) # "running"
  BY DEF Summary
<1>6. link' = link \/ (link'.source = r /\ Summary(closed) \in {"failed", "partial"})
  BY <1>1, <1>3, <1>4, RetryableIsNoSuccess
<1>7. RecordsInv'
  BY <1>1, <1>2, <1>4, <1>5, <1>6, RunEndsRecords
<1> QED
  BY <1>2, <1>7 DEF CheckpointInv

LEMMA FinishHistory ==
    ASSUME BaseInv, CheckpointInv, RecordsInv, Finish
    PROVE  CheckpointInv' /\ RecordsInv'
<1>1. CloseRows
  BY DEF Finish, FinishWithRetry, FinishForGood, FinishChatUnavailable
<1>2. run \in Run /\ status[run] = "running"
  BY <1>1, OpenIsLast DEF CloseRows, BaseInv
<1>3. Closed \in [Position -> Row] /\ \A p \in Position : Closed[p] = Interrupted(rows[run][p], ~(stopped \/ denied))
  BY <1>2, ClosedType DEF Closed, BaseInv
<1>4. /\ rows' = [rows EXCEPT ![run] = Closed]
      /\ UNCHANGED <<nruns, origin, pressed, runEdition, edition>> /\ pc' = "off"
  BY <1>1 DEF CloseRows, JobExits
<1>5. PICK ended : /\ status' = [status EXCEPT ![run] = ended] /\ ended # "running"
                   /\ link' = link \/ (link'.source = run /\ ended \in {"failed", "partial"})
  BY DEF Finish, FinishWithRetry, FinishForGood, FinishChatUnavailable, Summary
<1>6. RecordsInv'
  BY <1>2, <1>3, <1>4, <1>5, RunEndsRecords
<1> QED
  BY <1>4, <1>6 DEF CheckpointInv

\* A run is claimed: it is the last of its occurrence, and what is final in the
\* run it continues is so in it.
Carries(o, first) ==
    \A p \in Position :
        /\ first[p].status # "sending"
        /\ first[p].status \in {"success", "submitted"} => pressed[o][p] = 1
        /\ \A q \in Run : q <= nruns /\ origin[q] = o /\ rows[q][p].status \in Final
                            => first[p].status = rows[q][p].status

LEMMA OpensHistory ==
    ASSUME BaseInv, CheckpointInv, RecordsInv, NEW r \in Run, NEW first \in [Position -> Row],
           Claims(r), Opens(r, first),
           NEW o \in 1..r, origin' = [origin EXCEPT ![r] = o],
           runEdition' = [runEdition EXCEPT ![r] = edition],
           Carries(o, first)
    PROVE  CheckpointInv' /\ RecordsInv'
<1>1. /\ r = nruns + 1 /\ nruns' = r /\ pc = "ready" /\ nruns \in Nat
      /\ link'.source = 0 /\ pc' = "open" /\ run' = r
      /\ UNCHANGED <<pressed, edition>>
  BY BoundAssumption DEF Claims, Opens, NoLink, BaseInv, TypeOK
<1>2. \A q \in Run : /\ status'[q] = IF q = r THEN "running" ELSE status[q]
                     /\ rows'[q] = IF q = r THEN first ELSE rows[q]
                     /\ origin'[q] = IF q = r THEN o ELSE origin[q]
                     /\ runEdition'[q] = IF q = r THEN edition ELSE runEdition[q]
  BY DEF Opens, BaseInv, TypeOK
<1>3. \A q \in Run : status[q] # "running"
  BY <1>1 DEF BaseInv, JobInv
<1>4. CheckpointInv'
  BY <1>1, <1>2 DEF CheckpointInv, Carries
<1>5. ReachedIsSent'
  <2> SUFFICES ASSUME NEW q \in Run, NEW p \in Position,
                      rows'[q][p].status \in {"success", "submitted"}
               PROVE  Sent(q, p)' = 1
    BY DEF ReachedIsSent
  <2>1. CASE q = r
    BY <1>1, <1>2, <2>1 DEF Sent, Carries
  <2>2. CASE q # r
    BY <1>1, <1>2, <2>2 DEF Sent, RecordsInv, ReachedIsSent
  <2> QED
    BY <2>1, <2>2
<1>6. OutcomesAreKept'
  <2> SUFFICES ASSUME NEW e \in Run, NEW q \in Run, e < q, q <= r, origin'[e] = origin'[q],
                      NEW p \in Position, rows'[e][p].status \in Final
               PROVE  rows'[q][p].status = rows'[e][p].status
    BY <1>1 DEF OutcomesAreKept, Final
  <2>1. e # r /\ e <= nruns /\ rows'[e] = rows[e] /\ origin'[e] = origin[e]
    BY <1>1, <1>2 DEF Run
  <2>2. CASE q = r
    BY <1>2, <2>1, <2>2 DEF Carries
  <2>3. CASE q # r
    <3>1. q <= nruns
      BY <1>1, <2>3 DEF Run
    <3>2. rows'[q] = rows[q] /\ origin'[q] = origin[q]
      BY <1>2, <2>3
    <3> QED
      BY <2>1, <3>1, <3>2 DEF RecordsInv, OutcomesAreKept, Final
  <2> QED
    BY <2>2, <2>3
<1>7. ASSUME NEW q \in Run, NEW p \in Position, NEW s \in Position,
             rows'[q][p].status = "sending", rows'[q][s].status = "sending"
      PROVE  p = s
  BY <1>2, <1>7 DEF RecordsInv, Carries
<1>8. LinkIsTail' /\ (link.source # 0 => runEdition[link.source] = edition)'
  BY <1>1 DEF LinkIsTail
<1>9. RunsCurrentEdition'
  BY <1>1, <1>2, <1>3 DEF RunsCurrentEdition
<1> QED
  BY <1>4, <1>5, <1>6, <1>7, <1>8, <1>9 DEF RecordsInv

\* An occurrence begins with its own run: no earlier run is of it.
LEMMA NoEarlierRun ==
    ASSUME BaseInv, NEW r \in Run, Claims(r)
    PROVE  /\ \A q \in Run : q <= nruns => origin[q] # r /\ q # r
           /\ \A p \in Position : pressed[r][p] = 0 /\ rows[r][p] = NoRow
           /\ r \in 1..r
<1>1. r = nruns + 1 /\ nruns \in Nat
  BY DEF Claims, BaseInv, TypeOK
<1>2. \A q \in Run : q <= nruns => origin[q] \in 1..q
  BY DEF BaseInv, DataInv, NumberingInv
<1> QED
  BY <1>1, <1>2 DEF BaseInv, DataInv, NumberingInv, Run

LEMMA ClaimFreshHistory ==
    ASSUME BaseInv, CheckpointInv, RecordsInv, NEW r \in Run, ClaimFresh(r)
    PROVE  CheckpointInv' /\ RecordsInv'
<1> DEFINE first == [p \in Position |-> IF p \in friends THEN Queued(1) ELSE NoRow]
<1>1. first \in [Position -> Row]
  BY QueuedType, NoRowType
<1>2. /\ Claims(r) /\ Opens(r, first) /\ origin' = [origin EXCEPT ![r] = r]
      /\ runEdition' = [runEdition EXCEPT ![r] = edition]
  BY DEF ClaimFresh
<1>3. \A p \in Position : first[p].status \in {"pending", "none"}
  BY DEF Queued, NoRow
<1>4. r \in 1..r /\ \A q \in Run : q <= nruns => origin[q] # r
  BY <1>2, NoEarlierRun
<1> HIDE DEF first
<1>5. Carries(r, first)
  BY <1>3, <1>4 DEF Carries
<1> QED
  BY <1>1, <1>2, <1>4, <1>5, OpensHistory

LEMMA ClaimRetryHistory ==
    ASSUME BaseInv, CheckpointInv, RecordsInv, NEW r \in Run, ClaimRetry(r)
    PROVE  CheckpointInv' /\ RecordsInv'
<1> DEFINE s == link.source
           first == [p \in Position |-> Copied(s, p)]
           o == origin[s]
<1>1. /\ s \in Run /\ Tail(s) /\ s <= nruns /\ status[s] # "running"
      /\ Claims(r) /\ Opens(r, first) /\ origin' = [origin EXCEPT ![r] = o]
      /\ runEdition' = [runEdition EXCEPT ![r] = edition]
  BY DEF ClaimRetry, LinkMatches, Claims, BaseInv, DataInv, LinkInv, JobInv, Tail, RecordsInv
<1>2. o \in 1..r
  BY <1>1, BoundAssumption DEF BaseInv, DataInv, NumberingInv, Claims, Run, TypeOK
<1>3. first \in [Position -> Row]
  BY <1>1, CopiedType DEF BaseInv
<1>4. ASSUME NEW p \in Position
      PROVE  /\ first[p].status # "sending"
             /\ first[p].status \in {"success", "submitted"} => pressed[o][p] = 1
             /\ rows[s][p].status \in Final => first[p].status = rows[s][p].status
  <2> DEFINE row == rows[s][p]
  <2>1. row \in Row /\ row.status \notin {"pending", "sending"}
    BY <1>1 DEF BaseInv, TypeOK, DataInv, RunningInv
  <2>2. row.status \in {"success", "submitted"} => pressed[o][p] = 1
    BY <1>1 DEF RecordsInv, ReachedIsSent, Sent
  <2>3. CASE row.status = "none"
    BY <2>3 DEF Copied, NoRow, Final
  <2>4. CASE row.status # "none" /\ TriedAgain(s, p)
    <3>1. row.status = "failed"
      BY <1>1, <2>1, <2>4 DEF TriedAgain, BaseInv, DataInv, RetryInv
    <3> QED
      BY <2>4, <3>1 DEF Copied, Queued, Final
  <2>5. CASE row.status # "none" /\ ~TriedAgain(s, p)
    <3>1. first[p] = [row EXCEPT !.retryable = FALSE, !.attempt = 1]
      BY <2>5 DEF Copied
    <3>2. first[p].status = row.status
      BY <2>1, <3>1 DEF Row
    <3> QED
      BY <2>1, <2>2, <3>2
  <2> QED
    BY <2>3, <2>4, <2>5
<1>5. ASSUME NEW p \in Position, NEW q \in Run, q <= nruns, origin[q] = o,
             rows[q][p].status \in Final
      PROVE  first[p].status = rows[q][p].status
  <2>1. q <= s
    BY <1>1, <1>5 DEF Tail
  <2>2. rows[s][p].status = rows[q][p].status
    <3>1. CASE q = s
      BY <3>1
    <3>2. CASE q # s
      <4>1. q < s
        BY <1>1, <2>1, <3>2 DEF Run
      <4> QED
        BY <1>1, <1>5, <4>1 DEF RecordsInv, OutcomesAreKept, Final
    <3> QED
      BY <3>1, <3>2
  <2> QED
    BY <1>4, <1>5, <2>2
<1> HIDE DEF first, s, o
<1>6. Carries(o, first)
  BY <1>4, <1>5 DEF Carries
<1> QED
  BY <1>1, <1>2, <1>3, <1>6, OpensHistory

LEMMA ClaimEndsEarlyHistory ==
    ASSUME BaseInv, CheckpointInv, RecordsInv, NEW r \in Run, ClaimEndsEarly(r)
    PROVE  CheckpointInv' /\ RecordsInv'
<1>1. /\ r = nruns + 1 /\ nruns' = r /\ nruns \in Nat /\ pc' = "off" /\ pc = "ready"
      /\ UNCHANGED <<pressed, rows, link, runEdition, edition>>
  BY DEF ClaimEndsEarly, Claims, JobExits, BaseInv, TypeOK
<1>2. /\ \A q \in Run : q # r => status'[q] = status[q] /\ origin'[q] = origin[q]
      /\ origin'[r] = r /\ status'[r] # "running"
  BY DEF ClaimEndsEarly, BaseInv, TypeOK
<1>3. /\ \A q \in Run : q <= nruns => origin[q] # r /\ q # r
      /\ \A p \in Position : rows[r][p].status = "none"
  BY NoEarlierRun DEF ClaimEndsEarly, NoRow
<1>4. CheckpointInv'
  BY <1>1 DEF CheckpointInv
<1>5. ReachedIsSent'
  <2> SUFFICES ASSUME NEW q \in Run, NEW p \in Position,
                      rows[q][p].status \in {"success", "submitted"}
               PROVE  Sent(q, p)' = 1
    BY <1>1 DEF ReachedIsSent
  <2>1. q # r
    BY <1>3
  <2> QED
    BY <1>1, <1>2, <2>1 DEF RecordsInv, ReachedIsSent, Sent
<1>6. OutcomesAreKept'
  <2> SUFFICES ASSUME NEW e \in Run, NEW q \in Run, e < q, q <= r, origin'[e] = origin'[q],
                      NEW p \in Position, rows[e][p].status \in Final
               PROVE  rows[q][p].status = rows[e][p].status
    BY <1>1 DEF OutcomesAreKept, Final
  <2>1. e <= nruns /\ e # r /\ origin'[e] = origin[e] /\ origin[e] # r
    BY <1>1, <1>2, <1>3 DEF Run
  <2>2. q # r
    BY <1>2, <2>1
  <2>3. q <= nruns
    BY <1>1, <2>2 DEF Run
  <2> QED
    BY <1>2, <2>1, <2>2, <2>3 DEF RecordsInv, OutcomesAreKept, Final
<1>7. LinkIsTail'
  <2> SUFFICES ASSUME link.source # 0
               PROVE  status'[link.source] \in {"failed", "partial"} /\ Tail(link.source)'
    BY <1>1 DEF LinkIsTail
  <2> DEFINE s == link.source
  <2>1. s \in Run /\ status[s] \in {"failed", "partial"} /\ Tail(s)
    BY DEF BaseInv, DataInv, LinkInv, RecordsInv, LinkIsTail
  <2>2. s <= nruns /\ s # r /\ origin[s] # r
    BY <1>3, <2>1 DEF Tail
  <2>3. ASSUME NEW q \in Run, q <= r, origin'[q] = origin'[s] PROVE q <= s
    <3>1. q # r
      BY <1>2, <2>1, <2>2, <2>3
    <3> QED
      BY <1>1, <1>2, <2>1, <2>2, <2>3, <3>1 DEF Tail, Run
  <2>4. Tail(s)'
    BY <1>1, <2>1, <2>2, <2>3 DEF Tail, Run
  <2> QED
    BY <1>2, <2>1, <2>2, <2>4
<1>8. RunsCurrentEdition'
  BY <1>1, <1>2 DEF RunsCurrentEdition, RecordsInv
<1> QED
  BY <1>1, <1>4, <1>5, <1>6, <1>7, <1>8 DEF RecordsInv

-----------------------------------------------------------------------------

LEMMA EditHistory ==
    ASSUME BaseInv, CheckpointInv, RecordsInv, NEW a \in Account, Edit(a)
    PROVE  CheckpointInv' /\ RecordsInv'
<1>1. /\ UNCHANGED <<nruns, status, rows, origin, pressed, runEdition>> /\ link'.source = 0
      /\ UNCHANGED <<pc, run, todo, verdict>> /\ \A r \in Run : status[r] # "running"
  BY DEF Edit, runVars, jobVars, NoLink, Running
<1>2. RecordsInv'
  BY <1>1 DEF RecordsInv, ReachedIsSent, OutcomesAreKept, LinkIsTail, RunsCurrentEdition, Sent
<1> QED
  BY <1>1, <1>2, CheckpointFrame

LEMMA ScheduleManualHistory ==
    ASSUME BaseInv, CheckpointInv, RecordsInv, NEW r \in Run, NEW chosen \in SUBSET Position,
           ScheduleManual(r, chosen)
    PROVE  CheckpointInv' /\ RecordsInv'
<1>1. /\ UNCHANGED <<nruns, status, rows, origin, pressed, runEdition, edition>>
      /\ UNCHANGED <<pc, run, todo, verdict>> /\ r = nruns
  BY DEF ScheduleManual, runVars, jobVars
<1>2. CASE chosen = {}
  <2>1. link' = link
    BY <1>2 DEF ScheduleManual
  <2>2. LinkIsTail' /\ RunsCurrentEdition' /\ (link.source # 0 => runEdition[link.source] = edition)'
    BY <1>1, <2>1, LinkFrame
  <2>3. RecordsInv'
    BY <1>1, <2>2 DEF RecordsInv, ReachedIsSent, OutcomesAreKept, Sent
  <2> QED
    BY <1>1, <2>3, CheckpointFrame
<1>3. CASE chosen # {}
  <2>1. /\ link'.source = r /\ status[r] \in {"failed", "partial"} /\ runEdition[r] = edition
    BY <1>3 DEF ScheduleManual
  <2>2. Tail(r)
    BY <1>1 DEF Tail, Run
  <2>3. LinkIsTail' /\ RunsCurrentEdition'
    BY <1>1, <2>1, <2>2 DEF RecordsInv, LinkIsTail, RunsCurrentEdition, Tail
  <2>4. RecordsInv'
    BY <1>1, <2>1, <2>3 DEF RecordsInv, ReachedIsSent, OutcomesAreKept, Sent
  <2> QED
    BY <1>1, <2>4, CheckpointFrame
<1> QED
  BY <1>2, <1>3

LEMMA HistoryStep ==
    ASSUME BaseInv, CheckpointInv, RecordsInv, [Next]_vars
    PROVE  CheckpointInv' /\ RecordsInv'
<1>1. ASSUME UNCHANGED <<dataVars, runEdition, edition>>, pc' \in {"off", "ready"}
      PROVE  CheckpointInv' /\ RecordsInv'
  <2>1. CheckpointInv'
    BY <1>1 DEF CheckpointInv
  <2> QED
    BY <1>1, <2>1, RecordsFrame
<1>2. ASSUME UNCHANGED <<dataVars, runEdition, edition, jobVars>> PROVE CheckpointInv' /\ RecordsInv'
  BY <1>2, RecordsFrame, CheckpointFrame DEF dataVars, jobVars
<1>3. CASE UNCHANGED vars
  BY <1>2, <1>3 DEF vars, dataVars, taskVars, retryVars, runVars
<1>4. CASE Job
  <2>1. CASE StartJob \/ ClaimPausesUnauthorized \/ ClaimFindsNothing \/ JobDies
    BY <1>1, <2>1 DEF StartJob, ClaimPausesUnauthorized, ClaimFindsNothing, JobDies, JobExits,
       dataVars, taskVars, retryVars, runVars
  <2> QED
    BY <1>4, <2>1, RecoverHistory, ClaimEndsEarlyHistory, ClaimFreshHistory, ClaimRetryHistory,
       BatchHistory, FinishHistory DEF Job, Start, Claim
<1>5. CASE Environment
  <2>1. CASE TimeArrives \/ Disable \/ Enable \/ QuotaEnds \/ QuotaReturns \/ QuotaPauses
    BY <1>2, <2>1 DEF TimeArrives, Disable, Enable, QuotaEnds, QuotaReturns, QuotaPauses,
       dataVars, taskVars, retryVars, runVars
  <2>2. ASSUME NEW a \in Account, DeleteAccount(a) \/ Rebind(a) PROVE CheckpointInv' /\ RecordsInv'
    BY <1>2, <2>2 DEF DeleteAccount, Rebind, dataVars, taskVars, retryVars, runVars
  <2> QED
    BY <1>5, <2>1, <2>2, EditHistory, ScheduleManualHistory DEF Environment
<1> QED
  BY <1>3, <1>4, <1>5 DEF Next

-----------------------------------------------------------------------------

\* IInv is inductive: it holds at the start and every step keeps it.
THEOREM Inductive == Spec => []IInv
<1>1. Init => BaseInv /\ CheckpointInv /\ RecordsInv
  BY TypeInit, SafeInit, HistoryInit DEF BaseInv
<1>2. BaseInv /\ CheckpointInv /\ RecordsInv /\ [Next]_vars
        => (BaseInv /\ CheckpointInv /\ RecordsInv)'
  BY TypeStep, SafeStep, HistoryStep DEF BaseInv
<1>3. BaseInv /\ CheckpointInv /\ RecordsInv => IInv
  BY DEF BaseInv, DataInv, IInv
<1> QED
  BY <1>1, <1>2, <1>3, PTL DEF Spec

\* Over all runs, crashes and retries of an occurrence, Enter is pressed at
\* most once for a friend.
THEOREM SendsOnce == Spec => []NoDoubleSend
<1>1. IInv => NoDoubleSend
  BY DEF IInv
<1> QED
  BY <1>1, Inductive, PTL

\* What the last run of an occurrence calls unsent was not sent to.
THEOREM UnsentIsTrue == Spec => []UnsentIsUnsent
<1>1. IInv => UnsentIsUnsent
  BY DEF IInv
<1> QED
  BY <1>1, Inductive, PTL

\* At most one run is running, it is the last, and the job works on it.
THEOREM RunsOneAtATime == Spec => []OneRunning
<1>1. IInv => OneRunning
  <2> SUFFICES ASSUME IInv, NEW r \in Run, status[r] = "running"
               PROVE  r = nruns /\ link.source = 0 /\ (pc \in {"off", "ready"} \/ run = r)
    BY DEF OneRunning
  <2>1. r = nruns /\ link.source = 0
    BY DEF IInv, RunningInv
  <2>2. pc \notin {"off", "ready"} => run = nruns
    BY DEF IInv, RunningInv, JobInv
  <2> QED
    BY <2>1, <2>2
<1> QED
  BY <1>1, Inductive, PTL

\* At most one friend of the task has an open checkpoint, whatever died before.
THEOREM OneCheckpoint == Spec => []OneInFlight
<1>1. IInv => OneInFlight
  <2> SUFFICES ASSUME IInv, NEW r \in Run, NEW q \in Run, NEW p \in Position, NEW s \in Position,
                      rows[r][p].status = "sending", rows[q][s].status = "sending"
               PROVE  r = q /\ p = s
    BY DEF OneInFlight
  <2>1. r = nruns /\ q = nruns
    BY DEF IInv, RunningInv
  <2> QED
    BY <2>1 DEF IInv, RecordsInv
<1> QED
  BY <1>1, Inductive, PTL

\* A friend that was reached, or may have been, stays so in every later run of
\* the occurrence.
THEOREM HistoryIsKept == Spec => []OutcomesAreKept
<1>1. IInv => OutcomesAreKept
  BY DEF IInv, RecordsInv
<1> QED
  BY <1>1, Inductive, PTL

\* Whoever is recorded as reached was sent to, and an ended run is closed.
THEOREM RecordsAreHonest == Spec => []OutcomeIsHonest
<1>1. IInv => OutcomeIsHonest
  BY DEF IInv, RecordsInv, ReachedIsSent, RunningInv, OutcomeIsHonest
<1> QED
  BY <1>1, Inductive, PTL

\* The retry that is remembered continues the last, ended run of its occurrence.
THEOREM RetryContinuesTail == Spec => []LinkIsTail
<1>1. IInv => LinkIsTail
  BY DEF IInv, RecordsInv
<1> QED
  BY <1>1, Inductive, PTL

\* Runs, retries included, work with the list their owner saved last.
THEOREM RunsTheLastEdition == Spec => []RunsCurrentEdition
<1>1. IInv => RunsCurrentEdition
  BY DEF IInv, RecordsInv
<1> QED
  BY <1>1, Inductive, PTL

-----------------------------------------------------------------------------
(* The batch implements Delivery, friend by friend: what OutcomeOf reads    *)
(* from the presses and from the last run of the occurrence.                *)

LEMMA LastOf ==
    ASSUME NEW S \in SUBSET Run, S # {}
    PROVE  \E t \in S : \A q \in S : q <= t
<1> DEFINE Left == {MaxRuns - t : t \in S}
           Below == OpToRel(<, Nat)
<1>1. \A t \in S : MaxRuns - t \in Nat
  BY BoundAssumption DEF Run
<1>2. Left \subseteq Nat /\ Left # {}
  BY <1>1
<1>3. IsWellFoundedOn(Below, Nat)
  BY NatLessThanWellFounded, Zenon
<1>4. \A m, n \in Nat : m < n => <<m, n>> \in Below
  BY DEF OpToRel
<1> HIDE DEF Below, Left
<1>5. PICK m \in Left : \A n \in Left : ~(<<n, m>> \in Below)
  BY <1>2, <1>3, WFMin
<1>6. PICK t \in S : m = MaxRuns - t
  BY <1>5 DEF Left
<1>7. \A q \in S : q <= t
  <2> SUFFICES ASSUME NEW q \in S, ~(q <= t) PROVE FALSE
    OBVIOUS
  <2>1. MaxRuns - q \in Left
    BY DEF Left
  <2>2. MaxRuns - q < m
    BY <1>6, BoundAssumption DEF Run
  <2> QED
    BY <1>2, <1>4, <1>5, <2>1, <2>2
<1> QED
  BY <1>7

LEMMA ChooseLast ==
    ASSUME NEW S \in SUBSET Run, NEW t \in S, \A q \in S : q <= t
    PROVE  (CHOOSE r \in S : \A q \in S : q <= r) = t
<1>1. \A r \in S : (\A q \in S : q <= r) => r = t
  BY BoundAssumption DEF Run
<1> QED
  BY <1>1

LEMMA LatestIsLast ==
    ASSUME NEW o \in Run, Chain(o) # {}
    PROVE  /\ Latest(o) \in Chain(o) /\ Latest(o) \in Run
           /\ \A q \in Chain(o) : q <= Latest(o)
<1>1. Chain(o) \in SUBSET Run
  BY DEF Chain
<1>2. PICK t \in Chain(o) : \A q \in Chain(o) : q <= t
  BY <1>1, LastOf
<1>3. Latest(o) = t
  BY <1>1, <1>2, ChooseLast DEF Latest
<1> QED
  BY <1>1, <1>2, <1>3

\* What the last run of occurrence o records of friend p, and how Delivery reads it.
Standing(o, p) == IF Chain(o) = {} THEN "none" ELSE rows[Latest(o)][p].status
Reading(presses, standing) ==
    IF presses = 1 THEN "sent"
    ELSE IF standing = "sending" THEN "committed"
    ELSE IF standing = "uncertain" THEN "lost" ELSE "unsent"

LEMMA OutcomeIsReading ==
    ASSUME TypeOK, NoDoubleSend, NEW o \in Run, NEW p \in Position
    PROVE  OutcomeOf(o, p) = Reading(pressed[o][p], Standing(o, p))
<1>1. pressed[o][p] <= 1 /\ pressed[o][p] \in Nat
  BY DEF TypeOK, NoDoubleSend
<1>2. pressed[o][p] = 1 => ~(pressed[o][p] > 1)
  OBVIOUS
<1> QED
  BY <1>1, <1>2 DEF OutcomeOf, Reading, Standing

LEMMA OutcomeIsReadingNext ==
    ASSUME TypeOK', NoDoubleSend', NEW o \in Run, NEW p \in Position
    PROVE  OutcomeOf(o, p)' = Reading(pressed'[o][p], Standing(o, p)')
<1>1. pressed'[o][p] <= 1 /\ pressed'[o][p] \in Nat
  BY DEF TypeOK, NoDoubleSend
<1>2. pressed[o][p] = 1 => ~(pressed[o][p] > 1)
  OBVIOUS
<1> QED
  BY <1>1, <1>2 DEF OutcomeOf, Reading, Standing

LEMMA StandingOfTail ==
    ASSUME NEW t \in Run, Tail(t), NEW p \in Position
    PROVE  Standing(origin[t], p) = rows[t][p].status
<1>1. Chain(origin[t]) \in SUBSET Run /\ t \in Chain(origin[t])
  BY DEF Chain, Tail
<1>2. Latest(origin[t]) = t
  BY <1>1, ChooseLast DEF Latest, Chain, Tail
<1> QED
  BY <1>1, <1>2 DEF Standing

LEMMA StandingOfTailNext ==
    ASSUME NEW t \in Run, Tail(t)', NEW p \in Position
    PROVE  Standing(origin[t], p)' = rows'[t][p].status
<1>1. Chain(origin[t])' \in SUBSET Run /\ t \in Chain(origin[t])'
  BY DEF Chain, Tail
<1>2. Latest(origin[t])' = t
  BY <1>1, ChooseLast DEF Latest, Chain, Tail
<1> QED
  BY <1>1, <1>2 DEF Standing

LEMMA StandingKept ==
    ASSUME NEW o \in Run, NEW p \in Position, UNCHANGED <<nruns, origin>>,
           Chain(o) # {} => rows'[Latest(o)][p].status = rows[Latest(o)][p].status
    PROVE  Standing(o, p)' = Standing(o, p)
<1>1. Chain(o)' = Chain(o)
  BY DEF Chain
<1>2. Latest(o)' = Latest(o)
  BY <1>1 DEF Latest
<1> QED
  BY <1>1, <1>2 DEF Standing

\* The steps Delivery allows, written without the instance.
Moves(before, after) ==
    \/ after = before
    \/ before = "unsent" /\ after = "committed"
    \/ before = "committed" /\ after \in {"unsent", "sent", "lost"}

LEMMA MovesIsPromised ==
    ASSUME NEW o \in Run, NEW p \in Position, Moves(OutcomeOf(o, p), OutcomeOf(o, p)')
    PROVE  [Promise(o, p)!Next]_(OutcomeOf(o, p))
BY DEF Moves, Promise!Next, Promise!Commit, Promise!Withdraw, Promise!Send, Promise!Lose

LEMMA PromiseInit ==
    ASSUME Init, NEW o \in Run, NEW p \in Position
    PROVE  Promise(o, p)!Init
<1>1. Chain(o) = {}
  BY BoundAssumption DEF Init, Chain, Run
<1>2. pressed[o][p] = 0
  BY DEF Init
<1> QED
  BY <1>1, <1>2 DEF OutcomeOf, Promise!Init

\* Nothing that OutcomeOf reads changes.
LEMMA PromiseFrame ==
    ASSUME IInv, IInv', NEW o \in Run, NEW p \in Position,
           UNCHANGED <<nruns, origin, rows, pressed>>
    PROVE  Moves(OutcomeOf(o, p), OutcomeOf(o, p)')
<1>1. Standing(o, p)' = Standing(o, p)
  BY StandingKept
<1> QED
  BY <1>1, OutcomeIsReading, OutcomeIsReadingNext DEF IInv, Moves

\* Only the last run, of an occurrence not ended yet, changes: every friend of it
\* moves as Delivery allows.
LEMMA PromiseOfRun ==
    ASSUME IInv, IInv', NEW o \in Run, NEW p \in Position,
           NEW r \in Run, r = nruns, NEW new \in [Position -> Row],
           UNCHANGED <<nruns, origin>>, rows' = [rows EXCEPT ![r] = new],
           \A q \in Run, s \in Position : q # origin[r] => pressed'[q][s] = pressed[q][s],
           \A s \in Position : Moves(Reading(pressed[origin[r]][s], rows[r][s].status),
                                    Reading(pressed'[origin[r]][s], new[s].status))
    PROVE  Moves(OutcomeOf(o, p), OutcomeOf(o, p)')
<1>1. /\ OutcomeOf(o, p) = Reading(pressed[o][p], Standing(o, p))
      /\ OutcomeOf(o, p)' = Reading(pressed'[o][p], Standing(o, p)')
  BY OutcomeIsReading, OutcomeIsReadingNext DEF IInv
<1>2. \A q \in Run : rows'[q] = IF q = r THEN new ELSE rows[q]
  BY DEF IInv, TypeOK
<1>3. CASE o = origin[r]
  <2>1. Tail(r) /\ Tail(r)'
    BY DEF Tail, Run
  <2>2. Standing(o, p) = rows[r][p].status
    BY <1>3, <2>1, StandingOfTail
  <2>3. Standing(o, p)' = new[p].status
    BY <1>2, <1>3, <2>1, StandingOfTailNext
  <2> QED
    BY <1>1, <1>3, <2>2, <2>3
<1>4. CASE o # origin[r]
  <2>1. Chain(o) # {} => Latest(o) \in Run /\ Latest(o) # r
    BY <1>4, LatestIsLast DEF Chain
  <2>2. Standing(o, p)' = Standing(o, p)
    BY <1>2, <2>1, StandingKept
  <2> QED
    BY <1>1, <1>4, <2>2 DEF Moves
<1> QED
  BY <1>3, <1>4

LEMMA IInvParts == IInv => BaseInv /\ CheckpointInv /\ RecordsInv
BY DEF IInv, BaseInv, DataInv

\* on_result of a friend whose checkpoint is open or who was not tried: unsent
\* or lost in the first case, unsent in the second.
LEMMA OnResultPromise ==
    ASSUME IInv, IInv', NEW o \in Run, NEW p \in Position,
           pc \notin {"off", "ready", "finish"},
           NEW c \in Position, Current(c), NEW result \in Result, NEW resume,
           OnResult(c, result, resume),
           \/ Sent(run, c) = 1
           \/ ~result.ok /\ rows[run][c].status = "sending"
           \/ ~result.ok /\ result.stage # "sending" /\ rows[run][c].status = "pending"
    PROVE  Moves(OutcomeOf(o, p), OutcomeOf(o, p)')
<1>1. BaseInv
  BY IInvParts
<1>2. /\ run \in Run /\ run = nruns /\ rows[run][c] \in Row
      /\ rows[run] \in [Position -> Row]
  BY <1>1, OpenIsLast DEF BaseInv, TypeOK
<1>3. UNCHANGED <<nruns, origin, pressed>>
  BY DEF OnResult
<1>4. CASE rows' = rows
  BY <1>3, <1>4, PromiseFrame
<1>5. CASE rows' = [rows EXCEPT ![run][c] = Recorded(rows[run][c], result)]
  <2> DEFINE row == Recorded(rows[run][c], result)
             new == [rows[run] EXCEPT ![c] = row]
  <2>1. row \in Row
    BY <1>2, RecordedType
  <2>2. row.status = RecordedStatus(result)
    BY <1>2 DEF Recorded, Row
  <2>3. Moves(Reading(Sent(run, c), rows[run][c].status), Reading(Sent(run, c), row.status))
    BY <2>2 DEF Moves, Reading, RecordedStatus
  <2> HIDE DEF row
  <2>4. new \in [Position -> Row] /\ rows' = [rows EXCEPT ![run] = new]
    BY <1>1, <1>2, <1>5, <2>1 DEF row, BaseInv, TypeOK
  <2>5. \A s \in Position : new[s] = IF s = c THEN row ELSE rows[run][s]
    BY <1>2
  <2> HIDE DEF new
  <2>6. \A s \in Position : Moves(Reading(pressed[origin[run]][s], rows[run][s].status),
                                  Reading(pressed'[origin[run]][s], new[s].status))
    <3> TAKE s \in Position
    <3>1. CASE s = c
      BY <1>3, <2>3, <2>5, <3>1 DEF Sent
    <3>2. CASE s # c
      BY <1>3, <2>5, <3>2 DEF Moves
    <3> QED
      BY <3>1, <3>2
  <2> QED
    BY <1>2, <1>3, <2>4, <2>6, PromiseOfRun
<1> QED
  BY <1>4, <1>5 DEF OnResult

LEMMA BatchPromise ==
    ASSUME IInv, IInv', NEW o \in Run, NEW p \in Position, Batch
    PROVE  Moves(OutcomeOf(o, p), OutcomeOf(o, p)')
<1>1. BaseInv /\ CheckpointInv
  BY IInvParts
<1>2. ASSUME NEW c \in Position, Current(c), pc \notin {"off", "ready", "finish"}
      PROVE  /\ pc \in {"select", "failing", "refused"} => rows[run][c].status = "pending"
             /\ pc = "checkpoint" => rows[run][c].status = "sending" /\ Sent(run, c) = 0
             /\ pc = "pressed" => Sent(run, c) = 1
  BY <1>1, <1>2 DEF BaseInv, JobInv, CheckpointInv, Current
<1>3. \A result \in SessionFailure \cup SelectFailure \cup {Denial} :
         ~result.ok /\ result.stage # "sending"
  BY DEF SessionFailure, SelectFailure, Modelled, LoginExpired, Denial, Failure
<1>4. \A result \in CheckpointFailure : ~result.ok
  BY DEF CheckpointFailure, Modelled, Unknown, Failure
<1>5. CASE \/ SessionOpens \/ BatchAborts
           \/ \E result \in SessionFailure : SessionFails(result)
           \/ \E c \in Position : BeforeSendDenied(c)
  <2>1. UNCHANGED <<nruns, origin, rows, pressed>>
    BY <1>5 DEF SessionOpens, BatchAborts, SessionFails, BeforeSendDenied, runVars
  <2> QED
    BY <2>1, PromiseFrame
<1>6. ASSUME NEW c \in Position, RecordSessionFailure(c)
      PROVE  Moves(OutcomeOf(o, p), OutcomeOf(o, p)')
  <2>1. /\ pc = "failing" /\ Current(c) /\ OnResult(c, verdict, "failing")
        /\ verdict \in SessionFailure /\ verdict \in Result
    BY <1>1, <1>6 DEF RecordSessionFailure, CheckpointInv, Result
  <2>2. ~verdict.ok /\ verdict.stage # "sending" /\ rows[run][c].status = "pending"
    BY <1>2, <1>3, <2>1
  <2> QED
    BY <2>1, <2>2, OnResultPromise
<1>7. ASSUME NEW c \in Position, RecordDenial(c)
      PROVE  Moves(OutcomeOf(o, p), OutcomeOf(o, p)')
  <2>1. /\ pc = "refused" /\ Current(c) /\ OnResult(c, Denial, "finish") /\ Denial \in Result
    BY <1>7 DEF RecordDenial, Result
  <2>2. ~Denial.ok /\ Denial.stage # "sending" /\ rows[run][c].status = "pending"
    BY <1>2, <1>3, <2>1
  <2> QED
    BY <2>1, <2>2, OnResultPromise
<1>8. ASSUME NEW c \in Position, NEW result \in SelectFailure, SelectFails(c, result)
      PROVE  Moves(OutcomeOf(o, p), OutcomeOf(o, p)')
  <2>1. /\ pc = "select" /\ Current(c) /\ result \in Result
        /\ \E resume : OnResult(c, result, resume)
    BY <1>8 DEF SelectFails, Result
  <2>2. ~result.ok /\ result.stage # "sending" /\ rows[run][c].status = "pending"
    BY <1>2, <1>3, <2>1
  <2> QED
    BY <2>1, <2>2, OnResultPromise
<1>9. ASSUME NEW c \in Position, NEW result \in CheckpointFailure, CheckpointFails(c, result)
      PROVE  Moves(OutcomeOf(o, p), OutcomeOf(o, p)')
  <2>1. /\ pc = "checkpoint" /\ Current(c) /\ OnResult(c, result, "select") /\ result \in Result
    BY <1>9 DEF CheckpointFails, Result
  <2>2. ~result.ok /\ rows[run][c].status = "sending"
    BY <1>2, <1>4, <2>1
  <2> QED
    BY <2>1, <2>2, OnResultPromise
<1>10. ASSUME NEW c \in Position, NEW result \in Confirmation, Confirms(c, result)
       PROVE  Moves(OutcomeOf(o, p), OutcomeOf(o, p)')
  <2>1. /\ pc = "pressed" /\ Current(c) /\ OnResult(c, result, "select") /\ result \in Result
    BY <1>10 DEF Confirms, Result
  <2>2. Sent(run, c) = 1
    BY <1>2, <2>1
  <2> QED
    BY <2>1, <2>2, OnResultPromise
<1>11. ASSUME NEW c \in Position, BeforeSend(c)
       PROVE  Moves(OutcomeOf(o, p), OutcomeOf(o, p)')
  <2> DEFINE row == [rows[run][c] EXCEPT !.status = "sending", !.stage = "sending"]
             new == [rows[run] EXCEPT ![c] = row]
  <2>1. /\ pc = "select" /\ Current(c) /\ UNCHANGED <<nruns, origin, pressed>>
        /\ rows' = [rows EXCEPT ![run][c].status = "sending", ![run][c].stage = "sending"]
    BY <1>11 DEF BeforeSend
  <2>2. /\ run \in Run /\ run = nruns /\ rows[run][c] \in Row /\ Tail(run)
        /\ rows[run] \in [Position -> Row]
    BY <1>1, <2>1, OpenIsLast DEF BaseInv, TypeOK
  <2>3. row \in Row /\ row.status = "sending"
    BY <2>2 DEF Row, RowStatus, Stage
  <2>4. rows' = [rows EXCEPT ![run] = new]
    BY <1>1, <2>1, <2>2 DEF BaseInv, TypeOK
  <2> HIDE DEF row
  <2>5. new \in [Position -> Row] /\ \A s \in Position : new[s] = IF s = c THEN row ELSE rows[run][s]
    BY <2>2, <2>3
  <2> HIDE DEF new
  <2>6. rows[run][c].status = "pending" /\ Sent(run, c) = 0
    <3>1. rows[run][c].status = "pending"
      BY <1>2, <2>1
    <3> QED
      BY <2>2, <3>1 DEF IInv, UnsentIsUnsent, Unsent
  <2>7. \A s \in Position : Moves(Reading(pressed[origin[run]][s], rows[run][s].status),
                                  Reading(pressed'[origin[run]][s], new[s].status))
    <3> TAKE s \in Position
    <3>1. CASE s = c
      BY <2>1, <2>3, <2>5, <2>6, <3>1 DEF Moves, Reading, Sent
    <3>2. CASE s # c
      BY <2>1, <2>5, <3>2 DEF Moves
    <3> QED
      BY <3>1, <3>2
  <2> QED
    BY <2>1, <2>2, <2>4, <2>5, <2>7, PromiseOfRun
<1>12. ASSUME NEW c \in Position, PressEnter(c)
       PROVE  Moves(OutcomeOf(o, p), OutcomeOf(o, p)')
  <2>1. /\ pc = "checkpoint" /\ Current(c) /\ UNCHANGED <<nruns, origin, rows>>
        /\ pressed' = [pressed EXCEPT ![origin[run]][c] = @ + 1]
    BY <1>12 DEF PressEnter, runVars
  <2> DEFINE new == rows[run]
  <2>2. /\ run \in Run /\ run = nruns /\ origin[run] \in Run
        /\ new \in [Position -> Row] /\ rows' = [rows EXCEPT ![run] = new]
    BY <1>1, <2>1, OpenIsLast DEF BaseInv, TypeOK
  <2>3. rows[run][c].status = "sending" /\ Sent(run, c) = 0
    BY <1>2, <2>1
  <2>4. \A q \in Run, s \in Position :
           pressed'[q][s] = IF q = origin[run] /\ s = c THEN 1 ELSE pressed[q][s]
    BY <1>1, <2>1, <2>2, <2>3 DEF BaseInv, TypeOK, Sent
  <2>5. \A s \in Position : Moves(Reading(pressed[origin[run]][s], rows[run][s].status),
                                  Reading(pressed'[origin[run]][s], new[s].status))
    BY <2>2, <2>3, <2>4 DEF Moves, Reading, Sent
  <2>6. \A q \in Run, s \in Position : q # origin[run] => pressed'[q][s] = pressed[q][s]
    BY <2>4
  <2> HIDE DEF new
  <2> QED
    BY <2>6, <2>1, <2>2, <2>4, <2>5, PromiseOfRun
<1> QED
  BY <1>5, <1>6, <1>7, <1>8, <1>9, <1>10, <1>11, <1>12 DEF Batch

\* A run ends: an open checkpoint becomes an unknown outcome.
LEMMA RunEndsPromise ==
    ASSUME IInv, IInv', NEW o \in Run, NEW p \in Position,
           NEW r \in Run, status[r] = "running", NEW pending,
           NEW closed \in [Position -> Row],
           \A s \in Position : closed[s] = Interrupted(rows[r][s], pending),
           rows' = [rows EXCEPT ![r] = closed], UNCHANGED <<nruns, origin, pressed>>
    PROVE  Moves(OutcomeOf(o, p), OutcomeOf(o, p)')
<1>1. r = nruns
  BY DEF IInv, RunningInv
<1>2. \A s \in Position : Moves(Reading(pressed[origin[r]][s], rows[r][s].status),
                                Reading(pressed'[origin[r]][s], closed[s].status))
  <2> TAKE s \in Position
  <2>1. rows[r][s] \in Row
    BY DEF IInv, TypeOK
  <2>2. CASE rows[r][s].status \in {"pending", "sending"}
    BY <2>1, <2>2, InterruptedOpen DEF Moves, Reading
  <2>3. CASE rows[r][s].status \notin {"pending", "sending"}
    <3>1. closed[s] = rows[r][s]
      BY <2>3 DEF Interrupted
    <3> QED
      BY <3>1 DEF Moves
  <2> QED
    BY <2>2, <2>3
<1> QED
  BY <1>1, <1>2, PromiseOfRun

LEMMA RecoverPromise ==
    ASSUME IInv, IInv', NEW o \in Run, NEW p \in Position, NEW r \in Run, Recover(r)
    PROVE  Moves(OutcomeOf(o, p), OutcomeOf(o, p)')
<1> DEFINE closed == [s \in Position |-> Interrupted(rows[r][s], TRUE)]
<1>1. closed \in [Position -> Row]
  <2>1. ASSUME NEW s \in Position PROVE Interrupted(rows[r][s], TRUE) \in Row
    <3>1. rows[r][s] \in Row
      BY DEF IInv, TypeOK
    <3> QED
      BY <3>1, InterruptedType
  <2> QED
    BY <2>1
<1>2. /\ rows' = [rows EXCEPT ![r] = closed]
      /\ UNCHANGED <<nruns, origin, pressed>> /\ status[r] = "running"
  BY DEF Recover
<1>3. \A s \in Position : closed[s] = Interrupted(rows[r][s], TRUE)
  OBVIOUS
<1> HIDE DEF closed
<1> QED
  BY <1>1, <1>2, <1>3, RunEndsPromise

LEMMA FinishPromise ==
    ASSUME IInv, IInv', NEW o \in Run, NEW p \in Position, Finish
    PROVE  Moves(OutcomeOf(o, p), OutcomeOf(o, p)')
<1>1. CloseRows
  BY DEF Finish, FinishWithRetry, FinishForGood, FinishChatUnavailable
<1>2. run \in Run /\ status[run] = "running"
  BY <1>1, IInvParts, OpenIsLast DEF CloseRows, BaseInv
<1>3. /\ Closed \in [Position -> Row]
      /\ \A s \in Position : Closed[s] = Interrupted(rows[run][s], ~(stopped \/ denied))
  BY <1>2, ClosedType DEF Closed, IInv
<1>4. rows' = [rows EXCEPT ![run] = Closed] /\ UNCHANGED <<nruns, origin, pressed>>
  BY <1>1 DEF CloseRows
<1> QED
  BY <1>2, <1>3, <1>4, RunEndsPromise

\* A claimed run is the last of its occurrence; of the others nothing changes.
\* What Delivery reads of a friend of its own occurrence is what it read before.
LEMMA ClaimPromise ==
    ASSUME IInv, IInv', NEW o \in Run, NEW p \in Position, NEW r \in Run, Claims(r),
           NEW first \in [Position -> Row], rows' = [rows EXCEPT ![r] = first],
           NEW c \in Run, origin' = [origin EXCEPT ![r] = c],
           \A s \in Position : Reading(pressed[c][s], Standing(c, s))
                                 = Reading(pressed[c][s], first[s].status)
    PROVE  Moves(OutcomeOf(o, p), OutcomeOf(o, p)')
<1>1. r = nruns + 1 /\ nruns' = r /\ nruns \in Nat /\ UNCHANGED pressed
  BY DEF Claims, IInv, TypeOK
<1>2. \A q \in Run : /\ rows'[q] = IF q = r THEN first ELSE rows[q]
                     /\ origin'[q] = IF q = r THEN c ELSE origin[q]
  BY DEF IInv, TypeOK
<1>3. /\ OutcomeOf(o, p) = Reading(pressed[o][p], Standing(o, p))
      /\ OutcomeOf(o, p)' = Reading(pressed[o][p], Standing(o, p)')
  BY <1>1, OutcomeIsReading, OutcomeIsReadingNext DEF IInv
<1>4. CASE o = c
  <2>1. Tail(r)'
    BY <1>1 DEF Tail, Run
  <2>2. origin'[r] = o /\ rows'[r] = first
    BY <1>2, <1>4
  <2>3. Standing(o, p)' = first[p].status
    BY <2>1, <2>2, StandingOfTailNext
  <2> QED
    BY <1>3, <1>4, <2>3 DEF Moves
<1>5. CASE o # c
  <2>1. \A q \in Run : q <= r /\ q # r => q <= nruns
    BY <1>1 DEF Run
  <2>2. \A q \in Run : q <= nruns => q <= r /\ q # r
    BY <1>1 DEF Run
  <2>3. Chain(o)' = Chain(o)
    BY <1>1, <1>2, <1>5, <2>1, <2>2 DEF Chain
  <2>4. Latest(o)' = Latest(o)
    BY <2>3 DEF Latest
  <2>5. Chain(o) # {} => Latest(o) \in Run /\ Latest(o) # r
    BY <2>2, LatestIsLast DEF Chain
  <2>6. Standing(o, p)' = Standing(o, p)
    BY <1>2, <2>3, <2>4, <2>5 DEF Standing
  <2> QED
    BY <1>3, <2>6 DEF Moves
<1> QED
  BY <1>4, <1>5

\* Before its first run nothing is known of an occurrence.
LEMMA NoStandingYet ==
    ASSUME IInv, NEW r \in Run, Claims(r), NEW p \in Position
    PROVE  Standing(r, p) = "none" /\ rows[r][p].status = "none"
<1>1. /\ \A q \in Run : q <= nruns => origin[q] # r
      /\ rows[r][p] = NoRow
  BY IInvParts, NoEarlierRun
<1> QED
  BY <1>1 DEF Standing, Chain, NoRow

LEMMA ClaimRetryPromise ==
    ASSUME IInv, IInv', NEW o \in Run, NEW p \in Position, NEW r \in Run, ClaimRetry(r)
    PROVE  Moves(OutcomeOf(o, p), OutcomeOf(o, p)')
<1> DEFINE s == link.source
           first == [q \in Position |-> Copied(s, q)]
<1>1. /\ s \in Run /\ Tail(s) /\ s <= nruns /\ status[s] # "running"
      /\ Claims(r) /\ rows' = [rows EXCEPT ![r] = first]
      /\ origin' = [origin EXCEPT ![r] = origin[s]]
  BY DEF ClaimRetry, Opens, LinkMatches, IInv, LinkInv, LinkIsTail, RecordsInv, Tail
<1>2. first \in [Position -> Row]
  BY <1>1, CopiedType DEF IInv
<1>3. origin[s] \in Run
  <2>1. origin[s] \in 1..s
    BY <1>1 DEF IInv, NumberingInv
  <2> QED
    BY <1>1, <2>1, BoundAssumption DEF Run
<1>4. ASSUME NEW q \in Position
      PROVE  Reading(pressed[origin[s]][q], Standing(origin[s], q))
               = Reading(pressed[origin[s]][q], first[q].status)
  <2> DEFINE row == rows[s][q]
  <2>1. Standing(origin[s], q) = row.status
    BY <1>1, StandingOfTail
  <2>2. row \in Row /\ row.status \notin {"pending", "sending"}
    BY <1>1 DEF IInv, TypeOK, RunningInv
  <2>3. CASE row.status = "none"
    BY <2>1, <2>3 DEF Copied, NoRow
  <2>4. CASE row.status # "none" /\ TriedAgain(s, q)
    <3>1. row.status = "failed"
      BY <1>1, <2>2, <2>4 DEF TriedAgain, IInv, RetryInv
    <3>2. first[q].status = "pending"
      BY <2>4 DEF Copied, Queued
    <3> QED
      BY <2>1, <3>1, <3>2 DEF Reading
  <2>5. CASE row.status # "none" /\ ~TriedAgain(s, q)
    <3>1. first[q] = [row EXCEPT !.retryable = FALSE, !.attempt = 1]
      BY <2>5 DEF Copied
    <3>2. first[q].status = row.status
      BY <2>2, <3>1 DEF Row
    <3> QED
      BY <2>1, <3>2
  <2> QED
    BY <2>3, <2>4, <2>5
<1> HIDE DEF first, s
<1> QED
  BY <1>1, <1>2, <1>3, <1>4, ClaimPromise

LEMMA ClaimNewPromise ==
    ASSUME IInv, IInv', NEW o \in Run, NEW p \in Position, NEW r \in Run,
           ClaimFresh(r) \/ ClaimEndsEarly(r)
    PROVE  Moves(OutcomeOf(o, p), OutcomeOf(o, p)')
<1>1. Claims(r) /\ origin' = [origin EXCEPT ![r] = r]
  BY DEF ClaimFresh, ClaimEndsEarly
<1>2. \A s \in Position : Standing(r, s) = "none" /\ rows[r][s].status = "none"
  BY <1>1, NoStandingYet
<1>3. CASE ClaimFresh(r)
  <2> DEFINE first == [s \in Position |-> IF s \in friends THEN Queued(1) ELSE NoRow]
  <2>1. first \in [Position -> Row] /\ rows' = [rows EXCEPT ![r] = first]
    BY <1>3, QueuedType, NoRowType DEF ClaimFresh, Opens
  <2>2. \A s \in Position : first[s].status \in {"pending", "none"}
    BY DEF Queued, NoRow
  <2> HIDE DEF first
  <2>3. \A s \in Position : Reading(pressed[r][s], Standing(r, s))
                              = Reading(pressed[r][s], first[s].status)
    BY <1>2, <2>2 DEF Reading
  <2> QED
    BY <1>1, <2>1, <2>3, ClaimPromise
<1>4. CASE ClaimEndsEarly(r)
  <2> DEFINE first == rows[r]
  <2>1. first \in [Position -> Row] /\ rows' = [rows EXCEPT ![r] = first]
    BY <1>4 DEF ClaimEndsEarly, IInv, TypeOK
  <2>2. \A s \in Position : Reading(pressed[r][s], Standing(r, s))
                              = Reading(pressed[r][s], first[s].status)
    BY <1>2
  <2> HIDE DEF first
  <2> QED
    BY <1>1, <2>1, <2>2, ClaimPromise
<1> QED
  BY <1>3, <1>4

LEMMA PromiseStep ==
    ASSUME IInv, IInv', [Next]_vars, NEW o \in Run, NEW p \in Position
    PROVE  [Promise(o, p)!Next]_(OutcomeOf(o, p))
<1> SUFFICES Moves(OutcomeOf(o, p), OutcomeOf(o, p)')
  BY MovesIsPromised
<1>1. CASE UNCHANGED vars
  BY <1>1, PromiseFrame DEF vars, runVars
<1>2. CASE Job
  <2>1. CASE StartJob \/ ClaimPausesUnauthorized \/ ClaimFindsNothing \/ JobDies
    BY <2>1, PromiseFrame DEF StartJob, ClaimPausesUnauthorized, ClaimFindsNothing, JobDies,
       runVars
  <2> QED
    BY <1>2, <2>1, RecoverPromise, ClaimRetryPromise, ClaimNewPromise, BatchPromise, FinishPromise
       DEF Job, Start, Claim
<1>3. CASE Environment
  <2>1. UNCHANGED <<nruns, origin, rows, pressed>>
    BY <1>3 DEF Environment, TimeArrives, Disable, Enable, Edit, DeleteAccount, Rebind,
       QuotaEnds, QuotaReturns, QuotaPauses, ScheduleManual, runVars
  <2> QED
    BY <2>1, PromiseFrame
<1> QED
  BY <1>1, <1>2, <1>3 DEF Next

\* The batch implements Delivery for every friend of every occurrence: once sent
\* to, after a checkpoint, or lost and never tried again.
THEOREM ImplementsDelivery == Spec => KeepsPromise
<1>1. Init => \A o \in Run, p \in Position : Promise(o, p)!Init
  BY PromiseInit
<1>2. IInv /\ IInv' /\ [Next]_vars
        => [\A o \in Run, p \in Position : [Promise(o, p)!Next]_(OutcomeOf(o, p))]_vars
  BY PromiseStep
<1> QED
  BY <1>1, <1>2, Inductive, PTL DEF Spec, KeepsPromise

\* The same, for one friend of one occurrence, in the form of a refinement.
THEOREM RefinesDelivery ==
    ASSUME NEW o \in Run, NEW p \in Position
    PROVE  Spec => Promise(o, p)!Spec
<1>1. Init => Promise(o, p)!Init
  BY PromiseInit
<1>2. IInv /\ IInv' /\ [Next]_vars => [Promise(o, p)!Next]_(OutcomeOf(o, p))
  BY PromiseStep
<1> QED
  BY <1>1, <1>2, Inductive, PTL DEF Spec, Promise!Spec
=============================================================================
