---------------------------- MODULE BrowserSlot ----------------------------
(***************************************************************************)
(* Admission of browser jobs: one supervisor per role and host             *)
(* (browser_runtime.py), the host's slot file, the cluster's advisory lock *)
(* and guard row (cluster.py), and the disposable job with its hard        *)
(* lifetime (runtime_job.py).  A supervisor may crash, lose its database   *)
(* session or be slow at any step; its job may survive it.                 *)
(*                                                                         *)
(* Time is counted down: `guard` is the time left until blocked_until,     *)
(* `left` what remains to a supervisor until its job starts, or to a job   *)
(* until its alarm.                                                        *)
(***************************************************************************)
EXTENDS Naturals

CONSTANTS
    Supervisor,     \* one per role and host
    Host,           \* HostOf[s] is the host of s
    HostOf,
    Clustered,      \* PostgreSQL; with SQLite there is the slot file only
    Guard,          \* blocked_until at admission: ten minutes
    JobLife,        \* signal.alarm of the job: six minutes
    StartDelay,     \* admission to the job's start (statement_timeout, probes)
    Nobody,         \* no session holds the advisory lock
    Ghost           \* a session whose client is gone, not dropped yet

ASSUME HostAssumption ==
    /\ HostOf \in [Supervisor -> Host]
    /\ ~Clustered => \A s, t \in Supervisor : HostOf[s] = HostOf[t]
ASSUME TimeAssumption ==
    /\ Clustered \in BOOLEAN
    /\ Guard \in Nat /\ JobLife \in Nat /\ StartDelay \in Nat
    /\ StartDelay + JobLife < Guard
ASSUME NobodyAssumption ==
    Nobody \notin Supervisor /\ Ghost \notin Supervisor /\ Nobody # Ghost

VARIABLES
    pc,         \* where the supervisor is in admit_and_run
    live,       \* supervisors whose job's processes exist
    left,       \* time left to start the job, or to the job's alarm
    advisory,   \* session that holds the advisory lock
    guard       \* time left until blocked_until; 0: NULL or passed

vars == <<pc, live, left, advisory, guard>>

Place == {"idle", "local", "locked", "clear", "admitted", "checked", "running",
          "cleanup", "quarantined", "releasing", "closing"}

Init ==
    /\ pc = [s \in Supervisor |-> "idle"]
    /\ live = {}
    /\ left = [s \in Supervisor |-> 0]
    /\ advisory = Nobody
    /\ guard = 0

Goto(s, from, to) == pc[s] = from /\ pc' = [pc EXCEPT ![s] = to]

\* The slot file is locked while a supervisor has it open or a job inherited it.
FileFree(h) == \A s \in Supervisor : HostOf[s] = h => pc[s] = "idle" /\ s \notin live

\* The supervisor's own session ends: unlocked, or left to the server to find.
Disconnect(s) ==
    IF advisory = s THEN advisory' \in {Nobody, Ghost} ELSE UNCHANGED advisory

Admit(s) ==
    /\ pc' = [pc EXCEPT ![s] = "admitted"]
    /\ left' = [left EXCEPT ![s] = StartDelay]

-----------------------------------------------------------------------------
(* ClusterBrowserSlot.acquire                                              *)

LockFile(s) ==
    /\ FileFree(HostOf[s])
    /\ IF Clustered THEN Goto(s, "idle", "local") /\ UNCHANGED left
       ELSE pc[s] = "idle" /\ Admit(s)
    /\ UNCHANGED <<live, advisory, guard>>

\* pg_try_advisory_lock; when another session holds it the file is closed.
TryLock(s) ==
    /\ IF advisory = Nobody
       THEN Goto(s, "local", "locked") /\ advisory' = s
       ELSE Goto(s, "local", "idle") /\ UNCHANGED advisory
    /\ UNCHANGED <<live, left, guard>>

\* SELECT blocked_until > CURRENT_TIMESTAMP
ReadGuard(s) ==
    /\ advisory = s
    /\ IF guard = 0 THEN Goto(s, "locked", "clear") ELSE Goto(s, "locked", "closing")
    /\ UNCHANGED <<live, left, advisory, guard>>

\* Faulty: the guard row is not written.
SetGuardNever(s) ==
    /\ pc[s] = "clear"
    /\ advisory = s
    /\ Admit(s)
    /\ UNCHANGED <<guard, live, advisory>>

\* UPDATE cluster_browser_guard: the answer may get lost after the commit.
SetGuard(s) ==
    /\ pc[s] = "clear"
    /\ advisory = s
    /\ guard' = Guard
    /\ \/ Admit(s)
       \/ Goto(s, "clear", "closing") /\ UNCHANGED left
    /\ UNCHANGED <<live, advisory>>

\* A statement of acquire fails: everything is closed again.
AcquireFails(s) ==
    /\ \/ Goto(s, "local", "closing")
       \/ Goto(s, "locked", "closing")
       \/ Goto(s, "clear", "closing")
    /\ UNCHANGED <<live, left, advisory, guard>>

-----------------------------------------------------------------------------
(* admit_and_run and run_job_process                                       *)

\* reconcile, the resource probe, and the heartbeat before the start, which
\* needs the session.
HeartbeatBeforeStart(s) ==
    /\ Clustered => advisory = s
    /\ Goto(s, "admitted", "checked")
    /\ UNCHANGED <<live, left, advisory, guard>>

\* No resources, a stop, or an error before the job exists: there is nothing to
\* clean up then, so this ends with a release.
Refuse(s) ==
    /\ \/ Goto(s, "admitted", "releasing")
       \/ Goto(s, "checked", "releasing")
    /\ left' = [left EXCEPT ![s] = 0]
    /\ UNCHANGED <<live, advisory, guard>>

\* Faulty: the job may live as long as the guard.
StartJobLongLived(s) ==
    /\ Goto(s, "checked", "running")
    /\ live' = live \cup {s}
    /\ left' = [left EXCEPT ![s] = Guard]
    /\ UNCHANGED <<advisory, guard>>

StartJob(s) ==
    /\ Goto(s, "checked", "running")
    /\ live' = live \cup {s}
    /\ left' = [left EXCEPT ![s] = JobLife]
    /\ UNCHANGED <<advisory, guard>>

\* The job ends, by itself or by its alarm, whether or not its supervisor lives.
JobEnds(s) ==
    /\ s \in live
    /\ pc[s] # "quarantined"
    /\ live' = live \ {s}
    /\ left' = [left EXCEPT ![s] = 0]
    /\ UNCHANGED <<pc, advisory, guard>>

\* The job's exit, the supervisor's timeout, a stop, or a failed heartbeat.
EndWait(s) ==
    /\ Goto(s, "running", "cleanup")
    /\ UNCHANGED <<live, left, advisory, guard>>

\* cleanup_group: TERM, then KILL, until no process of the job is left.
Cleanup(s) ==
    /\ Goto(s, "cleanup", "releasing")
    /\ live' = live \ {s}
    /\ left' = [left EXCEPT ![s] = 0]
    /\ UNCHANGED <<advisory, guard>>

\* CleanupFailed: a process is still there; the slot stays closed.
CleanupFails(s) ==
    /\ s \in live
    /\ Goto(s, "cleanup", "quarantined")
    /\ UNCHANGED <<live, left, advisory, guard>>

-----------------------------------------------------------------------------
(* ClusterBrowserSlot.release                                              *)

\* blocked_until := NULL through the session that holds the lock; without it,
\* or when the statement fails, the guard stays.
Release(s) ==
    /\ Goto(s, "releasing", "closing")
    /\ guard' \in IF advisory = s THEN {0, guard} ELSE {guard}
    /\ UNCHANGED <<live, left, advisory>>

\* Faulty: the session is not closed with the slot file.
CloseFileOnly(s) ==
    /\ Goto(s, "closing", "idle")
    /\ UNCHANGED <<live, left, advisory, guard>>

\* _close: the session, then the slot file.
Close(s) ==
    /\ Goto(s, "closing", "idle")
    /\ Disconnect(s)
    /\ UNCHANGED <<live, left, guard>>

-----------------------------------------------------------------------------
(* Failures and time                                                       *)

\* The supervisor dies or leaves; its job may live on.  A quarantined one is
\* torn down with its container, processes included.
Exit(s) ==
    /\ pc[s] # "idle"
    /\ pc' = [pc EXCEPT ![s] = "idle"]
    /\ live' = IF pc[s] = "quarantined" THEN live \ {s} ELSE live
    /\ left' = IF pc[s] = "quarantined" \/ s \notin live THEN [left EXCEPT ![s] = 0] ELSE left
    /\ Disconnect(s)
    /\ UNCHANGED guard

\* The server drops a session: a restart, a broken connection, a timeout.
DropSession ==
    /\ advisory # Nobody
    /\ advisory' = Nobody
    /\ UNCHANGED <<pc, live, left, guard>>

\* What the clock may not pass: a start that is due, a job's alarm.
Timed(s) ==
    \/ pc[s] \in {"admitted", "checked"}
    \/ s \in live /\ pc[s] # "quarantined"

Less(n) == IF n = 0 THEN 0 ELSE n - 1

Tick ==
    /\ \A s \in Supervisor : Timed(s) => left[s] > 0
    /\ guard' = Less(guard)
    /\ left' = [s \in Supervisor |-> Less(left[s])]
    /\ UNCHANGED <<pc, live, advisory>>

Step(s) ==
    \/ LockFile(s) \/ TryLock(s) \/ ReadGuard(s) \/ SetGuard(s) \/ AcquireFails(s)
    \/ HeartbeatBeforeStart(s) \/ Refuse(s) \/ StartJob(s) \/ EndWait(s)
    \/ Cleanup(s) \/ CleanupFails(s) \/ Release(s) \/ Close(s)

Next ==
    \/ \E s \in Supervisor : Step(s) \/ JobEnds(s) \/ Exit(s)
    \/ DropSession
    \/ Tick

Spec == Init /\ [][Next]_vars

\* A supervisor that has begun goes on (starting anew is its own choice), the
\* alarm fires, the server finds dead sessions, and time passes.
GoesOn(s) == pc[s] # "idle" /\ pc[s] # "quarantined" /\ Step(s)
FairSpec ==
    /\ Spec
    /\ \A s \in Supervisor : WF_vars(GoesOn(s)) /\ WF_vars(JobEnds(s))
    /\ WF_vars(advisory = Ghost /\ DropSession)
    /\ WF_vars(Tick)

-----------------------------------------------------------------------------
(* Correctness                                                             *)

TypeOK ==
    /\ pc \in [Supervisor -> Place]
    /\ live \subseteq Supervisor
    /\ left \in [Supervisor -> Nat]
    /\ advisory \in Supervisor \cup {Nobody, Ghost}
    /\ guard \in Nat

Abandoned(s) == pc[s] = "quarantined" /\ advisory # s

\* Two browser jobs never exist at the same time, on one host or on two: not
\* after a crash, a lost session or a late release.  The exception is a job that
\* survived its cleanup and whose quarantined supervisor then lost its session.
OneBrowser ==
    \A s, t \in live : s # t => Clustered /\ (Abandoned(s) \/ Abandoned(t))

-----------------------------------------------------------------------------
(* The inductive invariant behind OneBrowser.                              *)

Waiting(s) == pc[s] \in {"admitted", "checked"}
Remaining(s) == left[s] + IF Waiting(s) THEN JobLife ELSE 0
Holds(s) == pc[s] # "idle" \/ s \in live

\* Jobs exist where they are run, cleaned up or orphaned; the slot file has one
\* holder on each host; a single host uses the slot file only.
PlaceInv ==
    /\ \A s \in live : pc[s] \in {"idle", "running", "cleanup", "quarantined"}
    /\ \A s, t \in Supervisor : HostOf[s] = HostOf[t] /\ Holds(s) /\ Holds(t) => s = t
    /\ ~Clustered => \A s \in Supervisor : pc[s] \notin {"local", "locked", "clear"}

\* The guard outlasts whoever was admitted, and is down at the next admission.
GuardInv ==
    \A s \in Supervisor :
        /\ Clustered /\ Timed(s) => guard > Remaining(s)
        /\ pc[s] = "clear" /\ advisory = s => guard = 0

\* One supervisor is admitted or has a job that ends by its alarm, and it is the
\* lock's owner if that owner has been admitted.
AloneInv ==
    Clustered =>
        /\ \A s, t \in Supervisor : Timed(s) /\ Timed(t) => s = t
        /\ \A s, t \in Supervisor :
              /\ advisory = s
              /\ pc[s] \notin {"idle", "local", "locked", "clear", "closing"}
              /\ Timed(t)
              => s = t

SlotInv == TypeOK /\ PlaceInv /\ GuardInv /\ AloneInv

-----------------------------------------------------------------------------

\* Whatever crashes and whichever sessions are lost, the slot is free or granted
\* again and again, unless a supervisor is quarantined.
Available ==
    guard = 0 /\ (advisory = Nobody \/ \E s \in Supervisor : advisory = s /\ pc[s] = "clear")
SlotReturns == []<>(Available \/ \E s \in Supervisor : pc[s] = "quarantined")
=============================================================================
