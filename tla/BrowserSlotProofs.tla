------------------------- MODULE BrowserSlotProofs -------------------------
(* SlotInv is inductive, and OneBrowser follows from it, for any hosts and  *)
(* supervisors and any times with StartDelay + JobLife < Guard.             *)
EXTENDS BrowserSlot, TLAPS

\* The invariant holds before any supervisor starts.
LEMMA SlotInit == Init => SlotInv
  <1> SUFFICES ASSUME Init PROVE SlotInv
    OBVIOUS
  <1> USE HostAssumption, TimeAssumption, NobodyAssumption DEF Init
  <1>1. TypeOK
    BY DEF TypeOK, Place
  <1>2. PlaceInv
    BY DEF PlaceInv, Holds
  <1>3. GuardInv /\ AloneInv
    BY DEF GuardInv, AloneInv, Timed
  <1> QED
    BY <1>1, <1>2, <1>3 DEF SlotInv

\* Time takes from the guard no more than from those it protects against.
LEMMA TickKeeps == SlotInv /\ Tick => SlotInv'
  <1> SUFFICES ASSUME SlotInv, Tick PROVE SlotInv'
    OBVIOUS
  <1> USE HostAssumption, TimeAssumption, NobodyAssumption DEF SlotInv
  <1>1. TypeOK'
    BY DEF TypeOK, Tick, Less
  <1>2. PlaceInv'
    BY DEF PlaceInv, Holds, Tick
  <1>3. GuardInv'
    <2> SUFFICES ASSUME NEW s \in Supervisor
                 PROVE  /\ Clustered /\ Timed(s)' => guard' > Remaining(s)'
                        /\ (pc[s] = "clear" /\ advisory = s => guard = 0)'
      BY DEF GuardInv
    <2>1. ASSUME Clustered, Timed(s)' PROVE guard' > Remaining(s)'
      <3>1. Timed(s) /\ left[s] \in Nat /\ left[s] > 0
        BY <2>1 DEF Timed, Tick, TypeOK
      <3>2. left'[s] = left[s] - 1
        BY <3>1 DEF Tick, Less
      <3>3. Waiting(s)' <=> Waiting(s)
        BY DEF Waiting, Tick
      <3>4. guard > Remaining(s)
        BY <2>1, <3>1 DEF GuardInv
      <3>5. guard' = guard - 1
        BY <3>1, <3>4 DEF Tick, Less, Remaining, TypeOK
      <3> QED
        BY <3>1, <3>2, <3>3, <3>4, <3>5 DEF Remaining, TypeOK
    <2>2. (pc[s] = "clear" /\ advisory = s => guard = 0)'
      BY DEF GuardInv, Tick, Less
    <2> QED
      BY <2>1, <2>2
  <1>4. AloneInv'
    BY DEF AloneInv, Timed, Tick
  <1> QED
    BY <1>1, <1>2, <1>3, <1>4

\* Acquiring: the guard is written only when it is down, and then nobody who
\* was admitted before is left.
LEMMA AcquireKeeps ==
    ASSUME NEW s \in Supervisor, SlotInv,
           LockFile(s) \/ TryLock(s) \/ ReadGuard(s) \/ SetGuard(s) \/ AcquireFails(s)
    PROVE  SlotInv'
  <1> USE HostAssumption, TimeAssumption, NobodyAssumption DEF SlotInv
  <1>1. CASE LockFile(s)
    <2> USE <1>1 DEF LockFile, FileFree, Goto, Admit
    <2>1. TypeOK'
      BY DEF TypeOK, Place
    <2>2. PlaceInv'
      BY DEF PlaceInv, Holds, TypeOK
    <2>3. GuardInv' /\ AloneInv'
      BY DEF GuardInv, AloneInv, Timed, Remaining, Waiting, TypeOK
    <2> QED
      BY <2>1, <2>2, <2>3
  <1>2. CASE TryLock(s) \/ ReadGuard(s) \/ AcquireFails(s)
    <2> USE <1>2 DEF TryLock, ReadGuard, AcquireFails, Goto
    <2>1. TypeOK'
      BY DEF TypeOK, Place
    <2>2. PlaceInv'
      BY DEF PlaceInv, Holds, TypeOK
    <2>3. GuardInv'
      BY DEF GuardInv, Timed, Remaining, Waiting, TypeOK
    <2>4. AloneInv'
      BY DEF AloneInv, Timed, TypeOK
    <2> QED
      BY <2>1, <2>2, <2>3, <2>4
  <1>3. CASE SetGuard(s)
    <2> USE <1>3 DEF SetGuard, Goto, Admit
    <2>1. TypeOK'
      BY DEF TypeOK, Place
    <2>2. PlaceInv'
      BY DEF PlaceInv, Holds, TypeOK
    <2>3. Clustered /\ guard = 0
      BY DEF PlaceInv, GuardInv
    <2>4. \A t \in Supervisor : ~Timed(t)
      BY <2>3 DEF GuardInv, Remaining, TypeOK
    <2>5. \A t \in Supervisor : Timed(t)' => t = s /\ pc'[s] = "admitted"
      BY <2>4 DEF Timed, TypeOK
    <2>6. GuardInv'
      BY <2>5 DEF GuardInv, Remaining, Waiting, TypeOK
    <2>7. AloneInv'
      BY <2>5 DEF AloneInv, TypeOK
    <2> QED
      BY <2>1, <2>2, <2>6, <2>7
  <1> QED
    BY <1>1, <1>2, <1>3

\* The job: it starts within the guard, and the guard outlasts its alarm.
LEMMA JobKeeps ==
    ASSUME NEW s \in Supervisor, SlotInv,
           \/ HeartbeatBeforeStart(s) \/ Refuse(s) \/ StartJob(s) \/ JobEnds(s)
           \/ EndWait(s) \/ Cleanup(s) \/ CleanupFails(s)
    PROVE  SlotInv'
  <1> USE HostAssumption, TimeAssumption, NobodyAssumption DEF SlotInv
  <1>1. CASE HeartbeatBeforeStart(s) \/ Refuse(s) \/ EndWait(s)
    <2> USE <1>1 DEF HeartbeatBeforeStart, Refuse, EndWait, Goto
    <2>1. TypeOK'
      BY DEF TypeOK, Place
    <2>2. PlaceInv'
      BY DEF PlaceInv, Holds, TypeOK
    <2>3. GuardInv'
      BY DEF GuardInv, Timed, Remaining, Waiting, TypeOK
    <2>4. AloneInv'
      BY DEF AloneInv, Timed, TypeOK
    <2> QED
      BY <2>1, <2>2, <2>3, <2>4
  <1>2. CASE StartJob(s)
    <2> USE <1>2 DEF StartJob, Goto
    <2>1. TypeOK'
      BY DEF TypeOK, Place
    <2>2. PlaceInv'
      BY DEF PlaceInv, Holds, TypeOK
    <2>3. Timed(s) /\ Waiting(s) /\ ~Waiting(s)'
      BY DEF Timed, Waiting, TypeOK
    <2>4. GuardInv'
      BY <2>3 DEF GuardInv, Timed, Remaining, Waiting, TypeOK
    <2>5. AloneInv'
      BY DEF AloneInv, Timed, TypeOK
    <2> QED
      BY <2>1, <2>2, <2>4, <2>5
  <1>3. CASE JobEnds(s) \/ Cleanup(s) \/ CleanupFails(s)
    <2> USE <1>3 DEF JobEnds, Cleanup, CleanupFails, Goto
    <2>1. TypeOK'
      BY DEF TypeOK, Place
    <2>2. PlaceInv'
      BY DEF PlaceInv, Holds, TypeOK
    <2>3. GuardInv'
      BY DEF GuardInv, Timed, Remaining, Waiting, TypeOK
    <2>4. AloneInv'
      BY DEF AloneInv, Timed, TypeOK
    <2> QED
      BY <2>1, <2>2, <2>3, <2>4
  <1> QED
    BY <1>1, <1>2, <1>3

\* Releasing, crashing and losing a session: only the owner clears the guard.
LEMMA ReleaseKeeps ==
    ASSUME NEW s \in Supervisor, SlotInv, Release(s) \/ Close(s) \/ Exit(s)
    PROVE  SlotInv'
  <1> USE HostAssumption, TimeAssumption, NobodyAssumption DEF SlotInv
  <1>1. CASE Release(s)
    <2> USE <1>1 DEF Release, Goto
    <2>1. TypeOK'
      BY DEF TypeOK, Place
    <2>2. PlaceInv'
      BY DEF PlaceInv, Holds, TypeOK
    <2>3. \A t \in Supervisor : Timed(t)' <=> Timed(t)
      BY DEF Timed, TypeOK, PlaceInv
    <2>4. Clustered /\ advisory = s => \A t \in Supervisor : ~Timed(t)
      BY DEF AloneInv, Timed, PlaceInv
    <2>5. GuardInv'
      BY <2>3, <2>4 DEF GuardInv, Remaining, Waiting, TypeOK
    <2>6. AloneInv'
      BY <2>3 DEF AloneInv, TypeOK
    <2> QED
      BY <2>1, <2>2, <2>5, <2>6
  <1>2. CASE Close(s) \/ Exit(s)
    <2> USE <1>2 DEF Close, Exit, Disconnect, Goto
    <2>1. TypeOK'
      BY DEF TypeOK, Place
    <2>2. PlaceInv'
      BY DEF PlaceInv, Holds, TypeOK
    <2>3. GuardInv'
      BY DEF GuardInv, Timed, Remaining, Waiting, TypeOK
    <2>4. AloneInv'
      BY DEF AloneInv, Timed, TypeOK
    <2> QED
      BY <2>1, <2>2, <2>3, <2>4
  <1> QED
    BY <1>1, <1>2

\* A dropped session takes nothing from the guard.
LEMMA DropKeeps == SlotInv /\ DropSession => SlotInv'
  BY NobodyAssumption DEF SlotInv, DropSession, TypeOK, PlaceInv, Holds, GuardInv,
     AloneInv, Timed, Remaining, Waiting

\* SlotInv is an invariant: whoever was admitted is covered by the guard until
\* the alarm of its job (cluster.py, runtime_job.py).
THEOREM SlotInductive == Spec => []SlotInv
  <1>1. SlotInv /\ [Next]_vars => SlotInv'
    <2> SUFFICES ASSUME SlotInv, [Next]_vars PROVE SlotInv'
      OBVIOUS
    <2>1. CASE Tick \/ DropSession
      BY <2>1, TickKeeps, DropKeeps
    <2>2. CASE \E s \in Supervisor : Step(s) \/ JobEnds(s) \/ Exit(s)
      BY <2>2, AcquireKeeps, JobKeeps, ReleaseKeeps DEF Step
    <2>3. CASE UNCHANGED vars
      BY <2>3 DEF vars, SlotInv, TypeOK, PlaceInv, GuardInv, AloneInv, Timed,
                  Remaining, Waiting, Holds
    <2> QED
      BY <2>1, <2>2, <2>3 DEF Next
  <1> QED
    BY <1>1, SlotInit, PTL DEF Spec

\* Two browser jobs never exist at once (but for a job that survived its own
\* cleanup while its supervisor lost the lock), on any number of hosts.
THEOREM OneBrowserAtATime == Spec => []OneBrowser
  <1>1. SlotInv => OneBrowser
    <2> SUFFICES ASSUME SlotInv, NEW s \in live, NEW t \in live, s # t
                 PROVE  Clustered /\ (Abandoned(s) \/ Abandoned(t))
      BY DEF OneBrowser
    <2> s \in Supervisor /\ t \in Supervisor
      BY DEF SlotInv, TypeOK
    <2>1. Clustered
      BY HostAssumption DEF SlotInv, PlaceInv, Holds
    <2>2. CASE pc[s] # "quarantined" /\ pc[t] # "quarantined"
      BY <2>1, <2>2 DEF SlotInv, AloneInv, Timed
    <2>3. CASE pc[s] = "quarantined" /\ advisory = s
      BY <2>1, <2>3 DEF SlotInv, AloneInv, Timed, Abandoned
    <2>4. CASE pc[t] = "quarantined" /\ advisory = t
      BY <2>1, <2>4 DEF SlotInv, AloneInv, Timed, Abandoned
    <2> QED
      BY <2>1, <2>2, <2>3, <2>4 DEF Abandoned
  <1> QED
    BY <1>1, SlotInductive, PTL
=============================================================================
