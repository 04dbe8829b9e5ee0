---------------------------- MODULE ScanSession ----------------------------
(***************************************************************************)
(* Binding a Douyin account by scanning a QR code: the owner starts, polls *)
(* and cancels a scan in the console (account_scan_routes.py), a disposable*)
(* job drives the login page (auth_worker.py), and both change the scan's  *)
(* row by compare-and-set only (scan_sessions.py).  One scan exists at a   *)
(* time: it holds the unique slot "global" until it ends.                  *)
(*                                                                         *)
(* The browser slot admits one job at a time (module BrowserSlot).         *)
(***************************************************************************)
EXTENDS Naturals, FiniteSets

CONSTANTS
    Scan,       \* rows of douyin_login_sessions that are modelled (a bound)
    Owner,      \* users of the console
    Defects,    \* of the two calls below, those that raise as they do in src/spark_console
    None        \* no owner, no scan

\* "on_stage": run_once passes the scanner a callback it never defines.
\* "no_cancel": the capture of a login passes None where a callback is called.
ASSUME NoneAssumption == None \notin Scan \cup Owner
ASSUME DefectsAssumption == Defects \subseteq {"on_stage", "no_cancel"}

VARIABLES
    scan,       \* DouyinLoginSession
    late,       \* scans whose expires_at has passed
    credential, \* the scan whose login an owner's account holds
    pc, mine, code,         \* the job, the scan it claimed, its error code
    call,       \* the scanner's callbacks, each a thread of the job
    stored      \* observation: scans whose login was ever committed

rows == <<scan, late>>
job == <<pc, mine, code, call>>
logins == <<credential, stored>>
vars == <<rows, job, logins>>

Active == {"queued", "loading_qr", "awaiting_scan", "confirming"}
Terminal == {"succeeded", "failed", "expired", "cancelled"}
Row == [status : Active \cup Terminal \cup {"none"}, slot : BOOLEAN,
        owner : Owner \cup {None}, qr : BOOLEAN, saved : BOOLEAN]
NoRow == [status |-> "none", slot |-> FALSE, owner |-> None, qr |-> FALSE, saved |-> FALSE]

\* ALLOWED: the states a scan may be in when it is moved to the target.
Sources(target) ==
    CASE target = "loading_qr" -> {"queued"}
      [] target = "awaiting_scan" -> {"loading_qr"}
      [] target = "confirming" -> {"awaiting_scan"}
      [] target = "succeeded" -> {"awaiting_scan", "confirming"}
      [] target \in {"failed", "expired", "cancelled"} -> Active

Open(s) == scan[s].slot /\ scan[s].status \in Active

Moves(s, target) == scan[s].slot /\ scan[s].status \in Sources(target) /\ s \notin late
Expires(s) == Open(s) /\ s \in late

\* _cas_terminal: the slot and the picture go, an account only comes with success.
Ended(row, status) ==
    [row EXCEPT !.status = status, !.slot = FALSE, !.qr = FALSE,
                !.saved = (status = "succeeded")]

\* expire_stale
Swept == [s \in Scan |-> IF Expires(s) THEN Ended(scan[s], "expired") ELSE scan[s]]

\* _expire_one
Expired(s) == [scan EXCEPT ![s] = Ended(scan[s], "expired")]

Target == [qr |-> "awaiting_scan", confirming |-> "confirming"]

\* The compare-and-set of publish_qr, mark_confirming and publish_view.
Accepted(k) == IF k = "view" THEN Open(mine) /\ mine \notin late ELSE Moves(mine, Target[k])

NoCalls == [k \in {"qr", "view", "confirming"} |-> "idle"]

Init ==
    /\ scan = [s \in Scan |-> NoRow]
    /\ late = {}
    /\ credential = [o \in Owner |-> None]
    /\ pc = "off"
    /\ mine = None
    /\ code = "none"
    /\ call = NoCalls
    /\ stored = {}

Exit == pc' = "off" /\ mine' = None /\ code' = "none" /\ call' = NoCalls

-----------------------------------------------------------------------------
(* The console.                                                            *)

\* Every page first sweeps; a free slot is taken, a busy one is reported.
Start(o, s) ==
    /\ scan[s] = NoRow
    /\ IF \E t \in Scan : Swept[t].slot
       THEN scan' = Swept
       ELSE scan' = [Swept EXCEPT ![s] = [NoRow EXCEPT !.status = "queued",
                                                       !.slot = TRUE, !.owner = o]]
    /\ UNCHANGED <<late, job, logins>>

Poll == scan' = Swept /\ UNCHANGED <<late, job, logins>>

Cancel(o, s) ==
    /\ scan[s].owner = o
    /\ scan' = IF Moves(s, "cancelled") THEN [Swept EXCEPT ![s] = Ended(scan[s], "cancelled")]
               ELSE Swept
    /\ UNCHANGED <<late, job, logins>>

TimePasses(s) ==
    /\ scan[s].status # "none"
    /\ s \notin late
    /\ late' = late \cup {s}
    /\ UNCHANGED <<scan, job, logins>>

-----------------------------------------------------------------------------
(* The job.                                                                *)

\* Faulty: late scans are not expired.
BootFailsOnly ==
    /\ pc = "off"
    /\ scan' = [s \in Scan |-> IF scan[s].slot /\ scan[s].status # "queued"
                               THEN Ended(scan[s], "failed") ELSE scan[s]]
    /\ pc' = "ready"
    /\ UNCHANGED <<late, mine, code, call, logins>>

\* Faulty: scans a dead job left in the browser stay open.
BootSweepsOnly ==
    /\ pc = "off"
    /\ scan' = Swept
    /\ pc' = "ready"
    /\ UNCHANGED <<late, mine, code, call, logins>>

\* AuthWorker(): expire what is late, fail what a dead job had in the browser.
Boot ==
    /\ pc = "off"
    /\ scan' = [s \in Scan |-> IF Swept[s].slot /\ Swept[s].status # "queued"
                               THEN Ended(Swept[s], "failed") ELSE Swept[s]]
    /\ pc' = "ready"
    /\ UNCHANGED <<late, mine, code, call, logins>>

\* claim_next; an undefined callback raises before the scanner is called.
Claim(s) ==
    /\ pc = "ready"
    /\ scan[s].status = "queued"
    /\ IF Moves(s, "loading_qr")
       THEN /\ scan' = [scan EXCEPT ![s].status = "loading_qr"]
            /\ mine' = s
            /\ pc' = IF "on_stage" \in Defects THEN "failing" ELSE "scanning"
            /\ code' = IF "on_stage" \in Defects THEN "automation_failed" ELSE "none"
            /\ UNCHANGED call
       ELSE scan' = Expired(s) /\ Exit
    /\ UNCHANGED <<late, logins>>

\* Nothing is queued: the job goes on to the contact import.
ClaimNothing ==
    /\ pc = "ready"
    /\ \A s \in Scan : scan[s].status # "queued"
    /\ Exit
    /\ UNCHANGED <<rows, logins>>

Raise(c) == pc' = "failing" /\ code' = c /\ UNCHANGED mine

Awaits(k) == pc = IF k = "qr" THEN "scanning" ELSE "shown"

\* The scanner hands a callback to a thread: the code once, the confirmation
\* once, a picture of the page when the last one was written.
Ask(k) ==
    /\ Awaits(k)
    /\ call[k] = "idle"
    /\ call' = [call EXCEPT ![k] = "running"]
    /\ UNCHANGED <<rows, pc, mine, code, logins>>

\* The thread runs its transaction, though the scanner may have left meanwhile.
\* A late scan is closed without an error; a refused move raises if awaited.
Answer(k) ==
    /\ call[k] = "running"
    /\ call' = [call EXCEPT ![k] = IF k = "view" THEN "idle" ELSE "done"]
    /\ IF Accepted(k) \/ (k # "view" /\ Expires(mine))
       THEN /\ scan' = IF ~Accepted(k) THEN Expired(mine)
                       ELSE [scan EXCEPT ![mine].qr = @ \/ k # "confirming",
                                         ![mine].status = IF k = "view" THEN @ ELSE Target[k]]
            /\ pc' = IF k = "qr" /\ Awaits(k) THEN "shown" ELSE pc
            /\ UNCHANGED <<mine, code>>
       ELSE /\ IF Awaits(k) THEN Raise("automation_failed") ELSE UNCHANGED <<pc, mine, code>>
            /\ UNCHANGED scan
    /\ UNCHANGED <<late, logins>>

\* The scanner gives up: at its deadline, on a page it cannot use, on a request
\* for verification, or when it finds the scan no longer open.  Its threads run on.
ScannerFails(c) ==
    /\ pc \in {"scanning", "shown"}
    /\ c = "login_timeout" => mine \in late
    /\ c = "cancelled" => ~Open(mine)
    /\ Raise(c)
    /\ UNCHANGED <<rows, call, logins>>

\* The page is logged in; a confirmation was handed to a thread before.
Authenticated ==
    /\ pc = "shown"
    /\ call["confirming"] # "idle"
    /\ pc' = "capturing"
    /\ UNCHANGED <<rows, mine, code, call, logins>>

\* The login is captured in memory, unless the deadline comes first.
Capture ==
    /\ pc = "capturing"
    /\ \/ "no_cancel" \notin Defects /\ pc' = "captured" /\ UNCHANGED <<mine, code>>
       \/ mine \in late /\ Raise("login_timeout")
       \/ "no_cancel" \in Defects /\ Raise("automation_failed")
    /\ UNCHANGED <<rows, call, logins>>

\* Faulty: the login is saved although the scan could not be completed.
BindKeeps ==
    /\ pc = "captured"
    /\ credential' = [credential EXCEPT ![scan[mine].owner] = mine]
    /\ stored' = stored \cup {mine}
    /\ IF Moves(mine, "succeeded")
       THEN /\ scan' = [scan EXCEPT ![mine] = Ended(scan[mine], "succeeded")]
            /\ pc' = "leaving"
            /\ UNCHANGED <<mine, code>>
       ELSE Raise("automation_failed") /\ UNCHANGED scan
    /\ UNCHANGED <<late, call>>

\* One transaction saves the login and completes the scan; when the scan cannot
\* be completed the whole of it is rolled back.
Bind ==
    /\ pc = "captured"
    /\ IF Moves(mine, "succeeded")
       THEN /\ scan' = [scan EXCEPT ![mine] = Ended(scan[mine], "succeeded")]
            /\ credential' = [credential EXCEPT ![scan[mine].owner] = mine]
            /\ stored' = stored \cup {mine}
            /\ pc' = "leaving"
            /\ UNCHANGED <<mine, code>>
       ELSE /\ Raise(IF Expires(mine) THEN "login_timeout" ELSE "automation_failed")
            /\ UNCHANGED <<scan, logins>>
    /\ UNCHANGED <<late, call>>

\* The login has no cookies or cannot be stored: nothing is saved.
CredentialInvalid ==
    /\ pc = "captured"
    /\ Raise("credential_invalid")
    /\ UNCHANGED <<rows, call, logins>>

\* _record_failure: a scan that is still open fails, or expires when it is late.
RecordFailure ==
    /\ pc = "failing"
    /\ scan' = IF ~Open(mine) THEN scan
               ELSE IF Moves(mine, "failed")
                    THEN [scan EXCEPT ![mine] = Ended(scan[mine], "failed")]
                    ELSE Expired(mine)
    /\ pc' = "leaving"
    /\ UNCHANGED <<late, mine, code, call, logins>>

\* The job's process waits for its threads and ends.
Leave ==
    /\ pc = "leaving"
    /\ \A k \in DOMAIN call : call[k] # "running"
    /\ Exit
    /\ UNCHANGED <<rows, logins>>

\* Killed at its timeout or by its alarm, with its host, or while recording.
JobDies ==
    /\ pc # "off"
    /\ Exit
    /\ UNCHANGED <<rows, logins>>

-----------------------------------------------------------------------------

Job ==
    \/ Boot \/ ClaimNothing \/ \E s \in Scan : Claim(s)
    \/ \E k \in DOMAIN call : Ask(k) \/ Answer(k)
    \/ \E c \in {"qr_load_failed", "login_timeout", "verification_required",
                 "cancelled", "automation_failed"} : ScannerFails(c)
    \/ Authenticated \/ Capture \/ Bind \/ CredentialInvalid
    \/ RecordFailure \/ Leave \/ JobDies

Next ==
    \/ Job
    \/ \E o \in Owner, s \in Scan : Start(o, s) \/ Cancel(o, s)
    \/ Poll
    \/ \E s \in Scan : TimePasses(s)

Spec == Init /\ [][Next]_vars

\* The supervisor starts a job while a scan holds the slot, a job ends by itself
\* or at its timeout, and time passes.  Nobody has to poll.
FairSpec ==
    /\ Spec
    /\ WF_vars((\E s \in Scan : scan[s].slot) /\ Boot)
    /\ WF_vars(Leave \/ ClaimNothing \/ JobDies)
    /\ \A s \in Scan : WF_vars(TimePasses(s))

-----------------------------------------------------------------------------
(* Correctness                                                             *)

Working == {"scanning", "shown", "capturing", "captured", "failing", "leaving"}

TypeOK ==
    /\ scan \in [Scan -> Row]
    /\ late \subseteq Scan
    /\ credential \in [Owner -> Scan \cup {None}]
    /\ pc \in {"off", "ready"} \cup Working
    /\ mine \in Scan \cup {None}
    /\ call \in [{"qr", "view", "confirming"} -> {"idle", "running", "done"}]
    /\ stored \subseteq Scan

\* Exactly the scan that has not ended holds the slot, and there is one at most:
\* neither a late callback nor an expiry frees or takes another scan's slot.
OneOpenScan ==
    /\ \A s \in Scan : scan[s].slot <=> scan[s].status \in Active
    /\ \A s, t \in Scan : scan[s].slot /\ scan[t].slot => s = t

\* An owner's login is saved by a scan that succeeded, and by no other: not by
\* one that was cancelled, expired or failed while the job captured it.
SavedIffSucceeded ==
    /\ \A s \in Scan : s \in stored <=> scan[s].status = "succeeded"
    /\ \A o \in Owner : credential[o] # None =>
          credential[o] \in stored /\ scan[credential[o]].owner = o

\* A scan that ended shows no picture of the login page any more.
EndedIsClean ==
    \A s \in Scan : scan[s].status \in Terminal =>
        ~scan[s].qr /\ (scan[s].saved <=> scan[s].status = "succeeded")

\* What the owner was told of an ended scan stays true.
EndedStays ==
    [][\A s \in Scan : scan[s].status \in Terminal => scan'[s] = scan[s]]_vars

\* The job works on a scan that it moved out of the queue, and an open scan in
\* the browser has its job, until the job dies.
JobOwnsScan ==
    /\ mine # None <=> pc \in Working
    /\ mine = None => call = NoCalls
    /\ mine # None => scan[mine].status \notin {"none", "queued"}
    /\ \A s \in Scan : scan[s].status # "none" => scan[s].owner # None
    /\ pc = "ready" => \A s \in Scan : scan[s].slot => scan[s].status = "queued"

SessionInv == TypeOK /\ OneOpenScan /\ SavedIffSucceeded /\ EndedIsClean /\ JobOwnsScan

\* Every scan ends, so the slot is free for others again, though jobs die at any
\* point and owners leave.
EveryScanEnds == \A s \in Scan : scan[s].status \in Active ~> scan[s].status \in Terminal

\* A claimed scan is handed to the scanner (tests/console/test_auth_worker.py:
\* "self.assertEqual(1, scanner.prepared_runs)").
HandsOver == [][pc = "ready" /\ mine' # None => pc' = "scanning"]_vars

=============================================================================
