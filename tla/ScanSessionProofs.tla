------------------------- MODULE ScanSessionProofs -------------------------
(* SessionInv is inductive for any scans, owners and defects.              *)
EXTENDS ScanSession, TLAPS

\* What the invariant says of one row.
Good(r) ==
    /\ r \in Row
    /\ r.slot <=> r.status \in Active
    /\ r.status \in Terminal => ~r.qr /\ (r.saved <=> r.status = "succeeded")
    /\ r.status # "none" => r.owner # None

\* What every step but Start and Bind may do to a row: nothing, or to move on or
\* end, without success, a scan that was open.
Change(s) ==
    \/ scan'[s] = scan[s]
    \/ /\ scan[s].slot /\ Good(scan'[s])
       /\ scan'[s].owner = scan[s].owner
       /\ scan'[s].status \notin {"none", "queued", "succeeded"}

USE NoneAssumption, DefectsAssumption

LEMMA RowsAreGood ==
    ASSUME SessionInv PROVE \A s \in Scan : Good(scan[s]) /\ scan[s] \in Row
  <1> SUFFICES ASSUME NEW s \in Scan PROVE Good(scan[s]) /\ scan[s] \in Row
    OBVIOUS
  <1>1. scan[s] \in Row
    BY DEF SessionInv, TypeOK
  <1> QED
    BY <1>1 DEF SessionInv, OneOpenScan, EndedIsClean, JobOwnsScan, Good

\* Ending a scan, in any way, leaves a good row without slot and picture.
LEMMA EndedRow ==
    ASSUME NEW r, Good(r), r.status # "none", NEW st \in Terminal
    PROVE  /\ Good(Ended(r, st))
           /\ Ended(r, st).status = st /\ Ended(r, st).slot = FALSE
           /\ Ended(r, st).owner = r.owner
  <1>1. Ended(r, st) \in Row /\ Ended(r, st).status = st /\ Ended(r, st).slot = FALSE
        /\ Ended(r, st).owner = r.owner /\ Ended(r, st).qr = FALSE
        /\ Ended(r, st).saved = (st = "succeeded")
    BY DEF Good, Ended, Row
  <1> QED
    BY <1>1 DEF Good, Active, Terminal

\* An open scan that ends without success changes as a step may change it.
LEMMA EndingIsChange ==
    ASSUME SessionInv, NEW s \in Scan, scan[s].slot,
           NEW st \in {"failed", "expired", "cancelled"}
    PROVE  /\ Good(Ended(scan[s], st)) /\ Ended(scan[s], st).owner = scan[s].owner
           /\ Ended(scan[s], st).slot = FALSE
           /\ Ended(scan[s], st).status \notin {"none", "queued", "succeeded"}
  <1>1. Good(scan[s]) /\ scan[s].status # "none" /\ st \in Terminal
    BY RowsAreGood DEF Good, Active, Terminal
  <1> QED
    BY <1>1, EndedRow

\* So does sweeping, and it leaves the slot to one scan at most.
LEMMA SweptIsChange ==
    ASSUME SessionInv
    PROVE  \A s \in Scan :
              \/ Swept[s] = scan[s]
              \/ /\ scan[s].slot /\ Good(Swept[s]) /\ Swept[s].slot = FALSE
                 /\ Swept[s].owner = scan[s].owner
                 /\ Swept[s].status \notin {"none", "queued", "succeeded"}
  <1> SUFFICES ASSUME NEW s \in Scan, Expires(s)
               PROVE  /\ scan[s].slot /\ Good(Swept[s]) /\ Swept[s].slot = FALSE
                      /\ Swept[s].owner = scan[s].owner
                      /\ Swept[s].status \notin {"none", "queued", "succeeded"}
    BY DEF Swept
  <1>1. scan[s].slot /\ Swept[s] = Ended(scan[s], "expired")
    BY DEF Swept, Expires, Open
  <1> QED
    BY <1>1, EndingIsChange

\* Steps that change rows in this way keep what the invariant says of them.
LEMMA ChangesKeep ==
    ASSUME SessionInv, scan' = [s \in Scan |-> scan'[s]],
           \A s \in Scan : Change(s), UNCHANGED logins
    PROVE  /\ scan' \in [Scan -> Row]
           /\ OneOpenScan' /\ SavedIffSucceeded' /\ EndedIsClean'
           /\ \A s \in Scan : scan'[s].status # "none" => scan'[s].owner # None
           /\ \A s \in Scan : /\ scan'[s].slot => scan[s].slot
                              /\ scan'[s] = scan[s]
                                   \/ scan'[s].status \notin {"none", "queued"}
           /\ credential' \in [Owner -> Scan \cup {None}] /\ stored' \subseteq Scan
  <1>1. \A s \in Scan : Good(scan'[s]) /\ scan'[s] \in Row /\ scan'[s].owner = scan[s].owner
    BY RowsAreGood DEF Change, Good
  <1>2. \A s \in Scan : /\ scan'[s].slot => scan[s].slot
                        /\ scan'[s] = scan[s] \/ scan'[s].status \notin {"none", "queued"}
    BY DEF Change
  <1>3. \A s \in Scan : scan'[s].status = "succeeded" <=> scan[s].status = "succeeded"
    BY RowsAreGood DEF Change, Good, Active
  <1>4. scan' \in [Scan -> Row]
    BY <1>1
  <1>5. OneOpenScan'
    BY <1>1, <1>2 DEF OneOpenScan, SessionInv, Good
  <1>6. EndedIsClean'
    BY <1>1 DEF EndedIsClean, Good
  <1>7. credential' = credential /\ stored' = stored
    BY DEF logins
  <1>8. SavedIffSucceeded'
    BY <1>1, <1>3, <1>7 DEF SavedIffSucceeded, SessionInv, TypeOK
  <1> QED
    BY <1>1, <1>2, <1>4, <1>5, <1>6, <1>7, <1>8 DEF Good, SessionInv, TypeOK

\* What is left of the invariant for such a step: the job's own variables.
LEMMA QuietStep ==
    ASSUME SessionInv, scan' = [s \in Scan |-> scan'[s]],
           \A s \in Scan : Change(s), UNCHANGED logins, late' \subseteq Scan,
           pc' \in {"off", "ready"} \cup Working, mine' \in Scan \cup {None},
           call' \in [{"qr", "view", "confirming"} -> {"idle", "running", "done"}],
           mine' # None <=> pc' \in Working, mine' = None => call' = NoCalls,
           mine' # None => mine' = mine \/ scan'[mine'].status \notin {"none", "queued"},
           pc' = "ready" => \A s \in Scan : scan'[s].slot => scan'[s].status = "queued"
    PROVE  SessionInv'
  <1>1. TypeOK' /\ OneOpenScan' /\ SavedIffSucceeded' /\ EndedIsClean'
    BY ChangesKeep DEF TypeOK
  <1>2. mine' # None => scan'[mine'].status \notin {"none", "queued"}
    BY ChangesKeep DEF SessionInv, JobOwnsScan
  <1>3. JobOwnsScan'
    BY <1>2, ChangesKeep DEF JobOwnsScan
  <1> QED
    BY <1>1, <1>3 DEF SessionInv

\* A step of the console: nothing of the job changes, so that a scan that was
\* ready to be claimed still is or has ended.
LEMMA SweptReady ==
    ASSUME SessionInv, pc = "ready", NEW s \in Scan, Swept[s].slot
    PROVE  Swept[s].status = "queued"
  BY SweptIsChange DEF SessionInv, JobOwnsScan

LEMMA PollKeeps == ASSUME SessionInv, Poll PROVE SessionInv'
  <1>1. \A s \in Scan : Change(s)
    BY SweptIsChange DEF Poll, Change
  <1>2. scan' = [s \in Scan |-> scan'[s]]
    BY DEF Poll, Swept
  <1> QED
    BY <1>1, <1>2, SweptReady, QuietStep DEF Poll, job, SessionInv, TypeOK, JobOwnsScan

LEMMA CancelKeeps ==
    ASSUME SessionInv, NEW o \in Owner, NEW s \in Scan, Cancel(o, s) PROVE SessionInv'
  <1>1. CASE ~Moves(s, "cancelled")
    BY <1>1, PollKeeps DEF Cancel, Poll
  <1>2. CASE Moves(s, "cancelled")
    <2>1. scan' = [Swept EXCEPT ![s] = Ended(scan[s], "cancelled")] /\ scan[s].slot
      BY <1>2 DEF Cancel, Moves
    <2>2. scan' = [t \in Scan |-> scan'[t]] /\ scan'[s] = Ended(scan[s], "cancelled")
          /\ \A t \in Scan \ {s} : scan'[t] = Swept[t]
      BY <2>1 DEF Swept
    <2>3. \A t \in Scan : Change(t)
      BY <2>1, <2>2, SweptIsChange, EndingIsChange DEF Change
    <2>4. scan'[s].slot = FALSE
      BY <2>1, <2>2, EndingIsChange
    <2> QED
      BY <2>2, <2>3, <2>4, SweptReady, QuietStep
      DEF Cancel, job, SessionInv, TypeOK, JobOwnsScan
  <1> QED
    BY <1>1, <1>2

\* A new scan takes the slot only when sweeping left none in it.
LEMMA StartKeeps ==
    ASSUME SessionInv, NEW o \in Owner, NEW s \in Scan, Start(o, s) PROVE SessionInv'
  <1>1. CASE \E t \in Scan : Swept[t].slot
    BY <1>1, PollKeeps DEF Start, Poll
  <1>2. CASE ~\E t \in Scan : Swept[t].slot
    <2> DEFINE new == [NoRow EXCEPT !.status = "queued", !.slot = TRUE, !.owner = o]
    <2>1. Good(new) /\ new.status = "queued" /\ new.slot = TRUE /\ new.owner = o
      BY DEF Row, NoRow, Good, Active, Terminal
    <2>2. /\ scan' = [t \in Scan |-> scan'[t]] /\ scan'[s] = new
          /\ \A t \in Scan \ {s} : scan'[t] = Swept[t]
      BY <1>2 DEF Start, Swept
    <2> HIDE DEF new
    <2>3. \A t \in Scan : Good(scan'[t])
      BY <2>1, <2>2, RowsAreGood, SweptIsChange
    <2>4. \A t \in Scan : scan'[t].slot <=> t = s
      BY <1>2, <2>1, <2>2
    <2>5. scan[s].status = "none"
      BY DEF Start, NoRow
    <2>6. \A t \in Scan \ {s} :
              /\ scan'[t].owner = scan[t].owner
              /\ scan'[t] = scan[t] \/ scan'[t].status \notin {"none", "queued"}
              /\ scan'[t].status = "succeeded" <=> scan[t].status = "succeeded"
      BY <2>2, SweptIsChange, RowsAreGood DEF Good, Active
    <2>7. UNCHANGED <<late, pc, mine, code, call, credential, stored>>
      BY DEF Start, job, logins
    <2>8. TypeOK' /\ OneOpenScan' /\ EndedIsClean'
      BY <2>2, <2>3, <2>4, <2>7 DEF Good, TypeOK, OneOpenScan, EndedIsClean, SessionInv
    <2>9. s \notin stored /\ mine # s
      BY <2>5 DEF SessionInv, SavedIffSucceeded, JobOwnsScan
    <2>10. \A t \in Scan : t \in stored <=> scan'[t].status = "succeeded"
      BY <2>1, <2>2, <2>6, <2>9 DEF SavedIffSucceeded, SessionInv
    <2>11. \A p \in Owner : credential[p] # None =>
              credential[p] \in stored /\ scan'[credential[p]].owner = p
      <3>1. \A p \in Owner : credential[p] # None =>
               /\ credential[p] \in stored /\ credential[p] \in Scan \ {s}
               /\ scan[credential[p]].owner = p
        BY <2>9 DEF SavedIffSucceeded, SessionInv, TypeOK
      <3> QED
        BY <2>6, <3>1
    <2>12. SavedIffSucceeded'
      BY <2>7, <2>10, <2>11 DEF SavedIffSucceeded
    <2>13. mine # None => scan'[mine].status \notin {"none", "queued"}
      <3>1. mine # None => mine \in Scan \ {s} /\ scan[mine].status \notin {"none", "queued"}
        BY <2>9 DEF SessionInv, TypeOK, JobOwnsScan
      <3> QED
        BY <2>6, <3>1
    <2>14. \A t \in Scan : /\ scan'[t].status # "none" => scan'[t].owner # None
                           /\ scan'[t].slot => scan'[t].status = "queued"
      BY <2>1, <2>2, <2>3, <2>4 DEF Good
    <2>15. JobOwnsScan'
      BY <2>7, <2>13, <2>14 DEF JobOwnsScan, SessionInv
    <2> QED
      BY <2>8, <2>12, <2>15 DEF SessionInv
  <1> QED
    BY <1>1, <1>2

-----------------------------------------------------------------------------
(* The job.                                                                *)

\* What the job knows of the scan it works on.
LEMMA MyScan ==
    ASSUME SessionInv, pc \in Working
    PROVE  /\ mine \in Scan /\ mine # None
           /\ scan[mine].status \notin {"none", "queued"}
           /\ Good(scan[mine])
  BY RowsAreGood DEF SessionInv, TypeOK, JobOwnsScan

\* A step that replaces the row of one open scan by one that a change allows.
LEMMA OneRowChanges ==
    ASSUME SessionInv, NEW s \in Scan, NEW r, scan' = [scan EXCEPT ![s] = r],
           scan[s].slot, Good(r), r.owner = scan[s].owner,
           r.status \notin {"none", "queued", "succeeded"}
    PROVE  /\ scan' = [t \in Scan |-> scan'[t]] /\ scan'[s] = r
           /\ \A t \in Scan : Change(t)
  <1>1. scan' = [t \in Scan |-> scan'[t]] /\ scan'[s] = r
        /\ \A t \in Scan \ {s} : scan'[t] = scan[t]
    BY DEF SessionInv, TypeOK
  <1> QED
    BY <1>1 DEF Change

\* A step that leaves the rows alone.
LEMMA NoRowChanges ==
    ASSUME SessionInv, UNCHANGED scan
    PROVE  scan' = [t \in Scan |-> scan'[t]] /\ \A t \in Scan : Change(t)
  BY DEF Change, SessionInv, TypeOK

LEMMA BootKeeps == ASSUME SessionInv, Boot PROVE SessionInv'
  <1>1. scan' = [s \in Scan |-> scan'[s]]
    BY DEF Boot
  <1>2. ASSUME NEW s \in Scan, Swept[s].slot, Swept[s].status # "queued"
        PROVE  /\ scan[s].slot /\ scan'[s] = Ended(scan[s], "failed")
    BY <1>2, SweptIsChange DEF Boot
  <1>3. ASSUME NEW s \in Scan, ~(Swept[s].slot /\ Swept[s].status # "queued")
        PROVE  scan'[s] = Swept[s]
    BY <1>3 DEF Boot
  <1>4. \A s \in Scan : Change(s)
    BY <1>2, <1>3, SweptIsChange, EndingIsChange DEF Change
  <1>5. \A s \in Scan : scan'[s].slot => scan'[s].status = "queued"
    BY <1>2, <1>3, EndingIsChange
  <1> QED
    BY <1>1, <1>4, <1>5, QuietStep
    DEF Boot, logins, SessionInv, TypeOK, JobOwnsScan, Working

LEMMA ExitIsQuiet ==
    ASSUME SessionInv, Exit, scan' = [s \in Scan |-> scan'[s]],
           \A s \in Scan : Change(s), UNCHANGED <<late, logins>>
    PROVE  SessionInv'
  <1>1. call' \in [{"qr", "view", "confirming"} -> {"idle", "running", "done"}]
    BY DEF Exit, NoCalls
  <1> QED
    BY <1>1, QuietStep DEF Exit, logins, SessionInv, TypeOK, Working

LEMMA ClaimKeeps == ASSUME SessionInv, NEW s \in Scan, Claim(s) PROVE SessionInv'
  <1>1. Good(scan[s]) /\ scan[s].status = "queued" /\ scan[s].slot
    BY RowsAreGood DEF Claim, Good, Active
  <1>2. CASE Moves(s, "loading_qr")
    <2> DEFINE row == [scan[s] EXCEPT !.status = "loading_qr"]
    <2>1. Good(row) /\ row.owner = scan[s].owner /\ row.status = "loading_qr"
      BY <1>1 DEF Good, Row, Active, Terminal
    <2>2. scan' = [scan EXCEPT ![s] = row]
      BY <1>2 DEF Claim, SessionInv, TypeOK
    <2> HIDE DEF row
    <2>3. /\ scan' = [t \in Scan |-> scan'[t]] /\ scan'[s] = row
          /\ \A t \in Scan : Change(t)
      BY <1>1, <2>1, <2>2, OneRowChanges
    <2>4. /\ mine' = s /\ mine' # None /\ pc' \in {"failing", "scanning"}
          /\ UNCHANGED <<late, call, logins>>
      BY <1>2 DEF Claim
    <2> QED
      BY <2>1, <2>3, <2>4, QuietStep DEF logins, SessionInv, TypeOK, Working
  <1>3. CASE ~Moves(s, "loading_qr")
    <2>1. scan' = [scan EXCEPT ![s] = Ended(scan[s], "expired")] /\ Exit
          /\ UNCHANGED <<late, logins>>
      BY <1>3 DEF Claim, Expired
    <2> QED
      BY <1>1, <2>1, EndingIsChange, OneRowChanges, ExitIsQuiet
  <1> QED
    BY <1>2, <1>3

\* The steps of a job that works on its scan, seen from the invariant.
LEMMA WorkingStep ==
    ASSUME SessionInv, pc \in Working, pc' \in Working, UNCHANGED <<mine, late, logins>>,
           scan' = [s \in Scan |-> scan'[s]], \A s \in Scan : Change(s),
           call' \in [{"qr", "view", "confirming"} -> {"idle", "running", "done"}]
    PROVE  SessionInv'
  BY MyScan, QuietStep DEF logins, SessionInv, TypeOK, Working

LEMMA AnswerKeeps == ASSUME SessionInv, NEW k \in DOMAIN call, Answer(k) PROVE SessionInv'
  <1>1. /\ k \in {"qr", "view", "confirming"}
        /\ call' \in [{"qr", "view", "confirming"} -> {"idle", "running", "done"}]
    BY DEF Answer, SessionInv, TypeOK
  <1>2. pc \in Working /\ UNCHANGED <<mine, late, logins>>
    BY <1>1 DEF Answer, Raise, SessionInv, TypeOK, JobOwnsScan, NoCalls
  <1>3. pc' \in Working
    BY <1>2 DEF Answer, Raise, Awaits, Working
  <1>4. scan' = [s \in Scan |-> scan'[s]] /\ \A s \in Scan : Change(s)
    <2>1. CASE Accepted(k)
      <3> DEFINE row == [scan[mine] EXCEPT !.qr = @ \/ k # "confirming",
                                           !.status = IF k = "view" THEN @ ELSE Target[k]]
      <3>1. mine \in Scan /\ Good(scan[mine]) /\ scan[mine].slot
            /\ scan[mine].status \notin {"none", "queued"}
        BY <1>2, <2>1, MyScan DEF Accepted, Open, Moves
      <3>2. Good(row) /\ row.owner = scan[mine].owner
            /\ row.status \notin {"none", "queued", "succeeded"}
        <4> DEFINE st == IF k = "view" THEN scan[mine].status ELSE Target[k]
                   shown == scan[mine].qr \/ k # "confirming"
        <4>1. st \in Active \ {"queued"} /\ shown \in BOOLEAN
          BY <1>1, <3>1 DEF Good, Active, Target
        <4>2. row = [scan[mine] EXCEPT !.qr = shown, !.status = st]
          OBVIOUS
        <4> HIDE DEF st, shown, row
        <4>3. row \in Row /\ row.status = st /\ row.slot = TRUE /\ row.owner = scan[mine].owner
          BY <3>1, <4>1, <4>2 DEF Good, Row
        <4> QED
          BY <3>1, <4>1, <4>3 DEF Good, Active, Terminal
      <3>3. scan' = [scan EXCEPT ![mine] = row]
        BY <1>1, <2>1, <3>1 DEF Answer, SessionInv, TypeOK
      <3> HIDE DEF row
      <3> QED
        BY <3>1, <3>2, <3>3, OneRowChanges
    <2>2. CASE ~Accepted(k) /\ k # "view" /\ Expires(mine)
      <3>1. scan' = [scan EXCEPT ![mine] = Ended(scan[mine], "expired")] /\ scan[mine].slot
        BY <2>2 DEF Answer, Expired, Expires, Open
      <3> QED
        BY <1>2, <3>1, MyScan, EndingIsChange, OneRowChanges
    <2>3. CASE ~(Accepted(k) \/ (k # "view" /\ Expires(mine)))
      BY <2>3, NoRowChanges DEF Answer
    <2> QED
      BY <2>1, <2>2, <2>3
  <1> QED
    BY <1>1, <1>2, <1>3, <1>4, WorkingStep

\* A scanner's step that changes no row.
LEMMA ScannerKeeps ==
    ASSUME SessionInv,
           \/ \E k \in DOMAIN call : Ask(k)
           \/ \E c \in {"qr_load_failed", "login_timeout", "verification_required",
                        "cancelled", "automation_failed"} : ScannerFails(c)
           \/ Authenticated \/ Capture \/ CredentialInvalid
    PROVE  SessionInv'
  <1>1. /\ pc \in Working /\ pc' \in Working
        /\ UNCHANGED <<scan, mine, late, logins>>
    BY DEF Ask, Awaits, ScannerFails, Authenticated, Capture, CredentialInvalid, Raise,
       rows, Working
  <1>2. call' \in [{"qr", "view", "confirming"} -> {"idle", "running", "done"}]
    BY DEF Ask, ScannerFails, Authenticated, Capture, CredentialInvalid, Raise,
       SessionInv, TypeOK
  <1> QED
    BY <1>1, <1>2, NoRowChanges, WorkingStep

LEMMA RecordFailureKeeps == ASSUME SessionInv, RecordFailure PROVE SessionInv'
  <1>1. pc \in Working /\ pc' \in Working /\ UNCHANGED <<mine, late, call, logins>>
    BY DEF RecordFailure, Working
  <1>2. scan' = [s \in Scan |-> scan'[s]] /\ \A s \in Scan : Change(s)
    <2>1. CASE ~Open(mine)
      BY <2>1, NoRowChanges DEF RecordFailure
    <2>2. ASSUME Open(mine), NEW st \in {"failed", "expired"},
                 scan' = [scan EXCEPT ![mine] = Ended(scan[mine], st)]
          PROVE  scan' = [s \in Scan |-> scan'[s]] /\ \A s \in Scan : Change(s)
      BY <1>1, <2>2, MyScan, EndingIsChange, OneRowChanges DEF Open
    <2>3. \/ scan' = [scan EXCEPT ![mine] = Ended(scan[mine], "failed")]
          \/ scan' = [scan EXCEPT ![mine] = Ended(scan[mine], "expired")]
          \/ ~Open(mine)
      BY DEF RecordFailure, Expired
    <2> QED
      BY <2>1, <2>2, <2>3
  <1> QED
    BY <1>1, <1>2, WorkingStep DEF SessionInv, TypeOK

\* The one step that saves a login: with the success of its scan, or not at all.
LEMMA BindingKeeps == ASSUME SessionInv, Bind PROVE SessionInv'
  <1>1. pc \in Working /\ pc' \in Working /\ UNCHANGED <<mine, late, call>>
    BY DEF Bind, Raise, Working
  <1>2. CASE ~Moves(mine, "succeeded")
    BY <1>1, <1>2, NoRowChanges, WorkingStep DEF Bind, SessionInv, TypeOK
  <1>3. CASE Moves(mine, "succeeded")
    <2> DEFINE row == Ended(scan[mine], "succeeded")
    <2>1. mine \in Scan /\ Good(scan[mine]) /\ scan[mine].status # "none" /\ scan[mine].slot
          /\ mine # None
      BY <1>1, <1>3, MyScan DEF Moves
    <2>2. Good(row) /\ row.status = "succeeded" /\ row.slot = FALSE
          /\ row.owner = scan[mine].owner
      BY <2>1, EndedRow DEF Terminal
    <2>3. /\ scan' = [scan EXCEPT ![mine] = row] /\ stored' = stored \cup {mine}
          /\ credential' = [credential EXCEPT ![scan[mine].owner] = mine]
      BY <1>3 DEF Bind
    <2> HIDE DEF row
    <2>4. /\ scan' = [t \in Scan |-> scan'[t]] /\ scan'[mine] = row
          /\ \A t \in Scan \ {mine} : scan'[t] = scan[t]
      BY <2>1, <2>3 DEF SessionInv, TypeOK
    <2>5. \A t \in Scan : Good(scan'[t]) /\ scan'[t].owner = scan[t].owner
      BY <2>2, <2>4, RowsAreGood
    <2>6. scan[mine].owner \in Owner
      BY <2>1 DEF Good, Row
    <2>7. TypeOK'
      BY <1>1, <2>1, <2>3, <2>4, <2>5, <2>6 DEF Good, SessionInv, TypeOK
    <2>8. OneOpenScan' /\ EndedIsClean'
      BY <2>2, <2>4, <2>5 DEF Good, SessionInv, OneOpenScan, EndedIsClean
    <2>9. \A t \in Scan : t \in stored' <=> scan'[t].status = "succeeded"
      BY <2>2, <2>3, <2>4 DEF SessionInv, SavedIffSucceeded
    <2>10. \A o \in Owner : credential'[o] # None =>
              credential'[o] \in stored' /\ scan'[credential'[o]].owner = o
      <3> SUFFICES ASSUME NEW o \in Owner, credential'[o] # None
                   PROVE  credential'[o] \in stored' /\ scan'[credential'[o]].owner = o
        OBVIOUS
      <3>1. CASE o = scan[mine].owner
        BY <2>1, <2>3, <2>5, <3>1 DEF SessionInv, TypeOK
      <3>2. CASE o # scan[mine].owner
        <4>1. credential'[o] = credential[o]
          BY <2>3, <3>2 DEF SessionInv, TypeOK
        <4>2. credential[o] \in stored /\ credential[o] \in Scan /\ scan[credential[o]].owner = o
          BY <4>1 DEF SessionInv, TypeOK, SavedIffSucceeded
        <4> QED
          BY <2>3, <2>5, <4>1, <4>2
      <3> QED
        BY <3>1, <3>2
    <2>11. JobOwnsScan'
      <3>1. scan'[mine].status \notin {"none", "queued"} /\ pc' # "ready"
        BY <1>1, <2>2, <2>4 DEF Working
      <3> QED
        BY <1>1, <2>1, <2>5, <3>1 DEF JobOwnsScan, Good
    <2> QED
      BY <2>7, <2>8, <2>9, <2>10, <2>11 DEF SessionInv, SavedIffSucceeded
  <1> QED
    BY <1>2, <1>3

LEMMA JobKeeps == ASSUME SessionInv, Job PROVE SessionInv'
  <1>1. CASE ClaimNothing \/ Leave \/ JobDies
    BY <1>1, NoRowChanges, ExitIsQuiet DEF ClaimNothing, Leave, JobDies, rows
  <1> QED
    BY <1>1, BootKeeps, ClaimKeeps, AnswerKeeps, ScannerKeeps, BindingKeeps,
       RecordFailureKeeps DEF Job

\* A login is saved by a scan that succeeded and by no other; at most one scan is
\* open; an ended one shows no picture (scan_sessions.py, auth_worker.py).
THEOREM SessionInductive == Spec => []SessionInv
  <1>1. Init => SessionInv
    <2> SUFFICES ASSUME Init PROVE SessionInv
      OBVIOUS
    <2>1. NoRow \in Row /\ NoRow.status = "none" /\ NoRow.slot = FALSE
      BY DEF NoRow, Row
    <2>2. TypeOK /\ \A s \in Scan : scan[s] = NoRow
      BY <2>1 DEF Init, TypeOK, NoCalls
    <2> QED
      BY <2>1, <2>2 DEF Init, SessionInv, OneOpenScan, SavedIffSucceeded, EndedIsClean,
         JobOwnsScan, Active, Terminal, Working
  <1>2. SessionInv /\ [Next]_vars => SessionInv'
    <2> SUFFICES ASSUME SessionInv, [Next]_vars PROVE SessionInv'
      OBVIOUS
    <2>1. ASSUME NEW s \in Scan, TimePasses(s) PROVE SessionInv'
      BY <2>1 DEF TimePasses, job, logins, SessionInv, TypeOK, OneOpenScan,
         SavedIffSucceeded, EndedIsClean, JobOwnsScan
    <2>2. CASE UNCHANGED vars
      BY <2>2 DEF vars, rows, job, logins, SessionInv, TypeOK, OneOpenScan,
         SavedIffSucceeded, EndedIsClean, JobOwnsScan
    <2> QED
      BY <2>1, <2>2, JobKeeps, PollKeeps, StartKeeps, CancelKeeps DEF Next
  <1> QED
    BY <1>1, <1>2, PTL DEF Spec

\* An owner's login is saved by a scan that succeeded and by no other
\* (auth_worker.py:167, the transition and the save are one transaction).
THEOREM SavedOnlyBySuccess == Spec => []SavedIffSucceeded
  BY SessionInductive, PTL DEF SessionInv

\* Every compare-and-set asks for the slot: no other row changes, but a new one.
LEMMA OnlyOpenRowsChange ==
    ASSUME SessionInv, [Next]_vars, NEW s \in Scan
    PROVE  scan'[s] = scan[s] \/ scan[s].slot \/ scan[s].status = "none"
  <1> DEFINE Kept == scan'[s] = scan[s] \/ scan[s].slot \/ scan[s].status = "none"
  <1>1. Swept[s] = scan[s] \/ scan[s].slot
    BY SweptIsChange
  <1>2. CASE Poll \/ Boot
    BY <1>1, <1>2 DEF Poll, Boot
  <1>3. ASSUME NEW o \in Owner, NEW t \in Scan, Start(o, t) \/ Cancel(o, t) PROVE Kept
    <2>1. CASE s # t
      <3>1. scan'[s] = Swept[s]
        BY <1>3, <2>1 DEF Start, Cancel, Swept
      <3> QED
        BY <1>1, <3>1
    <2>2. CASE s = t /\ Start(o, t)
      BY <2>2 DEF Start, NoRow
    <2>3. CASE s = t /\ Cancel(o, t)
      BY <1>1, <2>3 DEF Cancel, Moves
    <2> QED
      BY <1>3, <2>1, <2>2, <2>3
  <1>4. ASSUME NEW t \in Scan, Claim(t) PROVE Kept
    <2>1. scan[t].slot
      BY <1>4, RowsAreGood DEF Claim, Good, Active
    <2> QED
      BY <1>4, <2>1 DEF Claim, Expired, SessionInv, TypeOK
  <1>5. ASSUME NEW k \in DOMAIN call, Answer(k) PROVE Kept
    BY <1>5 DEF Answer, Accepted, Expired, Expires, Open, Moves, SessionInv, TypeOK
  <1>6. CASE Bind \/ RecordFailure
    BY <1>6 DEF Bind, RecordFailure, Expired, Open, Moves, SessionInv, TypeOK
  <1>7. CASE UNCHANGED scan
    BY <1>7
  <1> QED
    BY <1>2, <1>3, <1>4, <1>5, <1>6, <1>7
    DEF Next, Job, Ask, ScannerFails, Authenticated, Capture, CredentialInvalid,
        ClaimNothing, Leave, JobDies, TimePasses, rows, vars

\* What the owner was told of an ended scan stays true: no late callback, expiry
\* or sweep of another scan reaches it (_cas_transition, expire_stale).
THEOREM EndedForEver == Spec => EndedStays
  <1> DEFINE Stays == \A s \in Scan : scan[s].status \in Terminal => scan'[s] = scan[s]
  <1>1. SessionInv /\ [Next]_vars => [Stays]_vars
    <2> SUFFICES ASSUME SessionInv, [Next]_vars PROVE Stays
      OBVIOUS
    <2> QED
      BY OnlyOpenRowsChange, RowsAreGood DEF Good, Active, Terminal
  <1> QED
    BY <1>1, SessionInductive, PTL DEF Spec, EndedStays
=============================================================================
