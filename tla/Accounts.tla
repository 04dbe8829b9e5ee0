------------------------------ MODULE Accounts ------------------------------
(***************************************************************************)
(* Registration by e-mail, sessions, and the changes of password, name and *)
(* address of users (services/email_verification.py, profiles.py, users.py *)
(* and their routes).  Each handler is one transaction, and transactions   *)
(* do not interleave: session_scope takes the advisory lock                *)
(* TRANSACTION_LOCK on PostgreSQL (db.py:148), whether or not the route    *)
(* holds auth.mutation_lock.  A wrong code is counted in the same          *)
(* transaction, which commits: the routes catch the error inside it.       *)
(* User names, rates of sending and temporary locks only refuse a call, so *)
(* they are left out.                                                      *)
(***************************************************************************)
EXTENDS Integers

CONSTANTS
    User,          \* rows of users (a bound)
    Address,       \* e-mail addresses
    Request,       \* rows of email_verification_requests (a bound)
    Pending,       \* rows of pending_registrations (a bound)
    MaxAttempts,   \* MAX_ATTEMPTS: wrong codes a row takes
    MaxSends,      \* codes a registration is sent
    None           \* no address, no user

ASSUME LimitsAssumption == MaxAttempts \in Nat \ {0} /\ MaxSends \in Nat \ {0}
ASSUME NoneAssumption == None \notin Address /\ None \notin User

VARIABLES
    acct,       \* User: status, the verified address, must_change_password
    sess,       \* whether a user has sessions
    row,        \* EmailVerificationRequest that is neither consumed nor past its time
    pend        \* PendingRegistration

vars == <<acct, sess, row, pend>>

Absent == [status |-> "absent", email |-> None, must |-> FALSE]
NoRow == [kind |-> "none", user |-> None, to |-> None, from |-> None, fails |-> 0, aged |-> FALSE]
NoPending == [to |-> None, live |-> FALSE, fails |-> 0, sends |-> 0, wrong |-> 0]

Account == [status : {"absent", "active", "disabled"}, email : Address \cup {None}, must : BOOLEAN]
\* aged: the credentials have changed since the code was sent, which a request to
\* bind can tell by its tag of the password (Verifiable); of a reset it is an
\* observation.
Row == [kind : {"bind", "password_reset"}, user : User, to : Address, from : Address \cup {None},
        fails : 0..MaxAttempts, aged : BOOLEAN]
\* wrong is an observation: the wrong codes given so far, whichever was valid.
Registration == [to : Address, live : BOOLEAN, fails : 0..MaxAttempts,
                 sends : 1..MaxSends, wrong : Nat]

Holder(a) == {u \in User : acct[u].email = a}
Open(u, kind) == {r \in Request : row[r].user = u /\ row[r].kind = kind}
Active(u) == acct[u].status = "active"

\* auth.current: a session, of an active user who need not change his password.
SignedIn(u) == Active(u) /\ sess[u]
Admitted(u) == SignedIn(u) /\ ~acct[u].must

-----------------------------------------------------------------------------
\* The sessions alone, as an administrator's new password does; faulty where a
\* user changes his own credentials.
RevokeSessions(u, kept) ==
    /\ sess' = [sess EXCEPT ![u] = kept]
    /\ row' = [r \in Request |-> IF row[r].user = u THEN [row[r] EXCEPT !.aged = TRUE] ELSE row[r]]

\* revoke_security_requests; a new session is for who has just changed his password.
Revoke(u, kept) ==
    /\ sess' = [sess EXCEPT ![u] = kept]
    /\ row' = [r \in Request |-> IF row[r].user = u THEN NoRow ELSE row[r]]

\* A new request takes the place of the open ones of its kind.
Replace(u, kind, r, new) ==
    /\ row[r] = NoRow
    /\ row' = [q \in Request |-> IF q = r THEN new
                                ELSE IF q \in Open(u, kind) THEN NoRow ELSE row[q]]

WrongCode(r) ==
    /\ row' = [row EXCEPT ![r].fails = @ + 1]
    /\ UNCHANGED <<acct, sess, pend>>

-----------------------------------------------------------------------------
Init ==
    /\ acct = [u \in User |-> Absent]
    /\ sess = [u \in User |-> FALSE]
    /\ row = [r \in Request |-> NoRow]
    /\ pend = [p \in Pending |-> NoPending]

StartRegistration(p, a) ==
    /\ pend[p] = NoPending /\ Holder(a) = {}
    /\ pend' = [pend EXCEPT ![p] = [to |-> a, live |-> TRUE, fails |-> 0, sends |-> 1, wrong |-> 0]]
    /\ UNCHANGED <<acct, sess, row>>

\* Faulty: new codes are sent without a limit on their number.
ResendUnlimited(p) ==
    /\ pend[p] # NoPending
    /\ pend' = [pend EXCEPT ![p].fails = 0, ![p].live = TRUE]
    /\ UNCHANGED <<acct, sess, row>>

ResendRegistration(p) ==
    /\ pend[p] # NoPending /\ pend[p].sends < MaxSends
    /\ pend' = [pend EXCEPT ![p] = [to |-> @.to, live |-> TRUE, fails |-> 0,
                                     sends |-> @.sends + 1, wrong |-> @.wrong]]
    /\ UNCHANGED <<acct, sess, row>>

\* The rest of what a new user is given is in TaskCapacity and Referrals.
VerifyRegistration(p, u) ==
    /\ pend[p].live /\ pend[p].fails < MaxAttempts
    /\ Holder(pend[p].to) = {} /\ acct[u] = Absent
    /\ acct' = [acct EXCEPT ![u] = [status |-> "active", email |-> pend[p].to, must |-> FALSE]]
    /\ pend' = [pend EXCEPT ![p] = NoPending]
    /\ UNCHANGED <<sess, row>>

WrongRegistrationCode(p) ==
    /\ pend[p].live /\ pend[p].fails < MaxAttempts
    /\ pend' = [pend EXCEPT ![p].fails = @ + 1, ![p].wrong = @ + 1]
    /\ UNCHANGED <<acct, sess, row>>

CodeExpires(p) ==
    /\ pend[p].live
    /\ pend' = [pend EXCEPT ![p].live = FALSE]
    /\ UNCHANGED <<acct, sess, row>>

\* Half an hour later, or cleanup_expired.
PendingExpires(p) ==
    /\ pend[p] # NoPending
    /\ pend' = [pend EXCEPT ![p] = NoPending]
    /\ UNCHANGED <<acct, sess, row>>

RequestExpires(r) ==
    /\ row[r] # NoRow
    /\ row' = [row EXCEPT ![r] = NoRow]
    /\ UNCHANGED <<acct, sess, pend>>

\* UserService.create, or registration without e-mail, which asks for no new password.
CreateUser(u, must) ==
    /\ acct[u] = Absent
    /\ acct' = [acct EXCEPT ![u] = [status |-> "active", email |-> None, must |-> must]]
    /\ UNCHANGED <<sess, row, pend>>

-----------------------------------------------------------------------------
Login(u) ==
    /\ Active(u)
    /\ sess' = [sess EXCEPT ![u] = TRUE]
    /\ UNCHANGED <<acct, row, pend>>

\* The last one: by logging out, or eight hours later.
SessionEnds(u) ==
    /\ sess[u]
    /\ sess' = [sess EXCEPT ![u] = FALSE]
    /\ UNCHANGED <<acct, row, pend>>

\* With the current password, to an address that is nobody's.
StartBinding(u, a, r) ==
    /\ Admitted(u) /\ Holder(a) = {}
    /\ Replace(u, "bind", r, [kind |-> "bind", user |-> u, to |-> a, from |-> acct[u].email,
                              fails |-> 0, aged |-> FALSE])
    /\ UNCHANGED <<acct, sess, pend>>

\* Faulty: the request of another user is accepted.
VerifyAnyBinding(u, r) ==
    /\ Admitted(u)
    /\ row[r].kind = "bind" /\ row[r].fails < MaxAttempts
    /\ Holder(row[r].to) \subseteq {u}
    /\ acct' = [acct EXCEPT ![u].email = row[r].to]
    /\ Revoke(u, FALSE)
    /\ UNCHANGED pend

Verifiable(u, r) ==
    /\ Admitted(u)
    /\ row[r].kind = "bind" /\ row[r].user = u /\ row[r].fails < MaxAttempts
    /\ row[r].from = acct[u].email /\ ~row[r].aged

\* The first address of a user leaves his sessions and other requests alone.
VerifyBinding(u, r) ==
    /\ Verifiable(u, r) /\ Holder(row[r].to) \subseteq {u}
    /\ acct' = [acct EXCEPT ![u].email = row[r].to]
    /\ IF acct[u].email # None
       THEN Revoke(u, FALSE)
       ELSE row' = [row EXCEPT ![r] = NoRow] /\ UNCHANGED sess
    /\ UNCHANGED pend

\* Either of the two codes, to the old and to the new address, is wrong.
WrongBindingCode(u, r) == Verifiable(u, r) /\ WrongCode(r)

StartPasswordReset(u, r) ==
    /\ Active(u) /\ acct[u].email # None
    /\ Replace(u, "password_reset", r,
               [kind |-> "password_reset", user |-> u, to |-> acct[u].email, from |-> None,
                fails |-> 0, aged |-> FALSE])
    /\ UNCHANGED <<acct, sess, pend>>

\* Faulty: the number of wrong codes is not looked at.
ResettableForever(u, r) ==
    /\ row[r].kind = "password_reset" /\ row[r].user = u
    /\ Active(u) /\ acct[u].email = row[r].to

Resettable(u, r) ==
    /\ row[r].kind = "password_reset" /\ row[r].user = u /\ row[r].fails < MaxAttempts
    /\ Active(u) /\ acct[u].email = row[r].to

CompletePasswordReset(u, r) ==
    /\ Resettable(u, r)
    /\ acct' = [acct EXCEPT ![u].must = FALSE]
    /\ Revoke(u, FALSE)
    /\ UNCHANGED pend

WrongResetCode(u, r) == Resettable(u, r) /\ row[r].fails < MaxAttempts /\ WrongCode(r)

\* From the page for it, which signs the user in again, or from the profile.
ChangePassword(u, kept) ==
    /\ SignedIn(u)
    /\ kept \/ ~acct[u].must
    /\ acct' = [acct EXCEPT ![u].must = FALSE]
    /\ Revoke(u, kept)
    /\ UNCHANGED pend

ChangeUsername(u) ==
    /\ Admitted(u)
    /\ Revoke(u, FALSE)
    /\ UNCHANGED <<acct, pend>>

-----------------------------------------------------------------------------
\* UserService.reset_password leaves the requests.
ResetPassword(u) ==
    /\ acct[u] # Absent
    /\ acct' = [acct EXCEPT ![u].must = TRUE]
    /\ RevokeSessions(u, FALSE)
    /\ UNCHANGED pend

Disable(u) ==
    /\ Active(u)
    /\ acct' = [acct EXCEPT ![u].status = "disabled"]
    /\ sess' = [sess EXCEPT ![u] = FALSE]
    /\ UNCHANGED <<row, pend>>

Enable(u) ==
    /\ acct[u].status = "disabled"
    /\ acct' = [acct EXCEPT ![u].status = "active"]
    /\ UNCHANGED <<sess, row, pend>>

Delete(u) ==
    /\ acct[u] # Absent
    /\ acct' = [acct EXCEPT ![u] = Absent]
    /\ Revoke(u, FALSE)
    /\ UNCHANGED pend

PendingStep(p) ==
    \/ \E a \in Address : StartRegistration(p, a)
    \/ \E u \in User : VerifyRegistration(p, u)
    \/ ResendRegistration(p) \/ WrongRegistrationCode(p) \/ CodeExpires(p) \/ PendingExpires(p)

RequestStep(u, r) ==
    \/ \E a \in Address : StartBinding(u, a, r)
    \/ VerifyBinding(u, r) \/ WrongBindingCode(u, r)
    \/ StartPasswordReset(u, r) \/ CompletePasswordReset(u, r) \/ WrongResetCode(u, r)

UserStep(u) ==
    \/ \E must \in BOOLEAN : CreateUser(u, must)
    \/ \E kept \in BOOLEAN : ChangePassword(u, kept)
    \/ Login(u) \/ SessionEnds(u) \/ ChangeUsername(u) \/ ResetPassword(u) \/ Disable(u) \/ Enable(u) \/ Delete(u)

Next ==
    \/ \E p \in Pending : PendingStep(p)
    \/ \E u \in User, r \in Request : RequestStep(u, r)
    \/ \E r \in Request : RequestExpires(r)
    \/ \E u \in User : UserStep(u)

Spec == Init /\ [][Next]_vars

-----------------------------------------------------------------------------
TypeOK ==
    /\ acct \in [User -> Account]
    /\ sess \in [User -> BOOLEAN]
    /\ row \in [Request -> Row \cup {NoRow}]
    /\ pend \in [Pending -> Registration \cup {NoPending}]

AddressesDistinct ==
    \A u, v \in User : acct[u].email = acct[v].email /\ acct[u].email # None => u = v

OneOpenEach ==
    \A q, r \in Request :
        row[q] # NoRow /\ row[r] # NoRow /\ row[q].kind = row[r].kind /\ row[q].user = row[r].user
            => q = r

\* A code that outlives a change of credentials is one of a user whom the
\* administrator gave a new password, until he has chosen his own; and it is
\* for the address the user has, or for a change from that one.
RequestsAreCurrent ==
    \A r \in Request : row[r] # NoRow =>
        LET u == row[r].user IN
        /\ acct[u] # Absent
        /\ row[r].aged => acct[u].must
        /\ row[r].kind = "bind" => row[r].from = acct[u].email /\ row[r].to # acct[u].email
        /\ row[r].kind = "password_reset" => row[r].to = acct[u].email

SessionsOfActive == \A u \in User : sess[u] => Active(u)

\* However registrations, changes of address and of password and resets of
\* several users cross: no two users have one address, a user has one open code
\* of a kind, no code from before a change of credentials of his own is good
\* for anything, and who is disabled is signed out (services/profiles.py:79,
\* email_verification.py:340, users.py:95).
AccountsInv ==
    /\ TypeOK
    /\ AddressesDistinct
    /\ OneOpenEach
    /\ RequestsAreCurrent
    /\ SessionsOfActive

\* New codes give new guesses, but a registration is never guessed at more than
\* MaxSends * MaxAttempts times, nor a code more than MaxAttempts times
\* (email_verification.py:192 and :203).
GuessesBound ==
    \A p \in Pending : pend[p].wrong <= MaxAttempts * pend[p].sends /\ pend[p].sends <= MaxSends

\* The address of a user is replaced only by a request that he made himself,
\* from the address he has, and whose codes were not guessed at too often
\* (email_verification.py:327-348).
ReplacedInPerson ==
    [][\A u \in User :
         acct'[u].email # acct[u].email /\ acct[u] # Absent /\ acct'[u] # Absent =>
            \E r \in Request :
                /\ row[r].kind = "bind" /\ row[r].user = u /\ row[r].to = acct'[u].email
                /\ row[r].from = acct[u].email /\ row[r].fails < MaxAttempts]_vars

\* A password the administrator set is replaced only by the user: signed in
\* with it, or by a code sent to his own address and to nobody else's, and not
\* guessed at too often (email_verification.py:484-503, app.py:716).
ReplacedByOwner ==
    [][\A u \in User :
         acct[u].must /\ ~acct'[u].must /\ acct'[u] # Absent =>
            \/ sess[u]
            \/ \E r \in Request :
                /\ row[r].kind = "password_reset" /\ row[r].user = u /\ row[r].fails < MaxAttempts
                /\ Holder(row[r].to) = {u}]_vars
=============================================================================
