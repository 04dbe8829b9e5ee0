--------------------------- MODULE AccountsProofs ---------------------------
(***************************************************************************)
(* AccountsInv is inductive as it stands, and the two action properties    *)
(* follow from it.  The bound on guesses needs the guesses that are left:  *)
(* what was given wrong and what the valid code still takes.               *)
(***************************************************************************)
EXTENDS Accounts, TLAPS

USE NoneAssumption, LimitsAssumption

\* What a revocation leaves of the requests.
LEMMA RevokeKeeps ==
    ASSUME TypeOK, NEW u \in User, NEW kept \in BOOLEAN, Revoke(u, kept)
    PROVE  /\ row' \in [Request -> Row \cup {NoRow}]
           /\ sess' \in [User -> BOOLEAN]
           /\ sess'[u] = kept /\ \A v \in User : v # u => sess'[v] = sess[v]
           /\ \A r \in Request : row'[r] # NoRow => row'[r] = row[r] /\ row[r].user # u
    BY DEF Revoke, TypeOK

\* What a new request leaves of the others.
LEMMA ReplaceKeeps ==
    ASSUME TypeOK, NEW u \in User, NEW r \in Request, NEW kind, NEW new \in Row,
           Replace(u, kind, r, new)
    PROVE  /\ row' \in [Request -> Row \cup {NoRow}]
           /\ row'[r] = new
           /\ \A q \in Request : q # r /\ row'[q] # NoRow =>
                row'[q] = row[q] /\ ~(row[q].user = u /\ row[q].kind = kind)
<1>1. row' = [q \in Request |-> IF q = r THEN new ELSE IF q \in Open(u, kind) THEN NoRow ELSE row[q]]
    BY DEF Replace
<1>2. \A q \in Request : row[q] \in Row \cup {NoRow}
    BY DEF TypeOK
<1>3. row' \in [Request -> Row \cup {NoRow}]
    BY <1>1, <1>2
<1> QED
    BY <1>1, <1>3 DEF Open

\* The fields of a row, for the provers.
LEMMA RowFields ==
    ASSUME TypeOK, NEW r \in Request, row[r] # NoRow
    PROVE  /\ row[r] \in Row
           /\ row[r].kind \in {"bind", "password_reset"}
           /\ row[r].user \in User /\ row[r].to \in Address
           /\ row[r].from \in Address \cup {None}
           /\ row[r].fails \in 0..MaxAttempts /\ row[r].aged \in BOOLEAN
<1>1. row[r] \in Row
    BY DEF TypeOK
<1> QED
    BY <1>1 DEF Row

LEMMA KindIsRow ==
    ASSUME NEW r \in Request, row[r].kind \in {"bind", "password_reset"}
    PROVE  row[r] # NoRow
    BY DEF NoRow

LEMMA InitHolds == Init => AccountsInv
<1> SUFFICES ASSUME Init PROVE AccountsInv
    OBVIOUS
<1>1. TypeOK
    BY DEF Init, TypeOK, Absent, Account, NoRow, NoPending
<1>2. AddressesDistinct
    BY DEF Init, AddressesDistinct, Absent
<1>3. OneOpenEach /\ RequestsAreCurrent /\ SessionsOfActive
    BY DEF Init, OneOpenEach, RequestsAreCurrent, SessionsOfActive
<1> QED
    BY <1>1, <1>2, <1>3 DEF AccountsInv

-----------------------------------------------------------------------------
\* Steps of registrations, which touch no request.
LEMMA PendingKeeps ==
    ASSUME AccountsInv, NEW p \in Pending, PendingStep(p)
    PROVE  AccountsInv'
<1> USE DEF AccountsInv
<1>1. ASSUME NEW a \in Address, StartRegistration(p, a)
      PROVE  AccountsInv'
  <2>1. [to |-> a, live |-> TRUE, fails |-> 0, sends |-> 1, wrong |-> 0] \in Registration
      BY DEF Registration
  <2>2. TypeOK'
      BY <1>1, <2>1 DEF StartRegistration, TypeOK
  <2> QED
      BY <1>1, <2>2 DEF StartRegistration, AddressesDistinct, OneOpenEach, RequestsAreCurrent,
          SessionsOfActive, Active
<1>2. ASSUME NEW u \in User, VerifyRegistration(p, u)
      PROVE  AccountsInv'
  <2>0. pend[p] \in Registration
      BY <1>2 DEF VerifyRegistration, TypeOK, NoPending
  <2>1. pend[p].to \in Address
      BY <2>0 DEF Registration
  <2>2. TypeOK'
      BY <1>2, <2>1 DEF VerifyRegistration, TypeOK, Account
  <2>3. /\ acct'[u] = [status |-> "active", email |-> pend[p].to, must |-> FALSE]
        /\ \A v \in User : v # u => acct'[v] = acct[v]
        /\ \A v \in User : acct[v].email # pend[p].to
      BY <1>2 DEF VerifyRegistration, TypeOK, Holder
  <2>4. AddressesDistinct'
      BY <2>1, <2>3 DEF AddressesDistinct
  <2>5. \A r \in Request : row[r] # NoRow => row[r].user # u /\ row[r].user \in User
      BY <1>2, RowFields DEF VerifyRegistration, RequestsAreCurrent
  <2>6. RequestsAreCurrent'
      BY <1>2, <2>3, <2>5 DEF VerifyRegistration, RequestsAreCurrent
  <2>7. SessionsOfActive'
      BY <1>2, <2>3 DEF VerifyRegistration, SessionsOfActive, Active
  <2> QED
      BY <1>2, <2>2, <2>4, <2>6, <2>7 DEF VerifyRegistration, OneOpenEach
<1>3. ASSUME ResendRegistration(p) \/ WrongRegistrationCode(p) \/ CodeExpires(p)
      PROVE  AccountsInv'
  <2>0. pend[p] \in Registration
      BY <1>3 DEF ResendRegistration, WrongRegistrationCode, CodeExpires, TypeOK, NoPending
  <2>1. /\ pend[p].to \in Address /\ pend[p].live \in BOOLEAN /\ pend[p].fails \in 0..MaxAttempts
        /\ pend[p].sends \in 1..MaxSends /\ pend[p].wrong \in Nat
      BY <2>0 DEF Registration
  <2>2. pend'[p] \in Registration
    <3>1. CASE ResendRegistration(p)
      <4>1. pend'[p] = [to |-> pend[p].to, live |-> TRUE, fails |-> 0,
                        sends |-> pend[p].sends + 1, wrong |-> pend[p].wrong]
          BY <3>1 DEF ResendRegistration, TypeOK
      <4>2. pend[p].sends + 1 \in 1..MaxSends
          BY <2>1, <3>1 DEF ResendRegistration
      <4> QED
          BY <2>1, <4>1, <4>2 DEF Registration
    <3>2. CASE WrongRegistrationCode(p)
        BY <2>0, <2>1, <3>2 DEF WrongRegistrationCode, TypeOK, Registration
    <3>3. CASE CodeExpires(p)
        BY <2>0, <2>1, <3>3 DEF CodeExpires, TypeOK, Registration
    <3> QED
        BY <1>3, <3>1, <3>2, <3>3
  <2>4. pend' \in [Pending -> Registration \cup {NoPending}]
      BY <1>3, <2>2 DEF ResendRegistration, WrongRegistrationCode, CodeExpires, TypeOK
  <2>3. UNCHANGED <<acct, sess, row>>
      BY <1>3 DEF ResendRegistration, WrongRegistrationCode, CodeExpires
  <2> QED
      BY <2>4, <2>3 DEF TypeOK, AddressesDistinct, OneOpenEach, RequestsAreCurrent,
          SessionsOfActive, Active
<1>4. ASSUME PendingExpires(p)
      PROVE  AccountsInv'
    BY <1>4 DEF PendingExpires, TypeOK, AddressesDistinct, OneOpenEach, RequestsAreCurrent,
        SessionsOfActive, Active
<1> QED
    BY <1>1, <1>2, <1>3, <1>4 DEF PendingStep

\* A wrong code, and the end of a request.
LEMMA WrongKeeps ==
    ASSUME AccountsInv, NEW r \in Request, row[r] # NoRow, row[r].fails < MaxAttempts, WrongCode(r)
    PROVE  AccountsInv'
<1> USE DEF AccountsInv
<1>0. row[r] \in Row /\ row[r].fails \in 0..MaxAttempts
    BY RowFields
<1>1. row'[r] = [row[r] EXCEPT !.fails = row[r].fails + 1]
    BY DEF WrongCode, TypeOK
<1>2. row'[r] \in Row /\ row'[r] # NoRow
    BY <1>0, <1>1 DEF Row, NoRow
<1>3. TypeOK'
    BY <1>2 DEF WrongCode, TypeOK
<1>4. /\ row'[r].kind = row[r].kind /\ row'[r].user = row[r].user /\ row'[r].to = row[r].to
      /\ row'[r].from = row[r].from /\ row'[r].aged = row[r].aged
      /\ \A q \in Request : q # r => row'[q] = row[q]
    BY <1>0, <1>1 DEF WrongCode, TypeOK, Row
<1>5. OneOpenEach'
    BY <1>4 DEF OneOpenEach
<1>6. RequestsAreCurrent'
    BY <1>4 DEF WrongCode, RequestsAreCurrent
<1> QED
    BY <1>3, <1>5, <1>6 DEF WrongCode, AddressesDistinct, SessionsOfActive, Active

LEMMA ExpiryKeeps ==
    ASSUME AccountsInv, NEW r \in Request, RequestExpires(r)
    PROVE  AccountsInv'
<1> USE DEF AccountsInv
<1>1. row'[r] = NoRow /\ \A q \in Request : q # r => row'[q] = row[q]
    BY DEF RequestExpires, TypeOK
<1>2. TypeOK'
    BY DEF RequestExpires, TypeOK
<1>3. OneOpenEach'
    BY <1>1 DEF OneOpenEach
<1>4. RequestsAreCurrent'
    BY <1>1 DEF RequestExpires, RequestsAreCurrent
<1> QED
    BY <1>2, <1>3, <1>4 DEF RequestExpires, AddressesDistinct, SessionsOfActive, Active

\* A new row in the place of the open one of its kind.
LEMMA NewRowKeeps ==
    ASSUME AccountsInv, NEW u \in User, NEW r \in Request, NEW new \in Row,
           Replace(u, new.kind, r, new), UNCHANGED <<acct, sess, pend>>,
           new.user = u, new.aged = FALSE, acct[u] # Absent,
           new.kind = "bind" => new.from = acct[u].email /\ new.to # acct[u].email,
           new.kind = "password_reset" => new.to = acct[u].email
    PROVE  AccountsInv'
<1> USE DEF AccountsInv
<1>1. /\ row' \in [Request -> Row \cup {NoRow}]
      /\ row'[r] = new
      /\ \A q \in Request : q # r /\ row'[q] # NoRow =>
            row'[q] = row[q] /\ ~(row[q].user = u /\ row[q].kind = new.kind)
    BY ReplaceKeeps
<1>2. TypeOK'
    BY <1>1 DEF TypeOK
<1>3. OneOpenEach'
  <2> SUFFICES ASSUME NEW p \in Request, NEW q \in Request, row'[p].kind = row'[q].kind,
                      row'[p].user = row'[q].user, row'[p] # NoRow, row'[q] # NoRow, p # q
               PROVE  FALSE
      BY DEF OneOpenEach
  <2>2. CASE p = r \/ q = r
      BY <1>1, <2>2
  <2>3. CASE p # r /\ q # r
      BY <1>1, <2>3 DEF OneOpenEach
  <2> QED
      BY <2>2, <2>3
<1>4. RequestsAreCurrent'
    BY <1>1 DEF RequestsAreCurrent
<1> QED
    BY <1>2, <1>3, <1>4 DEF AddressesDistinct, SessionsOfActive, Active

-----------------------------------------------------------------------------
\* A change of one user's row that keeps his address or gives him a free one,
\* and takes all his requests and, but for the new one, his sessions.
LEMMA RevokedKeeps ==
    ASSUME AccountsInv, NEW u \in User, NEW kept \in BOOLEAN, NEW new \in Account,
           acct' = [acct EXCEPT ![u] = new], Revoke(u, kept), UNCHANGED pend,
           \A v \in User \ {u} : acct[v].email = new.email => new.email = None,
           kept => new.status = "active"
    PROVE  AccountsInv'
<1> USE DEF AccountsInv
<1>1. acct'[u] = new /\ \A v \in User : v # u => acct'[v] = acct[v]
    BY DEF TypeOK
<1>2. /\ row' \in [Request -> Row \cup {NoRow}]
      /\ sess' \in [User -> BOOLEAN]
      /\ sess'[u] = kept /\ \A v \in User : v # u => sess'[v] = sess[v]
      /\ \A r \in Request : row'[r] # NoRow => row'[r] = row[r] /\ row[r].user # u
    BY RevokeKeeps
<1>3. TypeOK'
    BY <1>2 DEF TypeOK
<1>4. AddressesDistinct'
    BY <1>1 DEF AddressesDistinct
<1>5. OneOpenEach'
    BY <1>2 DEF OneOpenEach
<1>6. RequestsAreCurrent'
  <2> SUFFICES ASSUME NEW r \in Request, row'[r] # NoRow
               PROVE  /\ acct'[row'[r].user] # Absent
                      /\ row'[r].aged => acct'[row'[r].user].must
                      /\ row'[r].kind = "bind" => /\ row'[r].from = acct'[row'[r].user].email
                                                  /\ row'[r].to # acct'[row'[r].user].email
                      /\ row'[r].kind = "password_reset" => row'[r].to = acct'[row'[r].user].email
      BY DEF RequestsAreCurrent
  <2>1. row'[r] = row[r] /\ row[r] # NoRow /\ row[r].user # u
      BY <1>2
  <2>2. row[r].user \in User
      BY <2>1, RowFields
  <2> QED
      BY <1>1, <2>1, <2>2 DEF RequestsAreCurrent
<1>7. SessionsOfActive'
    BY <1>1, <1>2 DEF SessionsOfActive, Active
<1> QED
    BY <1>3, <1>4, <1>5, <1>6, <1>7

LEMMA RequestKeeps ==
    ASSUME AccountsInv, NEW u \in User, NEW r \in Request, RequestStep(u, r)
    PROVE  AccountsInv'
<1> USE DEF AccountsInv
<1>0. acct[u] \in Account
    BY DEF TypeOK
<1>1. ASSUME NEW a \in Address, StartBinding(u, a, r)
      PROVE  AccountsInv'
  <2> DEFINE new == [kind |-> "bind", user |-> u, to |-> a, from |-> acct[u].email,
                     fails |-> 0, aged |-> FALSE]
  <2>1. new \in Row
      BY <1>0 DEF Row, Account
  <2>2. /\ new.kind = "bind" /\ new.user = u /\ new.aged = FALSE
        /\ new.from = acct[u].email /\ new.to = a
      OBVIOUS
  <2>3. a # acct[u].email /\ acct[u] # Absent
      BY <1>1 DEF StartBinding, Holder, Admitted, SignedIn, Active, Absent
  <2>4. Replace(u, new.kind, r, new) /\ UNCHANGED <<acct, sess, pend>>
      BY <1>1 DEF StartBinding
  <2> HIDE DEF new
  <2> QED
      BY <2>1, <2>2, <2>3, <2>4, NewRowKeeps
<1>2. ASSUME StartPasswordReset(u, r)
      PROVE  AccountsInv'
  <2> DEFINE new == [kind |-> "password_reset", user |-> u, to |-> acct[u].email, from |-> None,
                     fails |-> 0, aged |-> FALSE]
  <2>1. new \in Row
      BY <1>0, <1>2 DEF Row, Account, StartPasswordReset
  <2>2. new.kind = "password_reset" /\ new.user = u /\ new.aged = FALSE /\ new.to = acct[u].email
      OBVIOUS
  <2>3. acct[u] # Absent
      BY <1>2 DEF StartPasswordReset, Active, Absent
  <2>4. Replace(u, new.kind, r, new) /\ UNCHANGED <<acct, sess, pend>>
      BY <1>2 DEF StartPasswordReset
  <2> HIDE DEF new
  <2> QED
      BY <2>1, <2>2, <2>3, <2>4, NewRowKeeps
<1>3. ASSUME VerifyBinding(u, r)
      PROVE  AccountsInv'
  <2>0. /\ row[r] # NoRow /\ row[r].to \in Address /\ row[r].user = u /\ row[r].kind = "bind"
        /\ ~row[r].aged /\ row[r].from = acct[u].email /\ acct[u].status = "active"
        /\ Holder(row[r].to) \subseteq {u}
      BY <1>3, RowFields, KindIsRow DEF VerifyBinding, Verifiable, Admitted, SignedIn, Active
  <2> DEFINE new == [acct[u] EXCEPT !.email = row[r].to]
  <2>1. new \in Account /\ new.email = row[r].to /\ new.status = "active"
      BY <1>0, <2>0 DEF Account
  <2>2. acct' = [acct EXCEPT ![u] = new]
      BY <1>3 DEF VerifyBinding
  <2>3. \A v \in User \ {u} : acct[v].email # new.email
      BY <2>0, <2>1 DEF Holder
  <2> HIDE DEF new
  <2>4. CASE acct[u].email # None
    <3>1. Revoke(u, FALSE) /\ UNCHANGED pend
        BY <1>3, <2>4 DEF VerifyBinding
    <3> QED
        BY <2>1, <2>2, <2>3, <3>1, RevokedKeeps
  <2>5. CASE acct[u].email = None
    <3>1. row' = [row EXCEPT ![r] = NoRow] /\ UNCHANGED <<sess, pend>>
        BY <1>3, <2>5 DEF VerifyBinding
    <3>2. acct'[u] = new /\ \A v \in User : v # u => acct'[v] = acct[v]
        BY <2>2 DEF TypeOK
    <3>3. TypeOK'
        BY <2>1, <2>2, <3>1 DEF TypeOK
    <3>4. AddressesDistinct'
        BY <2>3, <3>2 DEF AddressesDistinct
    <3>5. row'[r] = NoRow /\ \A q \in Request : q # r => row'[q] = row[q]
        BY <3>1 DEF TypeOK
    <3>6. OneOpenEach'
        BY <3>5 DEF OneOpenEach
    <3>7. \A q \in Request : row'[q] # NoRow => row[q].user # u
      <4> SUFFICES ASSUME NEW q \in Request, row'[q] # NoRow, row[q].user = u
                   PROVE  FALSE
          OBVIOUS
      <4>1. q # r /\ row[q] # NoRow
          BY <3>5
      <4>2. row[q].kind # "bind"
          BY <2>0, <4>1 DEF OneOpenEach
      <4>3. row[q].kind = "password_reset" /\ row[q].to \in Address
          BY <4>1, <4>2, RowFields
      <4> QED
          BY <2>5, <4>1, <4>3 DEF RequestsAreCurrent
    <3>8. RequestsAreCurrent'
      <4> SUFFICES ASSUME NEW q \in Request, row'[q] # NoRow
                   PROVE  /\ acct'[row'[q].user] # Absent
                          /\ row'[q].aged => acct'[row'[q].user].must
                          /\ row'[q].kind = "bind" => /\ row'[q].from = acct'[row'[q].user].email
                                                      /\ row'[q].to # acct'[row'[q].user].email
                          /\ row'[q].kind = "password_reset" => row'[q].to = acct'[row'[q].user].email
          BY DEF RequestsAreCurrent
      <4>1. row'[q] = row[q] /\ row[q] # NoRow /\ row[q].user # u
          BY <3>5, <3>7
      <4>2. row[q].user \in User
          BY <4>1, RowFields
      <4> QED
          BY <3>2, <4>1, <4>2 DEF RequestsAreCurrent
    <3>9. SessionsOfActive'
        BY <2>1, <3>1, <3>2 DEF SessionsOfActive, Active
    <3> QED
        BY <3>3, <3>4, <3>6, <3>8, <3>9
  <2> QED
      BY <2>4, <2>5
<1>4. ASSUME CompletePasswordReset(u, r)
      PROVE  AccountsInv'
  <2> DEFINE new == [acct[u] EXCEPT !.must = FALSE]
  <2>1. new \in Account /\ new.email = acct[u].email
      BY <1>0 DEF Account
  <2>2. acct' = [acct EXCEPT ![u] = new] /\ Revoke(u, FALSE) /\ UNCHANGED pend
      BY <1>4 DEF CompletePasswordReset
  <2>3. \A v \in User \ {u} : acct[v].email = new.email => new.email = None
      BY <2>1 DEF AddressesDistinct
  <2> HIDE DEF new
  <2> QED
      BY <2>1, <2>2, <2>3, RevokedKeeps
<1>5. ASSUME WrongBindingCode(u, r)
      PROVE  AccountsInv'
    BY <1>5, KindIsRow, WrongKeeps DEF WrongBindingCode, Verifiable
<1>6. ASSUME WrongResetCode(u, r)
      PROVE  AccountsInv'
    BY <1>6, KindIsRow, WrongKeeps DEF WrongResetCode, Resettable
<1> QED
    BY <1>1, <1>2, <1>3, <1>4, <1>5, <1>6 DEF RequestStep

-----------------------------------------------------------------------------
\* Steps that leave the address of a user and the requests, but for their age.
LEMMA AgedKeeps ==
    ASSUME AccountsInv, NEW u \in User, NEW new \in Account,
           acct' = [acct EXCEPT ![u] = new], acct[u] # Absent, new # Absent,
           new.email = acct[u].email, UNCHANGED pend,
           sess' \in [User -> BOOLEAN], \A v \in User \ {u} : sess'[v] = sess[v],
           sess'[u] => new.status = "active",
           row' \in [Request -> Row \cup {NoRow}],
           \A r \in Request : /\ row'[r] = NoRow <=> row[r] = NoRow
                              /\ row'[r].kind = row[r].kind /\ row'[r].user = row[r].user
                              /\ row'[r].to = row[r].to /\ row'[r].from = row[r].from,
           \A r \in Request : row'[r].aged => row[r].aged \/ row[r].user = u,
           acct[u].must => new.must,
           \A r \in Request : row'[r] # NoRow /\ row[r].user = u /\ row'[r].aged => new.must
    PROVE  AccountsInv'
<1> USE DEF AccountsInv
<1>1. acct'[u] = new /\ \A v \in User : v # u => acct'[v] = acct[v]
    BY DEF TypeOK
<1>2. TypeOK'
    BY DEF TypeOK
<1>3. AddressesDistinct'
    BY <1>1 DEF AddressesDistinct
<1>4. OneOpenEach'
    BY DEF OneOpenEach
<1>5. RequestsAreCurrent'
  <2> SUFFICES ASSUME NEW r \in Request, row'[r] # NoRow
               PROVE  /\ acct'[row'[r].user] # Absent
                      /\ row'[r].aged => acct'[row'[r].user].must
                      /\ row'[r].kind = "bind" => /\ row'[r].from = acct'[row'[r].user].email
                                                  /\ row'[r].to # acct'[row'[r].user].email
                      /\ row'[r].kind = "password_reset" => row'[r].to = acct'[row'[r].user].email
      BY DEF RequestsAreCurrent
  <2>1. row[r] # NoRow /\ row[r].user \in User
      BY RowFields
  <2>2. CASE row[r].user = u
      BY <1>1, <2>1, <2>2 DEF RequestsAreCurrent
  <2>3. CASE row[r].user # u
      BY <1>1, <2>1, <2>3 DEF RequestsAreCurrent
  <2> QED
      BY <2>2, <2>3
<1>6. SessionsOfActive'
    BY <1>1 DEF SessionsOfActive, Active
<1> QED
    BY <1>2, <1>3, <1>4, <1>5, <1>6

LEMMA UserKeeps ==
    ASSUME AccountsInv, NEW u \in User, UserStep(u)
    PROVE  AccountsInv'
<1> USE DEF AccountsInv
<1>0. acct[u] \in Account /\ acct = [acct EXCEPT ![u] = acct[u]]
    BY DEF TypeOK
<1>1. ASSUME NEW must \in BOOLEAN, CreateUser(u, must)
      PROVE  AccountsInv'
  <2> DEFINE new == [status |-> "active", email |-> None, must |-> must]
  <2>1. new \in Account /\ new.email = None /\ new.status = "active"
      BY DEF Account
  <2>2. acct'[u] = new /\ \A v \in User : v # u => acct'[v] = acct[v]
      BY <1>1 DEF CreateUser, TypeOK
  <2>3. TypeOK'
      BY <1>1, <2>1 DEF CreateUser, TypeOK
  <2>4. \A r \in Request : row[r] # NoRow => row[r].user # u /\ row[r].user \in User
      BY <1>1, RowFields DEF CreateUser, RequestsAreCurrent
  <2>5. AddressesDistinct' /\ SessionsOfActive'
      BY <1>1, <2>1, <2>2 DEF CreateUser, AddressesDistinct, SessionsOfActive, Active
  <2>6. RequestsAreCurrent'
      BY <1>1, <2>2, <2>4 DEF CreateUser, RequestsAreCurrent
  <2> QED
      BY <1>1, <2>3, <2>5, <2>6 DEF CreateUser, OneOpenEach
<1>2. ASSUME Login(u) \/ SessionEnds(u)
      PROVE  AccountsInv'
  <2>1. /\ UNCHANGED <<acct, row, pend>> /\ sess' \in [User -> BOOLEAN]
        /\ \A v \in User : sess'[v] => sess[v] \/ Active(v)
      BY <1>2 DEF Login, SessionEnds, TypeOK
  <2>2. SessionsOfActive'
      BY <2>1 DEF SessionsOfActive, Active
  <2> QED
      BY <2>1, <2>2 DEF TypeOK, AddressesDistinct, OneOpenEach, RequestsAreCurrent
<1>3. ASSUME NEW kept \in BOOLEAN, ChangePassword(u, kept)
      PROVE  AccountsInv'
  <2> DEFINE new == [acct[u] EXCEPT !.must = FALSE]
  <2>1. new \in Account /\ new.email = acct[u].email /\ new.status = "active"
      BY <1>0, <1>3 DEF Account, ChangePassword, SignedIn, Active
  <2>2. acct' = [acct EXCEPT ![u] = new] /\ Revoke(u, kept) /\ UNCHANGED pend
      BY <1>3 DEF ChangePassword
  <2>3. \A v \in User \ {u} : acct[v].email = new.email => new.email = None
      BY <2>1 DEF AddressesDistinct
  <2> HIDE DEF new
  <2> QED
      BY <2>1, <2>2, <2>3, RevokedKeeps
<1>4. ASSUME ChangeUsername(u)
      PROVE  AccountsInv'
  <2>1. acct' = [acct EXCEPT ![u] = acct[u]] /\ Revoke(u, FALSE) /\ UNCHANGED pend
      BY <1>0, <1>4 DEF ChangeUsername
  <2>2. \A v \in User \ {u} : acct[v].email = acct[u].email => acct[u].email = None
      BY DEF AddressesDistinct
  <2> QED
      BY <1>0, <2>1, <2>2, RevokedKeeps
<1>5. ASSUME Delete(u)
      PROVE  AccountsInv'
  <2>1. Absent \in Account /\ Absent.email = None
      BY DEF Absent, Account
  <2>2. acct' = [acct EXCEPT ![u] = Absent] /\ Revoke(u, FALSE) /\ UNCHANGED pend
      BY <1>5 DEF Delete
  <2> QED
      BY <2>1, <2>2, RevokedKeeps
<1>6. ASSUME ResetPassword(u)
      PROVE  AccountsInv'
  <2> DEFINE new == [acct[u] EXCEPT !.must = TRUE]
  <2>1. /\ new \in Account /\ new.email = acct[u].email /\ new.must = TRUE
        /\ acct[u] # Absent /\ new # Absent
      BY <1>0, <1>6 DEF Account, ResetPassword, Absent
  <2>2. acct' = [acct EXCEPT ![u] = new] /\ UNCHANGED pend
      BY <1>6 DEF ResetPassword
  <2>3. /\ sess' \in [User -> BOOLEAN] /\ sess'[u] = FALSE
        /\ \A v \in User \ {u} : sess'[v] = sess[v]
      BY <1>6 DEF ResetPassword, RevokeSessions, TypeOK
  <2>4. ASSUME NEW r \in Request
        PROVE  /\ row'[r] \in Row \cup {NoRow}
               /\ row'[r] = NoRow <=> row[r] = NoRow
               /\ row'[r].kind = row[r].kind /\ row'[r].user = row[r].user
               /\ row'[r].to = row[r].to /\ row'[r].from = row[r].from
               /\ row'[r].aged => row[r].aged \/ row[r].user = u
    <3>1. CASE row[r] = NoRow
        BY <1>6, <3>1 DEF ResetPassword, RevokeSessions, NoRow
    <3>2. CASE row[r] # NoRow /\ row[r].user # u
        BY <1>6, <3>2 DEF ResetPassword, RevokeSessions, TypeOK
    <3>3. CASE row[r] # NoRow /\ row[r].user = u
      <4>1. row[r] \in Row
          BY <3>3, RowFields
      <4>2. row'[r] = [row[r] EXCEPT !.aged = TRUE]
          BY <1>6, <3>3 DEF ResetPassword, RevokeSessions
      <4>3. /\ row'[r] \in Row /\ row'[r].kind = row[r].kind /\ row'[r].user = row[r].user
            /\ row'[r].to = row[r].to /\ row'[r].from = row[r].from
          BY <4>1, <4>2 DEF Row
      <4>4. row'[r] # NoRow
          BY <4>3 DEF Row, NoRow
      <4> QED
          BY <3>3, <4>3, <4>4
    <3> QED
        BY <3>1, <3>2, <3>3
  <2>5. row' \in [Request -> Row \cup {NoRow}]
      BY <1>6, <2>4 DEF ResetPassword, RevokeSessions
  <2> HIDE DEF new
  <2>6. \A r \in Request : /\ row'[r] = NoRow <=> row[r] = NoRow
                           /\ row'[r].kind = row[r].kind /\ row'[r].user = row[r].user
                           /\ row'[r].to = row[r].to /\ row'[r].from = row[r].from
      BY <2>4
  <2>7. \A r \in Request : row'[r].aged => row[r].aged \/ row[r].user = u
      BY <2>4
  <2>8. /\ sess'[u] => new.status = "active"
        /\ acct[u].must => new.must
        /\ \A r \in Request : row'[r] # NoRow /\ row[r].user = u /\ row'[r].aged => new.must
      BY <2>1, <2>3
  <2> QED
      BY <2>1, <2>2, <2>3, <2>5, <2>6, <2>7, <2>8, AgedKeeps
<1>7. ASSUME NEW s \in {"active", "disabled"}, acct[u] # Absent,
             acct' = [acct EXCEPT ![u].status = s], UNCHANGED <<row, pend>>,
             sess' \in [User -> BOOLEAN], \A v \in User \ {u} : sess'[v] = sess[v],
             sess'[u] => s = "active"
      PROVE  AccountsInv'
  <2> DEFINE new == [acct[u] EXCEPT !.status = s]
  <2>1. /\ new \in Account /\ new.email = acct[u].email /\ new.must = acct[u].must
        /\ new.status = s /\ new # Absent
      BY <1>0 DEF Account, Absent
  <2>2. acct' = [acct EXCEPT ![u] = new]
      BY <1>7
  <2>3. row' \in [Request -> Row \cup {NoRow}]
      BY <1>7 DEF TypeOK
  <2>4. \A r \in Request : row[r] # NoRow /\ row[r].user = u /\ row[r].aged => acct[u].must
      BY DEF RequestsAreCurrent
  <2> HIDE DEF new
  <2>5. \A r \in Request : /\ row'[r] = NoRow <=> row[r] = NoRow
                           /\ row'[r].kind = row[r].kind /\ row'[r].user = row[r].user
                           /\ row'[r].to = row[r].to /\ row'[r].from = row[r].from
      BY <1>7
  <2>6. \A r \in Request : row'[r].aged => row[r].aged \/ row[r].user = u
      BY <1>7
  <2>7. \A r \in Request : row'[r] # NoRow /\ row[r].user = u /\ row'[r].aged => new.must
      BY <1>7, <2>1, <2>4
  <2>8. (sess'[u] => new.status = "active") /\ (acct[u].must => new.must)
      BY <1>7, <2>1
  <2> QED
      BY <1>7, <2>1, <2>2, <2>3, <2>5, <2>6, <2>7, <2>8, AgedKeeps
<1>8. ASSUME Disable(u)
      PROVE  AccountsInv'
  <2>1. /\ acct[u] # Absent /\ acct' = [acct EXCEPT ![u].status = "disabled"]
        /\ UNCHANGED <<row, pend>> /\ sess' \in [User -> BOOLEAN]
        /\ sess'[u] = FALSE /\ \A v \in User \ {u} : sess'[v] = sess[v]
      BY <1>8 DEF Disable, Active, Absent, TypeOK
  <2> QED
      BY <1>7, <2>1
<1>9. ASSUME Enable(u)
      PROVE  AccountsInv'
  <2>1. /\ acct[u] # Absent /\ acct' = [acct EXCEPT ![u].status = "active"]
        /\ UNCHANGED <<row, pend>> /\ sess' \in [User -> BOOLEAN]
        /\ \A v \in User \ {u} : sess'[v] = sess[v]
      BY <1>9 DEF Enable, Absent, TypeOK
  <2> QED
      BY <1>7, <2>1
<1> QED
    BY <1>1, <1>2, <1>3, <1>4, <1>5, <1>6, <1>8, <1>9 DEF UserStep

LEMMA StepKeeps == AccountsInv /\ [Next]_vars => AccountsInv'
<1> SUFFICES ASSUME AccountsInv, [Next]_vars PROVE AccountsInv'
    OBVIOUS
<1>1. ASSUME UNCHANGED vars PROVE AccountsInv'
    BY <1>1 DEF vars, AccountsInv, TypeOK, AddressesDistinct, OneOpenEach, RequestsAreCurrent,
        SessionsOfActive, Active
<1>2. ASSUME NEW p \in Pending, PendingStep(p) PROVE AccountsInv'
    BY <1>2, PendingKeeps
<1>3. ASSUME NEW u \in User, NEW r \in Request, RequestStep(u, r) PROVE AccountsInv'
    BY <1>3, RequestKeeps
<1>4. ASSUME NEW r \in Request, RequestExpires(r) PROVE AccountsInv'
    BY <1>4, ExpiryKeeps
<1>5. ASSUME NEW u \in User, UserStep(u) PROVE AccountsInv'
    BY <1>5, UserKeeps
<1> QED
    BY <1>1, <1>2, <1>3, <1>4, <1>5 DEF Next

\* However the calls of any number of users cross: no two users have one
\* address, a user has one open code of a kind, none is good for anything once
\* his credentials have changed, and who is disabled is signed out
\* (services/profiles.py:79, email_verification.py:340, users.py:95).
THEOREM AccountsInductive == Spec => []AccountsInv
    BY InitHolds, StepKeeps, PTL DEF Spec

-----------------------------------------------------------------------------
\* Nothing but these three adds to the wrong codes of a registration or to the
\* codes it is sent.
LEMMA PendingOnly ==
    ASSUME AccountsInv, [Next]_vars, NEW p \in Pending, pend'[p] # pend[p], pend'[p] # NoPending
    PROVE  \/ \E a \in Address : StartRegistration(p, a)
           \/ ResendRegistration(p) \/ WrongRegistrationCode(p) \/ CodeExpires(p)
<1> USE DEF AccountsInv
<1>1. ASSUME UNCHANGED vars PROVE FALSE
    BY <1>1 DEF vars
<1>2. ASSUME NEW q \in Pending, PendingStep(q)
      PROVE  \/ \E a \in Address : StartRegistration(p, a)
             \/ ResendRegistration(p) \/ WrongRegistrationCode(p) \/ CodeExpires(p)
  <2>1. q = p /\ ~PendingExpires(p) /\ \A u \in User : ~VerifyRegistration(p, u)
      BY <1>2 DEF PendingStep, StartRegistration, VerifyRegistration, ResendRegistration,
          WrongRegistrationCode, CodeExpires, PendingExpires, TypeOK
  <2> QED
      BY <1>2, <2>1 DEF PendingStep
<1>3. ASSUME NEW u \in User, NEW r \in Request, RequestStep(u, r) PROVE FALSE
    BY <1>3 DEF RequestStep, StartBinding, VerifyBinding, WrongBindingCode, WrongCode,
        StartPasswordReset, CompletePasswordReset, WrongResetCode
<1>4. ASSUME NEW r \in Request, RequestExpires(r) PROVE FALSE
    BY <1>4 DEF RequestExpires
<1>5. ASSUME NEW u \in User, UserStep(u) PROVE FALSE
    BY <1>5 DEF UserStep, CreateUser, SessionEnds, ChangePassword, Login, ChangeUsername,
        ResetPassword, Disable, Enable, Delete
<1> QED
    BY <1>1, <1>2, <1>3, <1>4, <1>5 DEF Next

\* What was given wrong and what the valid code still takes are what was sent.
GuessesLeft ==
    \A p \in Pending : pend[p] # NoPending =>
        pend[p].wrong + (MaxAttempts - pend[p].fails) <= MaxAttempts * pend[p].sends

LEMMA OneMoreCode == \A n \in Nat : MaxAttempts * (n + 1) = MaxAttempts * n + MaxAttempts
    OBVIOUS

LEMMA GuessesKept == AccountsInv /\ GuessesLeft /\ [Next]_vars => GuessesLeft'
<1> SUFFICES ASSUME AccountsInv, GuessesLeft, [Next]_vars,
                    NEW p \in Pending, pend'[p] # NoPending
             PROVE  pend'[p].wrong + (MaxAttempts - pend'[p].fails) <= MaxAttempts * pend'[p].sends
    BY DEF GuessesLeft
<1>0. TypeOK
    BY DEF AccountsInv
<1>1. CASE pend'[p] = pend[p]
    BY <1>1 DEF GuessesLeft
<1>2. ASSUME NEW a \in Address, StartRegistration(p, a)
      PROVE  pend'[p].wrong + (MaxAttempts - pend'[p].fails) <= MaxAttempts * pend'[p].sends
  <2>1. pend'[p].wrong = 0 /\ pend'[p].fails = 0 /\ pend'[p].sends = 1
      BY <1>0, <1>2 DEF StartRegistration, TypeOK
  <2> QED
      BY <2>1
<1>3. ASSUME ResendRegistration(p) \/ WrongRegistrationCode(p) \/ CodeExpires(p)
      PROVE  pend'[p].wrong + (MaxAttempts - pend'[p].fails) <= MaxAttempts * pend'[p].sends
  <2>0. pend[p] \in Registration /\ pend[p] # NoPending
      BY <1>0, <1>3 DEF ResendRegistration, WrongRegistrationCode, CodeExpires, TypeOK, NoPending
  <2>1. /\ pend[p].fails \in 0..MaxAttempts /\ pend[p].sends \in Nat /\ pend[p].wrong \in Nat
        /\ MaxAttempts * pend[p].sends \in Nat
        /\ pend[p].wrong + (MaxAttempts - pend[p].fails) <= MaxAttempts * pend[p].sends
      BY <2>0 DEF Registration, GuessesLeft
  <2>2. CASE ResendRegistration(p)
    <3>1. /\ pend'[p].wrong = pend[p].wrong /\ pend'[p].fails = 0
          /\ pend'[p].sends = pend[p].sends + 1
        BY <1>0, <2>2 DEF ResendRegistration, TypeOK
    <3>2. MaxAttempts * pend'[p].sends = MaxAttempts * pend[p].sends + MaxAttempts
        BY <2>1, <3>1, OneMoreCode
    <3> QED
        BY <2>1, <3>1, <3>2
  <2>3. CASE WrongRegistrationCode(p)
    <3>1. /\ pend'[p].wrong = pend[p].wrong + 1 /\ pend'[p].fails = pend[p].fails + 1
          /\ pend'[p].sends = pend[p].sends
        BY <1>0, <2>0, <2>3 DEF WrongRegistrationCode, TypeOK, Registration
    <3> QED
        BY <2>1, <3>1
  <2>4. CASE CodeExpires(p)
    <3>1. /\ pend'[p].wrong = pend[p].wrong /\ pend'[p].fails = pend[p].fails
          /\ pend'[p].sends = pend[p].sends
        BY <1>0, <2>0, <2>4 DEF CodeExpires, TypeOK, Registration
    <3> QED
        BY <2>1, <3>1
  <2> QED
      BY <1>3, <2>2, <2>3, <2>4
<1> QED
    BY <1>1, <1>2, <1>3, PendingOnly

LEMMA LeftMeansBound == AccountsInv /\ GuessesLeft => GuessesBound
<1> SUFFICES ASSUME AccountsInv, GuessesLeft, NEW p \in Pending
             PROVE  pend[p].wrong <= MaxAttempts * pend[p].sends /\ pend[p].sends <= MaxSends
    BY DEF GuessesBound
<1>1. CASE pend[p] = NoPending
    BY <1>1 DEF NoPending
<1>2. CASE pend[p] # NoPending
  <2>1. pend[p] \in Registration
      BY <1>2 DEF AccountsInv, TypeOK
  <2>2. /\ pend[p].fails \in 0..MaxAttempts /\ pend[p].sends \in 1..MaxSends
        /\ pend[p].wrong \in Nat /\ MaxAttempts * pend[p].sends \in Nat
        /\ pend[p].wrong + (MaxAttempts - pend[p].fails) <= MaxAttempts * pend[p].sends
      BY <1>2, <2>1 DEF Registration, GuessesLeft
  <2> QED
      BY <2>2
<1> QED
    BY <1>1, <1>2

\* A registration is guessed at no more often than its codes allow together,
\* however new codes and wrong guesses alternate (email_verification.py:192).
THEOREM GuessesAreBounded == Spec => []GuessesBound
<1>1. Init => GuessesLeft
    BY DEF Init, GuessesLeft
<1> QED
    BY <1>1, AccountsInductive, GuessesKept, LeftMeansBound, PTL DEF Spec

\* What a change of one field of one user leaves of the others.
LEMMA FieldsKept ==
    ASSUME TypeOK, NEW u \in User, NEW v \in User
    PROVE  /\ \A b : acct' = [acct EXCEPT ![v].must = b] =>
                acct'[u].email = acct[u].email /\ (acct[u].must => acct'[u].must \/ ~b)
           /\ \A s : acct' = [acct EXCEPT ![v].status = s] =>
                acct'[u].email = acct[u].email /\ acct'[u].must = acct[u].must
           /\ \A a : acct' = [acct EXCEPT ![v].email = a] => acct'[u].must = acct[u].must
<1>1. acct[u] \in Account /\ acct[v] \in Account
    BY DEF TypeOK
<1>2. CASE u = v
    BY <1>1, <1>2 DEF TypeOK, Account
<1>3. CASE u # v
    BY <1>1, <1>3 DEF TypeOK
<1> QED
    BY <1>2, <1>3

\* Nobody but the user himself, from the address he has, replaces his address
\* (email_verification.py:327-348).
THEOREM AddressesReplacedInPerson == Spec => ReplacedInPerson
<1> DEFINE Made(u) ==
        \E r \in Request :
            /\ row[r].kind = "bind" /\ row[r].user = u /\ row[r].to = acct'[u].email
            /\ row[r].from = acct[u].email /\ row[r].fails < MaxAttempts
<1>1. ASSUME AccountsInv, Next, NEW u \in User,
             acct'[u].email # acct[u].email, acct[u] # Absent, acct'[u] # Absent
      PROVE  Made(u)
  <2>0. TypeOK /\ acct[u] \in Account
      BY <1>1 DEF AccountsInv, TypeOK
  <2>1. ASSUME NEW p \in Pending, PendingStep(p) PROVE FALSE
      BY <1>1, <2>0, <2>1 DEF PendingStep, StartRegistration, VerifyRegistration,
          ResendRegistration, WrongRegistrationCode, CodeExpires, PendingExpires, TypeOK
  <2>2. ASSUME NEW v \in User, NEW r \in Request, RequestStep(v, r) PROVE Made(u)
    <3>1. VerifyBinding(v, r)
      <4>1. ~CompletePasswordReset(v, r)
          BY <1>1, <2>0, FieldsKept DEF CompletePasswordReset
      <4> QED
          BY <1>1, <2>2, <4>1 DEF RequestStep, StartBinding, WrongBindingCode, WrongCode,
              StartPasswordReset, WrongResetCode
    <3>2. v = u /\ acct'[u].email = row[r].to
        BY <1>1, <2>0, <3>1 DEF VerifyBinding, TypeOK, Account
    <3> QED
        BY <3>1, <3>2 DEF VerifyBinding, Verifiable
  <2>3. ASSUME NEW r \in Request, RequestExpires(r) PROVE FALSE
      BY <1>1, <2>3 DEF RequestExpires
  <2>4. ASSUME NEW v \in User, UserStep(v) PROVE FALSE
    <3>1. ~\E must \in BOOLEAN : CreateUser(v, must)
        BY <1>1, <2>0 DEF CreateUser, TypeOK
    <3>2. ~Delete(v)
        BY <1>1, <2>0 DEF Delete, TypeOK
    <3>3. ~\E kept \in BOOLEAN : ChangePassword(v, kept)
        BY <1>1, <2>0, FieldsKept DEF ChangePassword
    <3>4. ~ResetPassword(v) /\ ~Disable(v) /\ ~Enable(v)
        BY <1>1, <2>0, FieldsKept DEF ResetPassword, Disable, Enable
    <3> QED
        BY <1>1, <2>4, <3>1, <3>2, <3>3, <3>4 DEF UserStep, SessionEnds, Login, ChangeUsername
  <2> QED
      BY <1>1, <2>1, <2>2, <2>3, <2>4 DEF Next
<1>2. AccountsInv /\ [Next]_vars =>
        [\A u \in User :
            acct'[u].email # acct[u].email /\ acct[u] # Absent /\ acct'[u] # Absent => Made(u)]_vars
    BY <1>1
<1> QED
    BY <1>2, AccountsInductive, PTL DEF Spec, ReplacedInPerson

\* A password the administrator set gives way only to the user: signed in, or
\* with a code sent to an address that is his alone (email_verification.py:484-503).
THEOREM PasswordsReplacedByOwner == Spec => ReplacedByOwner
<1> DEFINE Owner(u) ==
        \/ sess[u]
        \/ \E r \in Request :
            /\ row[r].kind = "password_reset" /\ row[r].user = u /\ row[r].fails < MaxAttempts
            /\ Holder(row[r].to) = {u}
<1>1. ASSUME AccountsInv, Next, NEW u \in User, acct[u].must, ~acct'[u].must, acct'[u] # Absent
      PROVE  Owner(u)
  <2>0. /\ TypeOK /\ acct[u] \in Account /\ acct[u] # Absent /\ acct'[u] # acct[u]
      BY <1>1 DEF AccountsInv, TypeOK, Absent
  <2>1. ASSUME NEW p \in Pending, PendingStep(p) PROVE FALSE
      BY <1>1, <2>0, <2>1 DEF PendingStep, StartRegistration, VerifyRegistration,
          ResendRegistration, WrongRegistrationCode, CodeExpires, PendingExpires, TypeOK
  <2>2. ASSUME NEW v \in User, NEW r \in Request, RequestStep(v, r) PROVE Owner(u)
    <3>1. CompletePasswordReset(v, r)
      <4>1. ~VerifyBinding(v, r)
        <5> SUFFICES ASSUME VerifyBinding(v, r) PROVE FALSE
            OBVIOUS
        <5>1. acct' = [acct EXCEPT ![v].email = row[r].to]
            BY DEF VerifyBinding
        <5>2. acct'[u].must = acct[u].must
            BY <2>0, <5>1, FieldsKept
        <5> QED
            BY <1>1, <5>2
      <4> QED
          BY <1>1, <2>0, <2>2, <4>1 DEF RequestStep, StartBinding, WrongBindingCode, WrongCode,
              StartPasswordReset, WrongResetCode
    <3>2. v = u
        BY <2>0, <3>1 DEF CompletePasswordReset, TypeOK
    <3>3. /\ row[r].kind = "password_reset" /\ row[r].user = u /\ row[r].fails < MaxAttempts
          /\ acct[u].email = row[r].to
        BY <3>1, <3>2 DEF CompletePasswordReset, Resettable
    <3>4. row[r].to \in Address
        BY <2>0, <3>3, KindIsRow, RowFields
    <3>5. Holder(row[r].to) = {u}
        BY <1>1, <3>3, <3>4 DEF Holder, AccountsInv, AddressesDistinct
    <3> QED
        BY <3>3, <3>5
  <2>3. ASSUME NEW r \in Request, RequestExpires(r) PROVE FALSE
      BY <2>0, <2>3 DEF RequestExpires
  <2>4. ASSUME NEW v \in User, UserStep(v) PROVE Owner(u)
    <3>1. ~\E must \in BOOLEAN : CreateUser(v, must)
        BY <2>0 DEF CreateUser, TypeOK
    <3>2. ~Delete(v)
        BY <1>1, <2>0 DEF Delete, TypeOK
    <3>3. ~ResetPassword(v) /\ ~Disable(v) /\ ~Enable(v)
        BY <1>1, <2>0, FieldsKept DEF ResetPassword, Disable, Enable
    <3>4. \E kept \in BOOLEAN : ChangePassword(v, kept)
        BY <2>0, <2>4, <3>1, <3>2, <3>3 DEF UserStep, SessionEnds, Login, ChangeUsername
    <3>5. v = u /\ sess[u]
        BY <2>0, <3>4 DEF ChangePassword, SignedIn, TypeOK
    <3> QED
        BY <3>5
  <2> QED
      BY <1>1, <2>1, <2>2, <2>3, <2>4 DEF Next
<1>2. AccountsInv /\ [Next]_vars =>
        [\A u \in User : acct[u].must /\ ~acct'[u].must /\ acct'[u] # Absent => Owner(u)]_vars
    BY <1>1
<1> QED
    BY <1>2, AccountsInductive, PTL DEF Spec, ReplacedByOwner
=============================================================================
