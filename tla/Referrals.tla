----------------------------- MODULE Referrals -----------------------------
(***************************************************************************)
(* Invitations and the days both sides are rewarded with                   *)
(* (services/referrals.py, services/invites.py, web/referral_routes.py,    *)
(* douyin_referral_identity.py).  The ledgers of addresses and of Douyin   *)
(* identities remember who was first, also after the user was deleted.     *)
(* Each handler is one transaction under ReferralLock; one that reviews a  *)
(* user more than once, or his friends too, takes steps of its own here,   *)
(* between which nothing else moves.  Invitations of administrators, the   *)
(* twenty codes a day and the reason shown for a wait are left out.        *)
(***************************************************************************)
EXTENDS Users, Integers, FiniteSets, Functions

CONSTANTS
    Address,       \* e-mail addresses
    Douyin,        \* platform_user_ids
    Cap,           \* days a user is rewarded with at most
    FreeCodes,     \* codes a user makes before a Douyin account of his is verified
    MaxCodes,      \* a bound on the codes of all users
    MaxMoves       \* a bound on changes of address and deletions

ASSUME LimitsAssumption == Cap \in Nat /\ FreeCodes \in Nat /\ MaxCodes \in Nat /\ MaxMoves \in Nat
ASSUME LedgersAssumption == None \notin Address /\ None \notin Douyin

VARIABLES
    member,        \* User: whether it is there, or gone
    email,         \* the verified address
    firstEmail,    \* VerifiedQQ
    bound,         \* the identities of a user's valid Douyin accounts
    firstDouyin,   \* VerifiedDouyin
    codes,         \* ReferralCode: how many a user made
    inviter,       \* Referral
    stage,         \* Referral and ReferralReceipt: what a friend was rewarded for
    total,         \* the days of all the receipts of a user
    moves,         \* changes of address and deletions so far
    todo           \* what the transaction under way has still to review

people == <<member, email, bound, firstDouyin>>
rewards == <<firstEmail, stage, total>>
referralVars == <<people, rewards, codes, inviter, moves, todo>>

Nothing == [user |-> None, to |-> None, friends |-> {}]
Quiet == todo = Nothing

Invited(u) == {f \in User : inviter[f] = u}
Rewarded(u) == {f \in Invited(u) : stage[f] = "rewarded"}
Free(a) == \A u \in User : email[u] # a
CodesMade == FoldFunction(LAMBDA m, n : m + n, 0, codes)

Minimum(a, b) == IF a <= b THEN a ELSE b

\* reward_tier
Tier(n) == Minimum(30, IF n < 3 THEN 9 + n ELSE 14 + (n - 3) * 3)
Registered == 5

\* douyin_state: no identity that is not his own, and one that is.
DouyinVerified(u) == bound[u] # {} /\ \A p \in bound[u] : firstDouyin[p] = u

-----------------------------------------------------------------------------
\* What verified(u) does, in a step that has set the members, their addresses
\* and who invited whom.
Seen(first, u) ==
    IF email'[u] # None /\ first[email'[u]] = None THEN [first EXCEPT ![email'[u]] = u] ELSE first

IsFirst(first, u) == email'[u] # None /\ first[email'[u]] = u

\* credit_stage, for the two of them.
Credit(days, u, d) ==
    [v \in User |-> IF v \in {u, inviter'[u]} THEN days[v] + Minimum(d, Cap - days[v]) ELSE days[v]]

\* How far a review gets as other components have it: one of the two is disabled,
\* or has no initial grant to extend; or no task of the friend is at work, which
\* is enabled, for such an account of his, and within his quota; or one is.
Reach == {"disabled", "no_grant", "no_task", "task"}

Considered(u, reach) ==
    /\ stage[u] # "rewarded" /\ inviter'[u] # None
    /\ IsFirst(Seen(firstEmail, u), u)
    /\ member'[inviter'[u]] = "member" /\ reach # "disabled"

Ledger(u, reach) ==
    IF Considered(u, reach) THEN Seen(Seen(firstEmail, u), inviter'[u]) ELSE Seen(firstEmail, u)

Registers(u, reach) ==
    /\ Considered(u, reach)
    /\ IsFirst(Ledger(u, reach), inviter'[u])
    /\ reach # "no_grant"

Activates(u, reach) == Registers(u, reach) /\ DouyinVerified(u) /\ reach = "task"

\* Faulty: a review forgets that the registration was rewarded.
VerifiedAgain(u, reach) ==
    LET once == IF Registers(u, reach) THEN Credit(total, u, Registered) ELSE total
        tier == Tier(Cardinality(Rewarded(inviter'[u])))
    IN
    /\ firstEmail' = Ledger(u, reach)
    /\ stage' = [stage EXCEPT ![u] = IF Activates(u, reach) THEN "rewarded"
                                     ELSE IF Registers(u, reach) THEN "registered" ELSE @]
    /\ total' = IF Activates(u, reach) THEN Credit(once, u, tier - Registered) ELSE once

Verified(u, reach) ==
    LET once == IF Registers(u, reach) /\ stage[u] = "none" THEN Credit(total, u, Registered) ELSE total
        tier == Tier(Cardinality(Rewarded(inviter'[u])))
    IN
    /\ firstEmail' = Ledger(u, reach)
    /\ stage' = [stage EXCEPT ![u] = IF Activates(u, reach) THEN "rewarded"
                                     ELSE IF Registers(u, reach) THEN "registered" ELSE @]
    /\ total' = IF Activates(u, reach) THEN Credit(once, u, tier - Registered) ELSE once

-----------------------------------------------------------------------------
ReferralInit ==
    /\ member = [u \in User |-> "none"] /\ email = [u \in User |-> None]
    /\ firstEmail = [a \in Address |-> None]
    /\ bound = [u \in User |-> {}] /\ firstDouyin = [p \in Douyin |-> None]
    /\ codes = [u \in User |-> 0]
    /\ inviter = [u \in User |-> None]
    /\ stage = [u \in User |-> "none"] /\ total = [u \in User |-> 0]
    /\ moves = 0 /\ todo = Nothing

\* Registration, with a code of i or none, or a user made by an administrator,
\* who has no address.  Registration by code without an address, where e-mail is
\* off, is left out.  A code that expires or is revoked is one never used.
Join(u, i, a, reach) ==
    /\ Quiet /\ member[u] = "none"
    /\ IF a = None THEN i = None ELSE Free(a)
    /\ i # None => Cardinality(Invited(i)) < codes[i]
    /\ member' = [member EXCEPT ![u] = "member"]
    /\ email' = [email EXCEPT ![u] = a]
    /\ inviter' = [inviter EXCEPT ![u] = i]
    /\ Verified(u, reach)
    /\ UNCHANGED <<bound, firstDouyin, codes, moves, todo>>

\* verify_binding reviews the user with the address he has ...
Rebind(u, a, reach) ==
    /\ Quiet /\ member[u] = "member" /\ Free(a)
    /\ moves < MaxMoves /\ moves' = moves + 1
    /\ UNCHANGED <<people, codes, inviter>>
    /\ Verified(u, reach)
    /\ todo' = [Nothing EXCEPT !.user = u, !.to = a]

\* ... and again with the new one.
Rebound(reach) ==
    /\ todo.to # None
    /\ email' = [email EXCEPT ![todo.user] = todo.to]
    /\ UNCHANGED <<member, bound, firstDouyin, codes, inviter, moves>>
    /\ Verified(todo.user, reach)
    /\ todo' = Nothing

\* review_bindings, of the pages of accounts, invitations and a finished scan.
Review(u, reach) ==
    /\ Quiet /\ member[u] = "member"
    /\ UNCHANGED <<people, codes, inviter, moves>>
    /\ Verified(u, reach)
    /\ todo' = [Nothing EXCEPT !.friends = {f \in Invited(u) : member[f] = "member" /\ stage[f] # "rewarded"}]

ReviewFriend(f, reach) ==
    /\ f \in todo.friends
    /\ UNCHANGED <<people, codes, inviter, moves>>
    /\ Verified(f, reach)
    /\ todo' = [todo EXCEPT !.friends = @ \ {f}]

\* _reward_activation: a task of his was made, changed or enabled.
TaskEnabled(u, reach) ==
    /\ Quiet /\ member[u] = "member"
    /\ UNCHANGED <<people, codes, inviter, moves, todo>>
    /\ Verified(u, reach)

-----------------------------------------------------------------------------
\* Faulty: any valid account will do.
CreateCodeUnread(u, reach) ==
    /\ Quiet /\ member[u] = "member" /\ email[u] # None
    /\ codes[u] >= FreeCodes => bound[u] # {}
    /\ CodesMade < MaxCodes
    /\ UNCHANGED <<people, inviter, moves, todo>>
    /\ Verified(u, reach)
    /\ firstEmail'[email[u]] = u
    /\ codes' = [codes EXCEPT ![u] = @ + 1]

\* create: an error undoes the review too, which the page then makes again.
CreateCode(u, reach) ==
    /\ Quiet /\ member[u] = "member" /\ email[u] # None
    /\ codes[u] >= FreeCodes => DouyinVerified(u)
    /\ CodesMade < MaxCodes
    /\ UNCHANGED <<people, inviter, moves, todo>>
    /\ Verified(u, reach)
    /\ firstEmail'[email[u]] = u
    /\ codes' = [codes EXCEPT ![u] = @ + 1]

\* Faulty: an identity belongs to whoever scanned it last.
ScanTakesOver(u, q, p) ==
    /\ Quiet /\ member[u] = "member"
    /\ q # None => q \in bound[u]
    /\ bound' = [bound EXCEPT ![u] = (@ \ {q}) \cup ({p} \ {None})]
    /\ firstDouyin' = IF p # None THEN [firstDouyin EXCEPT ![p] = u] ELSE firstDouyin
    /\ UNCHANGED <<member, email, rewards, codes, inviter, moves, todo>>

\* record_verified_binding: a scan of a new account, or again of the one of
\* identity q, with the identity p or with none that could be read.
Scan(u, q, p) ==
    /\ Quiet /\ member[u] = "member"
    /\ q # None => q \in bound[u]
    /\ bound' = [bound EXCEPT ![u] = (@ \ {q}) \cup ({p} \ {None})]
    /\ firstDouyin' = IF p # None /\ firstDouyin[p] = None THEN [firstDouyin EXCEPT ![p] = u]
                      ELSE firstDouyin
    /\ UNCHANGED <<member, email, rewards, codes, inviter, moves, todo>>

\* Its login expired, or the account was deleted.
LoseAccount(u, p) ==
    /\ Quiet /\ p \in bound[u]
    /\ bound' = [bound EXCEPT ![u] = @ \ {p}]
    /\ UNCHANGED <<member, email, firstDouyin, rewards, codes, inviter, moves, todo>>

Delete(u) ==
    /\ Quiet /\ member[u] = "member"
    /\ moves < MaxMoves /\ moves' = moves + 1
    /\ member' = [member EXCEPT ![u] = "gone"]
    /\ email' = [email EXCEPT ![u] = None]
    /\ bound' = [bound EXCEPT ![u] = {}]
    /\ UNCHANGED <<firstDouyin, rewards, codes, inviter, todo>>

ReferralNext ==
    \/ \E u \in User : \/ Delete(u)
                       \/ \E q, p \in Douyin \cup {None} : Scan(u, q, p)
                       \/ \E p \in Douyin : LoseAccount(u, p)
    \/ \E u \in User, reach \in Reach :
        \/ \E i \in User \cup {None}, a \in Address \cup {None} : Join(u, i, a, reach)
        \/ Review(u, reach) \/ ReviewFriend(u, reach)
        \/ TaskEnabled(u, reach) \/ CreateCode(u, reach)
        \/ \E a \in Address : Rebind(u, a, reach)
    \/ \E reach \in Reach : Rebound(reach)

ReferralSpec == ReferralInit /\ [][ReferralNext]_referralVars

-----------------------------------------------------------------------------
ReferralTypes ==
    /\ member \in [User -> {"none", "member", "gone"}]
    /\ email \in [User -> Address \cup {None}]
    /\ firstEmail \in [Address -> User \cup {None}]
    /\ bound \in [User -> SUBSET Douyin]
    /\ firstDouyin \in [Douyin -> User \cup {None}]
    /\ codes \in [User -> Nat]
    /\ inviter \in [User -> User \cup {None}]
    /\ stage \in [User -> {"none", "registered", "rewarded"}]
    /\ total \in [User -> 0..Cap]
    /\ moves \in Nat
    /\ todo \in [user : User \cup {None}, to : Address \cup {None}, friends : SUBSET User]

HasEmail(u) == \E a \in Address : firstEmail[a] = u
HasDouyin(u) == \E p \in Douyin : firstDouyin[p] = u

\* Who never came has left no trace.
Newcomer(u) ==
    /\ email[u] = None /\ inviter[u] = None /\ stage[u] = "none" /\ codes[u] = 0
    /\ bound[u] = {}

\* What is under way: a change of the address of a member to one that is
\* nobody's, or a review of friends that were invited.
Underway ==
    /\ todo.to # None => todo.user \in User /\ member[todo.user] = "member" /\ Free(todo.to)
    /\ todo.to = None => todo.user = None
    /\ \A f \in todo.friends : inviter[f] # None /\ member[f] = "member"

\* A friend is rewarded for a registration with an address, and for a Douyin
\* account, that were his before anybody's, and invited by somebody else whose
\* address was so too: whoever deletes accounts, scans again or changes addresses
\* is rewarded once for each of them (referrals.py:86-115, :149-163).
RewardsAreEarned ==
    \A f \in User :
        /\ stage[f] # "none" => /\ inviter[f] \in User \ {f}
                                /\ HasEmail(f) /\ HasEmail(inviter[f])
        /\ stage[f] = "rewarded" => HasDouyin(f)

\* However reviews, scans, changes of address and deletions follow each other,
\* no two members have one address, a change under way goes to one that is
\* nobody's, nobody invited himself, and rewards are earned (referrals.py:82-169).
ReferralInv ==
    /\ ReferralTypes
    /\ Underway
    /\ \A u \in User : member[u] = "none" => Newcomer(u)
    /\ \A u, v \in User : email[u] # None /\ email[u] = email[v] => u = v
    /\ \A u \in User : inviter[u] # u
    /\ RewardsAreEarned

\* Whoever made more than FreeCodes codes was the first with some Douyin account,
\* so that accounts of others and deleted ones buy nobody invitations
\* (referrals.py:185-186, douyin_referral_identity.py:28-42).
CodesAreEarned == \A u \in User : codes[u] > FreeCodes => HasDouyin(u)

TierSum[n \in 0..Cardinality(User)] == IF n = 0 THEN 0 ELSE TierSum[n - 1] + Tier(n - 1)

\* Whoever was not invited himself has, up to the cap, exactly the days of the
\* tiers in order, one for each rewarded friend, and those of registration for
\* each other: reviews of several friends at once, in any order, never give a
\* tier twice or leave one out (referrals.py:60-62, :125-142, :164-167, :200-205).
TiersInOrder ==
    \A u \in User : inviter[u] = None =>
        total[u] = Minimum(Cap, TierSum[Cardinality(Rewarded(u))]
                     + Registered * Cardinality({f \in Invited(u) : stage[f] = "registered"}))
=============================================================================
