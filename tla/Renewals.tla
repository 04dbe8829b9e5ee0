------------------------------ MODULE Renewals ------------------------------
(***************************************************************************)
(* Orders of task cards, the prices they are offered at and the promotions *)
(* they reserve (services/renewals.py, web/renewal_routes.py).  Users pay  *)
(* outside the system; an administrator compares and approves or rejects.  *)
(* Each handler is one transaction, which an error undoes: the "fulfilling"*)
(* of an approval is never seen.  Limits of submissions and of mails only  *)
(* refuse a call or leave out a mail, so they are left out.                *)
(***************************************************************************)
EXTENDS Users, Integers, FiniteSets

CONSTANTS
    Order,         \* rows of renewal_orders (a bound)
    Plan,          \* the keys of PLANS on offer
    Channel,       \* how to pay
    Grant,         \* grants of the users, which an order may extend
    OwnerOf,       \* Grant: whose it is
    MaxOpen        \* orders a user may have open

ASSUME OwnersAssumption == OwnerOf \in [Grant -> User]
ASSUME OrdersAssumption == IsFiniteSet(Order) /\ MaxOpen \in Nat

Promotion == {"first_year", "friend_year"}
ASSUME NoneAssumption == None \notin Order /\ None \notin Grant /\ None \notin Promotion

VARIABLES
    order,      \* RenewalOrder
    claim,      \* RenewalPromotionClaim of a user and a promotion
    fulfilled,  \* how often the days of an order were given
    active,     \* the users whose account is active
    single,     \* the grants that are single, limited and not revoked
    friends     \* the friends a user was rewarded for (Referrals)

vars == <<order, claim, fulfilled, active, single, friends>>

Annual == {"year", "year_friend"}
ASSUME PlansAssumption == Plan \subseteq {"month", "two_months", "quarter"} \cup Annual

NoClaim == [order |-> None, used |-> FALSE]

\* promotion is an observation: what the order was offered under.
Terms == [user : User, plan : Plan, channel : Channel, target : Grant \cup {None},
          price : Nat, promotion : Promotion \cup {None}]

Open == {"pending", "submitted"}
Made == {o \in Order : order[o].status # "none"}
Of(u) == {o \in Made : order[o].terms.user = u}
OpenOf(u) == {o \in Of(u) : order[o].status \in Open}

-----------------------------------------------------------------------------
\* catalog
AnnualBought(u) ==
    \E o \in Of(u) : order[o].terms.plan \in Annual /\ order[o].status = "approved"

FirstAvailable(u) == ~AnnualBought(u) /\ ~claim[u]["first_year"].used

ListPrice ==
    [month |-> 688, two_months |-> 1288, quarter |-> 1800, year |-> 8000, year_friend |-> 5808]
YearPrice == 6600

PromotionFor(u, plan) ==
    CASE plan = "year" /\ friends[u] = 0 /\ FirstAvailable(u) -> "first_year"
      [] plan = "year_friend" -> "friend_year"
      [] OTHER -> None

PriceFor(u, plan) ==
    IF plan = "year" /\ (friends[u] >= 1 \/ FirstAvailable(u)) THEN YearPrice ELSE ListPrice[plan]

\* Faulty: a promotion may be reserved again until it is used.
ReservedOnceUsed(u, plan) ==
    /\ PromotionFor(u, plan) # None
    /\ claim[u][PromotionFor(u, plan)].used

Reserved(u, plan) ==
    /\ PromotionFor(u, plan) # None
    /\ claim[u][PromotionFor(u, plan)] # NoClaim

Eligible(u, plan) == (plan = "year_friend" => friends[u] >= 2) /\ ~Reserved(u, plan)

Offer(u, plan, ch, g) ==
    [user |-> u, plan |-> plan, channel |-> ch, target |-> g,
     price |-> PriceFor(u, plan), promotion |-> PromotionFor(u, plan)]

\* _target
Extendable(u, g) == g \in single /\ OwnerOf[g] = u

Same(s, t) ==
    /\ s.user = t.user /\ s.plan = t.plan /\ s.channel = t.channel
    /\ s.target = t.target /\ s.price = t.price

-----------------------------------------------------------------------------
Init ==
    /\ order = [o \in Order |-> [status |-> "none", terms |-> None]]
    /\ claim = [u \in User |-> [p \in Promotion |-> NoClaim]]
    /\ fulfilled = [o \in Order |-> 0]
    /\ active = User /\ single = Grant
    /\ friends = [u \in User |-> 0]

\* Faulty: every click makes an order.
CreateAnew(u, plan, ch, g, o) ==
    LET terms == Offer(u, plan, ch, g) IN
    /\ u \in active /\ (g # None => Extendable(u, g))
    /\ Eligible(u, plan) /\ Cardinality(OpenOf(u)) < MaxOpen
    /\ order[o].status = "none"
    /\ order' = [order EXCEPT ![o] = [status |-> "pending", terms |-> terms]]
    /\ claim' = IF terms.promotion = None THEN claim
                ELSE [claim EXCEPT ![u][terms.promotion] = [order |-> o, used |-> FALSE]]
    /\ UNCHANGED <<fulfilled, active, single, friends>>

\* A click on a plan that is reserved, or ordered on the same terms and not
\* paid yet, leads to that order; only other clicks make one.
Create(u, plan, ch, g, o) ==
    LET terms == Offer(u, plan, ch, g) IN
    /\ u \in active
    /\ g # None => Extendable(u, g)
    /\ Eligible(u, plan)
    /\ ~ \E q \in OpenOf(u) : order[q].status = "pending" /\ Same(order[q].terms, terms)
    /\ Cardinality(OpenOf(u)) < MaxOpen
    /\ order[o].status = "none"
    /\ order' = [order EXCEPT ![o] = [status |-> "pending", terms |-> terms]]
    /\ claim' = IF terms.promotion = None THEN claim
                ELSE [claim EXCEPT ![u][terms.promotion] = [order |-> o, used |-> FALSE]]
    /\ UNCHANGED <<fulfilled, active, single, friends>>

Release(o) ==
    claim' = [u \in User |-> [p \in Promotion |->
                IF claim[u][p] = [order |-> o, used |-> FALSE] THEN NoClaim ELSE claim[u][p]]]

Cancel(o) ==
    /\ order[o].status = "pending" /\ order[o].terms.user \in active
    /\ order' = [order EXCEPT ![o].status = "cancelled"]
    /\ Release(o)
    /\ UNCHANGED <<fulfilled, active, single, friends>>

\* "I have paid".
Submit(o) ==
    /\ order[o].status = "pending" /\ order[o].terms.user \in active
    /\ order' = [order EXCEPT ![o].status = "submitted"]
    /\ UNCHANGED <<claim, fulfilled, active, single, friends>>

\* A new grant, or the target's with the days added to its end.
Approve(o) ==
    LET t == order[o].terms IN
    /\ order[o].status = "submitted" /\ t.user \in active
    /\ t.target # None => Extendable(t.user, t.target)
    /\ order' = [order EXCEPT ![o].status = "approved"]
    /\ claim' = [u \in User |-> [p \in Promotion |->
                    IF claim[u][p].order = o THEN [claim[u][p] EXCEPT !.used = TRUE] ELSE claim[u][p]]]
    /\ fulfilled' = [fulfilled EXCEPT ![o] = @ + 1]
    /\ UNCHANGED <<active, single, friends>>

\* Faulty: the reservation of a rejected order stays.
RejectReserved(o) ==
    /\ order[o].status = "submitted"
    /\ order' = [order EXCEPT ![o].status = "rejected"]
    /\ UNCHANGED <<claim, fulfilled, active, single, friends>>

Reject(o) ==
    /\ order[o].status = "submitted"
    /\ order' = [order EXCEPT ![o].status = "rejected"]
    /\ Release(o)
    /\ UNCHANGED <<fulfilled, active, single, friends>>

-----------------------------------------------------------------------------
SetActive(u) ==
    /\ active' = IF u \in active THEN active \ {u} ELSE active \cup {u}
    /\ UNCHANGED <<order, claim, fulfilled, single, friends>>

\* An administrator revokes or changes a grant, or changes it back.
GrantChanges(g) ==
    /\ single' = IF g \in single THEN single \ {g} ELSE single \cup {g}
    /\ UNCHANGED <<order, claim, fulfilled, active, friends>>

\* Referrals: counted up to two, the most it is compared with.
FriendRewarded(u) ==
    /\ friends[u] < 2
    /\ friends' = [friends EXCEPT ![u] = @ + 1]
    /\ UNCHANGED <<order, claim, fulfilled, active, single>>

OrderStep(o) ==
    \/ \E u \in User, plan \in Plan, ch \in Channel, g \in Grant \cup {None} : Create(u, plan, ch, g, o)
    \/ Cancel(o) \/ Submit(o) \/ Approve(o) \/ Reject(o)

Next ==
    \/ \E o \in Order : OrderStep(o)
    \/ \E u \in User : SetActive(u) \/ FriendRewarded(u)
    \/ \E g \in Grant : GrantChanges(g)

Spec == Init /\ [][Next]_vars
-----------------------------------------------------------------------------
TypeOK ==
    /\ order \in [Order -> [status : {"none"}, terms : {None}]
                     \cup [status : Open \cup {"approved", "rejected", "cancelled"}, terms : Terms]]
    /\ claim \in [User -> [Promotion -> [order : Order \cup {None}, used : BOOLEAN]]]
    /\ fulfilled \in [Order -> Nat]
    /\ active \subseteq User /\ single \subseteq Grant
    /\ friends \in [User -> 0..2]

\* Open, or given.
Kept == {o \in Made : order[o].status \in Open \cup {"approved"}}

\* A promotion is reserved by one order that is open and used by one that is
\* approved, and every such order has its reservation.
ClaimsFollowOrders ==
    /\ \A u \in User, p \in Promotion :
        LET c == claim[u][p] IN
        IF c.order = None THEN c = NoClaim
        ELSE /\ c.order \in Kept
             /\ c.used <=> order[c.order].status = "approved"
             /\ order[c.order].terms.user = u /\ order[c.order].terms.promotion = p
    /\ \A o \in Kept : order[o].terms.promotion # None =>
            claim[order[o].terms.user][order[o].terms.promotion].order = o

\* What each price was asked for.
PricesHold ==
    \A o \in Made : LET t == order[o].terms IN
        /\ t.plan = "year_friend" => t.promotion = "friend_year" /\ friends[t.user] = 2
        /\ t.plan = "year" /\ t.price = YearPrice => t.promotion = "first_year" \/ friends[t.user] > 0

\* Cancellations, rejections, accounts disabled between payment and approval and
\* grants changed meanwhile never leave a reservation without its order nor an
\* order without it, and an order's days are given once, when it is approved
\* (renewals.py:125-142, :198-236).
RenewalInv ==
    /\ TypeOK
    /\ ClaimsFollowOrders
    /\ PricesHold
    /\ \A o \in Order : fulfilled[o] = IF order[o].status = "approved" THEN 1 ELSE 0

Reduced(o) == order[o].terms.plan = "year" /\ order[o].terms.price = YearPrice

\* Of the orders a user has open or was given, one at most is a friends' year, and
\* for one who brought no friend one at most is a year at the reduced price:
\* however he cancels and orders again, whatever is rejected, and whichever of
\* several orders is approved first (renewals.py:34-75, :113-116, :137-139, :220-222).
PromotionsOnce ==
    \A u \in User : \A o, q \in Kept \cap Of(u) :
        /\ order[o].terms.plan = "year_friend" /\ order[q].terms.plan = "year_friend" => o = q
        /\ friends[u] = 0 /\ Reduced(o) /\ Reduced(q) => o = q

\* Repeated clicks never make a second order to pay on the same terms, whatever
\* was cancelled, paid or repriced between them (renewals.py:99-106).
NoDuplicates ==
    \A o, q \in Made :
        order[o].status = "pending" /\ order[q].status = "pending"
            /\ Same(order[o].terms, order[q].terms) => o = q
=============================================================================
