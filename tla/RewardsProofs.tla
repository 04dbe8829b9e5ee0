--------------------------- MODULE RewardsProofs ----------------------------
(* Theorems about Renewals and Referrals, for any users, orders, plans,      *)
(* grants, addresses, identities and bounds: a reservation has its order, a  *)
(* reward was earned, the tiers come in order; and the friends that one      *)
(* module rewards are those that the other counts.                           *)
EXTENDS Renewals, Referrals, FiniteSetTheorems, WellFoundedInduction, TLAPS

Placed == [status : Open \cup {"approved", "rejected", "cancelled"}, terms : Terms]
Unplaced == [status : {"none"}, terms : {None}]

LEMMA PlanKinds == \A plan \in Plan : plan \in DOMAIN ListPrice /\ ListPrice[plan] \in Nat
BY PlansAssumption DEF Annual, ListPrice

LEMMA OfferType ==
    ASSUME TypeOK, NEW u \in User, NEW plan \in Plan, NEW ch \in Channel,
           NEW g \in Grant \cup {None}
    PROVE  Offer(u, plan, ch, g) \in Terms
<1>1. PriceFor(u, plan) \in Nat
  BY PlanKinds DEF PriceFor, YearPrice
<1>2. PromotionFor(u, plan) \in Promotion \cup {None}
  BY DEF PromotionFor, Promotion
<1> QED
  BY <1>1, <1>2 DEF Offer, Terms

LEMMA MadeIsPlaced == TypeOK => \A o \in Made : order[o] \in Placed
BY DEF TypeOK, Made, Placed, Open

-----------------------------------------------------------------------------
LEMMA RenewalInit == Init => RenewalInv
<1> SUFFICES ASSUME Init PROVE RenewalInv
  OBVIOUS
<1>1. TypeOK
  BY DEF Init, TypeOK, NoClaim, Open
<1>2. Made = {}
  BY DEF Init, Made
<1>3. ClaimsFollowOrders
  BY <1>2 DEF Init, ClaimsFollowOrders, NoClaim, Kept
<1>4. PricesHold
  BY <1>2 DEF PricesHold
<1> QED
  BY <1>1, <1>3, <1>4 DEF Init, RenewalInv

\* Steps that leave the orders and the reservations alone.
LEMMA ElsewhereStep ==
    ASSUME RenewalInv, UNCHANGED <<order, claim, fulfilled>>,
           active' \subseteq User, single' \subseteq Grant,
           friends' \in [User -> 0..2], \A u \in User : friends'[u] >= friends[u]
    PROVE  RenewalInv'
<1>1. TypeOK'
  BY DEF RenewalInv, TypeOK
<1>2. ClaimsFollowOrders'
  BY DEF RenewalInv, ClaimsFollowOrders, Kept, Made
<1>3. PricesHold'
  <2> SUFFICES ASSUME NEW o \in Made
               PROVE LET t == order[o].terms IN
                     /\ t.plan = "year_friend" => t.promotion = "friend_year" /\ friends'[t.user] = 2
                     /\ t.plan = "year" /\ t.price = YearPrice => t.promotion = "first_year" \/ friends'[t.user] > 0
    BY DEF PricesHold, Made
  <2>1. order[o].terms.user \in User
    BY MadeIsPlaced DEF RenewalInv, Placed, Terms
  <2>2. /\ friends[order[o].terms.user] \in 0..2 /\ friends'[order[o].terms.user] \in 0..2
        /\ friends'[order[o].terms.user] >= friends[order[o].terms.user]
    BY <2>1 DEF RenewalInv, TypeOK
  <2> QED
    BY <2>2 DEF RenewalInv, PricesHold
<1> QED
  BY <1>1, <1>2, <1>3 DEF RenewalInv

LEMMA CreateStep ==
    ASSUME RenewalInv, NEW u \in User, NEW plan \in Plan, NEW ch \in Channel,
           NEW g \in Grant \cup {None}, NEW o \in Order, Create(u, plan, ch, g, o)
    PROVE  RenewalInv'
<1> DEFINE terms == Offer(u, plan, ch, g)
<1>1. terms \in Terms
  BY OfferType DEF RenewalInv
<1>2. /\ terms.user = u /\ terms.plan = plan /\ terms.price = PriceFor(u, plan)
      /\ terms.promotion = PromotionFor(u, plan)
  BY DEF Offer
<1> HIDE DEF terms
<1>3. /\ order[o].status = "none" /\ Eligible(u, plan)
      /\ order' = [order EXCEPT ![o] = [status |-> "pending", terms |-> terms]]
      /\ claim' = IF terms.promotion = None THEN claim
                  ELSE [claim EXCEPT ![u][terms.promotion] = [order |-> o, used |-> FALSE]]
      /\ UNCHANGED <<fulfilled, active, single, friends>>
  BY DEF Create, terms
<1>4. /\ order'[o] = [status |-> "pending", terms |-> terms]
      /\ \A q \in Order : q # o => order'[q] = order[q]
  BY <1>3 DEF RenewalInv, TypeOK
<1>5. terms.promotion \in Promotion \cup {None} /\ None \notin Promotion /\ None \notin Order
  BY <1>1, NoneAssumption DEF Terms
<1>6. TypeOK'
  <2>1. order' \in [Order -> Unplaced \cup Placed]
    BY <1>1, <1>3 DEF RenewalInv, TypeOK, Placed, Unplaced, Open
  <2>2. claim' \in [User -> [Promotion -> [order : Order \cup {None}, used : BOOLEAN]]]
    BY <1>3, <1>5 DEF RenewalInv, TypeOK
  <2> QED
    BY <1>3, <2>1, <2>2 DEF RenewalInv, TypeOK, Placed, Unplaced
<1>7. Made' = Made \cup {o} /\ Kept' = Kept \cup {o} /\ o \notin Made
  BY <1>3, <1>4 DEF Made, Kept, Open
<1>8. ASSUME NEW v \in User, NEW p \in Promotion
      PROVE claim'[v][p] = IF v = u /\ p = terms.promotion
                           THEN [order |-> o, used |-> FALSE] ELSE claim[v][p]
  BY <1>3, <1>5 DEF RenewalInv, TypeOK
<1>9. terms.promotion # None => claim[u][terms.promotion] = NoClaim
  BY <1>2, <1>3 DEF Eligible, Reserved
<1>10. ASSUME NEW v \in User, NEW p \in Promotion
       PROVE LET c == claim'[v][p] IN
             IF c.order = None THEN c = NoClaim
             ELSE /\ c.order \in Kept'
                  /\ c.used <=> order'[c.order].status = "approved"
                  /\ order'[c.order].terms.user = v /\ order'[c.order].terms.promotion = p
  <2>1. CASE v = u /\ p = terms.promotion
    BY <1>2, <1>4, <1>5, <1>7, <1>8, <2>1
  <2>2. CASE ~(v = u /\ p = terms.promotion)
    <3>1. claim'[v][p] = claim[v][p]
      BY <1>8, <2>2
    <3>2. claim[v][p].order \in Kept => claim[v][p].order \in Made /\ claim[v][p].order \in Order
      BY DEF Kept, Made
    <3> QED
      BY <1>4, <1>7, <3>1, <3>2 DEF RenewalInv, ClaimsFollowOrders
  <2> QED
    BY <2>1, <2>2
<1>11. ASSUME NEW q \in Kept', order'[q].terms.promotion # None
       PROVE claim'[order'[q].terms.user][order'[q].terms.promotion].order = q
  <2>1. CASE q = o
    BY <1>2, <1>4, <1>5, <1>8, <1>11, <2>1
  <2>2. CASE q # o
    <3> DEFINE t == order[q].terms
    <3>1. q \in Kept /\ q \in Made /\ q \in Order /\ order'[q] = order[q]
      BY <1>4, <1>7, <2>2 DEF Kept, Made
    <3>2. t.user \in User /\ t.promotion \in Promotion
      BY <1>11, <3>1, MadeIsPlaced DEF RenewalInv, Placed, Terms
    <3>3. claim[t.user][t.promotion].order = q
      BY <1>11, <3>1 DEF RenewalInv, ClaimsFollowOrders
    <3>4. ~(t.user = u /\ t.promotion = terms.promotion)
      BY <1>5, <1>9, <3>1, <3>2, <3>3 DEF NoClaim
    <3> QED
      BY <1>8, <3>1, <3>2, <3>3, <3>4
  <2> QED
    BY <2>1, <2>2
<1>12. ClaimsFollowOrders'
  BY <1>10, <1>11 DEF ClaimsFollowOrders
<1>13. friends[u] \in 0..2
  BY DEF RenewalInv, TypeOK
<1>14. terms.plan = "year_friend" => terms.promotion = "friend_year" /\ friends[u] = 2
  BY <1>2, <1>3, <1>13 DEF Eligible, PromotionFor
<1>15. terms.plan = "year" /\ terms.price = YearPrice => terms.promotion = "first_year" \/ friends[u] > 0
  BY <1>2, <1>13 DEF PriceFor, PromotionFor, YearPrice, ListPrice
<1>16. PricesHold'
  BY <1>2, <1>3, <1>4, <1>7, <1>14, <1>15 DEF RenewalInv, PricesHold, Made
<1>17. \A q \in Order : fulfilled'[q] = IF order'[q].status = "approved" THEN 1 ELSE 0
  BY <1>3, <1>4 DEF RenewalInv
<1> QED
  BY <1>6, <1>12, <1>16, <1>17 DEF RenewalInv

-----------------------------------------------------------------------------
\* A status that changes leaves the terms as they were made.
LEMMA StatusType ==
    ASSUME RenewalInv, NEW o \in Made, NEW s \in Open \cup {"approved", "rejected", "cancelled"},
           order' = [order EXCEPT ![o].status = s]
    PROVE  /\ order' \in [Order -> Unplaced \cup Placed]
           /\ order'[o] = [status |-> s, terms |-> order[o].terms]
           /\ \A q \in Order : q # o => order'[q] = order[q]
           /\ \A q \in Order : order'[q].terms = order[q].terms
           /\ Made' = Made
<1>1. order \in [Order -> Unplaced \cup Placed]
  BY DEF RenewalInv, TypeOK, Unplaced, Placed
<1>2. o \in Order /\ order[o] \in Placed
  BY MadeIsPlaced DEF RenewalInv, Made
<1>3. /\ order'[o] = [order[o] EXCEPT !.status = s]
      /\ \A q \in Order : q # o => order'[q] = order[q]
      /\ order' = [q \in Order |-> IF q = o THEN [order[o] EXCEPT !.status = s] ELSE order[q]]
  BY <1>1, <1>2
<1>4. order'[o] = [status |-> s, terms |-> order[o].terms] /\ order'[o] \in Placed
  BY <1>2, <1>3 DEF Placed
<1>5. order' \in [Order -> Unplaced \cup Placed]
  BY <1>1, <1>3, <1>4
<1>6. Made' = Made
  BY <1>2, <1>3, <1>4 DEF Made, Open
<1> QED
  BY <1>3, <1>4, <1>5, <1>6

\* The prices of orders whose terms stay.
LEMMA PricesStay ==
    ASSUME PricesHold, Made' = Made, UNCHANGED friends,
           \A q \in Order : order'[q].terms = order[q].terms
    PROVE  PricesHold'
BY DEF PricesHold, Made

LEMMA ReleaseStep ==
    ASSUME RenewalInv, NEW o \in Made, NEW s \in {"rejected", "cancelled"},
           order[o].status \in Open, order' = [order EXCEPT ![o].status = s], Release(o),
           UNCHANGED <<fulfilled, active, single, friends>>
    PROVE  RenewalInv'
<1>1. /\ order' \in [Order -> Unplaced \cup Placed]
      /\ order'[o] = [status |-> s, terms |-> order[o].terms]
      /\ \A q \in Order : q # o => order'[q] = order[q]
      /\ \A q \in Order : order'[q].terms = order[q].terms
      /\ Made' = Made
  BY StatusType
<1>2. o \in Order /\ order[o] \in Placed
  BY MadeIsPlaced DEF RenewalInv, Made
<1>3. ASSUME NEW v \in User, NEW p \in Promotion
      PROVE /\ claim'[v][p] = IF claim[v][p] = [order |-> o, used |-> FALSE] THEN NoClaim ELSE claim[v][p]
            /\ claim[v][p] \in [order : Order \cup {None}, used : BOOLEAN]
            /\ claim[v][p].order = o => claim[v][p] = [order |-> o, used |-> FALSE]
  <2>1. claim[v][p] \in [order : Order \cup {None}, used : BOOLEAN]
    BY DEF RenewalInv, TypeOK
  <2>2. ASSUME claim[v][p].order = o PROVE claim[v][p].used = FALSE
    BY <1>2, <2>1, <2>2, NoneAssumption DEF RenewalInv, ClaimsFollowOrders, Open
  <2> QED
    BY <2>1, <2>2 DEF Release
<1>4. TypeOK'
  <2>1. claim' \in [User -> [Promotion -> [order : Order \cup {None}, used : BOOLEAN]]]
    BY <1>3 DEF Release, NoClaim
  <2> QED
    BY <1>1, <2>1 DEF RenewalInv, TypeOK, Placed, Unplaced
<1>5. Kept' = Kept \ {o}
  BY <1>1, <1>2 DEF Kept, Made, Open
<1>6. ASSUME NEW v \in User, NEW p \in Promotion
      PROVE LET c == claim'[v][p] IN
            IF c.order = None THEN c = NoClaim
            ELSE /\ c.order \in Kept'
                 /\ c.used <=> order'[c.order].status = "approved"
                 /\ order'[c.order].terms.user = v /\ order'[c.order].terms.promotion = p
  <2>1. CASE claim[v][p].order = o
    <3>1. claim'[v][p] = NoClaim /\ NoClaim.order = None
      BY <1>3, <2>1 DEF NoClaim
    <3> QED
      BY <3>1
  <2>2. CASE claim[v][p].order # o
    <3>1. claim'[v][p] = claim[v][p]
      BY <1>3, <2>2
    <3>2. claim[v][p].order \in Kept => claim[v][p].order \in Order
      BY DEF Kept, Made
    <3> QED
      BY <1>1, <1>5, <2>2, <3>1, <3>2 DEF RenewalInv, ClaimsFollowOrders
  <2> QED
    BY <2>1, <2>2
<1>7. ASSUME NEW q \in Kept', order'[q].terms.promotion # None
      PROVE claim'[order'[q].terms.user][order'[q].terms.promotion].order = q
  <2> DEFINE t == order[q].terms
  <2>1. q \in Kept /\ q \in Made /\ q \in Order /\ q # o /\ order'[q].terms = t
    BY <1>1, <1>5 DEF Kept, Made
  <2>2. t.user \in User /\ t.promotion \in Promotion
    BY <1>7, <2>1, MadeIsPlaced DEF RenewalInv, Placed, Terms
  <2>3. claim[t.user][t.promotion].order = q
    BY <1>7, <2>1 DEF RenewalInv, ClaimsFollowOrders
  <2> QED
    BY <1>3, <2>1, <2>2, <2>3
<1>8. ClaimsFollowOrders'
  BY <1>6, <1>7 DEF ClaimsFollowOrders
<1>9. PricesHold'
  <2>1. PricesHold /\ UNCHANGED friends
    BY DEF RenewalInv
  <2> QED
    BY <1>1, <2>1, PricesStay
<1>10. \A q \in Order : fulfilled'[q] = IF order'[q].status = "approved" THEN 1 ELSE 0
  <2> SUFFICES ASSUME NEW q \in Order
               PROVE fulfilled[q] = IF order'[q].status = "approved" THEN 1 ELSE 0
    OBVIOUS
  <2>1. fulfilled[q] = IF order[q].status = "approved" THEN 1 ELSE 0
    BY DEF RenewalInv
  <2>2. q = o => order'[q].status # "approved" /\ order[q].status # "approved"
    BY <1>1 DEF Open
  <2> QED
    BY <1>1, <2>1, <2>2
<1> QED
  BY <1>4, <1>8, <1>9, <1>10 DEF RenewalInv

LEMMA SubmitStep ==
    ASSUME RenewalInv, NEW o \in Order, Submit(o)
    PROVE  RenewalInv'
<1>1. o \in Made /\ order[o].status = "pending"
  BY DEF Submit, Made
<1>2. /\ order' \in [Order -> Unplaced \cup Placed]
      /\ order'[o] = [status |-> "submitted", terms |-> order[o].terms]
      /\ \A q \in Order : q # o => order'[q] = order[q]
      /\ \A q \in Order : order'[q].terms = order[q].terms
      /\ Made' = Made
  <2>1. order' = [order EXCEPT ![o].status = "submitted"]
    BY DEF Submit
  <2> QED
    BY <1>1, <2>1, StatusType DEF Open
<1>3. UNCHANGED <<claim, fulfilled, active, single, friends>>
  BY DEF Submit
<1>4. TypeOK'
  BY <1>2, <1>3 DEF RenewalInv, TypeOK, Placed, Unplaced
<1>5. Kept' = Kept /\ \A q \in Order : (order'[q].status = "approved") = (order[q].status = "approved")
  BY <1>1, <1>2 DEF Kept, Made, Open
<1>6. ClaimsFollowOrders'
  <2>1. \A q \in Kept : q \in Order
    BY DEF Kept, Made
  <2> QED
    BY <1>2, <1>3, <1>5, <2>1 DEF RenewalInv, ClaimsFollowOrders
<1>7. PricesHold'
  <2>1. PricesHold
    BY DEF RenewalInv
  <2> QED
    BY <1>2, <1>3, <2>1, PricesStay
<1> QED
  BY <1>3, <1>4, <1>5, <1>6, <1>7 DEF RenewalInv

LEMMA ApproveStep ==
    ASSUME RenewalInv, NEW o \in Order, Approve(o)
    PROVE  RenewalInv'
<1>1. o \in Made /\ order[o].status = "submitted"
  BY DEF Approve, Made
<1>2. /\ order' \in [Order -> Unplaced \cup Placed]
      /\ order'[o] = [status |-> "approved", terms |-> order[o].terms]
      /\ \A q \in Order : q # o => order'[q] = order[q]
      /\ \A q \in Order : order'[q].terms = order[q].terms
      /\ Made' = Made
  <2>1. order' = [order EXCEPT ![o].status = "approved"]
    BY DEF Approve
  <2> QED
    BY <1>1, <2>1, StatusType
<1>3. /\ fulfilled' = [fulfilled EXCEPT ![o] = @ + 1]
      /\ UNCHANGED <<active, single, friends>>
  BY DEF Approve
<1>4. ASSUME NEW v \in User, NEW p \in Promotion
      PROVE /\ claim'[v][p] = IF claim[v][p].order = o THEN [claim[v][p] EXCEPT !.used = TRUE]
                              ELSE claim[v][p]
            /\ claim[v][p] \in [order : Order \cup {None}, used : BOOLEAN]
            /\ claim'[v][p].order = claim[v][p].order
  <2>1. claim[v][p] \in [order : Order \cup {None}, used : BOOLEAN]
    BY DEF RenewalInv, TypeOK
  <2>2. claim'[v][p] = IF claim[v][p].order = o THEN [claim[v][p] EXCEPT !.used = TRUE]
                       ELSE claim[v][p]
    BY DEF Approve
  <2> QED
    BY <2>1, <2>2
<1>5. TypeOK'
  <2>1. \A v \in User, p \in Promotion : claim'[v][p] \in [order : Order \cup {None}, used : BOOLEAN]
    BY <1>4
  <2>2. claim' = [v \in User |-> [p \in Promotion |-> claim'[v][p]]]
    BY DEF Approve
  <2>3. claim' \in [User -> [Promotion -> [order : Order \cup {None}, used : BOOLEAN]]]
    BY <2>1, <2>2
  <2>4. fulfilled' \in [Order -> Nat]
    BY <1>3 DEF RenewalInv, TypeOK
  <2> QED
    BY <1>2, <1>3, <2>3, <2>4 DEF RenewalInv, TypeOK, Placed, Unplaced
<1>6. Kept' = Kept /\ o \in Kept
  BY <1>1, <1>2 DEF Kept, Made, Open
<1>7. ASSUME NEW v \in User, NEW p \in Promotion
      PROVE LET c == claim'[v][p] IN
            IF c.order = None THEN c = NoClaim
            ELSE /\ c.order \in Kept'
                 /\ c.used <=> order'[c.order].status = "approved"
                 /\ order'[c.order].terms.user = v /\ order'[c.order].terms.promotion = p
  <2> DEFINE c == claim[v][p]
  <2>1. IF c.order = None THEN c = NoClaim
        ELSE /\ c.order \in Kept
             /\ c.used <=> order[c.order].status = "approved"
             /\ order[c.order].terms.user = v /\ order[c.order].terms.promotion = p
    BY DEF RenewalInv, ClaimsFollowOrders
  <2>2. CASE c.order = o
    <3>1. claim'[v][p].order = o /\ claim'[v][p].used = TRUE /\ o # None
      BY <1>4, <2>2, NoneAssumption
    <3>2. order'[o].terms.user = v /\ order'[o].terms.promotion = p
      BY <1>2, <2>1, <2>2, <3>1
    <3> QED
      BY <1>2, <1>6, <3>1, <3>2
  <2>3. CASE c.order # o
    <3>1. claim'[v][p] = c
      BY <1>4, <2>3
    <3>2. c.order \in Kept => c.order \in Order
      BY DEF Kept, Made
    <3> QED
      BY <1>2, <1>6, <2>1, <2>3, <3>1, <3>2
  <2> QED
    BY <2>2, <2>3
<1>8. ASSUME NEW q \in Kept', order'[q].terms.promotion # None
      PROVE claim'[order'[q].terms.user][order'[q].terms.promotion].order = q
  <2> DEFINE t == order[q].terms
  <2>1. q \in Kept /\ q \in Made /\ q \in Order /\ order'[q].terms = t
    BY <1>2, <1>6 DEF Kept, Made
  <2>2. t.user \in User /\ t.promotion \in Promotion
    BY <1>8, <2>1, MadeIsPlaced DEF RenewalInv, Placed, Terms
  <2>3. claim[t.user][t.promotion].order = q
    BY <1>8, <2>1 DEF RenewalInv, ClaimsFollowOrders
  <2> QED
    BY <1>4, <2>1, <2>2, <2>3
<1>9. ClaimsFollowOrders'
  BY <1>7, <1>8 DEF ClaimsFollowOrders
<1>10. PricesHold'
  <2>1. PricesHold
    BY DEF RenewalInv
  <2> QED
    BY <1>2, <1>3, <2>1, PricesStay
<1>11. \A q \in Order : fulfilled'[q] = IF order'[q].status = "approved" THEN 1 ELSE 0
  <2> SUFFICES ASSUME NEW q \in Order
               PROVE fulfilled'[q] = IF order'[q].status = "approved" THEN 1 ELSE 0
    OBVIOUS
  <2>1. fulfilled[q] = (IF order[q].status = "approved" THEN 1 ELSE 0) /\ fulfilled[q] \in Nat
    BY DEF RenewalInv, TypeOK
  <2>2. fulfilled'[q] = IF q = o THEN fulfilled[q] + 1 ELSE fulfilled[q]
    BY <1>3 DEF RenewalInv, TypeOK
  <2> QED
    BY <1>1, <1>2, <2>1, <2>2
<1> QED
  BY <1>5, <1>9, <1>10, <1>11 DEF RenewalInv

LEMMA RenewalStep == RenewalInv /\ [Next]_vars => RenewalInv'
<1> SUFFICES ASSUME RenewalInv, [Next]_vars PROVE RenewalInv'
  OBVIOUS
<1>1. active \subseteq User /\ single \subseteq Grant /\ friends \in [User -> 0..2]
  BY DEF RenewalInv, TypeOK
<1>2. \A u \in User : friends[u] >= friends[u]
  BY <1>1
<1>3. ASSUME NEW o \in Order, NEW u \in User, NEW plan \in Plan, NEW ch \in Channel,
             NEW g \in Grant \cup {None}, Create(u, plan, ch, g, o)
      PROVE RenewalInv'
  BY <1>3, CreateStep
<1>4. ASSUME NEW o \in Order, Cancel(o) PROVE RenewalInv'
  <2>1. /\ o \in Made /\ order[o].status \in Open /\ Release(o)
        /\ order' = [order EXCEPT ![o].status = "cancelled"]
        /\ UNCHANGED <<fulfilled, active, single, friends>>
    BY <1>4 DEF Cancel, Made, Open
  <2> QED
    BY <2>1, ReleaseStep
<1>5. ASSUME NEW o \in Order, Submit(o) PROVE RenewalInv'
  BY <1>5, SubmitStep
<1>6. ASSUME NEW o \in Order, Approve(o) PROVE RenewalInv'
  BY <1>6, ApproveStep
<1>7. ASSUME NEW o \in Order, Reject(o) PROVE RenewalInv'
  <2>1. /\ o \in Made /\ order[o].status \in Open /\ Release(o)
        /\ order' = [order EXCEPT ![o].status = "rejected"]
        /\ UNCHANGED <<fulfilled, active, single, friends>>
    BY <1>7 DEF Reject, Made, Open
  <2> QED
    BY <2>1, ReleaseStep
<1>8. ASSUME NEW u \in User, SetActive(u) PROVE RenewalInv'
  <2>1. UNCHANGED <<order, claim, fulfilled>> /\ UNCHANGED <<single, friends>> /\ active' \subseteq User
    BY <1>1, <1>8 DEF SetActive
  <2> QED
    BY <1>1, <1>2, <2>1, ElsewhereStep
<1>9. ASSUME NEW u \in User, FriendRewarded(u) PROVE RenewalInv'
  <2>1. UNCHANGED <<order, claim, fulfilled>> /\ UNCHANGED <<active, single>>
    BY <1>9 DEF FriendRewarded
  <2>2. friends' \in [User -> 0..2] /\ \A v \in User : friends'[v] >= friends[v]
    BY <1>1, <1>9 DEF FriendRewarded
  <2> QED
    BY <1>1, <2>1, <2>2, ElsewhereStep
<1>10. ASSUME NEW g \in Grant, GrantChanges(g) PROVE RenewalInv'
  <2>1. UNCHANGED <<order, claim, fulfilled>> /\ UNCHANGED <<active, friends>> /\ single' \subseteq Grant
    BY <1>1, <1>10 DEF GrantChanges
  <2> QED
    BY <1>1, <1>2, <2>1, ElsewhereStep
<1>11. CASE UNCHANGED vars
  <2>1. UNCHANGED <<order, claim, fulfilled>> /\ UNCHANGED <<active, single, friends>>
    BY <1>11 DEF vars
  <2> QED
    BY <1>1, <1>2, <2>1, ElsewhereStep
<1> QED
  BY <1>3, <1>4, <1>5, <1>6, <1>7, <1>8, <1>9, <1>10, <1>11 DEF Next, OrderStep

\* The inductive invariant: reservations and orders agree, and what was given is
\* what was approved (renewals.py:198-225).
THEOREM RenewalInductive == Spec => []RenewalInv
<1>1. Init => RenewalInv
  BY RenewalInit
<1>2. RenewalInv /\ [Next]_vars => RenewalInv'
  BY RenewalStep
<1> QED
  BY <1>1, <1>2, PTL DEF Spec

LEMMA InvPromotions == RenewalInv => PromotionsOnce
<1> SUFFICES ASSUME RenewalInv PROVE PromotionsOnce
  OBVIOUS
<1>1. ASSUME NEW o \in Kept, NEW q \in Kept, order[o].terms.promotion # None,
             order[q].terms.user = order[o].terms.user,
             order[q].terms.promotion = order[o].terms.promotion
      PROVE o = q
  BY <1>1 DEF RenewalInv, ClaimsFollowOrders
<1>2. \A o \in Kept : order[o].terms.plan = "year_friend" => order[o].terms.promotion = "friend_year"
  BY DEF RenewalInv, PricesHold, Kept
<1>3. ASSUME NEW u \in User, friends[u] = 0, NEW o \in Kept \cap Of(u),
             order[o].terms.plan = "year", order[o].terms.price = YearPrice
      PROVE order[o].terms.promotion = "first_year"
  <2>1. o \in Made /\ order[o].terms.user = u
    BY DEF Of, Kept
  <2> QED
    BY <1>3, <2>1 DEF RenewalInv, PricesHold
<1>4. "first_year" # None /\ "friend_year" # None
  BY NoneAssumption DEF Promotion
<1>5. ASSUME NEW u \in User, NEW o \in Kept \cap Of(u), NEW q \in Kept \cap Of(u),
             order[o].terms.plan = "year_friend", order[q].terms.plan = "year_friend"
      PROVE o = q
  BY <1>1, <1>2, <1>4, <1>5 DEF Of
<1>6. ASSUME NEW u \in User, friends[u] = 0, NEW o \in Kept \cap Of(u), NEW q \in Kept \cap Of(u),
             Reduced(o), Reduced(q)
      PROVE o = q
  BY <1>1, <1>3, <1>4, <1>6 DEF Of, Reduced
<1> QED
  BY <1>5, <1>6 DEF PromotionsOnce

\* No two orders of a user, open or given, are at the price of one promotion.
THEOREM PromotionsAreOnce == Spec => []PromotionsOnce
<1>1. Spec => []RenewalInv
  BY RenewalInductive
<1> QED
  BY <1>1, InvPromotions, PTL

-----------------------------------------------------------------------------
\* Only Create makes an order pending, and it leaves the others as they were.
LEMMA DuplicatesStep == RenewalInv /\ NoDuplicates /\ [Next]_vars => NoDuplicates'
<1> SUFFICES ASSUME RenewalInv, NoDuplicates, [Next]_vars PROVE NoDuplicates'
  OBVIOUS
<1>1. ASSUME NEW o \in Order, NEW u \in User, NEW plan \in Plan, NEW ch \in Channel,
             NEW g \in Grant \cup {None}, Create(u, plan, ch, g, o)
      PROVE NoDuplicates'
  <2> DEFINE terms == Offer(u, plan, ch, g)
  <2>1. /\ order[o].status = "none" /\ terms.user = u
        /\ order' = [order EXCEPT ![o] = [status |-> "pending", terms |-> terms]]
        /\ ~ \E q \in OpenOf(u) : order[q].status = "pending" /\ Same(order[q].terms, terms)
    BY <1>1 DEF Create, Offer
  <2> HIDE DEF terms
  <2>2. /\ order'[o] = [status |-> "pending", terms |-> terms]
        /\ \A q \in Order : q # o => order'[q] = order[q]
    BY <2>1 DEF RenewalInv, TypeOK
  <2>3. ASSUME NEW q \in Order, q # o, order[q].status = "pending",
               Same(order[q].terms, terms) \/ Same(terms, order[q].terms)
        PROVE FALSE
    <3>1. q \in OpenOf(u) /\ Same(order[q].terms, terms)
      BY <2>1, <2>3 DEF OpenOf, Of, Made, Open, Same
    <3> QED
      BY <2>1, <2>3, <3>1
  <2>4. \A q \in Made' : q \in Order
    BY DEF Made
  <2>5. SUFFICES ASSUME NEW p \in Order, NEW q \in Order, order'[p].status = "pending",
                        order'[q].status = "pending", Same(order'[p].terms, order'[q].terms)
                 PROVE p = q
    BY <2>4 DEF NoDuplicates
  <2>6. CASE p = o
    BY <2>2, <2>3, <2>5, <2>6
  <2>7. CASE q = o
    BY <2>2, <2>3, <2>5, <2>7
  <2>8. CASE p # o /\ q # o
    <3>1. p \in Made /\ q \in Made /\ order'[p] = order[p] /\ order'[q] = order[q]
      BY <2>2, <2>5, <2>8 DEF Made
    <3> QED
      BY <2>5, <3>1 DEF NoDuplicates
  <2> QED
    BY <2>6, <2>7, <2>8
<1>2. ASSUME NEW o \in Made, NEW s \in Open \cup {"approved", "rejected", "cancelled"},
             order' = [order EXCEPT ![o].status = s], s # "pending"
      PROVE NoDuplicates'
  <2>1. /\ order'[o] = [status |-> s, terms |-> order[o].terms]
        /\ \A q \in Order : q # o => order'[q] = order[q]
        /\ Made' = Made /\ \A q \in Made : q \in Order
    BY <1>2, StatusType DEF Made
  <2> QED
    BY <1>2, <2>1 DEF NoDuplicates
<1>3. ASSUME NEW o \in Order, Cancel(o) \/ Submit(o) \/ Approve(o) \/ Reject(o)
      PROVE NoDuplicates'
  <2>1. o \in Made
    BY <1>3 DEF Cancel, Submit, Approve, Reject, Made
  <2>2. PICK s \in {"submitted", "cancelled", "approved", "rejected"} :
            order' = [order EXCEPT ![o].status = s]
    BY <1>3 DEF Cancel, Submit, Approve, Reject
  <2> QED
    BY <1>2, <2>1, <2>2 DEF Open
<1>4. ASSUME UNCHANGED order PROVE NoDuplicates'
  BY <1>4 DEF NoDuplicates, Made
<1>5. ASSUME NEW u \in User, SetActive(u) \/ FriendRewarded(u) PROVE NoDuplicates'
  BY <1>4, <1>5 DEF SetActive, FriendRewarded
<1>6. ASSUME NEW g \in Grant, GrantChanges(g) PROVE NoDuplicates'
  BY <1>4, <1>6 DEF GrantChanges
<1>7. CASE UNCHANGED vars
  BY <1>4, <1>7 DEF vars
<1> QED
  BY <1>1, <1>3, <1>5, <1>6, <1>7 DEF Next, OrderStep

\* Two orders of a user that wait for payment differ in what they are for.
THEOREM NoneOrderedTwice == Spec => []NoDuplicates
<1>1. Init => NoDuplicates
  BY DEF Init, NoDuplicates, Made
<1>2. RenewalInv /\ NoDuplicates /\ [Next]_vars => NoDuplicates'
  BY DuplicatesStep
<1>3. Spec => []RenewalInv
  BY RenewalInductive
<1> QED
  BY <1>1, <1>2, <1>3, PTL DEF Spec

-----------------------------------------------------------------------------
(* Referrals: nothing is forgotten by the ledgers, so whoever is rewarded    *)
(* stays the first with his address and his Douyin account.                  *)

LEMMA CountType == \A S \in SUBSET User : IsFiniteSet(S) /\ Cardinality(S) \in Nat
BY UsersAssumption, FS_Subset, FS_CardinalityType

LEMMA TierType == \A n \in Nat : Tier(n) \in Nat /\ Tier(n) >= Registered
BY DEF Tier, Minimum, Registered

LEMMA CreditType ==
    ASSUME NEW days \in [User -> 0..Cap], NEW u \in User, NEW d \in Nat
    PROVE  Credit(days, u, d) \in [User -> 0..Cap]
<1>1. \A v \in User : days[v] + Minimum(d, Cap - days[v]) \in 0..Cap
  BY LimitsAssumption DEF Minimum
<1> QED
  BY <1>1 DEF Credit

\* A ledger of addresses remembers whom it has.
Remembers(old, new) ==
    /\ new \in [Address -> User \cup {None}]
    /\ \A a \in Address : old[a] # None => new[a] = old[a]

LEMMA SeenRemembers ==
    ASSUME NEW first \in [Address -> User \cup {None}], NEW u \in User,
           email' \in [User -> Address \cup {None}]
    PROVE  Remembers(first, Seen(first, u))
BY DEF Remembers, Seen

LEMMA LedgerRemembers ==
    ASSUME NEW u \in User, NEW reach \in Reach, firstEmail \in [Address -> User \cup {None}],
           email' \in [User -> Address \cup {None}], inviter' \in [User -> User \cup {None}]
    PROVE  /\ Remembers(firstEmail, Ledger(u, reach))
           /\ Registers(u, reach) =>
                 /\ inviter'[u] \in User
                 /\ \E a \in Address : Ledger(u, reach)[a] = u
                 /\ \E a \in Address : Ledger(u, reach)[a] = inviter'[u]
<1>1. Remembers(firstEmail, Seen(firstEmail, u))
  BY SeenRemembers
<1>2. CASE ~Considered(u, reach)
  BY <1>1, <1>2 DEF Ledger, Registers
<1>3. CASE Considered(u, reach)
  <2> DEFINE first == Seen(firstEmail, u)
  <2>1. /\ inviter'[u] \in User /\ first \in [Address -> User \cup {None}]
        /\ Ledger(u, reach) = Seen(first, inviter'[u])
    BY <1>1, <1>3 DEF Considered, Ledger, Remembers
  <2>2. email'[u] \in Address /\ first[email'[u]] = u
    BY <1>3 DEF Considered, IsFirst
  <2> HIDE DEF first
  <2>3. Remembers(first, Ledger(u, reach))
    BY <2>1, SeenRemembers
  <2>4. Ledger(u, reach)[email'[u]] = u
    BY <2>2, <2>3, UsersAssumption DEF Remembers
  <2>5. Registers(u, reach) => \E a \in Address : Ledger(u, reach)[a] = inviter'[u]
    BY <2>1 DEF Registers, IsFirst
  <2>6. Remembers(firstEmail, Ledger(u, reach))
    BY <1>1, <2>3 DEF first, Remembers
  <2> QED
    BY <2>1, <2>2, <2>4, <2>5, <2>6
<1> QED
  BY <1>2, <1>3

\* What a review leaves, whoever it is of and whatever set its members.
LEMMA VerifiedKeeps ==
    ASSUME ReferralInv, NEW u \in User, NEW reach \in Reach, Verified(u, reach),
           email' \in [User -> Address \cup {None}], inviter' \in [User -> User \cup {None}],
           \A f \in User : f # u \/ stage[f] # "none" => inviter'[f] = inviter[f],
           inviter'[u] # u, UNCHANGED <<bound, firstDouyin>>
    PROVE  /\ firstEmail' \in [Address -> User \cup {None}]
           /\ stage' \in [User -> {"none", "registered", "rewarded"}]
           /\ total' \in [User -> 0..Cap]
           /\ \A f \in User : f # u => stage'[f] = stage[f]
           /\ RewardsAreEarned'
<1>1. ReferralTypes /\ RewardsAreEarned
  BY DEF ReferralInv
<1>2. /\ firstEmail' = Ledger(u, reach) /\ Remembers(firstEmail, firstEmail')
      /\ Registers(u, reach) => /\ inviter'[u] \in User
                                /\ HasEmail(u)' /\ HasEmail(inviter[u])'
  BY <1>1, LedgerRemembers DEF Verified, ReferralTypes, HasEmail
<1>3. /\ stage' \in [User -> {"none", "registered", "rewarded"}]
      /\ \A f \in User : f # u => stage'[f] = stage[f]
      /\ stage'[u] = IF Activates(u, reach) THEN "rewarded"
                     ELSE IF Registers(u, reach) THEN "registered" ELSE stage[u]
  BY <1>1 DEF Verified, ReferralTypes
<1>4. total' \in [User -> 0..Cap]
  <2> DEFINE once == IF Registers(u, reach) /\ stage[u] = "none"
                     THEN Credit(total, u, Registered) ELSE total
             tier == Tier(Cardinality(Rewarded(inviter'[u])))
  <2>1. once \in [User -> 0..Cap]
    BY <1>1, CreditType DEF ReferralTypes, Registered
  <2>2. tier - Registered \in Nat
    <3>1. Cardinality(Rewarded(inviter'[u])) \in Nat
      BY CountType DEF Rewarded, Invited
    <3> QED
      BY <3>1, TierType DEF Registered
  <2>3. total' = IF Activates(u, reach) THEN Credit(once, u, tier - Registered) ELSE once
    BY DEF Verified
  <2> HIDE DEF once, tier
  <2> QED
    BY <2>1, <2>2, <2>3, CreditType
<1>5. \A f \in User : HasEmail(f) => HasEmail(f)'
  BY <1>2, UsersAssumption DEF HasEmail, Remembers
<1>6. \A f \in User : HasDouyin(f) => HasDouyin(f)'
  BY DEF HasDouyin
<1>7. ASSUME NEW f \in User, stage'[f] # "none"
      PROVE  inviter'[f] \in User \ {f} /\ HasEmail(f)' /\ HasEmail(inviter[f])'
  <2>1. CASE f = u /\ Registers(u, reach)
    BY <1>2, <2>1
  <2>2. CASE ~(f = u /\ Registers(u, reach))
    <3>1. stage[f] # "none"
      BY <1>3, <1>7, <2>2 DEF Activates
    <3>2. inviter'[f] = inviter[f] /\ inviter[f] \in User \ {f} /\ HasEmail(f) /\ HasEmail(inviter[f])
      BY <1>1, <3>1 DEF RewardsAreEarned
    <3>3. HasEmail(inviter[f])'
      BY <1>2, <3>2, UsersAssumption DEF HasEmail, Remembers
    <3> QED
      BY <1>5, <3>2, <3>3
  <2> QED
    BY <2>1, <2>2
<1>8. ASSUME NEW f \in User, stage'[f] = "rewarded"
      PROVE  HasDouyin(f)'
  <2>1. CASE f = u /\ Activates(u, reach)
    <3>1. DouyinVerified(u) /\ bound[u] \subseteq Douyin
      BY <1>1, <2>1 DEF Activates, ReferralTypes
    <3>2. HasDouyin(u)
      BY <3>1 DEF DouyinVerified, HasDouyin
    <3> QED
      BY <1>6, <2>1, <3>2
  <2>2. CASE ~(f = u /\ Activates(u, reach))
    <3>1. stage[f] = "rewarded"
      BY <1>3, <1>8, <2>2
    <3> QED
      BY <1>1, <1>6, <3>1 DEF RewardsAreEarned
  <2> QED
    BY <2>1, <2>2
<1> QED
  BY <1>2, <1>3, <1>4, <1>7, <1>8 DEF Remembers, RewardsAreEarned
\* A review that changes nobody's address, accounts or inviter.
LEMMA ReviewKeeps ==
    ASSUME ReferralInv, NEW u \in User, NEW reach \in Reach, member[u] = "member",
           UNCHANGED <<people, inviter>>, Verified(u, reach),
           codes' \in [User -> Nat], \A f \in User : member[f] = "none" => codes'[f] = 0,
           moves' \in Nat,
           todo' \in [user : User \cup {None}, to : Address \cup {None}, friends : SUBSET User],
           Underway'
    PROVE  ReferralInv'
<1>1. /\ ReferralTypes /\ \A f \in User : member[f] = "none" => Newcomer(f)
      /\ \A f \in User : inviter[f] # f
      /\ \A f, v \in User : email[f] # None /\ email[f] = email[v] => f = v
  BY DEF ReferralInv
<1>2. /\ firstEmail' \in [Address -> User \cup {None}]
      /\ stage' \in [User -> {"none", "registered", "rewarded"}]
      /\ total' \in [User -> 0..Cap]
      /\ \A f \in User : f # u => stage'[f] = stage[f]
      /\ RewardsAreEarned'
  <2>1. /\ UNCHANGED <<bound, firstDouyin>> /\ inviter'[u] # u
        /\ email' \in [User -> Address \cup {None}] /\ inviter' \in [User -> User \cup {None}]
        /\ \A f \in User : f # u \/ stage[f] # "none" => inviter'[f] = inviter[f]
    BY <1>1 DEF people, ReferralTypes
  <2> QED
    BY <2>1, VerifiedKeeps
<1>3. ReferralTypes'
  BY <1>1, <1>2 DEF people, ReferralTypes
<1>4. \A f \in User : member'[f] = "none" => Newcomer(f)'
  <2> SUFFICES ASSUME NEW f \in User, member'[f] = "none" PROVE Newcomer(f)'
    OBVIOUS
  <2>1. f # u /\ Newcomer(f) /\ codes'[f] = 0
    BY <1>1 DEF people
  <2> QED
    BY <1>2, <2>1 DEF Newcomer, people
<1>5. /\ \A f \in User : inviter'[f] # f
      /\ \A f, v \in User : email'[f] # None /\ email'[f] = email'[v] => f = v
  BY <1>1 DEF people
<1> QED
  BY <1>2, <1>3, <1>4, <1>5 DEF ReferralInv

LEMMA QuietIsFree == Quiet => todo.to = None /\ todo.user = None /\ todo.friends = {}
BY DEF Quiet, Nothing

LEMMA JoinKeeps ==
    ASSUME ReferralInv, NEW u \in User, NEW i \in User \cup {None},
           NEW a \in Address \cup {None}, NEW reach \in Reach, Join(u, i, a, reach)
    PROVE  ReferralInv'
<1>1. /\ ReferralTypes /\ \A f \in User : member[f] = "none" => Newcomer(f)
      /\ \A f \in User : inviter[f] # f
      /\ \A f, v \in User : email[f] # None /\ email[f] = email[v] => f = v
  BY DEF ReferralInv
<1>2. Newcomer(u)
  BY <1>1 DEF Join
<1>3. /\ member' = [member EXCEPT ![u] = "member"] /\ email' = [email EXCEPT ![u] = a]
      /\ inviter' = [inviter EXCEPT ![u] = i] /\ Verified(u, reach)
      /\ UNCHANGED <<bound, firstDouyin, codes, moves, todo>>
  BY DEF Join
<1>4. i # u
  <2>1. Cardinality(Invited(u)) \in Nat
    BY CountType DEF Invited
  <2> QED
    BY <1>2, <2>1, UsersAssumption DEF Join, Newcomer
<1>5. /\ member' \in [User -> {"none", "member", "gone"}]
      /\ email' \in [User -> Address \cup {None}] /\ inviter' \in [User -> User \cup {None}]
      /\ \A f \in User : f # u => inviter'[f] = inviter[f] /\ member'[f] = member[f]
                                  /\ email'[f] = email[f]
      /\ inviter'[u] = i /\ email'[u] = a /\ member'[u] = "member"
  BY <1>1, <1>3 DEF ReferralTypes
<1>6. /\ firstEmail' \in [Address -> User \cup {None}]
      /\ stage' \in [User -> {"none", "registered", "rewarded"}]
      /\ total' \in [User -> 0..Cap]
      /\ \A f \in User : f # u => stage'[f] = stage[f]
      /\ RewardsAreEarned'
  <2>1. \A f \in User : f # u \/ stage[f] # "none" => inviter'[f] = inviter[f]
    BY <1>2, <1>5 DEF Newcomer
  <2> QED
    BY <1>3, <1>4, <1>5, <2>1, VerifiedKeeps
<1>7. ReferralTypes'
  BY <1>1, <1>3, <1>5, <1>6 DEF ReferralTypes
<1>8. \A f \in User : member'[f] = "none" => Newcomer(f)'
  BY <1>1, <1>3, <1>5, <1>6 DEF Newcomer
<1>9. \A f \in User : inviter'[f] # f
  BY <1>1, <1>4, <1>5
<1>10. \A f, v \in User : email'[f] # None /\ email'[f] = email'[v] => f = v
  <2>1. a # None => \A v \in User : email[v] # a
    BY DEF Join, Free
  <2> QED
    BY <1>1, <1>5, <2>1
<1>11. Underway'
  <2>1. todo' = Nothing
    BY <1>3 DEF Join, Quiet
  <2> QED
    BY <2>1 DEF Underway, Nothing
<1> QED
  BY <1>6, <1>7, <1>8, <1>9, <1>10, <1>11 DEF ReferralInv

\* The four reviews that change no address: what each leaves under way.
LEMMA RebindKeeps ==
    ASSUME ReferralInv, NEW u \in User, NEW a \in Address, NEW reach \in Reach, Rebind(u, a, reach)
    PROVE  ReferralInv'
<1>1. /\ member[u] = "member" /\ Free(a) /\ moves' = moves + 1
      /\ UNCHANGED <<people, codes, inviter>> /\ Verified(u, reach)
      /\ todo' = [user |-> u, to |-> a, friends |-> {}]
  BY DEF Rebind, Nothing
<1>2. ReferralTypes /\ \A f \in User : member[f] = "none" => Newcomer(f)
  BY DEF ReferralInv
<1>3. Underway'
  BY <1>1, LedgersAssumption DEF Underway, Free, people
<1>4. /\ codes' \in [User -> Nat] /\ \A f \in User : member[f] = "none" => codes'[f] = 0
      /\ moves' \in Nat
      /\ todo' \in [user : User \cup {None}, to : Address \cup {None}, friends : SUBSET User]
  BY <1>1, <1>2 DEF ReferralTypes, Newcomer
<1> QED
  BY <1>1, <1>3, <1>4, ReviewKeeps

LEMMA ReviewsKeep ==
    ASSUME ReferralInv, NEW u \in User, NEW reach \in Reach,
           Review(u, reach) \/ ReviewFriend(u, reach) \/ TaskEnabled(u, reach)
    PROVE  ReferralInv'
<1>1. ReferralTypes /\ Underway /\ \A f \in User : member[f] = "none" => Newcomer(f)
  BY DEF ReferralInv
<1>2. /\ UNCHANGED <<people, codes, inviter, moves>> /\ Verified(u, reach)
  BY DEF Review, ReviewFriend, TaskEnabled
<1>3. /\ codes' \in [User -> Nat] /\ \A f \in User : member[f] = "none" => codes'[f] = 0
      /\ moves' \in Nat
  BY <1>1, <1>2 DEF ReferralTypes, Newcomer
<1>4. CASE Review(u, reach)
  <2>1. /\ member[u] = "member"
        /\ todo' = [user |-> None, to |-> None,
                    friends |-> {f \in Invited(u) : member[f] = "member" /\ stage[f] # "rewarded"}]
    BY <1>4 DEF Review, Nothing
  <2>2. Underway'
    BY <1>2, <2>1, UsersAssumption DEF Underway, Invited, people
  <2>3. todo' \in [user : User \cup {None}, to : Address \cup {None}, friends : SUBSET User]
    BY <2>1 DEF Invited
  <2> QED
    BY <1>2, <1>3, <2>1, <2>2, <2>3, ReviewKeeps
<1>5. CASE ReviewFriend(u, reach)
  <2>1. u \in todo.friends /\ todo' = [todo EXCEPT !.friends = @ \ {u}]
    BY <1>5 DEF ReviewFriend
  <2>2. /\ todo'.to = todo.to /\ todo'.user = todo.user /\ todo'.friends \subseteq todo.friends
        /\ todo' \in [user : User \cup {None}, to : Address \cup {None}, friends : SUBSET User]
    BY <1>1, <2>1 DEF ReferralTypes
  <2>3. Underway' /\ member[u] = "member"
    BY <1>1, <1>2, <2>1, <2>2 DEF Underway, Free, people
  <2> QED
    BY <1>2, <1>3, <2>2, <2>3, ReviewKeeps
<1>6. CASE TaskEnabled(u, reach)
  <2>1. member[u] = "member" /\ todo' = Nothing /\ todo = Nothing
    BY <1>6 DEF TaskEnabled, Quiet
  <2>2. Underway' /\ todo' \in [user : User \cup {None}, to : Address \cup {None}, friends : SUBSET User]
    BY <2>1 DEF Underway, Nothing
  <2> QED
    BY <1>2, <1>3, <2>1, <2>2, ReviewKeeps
<1> QED
  BY <1>4, <1>5, <1>6

LEMMA CreateCodeKeeps ==
    ASSUME ReferralInv, NEW u \in User, NEW reach \in Reach, CreateCode(u, reach)
    PROVE  ReferralInv'
<1>1. ReferralTypes /\ \A f \in User : member[f] = "none" => Newcomer(f)
  BY DEF ReferralInv
<1>2. /\ member[u] = "member" /\ todo = Nothing
      /\ UNCHANGED <<people, inviter, moves, todo>> /\ Verified(u, reach)
      /\ codes' = [codes EXCEPT ![u] = @ + 1]
  BY DEF CreateCode, Quiet
<1>3. /\ codes' \in [User -> Nat] /\ \A f \in User : member[f] = "none" => codes'[f] = 0
      /\ moves' \in Nat
  BY <1>1, <1>2 DEF ReferralTypes, Newcomer
<1>4. Underway' /\ todo' \in [user : User \cup {None}, to : Address \cup {None}, friends : SUBSET User]
  BY <1>2 DEF Underway, Nothing
<1> QED
  BY <1>2, <1>3, <1>4, ReviewKeeps

LEMMA ReboundKeeps ==
    ASSUME ReferralInv, NEW reach \in Reach, Rebound(reach)
    PROVE  ReferralInv'
<1> DEFINE u == todo.user
<1>1. /\ ReferralTypes /\ Underway /\ \A f \in User : member[f] = "none" => Newcomer(f)
      /\ \A f \in User : inviter[f] # f
      /\ \A f, v \in User : email[f] # None /\ email[f] = email[v] => f = v
  BY DEF ReferralInv
<1>2. /\ u \in User /\ member[u] = "member" /\ Free(todo.to) /\ todo.to \in Address
  BY <1>1 DEF Rebound, Underway, ReferralTypes
<1>3. /\ email' = [email EXCEPT ![u] = todo.to] /\ Verified(u, reach) /\ todo' = Nothing
      /\ UNCHANGED <<member, bound, firstDouyin, codes, inviter, moves>>
  BY DEF Rebound
<1>4. /\ email' \in [User -> Address \cup {None}] /\ email'[u] = todo.to
      /\ \A f \in User : f # u => email'[f] = email[f]
  BY <1>1, <1>2, <1>3 DEF ReferralTypes
<1> HIDE DEF u
<1>5. /\ firstEmail' \in [Address -> User \cup {None}]
      /\ stage' \in [User -> {"none", "registered", "rewarded"}]
      /\ total' \in [User -> 0..Cap]
      /\ \A f \in User : f # u => stage'[f] = stage[f]
      /\ RewardsAreEarned'
  <2>1. /\ inviter' \in [User -> User \cup {None}] /\ inviter'[u] # u
        /\ \A f \in User : f # u \/ stage[f] # "none" => inviter'[f] = inviter[f]
    BY <1>1, <1>2, <1>3 DEF ReferralTypes
  <2> QED
    BY <1>2, <1>3, <1>4, <2>1, VerifiedKeeps
<1>6. ReferralTypes'
  BY <1>1, <1>3, <1>4, <1>5 DEF ReferralTypes, Nothing
<1>7. \A f \in User : member'[f] = "none" => Newcomer(f)'
  BY <1>1, <1>2, <1>3, <1>4, <1>5 DEF Newcomer
<1>8. \A f \in User : inviter'[f] # f
  BY <1>1, <1>3
<1>9. \A f, v \in User : email'[f] # None /\ email'[f] = email'[v] => f = v
  BY <1>1, <1>2, <1>4 DEF Free
<1>10. Underway'
  BY <1>3 DEF Underway, Nothing
<1> QED
  BY <1>5, <1>6, <1>7, <1>8, <1>9, <1>10 DEF ReferralInv
\* Steps without a review; a ledger of identities remembers whom it has.
LEMMA OthersKeep ==
    ASSUME ReferralInv, NEW u \in User,
           \/ Delete(u)
           \/ \E q, p \in Douyin \cup {None} : Scan(u, q, p)
           \/ \E p \in Douyin : LoseAccount(u, p)
    PROVE  ReferralInv'
<1>1. /\ ReferralTypes /\ RewardsAreEarned /\ \A f \in User : member[f] = "none" => Newcomer(f)
      /\ \A f \in User : inviter[f] # f
      /\ \A f, v \in User : email[f] # None /\ email[f] = email[v] => f = v
  BY DEF ReferralInv
<1>2. todo = Nothing /\ UNCHANGED <<rewards, codes, inviter, todo>> /\ member[u] # "none"
  BY <1>1 DEF Delete, Scan, LoseAccount, Quiet, Newcomer
<1>3. /\ member' \in [User -> {"none", "member", "gone"}]
      /\ email' \in [User -> Address \cup {None}]
      /\ bound' \in [User -> SUBSET Douyin] /\ firstDouyin' \in [Douyin -> User \cup {None}]
      /\ moves' \in Nat
      /\ \A f \in User : f # u => member'[f] = member[f] /\ email'[f] = email[f] /\ bound'[f] = bound[f]
      /\ member'[u] # "none" /\ email'[u] \in {email[u], None}
      /\ \A p \in Douyin : firstDouyin[p] # None => firstDouyin'[p] = firstDouyin[p]
  <2>1. CASE Delete(u)
    BY <1>1, <2>1 DEF Delete, ReferralTypes
  <2>2. ASSUME NEW q \in Douyin \cup {None}, NEW p \in Douyin \cup {None}, Scan(u, q, p)
        PROVE  <1>3!:
    <3>1. (bound[u] \ {q}) \cup ({p} \ {None}) \in SUBSET Douyin
      BY <1>1 DEF ReferralTypes
    <3> QED
      BY <1>1, <2>2, <3>1 DEF Scan, ReferralTypes
  <2>3. ASSUME NEW p \in Douyin, LoseAccount(u, p) PROVE <1>3!:
    BY <1>1, <1>2, <2>3 DEF LoseAccount, ReferralTypes
  <2> QED
    BY <2>1, <2>2, <2>3
<1>4. ReferralTypes'
  BY <1>1, <1>2, <1>3 DEF ReferralTypes, rewards
<1>5. RewardsAreEarned'
  BY <1>1, <1>2, <1>3, UsersAssumption DEF RewardsAreEarned, HasEmail, HasDouyin, rewards
<1>6. \A f \in User : member'[f] = "none" => Newcomer(f)'
  BY <1>1, <1>2, <1>3 DEF Newcomer, rewards
<1>7. \A f, v \in User : email'[f] # None /\ email'[f] = email'[v] => f = v
  BY <1>1, <1>3
<1>8. Underway' /\ \A f \in User : inviter'[f] # f
  BY <1>1, <1>2 DEF Underway, Nothing
<1> QED
  BY <1>4, <1>5, <1>6, <1>7, <1>8 DEF ReferralInv

LEMMA ReferralStart == ReferralInit => ReferralInv
<1> SUFFICES ASSUME ReferralInit PROVE ReferralInv
  OBVIOUS
<1>1. ReferralTypes
  BY LimitsAssumption DEF ReferralInit, ReferralTypes, Nothing
<1>2. Underway /\ \A u \in User : Newcomer(u)
  BY DEF ReferralInit, Underway, Nothing, Newcomer
<1>3. \A u \in User : email[u] = None /\ inviter[u] # u
  BY UsersAssumption DEF ReferralInit
<1>4. RewardsAreEarned
  BY DEF ReferralInit, RewardsAreEarned
<1> QED
  BY <1>1, <1>2, <1>3, <1>4 DEF ReferralInv

LEMMA ReferralStep == ReferralInv /\ [ReferralNext]_referralVars => ReferralInv'
<1> SUFFICES ASSUME ReferralInv, [ReferralNext]_referralVars PROVE ReferralInv'
  OBVIOUS
<1>1. CASE UNCHANGED referralVars
  BY <1>1 DEF ReferralInv, ReferralTypes, Underway, Free, Newcomer, RewardsAreEarned, HasEmail,
              HasDouyin, referralVars, people, rewards
<1>2. CASE \E u \in User : \/ Delete(u)
                           \/ \E q, p \in Douyin \cup {None} : Scan(u, q, p)
                           \/ \E p \in Douyin : LoseAccount(u, p)
  BY <1>2, OthersKeep
<1>3. ASSUME NEW u \in User, NEW reach \in Reach,
             \/ \E i \in User \cup {None}, a \in Address \cup {None} : Join(u, i, a, reach)
             \/ Review(u, reach) \/ ReviewFriend(u, reach)
             \/ TaskEnabled(u, reach) \/ CreateCode(u, reach)
             \/ \E a \in Address : Rebind(u, a, reach)
      PROVE  ReferralInv'
  BY <1>3, JoinKeeps, ReviewsKeep, CreateCodeKeeps, RebindKeeps
<1>4. CASE \E reach \in Reach : Rebound(reach)
  BY <1>4, ReboundKeeps
<1> QED
  BY <1>1, <1>2, <1>3, <1>4 DEF ReferralNext

\* A friend is rewarded for an address and a Douyin account that were his before
\* anybody's, and by somebody else whose address was so too.
THEOREM ReferralInductive == ReferralSpec => []ReferralInv
BY ReferralStart, ReferralStep, PTL DEF ReferralSpec

-----------------------------------------------------------------------------
(* Codes.                                                                    *)

\* No step takes from a user that he was the first with an identity, and whoever
\* makes a code beyond FreeCodes is.
LEMMA CodesStep ==
    ASSUME ReferralInv, CodesAreEarned, [ReferralNext]_referralVars
    PROVE  CodesAreEarned'
<1>1. ReferralTypes
  BY DEF ReferralInv
<1>2. ASSUME NEW u \in User, NEW reach \in Reach, CreateCode(u, reach)
      PROVE  CodesAreEarned'
  <2>1. /\ firstDouyin' = firstDouyin /\ codes' = [codes EXCEPT ![u] = @ + 1]
        /\ codes[u] >= FreeCodes => DouyinVerified(u)
    BY <1>2 DEF CreateCode, people
  <2>2. codes[u] >= FreeCodes => HasDouyin(u)
    BY <1>1, <2>1 DEF ReferralTypes, DouyinVerified, HasDouyin
  <2>3. \A f \in User : HasDouyin(f) => HasDouyin(f)'
    BY <2>1 DEF HasDouyin
  <2> SUFFICES ASSUME NEW f \in User, codes'[f] > FreeCodes PROVE HasDouyin(f)'
    BY DEF CodesAreEarned
  <2>4. CASE f = u
    BY <1>1, <2>1, <2>2, <2>3, <2>4, LimitsAssumption DEF ReferralTypes
  <2>5. CASE f # u
    BY <1>1, <2>1, <2>3, <2>5 DEF ReferralTypes, CodesAreEarned
  <2> QED
    BY <2>4, <2>5
<1>3. CASE codes' = codes /\ \A p \in Douyin : firstDouyin[p] # None => firstDouyin'[p] = firstDouyin[p]
  BY <1>3, UsersAssumption DEF CodesAreEarned, HasDouyin
<1>4. CASE UNCHANGED referralVars
  BY <1>3, <1>4 DEF referralVars, people
<1>5. ASSUME NEW u \in User,
             \/ Delete(u)
             \/ \E q, p \in Douyin \cup {None} : Scan(u, q, p)
             \/ \E p \in Douyin : LoseAccount(u, p)
      PROVE  CodesAreEarned'
  BY <1>1, <1>3, <1>5 DEF Delete, Scan, LoseAccount, ReferralTypes
<1>6. ASSUME NEW u \in User, NEW reach \in Reach,
             \/ \E i \in User \cup {None}, a \in Address \cup {None} : Join(u, i, a, reach)
             \/ Review(u, reach) \/ ReviewFriend(u, reach) \/ TaskEnabled(u, reach)
             \/ \E a \in Address : Rebind(u, a, reach)
      PROVE  CodesAreEarned'
  <2>1. CASE \E i \in User \cup {None}, a \in Address \cup {None} : Join(u, i, a, reach)
    BY <1>3, <2>1 DEF Join
  <2>2. CASE Review(u, reach) \/ ReviewFriend(u, reach) \/ TaskEnabled(u, reach)
    BY <1>3, <2>2 DEF Review, ReviewFriend, TaskEnabled, people
  <2>3. CASE \E a \in Address : Rebind(u, a, reach)
    BY <1>3, <2>3 DEF Rebind, people
  <2> QED
    BY <1>6, <2>1, <2>2, <2>3
<1>7. ASSUME NEW reach \in Reach, Rebound(reach)
      PROVE  CodesAreEarned'
  BY <1>3, <1>7 DEF Rebound
<1> QED
  BY <1>2, <1>4, <1>5, <1>6, <1>7 DEF ReferralNext

\* Whoever made more than FreeCodes codes was the first with some Douyin account.
THEOREM CodesEarned == ReferralSpec => []CodesAreEarned
<1>1. ReferralInit => CodesAreEarned
  BY LimitsAssumption DEF ReferralInit, CodesAreEarned
<1> QED
  BY <1>1, CodesStep, ReferralInductive, PTL DEF ReferralSpec
-----------------------------------------------------------------------------
(* Tiers.  What TierSum is, by the least number for which it is not.         *)

LEMMA LeastOf ==
    ASSUME NEW S \in SUBSET Nat, S # {}
    PROVE  \E m \in S : \A n \in S : m <= n
<1> DEFINE Below == OpToRel(<, Nat)
<1>1. IsWellFoundedOn(Below, Nat)
  BY NatLessThanWellFounded, Zenon
<1>2. \A m, n \in Nat : m < n => <<m, n>> \in Below
  BY DEF OpToRel
<1> HIDE DEF Below
<1>3. PICK m \in S : \A n \in S : ~(<<n, m>> \in Below)
  BY <1>1, WFMin
<1>4. \A n \in S : m <= n
  <2> SUFFICES ASSUME NEW n \in S, ~(m <= n) PROVE FALSE
    OBVIOUS
  <2>1. m \in Nat /\ n \in Nat /\ n < m
    OBVIOUS
  <2> QED
    BY <1>2, <1>3, <2>1
<1> QED
  BY <1>4

\* A function that adds up the first k tiers.
Adds(f, k) ==
    f \in [0..k -> Nat] /\ \A n \in 0..k : f[n] = IF n = 0 THEN 0 ELSE f[n - 1] + Tier(n - 1)

LEMMA SomeAdds == \A k \in Nat : \E f : Adds(f, k)
<1> DEFINE Bad == {k \in Nat : ~\E f : Adds(f, k)}
<1> SUFFICES ASSUME Bad # {} PROVE FALSE
  OBVIOUS
<1>1. PICK m \in Bad : \A n \in Bad : m <= n
  BY LeastOf
<1>2. CASE m = 0
  <2>1. Adds([n \in 0..0 |-> 0], 0)
    BY DEF Adds
  <2> QED
    BY <1>2, <2>1
<1>3. CASE m # 0
  <2>1. m - 1 \in Nat /\ m - 1 \notin Bad
    BY <1>1, <1>3
  <2>2. PICK f : Adds(f, m - 1)
    BY <2>1
  <2> DEFINE g == [n \in 0..m |-> IF n = m THEN f[m - 1] + Tier(m - 1) ELSE f[n]]
  <2>3. Tier(m - 1) \in Nat /\ f[m - 1] \in Nat
    BY <2>1, <2>2, TierType DEF Adds
  <2>4. g \in [0..m -> Nat]
    BY <2>1, <2>2, <2>3 DEF Adds
  <2>5. \A n \in 0..m : g[n] = IF n = 0 THEN 0 ELSE g[n - 1] + Tier(n - 1)
    <3> SUFFICES ASSUME NEW n \in 0..m PROVE g[n] = IF n = 0 THEN 0 ELSE g[n - 1] + Tier(n - 1)
      OBVIOUS
    <3>1. CASE n = m
      BY <1>3, <2>1, <3>1
    <3>2. CASE n # m
      <4>1. n \in 0..(m - 1) /\ n # m /\ g[n] = f[n] /\ (n # 0 => g[n - 1] = f[n - 1])
        BY <2>1, <3>2
      <4> QED
        BY <2>2, <4>1 DEF Adds
    <3> QED
      BY <3>1, <3>2
  <2>6. Adds(g, m)
    BY <2>4, <2>5 DEF Adds
  <2> QED
    BY <2>6
<1> QED
  BY <1>2, <1>3

LEMMA TierSumType ==
    /\ TierSum[0] = 0
    /\ \A n \in 0..Cardinality(User) : TierSum[n] \in Nat
    /\ \A n \in 0..Cardinality(User) :
          n + 1 <= Cardinality(User) => TierSum[n + 1] = TierSum[n] + Tier(n)
<1> DEFINE C == Cardinality(User)
           Sums(f) == f = [n \in 0..C |-> IF n = 0 THEN 0 ELSE f[n - 1] + Tier(n - 1)]
<1>1. C \in Nat
  BY CountType
<1>2. PICK f : Adds(f, C)
  BY <1>1, SomeAdds
<1>3. Sums(f)
  BY <1>2 DEF Adds
<1>4. TierSum = CHOOSE g : Sums(g)
  BY DEF TierSum
<1>5. Sums(TierSum)
  BY <1>3, <1>4, Zenon
<1>6. \A n \in 0..C : TierSum[n] = IF n = 0 THEN 0 ELSE TierSum[n - 1] + Tier(n - 1)
  BY <1>5
<1> HIDE DEF C, Sums
<1>7. \A n \in 0..C : TierSum[n] \in Nat
  <2> DEFINE Bad == {n \in 0..C : TierSum[n] \notin Nat}
  <2> SUFFICES ASSUME Bad # {} PROVE FALSE
    OBVIOUS
  <2>1. Bad \in SUBSET Nat
    BY <1>1
  <2>2. PICK m \in Bad : \A n \in Bad : m <= n
    BY <2>1, LeastOf
  <2>3. m # 0
    BY <1>6, <2>2
  <2>4. m - 1 \in 0..C /\ m - 1 \notin Bad
    BY <1>1, <2>2, <2>3
  <2>5. TierSum[m - 1] \in Nat /\ Tier(m - 1) \in Nat
    BY <1>1, <2>4, TierType
  <2> QED
    BY <1>1, <1>6, <2>2, <2>3, <2>5
<1>8. TierSum[0] = 0
  BY <1>1, <1>6
<1>9. \A n \in 0..C : n + 1 <= C => TierSum[n + 1] = TierSum[n] + Tier(n)
  <2> SUFFICES ASSUME NEW n \in 0..C, n + 1 <= C PROVE TierSum[n + 1] = TierSum[n] + Tier(n)
    OBVIOUS
  <2>1. n + 1 \in 0..C /\ n + 1 # 0 /\ (n + 1) - 1 = n
    BY <1>1
  <2> QED
    BY <1>6, <2>1
<1> QED
  BY <1>7, <1>8, <1>9 DEF C

\* Friends that were rewarded for their registration alone.
Waiting(u) == {f \in Invited(u) : stage[f] = "registered"}

LEMMA CreditAt ==
    ASSUME NEW days \in [User -> 0..Cap], NEW u \in User, NEW d \in Nat, NEW v \in User
    PROVE  Credit(days, u, d)[v] = IF v \in {u, inviter'[u]} THEN Minimum(Cap, days[v] + d) ELSE days[v]
<1>1. days[v] + Minimum(d, Cap - days[v]) = Minimum(Cap, days[v] + d)
  BY LimitsAssumption DEF Minimum
<1> QED
  BY <1>1 DEF Credit

\* Days up to the cap add up like days.
LEMMA CapAdds ==
    ASSUME NEW x \in Nat, NEW d \in Nat
    PROVE  Minimum(Cap, Minimum(Cap, x) + d) = Minimum(Cap, x + d)
BY LimitsAssumption DEF Minimum

\* What the review of a friend adds to the two numbers of his inviter.
LEMMA FriendCounts ==
    ASSUME ReferralInv, NEW u \in User, NEW reach \in Reach, Registers(u, reach),
           inviter' \in [User -> User \cup {None}],
           \A f \in User : f # u \/ stage[f] # "none" => inviter'[f] = inviter[f],
           stage' = [stage EXCEPT ![u] = IF Activates(u, reach) THEN "rewarded" ELSE "registered"],
           NEW v \in User, inviter'[u] = v
    PROVE  /\ Cardinality(Rewarded(v)) \in 0..Cardinality(User)
           /\ Cardinality(Waiting(v)) \in Nat /\ Cardinality(Waiting(v)') \in Nat
           /\ Activates(u, reach) => /\ Cardinality(Rewarded(v)') = Cardinality(Rewarded(v)) + 1
                                     /\ Cardinality(Rewarded(v)) + 1 <= Cardinality(User)
           /\ ~Activates(u, reach) => Cardinality(Rewarded(v)') = Cardinality(Rewarded(v))
           /\ Cardinality(Waiting(v)') =
                 Cardinality(Waiting(v)) + (IF Activates(u, reach) THEN 0 ELSE 1)
                                         - (IF stage[u] = "none" THEN 0 ELSE 1)
<1>1. ReferralTypes
  BY DEF ReferralInv
<1>2. stage[u] \in {"none", "registered"}
  BY <1>1 DEF Registers, Considered, ReferralTypes
<1>3. /\ u \notin Rewarded(v)
      /\ Rewarded(v)' = IF Activates(u, reach) THEN Rewarded(v) \cup {u} ELSE Rewarded(v)
  BY <1>1, <1>2 DEF Rewarded, Invited, ReferralTypes
<1>4. /\ u \in Waiting(v) <=> stage[u] = "registered"
      /\ Waiting(v)' = IF Activates(u, reach) THEN Waiting(v) \ {u} ELSE Waiting(v) \cup {u}
  BY <1>1, <1>2 DEF Waiting, Invited, ReferralTypes
<1>5. /\ Rewarded(v) \in SUBSET User /\ Rewarded(v)' \in SUBSET User
      /\ Waiting(v) \in SUBSET User /\ Waiting(v)' \in SUBSET User
  BY DEF Rewarded, Waiting, Invited
<1>6. /\ IsFiniteSet(Rewarded(v)) /\ IsFiniteSet(Waiting(v))
      /\ Cardinality(Rewarded(v)) \in Nat /\ Cardinality(Rewarded(v)') \in Nat
      /\ Cardinality(Waiting(v)) \in Nat /\ Cardinality(Waiting(v)') \in Nat
      /\ Cardinality(User) \in Nat
  BY <1>5, CountType
<1>7. Cardinality(Rewarded(v)) <= Cardinality(User) /\ Cardinality(Rewarded(v)') <= Cardinality(User)
  BY <1>5, UsersAssumption, FS_Subset
<1>8. /\ Cardinality(Rewarded(v) \cup {u}) = Cardinality(Rewarded(v)) + 1
      /\ Cardinality(Waiting(v) \cup {u}) = 
            IF u \in Waiting(v) THEN Cardinality(Waiting(v)) ELSE Cardinality(Waiting(v)) + 1
  BY <1>3, <1>6, FS_AddElement, Zenon
<1>9. Cardinality(Waiting(v) \ {u}) =
         IF u \in Waiting(v) THEN Cardinality(Waiting(v)) - 1 ELSE Cardinality(Waiting(v))
  BY <1>6, FS_RemoveElement, Zenon
<1>10. CASE Activates(u, reach)
  <2>1. Cardinality(Rewarded(v)') = Cardinality(Rewarded(v)) + 1
    BY <1>3, <1>8, <1>10
  <2>2. Cardinality(Waiting(v)') = Cardinality(Waiting(v)) - IF stage[u] = "none" THEN 0 ELSE 1
    BY <1>2, <1>4, <1>6, <1>9, <1>10
  <2> QED
    BY <1>6, <1>7, <1>10, <2>1, <2>2
<1>11. CASE ~Activates(u, reach)
  <2>1. Cardinality(Rewarded(v)') = Cardinality(Rewarded(v))
    BY <1>3, <1>11
  <2>2. Cardinality(Waiting(v)') = Cardinality(Waiting(v)) + IF stage[u] = "none" THEN 1 ELSE 0
    BY <1>2, <1>4, <1>6, <1>8, <1>11
  <2> QED
    BY <1>6, <1>7, <1>11, <2>1, <2>2
<1> QED
  BY <1>10, <1>11
\* A review of a friend leaves the days of his inviter in order, and everybody
\* else's as they were.
LEMMA ReviewInOrder ==
    ASSUME ReferralInv, TiersInOrder, NEW u \in User, NEW reach \in Reach, Verified(u, reach),
           inviter' \in [User -> User \cup {None}], inviter'[u] # u,
           \A f \in User : f # u \/ stage[f] # "none" \/ inviter[f] # None => inviter'[f] = inviter[f]
    PROVE  TiersInOrder'
<1>1. /\ ReferralTypes /\ \A f \in User : stage[f] # "none" => inviter[f] \in User
      /\ \A f \in User : f # u \/ stage[f] # "none" => inviter'[f] = inviter[f]
  BY DEF ReferralInv, RewardsAreEarned
<1>2. /\ stage' = [stage EXCEPT ![u] = IF Activates(u, reach) THEN "rewarded"
                                       ELSE IF Registers(u, reach) THEN "registered" ELSE @]
      /\ \A f \in User : f # u => stage'[f] = stage[f]
      /\ ~Registers(u, reach) => stage' = stage /\ total' = total
  BY <1>1 DEF Verified, Activates, ReferralTypes
<1>3. Registers(u, reach) => inviter'[u] \in User /\ stage[u] \in {"none", "registered"}
  BY <1>1 DEF Registers, Considered, ReferralTypes
<1> SUFFICES ASSUME NEW v \in User, inviter'[v] = None
    PROVE  total'[v] = Minimum(Cap, TierSum[Cardinality(Rewarded(v)')]
                               + Registered * Cardinality(Waiting(v)'))
  BY DEF TiersInOrder, Waiting
<1>4. inviter[v] = None
  BY <1>1
<1>5. total[v] = Minimum(Cap, TierSum[Cardinality(Rewarded(v))] + Registered * Cardinality(Waiting(v)))
  BY <1>4 DEF TiersInOrder, Waiting
<1>6. CASE ~Registers(u, reach) \/ inviter'[u] # v
  <2>1. Rewarded(v)' = Rewarded(v) /\ Waiting(v)' = Waiting(v)
    <3>1. ASSUME NEW f \in User
          PROVE  /\ (inviter'[f] = v /\ stage'[f] = "rewarded") <=> (inviter[f] = v /\ stage[f] = "rewarded")
                 /\ (inviter'[f] = v /\ stage'[f] = "registered") <=> (inviter[f] = v /\ stage[f] = "registered")
      <4>1. CASE f # u
        BY <1>1, <1>2, <4>1
      <4>2. CASE f = u /\ ~Registers(u, reach)
        BY <1>1, <1>2, <4>2
      <4>3. CASE f = u /\ inviter'[u] # v
        BY <1>1, <4>3, UsersAssumption
      <4> QED
        BY <1>6, <4>1, <4>2, <4>3
    <3> QED
      BY <3>1 DEF Rewarded, Waiting, Invited
  <2>2. total'[v] = total[v]
    <3>1. CASE ~Registers(u, reach)
      BY <1>2, <3>1
    <3>2. CASE Registers(u, reach)
      <4>1. v \notin {u, inviter'[u]}
        BY <1>3, <1>6, <3>2, UsersAssumption
      <4>2. \A days, d : Credit(days, u, d)[v] = days[v]
        BY <4>1 DEF Credit
      <4> QED
        BY <4>2 DEF Verified
    <3> QED
      BY <3>1, <3>2
  <2> QED
    BY <1>5, <2>1, <2>2
<1>7. CASE Registers(u, reach) /\ inviter'[u] = v
  <2> DEFINE n == Cardinality(Rewarded(v))
             w == Cardinality(Waiting(v))
             once == IF stage[u] = "none" THEN Credit(total, u, Registered) ELSE total
  <2>1. /\ n \in 0..Cardinality(User) /\ w \in Nat /\ Cardinality(Waiting(v)') \in Nat
        /\ Activates(u, reach) => Cardinality(Rewarded(v)') = n + 1 /\ n + 1 <= Cardinality(User)
        /\ ~Activates(u, reach) => Cardinality(Rewarded(v)') = n
        /\ Cardinality(Waiting(v)') = w + (IF Activates(u, reach) THEN 0 ELSE 1)
                                        - (IF stage[u] = "none" THEN 0 ELSE 1)
    <3>1. stage' = [stage EXCEPT ![u] = IF Activates(u, reach) THEN "rewarded" ELSE "registered"]
      BY <1>2, <1>7
    <3> QED
      BY <1>1, <1>7, <3>1, FriendCounts
  <2>2. /\ TierSum[n] \in Nat
        /\ Activates(u, reach) => TierSum[n + 1] = TierSum[n] + Tier(n)
    BY <2>1, TierSumType
  <2>3. n \in Nat /\ Tier(n) \in Nat /\ Tier(n) >= 5
    BY <2>1, CountType, UsersAssumption, TierType DEF Registered
  <2>4. total' = IF Activates(u, reach) THEN Credit(once, u, Tier(n) - Registered) ELSE once
    BY <1>7 DEF Verified
  <2>5. total \in [User -> 0..Cap] /\ once \in [User -> 0..Cap]
    BY <1>1, CreditType DEF ReferralTypes, Registered
  <2>6. once[v] = IF stage[u] = "none" THEN Minimum(Cap, total[v] + 5) ELSE total[v]
    BY <1>7, <2>5, CreditAt DEF Registered
  <2>7. Activates(u, reach) => total'[v] = Minimum(Cap, once[v] + (Tier(n) - 5))
    <3>1. Tier(n) - 5 \in Nat
      BY <2>3
    <3> HIDE DEF once, n
    <3>2. Credit(once, u, Tier(n) - 5)[v] = Minimum(Cap, once[v] + (Tier(n) - 5))
      BY <1>7, <2>5, <3>1, CreditAt
    <3> QED
      BY <2>4, <3>2 DEF Registered
  <2>8. ~Activates(u, reach) => total'[v] = once[v]
    BY <2>4
  <2>9. total[v] = Minimum(Cap, TierSum[n] + 5 * w)
    BY <1>5 DEF Registered
  <2> HIDE DEF once, n, w
  <2> DEFINE x == TierSum[n] + 5 * w
  <2>10. x \in Nat /\ total[v] = Minimum(Cap, x)
    BY <2>1, <2>2, <2>9
  <2>11. once[v] = Minimum(Cap, IF stage[u] = "none" THEN x + 5 ELSE x)
    <3>1. Minimum(Cap, Minimum(Cap, x) + 5) = Minimum(Cap, x + 5)
      BY <2>10, CapAdds
    <3> HIDE DEF x
    <3> QED
      BY <2>6, <2>10, <3>1
  <2>12. CASE ~Activates(u, reach)
    <3>1. IF stage[u] = "none" THEN Cardinality(Waiting(v)') = w + 1 ELSE Cardinality(Waiting(v)') = w
      BY <1>3, <1>7, <2>1, <2>12
    <3>2. (IF stage[u] = "none" THEN x + 5 ELSE x)
            = TierSum[Cardinality(Rewarded(v)')] + 5 * Cardinality(Waiting(v)')
      BY <2>1, <2>2, <2>12, <3>1
    <3> QED
      BY <2>8, <2>11, <2>12, <3>2 DEF Registered
  <2>13. CASE Activates(u, reach)
    <3> DEFINE y == IF stage[u] = "none" THEN x + 5 ELSE x
    <3>1. y \in Nat /\ Tier(n) - 5 \in Nat /\ once[v] = Minimum(Cap, y)
      BY <2>3, <2>10, <2>11
    <3>2. total'[v] = Minimum(Cap, y + (Tier(n) - 5))
      <4> HIDE DEF y, x
      <4>1. Minimum(Cap, Minimum(Cap, y) + (Tier(n) - 5)) = Minimum(Cap, y + (Tier(n) - 5))
        BY <3>1, CapAdds
      <4> QED
        BY <2>7, <2>13, <3>1, <4>1
    <3>3. IF stage[u] = "none" THEN Cardinality(Waiting(v)') = w ELSE Cardinality(Waiting(v)') = w - 1
      BY <1>3, <1>7, <2>1, <2>13
    <3>4. y + (Tier(n) - 5) = TierSum[n + 1] + 5 * Cardinality(Waiting(v)')
      <4>1. TierSum[n + 1] = TierSum[n] + Tier(n)
        BY <2>2, <2>13
      <4> QED
        BY <2>1, <2>2, <2>3, <3>3, <4>1
    <3>5. Cardinality(Rewarded(v)') = n + 1
      BY <2>1, <2>13
    <3> QED
      BY <3>2, <3>4, <3>5 DEF Registered
  <2> QED
    BY <2>12, <2>13
<1> QED
  BY <1>6, <1>7

LEMMA TiersStep ==
    ASSUME ReferralInv, TiersInOrder, [ReferralNext]_referralVars
    PROVE  TiersInOrder'
<1>1. ReferralTypes /\ \A f \in User : (member[f] = "none" => Newcomer(f)) /\ inviter[f] # f
  BY DEF ReferralInv
<1>2. CASE UNCHANGED <<inviter, stage, total>>
  BY <1>2 DEF TiersInOrder, Rewarded, Invited
<1>3. ASSUME NEW u \in User, NEW reach \in Reach, inviter' = inviter, Verified(u, reach)
      PROVE  TiersInOrder'
  <2>1. /\ inviter' \in [User -> User \cup {None}] /\ inviter'[u] # u
        /\ \A f \in User : inviter'[f] = inviter[f]
    BY <1>1, <1>3 DEF ReferralTypes
  <2> QED
    BY <1>3, <2>1, ReviewInOrder
<1>4. CASE UNCHANGED referralVars
  BY <1>2, <1>4 DEF referralVars, rewards
<1>5. ASSUME NEW u \in User,
             \/ Delete(u)
             \/ \E q, p \in Douyin \cup {None} : Scan(u, q, p)
             \/ \E p \in Douyin : LoseAccount(u, p)
      PROVE  TiersInOrder'
  BY <1>2, <1>5 DEF Delete, Scan, LoseAccount, rewards
<1>6. ASSUME NEW u \in User, NEW reach \in Reach, NEW i \in User \cup {None},
             NEW a \in Address \cup {None}, Join(u, i, a, reach)
      PROVE  TiersInOrder'
  <2>1. inviter' = [inviter EXCEPT ![u] = i] /\ Verified(u, reach)
    BY <1>6 DEF Join
  <2>2. Newcomer(u)
    BY <1>1, <1>6 DEF Join
  <2>3. i # u
    <3>1. Cardinality(Invited(u)) \in Nat
      BY CountType DEF Invited
    <3> QED
      BY <1>6, <2>2, <3>1, UsersAssumption DEF Join, Newcomer
  <2>4. /\ inviter' \in [User -> User \cup {None}] /\ inviter'[u] # u
        /\ \A f \in User : f # u \/ stage[f] # "none" \/ inviter[f] # None => inviter'[f] = inviter[f]
    BY <1>1, <2>1, <2>2, <2>3 DEF ReferralTypes, Newcomer
  <2> QED
    BY <2>1, <2>4, ReviewInOrder
<1>7. ASSUME NEW u \in User, NEW reach \in Reach,
             \/ Review(u, reach) \/ ReviewFriend(u, reach) \/ TaskEnabled(u, reach)
             \/ \E a \in Address : Rebind(u, a, reach)
      PROVE  TiersInOrder'
  <2>1. inviter' = inviter /\ Verified(u, reach)
    <3>1. CASE Review(u, reach) \/ ReviewFriend(u, reach) \/ TaskEnabled(u, reach)
      BY <3>1 DEF Review, ReviewFriend, TaskEnabled
    <3>2. CASE \E a \in Address : Rebind(u, a, reach)
      BY <3>2 DEF Rebind
    <3> QED
      BY <1>7, <3>1, <3>2
  <2> QED
    BY <1>3, <2>1
<1>8. ASSUME NEW u \in User, NEW reach \in Reach, CreateCode(u, reach)
      PROVE  TiersInOrder'
  BY <1>3, <1>8 DEF CreateCode
<1>9. ASSUME NEW reach \in Reach, Rebound(reach)
      PROVE  TiersInOrder'
  <2>1. todo.user \in User
    BY <1>9 DEF ReferralInv, Rebound, Underway
  <2> QED
    BY <1>3, <1>9, <2>1 DEF Rebound
<1> QED
  BY <1>4, <1>5, <1>6, <1>7, <1>8, <1>9 DEF ReferralNext

\* Whoever was not invited himself has, up to the cap, the days of the tiers in
\* order, one for each rewarded friend, and those of registration for each other.
THEOREM TiersGivenInOrder == ReferralSpec => []TiersInOrder
<1>1. ReferralInit => TiersInOrder
  <2> SUFFICES ASSUME ReferralInit, NEW u \in User
      PROVE  total[u] = Minimum(Cap, TierSum[Cardinality(Rewarded(u))]
                                + Registered * Cardinality({f \in Invited(u) : stage[f] = "registered"}))
    BY DEF TiersInOrder
  <2>1. total[u] = 0 /\ Rewarded(u) = {} /\ {f \in Invited(u) : stage[f] = "registered"} = {}
    BY DEF ReferralInit, Rewarded, Invited
  <2>2. Cardinality({}) = 0
    BY FS_EmptySet
  <2> QED
    BY <2>1, <2>2, TierSumType, LimitsAssumption DEF Minimum, Registered
<1> QED
  BY <1>1, TiersStep, ReferralInductive, PTL DEF ReferralSpec
-----------------------------------------------------------------------------
(* The friends that Renewals counts.                                         *)

\* As far as a price asks for them.
Friends == [u \in User |-> Minimum(2, Cardinality(Rewarded(u)))]

\* A review rewards one friend of one inviter at most, and no reward is taken back.
LEMMA ReviewRewardsOne ==
    ASSUME ReferralInv, NEW u \in User, NEW reach \in Reach, Verified(u, reach),
           inviter' \in [User -> User \cup {None}],
           \A f \in User : f # u \/ stage[f] # "none" => inviter'[f] = inviter[f]
    PROVE  \E v \in User :
              /\ \A w \in User \ {v} : Rewarded(w)' = Rewarded(w)
              /\ Cardinality(Rewarded(v)') \in {Cardinality(Rewarded(v)), Cardinality(Rewarded(v)) + 1}
<1>1. ReferralTypes /\ \A f \in User : stage[f] # "none" => inviter[f] \in User
  BY DEF ReferralInv, RewardsAreEarned
<1>2. stage' = [stage EXCEPT ![u] = IF Activates(u, reach) THEN "rewarded"
                                    ELSE IF Registers(u, reach) THEN "registered" ELSE @]
  BY DEF Verified
<1>3. CASE ~Activates(u, reach)
  <2>1. \A f \in User : stage'[f] = "rewarded" <=> stage[f] = "rewarded"
    BY <1>1, <1>2, <1>3 DEF Registers, Considered, ReferralTypes
  <2>2. \A w \in User : Rewarded(w)' = Rewarded(w)
    BY <1>1, <2>1 DEF Rewarded, Invited
  <2> QED
    BY <2>2
<1>4. CASE Activates(u, reach)
  <2>0. PICK v \in User : v = inviter'[u]
    BY <1>4, UsersAssumption DEF Activates, Registers, Considered
  <2>1. inviter'[u] = v /\ stage[u] # "rewarded" /\ stage'[u] = "rewarded"
    BY <1>1, <1>2, <1>4, <2>0 DEF Activates, Registers, Considered, ReferralTypes
  <2>2. \A f \in User : f # u => stage'[f] = stage[f] /\ inviter'[f] = inviter[f]
    BY <1>1, <1>2 DEF ReferralTypes
  <2>3. ASSUME NEW w \in User \ {v} PROVE Rewarded(w)' = Rewarded(w)
    <3>1. \A f \in User : (inviter'[f] = w /\ stage'[f] = "rewarded") <=> (inviter[f] = w /\ stage[f] = "rewarded")
      BY <2>1, <2>2
    <3> QED
      BY <3>1 DEF Rewarded, Invited
  <2>4. u \notin Rewarded(v) /\ Rewarded(v)' = Rewarded(v) \cup {u}
    BY <2>1, <2>2 DEF Rewarded, Invited
  <2>5. IsFiniteSet(Rewarded(v))
    BY CountType DEF Rewarded, Invited
  <2>6. Cardinality(Rewarded(v)') = Cardinality(Rewarded(v)) + 1
    BY <2>4, <2>5, FS_AddElement
  <2>7. \A w \in User \ {v} : Rewarded(w)' = Rewarded(w)
    BY <2>3
  <2> QED
    BY <2>6, <2>7
<1> QED
  BY <1>3, <1>4

LEMMA StepRewardsOne ==
    ASSUME ReferralInv, [ReferralNext]_referralVars
    PROVE  UNCHANGED Friends \/ \E v \in User : Friends[v] < 2 /\ Friends' = [Friends EXCEPT ![v] = @ + 1]
<1>1. ReferralTypes /\ \A f \in User : member[f] = "none" => Newcomer(f)
  BY DEF ReferralInv
<1>2. ASSUME UNCHANGED <<inviter, stage>> PROVE UNCHANGED Friends
  BY <1>2 DEF Friends, Rewarded, Invited
<1>3. ASSUME NEW v \in User, \A w \in User \ {v} : Rewarded(w)' = Rewarded(w),
             Cardinality(Rewarded(v)') \in {Cardinality(Rewarded(v)), Cardinality(Rewarded(v)) + 1}
      PROVE  UNCHANGED Friends \/ (Friends[v] < 2 /\ Friends' = [Friends EXCEPT ![v] = @ + 1])
  <2>1. Cardinality(Rewarded(v)) \in Nat
    BY CountType DEF Rewarded, Invited
  <2>2. \A w \in User : w # v => Friends'[w] = Friends[w]
    BY <1>3 DEF Friends
  <2>3. Friends'[v] = Friends[v] \/ (Friends[v] < 2 /\ Friends'[v] = Friends[v] + 1)
    BY <1>3, <2>1 DEF Friends, Minimum
  <2>4. Friends = [w \in User |-> Friends[w]] /\ Friends' = [w \in User |-> Friends'[w]]
    BY DEF Friends
  <2> HIDE DEF Friends
  <2>5. CASE Friends'[v] = Friends[v]
    BY <2>2, <2>4, <2>5
  <2>6. CASE Friends[v] < 2 /\ Friends'[v] = Friends[v] + 1
    BY <2>2, <2>4, <2>6
  <2> QED
    BY <2>3, <2>5, <2>6
<1>4. ASSUME NEW u \in User, NEW reach \in Reach, Verified(u, reach),
             inviter' \in [User -> User \cup {None}],
             \A f \in User : f # u \/ stage[f] # "none" => inviter'[f] = inviter[f]
      PROVE  UNCHANGED Friends \/ \E v \in User : Friends[v] < 2 /\ Friends' = [Friends EXCEPT ![v] = @ + 1]
  <2>1. PICK v \in User :
           /\ \A w \in User \ {v} : Rewarded(w)' = Rewarded(w)
           /\ Cardinality(Rewarded(v)') \in {Cardinality(Rewarded(v)), Cardinality(Rewarded(v)) + 1}
    BY <1>4, ReviewRewardsOne
  <2> QED
    BY <1>3, <2>1
<1>5. ASSUME NEW u \in User, NEW reach \in Reach, inviter' = inviter, Verified(u, reach)
      PROVE  UNCHANGED Friends \/ \E v \in User : Friends[v] < 2 /\ Friends' = [Friends EXCEPT ![v] = @ + 1]
  BY <1>1, <1>4, <1>5 DEF ReferralTypes
<1>6. CASE UNCHANGED referralVars
  BY <1>2, <1>6 DEF referralVars, rewards
<1>7. CASE \E u \in User : \/ Delete(u)
                           \/ \E q, p \in Douyin \cup {None} : Scan(u, q, p)
                           \/ \E p \in Douyin : LoseAccount(u, p)
  BY <1>2, <1>7 DEF Delete, Scan, LoseAccount, rewards
<1>8. ASSUME NEW u \in User, NEW reach \in Reach, NEW i \in User \cup {None},
             NEW a \in Address \cup {None}, Join(u, i, a, reach)
      PROVE  UNCHANGED Friends \/ \E v \in User : Friends[v] < 2 /\ Friends' = [Friends EXCEPT ![v] = @ + 1]
  <2>1. inviter' = [inviter EXCEPT ![u] = i] /\ Verified(u, reach) /\ stage[u] = "none"
    BY <1>1, <1>8 DEF Join, Newcomer
  <2>2. /\ inviter' \in [User -> User \cup {None}]
        /\ \A f \in User : f # u \/ stage[f] # "none" => inviter'[f] = inviter[f]
    BY <1>1, <2>1 DEF ReferralTypes
  <2> QED
    BY <1>4, <2>1, <2>2
<1>9. ASSUME NEW u \in User, NEW reach \in Reach,
             \/ Review(u, reach) \/ ReviewFriend(u, reach) \/ TaskEnabled(u, reach)
             \/ CreateCode(u, reach) \/ (u = todo.user /\ Rebound(reach))
             \/ \E a \in Address : Rebind(u, a, reach)
      PROVE  inviter' = inviter /\ Verified(u, reach)
  <2>1. CASE Review(u, reach) \/ ReviewFriend(u, reach) \/ TaskEnabled(u, reach)
    BY <2>1 DEF Review, ReviewFriend, TaskEnabled
  <2>2. CASE CreateCode(u, reach) \/ (u = todo.user /\ Rebound(reach))
    BY <2>2 DEF CreateCode, Rebound
  <2>3. CASE \E a \in Address : Rebind(u, a, reach)
    BY <2>3 DEF Rebind
  <2> QED
    BY <1>9, <2>1, <2>2, <2>3
<1>10. \A reach \in Reach : Rebound(reach) => todo.user \in User
  BY DEF ReferralInv, Rebound, Underway
<1> QED
  BY <1>5, <1>6, <1>7, <1>8, <1>9, <1>10 DEF ReferralNext

\* What FriendRewarded of Renewals assumes of these friends is what a step of
\* Referrals does: they are none at first, they are never taken back, and one is
\* added at a time, to one user.
THEOREM FriendsComeOneByOne ==
    ReferralSpec => /\ Friends = [u \in User |-> 0]
                    /\ [][\E v \in User : Friends[v] < 2 /\ Friends' = [Friends EXCEPT ![v] = @ + 1]]_Friends
<1>1. ReferralInit => Friends = [u \in User |-> 0]
  <2>1. ReferralInit => \A u \in User : Rewarded(u) = {}
    BY DEF ReferralInit, Rewarded, Invited
  <2>2. Cardinality({}) = 0
    BY FS_EmptySet
  <2> QED
    BY <2>1, <2>2 DEF Friends, Minimum
<1> QED
  BY <1>1, StepRewardsOne, ReferralInductive, PTL DEF ReferralSpec
=============================================================================
