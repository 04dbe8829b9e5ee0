-------------------------- MODULE EmailQueueProofs --------------------------
(***************************************************************************)
(* The line holds pending events only, each once, and what is recovered or *)
(* made by a cycle was not in it: so what is claimed was pending, and what *)
(* was sent is never touched again.  A call or a cycle adds rows only for  *)
(* what has none, and no step changes what a row is about: so a dedupe_key *)
(* has one row, all requests about it carry the id of that row, and what   *)
(* was sent about it is counted by that id.                                *)
(***************************************************************************)
EXTENDS EmailQueue, FiniteSetTheorems, TLAPS

USE NoneAssumption, AttemptsAssumption, EventsAssumption

IInv == MailInv /\ SentIsDelivered

-----------------------------------------------------------------------------
LEMMA RowParts ==
    ASSUME TypeOK, NEW e \in Event
    PROVE  /\ event[e] \in Row
           /\ event[e].status \in {"none", "pending", "sending", "sent", "failed"}
           /\ event[e].attempts \in 0..MaxAttempts
           /\ event[e].dedupe \in DedupeKey \cup {None}
    BY DEF TypeOK, Row

\* What a row is about tells whether there is one.
LEMMA RowExists ==
    ASSUME MailInv, NEW e \in Event
    PROVE  /\ e \in Unused <=> event[e] = NoEvent
           /\ e \in Unused <=> event[e].status = "none"
           /\ e \notin Unused => event[e].dedupe \in DedupeKey
    BY RowParts DEF MailInv, OneRowEach, Unused, NoEvent

LEMMA NodeParts ==
    ASSUME TypeOK, NEW n \in Notifier, node[n].pc # "idle"
    PROVE  node[n] \in Work /\ node[n].event \in Event
<1>1. node[n] \in Work
    BY DEF TypeOK, Idle
<1> QED
    BY <1>1 DEF Work

LEMMA Rows ==
    /\ NoEvent \in Row /\ NoEvent.status = "none" /\ NoEvent.dedupe = None
    /\ \A k \in DedupeKey : New(k) \in Row /\ New(k).status = "pending" /\ New(k).dedupe = k
    /\ \A x \in Row : /\ Claimed(x) \in Row /\ Claimed(x).status = "sending"
                      /\ Claimed(x).dedupe = x.dedupe
                      /\ [x EXCEPT !.status = "pending"] \in Row
                      /\ [x EXCEPT !.status = "pending"].status = "pending"
                      /\ [x EXCEPT !.status = "pending"].dedupe = x.dedupe
    /\ \A x \in Row : \A a : /\ After(x, a) \in Row
                             /\ After(x, a).status \in {"sent", "pending", "failed"}
                             /\ After(x, a).dedupe = x.dedupe
                             /\ After(x, a).status = "sent" => a = "accepted"
<1>1. /\ NoEvent \in Row /\ NoEvent.status = "none" /\ NoEvent.dedupe = None
      /\ \A k \in DedupeKey : New(k) \in Row /\ New(k).status = "pending" /\ New(k).dedupe = k
    BY DEF New, NoEvent, Row
<1>2. ASSUME NEW x \in Row
      PROVE  /\ Claimed(x) \in Row /\ Claimed(x).status = "sending"
             /\ Claimed(x).dedupe = x.dedupe
             /\ [x EXCEPT !.status = "pending"] \in Row
             /\ [x EXCEPT !.status = "pending"].status = "pending"
             /\ [x EXCEPT !.status = "pending"].dedupe = x.dedupe
  <2> DEFINE count == IF x.attempts < MaxAttempts THEN x.attempts + 1 ELSE MaxAttempts
  <2>1. count \in 0..MaxAttempts
      BY DEF Row
  <2>2. Claimed(x) = [x EXCEPT !.status = "sending", !.attempts = count]
      BY DEF Claimed
  <2> HIDE DEF count
  <2>3. Claimed(x) \in Row /\ Claimed(x).status = "sending" /\ Claimed(x).dedupe = x.dedupe
      BY <2>1, <2>2 DEF Row
  <2>4. /\ [x EXCEPT !.status = "pending"] \in Row
        /\ [x EXCEPT !.status = "pending"].status = "pending"
        /\ [x EXCEPT !.status = "pending"].dedupe = x.dedupe
      BY DEF Row
  <2> QED
      BY <2>3, <2>4
<1>3. ASSUME NEW x \in Row, NEW a
      PROVE  /\ After(x, a) \in Row /\ After(x, a).status \in {"sent", "pending", "failed"}
             /\ After(x, a).dedupe = x.dedupe
             /\ After(x, a).status = "sent" => a = "accepted"
  <2>1. \A to \in {"sent", "pending", "failed"} :
          /\ [x EXCEPT !.status = to] \in Row
          /\ [x EXCEPT !.status = to].status = to
          /\ [x EXCEPT !.status = to].dedupe = x.dedupe
      BY DEF Row
  <2>2. CASE a = "accepted"
      BY <2>1, <2>2 DEF After
  <2>3. CASE a # "accepted" /\ a = "retryable" /\ x.attempts < MaxAttempts
      BY <2>1, <2>3 DEF After
  <2>4. CASE a # "accepted" /\ ~(a = "retryable" /\ x.attempts < MaxAttempts)
      BY <2>1, <2>4 DEF After
  <2> QED
      BY <2>2, <2>3, <2>4
<1> QED
    BY <1>1, <1>2, <1>3

LEMMA InitHolds == Init => IInv
<1> SUFFICES ASSUME Init PROVE IInv
    OBVIOUS
<1>0. /\ \A e \in Event : event[e] = NoEvent
      /\ \A n \in Notifier : node[n] = Idle
      /\ \A k \in DedupeKey : delivered[k] = 0 /\ forgotten[k] = 0
      /\ ready = <<>> /\ stale = {} /\ moved = {} /\ known = {}
    BY DEF Init
<1>1. TypeOK
  <2>1. event \in [Event -> Row] /\ ready \in Seq(Event)
      BY Rows DEF Init
  <2>2. /\ lock \in Notifier \cup {None} /\ node \in [Notifier -> Work \cup {Idle}]
        /\ stale \subseteq Event /\ moved \subseteq Migration /\ paused \in BOOLEAN
      BY DEF Init
  <2>3. /\ readable \in [Event -> BOOLEAN] /\ known \subseteq Event
        /\ delivered \in [DedupeKey -> Nat] /\ forgotten \in [DedupeKey -> Nat]
      BY DEF Init
  <2> QED
      BY <2>1, <2>2, <2>3 DEF TypeOK
<1>2. InLine
    BY <1>0 DEF InLine
<1>3. OneRowEach
    BY <1>0 DEF OneRowEach
<1>4. Counted
    BY <1>0 DEF Counted, Unused
<1>5. SentIsDelivered
    BY <1>0 DEF SentIsDelivered, NoEvent, Idle
<1> QED
    BY <1>1, <1>2, <1>3, <1>4, <1>5 DEF IInv, MailInv

-----------------------------------------------------------------------------
\* A step that gives the rows S to what had none, and leaves the others what they
\* are about.
Adds(S, mail) ==
    /\ S \in SUBSET Unused /\ mail \in [S -> DedupeKey]
    /\ \A i, j \in S : mail[i] = mail[j] => i = j
    /\ \A e \in S : ~Made(mail[e])
    /\ event' \in [Event -> Row]
    /\ \A e \in S : event'[e].dedupe = mail[e] /\ event'[e].status # "none"
    /\ \A e \in Unused \ S : event'[e] = NoEvent
    /\ \A e \in Event \ Unused : event'[e].dedupe = event[e].dedupe /\ event'[e].status # "none"
    /\ \A k \in moved' : k \in DedupeKey /\ ~Made(k) /\ \A e \in S : mail[e] # k
    /\ \A n \in Notifier : node'[n] # Idle => node'[n].event \in S \cup (Event \ Unused)
    /\ UNCHANGED provider

\* It keeps the rows apart and the provider's count of them.
LEMMA RowsJoin ==
    ASSUME MailInv, NEW S, NEW mail, Adds(S, mail)
    PROVE  OneRowEach' /\ Counted'
<1> USE DEF MailInv, Adds
<1> DEFINE There == S \cup (Event \ Unused)
<1>1. Unused \subseteq Event /\ There \subseteq Event
    BY DEF Unused
<1>2. \A e \in Event \ Unused : event[e].dedupe \in DedupeKey /\ event'[e].dedupe = event[e].dedupe
    BY RowExists
<1>3. \A e \in There : event'[e] # NoEvent /\ event'[e].dedupe \in DedupeKey
    BY <1>2, Rows
<1>4. \A e \in Event : e \notin There => event'[e] = NoEvent /\ event'[e].dedupe = None
    BY Rows
<1> HIDE DEF There
<1>5. ASSUME NEW d \in There, NEW e \in There, event'[d].dedupe = event'[e].dedupe
      PROVE  d = e
  <2>1. ASSUME NEW i \in S, NEW j \in Event \ Unused, event'[i].dedupe = event'[j].dedupe
        PROVE  FALSE
    <3>1. event[j].dedupe = mail[i]
        BY <1>2, <2>1
    <3> QED
        BY <3>1 DEF Made
  <2>2. CASE d \in S /\ e \in S
      BY <1>5, <2>2
  <2>3. CASE d \notin S /\ e \notin S
    <3>1. /\ d \in Event \ Unused /\ e \in Event \ Unused
          /\ event[d].dedupe = event[e].dedupe
        BY <1>2, <1>5, <2>3 DEF There
    <3>2. event[d] # NoEvent
        BY <3>1, RowExists
    <3> QED
        BY <3>1, <3>2 DEF OneRowEach
  <2> QED
      BY <1>5, <2>1, <2>2, <2>3 DEF There
<1>6. \A k \in DedupeKey : Made(k) => Made(k)'
  <2> SUFFICES ASSUME NEW k \in DedupeKey, NEW e \in Event, event[e].dedupe = k
               PROVE  event'[e].dedupe = k
      BY DEF Made
  <2>1. e \notin Unused
      BY Rows, RowExists
  <2> QED
      BY <1>2, <2>1
<1>7. \A k \in moved' : ~Made(k)'
  <2> SUFFICES ASSUME NEW k \in moved', NEW e \in Event, event'[e].dedupe = k
               PROVE  FALSE
      BY DEF Made
  <2>1. e \in There
      BY <1>4
  <2>2. CASE e \in S
      BY <2>2
  <2>3. CASE e \in Event \ Unused
      BY <1>2, <2>3 DEF Made
  <2> QED
      BY <2>1, <2>2, <2>3 DEF There
<1>8. OneRowEach'
  <2>1. \A e \in Event : event'[e] # NoEvent => event'[e].status # "none" /\ event'[e].dedupe # None
    <3> SUFFICES ASSUME NEW e \in There PROVE event'[e].status # "none" /\ event'[e].dedupe # None
        BY <1>4
    <3> QED
        BY <1>3 DEF There
  <2>2. \A d, e \in Event : event'[d] # NoEvent /\ event'[d].dedupe = event'[e].dedupe => d = e
    <3> SUFFICES ASSUME NEW d \in Event, NEW e \in Event, event'[d] # NoEvent,
                        event'[d].dedupe = event'[e].dedupe
                 PROVE  d = e
        OBVIOUS
    <3>1. d \in There
        BY <1>4
    <3>2. e \in There
        BY <1>3, <1>4, <3>1
    <3> QED
        BY <1>5, <3>1, <3>2
  <2>3. \A n \in Notifier : node'[n] # Idle => event'[node'[n].event] # NoEvent
      BY <1>3 DEF There
  <2> QED
      BY <1>7, <2>1, <2>2, <2>3 DEF OneRowEach
<1>9. Counted'
  <2>0. UNCHANGED <<known, delivered, forgotten>>
      BY DEF provider
  <2>1. \A k \in DedupeKey : delivered'[k] > 0 => Made(k)'
      BY <1>6, <2>0 DEF Counted
  <2>2. ASSUME NEW e \in Event, event'[e] # NoEvent
        PROVE  delivered[event'[e].dedupe] <= forgotten[event'[e].dedupe] + (IF e \in known THEN 1 ELSE 0)
    <3>1. e \in There
        BY <1>4, <2>2
    <3>2. CASE e \in S
      <4>1. /\ mail[e] \in DedupeKey /\ event'[e].dedupe = mail[e] /\ ~Made(mail[e])
            /\ delivered[mail[e]] \in Nat /\ forgotten[mail[e]] \in Nat
          BY <3>2 DEF TypeOK
      <4>2. delivered[mail[e]] = 0
          BY <4>1 DEF Counted
      <4> QED
          BY <4>1, <4>2
    <3>3. CASE e \in Event \ Unused
        BY <1>2, <3>3 DEF Counted
    <3> QED
        BY <3>1, <3>2, <3>3 DEF There
  <2>3. \A e \in known : event'[e] # NoEvent /\ delivered[event'[e].dedupe] > 0
    <3> SUFFICES ASSUME NEW e \in known PROVE event'[e] # NoEvent /\ delivered[event'[e].dedupe] > 0
        OBVIOUS
    <3>1. e \in Event \ Unused /\ delivered[event[e].dedupe] > 0
        BY RowExists DEF Counted, TypeOK
    <3> QED
        BY <1>2, <1>3, <3>1 DEF There
  <2> QED
      BY <2>0, <2>1, <2>2, <2>3 DEF Counted, Unused
<1> QED
    BY <1>8, <1>9

\* The same of a step that makes no row.
LEMMA RowsStay ==
    ASSUME MailInv, event' \in [Event -> Row],
           \A e \in Event : event'[e].dedupe = event[e].dedupe,
           \A e \in Event : event[e] = NoEvent => event'[e] = NoEvent,
           \A e \in Event : event[e] # NoEvent => event'[e].status # "none",
           moved' \subseteq moved,
           \A n \in Notifier : node'[n] # Idle => node'[n].event = node[n].event /\ node[n] # Idle,
           UNCHANGED provider
    PROVE  OneRowEach' /\ Counted'
<1> DEFINE mail == [e \in {} |-> CHOOSE k \in DedupeKey : TRUE]
<1>1. mail \in [{} -> DedupeKey]
    OBVIOUS
<1> HIDE DEF mail
<1>2. \A e \in Event : e \in Unused <=> event[e] = NoEvent
    BY DEF Unused
<1>3. \A k \in moved' : k \in DedupeKey /\ ~Made(k)
    BY DEF MailInv, OneRowEach, TypeOK
<1>4. \A n \in Notifier : node'[n] # Idle => node'[n].event \in {} \cup (Event \ Unused)
    BY <1>2 DEF MailInv, OneRowEach, TypeOK, Work
<1>5. Unused \subseteq Event
    BY DEF Unused
<1>6. /\ \A e \in Unused \ {} : event'[e] = NoEvent
      /\ \A e \in Event \ Unused : event'[e].dedupe = event[e].dedupe /\ event'[e].status # "none"
    BY <1>2, <1>5
<1> QED
  <2>1. Adds({}, mail)
      BY <1>1, <1>3, <1>4, <1>5, <1>6 DEF Adds
  <2> QED
      BY <2>1, RowsJoin

\* A step that marks nothing sent and gives no answer.
LEMMA SentKeeps ==
    ASSUME IInv,
           \A e \in Event \ Unused : event'[e].dedupe = event[e].dedupe,
           \A e \in Event : event'[e].status = "sent" => event[e].status = "sent",
           \A n \in Notifier : node'[n].answer = "accepted" => node'[n] = node[n],
           UNCHANGED delivered
    PROVE  SentIsDelivered'
<1> USE DEF IInv, MailInv
<1>1. ASSUME NEW e \in Event, event'[e].status = "sent"
      PROVE  delivered'[event'[e].dedupe] > 0
  <2>1. event[e].status = "sent" /\ e \notin Unused
      BY <1>1, RowExists
  <2> QED
      BY <2>1 DEF SentIsDelivered
<1>2. ASSUME NEW n \in Notifier, node'[n].answer = "accepted"
      PROVE  delivered'[event'[node'[n].event].dedupe] > 0
  <2>1. node'[n] = node[n] /\ node[n].answer = "accepted" /\ node[n] # Idle
      BY <1>2 DEF Idle
  <2>2. node[n] \in Work
      BY <2>1 DEF TypeOK
  <2>3. node[n].event \in Event \ Unused
      BY <2>1, <2>2 DEF Work, OneRowEach, Unused
  <2> QED
      BY <2>1, <2>3 DEF SentIsDelivered, About
<1> QED
    BY <1>1, <1>2 DEF SentIsDelivered, About

-----------------------------------------------------------------------------
\* An event that is not in line joins it at the end, pending.
LEMMA JoinKeeps ==
    ASSUME IInv, NEW e \in Event, NEW new \in Row, new.status = "pending", ~IsReady(e),
           e \in Unused \/ new.dedupe = event[e].dedupe,
           event' = [event EXCEPT ![e] = new], ready' = Append(ready, e), e \notin stale,
           UNCHANGED <<stale, moved, paused, lock, node, readable, provider>>
    PROVE  TypeOK' /\ InLine' /\ SentIsDelivered'
<1> USE DEF IInv, MailInv
<1>1. event'[e] = new /\ \A d \in Event : d # e => event'[d] = event[d]
    BY DEF TypeOK
<1>2. TypeOK'
    BY DEF TypeOK, provider
<1>3. InLine'
  <2>1. /\ Len(ready') = Len(ready) + 1 /\ ready'[Len(ready) + 1] = e
        /\ \A i \in 1..Len(ready) : ready'[i] = ready[i] /\ ready[i] \in Event /\ ready[i] # e
      BY DEF TypeOK, IsReady
  <2>2. \A i \in 1..Len(ready') : event'[ready'[i]].status = "pending"
      BY <1>1, <2>1 DEF InLine, TypeOK
  <2>3. \A i, j \in 1..Len(ready') : ready'[i] = ready'[j] => i = j
      BY <2>1 DEF InLine, TypeOK
  <2>4. \A d \in stale' : event'[d].status = "sending"
      BY <1>1 DEF InLine, TypeOK
  <2> QED
      BY <2>2, <2>3, <2>4 DEF InLine
<1>4. SentIsDelivered'
  <2>1. UNCHANGED <<node, delivered>>
      BY DEF provider
  <2>2. \A d \in Event \ Unused : event'[d].dedupe = event[d].dedupe
      BY <1>1
  <2>3. \A d \in Event : event'[d].status = "sent" => event[d].status = "sent"
      BY <1>1
  <2> QED
      BY <2>1, <2>2, <2>3, SentKeeps
<1> QED
    BY <1>2, <1>3, <1>4

LEMMA NotReady ==
    ASSUME IInv, NEW e \in Event, event[e].status # "pending"
    PROVE  ~IsReady(e)
    BY DEF IInv, MailInv, InLine, IsReady

LEMMA EnqueueKeeps ==
    ASSUME IInv, NEW k \in DedupeKey, NEW e \in Event, EnqueueTemplate(k, e)
    PROVE  IInv'
<1> USE DEF IInv, MailInv
<1>1. /\ k \notin Migration /\ ~Made(k) /\ e \in Unused
      /\ event' = [event EXCEPT ![e] = New(k)] /\ ready' = Append(ready, e)
      /\ UNCHANGED <<stale, moved, paused, lock, node, readable, provider>>
    BY DEF EnqueueTemplate
<1>2. event[e].status = "none" /\ e \notin stale /\ ~IsReady(e)
    BY <1>1, RowExists, NotReady DEF InLine
<1>3. TypeOK' /\ InLine' /\ SentIsDelivered'
    BY <1>1, <1>2, Rows, JoinKeeps
<1>4. /\ event' \in [Event -> Row] /\ event'[e] = New(k)
      /\ \A d \in Event : d # e => event'[d] = event[d]
    BY <1>1, <1>3 DEF TypeOK
<1> DEFINE mail == [d \in {e} |-> k]
<1>5. mail \in [{e} -> DedupeKey] /\ mail[e] = k
    OBVIOUS
<1> HIDE DEF mail
<1>6. /\ \A i, j \in {e} : mail[i] = mail[j] => i = j
      /\ \A d \in {e} : ~Made(mail[d])
      /\ \A d \in {e} : event'[d].dedupe = mail[d] /\ event'[d].status # "none"
    BY <1>1, <1>4, <1>5, Rows
<1>7. /\ \A d \in Unused \ {e} : event'[d] = NoEvent
      /\ \A d \in Event \ Unused : event'[d].dedupe = event[d].dedupe /\ event'[d].status # "none"
  <2>1. \A d \in Event : d \in Unused <=> event[d] = NoEvent
      BY DEF Unused
  <2>2. Unused \subseteq Event
      BY DEF Unused
  <2> QED
      BY <1>1, <1>4, <2>1, <2>2, RowExists
<1>8. \A j \in moved' : j \in DedupeKey /\ ~Made(j) /\ \A d \in {e} : mail[d] # j
    BY <1>1, <1>5 DEF OneRowEach, TypeOK
<1>9. \A n \in Notifier : node'[n] # Idle => node'[n].event \in {e} \cup (Event \ Unused)
    BY <1>1 DEF OneRowEach, TypeOK, Work, Unused
<1>10. {e} \in SUBSET Unused /\ UNCHANGED provider
    BY <1>1
<1>11. OneRowEach' /\ Counted'
  <2>1. Adds({e}, mail)
      BY <1>4, <1>5, <1>6, <1>7, <1>8, <1>9, <1>10 DEF Adds
  <2> QED
      BY <2>1, RowsJoin
<1> QED
    BY <1>3, <1>11

LEMMA MoveKeeps ==
    ASSUME IInv, NEW k \in DedupeKey, TaskMoves(k)
    PROVE  IInv' /\ UNCHANGED event
<1> USE DEF IInv, MailInv
<1>1. /\ k \in Migration /\ ~Made(k) /\ moved' = moved \cup {k}
      /\ UNCHANGED <<event, ready, stale, paused, lock, node, readable, provider>>
    BY DEF TaskMoves
<1>2. TypeOK' /\ InLine'
    BY <1>1 DEF TypeOK, InLine, provider
<1>3. OneRowEach'
    BY <1>1 DEF OneRowEach, Made
<1>4. Counted' /\ SentIsDelivered'
    BY <1>1 DEF Counted, Unused, Made, SentIsDelivered, About, provider
<1> QED
    BY <1>1, <1>2, <1>3, <1>4

\* The provider forgets a key: the next request with it sends one mail more.
LEMMA ForgetKeeps ==
    ASSUME IInv, NEW e \in Event, Forget(e)
    PROVE  IInv' /\ UNCHANGED event
<1> USE DEF IInv, MailInv
<1> DEFINE k == event[e].dedupe
<1>1. /\ UNCHANGED <<queue, lock, node, readable, delivered>>
      /\ known' = known \ {e} /\ e \in known
      /\ forgotten' = [forgotten EXCEPT ![k] = forgotten[k] + 1]
    BY DEF Forget
<1>2. UNCHANGED <<event, ready, stale, moved, paused>>
    BY <1>1 DEF queue
<1>3. k \in DedupeKey /\ e \in Event \ Unused
    BY <1>1, RowExists DEF Counted
<1> HIDE DEF k
<1>4. /\ forgotten' \in [DedupeKey -> Nat] /\ forgotten'[k] = forgotten[k] + 1
      /\ \A j \in DedupeKey : forgotten[j] \in Nat /\ delivered[j] \in Nat
      /\ \A j \in DedupeKey : j # k => forgotten'[j] = forgotten[j]
    BY <1>1, <1>3 DEF TypeOK
<1>5. TypeOK' /\ InLine' /\ OneRowEach' /\ SentIsDelivered'
  <2>1. TypeOK'
      BY <1>1, <1>2, <1>4 DEF TypeOK
  <2>2. InLine'
      BY <1>2 DEF InLine
  <2>3. OneRowEach'
      BY <1>1, <1>2 DEF OneRowEach, Made
  <2>4. SentIsDelivered'
      BY <1>1, <1>2 DEF SentIsDelivered, About
  <2> QED
      BY <2>1, <2>2, <2>3, <2>4
<1>6. ASSUME NEW d \in Event \ Unused
      PROVE  delivered[event[d].dedupe] <= forgotten'[event[d].dedupe] + (IF d \in known' THEN 1 ELSE 0)
  <2>1. /\ event[d].dedupe \in DedupeKey
        /\ delivered[event[d].dedupe] <= forgotten[event[d].dedupe] + (IF d \in known THEN 1 ELSE 0)
      BY RowExists DEF Counted
  <2>2. CASE d = e
      BY <1>1, <1>4, <2>1, <2>2 DEF k
  <2>3. CASE d # e
    <3>1. event[d].dedupe # k
        BY <1>3, <2>3, RowExists DEF OneRowEach, k
    <3> QED
        BY <1>1, <1>4, <2>1, <2>3, <3>1
  <2> QED
      BY <2>2, <2>3
<1>7. Counted'
    BY <1>1, <1>2, <1>6 DEF Counted, Unused, Made
<1> QED
    BY <1>2, <1>5, <1>7

LEMMA EventKeeps ==
    ASSUME IInv, NEW e \in Event, EventStep(e)
    PROVE  IInv'
<1> USE DEF IInv, MailInv
<1>0. /\ event[e] \in Row
      /\ event[e].status \in {"none", "pending", "sending", "sent", "failed"}
    BY RowParts
<1>1. ASSUME NEW new \in Row, new.status = "pending", new.dedupe = event[e].dedupe,
             event[e].status \in {"pending", "failed"}, ~IsReady(e),
             event' = [event EXCEPT ![e] = new], ready' = Append(ready, e),
             UNCHANGED <<stale, moved, paused, lock, node, readable, provider>>
      PROVE  IInv'
  <2>1. e \notin stale
      BY <1>1 DEF InLine
  <2>2. TypeOK' /\ InLine' /\ SentIsDelivered'
      BY <1>1, <2>1, JoinKeeps
  <2>3. event'[e] = new /\ \A d \in Event : d # e => event'[d] = event[d]
      BY <1>1 DEF TypeOK
  <2>4. /\ \A d \in Event : event'[d].dedupe = event[d].dedupe
        /\ \A d \in Event : event[d] = NoEvent => event'[d] = NoEvent
        /\ \A d \in Event : event[d] # NoEvent => event'[d].status # "none"
      BY <1>1, <2>3, Rows DEF OneRowEach
  <2>5. event' \in [Event -> Row]
      BY <2>2 DEF TypeOK
  <2>6. OneRowEach' /\ Counted'
      BY <1>1, <2>4, <2>5, RowsStay
  <2> QED
      BY <2>2, <2>6
<1>3. CASE NextAttempt(e)
  <2>1. event' = [event EXCEPT ![e] = event[e]]
      BY <1>3 DEF NextAttempt, TypeOK
  <2> QED
      BY <1>0, <1>1, <1>3, <2>1 DEF NextAttempt
<1>4. CASE FiveMinutesPass(e)
  <2>1. TypeOK' /\ InLine'
      BY <1>4 DEF FiveMinutesPass, TypeOK, InLine, provider
  <2>2. OneRowEach' /\ Counted' /\ SentIsDelivered'
      BY <1>4 DEF FiveMinutesPass, OneRowEach, Counted, Unused, Made, SentIsDelivered, About, provider
  <2> QED
      BY <2>1, <2>2
<1>5. CASE RetryFailed(e)
  <2>1. event' = [event EXCEPT ![e] = [event[e] EXCEPT !.status = "pending"]]
      BY <1>5 DEF RetryFailed
  <2>2. ~IsReady(e)
      BY <1>5, NotReady DEF RetryFailed
  <2> QED
      BY <1>0, <1>1, <1>5, <2>1, <2>2, Rows DEF RetryFailed
<1>6. CASE Forget(e)
    BY <1>6, ForgetKeeps
<1> QED
    BY <1>3, <1>4, <1>5, <1>6 DEF EventStep

-----------------------------------------------------------------------------
\* The line and the rows with what was recovered and made.
LEMMA LineIsPending ==
    ASSUME IInv, NEW mail \in Mails, NEW order \in Orders(stale \cup DOMAIN mail)
    PROVE  LET line == ready \o order IN
           /\ line \in Seq(Event)
           /\ Recovered(mail) \in [Event -> Row]
           /\ \A i \in 1..Len(line) : Recovered(mail)[line[i]].status = "pending"
           /\ \A i, j \in 1..Len(line) : line[i] = line[j] => i = j
           /\ \A e \in Event : Recovered(mail)[e].status = "sent" <=> event[e].status = "sent"
           /\ DOMAIN mail \in SUBSET Unused /\ mail \in [DOMAIN mail -> moved]
           /\ \A i, j \in DOMAIN mail : mail[i] = mail[j] => i = j
           /\ \A e \in DOMAIN mail : /\ Recovered(mail)[e].dedupe = mail[e]
                                      /\ Recovered(mail)[e].status = "pending"
           /\ \A e \in Unused \ DOMAIN mail : Recovered(mail)[e] = NoEvent
           /\ \A e \in Event \ Unused : /\ Recovered(mail)[e].dedupe = event[e].dedupe
                                         /\ Recovered(mail)[e].status # "none"
<1> USE DEF IInv, MailInv
<1>0. PICK M \in SUBSET Unused : mail \in OneToOne(M, moved)
    BY DEF Mails
<1>a. /\ DOMAIN mail = M /\ mail \in [M -> moved]
      /\ \A i, j \in M : mail[i] = mail[j] => i = j
    BY <1>0 DEF OneToOne
<1>b. M \subseteq Event /\ Unused \subseteq Event
    BY DEF Unused
<1> DEFINE S == stale \cup M
<1> DEFINE line == ready \o order
<1>1. S \subseteq Event /\ IsFiniteSet(S)
    BY <1>b, FS_Subset DEF TypeOK
<1>2. Cardinality(S) \in Nat
    BY <1>1, FS_CardinalityType
<1> DEFINE k == Cardinality(S)
<1> HIDE DEF k
<1>3. /\ order \in [1..k -> S] /\ \A i, j \in 1..k : order[i] = order[j] => i = j
      /\ k \in Nat
    BY <1>2, <1>a DEF Orders, OneToOne, k
<1>4. order \in Seq(Event) /\ Len(order) = k /\ \A i \in 1..k : order[i] \in S
    BY <1>1, <1>3
<1>5. ready \in Seq(Event) /\ line \in Seq(Event) /\ Len(line) = Len(ready) + k
  <2>1. ready \in Seq(Event)
      BY DEF TypeOK
  <2> QED
      BY <1>4, <2>1
<1>6. /\ \A i \in 1..Len(ready) : line[i] = ready[i]
      /\ \A i \in 1..Len(line) : i > Len(ready) => line[i] = order[i - Len(ready)] /\ i - Len(ready) \in 1..k
    BY <1>4, <1>5
<1>7. /\ \A e \in stale : event[e].status = "sending" /\ e \in Event /\ e \notin Unused
      /\ \A e \in Unused : event[e] = NoEvent /\ event[e].status = "none"
    BY <1>b, RowExists DEF InLine, TypeOK
<1>8. ASSUME NEW e \in Event
      PROVE  /\ Recovered(mail)[e] \in Row
             /\ e \in S => Recovered(mail)[e].status = "pending"
             /\ e \notin S => Recovered(mail)[e] = event[e]
             /\ e \in M => Recovered(mail)[e].dedupe = mail[e]
             /\ e \notin M => Recovered(mail)[e].dedupe = event[e].dedupe
  <2>0. event[e] \in Row
      BY RowParts
  <2>1. Recovered(mail)[e] = IF e \in stale THEN [event[e] EXCEPT !.status = "pending"]
                             ELSE IF e \in M THEN New(mail[e]) ELSE event[e]
      BY <1>a DEF Recovered
  <2>2. e \in M => e \notin stale /\ mail[e] \in DedupeKey
      BY <1>7, <1>a DEF TypeOK
  <2> QED
      BY <2>0, <2>1, <2>2, Rows
<1>9. Recovered(mail) \in [Event -> Row]
    BY <1>8 DEF Recovered
<1>10. ASSUME NEW i \in 1..Len(line)
       PROVE  /\ Recovered(mail)[line[i]].status = "pending"
              /\ i \in 1..Len(ready) => line[i] \notin S
  <2>1. CASE i \in 1..Len(ready)
    <3>1. line[i] = ready[i] /\ ready[i] \in Event /\ event[ready[i]].status = "pending"
        BY <1>5, <1>6, <2>1 DEF InLine
    <3>2. ready[i] \notin S
        BY <1>7, <3>1
    <3> QED
        BY <1>8, <3>1, <3>2
  <2>2. CASE i \notin 1..Len(ready)
    <3>1. i > Len(ready)
        BY <1>5, <2>2
    <3>2. line[i] \in S
        BY <1>4, <1>6, <3>1
    <3> QED
        BY <1>1, <1>8, <2>2, <3>2
  <2> QED
      BY <2>1, <2>2
<1>11. ASSUME NEW i \in 1..Len(line), NEW j \in 1..Len(line), line[i] = line[j]
       PROVE  i = j
  <2>1. CASE i \in 1..Len(ready) /\ j \in 1..Len(ready)
      BY <1>6, <1>11, <2>1 DEF InLine
  <2>2. CASE i \notin 1..Len(ready) /\ j \notin 1..Len(ready)
    <3>1. /\ i > Len(ready) /\ j > Len(ready) /\ Len(ready) \in Nat
          /\ i - Len(ready) \in 1..k /\ j - Len(ready) \in 1..k
          /\ order[i - Len(ready)] = order[j - Len(ready)]
        BY <1>5, <1>6, <1>11, <2>2
    <3>2. i - Len(ready) = j - Len(ready)
        BY <1>3, <3>1
    <3> QED
        BY <1>5, <3>1, <3>2
  <2>3. ASSUME NEW a \in 1..Len(line), NEW b \in 1..Len(line), line[a] = line[b],
               a \in 1..Len(ready), b \notin 1..Len(ready)
        PROVE  FALSE
    <3>1. b > Len(ready)
        BY <1>5, <2>3
    <3>2. line[b] \in S
        BY <1>4, <1>6, <3>1
    <3> QED
        BY <1>10, <2>3, <3>2
  <2> QED
      BY <1>11, <2>1, <2>2, <2>3
<1>12. \A e \in Event : Recovered(mail)[e].status = "sent" <=> event[e].status = "sent"
    BY <1>7, <1>8
<1>13. /\ \A e \in M : Recovered(mail)[e].dedupe = mail[e] /\ Recovered(mail)[e].status = "pending"
       /\ \A e \in Unused \ M : Recovered(mail)[e] = NoEvent
       /\ \A e \in Event \ Unused : /\ Recovered(mail)[e].dedupe = event[e].dedupe
                                     /\ Recovered(mail)[e].status # "none"
  <2>1. \A e \in Unused \ M : Recovered(mail)[e] = NoEvent
      BY <1>7, <1>8, <1>b
  <2>2. \A e \in Event \ Unused : /\ Recovered(mail)[e].dedupe = event[e].dedupe
                                   /\ Recovered(mail)[e].status # "none"
      BY <1>8, RowExists
  <2> QED
      BY <1>8, <1>b, <2>1, <2>2
<1> HIDE DEF line
<1>14. /\ line \in Seq(Event)
       /\ Recovered(mail) \in [Event -> Row]
       /\ \A i \in 1..Len(line) : Recovered(mail)[line[i]].status = "pending"
       /\ \A i, j \in 1..Len(line) : line[i] = line[j] => i = j
    BY <1>5, <1>9, <1>10, <1>11
<1> QED
    BY <1>a, <1>12, <1>13, <1>14 DEF line

LEMMA ClaimKeeps ==
    ASSUME IInv, NEW n \in Notifier, ClaimDue(n)
    PROVE  IInv' /\ \A e \in Event : event[e].status = "sent" => event'[e].status = "sent"
<1> USE DEF IInv, MailInv
<1> DEFINE Cycle(mail, bad, order) ==
        LET line == ready \o order IN
        /\ line # <<>> /\ ~paused => readable[Head(line)]
        /\ moved' = moved \ (ToldOf(mail) \cup bad) /\ stale' = {}
        /\ IF paused \/ line = <<>>
           THEN /\ event' = Recovered(mail) /\ ready' = line
                /\ UNCHANGED <<lock, node>>
           ELSE LET e == Head(line) IN
                /\ event' = [Recovered(mail) EXCEPT ![e] = Claimed(@)]
                /\ ready' = Tail(line)
                /\ lock' = n
                /\ node' = [node EXCEPT ![n] = [pc |-> "sending", event |-> e, answer |-> "none"]]
<1>a. PICK mail \in Mails : \E bad \in SUBSET (moved \ ToldOf(mail)) :
        \E order \in Orders(stale \cup DOMAIN mail) : Cycle(mail, bad, order)
    BY DEF ClaimDue
<1>b. PICK bad \in SUBSET (moved \ ToldOf(mail)) :
        \E order \in Orders(stale \cup DOMAIN mail) : Cycle(mail, bad, order)
    BY <1>a
<1>1. PICK order \in Orders(stale \cup DOMAIN mail) : Cycle(mail, bad, order)
    BY <1>b
<1>2. UNCHANGED <<paused, readable, provider>>
    BY DEF ClaimDue
<1> DEFINE line == ready \o order
<1> DEFINE rows == Recovered(mail)
<1> DEFINE M == DOMAIN mail
<1>3. /\ line \in Seq(Event)
      /\ rows \in [Event -> Row]
      /\ \A i \in 1..Len(line) : rows[line[i]].status = "pending"
      /\ \A i, j \in 1..Len(line) : line[i] = line[j] => i = j
      /\ \A e \in Event : rows[e].status = "sent" <=> event[e].status = "sent"
      /\ M \in SUBSET Unused /\ mail \in [M -> moved]
      /\ \A i, j \in M : mail[i] = mail[j] => i = j
      /\ \A e \in M : rows[e].dedupe = mail[e] /\ rows[e].status = "pending"
      /\ \A e \in Unused \ M : rows[e] = NoEvent
      /\ \A e \in Event \ Unused : rows[e].dedupe = event[e].dedupe /\ rows[e].status # "none"
    BY LineIsPending
<1>4. /\ moved' = moved \ (ToldOf(mail) \cup bad) /\ stale' = {}
      /\ IF paused \/ line = <<>>
         THEN /\ event' = rows /\ ready' = line
              /\ UNCHANGED <<lock, node>>
         ELSE /\ event' = [rows EXCEPT ![Head(line)] = Claimed(rows[Head(line)])]
              /\ ready' = Tail(line)
              /\ lock' = n
              /\ node' = [node EXCEPT ![n] = [pc |-> "sending", event |-> Head(line), answer |-> "none"]]
    BY <1>1
<1>5. /\ mail \in [M -> DedupeKey] /\ \A e \in M : ~Made(mail[e])
      /\ moved' \subseteq Migration
      /\ \A k \in moved' : k \in DedupeKey /\ ~Made(k) /\ \A e \in M : mail[e] # k
    BY <1>3, <1>4 DEF TypeOK, OneRowEach, ToldOf
<1> HIDE DEF line, rows, M
<1>6. \A m \in Notifier : node[m] # Idle => node[m].event \in Event \ Unused
    BY DEF OneRowEach, TypeOK, Work, Unused
\* Claimed or not, the rows are as they were recovered and made.
<1>7. ASSUME event' \in [Event -> Row],
             \A e \in Event : event'[e] = rows[e]
                               \/ (rows[e].status = "pending" /\ event'[e] = Claimed(rows[e])),
             \A m \in Notifier : node'[m] = node[m]
                               \/ (/\ node'[m].event \in Event
                                   /\ rows[node'[m].event].status = "pending"
                                   /\ node'[m].answer = "none")
      PROVE  OneRowEach' /\ Counted' /\ SentIsDelivered'
  <2>1. \A e \in Event : /\ event'[e].dedupe = rows[e].dedupe
                         /\ rows[e].status # "none" => event'[e].status # "none"
                         /\ rows[e] = NoEvent => event'[e] = NoEvent
                         /\ event'[e].status = "sent" <=> event[e].status = "sent"
    <3> SUFFICES ASSUME NEW e \in Event
                 PROVE  /\ event'[e].dedupe = rows[e].dedupe
                        /\ rows[e].status # "none" => event'[e].status # "none"
                        /\ rows[e] = NoEvent => event'[e] = NoEvent
                        /\ event'[e].status = "sent" <=> event[e].status = "sent"
        OBVIOUS
    <3>1. CASE event'[e] = rows[e]
        BY <1>3, <3>1
    <3>2. CASE rows[e].status = "pending" /\ event'[e] = Claimed(rows[e])
      <4>1. /\ Claimed(rows[e]).status = "sending"
            /\ Claimed(rows[e]).dedupe = rows[e].dedupe
          BY <1>3, Rows
      <4> QED
          BY <1>3, <3>2, <4>1, Rows
    <3> QED
        BY <1>7, <3>1, <3>2
  <2>2. Unused \subseteq Event /\ M \subseteq Event /\ UNCHANGED provider
      BY <1>2, <1>3 DEF Unused
  <2>3. \A e \in M : event'[e].dedupe = mail[e] /\ event'[e].status # "none"
      BY <1>3, <2>1, <2>2
  <2>4. \A e \in Unused \ M : event'[e] = NoEvent
      BY <1>3, <2>1, <2>2
  <2>5. \A e \in Event \ Unused : event'[e].dedupe = event[e].dedupe /\ event'[e].status # "none"
      BY <1>3, <2>1
  <2>6. \A m \in Notifier : node'[m] # Idle => node'[m].event \in M \cup (Event \ Unused)
      BY <1>3, <1>6, <1>7, Rows
  <2>7. OneRowEach' /\ Counted'
    <3>1. M \in SUBSET Unused /\ \A i, j \in M : mail[i] = mail[j] => i = j
        BY <1>3
    <3>2. /\ mail \in [M -> DedupeKey] /\ \A d \in M : ~Made(mail[d])
          /\ \A k \in moved' : k \in DedupeKey /\ ~Made(k) /\ \A d \in M : mail[d] # k
        BY <1>5
    <3>3. event' \in [Event -> Row] /\ UNCHANGED provider
        BY <1>7, <2>2
    <3>4. Adds(M, mail)
        BY <3>1, <3>2, <3>3, <2>3, <2>4, <2>5, <2>6 DEF Adds
    <3> QED
        BY <3>4, RowsJoin
  <2>8. \A m \in Notifier : node'[m].answer = "accepted" => node'[m] = node[m]
      BY <1>7
  <2>9. SentIsDelivered'
      BY <2>1, <2>2, <2>5, <2>8, SentKeeps DEF provider
  <2> QED
      BY <2>7, <2>9
<1>8. CASE paused \/ line = <<>>
  <2>1. event' = rows /\ ready' = line /\ UNCHANGED <<lock, node>>
      BY <1>4, <1>8
  <2>2. TypeOK'
      BY <1>2, <1>3, <1>4, <1>5, <2>1 DEF TypeOK, provider
  <2>3. InLine'
      BY <1>3, <1>4, <2>1 DEF InLine
  <2>4. OneRowEach' /\ Counted' /\ SentIsDelivered'
      BY <1>3, <1>7, <2>1
  <2> QED
      BY <1>3, <2>1, <2>2, <2>3, <2>4
<1>9. CASE ~(paused \/ line = <<>>)
  <2> DEFINE e == Head(line)
  <2>1. /\ event' = [rows EXCEPT ![e] = Claimed(rows[e])] /\ ready' = Tail(line) /\ lock' = n
        /\ node' = [node EXCEPT ![n] = [pc |-> "sending", event |-> e, answer |-> "none"]]
      BY <1>4, <1>9
  <2>2. /\ Len(line) \in Nat \ {0} /\ e = line[1] /\ e \in Event
        /\ Tail(line) \in Seq(Event) /\ Len(Tail(line)) = Len(line) - 1
        /\ \A i \in 1..Len(Tail(line)) : Tail(line)[i] = line[i + 1] /\ i + 1 \in 1..Len(line)
      BY <1>3, <1>9
  <2> HIDE DEF e
  <2>3. /\ event'[e] = Claimed(rows[e]) /\ rows[e].status = "pending" /\ rows[e] \in Row
        /\ \A d \in Event : d # e => event'[d] = rows[d]
        /\ event' \in [Event -> Row]
    <3>1. 1 \in 1..Len(line) /\ rows[e].status = "pending"
        BY <1>3, <2>2
    <3>2. rows[e] \in Row
        BY <1>3, <2>2
    <3>3. Claimed(rows[e]) \in Row
        BY <3>2, Rows
    <3> QED
        BY <1>3, <2>1, <2>2, <3>1, <3>2, <3>3
  <2>4. [pc |-> "sending", event |-> e, answer |-> "none"] \in Work
      BY <2>2 DEF Work
  <2>5. TypeOK'
      BY <1>2, <1>4, <1>5, <2>1, <2>2, <2>3, <2>4 DEF TypeOK, provider
  <2>6. \A i \in 1..Len(Tail(line)) : Tail(line)[i] # e /\ Tail(line)[i] \in Event
    <3> SUFFICES ASSUME NEW i \in 1..Len(Tail(line)) PROVE Tail(line)[i] # e /\ Tail(line)[i] \in Event
        OBVIOUS
    <3>1. Tail(line)[i] = line[i + 1] /\ i + 1 \in 1..Len(line) /\ i + 1 # 1 /\ 1 \in 1..Len(line)
        BY <2>2
    <3> QED
        BY <1>3, <2>2, <3>1
  <2>7. InLine'
    <3>1. \A i \in 1..Len(ready') : event'[ready'[i]].status = "pending"
        BY <1>3, <2>1, <2>2, <2>3, <2>6
    <3>2. \A i, j \in 1..Len(ready') : ready'[i] = ready'[j] => i = j
      <4> SUFFICES ASSUME NEW i \in 1..Len(ready'), NEW j \in 1..Len(ready'), ready'[i] = ready'[j]
                   PROVE  i = j
          OBVIOUS
      <4>1. i + 1 = j + 1
          BY <1>3, <2>1, <2>2
      <4>2. i \in Nat /\ j \in Nat
          OBVIOUS
      <4> QED
          BY <4>1, <4>2
    <3> QED
        BY <1>4, <3>1, <3>2 DEF InLine
  <2>8. \A m \in Notifier : node'[m] = node[m]
                          \/ (node'[m].event = e /\ node'[m].answer = "none")
      BY <2>1 DEF TypeOK
  <2>9. OneRowEach' /\ Counted' /\ SentIsDelivered'
      BY <1>7, <2>2, <2>3, <2>8
  <2>10. \A d \in Event : event[d].status = "sent" => event'[d].status = "sent"
    <3> SUFFICES ASSUME NEW d \in Event, event[d].status = "sent" PROVE event'[d].status = "sent"
        OBVIOUS
    <3>1. rows[d].status = "sent"
        BY <1>3
    <3>2. d # e
        BY <2>3, <3>1
    <3> QED
        BY <2>3, <3>1, <3>2
  <2> QED
      BY <2>5, <2>7, <2>9, <2>10
<1> QED
    BY <1>8, <1>9

-----------------------------------------------------------------------------
LEMMA PostKeeps ==
    ASSUME IInv, NEW n \in Notifier, Post(n)
    PROVE  IInv' /\ UNCHANGED event
<1> USE DEF IInv, MailInv
<1> DEFINE e == node[n].event
<1> DEFINE k == About(n)
<1>1. PICK taken \in BOOLEAN, answer \in {"accepted", "retryable", "final"} :
        /\ answer = "accepted" => taken
        /\ Take(k, RequestKey(n), taken)
        /\ node' = [node EXCEPT ![n].pc = "answered", ![n].answer = answer]
    BY DEF Post
<1>2. UNCHANGED <<event, ready, stale, moved, paused, lock, readable>> /\ node[n].pc = "sending"
    BY DEF Post, queue
<1>3. node[n] \in Work /\ e \in Event /\ node[n] # Idle
    BY <1>2, NodeParts DEF Idle
<1>4. e \notin Unused /\ k = event[e].dedupe /\ k \in DedupeKey
    BY <1>3, RowExists DEF OneRowEach, Unused, About
<1>5. /\ node'[n] \in Work /\ node'[n].event = e /\ node'[n].answer = answer
      /\ \A m \in Notifier : m # n => node'[m] = node[m]
      /\ node' \in [Notifier -> Work \cup {Idle}]
    BY <1>1, <1>3 DEF TypeOK, Work
<1>6. /\ known' = IF taken THEN known \cup {e} ELSE known
      /\ delivered' = [delivered EXCEPT ![k] = IF taken /\ e \notin known THEN delivered[k] + 1
                                               ELSE delivered[k]]
      /\ UNCHANGED forgotten
    BY <1>1 DEF Take, RequestKey
<1> HIDE DEF e, k
<1>7. /\ delivered' \in [DedupeKey -> Nat] /\ known' \subseteq Event
      /\ \A j \in DedupeKey : j # k => delivered'[j] = delivered[j]
      /\ delivered'[k] = IF taken /\ e \notin known THEN delivered[k] + 1 ELSE delivered[k]
      /\ \A j \in DedupeKey : delivered[j] \in Nat /\ forgotten[j] \in Nat
    BY <1>3, <1>4, <1>6 DEF TypeOK
<1>8. TypeOK' /\ InLine'
    BY <1>2, <1>5, <1>6, <1>7 DEF TypeOK, InLine
<1>9. /\ \A j \in DedupeKey : delivered[j] > 0 => delivered'[j] > 0
      /\ e \in known => delivered[k] > 0
      /\ taken => delivered'[k] > 0
  <2>1. e \in known => delivered[k] > 0
      BY <1>4 DEF Counted
  <2> QED
      BY <1>4, <1>7, <2>1
<1>10. OneRowEach'
  <2>1. \A m \in Notifier : node'[m] # Idle => event[node'[m].event] # NoEvent
      BY <1>3, <1>4, <1>5 DEF OneRowEach, Unused
  <2> QED
      BY <1>2, <2>1 DEF OneRowEach, Made
<1>11. Counted'
  <2>1. \A j \in DedupeKey : delivered'[j] > 0 => Made(j)
    <3>1. Made(k)
        BY <1>3, <1>4 DEF Made
    <3> QED
        BY <1>7, <3>1 DEF Counted
  <2>2. ASSUME NEW d \in Event \ Unused
        PROVE  delivered'[event[d].dedupe] <= forgotten[event[d].dedupe] + (IF d \in known' THEN 1 ELSE 0)
    <3>1. /\ event[d].dedupe \in DedupeKey
          /\ delivered[event[d].dedupe] <= forgotten[event[d].dedupe] + (IF d \in known THEN 1 ELSE 0)
        BY RowExists DEF Counted
    <3>2. CASE d = e
        BY <1>4, <1>6, <1>7, <3>1, <3>2
    <3>3. CASE d # e
      <4>1. event[d].dedupe # k
          BY <1>3, <1>4, <3>3, RowExists DEF OneRowEach
      <4> QED
          BY <1>6, <1>7, <3>1, <3>3, <4>1
    <3> QED
        BY <3>2, <3>3
  <2>3. \A d \in known' : event[d] # NoEvent /\ delivered'[event[d].dedupe] > 0
    <3> SUFFICES ASSUME NEW d \in known' PROVE event[d] # NoEvent /\ delivered'[event[d].dedupe] > 0
        OBVIOUS
    <3>1. CASE d \in known
      <4>1. event[d] # NoEvent /\ delivered[event[d].dedupe] > 0 /\ d \in Event \ Unused
          BY <3>1 DEF Counted, TypeOK, Unused
      <4> QED
          BY <1>9, <4>1, RowExists
    <3>2. CASE d \notin known
      <4>1. d = e /\ taken
          BY <1>6, <3>2
      <4> QED
          BY <1>3, <1>4, <1>9, <4>1 DEF Unused
    <3> QED
        BY <3>1, <3>2
  <2> QED
      BY <1>2, <1>6, <2>1, <2>2, <2>3 DEF Counted, Made, Unused
<1>12. SentIsDelivered'
  <2>1. \A d \in Event : event'[d].status = "sent" => delivered'[event'[d].dedupe] > 0
    <3> SUFFICES ASSUME NEW d \in Event, event[d].status = "sent" PROVE delivered'[event[d].dedupe] > 0
        BY <1>2
    <3>1. event[d].dedupe \in DedupeKey /\ delivered[event[d].dedupe] > 0
        BY RowExists DEF SentIsDelivered
    <3> QED
        BY <1>9, <3>1
  <2>2. ASSUME NEW m \in Notifier, node'[m].answer = "accepted"
        PROVE  delivered'[event[node'[m].event].dedupe] > 0
    <3>1. CASE m = n
        BY <1>1, <1>4, <1>5, <1>9, <2>2, <3>1
    <3>2. CASE m # n
      <4>1. node[m].answer = "accepted" /\ node'[m] = node[m] /\ node[m] # Idle
          BY <1>5, <2>2, <3>2 DEF Idle
      <4>2. node[m] \in Work
          BY <4>1 DEF TypeOK
      <4>3. node[m].event \in Event \ Unused
          BY <4>1, <4>2 DEF Work, OneRowEach, Unused
      <4>4. delivered[event[node[m].event].dedupe] > 0
          BY <4>1 DEF SentIsDelivered, About
      <4> QED
          BY <1>9, <4>1, <4>3, <4>4, RowExists
    <3> QED
        BY <3>1, <3>2
  <2> QED
      BY <1>2, <2>1, <2>2 DEF SentIsDelivered, About
<1> QED
    BY <1>2, <1>8, <1>10, <1>11, <1>12

LEMMA MarkKeeps ==
    ASSUME IInv, NEW n \in Notifier, Mark(n)
    PROVE  IInv' /\ \A e \in Event : event[e].status = "sent" => event'[e].status = "sent"
<1> USE DEF IInv, MailInv
<1> DEFINE e == node[n].event
<1>1. /\ node[n].pc = "answered" /\ node' = [node EXCEPT ![n] = Idle] /\ Unlock(n)
      /\ UNCHANGED <<ready, moved, paused, readable, provider>>
      /\ IF event[e].status = "sending"
         THEN /\ event' = [event EXCEPT ![e] = After(event[e], node[n].answer)]
              /\ stale' = stale \ {e}
         ELSE UNCHANGED <<event, stale>>
    BY DEF Mark
<1>2. e \in Event /\ event[e] \in Row
    BY <1>1, NodeParts, RowParts
<1>3. /\ \A m \in Notifier : m # n => node'[m] = node[m]
      /\ node'[n] = Idle /\ node' \in [Notifier -> Work \cup {Idle}]
      /\ lock' \in Notifier \cup {None}
    BY <1>1 DEF TypeOK, Unlock
<1> HIDE DEF e
<1>4. /\ \A m \in Notifier : node'[m] # Idle => node'[m].event = node[m].event /\ node[m] # Idle
      /\ \A m \in Notifier : node'[m].answer = "accepted" => node'[m] = node[m]
    BY <1>3 DEF Idle
<1>5. UNCHANGED <<known, delivered, forgotten>> /\ UNCHANGED provider
    BY <1>1 DEF provider
<1>6. CASE event[e].status # "sending"
  <2>1. UNCHANGED <<event, stale, ready, moved, paused, readable>>
      BY <1>1, <1>6
  <2>2. TypeOK' /\ InLine'
      BY <1>3, <1>5, <2>1 DEF TypeOK, InLine
  <2>3. SentIsDelivered'
      BY <1>4, <1>5, <2>1, SentKeeps
  <2>4. OneRowEach' /\ Counted'
      BY <1>4, <1>5, <2>1, RowsStay DEF TypeOK, OneRowEach
  <2> QED
      BY <2>1, <2>2, <2>3, <2>4
<1>7. CASE event[e].status = "sending"
  <2>1. /\ event' = [event EXCEPT ![e] = After(event[e], node[n].answer)] /\ stale' = stale \ {e}
      BY <1>1, <1>7
  <2>2. /\ event'[e] = After(event[e], node[n].answer)
        /\ \A d \in Event : d # e => event'[d] = event[d]
        /\ event' \in [Event -> Row]
      BY <1>2, <2>1, Rows DEF TypeOK
  <2>3. TypeOK'
      BY <1>1, <1>3, <1>5, <2>1, <2>2 DEF TypeOK
  <2>4. \A i \in 1..Len(ready) : ready[i] # e /\ ready[i] \in Event
      BY <1>7 DEF InLine, TypeOK
  <2>5. InLine'
      BY <1>1, <2>1, <2>2, <2>4 DEF InLine, TypeOK
  <2>6. /\ event[e] # NoEvent /\ e \in Event \ Unused
        /\ event'[e].dedupe = event[e].dedupe
        /\ event'[e].status \in {"sent", "pending", "failed"}
        /\ event'[e].status = "sent" => node[n].answer = "accepted"
      BY <1>2, <1>7, <2>2, Rows DEF Unused
  <2>7. OneRowEach' /\ Counted'
    <3>1. /\ \A d \in Event : event'[d].dedupe = event[d].dedupe
          /\ \A d \in Event : event[d] = NoEvent => event'[d] = NoEvent
          /\ \A d \in Event : event[d] # NoEvent => event'[d].status # "none"
        BY <2>2, <2>6 DEF OneRowEach
    <3> QED
        BY <1>1, <1>4, <1>5, <2>2, <3>1, RowsStay
  <2>8. \A d \in Event : event'[d].status = "sent" => delivered'[event'[d].dedupe] > 0
    <3> SUFFICES ASSUME NEW d \in Event, event'[d].status = "sent"
                 PROVE  delivered'[event'[d].dedupe] > 0
        OBVIOUS
    <3>1. CASE d = e
        BY <1>5, <2>6, <3>1 DEF SentIsDelivered, About, e
    <3>2. CASE d # e
        BY <1>5, <2>2, <3>2 DEF SentIsDelivered
    <3> QED
        BY <3>1, <3>2
  <2>9. \A m \in Notifier : node'[m].answer = "accepted" => delivered'[event'[node'[m].event].dedupe] > 0
    <3> SUFFICES ASSUME NEW m \in Notifier, node'[m].answer = "accepted"
                 PROVE  delivered'[event'[node'[m].event].dedupe] > 0
        OBVIOUS
    <3>1. node'[m] = node[m] /\ node[m] # Idle
        BY <1>4 DEF Idle
    <3>2. node[m].event \in Event
        BY <3>1 DEF TypeOK, Work
    <3>3. event'[node[m].event].dedupe = event[node[m].event].dedupe
        BY <2>2, <2>6, <3>2
    <3> QED
        BY <1>5, <3>1, <3>3 DEF SentIsDelivered, About
  <2>10. \A d \in Event : event[d].status = "sent" => event'[d].status = "sent"
      BY <1>7, <2>2
  <2> QED
      BY <2>3, <2>5, <2>7, <2>8, <2>9, <2>10 DEF SentIsDelivered, About
<1> QED
    BY <1>6, <1>7

LEMMA StepKeeps ==
    ASSUME IInv, [Next]_vars
    PROVE  IInv' /\ \A e \in Event : event[e].status = "sent" => event'[e].status = "sent"
<1> USE DEF IInv, MailInv
<1>1. CASE UNCHANGED vars
  <2>1. UNCHANGED <<event, ready, stale, moved, paused, lock, node, readable, known, delivered, forgotten>>
      BY <1>1 DEF vars, queue, provider
  <2> QED
      BY <2>1 DEF TypeOK, InLine, OneRowEach, Made, Counted, Unused, SentIsDelivered, About
<1>2. ASSUME NEW k \in DedupeKey, TaskMoves(k) \/ \E e \in Event : EnqueueTemplate(k, e)
      PROVE  IInv' /\ \A d \in Event : event[d].status = "sent" => event'[d].status = "sent"
  <2>1. CASE TaskMoves(k)
      BY <2>1, MoveKeeps
  <2>2. ASSUME NEW e \in Event, EnqueueTemplate(k, e)
        PROVE  \A d \in Event : event[d].status = "sent" => event'[d].status = "sent"
      BY <2>2, RowExists DEF EnqueueTemplate, TypeOK
  <2> QED
      BY <1>2, <2>1, <2>2, EnqueueKeeps
<1>3. ASSUME NEW e \in Event, EventStep(e)
      PROVE  \A d \in Event : event[d].status = "sent" => event'[d].status = "sent"
    BY <1>3 DEF EventStep, NextAttempt, FiveMinutesPass, RetryFailed, Forget, queue, TypeOK
<1>4. ASSUME NEW n \in Notifier, Crash(n) \/ LoseLock(n)
      PROVE  IInv' /\ UNCHANGED event
  <2>1. /\ UNCHANGED <<event, ready, stale, moved, paused, readable, known, delivered, forgotten>>
        /\ lock' \in Notifier \cup {None}
        /\ node' \in [Notifier -> Work \cup {Idle}]
        /\ \A m \in Notifier : node'[m] = node[m] \/ node'[m] = Idle
      BY <1>4 DEF Crash, LoseLock, Unlock, TypeOK, queue, provider
  <2>2. TypeOK' /\ InLine'
      BY <2>1 DEF TypeOK, InLine
  <2>3. OneRowEach' /\ Counted'
      BY <2>1 DEF OneRowEach, Made, Counted, Unused
  <2>4. SentIsDelivered'
      BY <2>1, SentKeeps DEF Idle
  <2> QED
      BY <2>1, <2>2, <2>3, <2>4
<1>5. ASSUME SetPaused
      PROVE  IInv' /\ UNCHANGED event
  <2>1. /\ UNCHANGED <<event, ready, stale, moved, lock, node, readable, known, delivered, forgotten>>
        /\ paused' \in BOOLEAN
      BY <1>5 DEF SetPaused, provider, TypeOK
  <2> QED
      BY <2>1 DEF TypeOK, InLine, OneRowEach, Made, Counted, Unused, SentIsDelivered, About
<1>6. ASSUME NEW n \in Notifier, NodeStep(n)
      PROVE  IInv' /\ \A e \in Event : event[e].status = "sent" => event'[e].status = "sent"
    BY <1>4, <1>6, ClaimKeeps, PostKeeps, MarkKeeps DEF NodeStep
<1> QED
    BY <1>1, <1>2, <1>3, <1>5, <1>6, EventKeeps DEF Next

\* The line, the rows and what the provider was asked agree after any steps of any
\* number of calls and notifiers, with or without their lock
\* (notifications.py:91-283, notifier.py:35-80).
THEOREM MailInductive == Spec => []MailInv
<1>1. Init => IInv
    BY InitHolds
<1>2. IInv /\ [Next]_vars => IInv'
    BY StepKeeps
<1>3. IInv => MailInv
    BY DEF IInv
<1> QED
    BY <1>1, <1>2, <1>3, PTL DEF Spec

\* Whatever is queued again, recovered, retried or sent by two notifiers at once:
\* about one thing no more mails are sent than the provider forgot requests, and
\* one (notifications.py:102-106, :149 and :185, resend.py:46).
THEOREM NeverTwice == Spec => []NotTwice
<1>1. MailInv => NotTwice
  <2> SUFFICES ASSUME MailInv, NEW k \in DedupeKey PROVE delivered[k] <= forgotten[k] + 1
      BY DEF NotTwice
  <2>1. delivered[k] \in Nat /\ forgotten[k] \in Nat
      BY DEF MailInv, TypeOK
  <2>2. CASE delivered[k] > 0
    <3>1. PICK e \in Event : event[e].dedupe = k
        BY <2>2 DEF MailInv, Counted, Made
    <3>2. e \notin Unused
        BY <3>1, RowExists, Rows
    <3> QED
        BY <2>1, <3>1, <3>2 DEF MailInv, Counted
  <2> QED
      BY <2>1, <2>2
<1> QED
    BY <1>1, MailInductive, PTL

\* A mail that counts as sent was given to the provider (notifications.py:237).
THEOREM SentWasDelivered == Spec => []SentIsDelivered
<1>1. Init => IInv
    BY InitHolds
<1>2. IInv /\ [Next]_vars => IInv'
    BY StepKeeps
<1>3. IInv => SentIsDelivered
    BY DEF IInv
<1> QED
    BY <1>1, <1>2, <1>3, PTL DEF Spec

\* What is sent stays so, whoever answers late (notifications.py:239 and :257).
THEOREM SentForGood == Spec => SentStays
<1>1. Init => IInv
    BY InitHolds
<1>2. IInv /\ [Next]_vars => IInv'
    BY StepKeeps
<1>3. IInv /\ [Next]_vars =>
        [\A e \in Event : event[e].status = "sent" => event'[e].status = "sent"]_vars
    BY StepKeeps
<1> QED
    BY <1>1, <1>2, <1>3, PTL DEF Spec, SentStays
=============================================================================
