----------------------- MODULE StoreFulfilmentProofs ------------------------
(***************************************************************************)
(* What StoreFulfilment guarantees for any sessions, any number of thanks  *)
(* pages and any faults: a paid session is turned into goods once.         *)
(***************************************************************************)
EXTENDS StoreFulfilment, FiniteSetTheorems, TLAPS

-----------------------------------------------------------------------------
(* Type correctness.                                                       *)

\* One page of events is a sequence of sessions.
LEMMA PageType ==
  ASSUME TypeOK, NEW q \in Pages
  PROVE  Page(q) \in Seq(Sessions)
<1>1. IsFiniteSet(Listed)
  <2>1. Listed \subseteq Sessions
    BY DEF Listed
  <2> QED
    BY <2>1, FS_Subset, StoreAssumption
<1>2. Cardinality(Listed) \in Nat
  BY <1>1, FS_CardinalityType
<1>3. q \in [1..Cardinality(Listed) -> Sessions]
  BY DEF Pages, SetToSeqs, Listed
<1>4. q \in Seq(Sessions)
  BY <1>2, <1>3
<1>5. CASE Len(q) > Limit
  <2>1. Len(q) \in Nat /\ Limit \in Nat \ {0}
    BY <1>4, StoreAssumption
  <2>2. \A i \in (Len(q) - Limit + 1)..Len(q) : q[i] \in Sessions
    BY <1>4, <1>5, <2>1
  <2>3. SubSeq(q, Len(q) - Limit + 1, Len(q)) \in Seq(Sessions)
    BY <1>4, <1>5, <2>1, <2>2
  <2> QED
    BY <2>3, <1>5 DEF Page
<1>6. CASE ~(Len(q) > Limit)
  BY <1>4, <1>6 DEF Page
<1> QED
  BY <1>5, <1>6

\* Every step keeps the rows, the locals and the listing well typed.
LEMMA TypeStep == TypeOK /\ [Next]_vars => TypeOK'
<1> SUFFICES ASSUME TypeOK, [Next]_vars PROVE TypeOK'
  OBVIOUS
<1> USE StoreAssumption DEF TypeOK, Critical, Callers, Sessions, Goto, Return,
        stripe, tables, mail, poll
<1>1. CASE \E s \in Sessions : Pay(s) \/ DeliverMail(s) \/ MailFails(s)
  BY <1>1 DEF Pay, DeliverMail, MailFails
<1>2. CASE Tick
  BY <1>2 DEF Tick
<1>3. ASSUME NEW p \in Callers, Lock(p) \/ Lookup(p) \/ Fetch(p)
      PROVE  TypeOK'
  BY <1>3, ZenonT(30) DEF Lock, Lookup, Fetch
<1>4. ASSUME NEW p \in Callers, FulfilPass(p) \/ FulfilPassRefused(p)
      PROVE  TypeOK'
  <2>1. CASE FulfilPass(p)
    BY <2>1 DEF FulfilPass
  <2>2. CASE FulfilPassRefused(p)
    BY <2>2 DEF FulfilPassRefused
  <2> QED
    BY <1>4, <2>1, <2>2
<1>5. ASSUME NEW p \in Callers, CreateStoreOrder(p) \/ FulfilAddon(p)
      PROVE  TypeOK'
  <2>1. CASE CreateStoreOrder(p)
    BY <2>1 DEF CreateStoreOrder
  <2>2. CASE FulfilAddon(p)
    <3>1. orders' \subseteq Sessions /\ extras' \in [Sessions -> Nat]
      BY <2>2 DEF FulfilAddon
    <3>2. mu' \in Callers \cup {Nobody}
          /\ pc' \in [Callers -> Critical \cup {"idle", "lock", "next"}]
      BY <2>2 DEF FulfilAddon
    <3> QED
      BY <2>2, <3>1, <3>2 DEF FulfilAddon
  <2> QED
    BY <1>5, <2>1, <2>2
<1>6. ASSUME NEW r \in Requests, NEW s \in Sessions, HandleStoreSession(r, s)
      PROVE  TypeOK'
  BY <1>6 DEF HandleStoreSession
<1>7. CASE ListEvents
  <2>1. PICK q \in Pages : queue' = Page(q)
    BY <1>7 DEF ListEvents
  <2>2. queue' \in Seq(Sessions)
    BY <2>1, PageType
  <2> QED
    BY <1>7, <2>2 DEF ListEvents
<1>8. CASE NextEvent
  <2>1. Head(queue) \in Sessions /\ Tail(queue) \in Seq(Sessions)
    BY <1>8 DEF NextEvent
  <2> QED
    BY <1>8, <2>1 DEF NextEvent
<1>9. CASE Sleep
  BY <1>9 DEF Sleep
<1>10. CASE \E p \in Callers : ContextEnds(p)
  BY <1>10 DEF ContextEnds
<1>11. CASE UNCHANGED vars
  BY <1>11 DEF vars
<1>12. ASSUME NEW p \in Callers, Fails(p)
       PROVE  TypeOK'
  BY <1>12 DEF Fails
<1>13. CASE Restart
  <2>1. ColdStart(clock) \in Nat
    BY DEF ColdStart
  <2> QED
    BY <1>13, <2>1 DEF Restart
<1> QED
  BY <1>1, <1>2, <1>3, <1>4, <1>5, <1>6, <1>7, <1>8, <1>9, <1>10, <1>11, <1>12, <1>13
     DEF Next, Fulfil, StorePoller

\* Spec => []TypeOK: the rows, the locals and the poller's listing stay in
\* their types through every fault and restart.
THEOREM TypeCorrect == Spec => []TypeOK
<1>1. Init => TypeOK
  BY StoreAssumption DEF Init, TypeOK, Critical, Callers, Sessions, ColdStart
<1> QED
  BY <1>1, TypeStep, PTL DEF Spec

-----------------------------------------------------------------------------
(* The inductive invariant.                                                *)

\* The mutex is held exactly by the call between Lock and Return.
Serial == \A p \in Callers : pc[p] \in Critical <=> mu = p

\* What a call knows of its session: it was found paid, and under a context
\* still alive it had no order row, and none was written since.  Before the
\* order row of a pass is written the pass is there.
Knows ==
  \A p \in Callers :
    /\ pc[p] \in {"fulfil", "order"} => Paid(sess[p])
    /\ pc[p] \in {"fetch", "fulfil"} /\ ctx[p] => sess[p] \notin orders
    /\ pc[p] = "order" =>
         sess[p] \in PassSessions /\ minted[sess[p]] = 1

\* The goods of a session are of its kind, of a paid session, and once.
Goods ==
  /\ \A s \in PassSessions : extras[s] = 0 /\ minted[s] \in {0, 1}
  /\ \A s \in AddonSessions : minted[s] = 0 /\ extras[s] \in {0, 1}
  /\ \A s \in Sessions : minted[s] = 1 \/ extras[s] = 1 => Paid(s)

\* An order row and its goods.
Backed ==
  /\ \A s \in PassSessions : s \in orders => minted[s] = 1
  /\ \A s \in AddonSessions : s \in orders <=> extras[s] = 1

\* A minted pass has its order row, or is about to, or lost it.
Accounted ==
  \A s \in PassSessions :
    minted[s] = 1 =>
      s \in orders \/ s \in lost \/ \E p \in Callers : pc[p] = "order" /\ sess[p] = s

StoreInv == Serial /\ Knows /\ Goods /\ Backed /\ Accounted

\* A step that moves calls and touches no goods: nobody leaves "order".
LEMMA ControlStep ==
  ASSUME TypeOK, StoreInv, Serial', Knows',
         UNCHANGED <<created, orders, minted, extras, lost>>,
         \A q \in Callers : pc[q] = "order" => pc'[q] = "order" /\ sess'[q] = sess[q]
  PROVE  StoreInv'
<1>1. Goods' /\ Backed'
  BY DEF StoreInv, Goods, Backed, Paid
<1>2. Accounted'
  BY DEF StoreInv, Accounted
<1> QED
  BY <1>1, <1>2 DEF StoreInv

\* A step that touches neither calls nor goods.
LEMMA FrameStep ==
  ASSUME TypeOK, StoreInv,
         UNCHANGED <<created, orders, minted, extras, mu, pc, sess, ctx, lost>>
  PROVE  StoreInv'
<1>1. Serial' /\ Knows'
  BY DEF StoreInv, Serial, Knows, Paid
<1> QED
  BY <1>1, ControlStep

\* Payments, mail, time and the poller's listing.
LEMMA OutsideStep ==
  ASSUME TypeOK, StoreInv,
         \/ \E s \in Sessions : Pay(s) \/ DeliverMail(s) \/ MailFails(s)
         \/ Tick \/ ListEvents \/ Sleep \/ UNCHANGED vars
  PROVE  StoreInv'
<1> USE DEF stripe, tables, mail, poll
<1>1. ASSUME NEW s \in Sessions, Pay(s)
      PROVE  StoreInv'
  <2>1. UNCHANGED <<orders, minted, extras, mu, pc, sess, ctx, lost>>
    BY <1>1 DEF Pay
  <2>2. \A x \in Sessions : Paid(x) => Paid(x)'
    BY <1>1 DEF Pay, Paid, TypeOK
  <2>3. Serial' /\ Backed' /\ Accounted'
    BY <2>1 DEF StoreInv, Serial, Backed, Accounted
  <2>4. Knows' /\ Goods'
    BY <2>1, <2>2 DEF StoreInv, Knows, Goods, TypeOK
  <2> QED
    BY <2>3, <2>4 DEF StoreInv
<1>2. CASE \E s \in Sessions : DeliverMail(s) \/ MailFails(s)
  <2>1. UNCHANGED <<created, orders, minted, extras, mu, pc, sess, ctx, lost>>
    BY <1>2 DEF DeliverMail, MailFails
  <2> QED
    BY <2>1, FrameStep
<1>3. CASE Tick
  <2>1. UNCHANGED <<created, orders, minted, extras, mu, pc, sess, ctx, lost>>
    BY <1>3 DEF Tick
  <2> QED
    BY <2>1, FrameStep
<1>4. CASE ListEvents \/ Sleep
  <2>1. UNCHANGED <<created, orders, minted, extras, mu, sess, lost>>
    BY <1>4 DEF ListEvents, Sleep
  <2>2. \A p \in Callers : p # Poller => pc'[p] = pc[p] /\ ctx'[p] = ctx[p]
    BY <1>4 DEF ListEvents, Sleep, Goto, TypeOK
  <2>3. pc[Poller] \in {"idle", "next"} /\ pc'[Poller] \in {"idle", "next"}
    BY <1>4 DEF ListEvents, Sleep, Goto, TypeOK, Callers
  <2>4. Serial' /\ Knows'
    BY <2>1, <2>2, <2>3 DEF StoreInv, Serial, Knows, Critical, Callers, Paid
  <2>5. \A q \in Callers : pc[q] = "order" => pc'[q] = "order" /\ sess'[q] = sess[q]
    BY <2>1, <2>2, <2>3
  <2> QED
    BY <2>1, <2>4, <2>5, ControlStep
<1>5. CASE UNCHANGED vars
  BY <1>5, FrameStep DEF vars
<1> QED
  BY <1>1, <1>2, <1>3, <1>4, <1>5

\* A new call, the next event, the end of a context and a restart.
LEMMA CallerStep ==
  ASSUME TypeOK, StoreInv,
         \/ \E r \in Requests, s \in Sessions : HandleStoreSession(r, s)
         \/ NextEvent \/ Restart
         \/ \E p \in Callers : ContextEnds(p)
  PROVE  StoreInv'
<1> USE DEF stripe, tables, mail, poll
<1>1. ASSUME NEW r \in Requests, NEW s \in Sessions, HandleStoreSession(r, s)
      PROVE  StoreInv'
  <2>1. UNCHANGED <<created, orders, minted, extras, mu, lost>>
    BY <1>1 DEF HandleStoreSession
  <2>2. \A p \in Callers : p # r => pc'[p] = pc[p] /\ sess'[p] = sess[p] /\ ctx'[p] = ctx[p]
    BY <1>1 DEF HandleStoreSession, Goto, TypeOK
  <2>3. r \in Callers /\ pc[r] = "idle" /\ pc'[r] = "lock"
    BY <1>1 DEF HandleStoreSession, Goto, TypeOK, Callers
  <2>4. Serial' /\ Knows'
    BY <2>1, <2>2, <2>3 DEF StoreInv, Serial, Knows, Critical, Paid
  <2>5. \A q \in Callers : pc[q] = "order" => pc'[q] = "order" /\ sess'[q] = sess[q]
    BY <2>2, <2>3
  <2> QED
    BY <2>1, <2>4, <2>5, ControlStep
<1>2. CASE NextEvent
  <2>1. UNCHANGED <<created, orders, minted, extras, mu, ctx, lost>>
    BY <1>2 DEF NextEvent
  <2>2. Poller \in Callers /\ pc[Poller] = "next" /\ pc'[Poller] \in {"next", "lock"}
    BY <1>2 DEF NextEvent, Goto, TypeOK, Callers
  <2>3. \A p \in Callers : p # Poller => pc'[p] = pc[p] /\ sess'[p] = sess[p]
    BY <1>2 DEF NextEvent, Goto, TypeOK
  <2>4. Serial' /\ Knows'
    BY <2>1, <2>2, <2>3 DEF StoreInv, Serial, Knows, Critical, Paid
  <2>5. \A q \in Callers : pc[q] = "order" => pc'[q] = "order" /\ sess'[q] = sess[q]
    BY <2>2, <2>3
  <2> QED
    BY <2>1, <2>4, <2>5, ControlStep
<1>3. CASE Restart
  <2>1. UNCHANGED <<created, orders, minted, extras, sess>>
    BY <1>3 DEF Restart
  <2>2. mu' = Nobody /\ \A p \in Callers : pc'[p] = "idle"
    BY <1>3 DEF Restart
  <2>3. \A p \in Callers : pc[p] = "order" => sess[p] \in lost'
    BY <1>3 DEF Restart
  <2>4. lost \subseteq lost'
    BY <1>3 DEF Restart
  <2>5. Serial' /\ Knows'
    BY <2>2, StoreAssumption DEF Serial, Knows, Critical
  <2>6. Goods' /\ Backed'
    BY <2>1 DEF StoreInv, Goods, Backed, Paid
  <2>7. Accounted'
    BY <2>1, <2>3, <2>4 DEF StoreInv, Accounted
  <2> QED
    BY <2>5, <2>6, <2>7 DEF StoreInv
<1>4. ASSUME NEW p \in Callers, ContextEnds(p)
      PROVE  StoreInv'
  <2>1. UNCHANGED <<created, orders, minted, extras, mu, pc, sess, lost>>
    BY <1>4 DEF ContextEnds
  <2>2. \A q \in Callers : ctx'[q] => ctx[q]
    BY <1>4 DEF ContextEnds, TypeOK
  <2>3. Serial' /\ Knows'
    BY <2>1, <2>2 DEF StoreInv, Serial, Knows, Paid
  <2> QED
    BY <2>1, <2>3, ControlStep
<1> QED
  BY <1>1, <1>2, <1>3, <1>4

\* The statements of fulfillStoreSession.
LEMMA FulfilStep ==
  ASSUME TypeOK, StoreInv, NEW p \in Callers, Fulfil(p)
  PROVE  StoreInv'
<1> DEFINE Elsewhere == \A q \in Callers : q # p => pc'[q] = pc[q]
           After == {"idle", "next"}
<1> USE DEF stripe, tables, mail, poll
\* Only p is inside, so nobody else is between Lock and Return.
<1>0. ASSUME mu = p
      PROVE  \A q \in Callers : q # p => pc[q] \notin Critical
  BY <1>0 DEF StoreInv, Serial
<1>a. ASSUME pc[p] \in Critical
      PROVE  mu = p
  BY <1>a DEF StoreInv, Serial
<1>b. ASSUME Return(p)
      PROVE  mu' = Nobody /\ pc'[p] \in After /\ Elsewhere
  BY <1>b DEF Return, Goto, TypeOK
<1>c. ASSUME mu' = Nobody, pc'[p] \in After, Elsewhere, mu = p
      PROVE  Serial'
  BY <1>c, <1>0, StoreAssumption DEF Serial, Critical
<1>1. CASE Lock(p)
  <2>1. UNCHANGED <<created, orders, minted, extras, sess, ctx, lost>>
    BY <1>1 DEF Lock
  <2>2. mu = Nobody /\ mu' = p /\ pc[p] = "lock" /\ pc'[p] = "lookup" /\ Elsewhere
    BY <1>1 DEF Lock, Goto, TypeOK
  <2>3. Serial'
    BY <2>2, StoreAssumption DEF StoreInv, Serial, Critical
  <2>4. Knows'
    BY <2>1, <2>2 DEF StoreInv, Knows, Paid
  <2>5. \A q \in Callers : pc[q] = "order" => pc'[q] = "order" /\ sess'[q] = sess[q]
    BY <2>1, <2>2
  <2> QED
    BY <2>1, <2>3, <2>4, <2>5, ControlStep
<1>2. CASE Lookup(p) \/ Fetch(p)
  <2>1. UNCHANGED <<created, orders, minted, extras, sess, ctx, lost>>
    BY <1>2 DEF Lookup, Fetch
  <2>2. pc[p] \in {"lookup", "fetch"} /\ mu = p
    BY <1>2, <1>a DEF Lookup, Fetch, Critical
  <2>3. \/ Return(p)
        \/ /\ mu' = mu /\ Elsewhere
           /\ \/ pc'[p] = "fetch" /\ (ctx[p] => sess[p] \notin orders)
              \/ pc[p] = "fetch" /\ pc'[p] = "fulfil" /\ Paid(sess[p])
    BY <1>2 DEF Lookup, Fetch, Goto, TypeOK
  <2>4. Serial'
    BY <2>2, <2>3, <1>0, <1>b, <1>c DEF Serial, Critical
  <2>5. Knows'
    BY <2>1, <2>2, <2>3, <1>b DEF StoreInv, Knows, Paid
  <2>6. \A q \in Callers : pc[q] = "order" => pc'[q] = "order" /\ sess'[q] = sess[q]
    BY <2>1, <2>2, <2>3, <1>b
  <2> QED
    BY <2>1, <2>4, <2>5, <2>6, ControlStep
<1>3. CASE FulfilPassRefused(p)
  <2>1. UNCHANGED <<created, orders, minted, extras, sess, ctx, lost>>
    BY <1>3 DEF FulfilPassRefused
  <2>2. pc[p] = "fulfil" /\ mu = p /\ mu' = Nobody /\ pc'[p] \in After /\ Elsewhere
    BY <1>3, <1>a, <1>b DEF FulfilPassRefused, Critical
  <2>3. Serial'
    BY <2>2, <1>c
  <2>4. Knows'
    BY <2>1, <2>2 DEF StoreInv, Knows, Paid
  <2>5. \A q \in Callers : pc[q] = "order" => pc'[q] = "order" /\ sess'[q] = sess[q]
    BY <2>1, <2>2
  <2> QED
    BY <2>1, <2>3, <2>4, <2>5, ControlStep
<1>4. CASE FulfilPass(p)
  <2>1. UNCHANGED <<created, orders, extras, mu, sess, ctx, lost>>
    BY <1>4 DEF FulfilPass
  <2>2. pc[p] = "fulfil" /\ mu = p /\ pc'[p] = "order" /\ Elsewhere
    BY <1>4, <1>a DEF FulfilPass, Goto, TypeOK, Critical
  <2>3. /\ sess[p] \in PassSessions /\ sess[p] \in Sessions /\ minted[sess[p]] = 0
        /\ minted'[sess[p]] = 1 /\ Paid(sess[p])
        /\ \A s \in Sessions : s # sess[p] => minted'[s] = minted[s]
    BY <1>4 DEF FulfilPass, TypeOK, StoreInv, Knows, Sessions
  <2>4. Serial'
    BY <2>1, <2>2 DEF StoreInv, Serial, Critical
  <2>5. Knows'
    BY <2>1, <2>2, <2>3, <1>0 DEF StoreInv, Knows, Paid, Critical
  <2>6. Goods' /\ Backed'
    BY <2>1, <2>3, StoreAssumption DEF StoreInv, Goods, Backed, Paid, Sessions
  <2>7. Accounted'
    BY <2>1, <2>2, <2>3 DEF StoreInv, Accounted, Sessions
  <2> QED
    BY <2>4, <2>5, <2>6, <2>7 DEF StoreInv
<1>5. CASE CreateStoreOrder(p)
  <2>1. UNCHANGED <<created, minted, extras, sess, ctx, lost>>
    BY <1>5 DEF CreateStoreOrder
  <2>2. pc[p] = "order" /\ mu = p /\ mu' = Nobody /\ pc'[p] \in After /\ Elsewhere
    BY <1>5, <1>a, <1>b DEF CreateStoreOrder, Critical
  <2>3. /\ orders' = orders \cup {sess[p]}
        /\ sess[p] \in PassSessions /\ minted[sess[p]] = 1
    BY <1>5 DEF CreateStoreOrder, StoreInv, Knows
  <2>4. Serial'
    BY <2>2, <1>c
  <2>5. Knows'
    BY <2>1, <2>2, <1>0 DEF StoreInv, Knows, Critical
  <2>6. Goods' /\ Backed'
    BY <2>1, <2>3, StoreAssumption DEF StoreInv, Goods, Backed, Paid
  <2>7. Accounted'
    BY <2>1, <2>2, <2>3 DEF StoreInv, Accounted
  <2> QED
    BY <2>4, <2>5, <2>6, <2>7 DEF StoreInv
<1>6. CASE FulfilAddon(p)
  <2>1. sess[p] \in AddonSessions /\ sess[p] \in Sessions /\ sess[p] \notin orders /\ Paid(sess[p])
    BY <1>6 DEF FulfilAddon, StoreInv, Knows, TypeOK
  <2>2. /\ orders' = orders \cup {sess[p]}
        /\ extras' = [extras EXCEPT ![sess[p]] = @ + 1]
        /\ UNCHANGED <<created, minted, sess, ctx, lost>>
    BY <1>6, <2>1 DEF FulfilAddon
  <2>3. extras[sess[p]] = 0 /\ extras'[sess[p]] = 1
        /\ \A s \in Sessions : s # sess[p] => extras'[s] = extras[s]
    BY <2>1, <2>2 DEF StoreInv, Goods, Backed, TypeOK
  <2>4. pc[p] = "fulfil" /\ mu = p /\ mu' = Nobody /\ pc'[p] \in After /\ Elsewhere
    BY <1>6, <1>a, <1>b DEF FulfilAddon, Critical
  <2>5. Serial'
    BY <2>4, <1>c
  <2>6. Knows'
    BY <2>2, <2>4, <1>0 DEF StoreInv, Knows, Critical
  <2>7. Goods' /\ Backed'
    BY <2>1, <2>2, <2>3, StoreAssumption DEF StoreInv, Goods, Backed, Paid, Sessions
  <2>8. Accounted'
    BY <2>2, <2>4 DEF StoreInv, Accounted
  <2> QED
    BY <2>5, <2>6, <2>7, <2>8 DEF StoreInv
<1>7. CASE Fails(p)
  <2>1. UNCHANGED <<created, orders, minted, extras, sess, ctx>>
    BY <1>7 DEF Fails
  <2>2. mu = p /\ mu' = Nobody /\ pc'[p] \in After /\ Elsewhere
    BY <1>7, <1>a, <1>b DEF Fails, Critical
  <2>3. lost \subseteq lost' /\ (pc[p] = "order" => sess[p] \in lost')
    BY <1>7 DEF Fails
  <2>4. Serial'
    BY <2>2, <1>c
  <2>5. Knows'
    BY <2>1, <2>2 DEF StoreInv, Knows, Paid
  <2>6. Goods' /\ Backed'
    BY <2>1 DEF StoreInv, Goods, Backed, Paid
  <2>7. Accounted'
    BY <2>1, <2>2, <2>3 DEF StoreInv, Accounted
  <2> QED
    BY <2>4, <2>5, <2>6, <2>7 DEF StoreInv
<1> QED
  BY <1>1, <1>2, <1>3, <1>4, <1>5, <1>6, <1>7 DEF Fulfil

LEMMA StoreInvariant == Spec => [](TypeOK /\ StoreInv)
<1>1. Init => StoreInv
  BY StoreAssumption
     DEF Init, StoreInv, Serial, Knows, Goods, Backed, Accounted, Sessions, Critical, Callers
<1>2. TypeOK /\ StoreInv /\ [Next]_vars => StoreInv'
  BY OutsideStep, CallerStep, FulfilStep DEF Next, StorePoller
<1>3. TypeOK /\ StoreInv /\ [Next]_vars => (TypeOK /\ StoreInv)'
  BY <1>2, TypeStep
<1>4. Init => TypeOK
  BY StoreAssumption DEF Init, TypeOK, Critical, Callers, Sessions, ColdStart
<1> QED
  BY <1>1, <1>3, <1>4, PTL DEF Spec

-----------------------------------------------------------------------------
(* The theorems.                                                           *)

\* "Exactly once": fulfillStoreSession never mints a second pass for a
\* session, never applies its add-ons twice, and delivers to paid sessions
\* only, through lost contexts, failed statements and restarts.
THEOREM ExactlyOnce == Spec => []FulfilledOnce
<1>1. TypeOK /\ StoreInv => FulfilledOnce
  BY DEF TypeOK, StoreInv, Goods, FulfilledOnce, Sessions
<1> QED
  BY <1>1, StoreInvariant, PTL

\* Every store_orders row stands for goods, and the add-ons of a session are
\* applied if and only if its row was written.
THEOREM OrdersBacked == Spec => []OrderBacked
<1>1. TypeOK /\ StoreInv => OrderBacked
  BY DEF TypeOK, StoreInv, Goods, Backed, OrderBacked, Sessions
<1> QED
  BY <1>1, StoreInvariant, PTL

\* store.mu covers the lookup and the work: a call about to work finds the
\* session undone, unless an earlier order row was lost.
THEOREM WorkIsUndone == Spec => []WorkUndone
<1>1. TypeOK /\ StoreInv => WorkUndone
  <2> SUFFICES ASSUME TypeOK, StoreInv, NEW p \in Callers, pc[p] = "fulfil", ctx[p]
               PROVE  sess[p] \notin orders /\ (minted[sess[p]] > 0 => sess[p] \in lost)
    BY DEF WorkUndone
  <2>1. sess[p] \notin orders
    BY DEF StoreInv, Knows
  <2>2. \A q \in Callers : pc[q] # "order"
    BY DEF StoreInv, Serial, Critical
  <2>3. sess[p] \in Sessions
    BY DEF TypeOK
  <2>4. minted[sess[p]] > 0 => sess[p] \in PassSessions /\ minted[sess[p]] = 1
    BY <2>3 DEF StoreInv, Goods, Sessions
  <2> QED
    BY <2>1, <2>2, <2>4 DEF StoreInv, Accounted
<1> QED
  BY <1>1, StoreInvariant, PTL

-----------------------------------------------------------------------------
(* The refinement.                                                         *)

paidSet == {s \in Sessions : Paid(s)}
goodsOf == [s \in Sessions |-> minted[s] + extras[s]]

\* A step that delivers to s, and records it if the order commits with it.
LEMMA DeliverStep ==
  ASSUME TypeOK, StoreInv, NEW s \in Sessions, Paid(s), minted[s] = 0, extras[s] = 0,
         UNCHANGED created,
         \/ /\ s \in PassSessions
            /\ minted' = [minted EXCEPT ![s] = @ + 1]
            /\ UNCHANGED <<orders, extras>>
         \/ /\ s \in AddonSessions
            /\ extras' = [extras EXCEPT ![s] = @ + 1]
            /\ orders' = orders \cup {s}
            /\ UNCHANGED minted
  PROVE  Promise!Deliver(s)
<1>1. s \in paidSet /\ goodsOf[s] = 0 /\ paidSet' = paidSet
  BY DEF paidSet, goodsOf, Paid
<1>2. goodsOf' = [goodsOf EXCEPT ![s] = 1]
  <2>1. \A t \in Sessions : minted'[t] + extras'[t] = IF t = s THEN 1 ELSE minted[t] + extras[t]
    BY DEF TypeOK
  <2> QED
    BY <2>1 DEF goodsOf
<1>3. orders' = IF s \in AddonSessions THEN orders \cup {s} ELSE orders
  BY StoreAssumption
<1> QED
  BY <1>1, <1>2, <1>3 DEF Promise!Deliver, paidSet, goodsOf

\* A step that pays nothing, delivers nothing and records nothing.
LEMMA StutterStep ==
  ASSUME UNCHANGED <<created, orders, minted, extras>>
  PROVE  UNCHANGED <<paidSet, goodsOf, orders>>
BY DEF paidSet, goodsOf, Paid

\* A session that is paid is never taken for unpaid: Stripe's clock has begun.
Begun == clock > 0

\* Stripe's clock only goes on.
LEMMA ClockRuns == Spec => []Begun
<1>1. Init => Begun
  BY DEF Init, Begun
<1>2. TypeOK /\ Begun /\ [Next]_vars => Begun'
  <2> SUFFICES ASSUME TypeOK, Begun, [Next]_vars PROVE clock' > 0
    BY DEF Begun
  <2>1. CASE Tick
    BY <2>1 DEF Tick, TypeOK, Begun
  <2>2. CASE ~ Tick
    <3>1. clock' = clock
      BY <2>2 DEF Next, Pay, DeliverMail, MailFails, Fulfil, Lock, Lookup, Fetch, FulfilPass,
                  FulfilPassRefused, CreateStoreOrder, FulfilAddon, Fails, ContextEnds,
                  HandleStoreSession, StorePoller, ListEvents, NextEvent, Sleep, Restart,
                  vars, stripe
    <3> QED
      BY <3>1 DEF Begun
  <2> QED
    BY <2>1, <2>2
<1> QED
  BY <1>1, <1>2, TypeCorrect, PTL DEF Spec

\* Every step of the code is a step of the promise, or none.
LEMMA PromiseStep ==
  ASSUME TypeOK, StoreInv, Begun, [Next]_vars
  PROVE  [Promise!Next]_<<paidSet, goodsOf, orders>>
<1> USE DEF stripe, tables, mail, poll
<1>1. ASSUME NEW s \in Sessions, Pay(s)
      PROVE  Promise!Pay(s)
  <2>1. paidSet' = paidSet \cup {s} /\ s \notin paidSet
    <3>1. \A t \in Sessions : created'[t] > 0 <=> created[t] > 0 \/ t = s
      BY <1>1 DEF Pay, TypeOK, Begun
    <3> QED
      BY <1>1, <3>1 DEF paidSet, Paid, Pay
  <2>2. UNCHANGED <<goodsOf, orders>>
    BY <1>1 DEF Pay, goodsOf
  <2> QED
    BY <2>1, <2>2 DEF Promise!Pay, paidSet, goodsOf
<1>2. ASSUME NEW p \in Callers, FulfilPass(p)
      PROVE  \E s \in Sessions : Promise!Deliver(s)
  <2>1. sess[p] \in Sessions /\ Paid(sess[p]) /\ extras[sess[p]] = 0
    BY <1>2 DEF FulfilPass, TypeOK, StoreInv, Knows, Goods
  <2>2. /\ sess[p] \in PassSessions /\ UNCHANGED created
        /\ minted[sess[p]] = 0
        /\ minted' = [minted EXCEPT ![sess[p]] = @ + 1]
        /\ UNCHANGED <<orders, extras>>
    BY <1>2 DEF FulfilPass
  <2>3. PICK s \in Sessions : s = sess[p]
    BY <2>1
  <2> QED
    <3>1. Promise!Deliver(s)
      BY <2>1, <2>2, <2>3, DeliverStep
    <3> QED
      BY <3>1
<1>3. ASSUME NEW p \in Callers, FulfilAddon(p)
      PROVE  (\E s \in Sessions : Promise!Deliver(s)) \/ UNCHANGED <<paidSet, goodsOf, orders>>
  <2>1. CASE sess[p] \in orders
    BY <1>3, <2>1, StutterStep DEF FulfilAddon
  <2>2. CASE sess[p] \notin orders
    <3>1. sess[p] \in Sessions /\ Paid(sess[p])
      BY <1>3 DEF FulfilAddon, TypeOK, StoreInv, Knows
    <3>2. minted[sess[p]] = 0 /\ extras[sess[p]] = 0
      BY <1>3, <2>2 DEF FulfilAddon, StoreInv, Goods, Backed
    <3>3. /\ sess[p] \in AddonSessions /\ UNCHANGED created
          /\ extras' = [extras EXCEPT ![sess[p]] = @ + 1]
          /\ orders' = orders \cup {sess[p]}
          /\ UNCHANGED minted
      BY <1>3, <2>2 DEF FulfilAddon
    <3>4. PICK s \in Sessions : s = sess[p]
      BY <3>1
    <3> QED
      <4>1. Promise!Deliver(s)
        BY <3>1, <3>2, <3>3, <3>4, DeliverStep
      <4> QED
        BY <4>1
  <2> QED
    BY <2>1, <2>2
<1>4. ASSUME NEW p \in Callers, CreateStoreOrder(p)
      PROVE  \E s \in Sessions : Promise!Record(s)
  <2>1. sess[p] \in Sessions /\ goodsOf[sess[p]] = 1
    BY <1>4 DEF CreateStoreOrder, TypeOK, StoreInv, Knows, Goods, goodsOf
  <2>2. orders' = orders \cup {sess[p]} /\ UNCHANGED <<paidSet, goodsOf>>
    BY <1>4 DEF CreateStoreOrder, paidSet, goodsOf, Paid
  <2>3. PICK s \in Sessions : s = sess[p]
    BY <2>1
  <2>4. Promise!Record(s)
    BY <2>1, <2>2, <2>3 DEF Promise!Record, paidSet, goodsOf
  <2> QED
    BY <2>4
<1>5. ASSUME \/ \E s \in Sessions : DeliverMail(s) \/ MailFails(s)
             \/ Tick \/ StorePoller \/ Restart \/ UNCHANGED vars
             \/ \E r \in Requests, s \in Sessions : HandleStoreSession(r, s)
             \/ \E p \in Callers : ContextEnds(p) \/ Lock(p) \/ Lookup(p) \/ Fetch(p)
                                   \/ FulfilPassRefused(p) \/ Fails(p)
      PROVE  UNCHANGED <<paidSet, goodsOf, orders>>
  <2>1. UNCHANGED <<created, orders, minted, extras>>
    BY <1>5 DEF DeliverMail, MailFails, Tick, StorePoller, ListEvents, NextEvent, Sleep,
                Restart, vars, HandleStoreSession, ContextEnds, Lock, Lookup, Fetch,
                FulfilPassRefused, Fails
  <2> QED
    BY <2>1, StutterStep
<1>6. \A p \in Callers : sess[p] \in Sessions
  BY DEF TypeOK
<1> QED
  BY <1>1, <1>2, <1>3, <1>4, <1>5, <1>6 DEF Next, Fulfil, Promise!Next

\* The store keeps its promise: an order is paid, delivered once and recorded,
\* whoever works on it and whatever fails.
THEOREM PromiseKept == Spec => OnceOnly
<1>1. Init => Promise!Init
  BY DEF Init, Promise!Init, Paid
<1> QED
  BY <1>1, PromiseStep, StoreInvariant, ClockRuns, PTL
     DEF Spec, OnceOnly, Promise!Spec, paidSet, goodsOf
=============================================================================
