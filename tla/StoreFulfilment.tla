-------------------------- MODULE StoreFulfilment ---------------------------
(***************************************************************************)
(* Fulfilment of paid Stripe Checkout Sessions (srv/store.go).             *)
(*                                                                         *)
(* Two kinds of process call fulfillStoreSession: the requests of the      *)
(* thanks page (handleStoreSession), each under its request's context, and *)
(* the poller that lists checkout.session.completed events every minute.   *)
(* A mutex serialises the calls; it does not survive a restart.  A pass is *)
(* minted in one transaction (fulfillPass, srv/passes.go) and its order    *)
(* row is written by a later statement; an add-on and its order row commit *)
(* together.                                                               *)
(***************************************************************************)
EXTENDS Integers, FiniteSets, Sequences, SequencesExt

CONSTANTS
  PassSessions,   \* the sessions that buy a pass
  AddonSessions,  \* the sessions that buy add-ons for an existing pass
  Requests,       \* concurrent requests of thanks pages
  Poller,         \* the poller
  Nobody,         \* the mutex is free
  Limit,          \* events per listing ("limit": 100)
  Lookback,       \* how far a cold start looks back (72 h), in ticks
  Events,         \* which faults the environment may inject
  MaxTime,        \* bound on the clock
  MaxFaults       \* bound on the injected faults

Sessions == PassSessions \cup AddonSessions
Callers == Requests \cup {Poller}

ASSUME StoreAssumption ==
  /\ IsFiniteSet(Sessions)
  /\ PassSessions \cap AddonSessions = {}
  /\ Poller \notin Requests
  /\ Nobody \notin Callers
  /\ Limit \in Nat \ {0}
  /\ Lookback \in Nat
  /\ Events \subseteq {"disconnect", "timeout", "fault", "crash"}
  /\ MaxTime \in Nat
  /\ MaxFaults \in Nat

VARIABLES
  clock,   \* Stripe's clock, in seconds
  created, \* created[s]: when s was paid, the time of its event; 0: unpaid
  orders,  \* the sessions with a store_orders row
  minted,  \* minted[s]: passes stamped with stripe_session_id = s
  extras,  \* extras[s]: times the add-ons of s were applied
  mailing, \* the sessions whose fulfilment mail is in a goroutine
  mailed,  \* the sessions whose buyer was sent the password
  mu,      \* the holder of store.mu, or Nobody
  pc,      \* pc[p]: the next statement of p
  sess,    \* sess[p]: the session p is about
  ctx,     \* ctx[p]: p's context is alive
  since,   \* the poller's since
  queue,   \* the listed events still to handle, oldest first
  lost,    \* history: passes whose order row was not written
  faults   \* faults injected so far

stripe == <<clock, created>>
tables == <<orders, minted, extras>>
mail == <<mailing, mailed>>
poll == <<since, queue>>
vars == <<stripe, tables, mail, mu, pc, sess, ctx, poll, lost, faults>>

Critical == {"lookup", "fetch", "fulfil", "order"}

\* Type correctness: rows, locals of every caller, and the poller's listing.
TypeOK ==
  /\ clock \in Nat
  /\ created \in [Sessions -> Nat]
  /\ orders \subseteq Sessions
  /\ minted \in [Sessions -> Nat]
  /\ extras \in [Sessions -> Nat]
  /\ mailing \subseteq PassSessions
  /\ mailed \subseteq PassSessions
  /\ mu \in Callers \cup {Nobody}
  /\ pc \in [Callers -> Critical \cup {"idle", "lock", "next"}]
  /\ sess \in [Callers -> Sessions]
  /\ ctx \in [Callers -> BOOLEAN]
  /\ since \in Nat
  /\ queue \in Seq(Sessions)
  /\ lost \subseteq Sessions
  /\ faults \in Nat

Paid(s) == created[s] > 0

\* Mutant: a young clock is not clamped.
ColdStart_Unclamped(t) == t - Lookback

\* now - 72 h.
ColdStart(t) == IF t > Lookback THEN t - Lookback ELSE 0

Init ==
  /\ clock = 1
  /\ created = [s \in Sessions |-> 0]
  /\ orders = {}
  /\ minted = [s \in Sessions |-> 0]
  /\ extras = [s \in Sessions |-> 0]
  /\ mailing = {} /\ mailed = {}
  /\ mu = Nobody
  /\ pc = [p \in Callers |-> "idle"]
  /\ sess \in {f \in [Callers -> Sessions] : \A p, q \in Callers : f[p] = f[q]}
  /\ ctx = [p \in Callers |-> TRUE]
  /\ since = ColdStart(1)
  /\ queue = <<>>
  /\ lost = {}
  /\ faults = 0

-----------------------------------------------------------------------------
(* Stripe: external.                                                       *)

\* The buyer pays: the session is complete and its event is listed from now.
Pay(s) ==
  /\ ~Paid(s)
  /\ created' = [created EXCEPT ![s] = clock]
  /\ UNCHANGED <<clock, tables, mail, mu, pc, sess, ctx, poll, lost, faults>>

Tick ==
  /\ clock < MaxTime
  /\ clock' = clock + 1
  /\ UNCHANGED <<created, tables, mail, mu, pc, sess, ctx, poll, lost, faults>>

\* Mutant: "created[gt]" instead of "created[gte]".
Listed_Strict == {s \in Sessions : Paid(s) /\ created[s] > since}

\* The completed sessions that "created[gte]" = since selects.
Listed == {s \in Sessions : Paid(s) /\ created[s] >= since}

\* One page of events, oldest first: the newest Limit of them.
Pages ==
  {q \in SetToSeqs(Listed) :
     \A i, j \in DOMAIN q : i < j => created[q[i]] <= created[q[j]]}

Page(q) == IF Len(q) > Limit THEN SubSeq(q, Len(q) - Limit + 1, Len(q)) ELSE q

-----------------------------------------------------------------------------
(* fulfillStoreSession, called by p for sess[p].                           *)

Goto(p, l) == pc' = [pc EXCEPT ![p] = l]

\* The deferred Unlock, and back to the caller of fulfillStoreSession.
Return(p) ==
  /\ mu' = Nobody
  /\ Goto(p, IF p = Poller THEN "next" ELSE "idle")

\* Mutant: the mutex is not taken.
Lock_Free(p) ==
  /\ pc[p] = "lock"
  /\ mu' = p
  /\ Goto(p, "lookup")
  /\ UNCHANGED <<stripe, tables, mail, sess, ctx, poll, lost, faults>>

Lock(p) ==
  /\ pc[p] = "lock"
  /\ mu = Nobody
  /\ mu' = p
  /\ Goto(p, "lookup")
  /\ UNCHANGED <<stripe, tables, mail, sess, ctx, poll, lost, faults>>

\* "Already done?": GetStoreOrderBySession.  Under a dead context the query
\* fails, which is taken for "not done".
Lookup(p) ==
  /\ pc[p] = "lookup"
  /\ IF ctx[p] /\ sess[p] \in orders
     THEN Return(p)
     ELSE Goto(p, "fetch") /\ UNCHANGED mu
  /\ UNCHANGED <<stripe, tables, mail, sess, ctx, poll, lost, faults>>

\* fetchSession and the payment check (errStoreUnpaid).
Fetch(p) ==
  /\ pc[p] = "fetch"
  /\ ctx[p]
  /\ IF Paid(sess[p])
     THEN Goto(p, "fulfil") /\ UNCHANGED mu
     ELSE Return(p)
  /\ UNCHANGED <<stripe, tables, mail, sess, ctx, poll, lost, faults>>

\* Mutant: stripe_session_id has no unique index.
FulfilPass_NotUnique(p) ==
  /\ pc[p] = "fulfil"
  /\ sess[p] \in PassSessions
  /\ ctx[p]
  /\ minted' = [minted EXCEPT ![sess[p]] = @ + 1]
  /\ mailing' = mailing \cup {sess[p]}
  /\ Goto(p, "order")
  /\ UNCHANGED <<stripe, orders, extras, mailed, mu, sess, ctx, poll, lost, faults>>

\* Mutant: the mail is left to the caller that sees a fresh result.
FulfilPass_Silent(p) ==
  /\ pc[p] = "fulfil"
  /\ sess[p] \in PassSessions
  /\ ctx[p]
  /\ minted[sess[p]] = 0
  /\ minted' = [minted EXCEPT ![sess[p]] = @ + 1]
  /\ Goto(p, "order")
  /\ UNCHANGED <<stripe, orders, extras, mail, mu, sess, ctx, poll, lost, faults>>

\* fulfillPass commits a pass stamped with the session, which a unique index
\* allows once, and the mail with the password is handed to a goroutine.
FulfilPass(p) ==
  /\ pc[p] = "fulfil"
  /\ sess[p] \in PassSessions
  /\ ctx[p]
  /\ minted[sess[p]] = 0
  /\ minted' = [minted EXCEPT ![sess[p]] = @ + 1]
  /\ mailing' = mailing \cup {sess[p]}
  /\ Goto(p, "order")
  /\ UNCHANGED <<stripe, orders, extras, mailed, mu, sess, ctx, poll, lost, faults>>

\* The unique index refuses: the transaction rolls back, "fulfil pass: ...".
FulfilPassRefused(p) ==
  /\ pc[p] = "fulfil"
  /\ sess[p] \in PassSessions
  /\ minted[sess[p]] > 0
  /\ Return(p)
  /\ UNCHANGED <<stripe, tables, mail, sess, ctx, poll, lost, faults>>

\* CreateStoreOrder after the pass, outside its transaction.
CreateStoreOrder(p) ==
  /\ pc[p] = "order"
  /\ ctx[p]
  /\ orders' = orders \cup {sess[p]}
  /\ Return(p)
  /\ UNCHANGED <<stripe, minted, extras, mail, sess, ctx, poll, lost, faults>>

\* Mutant: the extras are applied outside the transaction of the order row.
FulfilAddon_TwoCommits(p) ==
  /\ pc[p] = "fulfil"
  /\ sess[p] \in AddonSessions
  /\ ctx[p]
  /\ extras' = [extras EXCEPT ![sess[p]] = @ + 1]
  /\ Goto(p, "order")
  /\ UNCHANGED <<stripe, orders, minted, mail, mu, sess, ctx, poll, lost, faults>>

\* AddPassExtras, grantPassIndex and CreateStoreOrder commit together; the
\* order's UNIQUE session rolls a second application back.
FulfilAddon(p) ==
  /\ pc[p] = "fulfil"
  /\ sess[p] \in AddonSessions
  /\ ctx[p]
  /\ IF sess[p] \in orders
     THEN UNCHANGED <<orders, extras>>
     ELSE /\ extras' = [extras EXCEPT ![sess[p]] = @ + 1]
          /\ orders' = orders \cup {sess[p]}
  /\ Return(p)
  /\ UNCHANGED <<stripe, minted, mail, sess, ctx, poll, lost, faults>>

\* Stripe or the database answers with an error, or the context is dead: the
\* call returns the error.  A pass already committed is left without its row.
Fails(p) ==
  /\ pc[p] \in {"fetch", "fulfil", "order"}
  /\ IF ctx[p]
     THEN "fault" \in Events /\ faults < MaxFaults /\ faults' = faults + 1
     ELSE UNCHANGED faults
  /\ lost' = IF pc[p] = "order" THEN lost \cup {sess[p]} ELSE lost
  /\ Return(p)
  /\ UNCHANGED <<stripe, tables, mail, sess, ctx, poll>>

Fulfil(p) ==
  \/ Lock(p) \/ Lookup(p) \/ Fetch(p)
  \/ FulfilPass(p) \/ FulfilPassRefused(p) \/ CreateStoreOrder(p)
  \/ FulfilAddon(p) \/ Fails(p)

\* The goroutine of sendPassFulfillmentEmail.
DeliverMail(s) ==
  /\ s \in mailing
  /\ mailing' = mailing \ {s}
  /\ mailed' = mailed \cup {s}
  /\ UNCHANGED <<stripe, tables, mu, pc, sess, ctx, poll, lost, faults>>

\* The provider refuses: the error is logged and nothing sends it again.
MailFails(s) ==
  /\ "fault" \in Events
  /\ faults < MaxFaults
  /\ faults' = faults + 1
  /\ s \in mailing
  /\ mailing' = mailing \ {s}
  /\ UNCHANGED <<stripe, tables, mailed, mu, pc, sess, ctx, poll, lost>>

-----------------------------------------------------------------------------
(* The callers.                                                            *)

\* handleStoreSession: a thanks page asks about s.
HandleStoreSession(r, s) ==
  /\ pc[r] = "idle"
  /\ sess' = [sess EXCEPT ![r] = s]
  /\ ctx' = [ctx EXCEPT ![r] = TRUE]
  /\ Goto(r, "lock")
  /\ UNCHANGED <<stripe, tables, mail, mu, poll, lost, faults>>

\* A cycle of storePoller: list the events under a new context.  A listing
\* that fails is a cycle that changes nothing.
ListEvents ==
  /\ pc[Poller] = "idle"
  /\ \E q \in Pages : queue' = Page(q)
  /\ ctx' = [ctx EXCEPT ![Poller] = TRUE]
  /\ Goto(Poller, "next")
  /\ UNCHANGED <<stripe, tables, mail, mu, sess, since, lost, faults>>

\* The next event: since moves first, whatever becomes of the session.
NextEvent ==
  /\ pc[Poller] = "next"
  /\ queue # <<>>
  /\ since' = IF created[Head(queue)] > since THEN created[Head(queue)] ELSE since
  /\ queue' = Tail(queue)
  /\ IF ctx[Poller] /\ Head(queue) \in orders
     THEN UNCHANGED <<pc, sess>>
     ELSE /\ sess' = [sess EXCEPT ![Poller] = Head(queue)]
          /\ Goto(Poller, "lock")
  /\ UNCHANGED <<stripe, tables, mail, mu, ctx, lost, faults>>

\* The cycle is over; a minute's sleep.
Sleep ==
  /\ pc[Poller] = "next"
  /\ queue = <<>>
  /\ Goto(Poller, "idle")
  /\ UNCHANGED <<stripe, tables, mail, mu, sess, ctx, poll, lost, faults>>

StorePoller == ListEvents \/ NextEvent \/ Sleep

-----------------------------------------------------------------------------
(* The environment.                                                        *)

\* The buyer leaves the page (r.Context()), or a poller cycle exceeds 90 s.
ContextEnds(p) ==
  /\ IF p = Poller THEN "timeout" \in Events ELSE "disconnect" \in Events
  /\ pc[p] # "idle"
  /\ ctx[p]
  /\ faults < MaxFaults
  /\ faults' = faults + 1
  /\ ctx' = [ctx EXCEPT ![p] = FALSE]
  /\ UNCHANGED <<stripe, tables, mail, mu, pc, sess, poll, lost>>

\* The process dies and starts again: the tables survive, the calls, the
\* mutex, the mail goroutines and the poller's since do not.
Restart ==
  /\ "crash" \in Events
  /\ faults < MaxFaults
  /\ faults' = faults + 1
  /\ mu' = Nobody
  /\ lost' = lost \cup {sess[p] : p \in {q \in Callers : pc[q] = "order"}}
  /\ pc' = [p \in Callers |-> "idle"]
  /\ ctx' = [p \in Callers |-> TRUE]
  /\ mailing' = {}
  /\ since' = ColdStart(clock)
  /\ queue' = <<>>
  /\ UNCHANGED <<stripe, tables, mailed, sess>>

Next ==
  \/ \E s \in Sessions : Pay(s) \/ DeliverMail(s) \/ MailFails(s)
  \/ Tick
  \/ \E p \in Callers : Fulfil(p) \/ ContextEnds(p)
  \/ \E r \in Requests, s \in Sessions : HandleStoreSession(r, s)
  \/ StorePoller
  \/ Restart

Spec == Init /\ [][Next]_vars

\* The scheduler runs every goroutine that can run, Go's mutex does not
\* starve a waiter, and the poller loops for ever.  Nothing is assumed of
\* buyers: nobody need pay, nor come back to the thanks page.
Fairness ==
  /\ \A p \in Callers : WF_vars(Fulfil(p)) /\ SF_vars(Lock(p))
  /\ \A s \in Sessions : WF_vars(DeliverMail(s))
  /\ WF_vars(StorePoller)

FairSpec == Spec /\ Fairness

-----------------------------------------------------------------------------
(* Properties.                                                             *)

\* "Turns a paid Checkout Session into a pass (or add-on bump) exactly once":
\* however often a session is seen, by whomever, and whatever failed before,
\* it mints one pass or applies its add-ons once, and only when paid.
FulfilledOnce ==
  \A s \in Sessions :
    /\ minted[s] + extras[s] <= 1
    /\ minted[s] + extras[s] = 1 => Paid(s)

\* An order row stands for goods that were delivered, and add-ons are never
\* applied without the row that stops a second application.
OrderBacked ==
  /\ \A s \in orders : minted[s] + extras[s] = 1
  /\ \A s \in AddonSessions : extras[s] = 1 => s \in orders

\* The mutex covers the lookup and the work: a call that has passed the
\* lookup finds nothing done by another, unless an order row was lost.
WorkUndone ==
  \A p \in Callers :
    pc[p] = "fulfil" /\ ctx[p] =>
      /\ sess[p] \notin orders
      /\ minted[sess[p]] > 0 => sess[p] \in lost

\* "storePoller catches sessions whose buyer never came back": every paid
\* session is eventually recorded as fulfilled.
PaidFulfilled == \A s \in Sessions : Paid(s) ~> s \in orders

\* "If you were charged, you'll get an email within a few minutes".
BuyerMailed == \A s \in PassSessions : minted[s] = 1 ~> s \in mailed

\* "Turns a paid Checkout Session into a pass (or add-on bump) exactly once"
\* (store.go), step by step: every step pays, delivers, records or changes none
\* of that, an add-on is recorded by the step that delivers it, and no fault
\* takes a delivery or a record back.
Promise == INSTANCE Delivery WITH
  Atomic <- AddonSessions,
  paid <- {s \in Sessions : Paid(s)},
  delivered <- [s \in Sessions |-> minted[s] + extras[s]],
  recorded <- orders

OnceOnly == Promise!Spec
=============================================================================
