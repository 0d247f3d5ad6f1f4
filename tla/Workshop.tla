------------------------------ MODULE Workshop ------------------------------
(***************************************************************************)
(* The workshop desk: registrations, the coupons issued to registrants,    *)
(* their redemption for a pass, and the announcements sent in batches.     *)
(*                                                                         *)
(* Redemption (fulfillPass) is one transaction on the only connection, so  *)
(* one action. Announcements load, merge and send recipient by recipient.  *)
(***************************************************************************)
EXTENDS Naturals, Sequences, FiniteSets, SequencesExt

CONSTANTS
    Emails,   \* addresses
    Smoke,    \* smokeRegistrationEmail, one of them
    Coupons,  \* codes the studio may issue
    Redeems,  \* POST /api/public/redeem requests
    AdminEdits, \* PUT /api/admin/registrations/{id} requests
    Batches,  \* POST announcement requests
    Asked,    \* lists of registration ids an announcement may be asked for
    Bodies,   \* announcement texts: the merge fields in them, see Parts
    MaxRegs,  \* bound on registrations
    MaxReplies \* bound on mail goroutines that have not run yet

ASSUME WorkshopAssumption == Smoke \in Emails /\ MaxRegs \in Nat /\ MaxReplies \in Nat

VARIABLES
    regs,       \* event_registrations, in id order
    lastInsert, \* sqlite's last_insert_rowid on the connection, 0 when the last
                \* insert was into another table
    replies,    \* mail goroutines of registrations that have not run yet
    misfiled,   \* history: rows whose first mail was logged under another id
    coupons,    \* coupons
    passes,     \* history of fulfilments: coupon, address, cohort of the client
    edits,      \* where each admin edit is, and the row it has read
    batch,      \* the announcement requests
    letters,    \* <<batch, id>> the provider has taken, in order
    stamped,    \* rows whose last_emailed_at is set
    announced   \* event_announcements: batch and recipient_ids

workshopVars == <<regs, lastInsert, replies, misfiled, coupons, passes, edits, batch,
                  letters, stamped, announced>>

Ids == 1..MaxRegs
NoRow == [email |-> Smoke, consent |-> FALSE, declined |-> FALSE]
Row == [email: Emails, consent: BOOLEAN, declined: BOOLEAN]
Insides == {"bare", "code", "redeemed", "nocode"}
Parts == [field: {"code", "factory_url"}, inside: Insides]

WorkshopTypeOK ==
    /\ regs \in Seq(Row) /\ Len(regs) <= MaxRegs
    /\ lastInsert \in 0..MaxRegs
    /\ replies \subseteq [row: Ids, ref: 0..MaxRegs, first: BOOLEAN]
    /\ misfiled \subseteq Ids
    /\ coupons \in [Coupons -> [state: {"none", "live", "expired"}, redeemed: Nat, reg: 0..MaxRegs]]
    /\ passes \subseteq [by: Redeems, coupon: Coupons, email: Emails, cohort: BOOLEAN]
    /\ \A d \in AdminEdits : edits[d].pc \in {"idle", "read", "done"} /\ edits[d].id \in 0..MaxRegs
    /\ \A b \in Batches :
         /\ batch[b].pc \in {"idle", "load", "send", "stamp", "done"}
         /\ batch[b].alive \in BOOLEAN
    /\ letters \in Seq(Batches \X Ids)
    /\ stamped \subseteq Ids
    /\ announced \subseteq [batch: Batches, ids: SUBSET Ids]

WorkshopInit ==
    /\ regs = <<>> /\ lastInsert = 0 /\ replies = {} /\ misfiled = {}
    /\ coupons = [c \in Coupons |-> [state |-> "none", redeemed |-> 0, reg |-> 0]]
    /\ passes = {}
    /\ edits = [d \in AdminEdits |-> [pc |-> "idle", id |-> 0, row |-> NoRow]]
    /\ batch = [b \in Batches |-> [pc |-> "idle", body |-> {}, todo |-> <<>>, to |-> <<>>,
                                sent |-> {}, alive |-> TRUE]]
    /\ letters = <<>> /\ stamped = {} /\ announced = {}

RegistrationOf(e) == {i \in DOMAIN regs : regs[i].email = e}

\* The id sqlite gives the next row.
NewId == Len(regs) + 1

(***************************************************************************)
(* handlePublicRegister: the upsert on (event_slug, email), and the mail   *)
(* goroutine, which is given LastInsertId. An update inserts nothing, so   *)
(* it is given the row of some earlier insert.                             *)
(***************************************************************************)
Register(e, consent) ==
    /\ Cardinality(replies) < MaxReplies
    /\ LET mine == RegistrationOf(e) IN
         IF mine = {}
         THEN /\ Len(regs) < MaxRegs
              /\ regs' = Append(regs, [email |-> e, consent |-> consent, declined |-> FALSE])
              /\ lastInsert' = NewId
              /\ replies' = replies \cup {[row |-> Len(regs) + 1, ref |-> NewId, first |-> TRUE]}
         ELSE /\ regs' = [i \in DOMAIN regs |-> IF i \in mine
                                                THEN [regs[i] EXCEPT !.consent = consent] ELSE regs[i]]
              /\ replies' = replies \cup {[row |-> CHOOSE i \in mine : TRUE, ref |-> lastInsert, first |-> FALSE]}
              /\ UNCHANGED lastInsert
    /\ UNCHANGED <<misfiled, coupons, passes, edits, batch, letters, stamped, announced>>

\* sendRegistrationEmails, at any later time.
ConfirmRegistration(m) ==
    /\ m \in replies
    /\ replies' = replies \ {m}
    /\ misfiled' = IF m.first /\ m.ref # m.row THEN misfiled \cup {m.row} ELSE misfiled
    /\ lastInsert' = 0
    /\ UNCHANGED <<regs, coupons, passes, edits, batch, letters, stamped, announced>>

\* handleAdminUpdateRegistration reads the whole row and writes it all back.
ReadRegistration(d, i) ==
    /\ edits[d].pc = "idle" /\ i \in DOMAIN regs
    /\ edits' = [edits EXCEPT ![d] = [pc |-> "read", id |-> i, row |-> regs[i]]]
    /\ UNCHANGED <<regs, lastInsert, replies, misfiled, coupons, passes, batch, letters, stamped, announced>>

\* The address, the status or nothing the model sees is edited; an address in
\* use breaks the unique index and the request fails.
WriteRegistration(d, e, declined) ==
    /\ edits[d].pc = "read"
    /\ e = edits[d].row.email \/ declined = edits[d].row.declined
    /\ edits' = [edits EXCEPT ![d] = [pc |-> "done", id |-> 0, row |-> NoRow]]
    /\ regs' = IF RegistrationOf(e) \subseteq {edits[d].id}
               THEN [regs EXCEPT ![edits[d].id] = [edits[d].row EXCEPT !.email = e, !.declined = declined]]
               ELSE regs
    /\ UNCHANGED <<lastInsert, replies, misfiled, coupons, passes, batch, letters, stamped, announced>>

(***************************************************************************)
(* Coupons and their redemption.                                           *)
(***************************************************************************)
\* handleAdminCreateCoupon: bound to a registration, or to none.
IssueCoupon(c, i) ==
    /\ coupons[c].state = "none" /\ i \in DOMAIN regs \cup {0}
    /\ coupons' = [coupons EXCEPT ![c] = [state |-> "live", redeemed |-> 0, reg |-> i]]
    /\ lastInsert' = 0
    /\ UNCHANGED <<regs, replies, misfiled, passes, edits, batch, letters, stamped, announced>>

ExpireCoupon(c) ==
    /\ coupons[c].state = "live"
    /\ coupons' = [coupons EXCEPT ![c].state = "expired"]
    /\ UNCHANGED <<regs, lastInsert, replies, misfiled, passes, edits, batch, letters, stamped, announced>>

Redeemable_Unspent(c) == coupons[c].state = "live"

\* MaxRedemptions is 1 for every coupon the studio issues.
Redeemable(c) == coupons[c].state = "live" /\ coupons[c].redeemed < 1

\* The new client's cohort_slug: that of the registration the coupon was bound
\* to, or of the one found for the address and bound now.
Cohort(c, attributed) == attributed # 0

RedeemCoupon(x, c, e) ==
    /\ \A p \in passes : p.by # x
    /\ Redeemable(c)
    /\ LET found == RegistrationOf(e)
           reg == IF coupons[c].reg # 0 THEN coupons[c].reg
                  ELSE IF found = {} THEN 0 ELSE CHOOSE i \in found : TRUE
       IN /\ coupons' = [coupons EXCEPT ![c].redeemed = @ + 1, ![c].reg = reg]
          /\ passes' = passes \cup {[by |-> x, coupon |-> c, email |-> e, cohort |-> Cohort(c, reg)]}
    /\ lastInsert' = 0
    /\ UNCHANGED <<regs, replies, misfiled, edits, batch, letters, stamped, announced>>

(***************************************************************************)
(* Announcements.                                                          *)
(***************************************************************************)
CodesOf(i) == {c \in Coupons : coupons[c].state # "none" /\ coupons[c].reg = i}
Recipient(i) == [id |-> i, code |-> CodesOf(i) # {},
                 url |-> \E p \in passes : p.coupon \in CodesOf(i)]
Eligible(i) == i \in DOMAIN regs /\ regs[i].consent /\ ~ regs[i].declined

\* mergeAnnouncement: which blocks a letter keeps, and the tags left unfilled.
Kept(inside, rec) ==
    CASE inside = "bare" -> TRUE
      [] inside = "code" -> rec.code /\ ~ rec.url
      [] inside = "redeemed" -> rec.url
      [] inside = "nocode" -> ~ rec.code
Filled(field, rec) == IF field = "code" THEN rec.code ELSE rec.url
HasHole(body, rec) == \E p \in body : Kept(p.inside, rec) /\ ~ Filled(p.field, rec)

\* withSmokeRegistration: the smoke persona reads every batch.
WithSmoke(ids) ==
    LET smoke == {i \in RegistrationOf(Smoke) : Eligible(i)} IN
    IF smoke = {} \/ smoke \subseteq Range(ids) THEN ids ELSE ids \o SetToSeq(smoke)

StartBatch(b, asked, body) ==
    /\ batch[b].pc = "idle" /\ Len(regs) > 0
    /\ batch' = [batch EXCEPT ![b].pc = "load", ![b].todo = WithSmoke(asked), ![b].body = body]
    /\ UNCHANGED <<regs, lastInsert, replies, misfiled, coupons, passes, edits, letters, stamped, announced>>

\* seen: an id asked for twice is loaded once.
AddRecipient(to, i) ==
    IF Eligible(i) /\ \A k \in DOMAIN to : to[k].id # i THEN Append(to, Recipient(i)) ELSE to

LoadRecipient(b) ==
    /\ batch[b].pc = "load" /\ batch[b].todo # <<>>
    /\ batch' = [batch EXCEPT ![b].todo = Tail(@), ![b].to = AddRecipient(@, Head(batch[b].todo))]
    /\ UNCHANGED <<regs, lastInsert, replies, misfiled, coupons, passes, edits, letters, stamped, announced>>

Refusable_FirstOnly(b) == batch[b].to = <<>> \/ HasHole(batch[b].body, batch[b].to[1])

\* Every letter is merged before any is sent; one hole refuses the batch.
Refusable(b) ==
    batch[b].to = <<>> \/ \E k \in DOMAIN batch[b].to : HasHole(batch[b].body, batch[b].to[k])

MergeBatch(b) ==
    /\ batch[b].pc = "load" /\ batch[b].todo = <<>>
    /\ batch' = [batch EXCEPT ![b].pc = IF Refusable(b) THEN "done" ELSE "send",
                              ![b].todo = IF Refusable(b) THEN <<>> ELSE batch[b].to]
    /\ UNCHANGED <<regs, lastInsert, replies, misfiled, coupons, passes, edits, letters, stamped, announced>>

\* mail(): the provider takes the letter or fails; either way the attempt is
\* logged, an insert of its own.
SendLetter(b) ==
    /\ batch[b].pc = "send" /\ batch[b].todo # <<>>
    /\ LET i == Head(batch[b].todo).id IN
         \/ /\ letters' = Append(letters, <<b, i>>)
            /\ batch' = [batch EXCEPT ![b].pc = "stamp", ![b].sent = @ \cup {i}]
         \/ /\ batch' = [batch EXCEPT ![b].todo = Tail(@)]
            /\ UNCHANGED letters
    /\ lastInsert' = 0
    /\ UNCHANGED <<regs, replies, misfiled, coupons, passes, edits, stamped, announced>>

\* The UPDATE and the final INSERT run on the request's context: they are lost
\* when the admin's browser has gone, and the letters are sent all the same.
StampRow(b) ==
    /\ batch[b].pc = "stamp"
    /\ stamped' = IF batch[b].alive THEN stamped \cup {Head(batch[b].todo).id} ELSE stamped
    /\ batch' = [batch EXCEPT ![b].pc = "send", ![b].todo = Tail(@)]
    /\ UNCHANGED <<regs, lastInsert, replies, misfiled, coupons, passes, edits, letters, announced>>

LoggedIds(b) == batch[b].sent

FinishBatch(b) ==
    /\ batch[b].pc = "send" /\ batch[b].todo = <<>>
    /\ announced' = IF batch[b].alive THEN announced \cup {[batch |-> b, ids |-> LoggedIds(b)]}
                    ELSE announced
    /\ batch' = [batch EXCEPT ![b].pc = "done"]
    /\ UNCHANGED <<regs, lastInsert, replies, misfiled, coupons, passes, edits, letters, stamped>>

LeaveBatch(b) ==
    /\ batch[b].alive /\ batch[b].pc \in {"send", "stamp"}
    /\ batch' = [batch EXCEPT ![b].alive = FALSE]
    /\ UNCHANGED <<regs, lastInsert, replies, misfiled, coupons, passes, edits, letters, stamped, announced>>

\* The process stops: what was in flight is gone, the rows stay.
RestartWorkshop ==
    /\ \E b \in Batches : batch[b].pc \in {"load", "send", "stamp"}
    /\ replies' = {}
    /\ batch' = [b \in Batches |-> IF batch[b].pc = "idle" THEN batch[b]
                                   ELSE [batch[b] EXCEPT !.pc = "done"]]
    /\ UNCHANGED <<regs, lastInsert, misfiled, coupons, passes, edits, letters, stamped, announced>>

WorkshopNext ==
    \/ \E e \in Emails, consent \in BOOLEAN : Register(e, consent)
    \/ \E m \in replies : ConfirmRegistration(m)
    \/ \E d \in AdminEdits : \/ \E i \in DOMAIN regs : ReadRegistration(d, i)
                        \/ \E e \in Emails, n \in BOOLEAN : WriteRegistration(d, e, n)
    \/ \E c \in Coupons : (\E i \in 0..Len(regs) : IssueCoupon(c, i)) \/ ExpireCoupon(c)
    \/ \E x \in Redeems, c \in Coupons, e \in Emails : RedeemCoupon(x, c, e)
    \/ \E b \in Batches : \/ \E asked \in Asked, body \in Bodies : StartBatch(b, asked, body)
                          \/ LoadRecipient(b) \/ MergeBatch(b) \/ SendLetter(b)
                          \/ StampRow(b) \/ FinishBatch(b) \/ LeaveBatch(b)
    \/ RestartWorkshop

WorkshopSpec == WorkshopInit /\ [][WorkshopNext]_workshopVars

-----------------------------------------------------------------------------
\* A code makes one pass, and the coupon's count is the passes made with it,
\* however many redeem it at once: check and count are in the transaction of
\* the pass.
CouponSpentOnce ==
    \A c \in Coupons : LET made == {p \in passes : p.coupon = c} IN
        Cardinality(made) = coupons[c].redeemed /\ Cardinality(made) <= 1

\* The client a redemption makes is in the cohort exactly when the coupon is,
\* in the end, attributed to a registration, before or by the redemption.
CohortFollowsCoupon == \A p \in passes : p.cohort <=> coupons[p.coupon].reg # 0

\* The mails of a first registration carry the id of its row, whenever they are
\* sent. (A re-submission's do not; see the README.)
FirstMailRefers == misfiled = {}

\* Nobody gets a letter of one batch twice, though ids may be repeated and the
\* smoke persona is added.
LetterOnce == \A j, k \in DOMAIN letters : letters[j] = letters[k] => j = k

\* If one recipient's letter would have a hole, no recipient gets any.
NoHalfBatch ==
    \A k \in DOMAIN letters : LET b == letters[k][1] IN
        \A n \in DOMAIN batch[b].to : ~ HasHole(batch[b].body, batch[b].to[n])

\* The announcement log names those whose letter was taken, nobody else, also
\* when some sends failed; and last_emailed_at is set for them only.
LogIsTrue ==
    /\ \A a \in announced : a.ids = {i \in Ids : \E k \in DOMAIN letters : letters[k] = <<a.batch, i>>}
    /\ \A i \in stamped : \E k \in DOMAIN letters : letters[k][2] = i

\* A coupon makes one pass, and the cohort is that of the registration it is
\* attributed to, whoever redeems it and whatever is registered meanwhile
\* (fulfillPass).
CouponsSafe ==
    /\ WorkshopTypeOK
    /\ CouponSpentOnce
    /\ CohortFollowsCoupon

\* A batch is sent whole or not at all, to each recipient once, and the logs
\* say what was sent (handleAdminSendAnnouncement, sendRegistrationEmails).
MailingsSafe ==
    /\ FirstMailRefers
    /\ LetterOnce
    /\ NoHalfBatch
    /\ LogIsTrue
=============================================================================
