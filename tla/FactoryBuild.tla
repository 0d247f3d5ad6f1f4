---------------------------- MODULE FactoryBuild ----------------------------
(***************************************************************************)
(* The metered build of a Factory Pass: POST /api/books/{id}/convert       *)
(* (srv/books.go, handleConvertBook), the background build it starts       *)
(* (runConversion, finalizeBuild, failConversionAt) and the credit account *)
(* of the project's pass (srv/passes.go, db/queries/passes.sql).           *)
(*                                                                         *)
(* The server runs one goroutine per request and one per build over a      *)
(* single SQLite connection (db.Open: SetMaxOpenConns(1)), and neither the *)
(* handler nor the build opens a transaction.  So each SQL statement is    *)
(* one atomic step and everything between two statements interleaves: an   *)
(* action below is one statement together with the Go code up to the next. *)
(*                                                                         *)
(* A member of Requests is one POST and, once accepted, the build it       *)
(* started; it is used once, so Requests bounds the number of POSTs.       *)
(***************************************************************************)
EXTENDS Integers, FiniteSets

CONSTANTS
  Books,                \* ids of books rows (AUTOINCREMENT: never reused)
  Projects,             \* ids of projects rows
  Requests,             \* POST /convert calls
  NoProject,            \* books.project_id IS NULL; "no project" in a history
  NoJob,                \* the locals of a request that has not come in yet
  BuildsIncluded,       \* passBuildsIncluded: the finals a pass starts with
  MaxConcurrentBuilds,  \* maxConcurrentBuilds: capacity of buildSem
  MaxExtra,             \* bound on the builds an admin grants to one pass
  Kinds,                \* kinds of build asked for: a subset of BuildKinds
  Callers,              \* who asks: a subset of {"customer", "admin"}
  Events                \* what else may happen meanwhile: see AllEvents

BuildKinds == {"proof", "final"}
Statuses == {"uploaded", "converting", "ready", "error"}

\* Concurrent administration and faults; a run turns on the ones it is about.
AllEvents == {"attach",     \* a pass is attached to a project without one
              "grant",      \* builds_extra grows
              "passlive",   \* a pass is revoked, reactivated, or expires
              "gate",       \* the finals_gate setting is switched
              "link",       \* a book is moved to another project
              "delete",     \* a book is deleted
              "disconnect", \* a client goes away: r.Context() is cancelled
              "dberror",    \* a statement of a background context fails
              "crash"}      \* the process stops and is started again

ASSUME FactoryAssumption ==
  /\ NoProject \notin Projects
  /\ BuildsIncluded \in Nat
  /\ MaxConcurrentBuilds \in Nat \ {0}
  /\ MaxExtra \in Nat
  /\ Kinds \subseteq BuildKinds
  /\ Callers \subseteq {"customer", "admin"}
  /\ Events \subseteq AllEvents

VARIABLES
  row,      \* row[b]: whether the books row is there
  status,   \* status[b]: books.status (of a deleted row: its last value)
  kind,     \* kind[b]: books.build_kind
  proj,     \* proj[b]: books.project_id
  pass,     \* pass[p]: the passes row of the project, and passLive of it
  used,     \* used[p]: passes.builds_used
  extra,    \* extra[p]: passes.builds_extra
  ledger,   \* ledger[p]: the sum of the pass_ledger deltas
  gate,     \* studio setting finals_gate is "on"
  pc,       \* pc[r]: the next statement of request r
  job,      \* job[r]: what request r asks for, and the books row it has read
  paying,   \* paying[r]: requirePassAccess has found a pass
  refund,   \* refund[r]: the project failConversionAt has read after a failure
  charged,  \* history: the project whose pass request r was charged to
  repaid,   \* history: the project whose pass the failure of r refunded
  waived,   \* history: charges made to a pass without a balance check
  stored,   \* history: the requests whose file is in book_outputs
  unposted, \* history: the requests that lost a ledger row to a fault
  unlisted, \* history: builds added to a pass without a ledger row
  clamped,  \* history: refunds of a pass that found builds_used at 0
  moved     \* history: books whose project or pass changed after the upload

bookVars == <<row, status, kind, proj>>
passVars == <<pass, used, extra, ledger>>
audit    == <<stored, unposted, unlisted, clamped, moved>>
history  == <<charged, repaid, waived, audit>>
locals   == <<job, paying, refund>>
vars == <<bookVars, passVars, gate, pc, locals, history>>

Links == Projects \cup {NoProject}

\* A POST and the row as GetBook returned it; runConversion works on the copy.
Job == [book: Books, kind: BuildKinds, admin: BOOLEAN, seen: Statuses, proj: Links]

\* Control points, named after the statement about to run.
HandlerSteps == {"access", "inflight", "record", "claim"}
ClaimedSteps == {"reserve", "debitrow", "unclaim"}
BuildSteps   == {"run", "stored", "fail"}
RefundSteps  == {"reread", "lookup", "refund", "refundrow"}
EndSteps     == {"refused", "delivered", "failed", "lost"}
Steps == {"new", "queued"} \cup HandlerSteps \cup ClaimedSteps
           \cup BuildSteps \cup RefundSteps \cup EndSteps

\* Requests that hold the book: claimed, and its status not yet written back.
Owns(r) == pc[r] \in ClaimedSteps \cup {"queued"} \cup BuildSteps

\* Mutant: a delivered build does not release its slot.
Building_Leaks == {r \in Requests : pc[r] \in BuildSteps \cup RefundSteps \cup {"delivered"}}

\* Builds that hold one of the slots of buildSem (released by defer).
Building == {r \in Requests : pc[r] \in BuildSteps \cup RefundSteps}

\* Type correctness: every column and every local keeps to its values.
TypeOK ==
  /\ row \in [Books -> {"absent", "present", "deleted"}]
  /\ status \in [Books -> Statuses]
  /\ kind \in [Books -> BuildKinds]
  /\ proj \in [Books -> Links]
  /\ pass \in [Projects -> {"none", "live", "dead"}]
  /\ used \in [Projects -> Nat]
  /\ extra \in [Projects -> 0..MaxExtra]
  /\ ledger \in [Projects -> Int]
  /\ gate \in BOOLEAN
  /\ pc \in [Requests -> Steps]
  /\ job \in [Requests -> Job \cup {NoJob}]
  /\ \A r \in Requests : pc[r] # "new" => job[r] \in Job
  /\ paying \in [Requests -> BOOLEAN]
  /\ refund \in [Requests -> Links]
  /\ \A r \in Requests : pc[r] \in {"refund", "refundrow"} => refund[r] \in Projects
  /\ charged \in [Requests -> Links]
  /\ repaid \in [Requests -> Links]
  /\ waived \in [Projects -> Nat]
  /\ stored \subseteq Requests /\ unposted \subseteq Requests
  /\ unlisted \in [Projects -> Nat] /\ clamped \in [Projects -> Nat]
  /\ moved \subseteq Books

-----------------------------------------------------------------------------
(* The rows as the statements read them.                                   *)

Present(b) == row[b] = "present"

\* UPDATE books SET ... WHERE id = b: no row, no effect, no error.
Set(f, b, v) == [f EXCEPT ![b] = IF Present(b) THEN v ELSE @]

Allowance(p) == BuildsIncluded + extra[p]

\* passCreditsRemaining > 0 (the difference is clamped at 0), and the WHERE
\* clause of ReservePassBuildCredit.
HasCredits(p) == used[p] < Allowance(p)

\* passForProject # nil for the project id in a books row.
HasPass(p) == p # NoProject /\ pass[p] # "none"

Goto(r, step) == pc' = [pc EXCEPT ![r] = step]

-----------------------------------------------------------------------------
Init ==
  /\ row = [b \in Books |-> "absent"]
  /\ status = [b \in Books |-> "uploaded"]
  /\ kind = [b \in Books |-> "final"]
  /\ proj = [b \in Books |-> NoProject]
  /\ pass \in [Projects -> {"none", "live"}]
  /\ used = [p \in Projects |-> 0]
  /\ extra = [p \in Projects |-> 0]
  /\ ledger = [p \in Projects |-> 0]
  /\ gate = TRUE
  /\ pc = [r \in Requests |-> "new"]
  /\ job = [r \in Requests |-> NoJob]
  /\ paying = [r \in Requests |-> FALSE]
  /\ refund = [r \in Requests |-> NoProject]
  /\ charged = [r \in Requests |-> NoProject]
  /\ repaid = [r \in Requests |-> NoProject]
  /\ waived = [p \in Projects |-> 0]
  /\ stored = {} /\ unposted = {} /\ moved = {}
  /\ unlisted = [p \in Projects |-> 0]
  /\ clamped = [p \in Projects |-> 0]

-----------------------------------------------------------------------------
(* handleConvertBook: one action per statement.                            *)

\* POST for book b: GetBook, then format, kind and callback are validated.
GetBook(r, b, k, who) ==
  /\ pc[r] = "new"
  /\ Present(b)
  /\ job' = [job EXCEPT ![r] = [book |-> b, kind |-> k, admin |-> who = "admin",
                                seen |-> status[b], proj |-> proj[b]]]
  /\ Goto(r, "access")
  /\ UNCHANGED <<bookVars, passVars, gate, paying, refund, history>>

\* requirePassAccess and the 402.  An unlinked book is the admin's.  A
\* customer needs a live pass and, for a final while the gate is on, a
\* credit; both are read from one SELECT.
MayBuild(j) ==
  \/ j.admin
  \/ /\ j.proj # NoProject
     /\ pass[j.proj] = "live"
     /\ j.kind = "proof" \/ ~gate \/ HasCredits(j.proj)

CheckAccess(r) ==
  /\ pc[r] = "access"
  /\ IF MayBuild(job[r])
     THEN /\ paying' = [paying EXCEPT ![r] = HasPass(job[r].proj)]
          /\ Goto(r, "inflight")
     ELSE /\ Goto(r, "refused")
          /\ UNCHANGED paying
  /\ UNCHANGED <<bookVars, passVars, gate, job, refund, history>>

\* CountConvertingBooksByProject: the advisory check, linked books only.
CheckInFlight(r) ==
  LET p == job[r].proj
      busy == \E b \in Books : Present(b) /\ proj[b] = p /\ status[b] = "converting"
  IN
  /\ pc[r] = "inflight"
  /\ Goto(r, IF p # NoProject /\ busy THEN "refused" ELSE "record")
  /\ UNCHANGED <<bookVars, passVars, gate, locals, history>>

\* The early returns on data left out here: the proof rate limit, no source
\* file, no index draft to include, a spec that does not sync, a final of a
\* manuscript without body text.
Refuse(r) ==
  /\ pc[r] \in {"inflight", "record"}
  /\ Goto(r, "refused")
  /\ UNCHANGED <<bookVars, passVars, gate, locals, history>>

\* UPDATE books SET build_kind: before the claim, whatever the status.
UpdateBookBuildKind(r) ==
  /\ pc[r] = "record"
  /\ kind' = Set(kind, job[r].book, job[r].kind)
  /\ Goto(r, "claim")
  /\ UNCHANGED <<row, status, proj, passVars, gate, locals, history>>

\* Mutant: only the other books of the project are looked at.
Claimable_OthersOnly(b) ==
  /\ Present(b)
  /\ ~ \E c \in Books : /\ Present(c) /\ c # b /\ status[c] = "converting"
                        /\ proj[c] # NoProject /\ proj[c] = proj[b]

\* Mutant: only the book itself is looked at.
Claimable_ThisBookOnly(b) == Present(b) /\ status[b] # "converting"

\* The WHERE clause of ClaimBookForBuild: the book is not converting, and no
\* other book of the same project is.
Claimable(b) ==
  /\ Present(b)
  /\ status[b] # "converting"
  /\ ~ \E c \in Books : /\ Present(c) /\ c # b /\ status[c] = "converting"
                        /\ proj[c] # NoProject /\ proj[c] = proj[b]

\* Mutant: nobody is charged.
AfterClaim_Free(r) == "queued"

\* Mutant: an admin's final is not charged.
AfterClaim_CustomersOnly(r) ==
  IF paying[r] /\ job[r].kind = "final" /\ ~job[r].admin THEN "reserve" ELSE "queued"

\* A claimed final with a pass is paid for next; anything else is free.
AfterClaim(r) == IF paying[r] /\ job[r].kind = "final" THEN "reserve" ELSE "queued"

ClaimBookForBuild(r) ==
  LET b == job[r].book IN
  /\ pc[r] = "claim"
  /\ IF Claimable(b)
     THEN /\ status' = [status EXCEPT ![b] = "converting"]
          /\ Goto(r, AfterClaim(r))
     ELSE /\ Goto(r, "refused")
          /\ UNCHANGED status
  /\ UNCHANGED <<row, kind, proj, passVars, gate, locals, history>>

\* A customer while the gate is on goes through reserveBuildCredit, whose
\* UPDATE carries the balance check; debitBuildCredit has none.
BalanceChecked(r) == ~job[r].admin /\ gate

\* Mutant: the balance was checked when the POST came in.
MayCharge_CheckedBefore(r) == TRUE

MayCharge(r) == BalanceChecked(r) => HasCredits(job[r].proj)

\* ReservePassBuildCredit or IncrementPassBuildsUsed.
ReserveBuildCredit(r) ==
  LET p == job[r].proj IN
  /\ pc[r] = "reserve"
  /\ IF MayCharge(r)
     THEN /\ used' = [used EXCEPT ![p] = @ + 1]
          /\ charged' = [charged EXCEPT ![r] = p]
          /\ waived' = [waived EXCEPT ![p] = IF BalanceChecked(r) THEN @ ELSE @ + 1]
          /\ Goto(r, "debitrow")
     ELSE /\ Goto(r, "unclaim")
          /\ UNCHANGED <<used, charged, waived>>
  /\ UNCHANGED <<bookVars, pass, extra, ledger, gate, locals, repaid, audit>>

\* CreatePassLedgerEntry(-1, 'build'), then the build goroutine is started.
\* The row names the book: if that was deleted the insert is an error.
DebitRow(r) ==
  LET p == job[r].proj IN
  /\ pc[r] = "debitrow"
  /\ IF Present(job[r].book)
     THEN /\ ledger' = [ledger EXCEPT ![p] = @ - 1]
          /\ Goto(r, "queued")
          /\ UNCHANGED unposted
     ELSE /\ unposted' = unposted \cup {r}
          /\ Goto(r, "unclaim")
          /\ UNCHANGED ledger
  /\ UNCHANGED <<bookVars, pass, used, extra, gate, locals, charged, repaid, waived,
                 stored, unlisted, clamped, moved>>

\* unclaim: write back the status GetBook returned when the POST came in.
Unclaim(r) ==
  /\ pc[r] = "unclaim"
  /\ status' = Set(status, job[r].book, job[r].seen)
  /\ Goto(r, "refused")
  /\ UNCHANGED <<row, kind, proj, passVars, gate, locals, history>>

\* r.Context() is cancelled and the handler's next statement fails.  Up to
\* the claim the handler just returns; after it, unclaim runs on a context
\* of its own.
Disconnect(r) ==
  /\ "disconnect" \in Events
  /\ \/ pc[r] \in HandlerSteps /\ Goto(r, "refused") /\ UNCHANGED unposted
     \/ pc[r] = "reserve" /\ Goto(r, "unclaim") /\ UNCHANGED unposted
     \/ pc[r] = "debitrow" /\ Goto(r, "unclaim") /\ unposted' = unposted \cup {r}
  /\ UNCHANGED <<bookVars, passVars, gate, locals, charged, repaid, waived,
                 stored, unlisted, clamped, moved>>

-----------------------------------------------------------------------------
(* runConversion, finalizeBuild, runEPUBBuild and failConversionAt: the    *)
(* build goroutine.                                                        *)

\* buildSem <- struct{}{}: wait for one of the slots.
AcquireBuildSlot(r) ==
  /\ pc[r] = "queued"
  /\ Cardinality(Building) < MaxConcurrentBuilds
  /\ Goto(r, "run")
  /\ UNCHANGED <<bookVars, passVars, gate, locals, history>>

\* The converters succeed and CreateBookOutput stores the artifact.  The row
\* references books(id): for a deleted book the insert is an error.
StoreOutput(r) ==
  /\ pc[r] = "run"
  /\ Goto(r, IF Present(job[r].book) THEN "stored" ELSE "fail")
  /\ stored' = IF Present(job[r].book) THEN stored \cup {r} ELSE stored
  /\ UNCHANGED <<bookVars, passVars, gate, locals, charged, repaid, waived,
                 unposted, unlisted, clamped, moved>>

\* pandoc or typst fails, or its deadline (toolCommand) kills it.
ToolFails(r) ==
  /\ pc[r] = "run"
  /\ Goto(r, "fail")
  /\ UNCHANGED <<bookVars, passVars, gate, locals, history>>

\* The end of a build: whatever became of the EPUB stage after the PDF was
\* stored, the book is ready.
MarkReady(r) ==
  /\ pc[r] = "stored"
  /\ status' = Set(status, job[r].book, "ready")
  /\ Goto(r, "delivered")
  /\ UNCHANGED <<row, kind, proj, passVars, gate, locals, history>>

\* failConversionAt: the status first.
MarkError(r) ==
  /\ pc[r] = "fail"
  /\ status' = Set(status, job[r].book, "error")
  /\ Goto(r, "reread")
  /\ UNCHANGED <<row, kind, proj, passVars, gate, locals, history>>

\* Then the row is read again: what it says now decides about the refund.
RefundDue(r) ==
  LET b == job[r].book IN
  Present(b) /\ proj[b] # NoProject /\ kind[b] # "proof"

\* Mutant: the status is written again when the refund is looked at.
RereadBook_MarksAgain(r) ==
  /\ pc[r] = "reread"
  /\ status' = Set(status, job[r].book, "error")
  /\ Goto(r, "failed")
  /\ UNCHANGED <<row, kind, proj, passVars, gate, locals, history>>

RereadBook(r) ==
  /\ pc[r] = "reread"
  /\ IF RefundDue(r)
     THEN /\ refund' = [refund EXCEPT ![r] = proj[job[r].book]]
          /\ Goto(r, "lookup")
     ELSE /\ Goto(r, "failed")
          /\ UNCHANGED refund
  /\ UNCHANGED <<bookVars, passVars, gate, job, paying, history>>

\* Mutant: only a live pass is refunded.
LookupPass_LiveOnly(r) ==
  /\ pc[r] = "lookup"
  /\ Goto(r, IF HasPass(refund[r]) /\ pass[refund[r]] = "live"
             THEN "refund" ELSE "failed")
  /\ UNCHANGED <<bookVars, passVars, gate, locals, history>>

\* passForProject of the project just read.
LookupPass(r) ==
  /\ pc[r] = "lookup"
  /\ Goto(r, IF HasPass(refund[r]) THEN "refund" ELSE "failed")
  /\ UNCHANGED <<bookVars, passVars, gate, locals, history>>

\* Mutant: no clamp.
RefundBuildCredit_Unclamped(r) ==
  LET p == refund[r] IN
  /\ pc[r] = "refund"
  /\ used' = [used EXCEPT ![p] = @ - 1]
  /\ repaid' = [repaid EXCEPT ![r] = p]
  /\ Goto(r, "refundrow")
  /\ UNCHANGED <<bookVars, pass, extra, ledger, gate, locals, charged, waived, audit>>

\* DecrementPassBuildsUsed, clamped at 0.
RefundBuildCredit(r) ==
  LET p == refund[r] IN
  /\ pc[r] = "refund"
  /\ IF used[p] > 0
     THEN used' = [used EXCEPT ![p] = @ - 1] /\ UNCHANGED clamped
     ELSE clamped' = [clamped EXCEPT ![p] = @ + 1] /\ UNCHANGED used
  /\ repaid' = [repaid EXCEPT ![r] = p]
  /\ Goto(r, "refundrow")
  /\ UNCHANGED <<bookVars, pass, extra, ledger, gate, locals, charged, waived,
                 stored, unposted, unlisted, moved>>

\* Mutant: the refund leaves no row.
RefundRow_Silent(r) ==
  /\ pc[r] = "refundrow"
  /\ Goto(r, "failed")
  /\ UNCHANGED <<bookVars, passVars, gate, locals, history>>

\* CreatePassLedgerEntry(+1, 'build_failed_refund'); it names the book too.
RefundRow(r) ==
  LET p == refund[r] IN
  /\ pc[r] = "refundrow"
  /\ IF Present(job[r].book)
     THEN ledger' = [ledger EXCEPT ![p] = @ + 1] /\ UNCHANGED unposted
     ELSE unposted' = unposted \cup {r} /\ UNCHANGED ledger
  /\ Goto(r, "failed")
  /\ UNCHANGED <<bookVars, pass, used, extra, gate, locals, charged, repaid, waived,
                 stored, unlisted, clamped, moved>>

\* A statement on context.Background() fails.  unclaim and MarkError ignore
\* it, finalizeBuild takes it for a failed build, an EPUB-only build (always
\* a proof) is left converting, and the refund is given up.
DBError(r) ==
  /\ "dberror" \in Events
  /\ \/ pc[r] = "unclaim" /\ Goto(r, "refused")
     \/ pc[r] = "stored" /\ Goto(r, "fail")
     \/ pc[r] = "stored" /\ job[r].kind = "proof" /\ Goto(r, "lost")
     \/ pc[r] = "fail" /\ Goto(r, "reread")
     \/ pc[r] \in RefundSteps /\ Goto(r, "failed")
  /\ unposted' = IF pc[r] = "refundrow" THEN unposted \cup {r} ELSE unposted
  /\ UNCHANGED <<bookVars, passVars, gate, locals, charged, repaid, waived,
                 stored, unlisted, clamped, moved>>

-----------------------------------------------------------------------------
(* What the rest of the system does to the same rows.                      *)

\* handleUploadBook: CreateBook, into a project or (admin) unlinked.
UploadBook(b, p) ==
  /\ row[b] = "absent"
  /\ row' = [row EXCEPT ![b] = "present"]
  /\ proj' = [proj EXCEPT ![b] = p]
  /\ UNCHANGED <<status, kind, passVars, gate, pc, locals, history>>

\* handleDeleteBook: whatever the status.
DeleteBook(b) ==
  /\ "delete" \in Events
  /\ Present(b)
  /\ row' = [row EXCEPT ![b] = "deleted"]
  /\ UNCHANGED <<status, kind, proj, passVars, gate, pc, locals, history>>

\* handleLinkBookProject: whatever the status.
LinkBookProject(b, p) ==
  /\ "link" \in Events
  /\ Present(b) /\ proj[b] # p
  /\ proj' = [proj EXCEPT ![b] = p]
  /\ moved' = moved \cup {b}
  /\ UNCHANGED <<row, status, kind, passVars, gate, pc, locals, charged, repaid, waived,
                 stored, unposted, unlisted, clamped>>

\* attachPassToProject; project_id is UNIQUE in passes.
AttachPass(p) ==
  /\ "attach" \in Events
  /\ pass[p] = "none"
  /\ pass' = [pass EXCEPT ![p] = "live"]
  /\ moved' = moved \cup {b \in Books : proj[b] = p}
  /\ UNCHANGED <<bookVars, used, extra, ledger, gate, pc, locals, charged, repaid, waived,
                 stored, unposted, unlisted, clamped>>

\* handleAdminGrantPassBuilds: AddPassBuildsExtra, then the ledger row, which
\* a disconnect in between loses.
GrantPassBuilds(p, n) ==
  /\ "grant" \in Events
  /\ pass[p] # "none"
  /\ extra[p] + n <= MaxExtra
  /\ extra' = [extra EXCEPT ![p] = @ + n]
  /\ \/ ledger' = [ledger EXCEPT ![p] = @ + n] /\ UNCHANGED unlisted
     \/ /\ "disconnect" \in Events
        /\ unlisted' = [unlisted EXCEPT ![p] = @ + n] /\ UNCHANGED ledger
  /\ UNCHANGED <<bookVars, pass, used, gate, pc, locals, charged, repaid, waived,
                 stored, unposted, clamped, moved>>

\* AddPassExtras: builds bought in the store, in the cart of the pass or as an
\* add-on later.  The order is their record; pass_ledger gets no row.
AddPassExtras(p, n) ==
  /\ "grant" \in Events
  /\ pass[p] # "none"
  /\ extra[p] + n <= MaxExtra
  /\ extra' = [extra EXCEPT ![p] = @ + n]
  /\ unlisted' = [unlisted EXCEPT ![p] = @ + n]
  /\ UNCHANGED <<bookVars, pass, used, ledger, gate, pc, locals, charged, repaid, waived,
                 stored, unposted, clamped, moved>>

\* handleAdminPassStatus (revoked, active) and the end of the six months.
SetPassStatus(p) ==
  /\ "passlive" \in Events
  /\ pass[p] # "none"
  /\ pass' = [pass EXCEPT ![p] = IF @ = "live" THEN "dead" ELSE "live"]
  /\ UNCHANGED <<bookVars, used, extra, ledger, gate, pc, locals, history>>

\* The finals_gate setting is saved.
SetFinalsGate ==
  /\ "gate" \in Events
  /\ gate' = ~gate
  /\ UNCHANGED <<bookVars, passVars, pc, locals, history>>

\* The process dies and restarts: handlers and builds are gone, the rows
\* stay as they are (startup repairs none of them).
Crash ==
  /\ "crash" \in Events
  /\ \E r \in Requests : pc[r] \notin EndSteps \cup {"new"}
  /\ pc' = [r \in Requests |-> IF pc[r] \in EndSteps \cup {"new"} THEN pc[r] ELSE "lost"]
  /\ unposted' = unposted \cup {r \in Requests : pc[r] \in {"debitrow", "refundrow"}}
  /\ UNCHANGED <<bookVars, passVars, gate, locals, charged, repaid, waived,
                 stored, unlisted, clamped, moved>>

-----------------------------------------------------------------------------
Handler(r) ==
  \/ CheckAccess(r) \/ CheckInFlight(r) \/ Refuse(r) \/ UpdateBookBuildKind(r)
  \/ ClaimBookForBuild(r) \/ ReserveBuildCredit(r) \/ DebitRow(r) \/ Unclaim(r)

Build(r) ==
  \/ StoreOutput(r) \/ ToolFails(r) \/ MarkReady(r) \/ MarkError(r)
  \/ RereadBook(r) \/ LookupPass(r) \/ RefundBuildCredit(r) \/ RefundRow(r)

Environment ==
  \/ \E b \in Books, p \in Links : UploadBook(b, p) \/ LinkBookProject(b, p)
  \/ \E b \in Books : DeleteBook(b)
  \/ \E p \in Projects : AttachPass(p) \/ SetPassStatus(p)
  \/ \E p \in Projects, n \in 1..MaxExtra : GrantPassBuilds(p, n) \/ AddPassExtras(p, n)
  \/ SetFinalsGate
  \/ Crash

Next ==
  \/ \E r \in Requests, b \in Books, k \in Kinds, who \in Callers : GetBook(r, b, k, who)
  \/ \E r \in Requests : \/ Handler(r) \/ AcquireBuildSlot(r) \/ Build(r)
                         \/ Disconnect(r) \/ DBError(r)
  \/ Environment

Spec == Init /\ [][Next]_vars

\* Goroutines are scheduled and statements return; pandoc and typst run under
\* a deadline (toolexec.go).  A blocked send on buildSem is served in turn,
\* so a slot that keeps coming free is not missed forever.
Fairness ==
  \A r \in Requests : /\ WF_vars(Handler(r))
                     /\ WF_vars(Build(r))
                     /\ SF_vars(AcquireBuildSlot(r))

FairSpec == Spec /\ Fairness

-----------------------------------------------------------------------------
(* Properties.                                                             *)

\* At most one request works on a book at a time, from its claim until the
\* status is written back (ClaimBookForBuild: "two simultaneous POST /convert
\* calls cannot both win"), whatever fails or is administered meanwhile.
OneBuildPerBook ==
  \A r, s \in Requests :
    r # s /\ Owns(r) /\ Owns(s) => job[r].book # job[s].book

\* "One in-flight build per project (409) regardless of who asked".
OneBuildPerProject ==
  \A r, s \in Requests :
    LET b == job[r].book
        c == job[s].book IN
    r # s /\ Owns(r) /\ Owns(s) /\ Present(b) /\ Present(c)
      => proj[b] # proj[c] \/ proj[b] = NoProject

ReleaseStep ==
  \A b \in Books :
    status[b] = "converting" /\ status'[b] # "converting"
      => \E r \in Requests : Owns(r) /\ ~Owns(r)' /\ job[r].book = b

\* A book stops converting only by the hand of the request that claimed it,
\* as that request gives it up: no late write of an earlier build, of a loser
\* of the claim or of an administrator ends the build that is running.
ReleasedByOwner == [][ReleaseStep]_vars

\* reserveBuildCredit: concurrent finals cannot take more credits than the
\* pass has.  Only the charges the code deliberately makes without a balance
\* check (admin builds, the gate switched off) may go beyond.
NoOverspend == \A p \in Projects : used[p] <= Allowance(p) + waived[p]

\* The finals of project p whose PDF can be downloaded, on a pass.
StoredFinals(p) ==
  {r \in stored : job[r].kind = "final" /\ paying[r] /\ job[r].proj = p}

\* Refunds to the pass of p that undo no charge of a build that came to
\* nothing: the build had not been charged to p, or its PDF is stored.
Unearned(p) == {r \in Requests : repaid[r] = p /\ (charged[r] # p \/ r \in stored)}

\* "A crashed or killed build can never hand out a free one": under every
\* fault, deletion and move, the finals in book_outputs (also of builds that
\* count as failed because the last status write failed) are within the
\* allowance, or a refund that was not due has paid for the one beyond it.
DeliveredWithinAllowance ==
  \A p \in Projects :
    Cardinality(StoredFinals(p)) <= Allowance(p) + waived[p] + Cardinality(Unearned(p))

\* Another POST has asked for the same book and the other kind of build.
OtherKindAsked(r) ==
  \E s \in Requests : pc[s] # "new" /\ job[s].book = job[r].book /\ job[s].kind # job[r].kind

\* failConversionAt works from the row of the moment, yet it hands back what
\* this build was charged, to the pass that was charged, and nothing else ("a
\* failed proof is not refunded either") - unless a POST of the other kind
\* has rewritten build_kind, or the book has moved or got a pass meanwhile.
RefundOnlyCharged ==
  \A r \in Requests :
    repaid[r] # NoProject /\ repaid[r] # charged[r]
      => OtherKindAsked(r) \/ job[r].book \in moved

\* "A final that fails isn't counted": a failed build has got its credit back.
FailedFinalRepaid ==
  \A r \in Requests : pc[r] = "failed" /\ charged[r] # NoProject => repaid[r] = charged[r]

\* The -1 and +1 rows of project p that are missing: about to be written, or
\* lost to a fault between the two statements of a debit or a refund.
Owed(p) ==
  {r \in Requests : /\ charged[r] = p /\ repaid[r] = NoProject
                    /\ pc[r] = "debitrow" \/ r \in unposted}
Due(p) ==
  {r \in Requests : repaid[r] = p /\ (pc[r] = "refundrow" \/ r \in unposted)}

\* Refunds to the pass of p of builds it was not charged for.
Strayed(p) == {r \in Requests : repaid[r] = p /\ charged[r] # p}

\* pass_ledger explains builds_used, under every fault: but for the builds
\* bought in the store and the rows named above, the sums agree; the clamp of
\* DecrementPassBuildsUsed swallows no more than strayed refunds had taken;
\* and no build runs whose debit has no row.
LedgerMatches ==
  /\ \A p \in Projects :
       /\ ledger[p] - Cardinality(Owed(p)) + Cardinality(Due(p))
            = extra[p] - unlisted[p] - used[p] + clamped[p]
       /\ clamped[p] <= Cardinality(Strayed(p))
  /\ \A r \in unposted : repaid[r] # NoProject \/ pc[r] \in {"unclaim", "refused", "lost"}

\* A build that was accepted ends, with the refund settled.
BuildEnds ==
  \A r \in Requests : pc[r] = "queued" ~> pc[r] \in {"delivered", "failed"}

\* handleGetBook: "poll it after convert until status is ready or error".
ConvertingEnds ==
  \A b \in Books : status[b] = "converting" ~> status[b] # "converting"

-----------------------------------------------------------------------------
(* What the code says of itself and does not ensure: see README, "Promises *)
(* the code does not keep".                                                *)

\* "The credit below is debited at most once per build actually started": a
\* POST that was turned away has not been charged.
RefusedUncharged ==
  \A r \in Requests : pc[r] = "refused" => charged[r] = NoProject

\* "A refund here would also be wrong the other way round: the PDF is
\* downloadable, so the build was delivered": when the write of "ready" fails
\* finalizeBuild returns an error, and the credit of a stored final is refunded.
StoredNotRefunded == \A r \in stored : repaid[r] = NoProject

\* "failConversion hands a spent credit back": strayed refunds, the causes
\* that RefundOnlyCharged names, hand one back that was never spent.
NoStrayRefund == \A p \in Projects : Strayed(p) = {}

=============================================================================
