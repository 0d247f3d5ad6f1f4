----------------------------- MODULE IndexDraft -----------------------------
(***************************************************************************)
(* The back-of-book index of one book (srv/index.go): the status machine   *)
(* off | drafting | draft | reviewed | error and the stored document, with *)
(* the three kinds of actor that touch them: POST index/draft and the run  *)
(* it starts, PUT index (the author's review), and builds of the book.     *)
(*                                                                         *)
(* As in FactoryBuild, a statement is atomic and nothing is held between   *)
(* two of them: the handlers read the row, decide, and write later.        *)
(***************************************************************************)
EXTENDS Naturals, FiniteSets

CONSTANTS
  Drafts,    \* POST /api/books/{id}/index/draft calls
  Reviews,   \* PUT /api/books/{id}/index calls
  NoDoc,     \* index_json IS NULL
  EmptyDoc,  \* the document without entries that a failed first run stores
  Faults     \* a subset of {"build", "expire", "crash"}

ASSUME IndexAssumption ==
  /\ Drafts \cap Reviews = {}
  /\ {NoDoc, EmptyDoc} \cap (Drafts \cup Reviews) = {}
  /\ NoDoc # EmptyDoc
  /\ Faults \subseteq {"build", "expire", "crash"}

VARIABLES
  istatus,   \* books.index_status
  doc,       \* books.index_json, named after the actor whose entries it holds
  converting, \* the book's build: books.status is 'converting' unless "none"
  dpc,       \* dpc[d]: where draft request d and its run are
  rpc,       \* rpc[v]: where review v is
  snap,      \* snap[d]: index_json in the row POST d has read
  over,      \* history: the document in place when run d was started
  blank      \* the actors whose list of entries came out empty

indexVars == <<istatus, doc, converting, dpc, rpc, snap, over, blank>>

Docs == {NoDoc, EmptyDoc} \cup Drafts \cup Reviews

\* books.status = 'converting', also of a build that died with its process.
Converting == converting # "none"

\* Type correctness of the row and of the actors' locals.
IndexTypeOK ==
  /\ istatus \in {"off", "drafting", "draft", "reviewed", "error"}
  /\ doc \in Docs
  /\ converting \in {"none", "running", "dead"}
  /\ dpc \in [Drafts -> {"new", "inflight", "mark", "run", "failing", "done", "refused", "lost"}]
  /\ rpc \in [Reviews -> {"new", "store", "done", "refused"}]
  /\ snap \in [Drafts -> Docs]
  /\ over \in [Drafts -> Docs]
  /\ blank \subseteq Drafts \cup Reviews

IndexInit ==
  /\ istatus = "off"
  /\ doc = NoDoc
  /\ converting = "none"
  /\ dpc = [d \in Drafts |-> "new"]
  /\ rpc = [v \in Reviews |-> "new"]
  /\ snap = [d \in Drafts |-> NoDoc]
  /\ over = [d \in Drafts |-> NoDoc]
  /\ blank = {}

DraftAt(d, step) == dpc' = [dpc EXCEPT ![d] = step]
ReviewAt(v, step) == rpc' = [rpc EXCEPT ![v] = step]

\* storeIndexDoc: one UPDATE of document and status. Nobody asks whether Tidy
\* has left any entries, or whether there were any.
Store(actor, status) ==
  /\ doc' = actor
  /\ istatus' = status
  /\ blank' \in {blank, blank \cup {actor}}

-----------------------------------------------------------------------------
(* POST /api/books/{id}/index/draft                                        *)

\* GetBook, and the two 409s on the row it returned.
GetBookForDraft(d) ==
  /\ dpc[d] = "new"
  /\ DraftAt(d, IF istatus = "drafting" \/ Converting THEN "refused" ELSE "inflight")
  /\ snap' = [snap EXCEPT ![d] = doc]
  /\ UNCHANGED <<istatus, doc, converting, rpc, over, blank>>

\* CountConvertingBooksByProject: a build that has started since.
CheckInFlight(d) ==
  /\ dpc[d] = "inflight"
  /\ DraftAt(d, IF Converting THEN "refused" ELSE "mark")
  /\ UNCHANGED <<istatus, doc, converting, rpc, snap, over, blank>>

\* No add-on on the pass, no source file, another book of the project is
\* converting, or a statement of a cancelled request context.
RefuseDraft(d) ==
  /\ dpc[d] \in {"inflight", "mark"}
  /\ DraftAt(d, "refused")
  /\ UNCHANGED <<istatus, doc, converting, rpc, snap, over, blank>>

\* UpdateBookIndexStatus(drafting), unconditionally, and the run is started.
MarkDrafting(d) ==
  /\ dpc[d] = "mark"
  /\ istatus' = "drafting"
  /\ over' = [over EXCEPT ![d] = doc]
  /\ DraftAt(d, "run")
  /\ UNCHANGED <<doc, converting, rpc, snap, blank>>

-----------------------------------------------------------------------------
(* runIndexDraft                                                           *)

\* indexer.Draft and PlaceMarkers succeed: the new document replaces the old.
StoreDraft(d) ==
  /\ dpc[d] = "run"
  /\ Store(d, "draft")
  /\ DraftAt(d, "done")
  /\ UNCHANGED <<converting, rpc, snap, over>>

\* pandoc, the model calls or the store fail while the run's context lives.
DraftFails(d) ==
  /\ dpc[d] = "run"
  /\ DraftAt(d, "failing")
  /\ UNCHANGED <<istatus, doc, converting, rpc, snap, over, blank>>

\* What a failed run writes back: the document of the row it was started from.
PutBack(d) == IF snap[d] = NoDoc THEN EmptyDoc ELSE snap[d]

\* Mutant: the failure is noted and the status forgotten.
RecordFailure_NoteOnly(d) ==
  /\ dpc[d] = "failing"
  /\ doc' = PutBack(d)
  /\ DraftAt(d, "done")
  /\ UNCHANGED <<istatus, converting, rpc, snap, over, blank>>

\* fail(): the document of the row read at the start goes back with a note.
RecordFailure(d) ==
  /\ dpc[d] = "failing"
  /\ doc' = PutBack(d)
  /\ istatus' = "error"
  /\ DraftAt(d, "done")
  /\ UNCHANGED <<converting, rpc, snap, over, blank>>

\* indexDraftTimeout passes: Draft returns the context's error and fail()
\* stores through the same, expired context, so nothing is recorded.
Expire(d) ==
  /\ "expire" \in Faults
  /\ dpc[d] \in {"run", "failing"}
  /\ DraftAt(d, "lost")
  /\ UNCHANGED <<istatus, doc, converting, rpc, snap, over, blank>>

-----------------------------------------------------------------------------
(* PUT /api/books/{id}/index                                               *)

\* GetBook, and the 409 while a draft runs; validation may refuse it too.
GetBookForReview(v) ==
  /\ rpc[v] = "new"
  /\ \/ istatus # "drafting" /\ ReviewAt(v, "store")
     \/ ReviewAt(v, "refused")
  /\ UNCHANGED <<istatus, doc, converting, dpc, snap, over, blank>>

\* Mutant: status and document are written by two statements.
StoreReview_StatusFirst(v) ==
  /\ rpc[v] = "store"
  /\ istatus' = "reviewed"
  /\ ReviewAt(v, "done")
  /\ UNCHANGED <<doc, converting, dpc, snap, over, blank>>

\* storeIndexDoc(reviewed), after pandoc has re-checked the anchors.
StoreReview(v) ==
  /\ rpc[v] = "store"
  /\ Store(v, "reviewed")
  /\ ReviewAt(v, "done")
  /\ UNCHANGED <<converting, dpc, snap, over>>

-----------------------------------------------------------------------------
\* handleConvertBook claims the book: index_status is not looked at unless
\* the build asks for the index, which needs a stored draft (indexIncludable).
ClaimBook(withIndex) ==
  /\ "build" \in Faults
  /\ ~Converting
  /\ withIndex => istatus \in {"draft", "reviewed"}
  /\ converting' = "running"
  /\ UNCHANGED <<istatus, doc, dpc, rpc, snap, over, blank>>

ReleaseBook ==
  /\ converting = "running"
  /\ converting' = "none"
  /\ UNCHANGED <<istatus, doc, dpc, rpc, snap, over, blank>>

\* A restart: requests, runs and the build are gone, the row stays.
Crash ==
  /\ "crash" \in Faults
  /\ dpc' = [d \in Drafts |-> IF dpc[d] \in {"inflight", "mark", "run", "failing"}
                               THEN "lost" ELSE dpc[d]]
  /\ rpc' = [v \in Reviews |-> IF rpc[v] = "store" THEN "refused" ELSE rpc[v]]
  /\ converting' = IF converting = "running" THEN "dead" ELSE converting
  /\ UNCHANGED <<istatus, doc, snap, over, blank>>

\* Mutant: the run holds its result back while a build is on.
RunStep_AfterBuild(d) == ~Converting /\ (StoreDraft(d) \/ DraftFails(d) \/ RecordFailure(d))

DraftStep(d) == CheckInFlight(d) \/ RefuseDraft(d) \/ MarkDrafting(d)
RunStep(d) == StoreDraft(d) \/ DraftFails(d) \/ RecordFailure(d)

IndexNext ==
  \/ \E d \in Drafts : GetBookForDraft(d) \/ DraftStep(d) \/ RunStep(d) \/ Expire(d)
  \/ \E v \in Reviews : GetBookForReview(v) \/ StoreReview(v)
  \/ \E withIndex \in BOOLEAN : ClaimBook(withIndex)
  \/ ReleaseBook
  \/ Crash

IndexSpec == IndexInit /\ [][IndexNext]_indexVars

\* Handlers and runs are goroutines; pandoc has a deadline and the model calls
\* end with the run's own context.
IndexFairness == \A d \in Drafts : WF_indexVars(DraftStep(d)) /\ WF_indexVars(RunStep(d))

IndexFairSpec == IndexSpec /\ IndexFairness

-----------------------------------------------------------------------------
Running(d) == dpc[d] \in {"run", "failing"}

\* The status tells whose text the document is, however the writers race: a
\* build reads only the status (indexIncludable), so it is never handed what a
\* failed run put back, and a failed run puts back what it was started from.
\* Whether that draft or review has entries nobody knows; see IncludableHasEntries.
StatusTellsDoc ==
  /\ istatus = "off" => doc = NoDoc
  /\ istatus = "draft" => doc \in Drafts
  /\ istatus = "reviewed" => doc \in Reviews
  /\ istatus = "error" => \E d \in Drafts : dpc[d] = "done" /\ doc = PutBack(d)

\* The row is one the readers know, and the status tells what the document is
\* (index.go).
IndexSafe ==
  /\ IndexTypeOK
  /\ StatusTellsDoc

\* "drafting" is said of a run that exists: the 409s of POST and PUT never
\* wait for nobody (as long as runs end in time and the process lives).
DraftingIsHeld == istatus = "drafting" => \E d \in Drafts : Running(d)

\* The page that polls GET .../index sees the drafting end.
DraftingEnds == istatus = "drafting" ~> istatus # "drafting"

-----------------------------------------------------------------------------
(* What the code says of itself and does not ensure: see README, "Promises *)
(* the code does not keep".                                                *)

\* "indexIncludable reports whether a build may include the index: there is a
\* draft to include": a reply without entries, or a PUT of an empty list, is
\* stored as draft or reviewed all the same.
IncludableHasEntries ==
  istatus \in {"draft", "reviewed"} => doc \in (Drafts \cup Reviews) \ blank

\* "One drafting run or build per book at a time (409), because both read the
\* source and the draft costs money": two POSTs may pass the check together.
OneDraftAtATime == \A d, e \in Drafts : Running(d) /\ Running(e) => d = e

\* The same sentence for a build: handleConvertBook ignores index_status.
DraftOrBuild == ~(Converting /\ \E d \in Drafts : Running(d))

\* "An index draft is running; wait for it before editing": a run does not
\* discard a review that was saved after the run had been started.
ReviewSurvives ==
  [][\A d \in Drafts :
       Running(d) /\ dpc'[d] = "done" /\ doc \in Reviews /\ doc' # doc => over[d] = doc]_indexVars

=============================================================================
