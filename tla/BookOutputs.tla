---------------------------- MODULE BookOutputs -----------------------------
(***************************************************************************)
(* The artifact store of a project's books: the book_outputs rows that a   *)
(* build inserts and prunes (srv/books.go: runConversion, finalizeBuild,   *)
(* runEPUBBuild, pruneProofPDFs, pruneEPUBOutputs), the admin's separate   *)
(* EPUB generation (srv/epub.go), the proof rate limit that counts the     *)
(* rows, and the downloads that pick the newest.                           *)
(*                                                                         *)
(* A project has one build at a time (FactoryBuild, OneBuildPerProject),   *)
(* so the build is one process; admin EPUB runs are not claimed and        *)
(* interleave with it.  A row's id orders it by created_at, id.            *)
(*                                                                         *)
(* Statements succeed here (FactoryBuild has the failing ones): a prune    *)
(* that fails is logged and made up for by the next one.                   *)
(***************************************************************************)
EXTENDS Naturals, FiniteSets

CONSTANTS
  Books,       \* the books of the project
  Askers,      \* who asks for builds: a subset of {"customer", "admin"}
  ProofsKept,  \* proofOutputsKept: proof PDFs kept per book
  EPUBsKept,   \* epubOutputsKept: EPUBs kept per book
  RateLimit,   \* proofRateLimit: proofs per project and window
  Window,      \* the rolling 24 hours, in ticks of the clock
  MaxRows,     \* bound on the rows ever inserted
  MaxTime,     \* bound on the clock
  NoBuild      \* no build is running

ASSUME OutputsAssumption ==
  /\ Askers \subseteq {"customer", "admin"}
  /\ ProofsKept \in Nat \ {0}
  /\ EPUBsKept \in Nat \ {0}
  /\ RateLimit \in Nat
  /\ Window \in Nat
  /\ MaxRows \in Nat
  /\ MaxTime \in Nat

VARIABLES
  outputs,  \* the book_outputs rows
  made,     \* history: every row ever inserted
  now,      \* the clock
  lastKind, \* lastKind[b]: books.build_kind
  build,    \* the running build, or NoBuild
  phase     \* its next statement

outputVars == <<outputs, made, now, lastKind, build, phase>>

Kinds == {"proof", "final"}
Formats == {"pdf", "epub"}
Rows == [id: Nat, book: Books, format: Formats, kind: Kinds, at: Nat]
Builds == [book: Books, format: {"pdf", "epub", "both"}, kind: Kinds]

\* Type correctness of the rows and of the running build.
OutputsTypeOK ==
  /\ outputs \subseteq Rows /\ outputs \subseteq made
  /\ made \subseteq Rows
  /\ now \in 0..MaxTime
  /\ lastKind \in [Books -> Kinds]
  /\ build \in Builds \cup {NoBuild}
  /\ phase \in {"idle", "pdf", "pruneproofs", "epub", "pruneepubs", "ready"}

OutputsInit ==
  /\ outputs = {}
  /\ made = {}
  /\ now = 0
  /\ lastKind = [b \in Books |-> "final"]
  /\ build = NoBuild
  /\ phase = "idle"

-----------------------------------------------------------------------------
(* Statements on book_outputs.                                             *)

\* CreateBookOutput: AUTOINCREMENT id, created_at = now.
NewRow(b, f, k) ==
  [id |-> Cardinality(made) + 1, book |-> b, format |-> f, kind |-> k, at |-> now]

CreateBookOutput(b, f, k) ==
  /\ Cardinality(made) < MaxRows
  /\ outputs' = outputs \cup {NewRow(b, f, k)}
  /\ made' = made \cup {NewRow(b, f, k)}

\* ORDER BY created_at DESC, id DESC LIMIT n.
Newest(S, n) == {o \in S : Cardinality({x \in S : x.id > o.id}) < n}

\* DELETE every row of S but the newest n.
Prune(S, n) == outputs \ (S \ Newest(S, n))

\* Mutant: the kind is not part of the WHERE clause.
ProofPDFs_AnyKind(b) == {o \in outputs : o.book = b /\ o.format = "pdf"}

\* The rows of PruneBookOutputsByKind(b, 'pdf', 'proof').
ProofPDFs(b) == {o \in outputs : o.book = b /\ o.format = "pdf" /\ o.kind = "proof"}

\* The rows of PruneBookOutputs(b, 'epub'): of either kind.
EPUBs(b) == {o \in outputs : o.book = b /\ o.format = "epub"}

\* CountProofOutputsByProjectSince(now - 24 h).
RecentProofs == {o \in outputs : o.format = "pdf" /\ o.kind = "proof" /\ o.at + Window >= now}

-----------------------------------------------------------------------------
(* A build.                                                                *)

\* The POST is accepted: an EPUB alone is a proof by construction, and a
\* customer's proof is turned away at the rate limit.
StartBuild(b, f, k, who) ==
  /\ phase = "idle"
  /\ f = "epub" => k = "proof"
  /\ k = "proof" /\ who = "customer" => Cardinality(RecentProofs) < RateLimit
  /\ build' = [book |-> b, format |-> f, kind |-> k]
  /\ lastKind' = [lastKind EXCEPT ![b] = k]
  /\ phase' = IF f = "epub" THEN "epub" ELSE "pdf"
  /\ UNCHANGED <<outputs, made, now>>

\* The PDF is stored; only a proof is pruned after it.
StorePDF ==
  /\ phase = "pdf"
  /\ CreateBookOutput(build.book, "pdf", build.kind)
  /\ phase' = CASE build.kind = "proof" -> "pruneproofs"
                [] build.kind = "final" /\ build.format = "both" -> "epub"
                [] OTHER -> "ready"
  /\ UNCHANGED <<now, lastKind, build>>

\* Mutant: one row too many survives.
PruneProofPDFs_OffByOne ==
  /\ phase = "pruneproofs"
  /\ outputs' = Prune(ProofPDFs(build.book), ProofsKept + 1)
  /\ phase' = IF build.format = "both" THEN "epub" ELSE "ready"
  /\ UNCHANGED <<made, now, lastKind, build>>

PruneProofPDFs ==
  /\ phase = "pruneproofs"
  /\ outputs' = Prune(ProofPDFs(build.book), ProofsKept)
  /\ phase' = IF build.format = "both" THEN "epub" ELSE "ready"
  /\ UNCHANGED <<made, now, lastKind, build>>

\* The EPUB stage stores its row.
StoreEPUB ==
  /\ phase = "epub"
  /\ CreateBookOutput(build.book, "epub", build.kind)
  /\ phase' = "pruneepubs"
  /\ UNCHANGED <<now, lastKind, build>>

PruneEPUBs ==
  /\ phase = "pruneepubs"
  /\ outputs' = Prune(EPUBs(build.book), EPUBsKept)
  /\ phase' = "ready"
  /\ UNCHANGED <<made, now, lastKind, build>>

\* The EPUB stage fails: a "both" build delivers the PDF (finalizeBuild), an
\* EPUB-only build has failed (runEPUBBuild).
EPUBFails ==
  /\ phase = "epub"
  /\ IF build.format = "both"
     THEN phase' = "ready" /\ UNCHANGED build
     ELSE phase' = "idle" /\ build' = NoBuild
  /\ UNCHANGED <<outputs, made, now, lastKind>>

\* Mutant: the failure is not noticed.
PDFFails_Unnoticed ==
  /\ phase = "pdf"
  /\ phase' = "ready"
  /\ UNCHANGED <<outputs, made, now, lastKind, build>>

\* pandoc or typst fails: nothing was stored.
PDFFails ==
  /\ phase = "pdf"
  /\ build' = NoBuild
  /\ phase' = "idle"
  /\ UNCHANGED <<outputs, made, now, lastKind>>

\* The book is ready; the project may build again.
Finish ==
  /\ phase = "ready"
  /\ build' = NoBuild
  /\ phase' = "idle"
  /\ UNCHANGED <<outputs, made, now, lastKind>>

-----------------------------------------------------------------------------
\* handleGenerateEPUB: no claim, no pruning, marked with the kind of the last
\* build.
GenerateEPUB(b) ==
  /\ CreateBookOutput(b, "epub", lastKind[b])
  /\ UNCHANGED <<now, lastKind, build, phase>>

Tick ==
  /\ now < MaxTime
  /\ now' = now + 1
  /\ UNCHANGED <<outputs, made, lastKind, build, phase>>

OutputsNext ==
  \/ \E b \in Books, f \in {"pdf", "epub", "both"}, k \in Kinds, who \in Askers :
       StartBuild(b, f, k, who)
  \/ StorePDF \/ PruneProofPDFs \/ StoreEPUB \/ PruneEPUBs
  \/ EPUBFails \/ PDFFails \/ Finish
  \/ \E b \in Books : GenerateEPUB(b)
  \/ Tick

OutputsSpec == OutputsInit /\ [][OutputsNext]_outputVars

-----------------------------------------------------------------------------
(* Properties.                                                             *)

\* "Finals are never pruned - they are what the pass bought", for the print
\* PDF: it can be downloaded whatever was built since.
FinalPDFsKept ==
  \A o \in made : o.kind = "final" /\ o.format = "pdf" => o \in outputs

\* handleDownloadBook serves the newest of a format, or of a format and kind:
\* pruning never takes that row away.
NewestKept ==
  \A o \in made :
    (\A x \in made : x.book = o.book /\ x.format = o.format => x.id <= o.id)
      => o \in outputs

\* What can be downloaded stays: the rows keep their types, the finals and the
\* newest of each format are never pruned.
OutputsSafe ==
  /\ OutputsTypeOK
  /\ FinalPDFsKept
  /\ NewestKept

\* Between builds the proofs of a book stay within proofOutputsKept, and only
\* the admin's unpruned EPUB runs may exceed epubOutputsKept.
ProofsBounded ==
  phase \in {"idle", "ready"} =>
    \A b \in Books :
      Cardinality({o \in outputs : <<o.book, o.format, o.kind>> = <<b, "pdf", "proof">>})
        <= ProofsKept

\* When the book is reported ready, its build left the PDF it was about.
ReadyHasPDF ==
  phase = "ready" /\ build.format # "epub" =>
    \E o \in outputs : o.book = build.book /\ o.format = "pdf" /\ o.kind = build.kind

-----------------------------------------------------------------------------
(* What the code says of itself and does not ensure: see README, "Promises *)
(* the code does not keep".                                                *)

\* "Finals are never pruned" taken at its word: the EPUB of a final is.
FinalsKept == \A o \in made : o.kind = "final" => o \in outputs

\* "30 proofs per project per rolling 24 h", of the proof PDFs ever made:
\* the limit counts rows, and pruning deletes them.
ProofsRateLimited ==
  Cardinality({o \in made : o.format = "pdf" /\ o.kind = "proof" /\ o.at + Window >= now})
    <= RateLimit

=============================================================================
