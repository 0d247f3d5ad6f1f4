---------------------------- MODULE BuildStages ----------------------------
(***************************************************************************)
(* The stages of a build that read rows others may be editing: the         *)
(* project's pending corrections (corrections.go, corrections_apply.go)    *)
(* and its book spec, each read anew by every stage of the print build     *)
(* (runConversion in books.go) and of the EPUB build (generateEPUB in      *)
(* epub.go), which follows the print build or is run alone by an admin.    *)
(*                                                                         *)
(* A title is a point of a small set and a correction a map on it. How a   *)
(* build is claimed, metered and failed is FactoryBuild's; which rows      *)
(* pruning keeps is BookOutputs'.                                          *)
(***************************************************************************)
EXTENDS Integers, Sequences, SequencesExt, FiniteSets

CONSTANTS
    PrintRuns,      \* runs that may build the PDF and then the EPUB
    EPUBRuns,       \* runs that may build the EPUB on its own
    Titles,         \* what a title can be
    UploadTitle,    \* books.title
    NoTitle,        \* a spec with no title
    Patch,          \* Patch[c][t]: title t after correction c
    Scoped,         \* corrections with a chapter, which no title takes
    SpecTitles,     \* titles a spec edit may write
    MaxEdits        \* bound: edits of corrections and spec

ASSUME StagesAssumption ==
    /\ UploadTitle \in Titles /\ NoTitle \notin Titles
    /\ SpecTitles \subseteq Titles \cup {NoTitle}
    /\ Patch \in Seq([Titles -> Titles])

Rows == 1 .. Len(Patch)
Runs == PrintRuns \cup EPUBRuns

VARIABLES
    ledger,     \* status of each correction, in order of creation
    specRow,    \* the spec row: whether there is one, and its title
    job,        \* each run: its stage, what it has read and which reads failed
    outputs,    \* the stored artifacts
    edits,      \* edits so far
    during      \* history: what was pending at some time in a run

stageVars == <<ledger, specRow, job, outputs, edits, during>>

Unwritten == [exists |-> FALSE, title |-> NoTitle]

Running(j) == job[j].at \notin {"idle", "done"}

PendingSet == {c \in Rows : ledger[c] = "pending"}

\* Pending corrections in order of creation.
PendingPairs ==
    CHOOSE s \in [1 .. Cardinality(PendingSet) -> PendingSet] :
        \A m, n \in 1 .. Cardinality(PendingSet) : m < n => s[m] < s[n]

\* A title after the corrections of a run, one after another, those of one
\* chapter left out; after[n] is the title after the first n.
Patched(pairs, t) ==
    LET after == CHOOSE s \in [0 .. Len(pairs) -> Titles] :
                     /\ s[0] = t
                     /\ \A n \in 1 .. Len(pairs) :
                           s[n] = IF pairs[n] \in Scoped THEN s[n - 1] ELSE Patch[pairs[n]][s[n - 1]]
    IN after[Len(pairs)]

-----------------------------------------------------------------------------

StagesInit ==
    /\ ledger = [c \in Rows |-> "absent"]
    /\ specRow = Unwritten
    /\ job = [j \in Runs |->
                 [at |-> "idle", title |-> UploadTitle, pairs |-> <<>>, body |-> <<>>, snapshot |-> <<>>,
                  mapTitle |-> NoTitle, faults |-> {}, quiet |-> TRUE]]
    /\ outputs = {}
    /\ edits = 0
    /\ during = [j \in Runs |-> {}]

(* Edits *)

\* Every run under way has been edited under, and may have seen the new rows.
Edit ==
    /\ edits < MaxEdits
    /\ edits' = edits + 1
    /\ job' = [j \in Runs |-> [job[j] EXCEPT !.quiet = @ /\ ~Running(j)]]
    /\ during' = [j \in Runs |-> IF Running(j) THEN during[j] \cup {PendingSet'} ELSE during[j]]
    /\ UNCHANGED outputs

CreateCorrection(c) ==
    /\ ledger[c] = "absent"
    /\ \A d \in Rows : d < c => ledger[d] # "absent"
    /\ ledger' = [ledger EXCEPT ![c] = "pending"]
    /\ Edit /\ UNCHANGED specRow

DeleteCorrection(c) ==
    /\ ledger[c] \notin {"absent", "deleted"}
    /\ ledger' = [ledger EXCEPT ![c] = "deleted"]
    /\ Edit /\ UNCHANGED specRow

UpdateCorrectionStatus(c, status) ==
    /\ ledger[c] \notin {"absent", "deleted", status}
    /\ ledger' = [ledger EXCEPT ![c] = status]
    /\ Edit /\ UNCHANGED specRow

PutSpecTitle(t) ==
    /\ specRow' = [exists |-> TRUE, title |-> t]
    /\ UNCHANGED ledger /\ Edit

(* Stages both builds share *)

Becomes(j, r) ==
    /\ job' = [job EXCEPT ![j] = r]
    /\ UNCHANGED <<ledger, specRow, edits>>

\* applyCorrectionsIfAny and the titles its caller patches. Each of its faults is
\* logged and the stage goes on: without pairs if they cannot be loaded, without
\* the snapshot if it cannot be written, and, if the patcher or the rename fails,
\* with the pairs and the snapshot of a file left as it was.
LoadOutcomes == {"unloaded", "unwritten", "unpatched", "patched"}

ApplyCorrections(r, pending, outcome) ==
    LET pairs == IF outcome = "unloaded" THEN <<>> ELSE pending IN
    [r EXCEPT !.pairs = pairs, !.title = Patched(pairs, @),
              !.snapshot = IF outcome \in {"unpatched", "patched"} THEN pairs ELSE <<>>,
              !.body = IF outcome = "patched" THEN pairs ELSE <<>>,
              !.faults = IF outcome = "unloaded" THEN {"corrections"} ELSE {}]

\* GetBookSpec: a read that fails is a spec that is not there.
SpecReads == {specRow, Unwritten}
ReadFault(spec) == IF spec = specRow THEN {} ELSE {"spec"}

Store(j, format) ==
    outputs' = outputs \cup
        {[run |-> j, format |-> format, title |-> job[j].title, body |-> job[j].body,
          snapshot |-> job[j].snapshot, pairs |-> job[j].pairs, mapTitle |-> job[j].mapTitle,
          faults |-> job[j].faults, quiet |-> job[j].quiet]}

(* Print *)

StartRun(j) ==
    /\ job[j].at = "idle"
    /\ \/ j \in PrintRuns /\ Becomes(j, [job[j] EXCEPT !.at = "corrections"])
       \/ j \in EPUBRuns /\ Becomes(j, [job[j] EXCEPT !.at = "epub corrections"])
    /\ during' = [during EXCEPT ![j] = {PendingSet}]
    /\ UNCHANGED outputs

LoadCorrections(j) ==
    /\ job[j].at \in {"corrections", "epub corrections"}
    /\ \E outcome \in LoadOutcomes :
          Becomes(j, [ApplyCorrections(job[j], PendingPairs, outcome)
                         EXCEPT !.at = IF @ = "corrections" THEN "title" ELSE "epub spec"])
    /\ UNCHANGED <<outputs, during>>

\* The transmittal's title, through the spec, is the record; it is patched too.
ReadTitle(j) ==
    /\ job[j].at = "title"
    /\ \E spec \in SpecReads :
          LET t == IF spec.title = NoTitle THEN job[j].title ELSE spec.title IN
          Becomes(j, [job[j] EXCEPT !.at = "map", !.faults = @ \cup ReadFault(spec),
                                    !.title = IF spec.exists THEN Patched(job[j].pairs, t) ELSE @])
    /\ UNCHANGED <<outputs, during>>

\* The map is told the spec's title as it stands, or the patched one without.
ReadMap(j) ==
    /\ job[j].at = "map"
    /\ \E spec \in SpecReads :
          Becomes(j, [job[j] EXCEPT !.at = "pdf",
                                    !.mapTitle = IF spec.title = NoTitle THEN job[j].title ELSE spec.title])
    /\ UNCHANGED <<outputs, during>>

\* The EPUB stage goes on with the book as the print stage has patched it.
StorePDF(j) ==
    /\ job[j].at = "pdf"
    /\ Becomes(j, [job[j] EXCEPT !.at = "epub corrections"])
    /\ Store(j, "pdf")
    /\ UNCHANGED during

(* EPUB *)

EPUBTitle_Unpatched(r, spec) == IF spec.title = NoTitle THEN r.title ELSE spec.title

\* parseEPUBSpec: the spec's title, or the book's; corrections again.
EPUBTitle(r, spec) ==
    LET t == IF spec.title = NoTitle THEN r.title ELSE spec.title
    IN IF spec.exists THEN Patched(r.pairs, t) ELSE t

ReadEPUBSpec(j) ==
    /\ job[j].at = "epub spec"
    /\ \E spec \in SpecReads :
          LET t == EPUBTitle(job[j], spec)
          IN Becomes(j, [job[j] EXCEPT !.at = "epub", !.title = t, !.mapTitle = t,
                                       !.faults = @ \cup ReadFault(spec)])
    /\ UNCHANGED <<outputs, during>>

StoreEPUB(j) ==
    /\ job[j].at = "epub"
    /\ Becomes(j, [job[j] EXCEPT !.at = "done"])
    /\ Store(j, "epub")
    /\ UNCHANGED during

StagesNext ==
    \/ \E c \in Rows : CreateCorrection(c) \/ DeleteCorrection(c)
    \/ \E c \in Rows, s \in {"pending", "applied", "skipped"} : UpdateCorrectionStatus(c, s)
    \/ \E t \in SpecTitles : PutSpecTitle(t)
    \/ \E j \in Runs :
          \/ StartRun(j) \/ LoadCorrections(j)
          \/ ReadTitle(j) \/ ReadMap(j) \/ StorePDF(j)
          \/ ReadEPUBSpec(j) \/ StoreEPUB(j)

StagesSpec == StagesInit /\ [][StagesNext]_stageVars

-----------------------------------------------------------------------------
(* Properties *)

\* Rows and runs keep their shape, and corrections are applied oldest first.
StagesTypeOK ==
    /\ ledger \in [Rows -> {"absent", "pending", "applied", "skipped", "deleted"}]
    /\ specRow.title \in SpecTitles \cup {NoTitle}
    /\ \A j \in Runs :
          /\ job[j].title \in Titles
          /\ \A m, n \in DOMAIN job[j].pairs : m < n => job[j].pairs[m] < job[j].pairs[n]

\* An artifact holds the corrections that were all pending at one moment of
\* its run: none that was settled or deleted before it began, and no mixture of
\* two states of the ledger. One whose stage could not load them holds none,
\* in title, text or snapshot.
OneLedger ==
    \A o \in outputs :
        IF "corrections" \in o.faults THEN o.pairs = <<>> /\ o.snapshot = <<>> /\ o.body = <<>>
                                      ELSE ToSet(o.pairs) \in during[o.run]

\* A text that was patched is stored with the corrections it was patched with.
BodyIsRecorded == \A o \in outputs : o.body # <<>> => o.snapshot = o.body

\* The corrections of a run change a title no further the second time.
Settled(pairs) ==
    \A t \in Titles : Patched(pairs, Patched(pairs, t)) = Patched(pairs, t)

\* Print and EPUB of a build nobody edits under carry one title, though each
\* patches it at several places, if repeating the corrections changes nothing:
\* whenever the same reads failed in both stages, none of them in particular.
TitlesAgree ==
    \A p, e \in outputs :
        /\ p.run = e.run /\ p.format = "pdf" /\ e.format = "epub"
        /\ p.quiet /\ e.quiet /\ p.faults = e.faults /\ Settled(p.pairs)
        => p.title = e.title

\* Print and EPUB of one undisturbed build read the file under one title, so
\* a title typed as a heading is dropped from both or from neither.
SameMapTitle ==
    \A p, e \in outputs :
        /\ p.run = e.run /\ p.format = "pdf" /\ e.format = "epub"
        /\ p.quiet /\ e.quiet
        => p.mapTitle = e.mapTitle

\* An artifact of a build nobody edits under holds the pending corrections, and
\* its snapshot is empty unless they were applied, as applyCorrectionsIfAny's
\* comment says. Neither is so: its faults are logged and the build goes on.
PendingReachBuild == \A o \in outputs : o.quiet => ToSet(o.pairs) \in during[o.run]
SnapshotIsApplied == \A o \in outputs : o.snapshot = o.body

\* A stage's artifact is of one state of the ledger and says which, and print
\* and EPUB that read alike carry one title.
StagesSafe ==
    /\ StagesTypeOK
    /\ OneLedger
    /\ BodyIsRecorded
    /\ TitlesAgree
=============================================================================
