---------------------------- MODULE Transmittal ----------------------------
(***************************************************************************)
(* The transmittals of some projects and their version histories.          *)
(*                                                                         *)
(* A transmittal is known by the write that made it (rev) and by the write *)
(* that first made its contents (text): restoring a version is a new write *)
(* of an old text. Of its contents the model keeps what may not leave the  *)
(* book: its identity (of) and the rights attestation.                     *)
(***************************************************************************)
EXTENDS Naturals, Sequences, FiniteSets

CONSTANTS
    Projects,    \* project ids
    PassHeld,    \* the projects with a live pass: they are named after the book
    Saves,       \* slots for PUT /api/transmittals/{id} requests in flight
    Forms,       \* what a PUT may carry: pairs of a status and an attestation
    Window,      \* the five minutes of maybeSnapshotVersion, in ticks
    MaxVersions, \* maxTransmittalVersions
    MaxRev,      \* bound on writes
    MaxTime      \* bound on the clock

ASSUME TransmittalAssumption ==
    /\ Projects # {} /\ PassHeld \subseteq Projects
    /\ Forms \subseteq {"", "draft", "final"} \X BOOLEAN
    /\ Window \in Nat \ {0} /\ MaxVersions \in Nat \ {0}
    /\ MaxRev \in Nat /\ MaxTime \in Nat

VARIABLES
    now,      \* CURRENT_TIMESTAMP: whole ticks
    rev,      \* writes so far
    tx,       \* transmittals, by project
    log,      \* history: every row ever inserted into transmittal_versions, by id
    kept,     \* transmittal_versions: the ids that have not been pruned
    save,     \* where each PUT is
    name,     \* projects.name: 0 as given, or the text whose title it shows
    strayed   \* history: projects whose name was last decided by racing PUTs,
              \* or whose text was changed by something else than a PUT

transmittalVars == <<now, rev, tx, log, kept, save, name, strayed>>

NoTransmittal == [rev |-> 0, text |-> 0, of |-> {}, attested |-> FALSE, status |-> "none", at |-> 0]
Text == [rev: 0..MaxRev, text: 0..MaxRev, of: SUBSET Projects, attested: BOOLEAN,
         status: {"none", "draft", "final"}, at: 0..MaxTime]
Has(p) == tx[p] # NoTransmittal

FreeSlot == [pc |-> "idle", project |-> CHOOSE p \in Projects : TRUE, text |-> 0, alone |-> TRUE]

TransmittalTypeOK ==
    /\ now \in 0..MaxTime /\ rev \in 0..MaxRev
    /\ tx \in [Projects -> Text]
    /\ log \in Seq([project: Projects, row: Text, at: 0..MaxTime]) /\ kept \subseteq DOMAIN log
    /\ save \in [Saves -> [pc: {"idle", "committed"}, project: Projects, text: 0..MaxRev,
                           alone: BOOLEAN]]
    /\ name \in [Projects -> 0..MaxRev]
    /\ strayed \subseteq Projects

TransmittalInit ==
    /\ now = 0 /\ rev = 0 /\ log = <<>> /\ kept = {}
    /\ tx = [p \in Projects |-> NoTransmittal]
    /\ save = [s \in Saves |-> FreeSlot]
    /\ name = [p \in Projects |-> 0]
    /\ strayed = {}

Tick ==
    /\ now < MaxTime
    /\ now' = now + 1
    /\ UNCHANGED <<rev, tx, log, kept, save, name, strayed>>

\* One write of p's row.
Write(p, row) ==
    /\ rev < MaxRev
    /\ rev' = rev + 1
    /\ tx' = [tx EXCEPT ![p] = [row EXCEPT !.rev = rev + 1, !.at = now]]

(***************************************************************************)
(* Version history (insertTransmittalVersion, maybeSnapshotVersion).       *)
(***************************************************************************)
\* ORDER BY saved_at DESC, id DESC
Newer(rows, i, j) == rows[i].at > rows[j].at \/ (rows[i].at = rows[j].at /\ i > j)

Pruned(rows, ids, p) ==
    {i \in ids : \/ rows[i].project # p
                 \/ Cardinality({j \in ids : rows[j].project = p /\ Newer(rows, j, i)}) < MaxVersions}

Snapshot(p) ==
    /\ log' = Append(log, [project |-> p, row |-> tx[p], at |-> now])
    /\ kept' = Pruned(log', kept \cup {Len(log) + 1}, p)

RecentVersions_Any(p) == {i \in kept : log[i].at + Window > now}

RecentVersions(p) == {i \in kept : log[i].project = p /\ log[i].at + Window > now}

MaybeSnapshot(p) ==
    IF Has(p) /\ RecentVersions(p) = {} THEN Snapshot(p) ELSE UNCHANGED <<log, kept>>

(***************************************************************************)
(* The handlers.                                                           *)
(***************************************************************************)
\* handleGetTransmittal, and the redemption that prepares a project: a blank
\* draft where there is none.
OpenTransmittal(p) ==
    /\ ~ Has(p)
    /\ Write(p, [NoTransmittal EXCEPT !.text = rev + 1, !.status = "draft"])
    /\ UNCHANGED <<now, log, kept, save, name, strayed>>

Stated(status) == IF status = "" THEN "draft" ELSE status

\* handleUpdateTransmittal: one transaction, then the project's name.
SaveTransmittal(s, p, status, attested) ==
    /\ save[s].pc = "idle"
    /\ MaybeSnapshot(p)
    /\ Write(p, [NoTransmittal EXCEPT !.text = rev + 1, !.of = {p}, !.attested = attested,
                                      !.status = Stated(status)])
    /\ LET others == {x \in Saves : save[x].pc = "committed" /\ save[x].project = p} IN
         /\ save' = [x \in Saves |->
                       IF x = s THEN [pc |-> "committed", project |-> p, text |-> rev + 1,
                                      alone |-> others = {}]
                       ELSE IF x \in others THEN [save[x] EXCEPT !.alone = FALSE] ELSE save[x]]
    /\ UNCHANGED <<now, name, strayed>>

RenameBook(s) ==
    LET p == save[s].project IN
    /\ save[s].pc = "committed"
    /\ name' = IF p \in PassHeld THEN [name EXCEPT ![p] = save[s].text] ELSE name
    /\ strayed' = IF save[s].alone /\ tx[p].text = save[s].text
                  THEN strayed \ {p} ELSE strayed \cup {p}
    /\ save' = [save EXCEPT ![s] = FreeSlot]
    /\ UNCHANGED <<now, rev, tx, log, kept>>

\* The request's context ends after the commit: the name is not written.
AbandonSave(s) ==
    /\ save[s].pc = "committed"
    /\ save' = [save EXCEPT ![s] = FreeSlot]
    /\ strayed' = strayed \cup {save[s].project}
    /\ UNCHANGED <<now, rev, tx, log, kept, name>>

\* handleRestoreTransmittalVersion always keeps what it replaces.
RestoreVersion(p, i) ==
    /\ i \in kept /\ log[i].project = p
    /\ Snapshot(p)
    /\ Write(p, log[i].row)
    /\ strayed' = strayed \cup {p}
    /\ UNCHANGED <<now, save, name>>

BlankCopy_Attested(row) == [row EXCEPT !.text = rev + 1, !.of = {}, !.status = "draft"]

\* A copy keeps the house's choices and loses the book's: title, ISBNs, dates,
\* checklists and the attestation.
BlankCopy(row) ==
    [row EXCEPT !.text = rev + 1, !.of = {}, !.attested = FALSE, !.status = "draft"]

DuplicateTransmittal(p, q) ==
    /\ Has(p) /\ ~ Has(q)
    /\ Write(q, BlankCopy(tx[p]))
    /\ UNCHANGED <<now, log, kept, save, name, strayed>>

TransmittalStep(p) ==
    \/ OpenTransmittal(p)
    \/ \E s \in Saves, form \in Forms : SaveTransmittal(s, p, form[1], form[2])
    \/ \E i \in kept : RestoreVersion(p, i)

TransmittalNext ==
    \/ Tick
    \/ \E p \in Projects : TransmittalStep(p) \/ \E q \in Projects : DuplicateTransmittal(p, q)
    \/ \E s \in Saves : RenameBook(s) \/ AbandonSave(s)

TransmittalSpec == TransmittalInit /\ [][TransmittalNext]_transmittalVars

-----------------------------------------------------------------------------
InHistory(rows, ids, p, row) == \E i \in ids : rows[i].project = p /\ rows[i].row = row

\* The throttle drops auto-save noise only: a text that stood for the whole
\* window is in the history after the PUT that overwrites it, however many
\* saves and restores of this and other books came before.
LongStandingKept ==
    [][\A p \in Projects :
         Has(p) /\ tx'[p].rev # tx[p].rev /\ tx[p].at + Window <= now
            => InHistory(log', kept', p, tx[p])]_transmittalVars

\* A restore can be undone: what it replaces is in the history, even when a
\* version was saved a moment ago and the history is full.
RestoreUndoable ==
    [][\A p \in Projects :
         tx'[p].rev # tx[p].rev /\ tx'[p].text # tx'[p].rev
            => InHistory(log', kept', p, tx[p])]_transmittalVars

\* The history of a book is its newest versions, as many as the cap allows:
\* neither another book's saves nor a restore's own prune take one too many.
HistoryIsNewest ==
    \A p \in Projects :
        LET mine == {i \in DOMAIN log : log[i].project = p} IN
        {i \in kept : log[i].project = p} =
            {i \in mine : Cardinality({j \in mine : j > i}) < MaxVersions}

\* The identity of a book and its attestation never reach another book, by a
\* copy, a copy of a copy, or a version restored later.
AttestationOwn ==
    \A p \in Projects :
        /\ tx[p].of \subseteq {p} /\ (tx[p].attested => tx[p].of = {p})
        /\ \A i \in kept : log[i].project = p => log[i].row.of \subseteq {p}

\* The project of a pass is named after the title in the transmittal, once PUTs
\* that did not overlap have finished and nothing else wrote the text since.
\* (A restore, and two PUTs crossing, leave another name; see the README.)
NameFollowsTitle ==
    \A p \in PassHeld \ strayed :
        tx[p].of = {p} /\ (\A s \in Saves : save[s].pc # "committed") => name[p] = tx[p].text

\* The rows of a book stay its own: the history is its newest versions, the
\* identity and the attestation in them are of this book, and its project is
\* named after the title in it (transmittal.go).
TransmittalSafe ==
    /\ TransmittalTypeOK
    /\ HistoryIsNewest
    /\ AttestationOwn
    /\ NameFollowsTitle

\* Nothing the author worked on is overwritten beyond recall: a text that stood
\* for the window, and a text a restore replaces, are in the history afterwards.
HistoryKeeps == LongStandingKept /\ RestoreUndoable
=============================================================================
