------------------------------ MODULE BookSpec ------------------------------
(***************************************************************************)
(* The book spec of each project and the rule by which a final transmittal *)
(* refreshes it (syncSpecFromTransmittal), composed with the transmittals. *)
(*                                                                         *)
(* Every handler here is a chain of single statements; a spec remembers    *)
(* the transmittal it was filled from and the studio's edits it includes.  *)
(* The chapter suggestions a detection adds (json_set, one key) and the    *)
(* fields a pull maps are not told apart.                                  *)
(***************************************************************************)
EXTENDS Transmittal

CONSTANTS
    Typeset, \* the projects whose spec is followed
    Syncs,   \* builds, inspections, template downloads, admin pulls
    Touches  \* requests that make sure a spec exists: the spec page and its PUT,
             \* a cover upload, the chapter detection after an upload

ASSUME BookSpecAssumption == Typeset # {} /\ Typeset \subseteq Projects

VARIABLES
    spec,     \* book_specs, by project
    sync,     \* where each sync is and what it has read
    touch,    \* where each touch is and what it has read
    coverSent \* history: the touch whose cover was last acknowledged, if any

specVars == <<spec, sync, touch, coverSent>>
bookSpecVars == <<transmittalVars, specVars>>

\* A spec: the rev of the transmittal it was filled from (0 is the defaults),
\* the edits it includes, who wrote it, when, and its cover.
NoSpec == [from |-> 0, edits |-> {}, by |-> "none", at |-> 0, cover |-> {}]
Spec == [from: 0..MaxRev, edits: SUBSET Touches,
         by: {"none", "defaults", "studio", "pull", "straddled"}, at: 0..MaxTime, cover: SUBSET Touches]
HasSpec(p) == spec[p] # NoSpec

IdleSync == [pc |-> "idle", project |-> CHOOSE p \in Typeset : TRUE, final |-> FALSE, txAt |-> 0,
             seen |-> 0, late |-> FALSE, from |-> 0, readAt |-> 0, base |-> {}, answer |-> NoSpec]
IdleTouch == [pc |-> "idle", kind |-> "page", project |-> CHOOSE p \in Typeset : TRUE, page |-> NoSpec]

BookSpecTypeOK ==
    /\ spec \in [Typeset -> Spec]
    /\ sync \in [Syncs -> [pc: {"idle", "spec", "create", "pull", "base", "write", "done"},
                           project: Typeset, final: BOOLEAN, txAt: 0..MaxTime, seen: 0..MaxRev,
                           late: BOOLEAN, from: 0..MaxRev, readAt: 0..MaxTime,
                           base: SUBSET Touches, answer: Spec]]
    /\ touch \in [Touches -> [pc: {"idle", "create", "ready", "done"}, kind: {"page", "cover", "chapters"},
                              project: Typeset, page: Spec]]
    /\ coverSent \in [Typeset -> SUBSET Touches]
    /\ \A t \in Touches : touch[t].pc = "ready" => HasSpec(touch[t].project)

BookSpecInit ==
    /\ TransmittalInit
    /\ spec = [p \in Typeset |-> NoSpec]
    /\ sync = [y \in Syncs |-> IdleSync]
    /\ touch = [t \in Touches |-> IdleTouch]
    /\ coverSent = [p \in Typeset |-> {}]

\* UpsertBookSpec: the cover columns of a row that exists stay.
Upserted(p, from, edits, by) ==
    [spec EXCEPT ![p] = [from |-> from, edits |-> edits, by |-> by, at |-> now, cover |-> @.cover]]

\* The spec JSON a sync answers with.
Answered(y, a) == [IdleSync EXCEPT !.pc = "done", !.project = sync[y].project,
                                   !.final = sync[y].final, !.txAt = sync[y].txAt,
                                   !.seen = sync[y].seen, !.answer = a]

(***************************************************************************)
(* syncSpecFromTransmittal and pullTransmittalIntoSpec.                    *)
(***************************************************************************)
\* late: the studio's edit is already the newer of the two when the sync begins.
SyncReadsTransmittal(y, p, requireFinal) ==
    LET final == Has(p) /\ tx[p].status = "final" IN
    /\ sync[y].pc = "idle"
    /\ sync' = [sync EXCEPT ![y] =
                  IF requireFinal /\ ~ final THEN [IdleSync EXCEPT !.pc = "done"]
                  ELSE [IdleSync EXCEPT !.pc = "spec", !.project = p, !.final = final,
                            !.txAt = tx[p].at, !.seen = tx[p].rev,
                            !.late = spec[p].by = "studio" /\ spec[p].at > tx[p].at]]
    /\ UNCHANGED <<transmittalVars, spec, touch, coverSent>>

MayUseStored_Ties(y) ==
    LET p == sync[y].project IN HasSpec(p) /\ (~ sync[y].final \/ spec[p].at >= sync[y].txAt)

\* Strictly newer: timestamps are whole seconds, so ties pull again.
MayUseStored(y) ==
    LET p == sync[y].project IN HasSpec(p) /\ (~ sync[y].final \/ spec[p].at > sync[y].txAt)

SyncReadsSpec(y) ==
    /\ sync[y].pc = "spec"
    /\ sync' = [sync EXCEPT ![y] =
                  IF MayUseStored(y) THEN Answered(y, spec[@.project])
                  ELSE IF ~ HasSpec(@.project) /\ ~ @.final THEN [@ EXCEPT !.pc = "create"]
                  ELSE [@ EXCEPT !.pc = "pull"]]
    /\ UNCHANGED <<transmittalVars, spec, touch, coverSent>>

SyncCreates(y) ==
    /\ sync[y].pc = "create"
    /\ spec' = Upserted(sync[y].project, 0, {}, "defaults")
    /\ sync' = [sync EXCEPT ![y] = Answered(y, spec'[sync[y].project])]
    /\ UNCHANGED <<transmittalVars, touch, coverSent>>

\* The admin's button starts here; it is refused without a transmittal.
StartPull(y, p) ==
    /\ sync[y].pc = "idle"
    /\ sync' = [sync EXCEPT ![y] = [IdleSync EXCEPT !.pc = IF Has(p) THEN "pull" ELSE "done",
                                                    !.project = p]]
    /\ UNCHANGED <<transmittalVars, spec, touch, coverSent>>

PullReadsTransmittal(y) ==
    /\ sync[y].pc = "pull"
    /\ sync' = [sync EXCEPT ![y].pc = "base", ![y].from = tx[sync[y].project].rev, ![y].readAt = now]
    /\ UNCHANGED <<transmittalVars, spec, touch, coverSent>>

PullReadsSpec(y) ==
    /\ sync[y].pc = "base"
    /\ sync' = [sync EXCEPT ![y].pc = "write", ![y].base = spec[sync[y].project].edits]
    /\ UNCHANGED <<transmittalVars, spec, touch, coverSent>>

\* straddled: a second has gone by since the transmittal was read.
PullWrites(y) ==
    /\ sync[y].pc = "write"
    /\ spec' = Upserted(sync[y].project, sync[y].from, sync[y].base,
                        IF sync[y].readAt = now THEN "pull" ELSE "straddled")
    /\ sync' = [sync EXCEPT ![y] = Answered(y, spec'[sync[y].project])]
    /\ UNCHANGED <<transmittalVars, touch, coverSent>>

(***************************************************************************)
(* Those who create a spec on the way: handleGetBookSpec and the PUT of    *)
(* what the page then holds, handleUploadCover, storeChapterSuggestions.   *)
(***************************************************************************)
TouchReads(t, p, kind) ==
    /\ touch[t].pc = "idle"
    /\ touch' = [touch EXCEPT ![t] = [pc |-> IF HasSpec(p) THEN "ready" ELSE "create",
                                      kind |-> kind, project |-> p, page |-> spec[p]]]
    /\ UNCHANGED <<transmittalVars, spec, sync, coverSent>>

TouchCreates(t) ==
    /\ touch[t].pc = "create"
    /\ spec' = Upserted(touch[t].project, 0, {}, "defaults")
    /\ touch' = [touch EXCEPT ![t].pc = "ready", ![t].page = spec'[touch[t].project]]
    /\ UNCHANGED <<transmittalVars, sync, coverSent>>

Used(t) == [touch EXCEPT ![t] = [IdleTouch EXCEPT !.pc = "done"]]

\* handleUpdateBookSpec replaces the row by what the page was showing.
PutSpec(t) ==
    /\ touch[t].pc = "ready" /\ touch[t].kind = "page"
    /\ spec' = Upserted(touch[t].project, touch[t].page.from, touch[t].page.edits \cup {t}, "studio")
    /\ touch' = Used(t)
    /\ UNCHANGED <<transmittalVars, sync, coverSent>>

\* UpdateBookSpecCover updates no row when there is none, and leaves updated_at.
PutCover(t) ==
    LET p == touch[t].project IN
    /\ touch[t].pc = "ready" /\ touch[t].kind = "cover"
    /\ spec' = IF HasSpec(p) THEN [spec EXCEPT ![p].cover = {t}] ELSE spec
    /\ coverSent' = [coverSent EXCEPT ![p] = {t}]
    /\ touch' = Used(t)
    /\ UNCHANGED <<transmittalVars, sync>>

PutSuggestions(t) ==
    /\ touch[t].pc = "ready" /\ touch[t].kind = "chapters"
    /\ touch' = Used(t)
    /\ UNCHANGED <<transmittalVars, spec, sync, coverSent>>

DeleteCover(p) ==
    /\ coverSent[p] # {}
    /\ spec' = [spec EXCEPT ![p].cover = {}]
    /\ coverSent' = [coverSent EXCEPT ![p] = {}]
    /\ UNCHANGED <<transmittalVars, sync, touch>>

SyncStep(y) ==
    \/ \E p \in Typeset : StartPull(y, p) \/ \E b \in BOOLEAN : SyncReadsTransmittal(y, p, b)
    \/ SyncReadsSpec(y) \/ SyncCreates(y)
    \/ PullReadsTransmittal(y) \/ PullReadsSpec(y) \/ PullWrites(y)

TouchStep(t) ==
    \/ \E p \in Typeset, kind \in {"page", "cover", "chapters"} : TouchReads(t, p, kind)
    \/ TouchCreates(t) \/ PutSpec(t) \/ PutCover(t) \/ PutSuggestions(t)

BookSpecNext ==
    \/ /\ UNCHANGED specVars
       /\ \/ Tick
          \/ \E p \in Typeset : TransmittalStep(p)
          \/ \E s \in Saves : RenameBook(s) \/ AbandonSave(s)
    \/ \E y \in Syncs : SyncStep(y)
    \/ \E t \in Touches : TouchStep(t)
    \/ \E p \in Typeset : DeleteCover(p)

BookSpecSpec == BookSpecInit /\ [][BookSpecNext]_bookSpecVars

-----------------------------------------------------------------------------
\* A build or a template that found a final transmittal is made from that text
\* or a later one, whoever wrote the row it is served, with one exception: a row
\* of a later second than the save of the final, that was created from defaults,
\* put by the studio, or filled by a pull that straddled a second, is served as
\* it stands (the timestamps say only that it is newer). No order of saves, syncs
\* and pulls serves an older text in any other way: neither a row of the second
\* of the save, nor one a pull filled within a second, nor what a sync pulled.
SyncIsCurrent ==
    \A y \in Syncs :
        sync[y].pc = "done" /\ sync[y].final /\ sync[y].answer.from < sync[y].seen
            => /\ sync[y].answer.by \in {"defaults", "studio", "straddled"}
               /\ sync[y].answer.at > sync[y].txAt

\* "the studio's later edits win": a sync that begins when the studio's edit is
\* the newer of the two never pulls over it, whatever is saved meanwhile.
LateEditsWin ==
    \A y \in Syncs : sync[y].late => sync[y].pc \notin {"pull", "base", "write"}

\* The cover the spec holds is the last one acknowledged: pulls, edits, defaults
\* created at the same moment and suggestions leave it alone.
CoverKept == \A p \in Typeset : spec[p].cover = coverSent[p]

\* "a suggestion written at upload time must not make the build skip re-pulling
\* the custom styles the author declared minutes earlier" (chapter_detect.go):
\* a sync that found a final transmittal answers with that text, or a later
\* one, unless the studio has edited the spec or a pull straddled a second.
FinalReachesSpec ==
    \A y \in Syncs :
        sync[y].pc = "done" /\ sync[y].final /\ sync[y].answer.by \in {"pull", "defaults"}
            => sync[y].answer.from >= sync[y].seen

\* A build or a template is made from a text older than the final it found only
\* where a later defaults row, studio edit or straddled pull hides the final,
\* never from a pull over the studio's later edits, and the cover last
\* acknowledged stays (bookspecs.go).
SpecSafe ==
    /\ BookSpecTypeOK
    /\ SyncIsCurrent
    /\ LateEditsWin
    /\ CoverKept
=============================================================================
