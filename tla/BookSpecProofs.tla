--------------------------- MODULE BookSpecProofs ---------------------------
(***************************************************************************)
(* What TLAPS proves of BookSpec, for any number of projects, syncs and    *)
(* touches: the transmittals keep their own promises under it, and what a  *)
(* build is made from is older than the final it found only where a later  *)
(* defaults row, studio edit or straddled pull hides that final.           *)
(***************************************************************************)
EXTENDS BookSpec, TransmittalProofs

-----------------------------------------------------------------------------
(* The strengthening, by pairs of rows: a spec row r, a transmittal t, a   *)
(* sync s.                                                                 *)

SyncRow == [pc: {"idle", "spec", "create", "pull", "base", "write", "done"},
            project: Typeset, final: BOOLEAN, txAt: 0..MaxTime, seen: 0..MaxRev,
            late: BOOLEAN, from: 0..MaxRev, readAt: 0..MaxTime,
            base: SUBSET Touches, answer: Spec]

TouchRow == [pc: {"idle", "create", "ready", "done"}, kind: {"page", "cover", "chapters"},
             project: Typeset, page: Spec]

\* A pull filled the spec in one second: a text of an earlier second is not newer.
Fresh(r, t) == r.by = "pull" /\ t.at < r.at => r.from >= t.rev

\* What a sync has read of the transmittal, before it looks at the spec.
SeenOK(s, r, t) ==
    s.pc = "spec" =>
        /\ s.seen <= t.rev
        /\ s.late => r # NoSpec /\ r.at > s.txAt
        /\ r.by = "pull" /\ s.txAt < r.at => r.from >= s.seen

\* What a pull has read of the transmittal, before it writes the spec.
PullOK(s, t) ==
    /\ s.pc = "pull" => s.seen <= t.rev
    /\ s.pc \in {"base", "write"} => s.from >= s.seen /\ (t.at < s.readAt => s.from >= t.rev)

\* A sync and a pull of the same project agree on which text is newer.
CrossOK(s, z) ==
    s.pc = "spec" /\ z.pc \in {"base", "write"} /\ z.project = s.project /\ s.txAt < z.readAt
        => z.from >= s.seen

\* What a sync has answered, that a final is never answered with new defaults,
\* and whether it pulls over a later edit.
AnswerOK(s) ==
    /\ s.pc = "done" /\ s.final /\ s.answer.from < s.seen
          => s.answer.by \in {"defaults", "studio", "straddled"} /\ s.answer.at > s.txAt
    /\ s.pc = "create" => ~ s.final
    /\ s.late => s.pc \notin {"pull", "base", "write"}

\* A spec that exists says who wrote it, and nothing is of the future.
TimesOK ==
    /\ \A p \in Typeset : spec[p].at <= now /\ (HasSpec(p) => spec[p].by # "none")
    /\ \A y \in Syncs : sync[y].pc \in {"base", "write"} => sync[y].readAt <= now

SyncsOK ==
    /\ \A p \in Typeset : Fresh(spec[p], tx[p])
    /\ \A y \in Syncs : LET p == sync[y].project IN
          AnswerOK(sync[y]) /\ SeenOK(sync[y], spec[p], tx[p]) /\ PullOK(sync[y], tx[p])
    /\ \A y, z \in Syncs : CrossOK(sync[y], sync[z])

\* The conjunct of BookSpecTypeOK that is no type: who is ready has a spec.
ReadyHasSpec == \A t \in Touches : touch[t].pc = "ready" => HasSpec(touch[t].project)

SpecInv ==
    /\ spec \in [Typeset -> Spec] /\ sync \in [Syncs -> SyncRow]
    /\ touch \in [Touches -> TouchRow] /\ coverSent \in [Typeset -> SUBSET Touches]
    /\ ReadyHasSpec /\ CoverKept /\ TimesOK /\ SyncsOK

BookSpecInv == TransmittalInv /\ SpecInv

-----------------------------------------------------------------------------
(* The composition: the transmittals do not notice the specs.              *)

LEMMA SpecBounds ==
    /\ MaxRev \in Nat /\ MaxTime \in Nat
    /\ Typeset \subseteq Projects /\ (CHOOSE p \in Typeset : TRUE) \in Typeset
  BY Bounds, BookSpecAssumption

\* Every step of the composed desk is one of the transmittals, or leaves them.
LEMMA BookSpecRefines == [BookSpecNext]_bookSpecVars => [TransmittalNext]_transmittalVars
<1> SUFFICES ASSUME [BookSpecNext]_bookSpecVars PROVE [TransmittalNext]_transmittalVars
  OBVIOUS
<1>1. ASSUME NEW p \in Typeset, TransmittalStep(p) PROVE TransmittalNext
  <2>1. p \in Projects
    BY SpecBounds
  <2> QED
    BY <1>1, <2>1 DEF TransmittalNext
<1>2. ASSUME NEW s \in Saves, RenameBook(s) \/ AbandonSave(s) PROVE TransmittalNext
  BY <1>2 DEF TransmittalNext
<1>3. CASE Tick
  BY <1>3 DEF TransmittalNext
<1>4. ASSUME NEW y \in Syncs, SyncStep(y) PROVE UNCHANGED transmittalVars
  BY <1>4
  DEF SyncStep, StartPull, SyncReadsTransmittal, SyncReadsSpec, SyncCreates,
      PullReadsTransmittal, PullReadsSpec, PullWrites
<1>5. ASSUME NEW t \in Touches, TouchStep(t) PROVE UNCHANGED transmittalVars
  BY <1>5 DEF TouchStep, TouchReads, TouchCreates, PutSpec, PutCover, PutSuggestions
<1>6. ASSUME NEW p \in Typeset, DeleteCover(p) PROVE UNCHANGED transmittalVars
  BY <1>6 DEF DeleteCover
<1>7. CASE UNCHANGED bookSpecVars
  BY <1>7 DEF bookSpecVars
<1> QED
  BY <1>1, <1>2, <1>3, <1>4, <1>5, <1>6, <1>7 DEF BookSpecNext

-----------------------------------------------------------------------------
(* Rows.                                                                   *)

LEMMA TypesSplit ==
  BookSpecTypeOK <=> /\ spec \in [Typeset -> Spec]
                     /\ sync \in [Syncs -> SyncRow]
                     /\ touch \in [Touches -> TouchRow]
                     /\ coverSent \in [Typeset -> SUBSET Touches]
                     /\ ReadyHasSpec
  BY DEF BookSpecTypeOK, SyncRow, TouchRow, ReadyHasSpec

LEMMA IdleRows ==
    /\ NoSpec \in Spec /\ NoSpec.by = "none" /\ NoSpec.cover = {} /\ NoSpec.at = 0
    /\ IdleSync \in SyncRow /\ IdleSync.pc = "idle" /\ ~ IdleSync.final /\ ~ IdleSync.late
    /\ IdleSync.seen = 0 /\ IdleSync.from = 0
    /\ IdleTouch \in TouchRow /\ IdleTouch.pc = "idle"
<1>1. NoSpec \in Spec /\ NoSpec.by = "none" /\ NoSpec.cover = {} /\ NoSpec.at = 0
  BY SpecBounds DEF NoSpec, Spec
<1>2. /\ IdleSync \in SyncRow /\ IdleSync.pc = "idle" /\ ~ IdleSync.final /\ ~ IdleSync.late
      /\ IdleSync.seen = 0 /\ IdleSync.from = 0
  BY <1>1, SpecBounds DEF IdleSync, SyncRow
<1>3. IdleTouch \in TouchRow /\ IdleTouch.pc = "idle"
  BY <1>1, SpecBounds DEF IdleTouch, TouchRow
<1> QED
  BY <1>1, <1>2, <1>3

\* What the invariant says of the rows themselves.
LEMMA SpecTypes ==
  ASSUME BookSpecInv
  PROVE  /\ spec \in [Typeset -> Spec] /\ sync \in [Syncs -> SyncRow]
         /\ touch \in [Touches -> TouchRow] /\ coverSent \in [Typeset -> SUBSET Touches]
         /\ ReadyHasSpec /\ CoverKept /\ TimesOK /\ SyncsOK
         /\ tx \in [Projects -> Text] /\ now \in 0..MaxTime /\ now \in Nat /\ rev \in Nat
         /\ \A p \in Typeset : /\ p \in Projects /\ tx[p].rev \in Nat /\ tx[p].at \in Nat
                               /\ tx[p].rev \in 0..MaxRev /\ tx[p].at \in 0..MaxTime
                               /\ tx[p].rev <= rev /\ tx[p].at <= now
                               /\ spec[p].at \in Nat /\ spec[p].from \in Nat
         /\ \A y \in Syncs : /\ sync[y].project \in Typeset
                             /\ sync[y].seen \in Nat /\ sync[y].from \in Nat
                             /\ sync[y].txAt \in Nat /\ sync[y].readAt \in Nat
<1>1. /\ spec \in [Typeset -> Spec] /\ sync \in [Syncs -> SyncRow]
      /\ touch \in [Touches -> TouchRow] /\ coverSent \in [Typeset -> SUBSET Touches]
      /\ ReadyHasSpec /\ CoverKept /\ TimesOK /\ SyncsOK
  BY DEF BookSpecInv, SpecInv
<1>2. tx \in [Projects -> Text] /\ now \in 0..MaxTime /\ rev \in 0..MaxRev /\ RowsPast
  BY DEF BookSpecInv, TransmittalInv, TransmittalSafe, TransmittalTypeOK
<1>3. now \in Nat /\ rev \in Nat
  BY <1>2, SpecBounds
<1>4. ASSUME NEW p \in Typeset
      PROVE  /\ p \in Projects /\ tx[p].rev \in Nat /\ tx[p].at \in Nat
             /\ tx[p].rev \in 0..MaxRev /\ tx[p].at \in 0..MaxTime
             /\ tx[p].rev <= rev /\ tx[p].at <= now
             /\ spec[p].at \in Nat /\ spec[p].from \in Nat
  <2>1. p \in Projects
    BY SpecBounds
  <2>2. tx[p] \in Text /\ spec[p] \in Spec
    BY <1>1, <1>2, <2>1
  <2>3. tx[p].rev <= rev /\ tx[p].at <= now
    BY <1>2, <2>1 DEF RowsPast
  <2> QED
    BY <2>1, <2>2, <2>3, SpecBounds DEF Text, Spec
<1>5. ASSUME NEW y \in Syncs
      PROVE  /\ sync[y].project \in Typeset
             /\ sync[y].seen \in Nat /\ sync[y].from \in Nat
             /\ sync[y].txAt \in Nat /\ sync[y].readAt \in Nat
  BY <1>1, SpecBounds DEF SyncRow
<1> QED
  BY <1>1, <1>2, <1>3, <1>4, <1>5

\* AnswerOK says what the two properties of a sync do.
LEMMA AnswersAre ==
  (\A y \in Syncs : AnswerOK(sync[y])) => (SyncIsCurrent /\ LateEditsWin)
  BY DEF AnswerOK, SyncIsCurrent, LateEditsWin

\* The inductive invariant says what SpecSafe does.
LEMMA SpecInvIs ==
  ASSUME SpecInv
  PROVE  SpecSafe
<1>1. BookSpecTypeOK
  BY TypesSplit DEF SpecInv
<1>2. SyncIsCurrent /\ LateEditsWin
  BY AnswersAre DEF SpecInv, SyncsOK
<1> QED
  BY <1>1, <1>2 DEF SpecInv, SpecSafe

-----------------------------------------------------------------------------
(* The three kinds of step.                                                *)

\* A step of the transmittals: a text is written, or time passes.
LEMMA TextMoves ==
  ASSUME BookSpecInv, [TransmittalNext]_transmittalVars, UNCHANGED specVars
  PROVE  SpecInv'
<1> USE SpecTypes
<1>1. /\ now' \in Nat /\ now <= now'
      /\ \A p \in Typeset : \/ tx'[p] = tx[p]
                            \/ tx'[p].rev = rev + 1 /\ tx'[p].at = now
  <2>1. CASE RowsStay
    BY <2>1 DEF RowsStay
  <2>2. ASSUME NEW q \in Projects, NEW row \in Text, RowStep(q, row)
        PROVE  /\ now' \in Nat /\ now <= now'
               /\ \A p \in Typeset : \/ tx'[p] = tx[p]
                                     \/ tx'[p].rev = rev + 1 /\ tx'[p].at = now
    <3>1. /\ tx' = [tx EXCEPT ![q] = [row EXCEPT !.rev = rev + 1, !.at = now]] /\ now' = now
      BY <2>2 DEF RowStep, Write
    <3>2. /\ [row EXCEPT !.rev = rev + 1, !.at = now].rev = rev + 1
          /\ [row EXCEPT !.rev = rev + 1, !.at = now].at = now
      BY DEF Text
    <3> QED
      BY <3>1, <3>2
  <2> QED
    BY <2>1, <2>2, RowsStep DEF BookSpecInv, TransmittalInv, TransmittalSafe
<1>2. \A p \in Typeset : /\ tx'[p].rev \in Nat /\ tx[p].rev <= tx'[p].rev
                         /\ \/ tx'[p] = tx[p]
                            \/ tx'[p].at = now
  BY <1>1
<1>3. /\ spec' = spec /\ sync' = sync /\ touch' = touch /\ coverSent' = coverSent
  BY DEF specVars
<1>4. TimesOK'
  BY <1>1, <1>3 DEF TimesOK, HasSpec
<1>5. ASSUME NEW p \in Typeset PROVE Fresh(spec[p], tx'[p])
  BY <1>2 DEF Fresh, SyncsOK, TimesOK
<1>6. ASSUME NEW y \in Syncs
      PROVE  LET p == sync[y].project IN
               AnswerOK(sync[y]) /\ SeenOK(sync[y], spec[p], tx'[p]) /\ PullOK(sync[y], tx'[p])
  <2> DEFINE p == sync[y].project
  <2>1. AnswerOK(sync[y]) /\ SeenOK(sync[y], spec[p], tx[p]) /\ PullOK(sync[y], tx[p])
    BY DEF SyncsOK
  <2>2. /\ p \in Typeset /\ tx[p].rev \in Nat /\ tx'[p].rev \in Nat /\ tx[p].rev <= tx'[p].rev
        /\ tx'[p] = tx[p] \/ tx'[p].at = now
        /\ sync[y].seen \in Nat /\ sync[y].readAt \in Nat /\ now \in Nat
        /\ sync[y].pc \in {"base", "write"} => sync[y].readAt <= now
    BY <1>2 DEF TimesOK
  <2>3. SeenOK(sync[y], spec[p], tx'[p])
    BY <2>1, <2>2 DEF SeenOK
  <2>4. PullOK(sync[y], tx'[p])
    BY <2>1, <2>2 DEF PullOK
  <2> QED
    BY <2>1, <2>3, <2>4
<1>7. SyncsOK'
  BY <1>3, <1>5, <1>6 DEF SyncsOK
<1>8. ReadyHasSpec' /\ CoverKept'
  BY <1>3 DEF ReadyHasSpec, CoverKept, HasSpec
<1> QED
  BY <1>3, <1>4, <1>7, <1>8 DEF SpecInv

\* A sync moves on and writes nothing.
LEMMA SyncMoves ==
  ASSUME BookSpecInv, NEW y \in Syncs, NEW s \in SyncRow,
         sync' = [sync EXCEPT ![y] = s],
         UNCHANGED <<transmittalVars, spec, touch, coverSent>>,
         AnswerOK(s), SeenOK(s, spec[s.project], tx[s.project]), PullOK(s, tx[s.project]),
         s.pc \in {"base", "write"} => s.readAt <= now,
         \A z \in Syncs : CrossOK(s, sync[z]) /\ CrossOK(sync[z], s)
  PROVE  SpecInv'
<1> USE SpecTypes
<1>1. UNCHANGED <<tx, now, spec, touch, coverSent>>
  BY DEF transmittalVars
<1>2. sync' \in [Syncs -> SyncRow] /\ sync'[y] = s /\ \A z \in Syncs : z # y => sync'[z] = sync[z]
  OBVIOUS
<1>3. TimesOK'
  BY <1>1, <1>2 DEF TimesOK, HasSpec
<1>4. CrossOK(s, s)
  BY DEF CrossOK
<1>5. SyncsOK'
  <2>1. \A p \in Typeset : Fresh(spec'[p], tx'[p])
    BY <1>1 DEF SyncsOK
  <2>2. ASSUME NEW z \in Syncs
        PROVE  LET p == sync'[z].project IN
                 AnswerOK(sync'[z]) /\ SeenOK(sync'[z], spec'[p], tx'[p]) /\ PullOK(sync'[z], tx'[p])
    <3>1. CASE z = y
      BY <1>1, <1>2, <3>1
    <3>2. CASE z # y
      BY <1>1, <1>2, <3>2 DEF SyncsOK
    <3> QED
      BY <3>1, <3>2
  <2>3. ASSUME NEW z \in Syncs, NEW x \in Syncs PROVE CrossOK(sync'[z], sync'[x])
    BY <1>2, <1>4 DEF SyncsOK
  <2> QED
    BY <2>1, <2>2, <2>3 DEF SyncsOK
<1>6. ReadyHasSpec' /\ CoverKept'
  BY <1>1 DEF ReadyHasSpec, CoverKept, HasSpec
<1> QED
  BY <1>1, <1>2, <1>3, <1>5, <1>6 DEF SpecInv

\* A spec is written: what that leaves true of the specs and of those who read
\* the transmittal before it.
SpecsOK ==
    /\ spec' \in [Typeset -> Spec]
    /\ \A p \in Typeset : /\ Fresh(spec'[p], tx[p])
                          /\ spec'[p].at <= now /\ (HasSpec(p)' => spec'[p].by # "none")
                          /\ HasSpec(p) => HasSpec(p)'
    /\ \A y \in Syncs : LET p == sync[y].project IN SeenOK(sync[y], spec'[p], tx[p])

LEMMA SpecFilled ==
  ASSUME BookSpecInv, NEW p \in Typeset, NEW f \in 0..MaxRev, NEW e \in SUBSET Touches,
         NEW by \in {"defaults", "studio", "pull", "straddled"},
         spec' = Upserted(p, f, e, by),
         by = "pull" => /\ tx[p].at < now => f >= tx[p].rev
                        /\ \A y \in Syncs : sync[y].pc = "spec" /\ sync[y].project = p
                                            /\ sync[y].txAt < now => f >= sync[y].seen
  PROVE  /\ SpecsOK
         /\ \A q \in Typeset : spec'[q].cover = spec[q].cover
         /\ spec'[p].by = by /\ spec'[p].from = f /\ HasSpec(p)'
<1> USE SpecTypes
<1> DEFINE r == [from |-> f, edits |-> e, by |-> by, at |-> now, cover |-> spec[p].cover]
<1>1. spec' = [spec EXCEPT ![p] = r]
  BY DEF Upserted
<1>2. r \in Spec /\ r.by = by /\ r.from = f /\ r.at = now /\ r.cover = spec[p].cover
  BY DEF Spec
<1>3. /\ spec' \in [Typeset -> Spec] /\ spec'[p] = r
      /\ \A q \in Typeset : q # p => spec'[q] = spec[q]
  BY <1>1, <1>2
<1>4. r # NoSpec
  BY <1>2, IdleRows
<1>5. ASSUME NEW q \in Typeset
      PROVE  /\ Fresh(spec'[q], tx[q]) /\ spec'[q].cover = spec[q].cover
             /\ spec'[q].at <= now /\ (HasSpec(q)' => spec'[q].by # "none")
             /\ HasSpec(q) => HasSpec(q)'
  <2>1. CASE q = p
    <3>1. Fresh(r, tx[p])
      BY <1>2 DEF Fresh
    <3> QED
      BY <1>2, <1>3, <1>4, <2>1, <3>1 DEF HasSpec
  <2>2. CASE q # p
    BY <1>3, <2>2 DEF SyncsOK, TimesOK, HasSpec
  <2> QED
    BY <2>1, <2>2
<1>6. ASSUME NEW y \in Syncs
      PROVE  SeenOK(sync[y], spec'[sync[y].project], tx[sync[y].project])
  <2>1. SeenOK(sync[y], spec[sync[y].project], tx[sync[y].project])
    BY DEF SyncsOK
  <2>2. CASE sync[y].project # p
    BY <1>3, <2>1, <2>2
  <2>3. CASE sync[y].project = p
    <3>1. spec[p].at <= now /\ sync[y].txAt \in Nat
      BY DEF TimesOK
    <3>2. sync[y].pc = "spec" /\ by = "pull" /\ sync[y].txAt < now => f >= sync[y].seen
      BY <2>3
    <3>3. SeenOK(sync[y], r, tx[p])
      BY <1>2, <1>4, <2>1, <2>3, <3>1, <3>2 DEF SeenOK
    <3> QED
      BY <1>3, <2>3, <3>3
  <2> QED
    BY <2>2, <2>3
<1>7. SpecsOK
  BY <1>3, <1>5, <1>6 DEF SpecsOK
<1> QED
  BY <1>2, <1>3, <1>4, <1>5, <1>7 DEF HasSpec

\* A spec is covered or uncovered: nothing else of it changes.
LEMMA SpecCovered ==
  ASSUME BookSpecInv, NEW p \in Typeset, HasSpec(p), NEW c \in SUBSET Touches,
         spec' = [spec EXCEPT ![p].cover = c]
  PROVE  /\ SpecsOK
         /\ spec'[p].cover = c /\ \A q \in Typeset : q # p => spec'[q] = spec[q]
<1> USE SpecTypes
<1> DEFINE r == [spec[p] EXCEPT !.cover = c]
<1>1. /\ r \in Spec /\ r.by = spec[p].by /\ r.from = spec[p].from /\ r.at = spec[p].at
      /\ r.cover = c
  BY DEF Spec
<1>2. /\ spec' \in [Typeset -> Spec] /\ spec'[p] = r
      /\ \A q \in Typeset : q # p => spec'[q] = spec[q]
  BY <1>1
<1>3. r # NoSpec
  BY <1>1, IdleRows DEF TimesOK
<1>4. ASSUME NEW q \in Typeset
      PROVE  /\ Fresh(spec'[q], tx[q])
             /\ spec'[q].at <= now /\ (HasSpec(q)' => spec'[q].by # "none")
             /\ HasSpec(q) => HasSpec(q)'
  <2>1. CASE q = p
    <3>1. Fresh(spec[p], tx[p]) /\ spec[p].at <= now /\ spec[p].by # "none"
      BY DEF SyncsOK, TimesOK
    <3>2. Fresh(r, tx[p])
      BY <1>1, <3>1 DEF Fresh
    <3> QED
      BY <1>1, <1>2, <1>3, <2>1, <3>1, <3>2 DEF HasSpec
  <2>2. CASE q # p
    BY <1>2, <2>2 DEF SyncsOK, TimesOK, HasSpec
  <2> QED
    BY <2>1, <2>2
<1>5. ASSUME NEW y \in Syncs
      PROVE  SeenOK(sync[y], spec'[sync[y].project], tx[sync[y].project])
  <2>1. SeenOK(sync[y], spec[sync[y].project], tx[sync[y].project])
    BY DEF SyncsOK
  <2>2. CASE sync[y].project # p
    BY <1>2, <2>1, <2>2
  <2>3. CASE sync[y].project = p
    <3>1. SeenOK(sync[y], r, tx[p])
      BY <1>1, <1>3, <2>1, <2>3 DEF SeenOK
    <3> QED
      BY <1>2, <2>3, <3>1
  <2> QED
    BY <2>2, <2>3
<1> QED
  BY <1>1, <1>2, <1>4, <1>5 DEF SpecsOK

\* A touch writes the spec and moves on, with the cover it acknowledges.
LEMMA TouchMoves ==
  ASSUME BookSpecInv, SpecsOK, CoverKept', ReadyHasSpec',
         UNCHANGED <<transmittalVars, sync>>,
         touch' \in [Touches -> TouchRow], coverSent' \in [Typeset -> SUBSET Touches]
  PROVE  SpecInv'
<1> USE SpecTypes
<1>1. UNCHANGED <<tx, now, sync>>
  BY DEF transmittalVars
<1>2. TimesOK'
  BY <1>1 DEF TimesOK, SpecsOK
<1>3. SyncsOK'
  BY <1>1 DEF SyncsOK, SpecsOK
<1> QED
  BY <1>1, <1>2, <1>3 DEF SpecInv, SpecsOK

\* A sync writes the spec and answers with it.
LEMMA SyncWrites ==
  ASSUME BookSpecInv, NEW y \in Syncs, NEW s \in SyncRow,
         SpecsOK, \A q \in Typeset : spec'[q].cover = spec[q].cover,
         sync' = [sync EXCEPT ![y] = s], s.pc = "done", AnswerOK(s),
         UNCHANGED <<transmittalVars, touch, coverSent>>
  PROVE  SpecInv'
<1> USE SpecTypes
<1>1. UNCHANGED <<tx, now, touch, coverSent>>
  BY DEF transmittalVars
<1>2. sync' \in [Syncs -> SyncRow] /\ sync'[y] = s /\ \A z \in Syncs : z # y => sync'[z] = sync[z]
  OBVIOUS
<1>3. TimesOK'
  BY <1>1, <1>2 DEF TimesOK, SpecsOK
<1>4. SyncsOK'
  <2>1. \A p \in Typeset : Fresh(spec'[p], tx'[p])
    BY <1>1 DEF SpecsOK
  <2>2. ASSUME NEW z \in Syncs
        PROVE  LET p == sync'[z].project IN
                 AnswerOK(sync'[z]) /\ SeenOK(sync'[z], spec'[p], tx'[p]) /\ PullOK(sync'[z], tx'[p])
    <3>1. CASE z = y
      <4>1. SeenOK(s, spec'[s.project], tx'[s.project]) /\ PullOK(s, tx'[s.project])
        BY DEF SeenOK, PullOK
      <4> QED
        BY <1>2, <3>1, <4>1
    <3>2. CASE z # y
      BY <1>1, <1>2, <3>2 DEF SyncsOK, SpecsOK
    <3> QED
      BY <3>1, <3>2
  <2>3. ASSUME NEW z \in Syncs, NEW x \in Syncs PROVE CrossOK(sync'[z], sync'[x])
    <3>1. CASE z = y \/ x = y
      BY <1>2, <3>1 DEF CrossOK
    <3>2. CASE z # y /\ x # y
      BY <1>2, <3>2 DEF SyncsOK
    <3> QED
      BY <3>1, <3>2
  <2> QED
    BY <2>1, <2>2, <2>3 DEF SyncsOK
<1>5. ReadyHasSpec' /\ CoverKept'
  <2>1. \A t \in Touches : touch[t].project \in Typeset
    BY DEF TouchRow
  <2> QED
    BY <1>1, <2>1 DEF ReadyHasSpec, CoverKept, SpecsOK
<1> QED
  BY <1>1, <1>2, <1>3, <1>4, <1>5 DEF SpecInv, SpecsOK

-----------------------------------------------------------------------------
(* The steps.                                                              *)

LEMMA BookSpecInvInit == BookSpecInit => BookSpecInv
<1> SUFFICES ASSUME BookSpecInit PROVE BookSpecInv
  OBVIOUS
<1>1. TransmittalInv
  BY TransmittalInvInit DEF BookSpecInit
<1>2. /\ spec \in [Typeset -> Spec] /\ sync \in [Syncs -> SyncRow]
      /\ touch \in [Touches -> TouchRow] /\ coverSent \in [Typeset -> SUBSET Touches]
  BY IdleRows DEF BookSpecInit
<1>3. ReadyHasSpec /\ CoverKept
  BY IdleRows DEF BookSpecInit, ReadyHasSpec, CoverKept
<1>4. now = 0
  BY DEF BookSpecInit, TransmittalInit
<1>5. TimesOK
  BY <1>4, IdleRows DEF BookSpecInit, TimesOK, HasSpec
<1>6. SyncsOK
  BY IdleRows DEF BookSpecInit, SyncsOK, Fresh, AnswerOK, SeenOK, PullOK, CrossOK
<1> QED
  BY <1>1, <1>2, <1>3, <1>5, <1>6 DEF SpecInv, BookSpecInv

\* The answer of a sync carries what it has seen, and no longer an edit.
LEMMA AnsweredIs ==
  ASSUME BookSpecInv, NEW y \in Syncs, NEW a \in Spec,
         sync[y].final /\ a.from < sync[y].seen
            => a.by \in {"defaults", "studio", "straddled"} /\ a.at > sync[y].txAt
  PROVE  /\ Answered(y, a) \in SyncRow /\ Answered(y, a).pc = "done"
         /\ AnswerOK(Answered(y, a))
<1>1. sync[y] \in SyncRow
  BY SpecTypes
<1> DEFINE s == Answered(y, a)
<1>2. /\ s \in SyncRow /\ s.pc = "done" /\ s.final = sync[y].final /\ s.seen = sync[y].seen
      /\ s.txAt = sync[y].txAt /\ s.answer = a /\ ~ s.late
  BY <1>1, IdleRows DEF Answered, SyncRow
<1> QED
  BY <1>2 DEF AnswerOK

\* Each step of a sync keeps the invariant.
LEMMA SyncStepKeeps ==
  ASSUME BookSpecInv, NEW y \in Syncs, SyncStep(y)
  PROVE  SpecInv'
<1> USE SpecTypes
<1>0. /\ sync[y] \in SyncRow
      /\ AnswerOK(sync[y])
      /\ SeenOK(sync[y], spec[sync[y].project], tx[sync[y].project])
      /\ PullOK(sync[y], tx[sync[y].project])
  BY DEF SyncsOK
<1> DEFINE p == sync[y].project
<1>1. ASSUME NEW q \in Typeset, NEW b \in BOOLEAN, SyncReadsTransmittal(y, q, b)
      PROVE  SpecInv'
  <2> DEFINE final == Has(q) /\ tx[q].status = "final"
             late == spec[q].by = "studio" /\ spec[q].at > tx[q].at
             s == IF b /\ ~ final THEN [IdleSync EXCEPT !.pc = "done"]
                  ELSE [IdleSync EXCEPT !.pc = "spec", !.project = q, !.final = final,
                            !.txAt = tx[q].at, !.seen = tx[q].rev, !.late = late]
  <2>1. /\ sync' = [sync EXCEPT ![y] = s]
        /\ UNCHANGED <<transmittalVars, spec, touch, coverSent>>
    BY <1>1 DEF SyncReadsTransmittal
  <2>2. CASE b /\ ~ final
    <3>1. s \in SyncRow /\ s.pc = "done" /\ ~ s.final /\ ~ s.late
      BY <2>2, IdleRows DEF SyncRow
    <3>2. AnswerOK(s) /\ SeenOK(s, spec[s.project], tx[s.project]) /\ PullOK(s, tx[s.project])
      BY <3>1 DEF AnswerOK, SeenOK, PullOK
    <3>3. \A z \in Syncs : CrossOK(s, sync[z]) /\ CrossOK(sync[z], s)
      BY <3>1 DEF CrossOK
    <3> HIDE DEF s
    <3> QED
      BY <2>1, <3>1, <3>2, <3>3, SyncMoves
  <2>3. CASE ~ (b /\ ~ final)
    <3>0. final \in BOOLEAN /\ late \in BOOLEAN
      OBVIOUS
    <3> HIDE DEF final, late
    <3>1. /\ s \in SyncRow /\ s.pc = "spec" /\ s.project = q /\ s.txAt = tx[q].at
          /\ s.seen = tx[q].rev /\ s.late = late
      BY <2>3, <3>0, IdleRows DEF SyncRow
    <3> HIDE DEF s
    <3>2. late => spec[q] # NoSpec /\ spec[q].at > tx[q].at
      BY IdleRows DEF late
    <3>3. AnswerOK(s) /\ PullOK(s, tx[s.project])
      BY <3>1 DEF AnswerOK, PullOK
    <3>4. SeenOK(s, spec[s.project], tx[s.project])
      <4>1. Fresh(spec[q], tx[q])
        BY DEF SyncsOK
      <4> QED
        BY <3>1, <3>2, <4>1 DEF SeenOK, Fresh
    <3>5. ASSUME NEW z \in Syncs PROVE CrossOK(s, sync[z]) /\ CrossOK(sync[z], s)
      <4>1. PullOK(sync[z], tx[sync[z].project])
        BY DEF SyncsOK
      <4> QED
        BY <3>1, <4>1 DEF CrossOK, PullOK
    <3> QED
      BY <2>1, <3>1, <3>3, <3>4, <3>5, SyncMoves
  <2> QED
    BY <2>2, <2>3
<1>2. CASE SyncReadsSpec(y)
  <2>0. sync[y].pc = "spec" /\ UNCHANGED <<transmittalVars, spec, touch, coverSent>>
    BY <1>2 DEF SyncReadsSpec
  <2>1. CASE MayUseStored(y)
    <3>1. sync' = [sync EXCEPT ![y] = Answered(y, spec[p])]
      BY <1>2, <2>1 DEF SyncReadsSpec
    <3>2. sync[y].final => spec[p].at > sync[y].txAt
      BY <2>1 DEF MayUseStored
    <3>2a. spec[p].by \in {"defaults", "studio", "pull", "straddled"}
      <4>1. HasSpec(p) /\ spec[p] \in Spec
        BY <2>1 DEF MayUseStored
      <4> QED
        BY <4>1 DEF TimesOK, Spec
    <3>2b. sync[y].final /\ spec[p].by = "pull" => spec[p].from >= sync[y].seen
      BY <1>0, <2>0, <3>2 DEF SeenOK
    <3>3. sync[y].final /\ spec[p].from < sync[y].seen
             => /\ spec[p].by \in {"defaults", "studio", "straddled"}
                /\ spec[p].at > sync[y].txAt
      BY <3>2, <3>2a, <3>2b
    <3> DEFINE s == Answered(y, spec[p])
    <3>4. s \in SyncRow /\ s.pc = "done" /\ AnswerOK(s)
      BY <3>3, AnsweredIs
    <3> HIDE DEF s
    <3>5. /\ SeenOK(s, spec[s.project], tx[s.project]) /\ PullOK(s, tx[s.project])
          /\ \A z \in Syncs : CrossOK(s, sync[z]) /\ CrossOK(sync[z], s)
      BY <3>4 DEF SeenOK, PullOK, CrossOK
    <3> QED
      BY <2>0, <3>1, <3>4, <3>5, SyncMoves DEF s
  <2>2. ASSUME NEW pc \in {"create", "pull"}, sync' = [sync EXCEPT ![y] = [sync[y] EXCEPT !.pc = pc]],
               pc = "pull" => ~ sync[y].late, pc = "create" => ~ sync[y].final
        PROVE  SpecInv'
    <3> DEFINE s == [sync[y] EXCEPT !.pc = pc]
    <3>1. /\ s \in SyncRow /\ s.pc = pc /\ s.project = p /\ s.seen = sync[y].seen
          /\ s.late = sync[y].late /\ s.final = sync[y].final
      BY <1>0 DEF SyncRow
    <3> HIDE DEF s
    <3>2. sync[y].seen <= tx[p].rev
      BY <1>0, <2>0 DEF SeenOK
    <3>3. AnswerOK(s) /\ SeenOK(s, spec[s.project], tx[s.project]) /\ PullOK(s, tx[s.project])
      BY <2>2, <3>1, <3>2 DEF AnswerOK, SeenOK, PullOK
    <3>4. \A z \in Syncs : CrossOK(s, sync[z]) /\ CrossOK(sync[z], s)
      BY <3>1 DEF CrossOK
    <3>5. sync' = [sync EXCEPT ![y] = s]
      BY <2>2 DEF s
    <3> QED
      BY <2>0, <3>1, <3>3, <3>4, <3>5, SyncMoves
  <2>3. CASE ~ MayUseStored(y)
    <3>1. \/ /\ ~ HasSpec(p) /\ ~ sync[y].final
             /\ sync' = [sync EXCEPT ![y] = [sync[y] EXCEPT !.pc = "create"]]
          \/ sync' = [sync EXCEPT ![y] = [sync[y] EXCEPT !.pc = "pull"]]
      BY <1>2, <2>3 DEF SyncReadsSpec
    <3>2. ~ sync[y].late
      BY <1>0, <2>0, <2>3 DEF MayUseStored, SeenOK, HasSpec
    <3> QED
      BY <2>2, <3>1, <3>2
  <2> QED
    BY <2>1, <2>3
<1>3. CASE SyncCreates(y)
  <2>1. /\ spec' = Upserted(p, 0, {}, "defaults")
        /\ sync' = [sync EXCEPT ![y] = Answered(y, spec'[p])]
        /\ UNCHANGED <<transmittalVars, touch, coverSent>>
    BY <1>3 DEF SyncCreates
  <2>2. 0 \in 0..MaxRev /\ {} \in SUBSET Touches /\ p \in Typeset
    BY SpecBounds
  <2>3. /\ SpecsOK /\ \A q \in Typeset : spec'[q].cover = spec[q].cover
        /\ spec'[p].by = "defaults"
    BY <2>1, <2>2, SpecFilled
  <2>4. spec'[p] \in Spec
    BY <2>2, <2>3 DEF SpecsOK
  <2> DEFINE s == Answered(y, spec'[p])
  <2>5. s \in SyncRow /\ s.pc = "done" /\ AnswerOK(s)
    <3>1. ~ sync[y].final
      BY <1>0, <1>3 DEF AnswerOK, SyncCreates
    <3> QED
      BY <2>4, <3>1, AnsweredIs
  <2> HIDE DEF s
  <2>6. sync' = [sync EXCEPT ![y] = s]
    BY <2>1 DEF s
  <2> QED
    BY <2>1, <2>3, <2>5, <2>6, SyncWrites
<1>4. ASSUME NEW q \in Typeset, StartPull(y, q)
      PROVE  SpecInv'
  <2> DEFINE pc == IF Has(q) THEN "pull" ELSE "done"
             s == [IdleSync EXCEPT !.pc = pc, !.project = q]
  <2>1. /\ sync' = [sync EXCEPT ![y] = s]
        /\ UNCHANGED <<transmittalVars, spec, touch, coverSent>>
    BY <1>4 DEF StartPull
  <2>2. pc \in {"pull", "done"}
    OBVIOUS
  <2> HIDE DEF pc
  <2>3. /\ s \in SyncRow /\ s.pc = pc /\ ~ s.final /\ ~ s.late /\ s.seen = 0 /\ s.project = q
    BY <2>2, IdleRows DEF SyncRow
  <2> HIDE DEF s
  <2>4. AnswerOK(s) /\ SeenOK(s, spec[s.project], tx[s.project]) /\ PullOK(s, tx[s.project])
    BY <2>2, <2>3 DEF AnswerOK, SeenOK, PullOK
  <2>5. \A z \in Syncs : CrossOK(s, sync[z]) /\ CrossOK(sync[z], s)
    BY <2>2, <2>3 DEF CrossOK
  <2> QED
    BY <2>1, <2>2, <2>3, <2>4, <2>5, SyncMoves
<1>5. CASE PullReadsTransmittal(y)
  <2> DEFINE s == [sync[y] EXCEPT !.pc = "base", !.from = tx[p].rev, !.readAt = now]
  <2>1. /\ sync[y].pc = "pull"
        /\ sync' = [sync EXCEPT ![y] = s]
        /\ UNCHANGED <<transmittalVars, spec, touch, coverSent>>
    BY <1>5 DEF PullReadsTransmittal
  <2>2. /\ s \in SyncRow /\ s.pc = "base" /\ s.from = tx[p].rev /\ s.readAt = now
        /\ s.project = p /\ s.seen = sync[y].seen /\ s.late = sync[y].late
    BY <1>0 DEF SyncRow
  <2> HIDE DEF s
  <2>3. ~ sync[y].late /\ sync[y].seen <= tx[p].rev
    BY <1>0, <2>1 DEF AnswerOK, PullOK
  <2>4. AnswerOK(s) /\ SeenOK(s, spec[s.project], tx[s.project]) /\ PullOK(s, tx[s.project])
    BY <2>2, <2>3 DEF AnswerOK, SeenOK, PullOK
  <2>5. ASSUME NEW z \in Syncs PROVE CrossOK(s, sync[z]) /\ CrossOK(sync[z], s)
    <3>1. SeenOK(sync[z], spec[sync[z].project], tx[sync[z].project])
      BY DEF SyncsOK
    <3> QED
      BY <2>2, <3>1 DEF CrossOK, SeenOK
  <2>6. s.readAt <= now
    BY <2>2
  <2> QED
    BY <2>1, <2>2, <2>4, <2>5, <2>6, SyncMoves
<1>6. CASE PullReadsSpec(y)
  <2> DEFINE s == [sync[y] EXCEPT !.pc = "write", !.base = spec[p].edits]
  <2>1. /\ sync[y].pc = "base"
        /\ sync' = [sync EXCEPT ![y] = s]
        /\ UNCHANGED <<transmittalVars, spec, touch, coverSent>>
    BY <1>6 DEF PullReadsSpec
  <2>2. spec[p].edits \in SUBSET Touches
    BY DEF Spec
  <2>3. /\ s \in SyncRow /\ s.pc = "write" /\ s.from = sync[y].from /\ s.readAt = sync[y].readAt
        /\ s.project = p /\ s.seen = sync[y].seen /\ s.late = sync[y].late
    BY <1>0, <2>2 DEF SyncRow
  <2> HIDE DEF s
  <2>4. AnswerOK(s) /\ SeenOK(s, spec[s.project], tx[s.project]) /\ PullOK(s, tx[s.project])
    BY <1>0, <2>1, <2>3 DEF AnswerOK, SeenOK, PullOK
  <2>5. ASSUME NEW z \in Syncs PROVE CrossOK(s, sync[z]) /\ CrossOK(sync[z], s)
    <3>1. CrossOK(sync[z], sync[y])
      BY DEF SyncsOK
    <3> QED
      BY <2>1, <2>3, <3>1 DEF CrossOK
  <2>6. s.readAt <= now
    BY <2>1, <2>3 DEF TimesOK
  <2> QED
    BY <2>1, <2>3, <2>4, <2>5, <2>6, SyncMoves
<1>7. CASE PullWrites(y)
  <2> DEFINE by == IF sync[y].readAt = now THEN "pull" ELSE "straddled"
  <2>1. /\ sync[y].pc = "write"
        /\ spec' = Upserted(p, sync[y].from, sync[y].base, by)
        /\ sync' = [sync EXCEPT ![y] = Answered(y, spec'[p])]
        /\ UNCHANGED <<transmittalVars, touch, coverSent>>
    BY <1>7 DEF PullWrites
  <2>2. /\ sync[y].from \in 0..MaxRev /\ sync[y].base \in SUBSET Touches /\ p \in Typeset
        /\ by \in {"defaults", "studio", "pull", "straddled"}
    BY <1>0 DEF SyncRow
  <2>3. sync[y].from >= sync[y].seen /\ (tx[p].at < sync[y].readAt => sync[y].from >= tx[p].rev)
    BY <1>0, <2>1 DEF PullOK
  <2>4. ASSUME NEW z \in Syncs, sync[z].pc = "spec", sync[z].project = p,
               sync[z].txAt < sync[y].readAt
        PROVE  sync[y].from >= sync[z].seen
    <3>1. CrossOK(sync[z], sync[y])
      BY DEF SyncsOK
    <3> QED
      BY <2>1, <2>4, <3>1 DEF CrossOK
  <2>5. by = "pull" => sync[y].readAt = now
    OBVIOUS
  <2> HIDE DEF by
  <2>6. by = "pull" => /\ tx[p].at < now => sync[y].from >= tx[p].rev
                       /\ \A z \in Syncs : sync[z].pc = "spec" /\ sync[z].project = p
                                           /\ sync[z].txAt < now => sync[y].from >= sync[z].seen
    BY <2>3, <2>4, <2>5
  <2>7. /\ SpecsOK /\ \A q \in Typeset : spec'[q].cover = spec[q].cover
        /\ spec'[p].from = sync[y].from
    BY <2>1, <2>2, <2>6, SpecFilled
  <2>8. spec'[p] \in Spec
    BY <2>2, <2>7 DEF SpecsOK
  <2> DEFINE s == Answered(y, spec'[p])
  <2>9. s \in SyncRow /\ s.pc = "done" /\ AnswerOK(s)
    BY <2>3, <2>7, <2>8, AnsweredIs
  <2> HIDE DEF s
  <2>10. sync' = [sync EXCEPT ![y] = s]
    BY <2>1 DEF s
  <2> QED
    BY <2>1, <2>7, <2>9, <2>10, SyncWrites
<1> QED
  BY <1>1, <1>2, <1>3, <1>4, <1>5, <1>6, <1>7 DEF SyncStep

\* Who is not made ready by the step was ready before it, or is not.
LEMMA UsedIs ==
  ASSUME BookSpecInv, NEW t \in Touches, touch' = Used(t)
  PROVE  /\ touch' \in [Touches -> TouchRow]
         /\ \A u \in Touches : touch'[u].pc = "ready" => touch'[u] = touch[u]
<1>1. /\ [IdleTouch EXCEPT !.pc = "done"] \in TouchRow
      /\ [IdleTouch EXCEPT !.pc = "done"].pc = "done"
  BY IdleRows DEF TouchRow
<1> QED
  BY <1>1, SpecTypes DEF Used

\* Each step of a touch, and the removal of a cover, keeps the invariant.
LEMMA TouchStepKeeps ==
  ASSUME BookSpecInv,
         \/ \E t \in Touches : TouchStep(t)
         \/ \E p \in Typeset : DeleteCover(p)
  PROVE  SpecInv'
<1> USE SpecTypes
<1>0. /\ \A t \in Touches : touch[t] \in TouchRow /\ touch[t].project \in Typeset
                            /\ touch[t].page \in Spec
  BY DEF TouchRow
<1>1. SpecsOK \/ spec' # spec
  BY DEF SpecsOK, SyncsOK, TimesOK, HasSpec
<1>2. ASSUME NEW t \in Touches, NEW p \in Typeset, NEW kind \in {"page", "cover", "chapters"},
             TouchReads(t, p, kind)
      PROVE  SpecInv'
  <2> DEFINE pc == IF HasSpec(p) THEN "ready" ELSE "create"
             u == [pc |-> pc, kind |-> kind, project |-> p, page |-> spec[p]]
  <2>1. /\ touch' = [touch EXCEPT ![t] = u]
        /\ UNCHANGED <<transmittalVars, spec, sync, coverSent>>
    BY <1>2 DEF TouchReads
  <2>2. u \in TouchRow /\ (u.pc = "ready" => spec[u.project] # NoSpec)
    BY DEF TouchRow, HasSpec
  <2> HIDE DEF u
  <2>3. touch' \in [Touches -> TouchRow] /\ coverSent' \in [Typeset -> SUBSET Touches]
    BY <2>1, <2>2
  <2>4. CoverKept' /\ ReadyHasSpec'
    BY <2>1, <2>2 DEF CoverKept, ReadyHasSpec, HasSpec
  <2> QED
    BY <1>1, <2>1, <2>3, <2>4, TouchMoves
<1>3. ASSUME NEW t \in Touches, TouchCreates(t)
      PROVE  SpecInv'
  <2> DEFINE p == touch[t].project
             u == [touch[t] EXCEPT !.pc = "ready", !.page = spec'[p]]
  <2>1. /\ spec' = Upserted(p, 0, {}, "defaults") /\ touch' = [touch EXCEPT ![t] = u]
        /\ UNCHANGED <<transmittalVars, sync, coverSent>>
    BY <1>3 DEF TouchCreates
  <2>2. /\ SpecsOK /\ \A q \in Typeset : spec'[q].cover = spec[q].cover
        /\ spec'[p] # NoSpec
    <3>1. 0 \in 0..MaxRev /\ {} \in SUBSET Touches /\ p \in Typeset
      BY <1>0, SpecBounds
    <3>2. /\ SpecsOK /\ \A q \in Typeset : spec'[q].cover = spec[q].cover
          /\ spec'[p].by = "defaults"
      BY <2>1, <3>1, SpecFilled
    <3>3. spec'[p] # NoSpec
      BY <3>2, IdleRows
    <3> QED
      BY <3>2, <3>3
  <2>3. u \in TouchRow /\ u.project = p
    <3>1. spec'[p] \in Spec
      BY <1>0, <2>2 DEF SpecsOK
    <3> QED
      BY <1>0, <3>1 DEF TouchRow
  <2> HIDE DEF u
  <2>4. touch' \in [Touches -> TouchRow] /\ coverSent' \in [Typeset -> SUBSET Touches]
    BY <2>1, <2>3
  <2>5. CoverKept'
    BY <2>1, <2>2 DEF CoverKept
  <2>6. ReadyHasSpec'
    <3> SUFFICES ASSUME NEW v \in Touches, touch'[v].pc = "ready"
                 PROVE  spec'[touch'[v].project] # NoSpec
      BY DEF ReadyHasSpec, HasSpec
    <3>1. CASE v = t
      <4>1. touch'[v] = u
        BY <2>1, <3>1
      <4> QED
        BY <2>2, <2>3, <4>1
    <3>2. CASE v # t
      <4>1. touch'[v] = touch[v]
        BY <2>1, <3>2
      <4> QED
        BY <1>0, <2>2, <4>1 DEF ReadyHasSpec, SpecsOK, HasSpec
    <3> QED
      BY <3>1, <3>2
  <2> QED
    BY <2>1, <2>2, <2>4, <2>5, <2>6, TouchMoves
<1>4. ASSUME NEW t \in Touches, touch' = Used(t), SpecsOK PROVE ReadyHasSpec'
  <2>1. \A v \in Touches : touch'[v].pc = "ready" => touch'[v] = touch[v]
    BY <1>4, UsedIs
  <2> QED
    BY <1>0, <1>4, <2>1 DEF ReadyHasSpec, SpecsOK, HasSpec
<1>5. ASSUME NEW t \in Touches, PutSpec(t)
      PROVE  SpecInv'
  <2> DEFINE p == touch[t].project
  <2>1. /\ spec' = Upserted(p, touch[t].page.from, touch[t].page.edits \cup {t}, "studio")
        /\ touch' = Used(t) /\ UNCHANGED <<transmittalVars, sync, coverSent>>
    BY <1>5 DEF PutSpec
  <2>2. /\ touch[t].page.from \in 0..MaxRev /\ touch[t].page.edits \cup {t} \in SUBSET Touches
        /\ p \in Typeset
    BY <1>0 DEF Spec
  <2>3. SpecsOK /\ \A q \in Typeset : spec'[q].cover = spec[q].cover
    BY <2>1, <2>2, SpecFilled
  <2>4. touch' \in [Touches -> TouchRow] /\ coverSent' \in [Typeset -> SUBSET Touches]
    BY <2>1, UsedIs
  <2>5. CoverKept' /\ ReadyHasSpec'
    BY <1>4, <2>1, <2>3 DEF CoverKept
  <2> QED
    BY <2>1, <2>3, <2>4, <2>5, TouchMoves
<1>6. ASSUME NEW t \in Touches, PutCover(t)
      PROVE  SpecInv'
  <2> DEFINE p == touch[t].project
  <2>1. HasSpec(p) /\ p \in Typeset /\ {t} \in SUBSET Touches
    BY <1>0, <1>6 DEF PutCover, ReadyHasSpec
  <2>2. /\ spec' = [spec EXCEPT ![p].cover = {t}] /\ coverSent' = [coverSent EXCEPT ![p] = {t}]
        /\ touch' = Used(t) /\ UNCHANGED <<transmittalVars, sync>>
    BY <1>6, <2>1 DEF PutCover
  <2>3. SpecsOK /\ spec'[p].cover = {t} /\ \A q \in Typeset : q # p => spec'[q] = spec[q]
    BY <2>1, <2>2, SpecCovered
  <2>4. touch' \in [Touches -> TouchRow] /\ coverSent' \in [Typeset -> SUBSET Touches]
    BY <2>1, <2>2, UsedIs
  <2>5. CoverKept'
    BY <2>1, <2>2, <2>3 DEF CoverKept
  <2>6. ReadyHasSpec'
    BY <1>4, <2>2, <2>3
  <2> QED
    BY <2>2, <2>3, <2>4, <2>5, <2>6, TouchMoves
<1>7. ASSUME NEW t \in Touches, PutSuggestions(t)
      PROVE  SpecInv'
  <2>1. touch' = Used(t) /\ UNCHANGED <<transmittalVars, spec, sync, coverSent>>
    BY <1>7 DEF PutSuggestions
  <2>2. touch' \in [Touches -> TouchRow] /\ coverSent' \in [Typeset -> SUBSET Touches]
    BY <2>1, UsedIs
  <2>3. CoverKept' /\ ReadyHasSpec'
    BY <1>1, <1>4, <2>1 DEF CoverKept
  <2> QED
    BY <1>1, <2>1, <2>2, <2>3, TouchMoves
<1>8. ASSUME NEW p \in Typeset, DeleteCover(p)
      PROVE  SpecInv'
  <2>1. /\ spec' = [spec EXCEPT ![p].cover = {}] /\ coverSent' = [coverSent EXCEPT ![p] = {}]
        /\ coverSent[p] # {} /\ UNCHANGED <<transmittalVars, sync, touch>>
    BY <1>8 DEF DeleteCover
  <2>2. HasSpec(p) /\ {} \in SUBSET Touches
    BY <2>1, IdleRows DEF HasSpec, CoverKept
  <2>3. SpecsOK /\ spec'[p].cover = {} /\ \A q \in Typeset : q # p => spec'[q] = spec[q]
    BY <2>1, <2>2, SpecCovered
  <2>4. touch' \in [Touches -> TouchRow] /\ coverSent' \in [Typeset -> SUBSET Touches]
    BY <2>1
  <2>5. CoverKept'
    BY <2>1, <2>3 DEF CoverKept
  <2>6. ReadyHasSpec'
    BY <1>0, <2>1, <2>3 DEF ReadyHasSpec, SpecsOK, HasSpec
  <2> QED
    BY <2>1, <2>3, <2>4, <2>5, <2>6, TouchMoves
<1> QED
  BY <1>2, <1>3, <1>5, <1>6, <1>7, <1>8 DEF TouchStep

LEMMA BookSpecInvStep == BookSpecInv /\ [BookSpecNext]_bookSpecVars => BookSpecInv'
<1> SUFFICES ASSUME BookSpecInv, [BookSpecNext]_bookSpecVars PROVE BookSpecInv'
  OBVIOUS
<1>1. [TransmittalNext]_transmittalVars
  BY BookSpecRefines
<1>2. TransmittalInv'
  BY <1>1, TransmittalInvStep DEF BookSpecInv
<1>3. SpecInv'
  <2>1. CASE UNCHANGED specVars
    BY <1>1, <2>1, TextMoves
  <2>2. CASE \E y \in Syncs : SyncStep(y)
    BY <2>2, SyncStepKeeps
  <2>3. CASE (\E t \in Touches : TouchStep(t)) \/ \E p \in Typeset : DeleteCover(p)
    BY <2>3, TouchStepKeeps
  <2>4. CASE UNCHANGED bookSpecVars
    BY <1>1, <2>4, TextMoves DEF bookSpecVars
  <2> QED
    BY <2>1, <2>2, <2>3, <2>4 DEF BookSpecNext
<1> QED
  BY <1>2, <1>3 DEF BookSpecInv

\* The composed desk implements the transmittals' own specification: syncs,
\* pulls and covers never touch a transmittal, its history or a name, so what
\* is proved of TransmittalSpec holds while specs are filled from it.
THEOREM SpecsImplementTransmittals == BookSpecSpec => TransmittalSpec
<1>1. BookSpecInit => TransmittalInit
  BY DEF BookSpecInit
<1> QED
  BY <1>1, BookSpecRefines, PTL DEF BookSpecSpec, TransmittalSpec

\* However saves, pulls, syncs, page edits and covers interleave: a build is
\* made from a text older than the final it found only when the row it is served
\* was written in a later second, from defaults, by the studio or by a pull that
\* straddled a second; it never pulls over the studio's later edit, and the spec
\* holds the cover last acknowledged (srv/bookspecs.go).
THEOREM BookSpecIsSafe == BookSpecSpec => []SpecSafe
<1>1. BookSpecInv => SpecSafe
  BY SpecInvIs DEF BookSpecInv
<1> QED
  BY <1>1, BookSpecInvInit, BookSpecInvStep, PTL DEF BookSpecSpec
=============================================================================
