-------------------------- MODULE TransmittalProofs --------------------------
(***************************************************************************)
(* What TLAPS proves of Transmittal, for any number of projects and PUTs,  *)
(* and for every window, cap and bound.                                    *)
(***************************************************************************)
EXTENDS Transmittal, FiniteSetTheorems, SequenceTheorems, TLAPS

-----------------------------------------------------------------------------
(* What TransmittalSafe needs to be inductive.                             *)

\* Versions were saved in the order of their ids, and none in the future.
LogOrdered ==
    \A i \in DOMAIN log : /\ log[i].at <= now
                          /\ \A j \in DOMAIN log : i < j => log[i].at <= log[j].at

\* A transmittal was written by a write that happened, no earlier than the
\* last version of it was saved.
RowsPast ==
    /\ \A p \in Projects : tx[p].rev <= rev /\ tx[p].at <= now
    /\ \A i \in DOMAIN log : log[i].at <= tx[log[i].project].at

Own(p, row) == row.of \subseteq {p} /\ (row.attested => row.of = {p})

\* What a book shows, and what any version of it shows, is its own.
RowsOwn ==
    /\ \A p \in Projects : Own(p, tx[p])
    /\ \A i \in DOMAIN log : Own(log[i].project, log[i].row)

\* The name shows the title, or a PUT that will write it is under way.
NamedOrPending ==
    \A p \in PassHeld \ strayed :
        tx[p].of = {p} => \/ name[p] = tx[p].text
                          \/ \E s \in Saves : save[s].pc = "committed" /\ save[s].project = p

TransmittalInv ==
    /\ TransmittalSafe
    /\ LogOrdered
    /\ RowsPast
    /\ RowsOwn
    /\ NamedOrPending

LEMMA Bounds ==
    /\ Window \in Nat \ {0} /\ MaxVersions \in Nat \ {0}
    /\ MaxRev \in Nat /\ MaxTime \in Nat /\ Projects # {}
  BY TransmittalAssumption, Zenon

-----------------------------------------------------------------------------
(* The newest of a set of ids.                                             *)

NewestIds(S, m) == {i \in S : Cardinality({j \in S : j > i}) < m}

\* Adding a newer id to the newest m of a finite set, and taking the newest m
\* again, gives the newest m of the larger set: pruning may forget what it has
\* pruned before.
LEMMA NewestIdsGrown ==
  ASSUME NEW S \in SUBSET Nat, IsFiniteSet(S), NEW m \in Nat \ {0},
         NEW n \in Nat, \A i \in S : i < n
  PROVE  NewestIds(NewestIds(S, m) \cup {n}, m) = NewestIds(S \cup {n}, m)
<1> DEFINE K == NewestIds(S, m)
           L == K \cup {n}
           T == S \cup {n}
<1>0. K \subseteq S /\ IsFiniteSet(T) /\ \A i \in T : i \in Nat
  BY FS_AddElement DEF NewestIds
<1>1. ASSUME NEW i \in T
      PROVE  /\ IsFiniteSet({j \in T : j > i}) /\ IsFiniteSet({j \in S : j > i})
             /\ Cardinality({j \in S : j > i}) \in Nat
             /\ Cardinality({j \in T : j > i}) \in Nat
             /\ Cardinality({j \in S : j > i}) <= Cardinality({j \in T : j > i})
  <2>1. {j \in T : j > i} \in SUBSET T /\ {j \in S : j > i} \in SUBSET {j \in T : j > i}
    OBVIOUS
  <2> QED
    BY <1>0, <2>1, FS_Subset, FS_CardinalityType
<1>2. ASSUME NEW i \in K, NEW j \in S, j > i
      PROVE  j \in K
  <2>1. {k \in S : k > j} \in SUBSET {k \in S : k > i}
    <3>1. i \in Nat /\ j \in Nat /\ \A k \in S : k \in Nat
      BY <1>0
    <3>2. \A k \in S : k > j => k > i
      BY <1>2, <3>1
    <3> QED
      BY <3>2
  <2>2. Cardinality({k \in S : k > j}) <= Cardinality({k \in S : k > i})
    BY <1>0, <1>1, <2>1, FS_Subset
  <2>3. Cardinality({k \in S : k > i}) < m
    BY DEF NewestIds
  <2>4. Cardinality({k \in S : k > j}) \in Nat /\ Cardinality({k \in S : k > i}) \in Nat
    BY <1>0, <1>1
  <2>5. Cardinality({k \in S : k > j}) < m
    BY <2>2, <2>3, <2>4
  <2> QED
    BY <2>5 DEF NewestIds
<1>3. ASSUME NEW i \in L
      PROVE  {j \in L : j > i} = {j \in T : j > i}
  <2>1. \A j \in T : j > i => j \in L
    <3>1. CASE i = n
      BY <1>0, <3>1
    <3>2. CASE i \in K
      BY <1>2, <3>2
    <3> QED
      BY <1>3, <3>1, <3>2
  <2> QED
    BY <1>0, <2>1
<1>4. NewestIds(L, m) \subseteq NewestIds(T, m)
  <2> SUFFICES ASSUME NEW i \in NewestIds(L, m) PROVE i \in NewestIds(T, m)
    OBVIOUS
  <2>1. i \in L /\ Cardinality({j \in L : j > i}) < m
    BY DEF NewestIds
  <2>2. i \in T /\ Cardinality({j \in T : j > i}) < m
    BY <1>0, <1>3, <2>1
  <2> QED
    BY <2>2 DEF NewestIds
<1>5. NewestIds(T, m) \subseteq NewestIds(L, m)
  <2> SUFFICES ASSUME NEW i \in NewestIds(T, m) PROVE i \in NewestIds(L, m)
    OBVIOUS
  <2>1. i \in T /\ Cardinality({j \in T : j > i}) < m
    BY DEF NewestIds
  <2>2. i \in L
    <3>1. CASE i = n
      BY <3>1
    <3>2. CASE i \in S
      <4>1. Cardinality({j \in S : j > i}) < m
        BY <1>1, <2>1
      <4> QED
        BY <3>2, <4>1 DEF NewestIds
    <3> QED
      BY <2>1, <3>1, <3>2
  <2>3. Cardinality({j \in L : j > i}) < m
    BY <1>3, <2>1, <2>2
  <2> QED
    BY <2>2, <2>3 DEF NewestIds
<1> QED
  BY <1>4, <1>5

\* The newest of all is among the newest.
LEMMA NewestIdsTop ==
  ASSUME NEW S \in SUBSET Nat, NEW m \in Nat \ {0}, NEW n \in S, \A i \in S : i <= n
  PROVE  n \in NewestIds(S, m)
<1>1. {j \in S : j > n} = {}
  <2>1. \A i \in S : i \in Nat /\ ~ (i > n)
    OBVIOUS
  <2> QED
    BY <2>1
<1>2. Cardinality({j \in S : j > n}) = 0
  BY <1>1, FS_EmptySet
<1> QED
  BY <1>2 DEF NewestIds

-----------------------------------------------------------------------------
(* The history.                                                            *)

Version == [project: Projects, row: Text, at: 0..MaxTime]

\* A snapshot adds one row to the table, of what the transmittal was.
LEMMA SnapshotLog ==
  ASSUME TransmittalTypeOK, NEW p \in Projects, Snapshot(p)
  PROVE  /\ log' \in Seq(Version) /\ kept' \subseteq DOMAIN log'
         /\ Len(log) + 1 \in Nat /\ \A i \in DOMAIN log : i \in Nat /\ i < Len(log) + 1
         /\ DOMAIN log' = DOMAIN log \cup {Len(log) + 1}
         /\ \A i \in DOMAIN log : log'[i] = log[i]
         /\ log'[Len(log) + 1] = [project |-> p, row |-> tx[p], at |-> now]
<1> DEFINE v == [project |-> p, row |-> tx[p], at |-> now]
<1>1. log \in Seq(Version) /\ v \in Version
  BY DEF TransmittalTypeOK, Version
<1>2. log' = Append(log, v)
  BY DEF Snapshot
<1>3. /\ Len(log) \in Nat /\ DOMAIN log = 1..Len(log)
      /\ log' \in Seq(Version) /\ Len(log') = Len(log) + 1
      /\ \A i \in 1..Len(log) : log'[i] = log[i]
      /\ log'[Len(log) + 1] = v
  BY <1>1, <1>2, LenProperties, AppendProperties
<1>4. DOMAIN log' = 1..(Len(log) + 1)
  BY <1>3, LenProperties
<1>5. kept' \subseteq kept \cup {Len(log) + 1}
  BY DEF Snapshot, Pruned
<1>6. kept \subseteq DOMAIN log
  BY DEF TransmittalTypeOK
<1> QED
  BY <1>3, <1>4, <1>5, <1>6

Mine(rows, p) == {i \in DOMAIN rows : rows[i].project = p}
KeptOf(rows, ids, p) == {i \in ids : rows[i].project = p}

\* The prune of a snapshot leaves the newest versions of the book, the one just
\* saved among them, and every version of the other books.
LEMMA SnapshotKept ==
  ASSUME TransmittalTypeOK, LogOrdered, HistoryIsNewest, NEW p \in Projects, Snapshot(p)
  PROVE  HistoryIsNewest' /\ Len(log) + 1 \in kept'
<1> DEFINE n == Len(log) + 1
           S == Mine(log, p)
           K == KeptOf(log, kept, p)
           ids == kept \cup {n}
<1>1. /\ n \in Nat /\ \A i \in DOMAIN log : i \in Nat /\ i < n
      /\ DOMAIN log' = DOMAIN log \cup {n}
      /\ \A i \in DOMAIN log : log'[i] = log[i]
      /\ log'[n] = [project |-> p, row |-> tx[p], at |-> now]
  BY SnapshotLog
<1>2. /\ kept \subseteq DOMAIN log /\ now \in Nat /\ \A i \in DOMAIN log : log[i].at \in Nat
      /\ IsFiniteSet(DOMAIN log) /\ MaxVersions \in Nat \ {0}
  <2>1. log \in Seq(Version) /\ now \in 0..MaxTime /\ kept \subseteq DOMAIN log
    BY DEF TransmittalTypeOK, Version
  <2>2. DOMAIN log = 1..Len(log) /\ Len(log) \in Nat
    BY <2>1, LenProperties
  <2>3. \A i \in DOMAIN log : log[i] \in Version
    BY <2>1, <2>2, ElementOfSeq
  <2>4. IsFiniteSet(1..Len(log))
    BY <2>2, FS_Interval
  <2>5. \A i \in DOMAIN log : log[i].at \in Nat
    BY <2>3, Bounds DEF Version
  <2>6. now \in Nat
    BY <2>1, Bounds
  <2> QED
    BY <2>1, <2>2, <2>4, <2>5, <2>6, Bounds
<1>3. \A i, j \in DOMAIN log' : Newer(log', i, j) <=> i > j
  <2>1. \A i, j \in DOMAIN log' : i < j => log'[i].at <= log'[j].at
    BY <1>1, <1>2 DEF LogOrdered
  <2>2. \A i \in DOMAIN log' : i \in Nat /\ log'[i].at \in Nat
    BY <1>1, <1>2
  <2> QED
    BY <2>1, <2>2 DEF Newer
<1>4. K = NewestIds(S, MaxVersions)
  BY DEF HistoryIsNewest, NewestIds, KeptOf, Mine
<1>5. S \in SUBSET Nat /\ IsFiniteSet(S) /\ \A i \in S : i < n
  <2>1. S \in SUBSET DOMAIN log
    BY DEF Mine
  <2> QED
    BY <1>1, <1>2, <2>1, FS_Subset
<1>6. NewestIds(K \cup {n}, MaxVersions) = NewestIds(S \cup {n}, MaxVersions)
  BY <1>1, <1>2, <1>4, <1>5, NewestIdsGrown
<1>7. Mine(log', p) = S \cup {n} /\ \A q \in Projects : q # p => Mine(log', q) = Mine(log, q)
  BY <1>1 DEF Mine
<1>8. KeptOf(log', kept', p) = NewestIds(K \cup {n}, MaxVersions)
  <2>1. kept' = Pruned(log', ids, p)
    BY DEF Snapshot
  <2>2. KeptOf(log', ids, p) = K \cup {n}
    BY <1>1, <1>2 DEF KeptOf
  <2>3. ASSUME NEW i \in ids
        PROVE  {j \in ids : log'[j].project = p /\ Newer(log', j, i)} = {j \in K \cup {n} : j > i}
    BY <1>1, <1>2, <1>3, <2>2 DEF KeptOf
  <2>4. KeptOf(log', kept', p) =
          {i \in KeptOf(log', ids, p) : Cardinality({j \in K \cup {n} : j > i}) < MaxVersions}
    BY <2>1, <2>3 DEF KeptOf, Pruned
  <2> QED
    BY <2>2, <2>4 DEF NewestIds
<1>9. \A q \in Projects : q # p => KeptOf(log', kept', q) = KeptOf(log, kept, q)
  BY <1>1, <1>2 DEF KeptOf, Snapshot, Pruned
<1>10. HistoryIsNewest'
  <2>1. \A q \in Projects : KeptOf(log', kept', q) = NewestIds(Mine(log', q), MaxVersions)
    <3>1. \A q \in Projects : KeptOf(log, kept, q) = NewestIds(Mine(log, q), MaxVersions)
      BY DEF HistoryIsNewest, NewestIds, KeptOf, Mine
    <3> QED
      BY <1>6, <1>7, <1>8, <1>9, <3>1
  <2> QED
    BY <2>1 DEF HistoryIsNewest, NewestIds, KeptOf, Mine
<1>11. n \in kept'
  <2>1. S \cup {n} \in SUBSET Nat /\ \A i \in S \cup {n} : i <= n
    BY <1>1, <1>5
  <2>2. n \in NewestIds(S \cup {n}, MaxVersions)
    BY <1>2, <2>1, NewestIdsTop
  <2> QED
    BY <1>6, <1>8, <2>2 DEF KeptOf
<1> QED
  BY <1>10, <1>11

-----------------------------------------------------------------------------
(* What a step does to the rows: nothing, or one write of one book, before *)
(* which what it replaces may go into the history.                         *)

RowStep(p, row) ==
    /\ row \in Text /\ Own(p, row)
    /\ Write(p, row)
    /\ Snapshot(p) \/ UNCHANGED <<log, kept>>
    /\ UNCHANGED now

RowsStay == UNCHANGED <<rev, tx, log, kept>> /\ now' \in Nat /\ now <= now' /\ now' <= MaxTime

\* Every handler writes rows of the book's own, or none.
LEMMA RowsStep ==
  ASSUME TransmittalTypeOK, RowsOwn, [TransmittalNext]_transmittalVars
  PROVE  RowsStay \/ \E p \in Projects, row \in Text : RowStep(p, row)
<1>0. /\ now \in Nat /\ now <= MaxTime /\ rev \in Nat /\ NoTransmittal \in Text
      /\ NoTransmittal.of = {} /\ NoTransmittal.attested = FALSE
  BY Bounds DEF TransmittalTypeOK, NoTransmittal, Text
<1>1. ASSUME NEW p \in Projects, OpenTransmittal(p)
      PROVE  \E row \in Text : RowStep(p, row)
  <2> DEFINE row == [NoTransmittal EXCEPT !.text = rev + 1, !.status = "draft"]
  <2>1. Write(p, row) /\ UNCHANGED <<now, log, kept>>
    BY <1>1 DEF OpenTransmittal
  <2>2. rev + 1 \in 0..MaxRev
    BY <1>0, <2>1, Bounds DEF Write
  <2>3. row \in Text /\ row.of = {} /\ row.attested = FALSE
    BY <1>0, <2>2 DEF Text
  <2> QED
    BY <2>1, <2>3 DEF RowStep, Own
<1>2. ASSUME NEW p \in Projects, NEW s \in Saves, NEW form \in Forms,
             SaveTransmittal(s, p, form[1], form[2])
      PROVE  \E row \in Text : RowStep(p, row)
  <2> DEFINE row == [NoTransmittal EXCEPT !.text = rev + 1, !.of = {p}, !.attested = form[2],
                                          !.status = Stated(form[1])]
  <2>1. Write(p, row) /\ MaybeSnapshot(p) /\ UNCHANGED now
    BY <1>2 DEF SaveTransmittal
  <2>2. rev < MaxRev
    BY <2>1 DEF Write
  <2>3. form[1] \in {"", "draft", "final"} /\ form[2] \in BOOLEAN
    BY TransmittalAssumption
  <2>4. Stated(form[1]) \in {"none", "draft", "final"}
    BY <2>3 DEF Stated
  <2>5. rev + 1 \in 0..MaxRev
    BY <1>0, <2>2, Bounds
  <2>6. row \in Text /\ row.of = {p}
    BY <1>0, <2>3, <2>4, <2>5 DEF Text
  <2> QED
    BY <2>1, <2>6 DEF RowStep, MaybeSnapshot, Own
<1>3. ASSUME NEW p \in Projects, NEW i \in kept, RestoreVersion(p, i)
      PROVE  \E row \in Text : RowStep(p, row)
  <2>1. i \in DOMAIN log /\ log \in Seq(Version)
    BY DEF TransmittalTypeOK, Version
  <2>2. log[i] \in Version
    BY <2>1, LenProperties, ElementOfSeq
  <2>3. log[i].row \in Text
    BY <2>2 DEF Version
  <2>4. Own(p, log[i].row)
    BY <1>3, <2>1 DEF RestoreVersion, RowsOwn
  <2> QED
    BY <1>3, <2>3, <2>4 DEF RestoreVersion, RowStep
<1>4. ASSUME NEW p \in Projects, NEW q \in Projects, DuplicateTransmittal(p, q)
      PROVE  \E row \in Text : RowStep(q, row)
  <2>1. Write(q, BlankCopy(tx[p])) /\ UNCHANGED <<now, log, kept>>
    BY <1>4 DEF DuplicateTransmittal
  <2>2. rev + 1 \in 0..MaxRev /\ tx[p] \in Text
    BY <1>0, <2>1, Bounds DEF Write, TransmittalTypeOK
  <2>3. /\ BlankCopy(tx[p]) \in Text
        /\ BlankCopy(tx[p]).of = {} /\ BlankCopy(tx[p]).attested = FALSE
    BY <2>2 DEF BlankCopy, Text
  <2> QED
    BY <2>1, <2>3 DEF RowStep, Own
<1>5. ASSUME NEW s \in Saves, RenameBook(s) \/ AbandonSave(s) PROVE RowsStay
  BY <1>0, <1>5 DEF RenameBook, AbandonSave, RowsStay
<1>6. CASE Tick
  BY <1>0, <1>6, Bounds DEF Tick, RowsStay
<1>7. CASE UNCHANGED transmittalVars
  BY <1>0, <1>7 DEF transmittalVars, RowsStay
<1> QED
  BY <1>1, <1>2, <1>3, <1>4, <1>5, <1>6, <1>7 DEF TransmittalNext, TransmittalStep

RowsType ==
    /\ now \in 0..MaxTime /\ rev \in 0..MaxRev
    /\ tx \in [Projects -> Text]
    /\ log \in Seq(Version) /\ kept \subseteq DOMAIN log

\* A write keeps the order of times and of writes, and the ownership of rows.
LEMMA WriteKeeps ==
  ASSUME TransmittalTypeOK, HistoryIsNewest, LogOrdered, RowsPast, RowsOwn,
         NEW p \in Projects, NEW row \in Text, RowStep(p, row)
  PROVE  RowsType' /\ HistoryIsNewest' /\ LogOrdered' /\ RowsPast' /\ RowsOwn'
<1> DEFINE new == [row EXCEPT !.rev = rev + 1, !.at = now]
<1>0. /\ now \in Nat /\ now <= MaxTime /\ rev \in Nat /\ rev < MaxRev
      /\ log \in Seq(Version) /\ now' = now /\ rev' = rev + 1
      /\ kept \subseteq DOMAIN log
  BY Bounds DEF TransmittalTypeOK, RowStep, Write, Version
<1>1. tx' = [tx EXCEPT ![p] = new] /\ tx \in [Projects -> Text]
  BY DEF RowStep, Write, TransmittalTypeOK
<1>2. new \in Text /\ new.rev = rev + 1 /\ new.at = now /\ Own(p, new)
  <2>1. rev + 1 \in 0..MaxRev /\ now \in 0..MaxTime
    BY <1>0, Bounds
  <2>2. /\ new \in Text /\ new.rev = rev + 1 /\ new.at = now
        /\ new.of = row.of /\ new.attested = row.attested
    BY <2>1 DEF Text
  <2> QED
    BY <2>2 DEF RowStep, Own
<1>3. /\ tx' \in [Projects -> Text] /\ tx'[p] = new
      /\ \A q \in Projects : q # p => tx'[q] = tx[q]
  BY <1>1, <1>2
<1>4. /\ \A i \in DOMAIN log : log[i] \in Version
      /\ \A q \in Projects : tx[q].at \in Nat /\ tx[q].rev \in Nat
      /\ \A i \in DOMAIN log : log[i].at \in Nat /\ log[i].project \in Projects
  <2>1. \A i \in DOMAIN log : log[i] \in Version
    BY <1>0, LenProperties, ElementOfSeq
  <2> QED
    BY <1>1, <2>1, Bounds DEF Version, Text
<1>5. RowsType' /\ HistoryIsNewest'
  <2>0. now' \in 0..MaxTime /\ rev' \in 0..MaxRev
    BY <1>0, Bounds
  <2>1. CASE Snapshot(p)
    BY <1>3, <2>0, <2>1, SnapshotLog, SnapshotKept DEF RowsType
  <2>2. CASE UNCHANGED <<log, kept>>
    BY <1>0, <1>3, <2>0, <2>2 DEF RowsType, HistoryIsNewest
  <2> QED
    BY <2>1, <2>2 DEF RowStep
<1>6. \/ UNCHANGED log
      \/ /\ \A i \in DOMAIN log : i \in Nat /\ i < Len(log) + 1
         /\ Len(log) + 1 \in Nat
         /\ DOMAIN log' = DOMAIN log \cup {Len(log) + 1}
         /\ \A i \in DOMAIN log : log'[i] = log[i]
         /\ log'[Len(log) + 1] = [project |-> p, row |-> tx[p], at |-> now]
  BY SnapshotLog DEF RowStep
<1>7. LogOrdered'
  <2>1. CASE UNCHANGED log
    BY <1>0, <2>1 DEF LogOrdered
  <2>2. CASE ~ UNCHANGED log
    BY <1>0, <1>4, <1>6, <2>2 DEF LogOrdered
  <2> QED
    BY <2>1, <2>2
<1>8. RowsPast'
  <2>1. ASSUME NEW q \in Projects PROVE tx'[q].rev <= rev' /\ tx'[q].at <= now'
    <3>1. CASE q = p
      <4>1. tx'[q].rev = rev + 1 /\ tx'[q].at = now
        BY <1>2, <1>3, <3>1
      <4> QED
        BY <1>0, <4>1
    <3>2. CASE q # p
      <4>1. tx'[q] = tx[q] /\ tx[q].rev <= rev /\ tx[q].at <= now
        BY <1>3, <3>2 DEF RowsPast
      <4>2. tx[q].rev \in Nat /\ tx[q].at \in Nat
        BY <1>4
      <4> QED
        BY <1>0, <4>1, <4>2
    <3> QED
      BY <3>1, <3>2
  <2>2. \A i \in DOMAIN log : log[i].at <= tx'[log[i].project].at
    BY <1>0, <1>2, <1>3, <1>4 DEF RowsPast, LogOrdered
  <2>3. tx'[p].at = now
    BY <1>2, <1>3
  <2>4. \A i \in DOMAIN log' : log'[i].at <= tx'[log'[i].project].at
    BY <1>0, <1>6, <2>2, <2>3
  <2> QED
    BY <2>1, <2>4 DEF RowsPast
<1>9. RowsOwn'
  <2>1. \A q \in Projects : Own(q, tx'[q])
    BY <1>2, <1>3 DEF RowsOwn
  <2>2. \A i \in DOMAIN log' : Own(log'[i].project, log'[i].row)
    BY <1>6 DEF RowsOwn
  <2> QED
    BY <2>1, <2>2 DEF RowsOwn, Own
<1> QED
  BY <1>5, <1>7, <1>8, <1>9

-----------------------------------------------------------------------------
(* The requests in flight and the names.                                   *)

LEMMA TransmittalInvInit == TransmittalInit => TransmittalInv
<1> SUFFICES ASSUME TransmittalInit PROVE TransmittalInv
  OBVIOUS
<1>1. /\ NoTransmittal \in Text /\ NoTransmittal.of = {} /\ NoTransmittal.attested = FALSE
      /\ NoTransmittal.rev = 0 /\ NoTransmittal.at = 0 /\ NoTransmittal.text = 0
  BY Bounds DEF NoTransmittal, Text
<1>2. FreeSlot.project \in Projects /\ FreeSlot.pc = "idle"
      /\ FreeSlot \in [pc: {"idle", "committed"}, project: Projects, text: 0..MaxRev,
                       alone: BOOLEAN]
  BY Bounds DEF FreeSlot
<1>3. log = <<>> /\ DOMAIN log = {} /\ log \in Seq(Version)
  BY EmptySeq, LenProperties DEF TransmittalInit
<1>4. TransmittalTypeOK
  BY <1>1, <1>2, <1>3, Bounds DEF TransmittalInit, TransmittalTypeOK, Version
<1>5. HistoryIsNewest /\ LogOrdered
  BY <1>3 DEF TransmittalInit, HistoryIsNewest, LogOrdered
<1>6. RowsPast /\ RowsOwn
  BY <1>1, <1>3 DEF TransmittalInit, RowsPast, RowsOwn, Own
<1>7. AttestationOwn
  BY <1>1 DEF TransmittalInit, AttestationOwn
<1>8. NameFollowsTitle /\ NamedOrPending
  <2>1. \A p \in PassHeld : p \in Projects
    BY TransmittalAssumption, Zenon
  <2> QED
    BY <1>1, <2>1 DEF TransmittalInit, NameFollowsTitle, NamedOrPending
<1> QED
  BY <1>4, <1>5, <1>6, <1>7, <1>8 DEF TransmittalInv, TransmittalSafe

\* Every step keeps the rows and their history in order.
LEMMA RowsKept ==
  ASSUME TransmittalInv, [TransmittalNext]_transmittalVars
  PROVE  RowsType' /\ HistoryIsNewest' /\ LogOrdered' /\ RowsPast' /\ RowsOwn'
<1> USE DEF TransmittalInv, TransmittalSafe
<1>1. CASE RowsStay
  <2>1. /\ tx \in [Projects -> Text] /\ log \in Seq(Version) /\ kept \subseteq DOMAIN log
        /\ rev \in 0..MaxRev /\ now \in Nat /\ now' \in 0..MaxTime
    BY <1>1, Bounds DEF RowsStay, TransmittalTypeOK, Version
  <2>2. RowsType' /\ HistoryIsNewest' /\ RowsOwn'
    BY <1>1, <2>1 DEF RowsStay, RowsType, HistoryIsNewest, RowsOwn
  <2>3. \A p \in Projects : tx[p].at \in Nat
    BY <2>1, Bounds DEF Text
  <2>4. \A i \in DOMAIN log : log[i].at \in Nat
    <3>1. \A i \in DOMAIN log : log[i] \in Version
      BY <2>1, LenProperties, ElementOfSeq
    <3> QED
      BY <3>1, Bounds DEF Version
  <2>5. LogOrdered'
    BY <1>1, <2>1, <2>4 DEF RowsStay, LogOrdered
  <2>6. RowsPast'
    BY <1>1, <2>1, <2>3 DEF RowsStay, RowsPast
  <2> QED
    BY <2>2, <2>5, <2>6
<1>2. ASSUME NEW p \in Projects, NEW row \in Text, RowStep(p, row)
      PROVE  RowsType' /\ HistoryIsNewest' /\ LogOrdered' /\ RowsPast' /\ RowsOwn'
  BY <1>2, WriteKeeps
<1> QED
  BY <1>1, <1>2, RowsStep

SlotType == save \in [Saves -> [pc: {"idle", "committed"}, project: Projects, text: 0..MaxRev,
                                alone: BOOLEAN]]
NamesType == name \in [Projects -> 0..MaxRev] /\ strayed \subseteq Projects

\* Every step keeps the names: a PUT that has committed will name the book, and
\* whatever else changes its text says so.
LEMMA NamesKept ==
  ASSUME TransmittalInv, [TransmittalNext]_transmittalVars
  PROVE  SlotType' /\ NamesType' /\ NamedOrPending'
<1> USE DEF SlotType, NamesType
<1>0. /\ TransmittalTypeOK /\ SlotType /\ NamesType /\ tx \in [Projects -> Text]
      /\ NamedOrPending /\ rev \in Nat
  BY Bounds DEF TransmittalInv, TransmittalSafe, TransmittalTypeOK
<1>1. /\ NoTransmittal \in Text /\ NoTransmittal.of = {}
      /\ FreeSlot \in [pc: {"idle", "committed"}, project: Projects, text: 0..MaxRev,
                       alone: BOOLEAN]
      /\ PassHeld \subseteq Projects
  <2>1. PassHeld \subseteq Projects
    BY TransmittalAssumption, Zenon
  <2> QED
    BY <2>1, Bounds DEF FreeSlot, NoTransmittal, Text
<1>2. ASSUME NEW p \in Projects, UNCHANGED <<save, name, strayed>>,
             \A q \in Projects : q # p => tx'[q] = tx[q],
             tx'[p].of = {}
      PROVE  SlotType' /\ NamesType' /\ NamedOrPending'
  <2>1. \A q \in PassHeld \ strayed : tx'[q].of = {q} => q # p
    BY <1>2
  <2> QED
    BY <1>0, <1>1, <1>2, <2>1 DEF NamedOrPending
<1>3. ASSUME NEW p \in Projects, OpenTransmittal(p)
      PROVE  SlotType' /\ NamesType' /\ NamedOrPending'
  <2> DEFINE row == [NoTransmittal EXCEPT !.text = rev + 1, !.status = "draft"]
  <2>1. /\ tx' = [tx EXCEPT ![p] = [row EXCEPT !.rev = rev + 1, !.at = now]]
        /\ UNCHANGED <<save, name, strayed>>
    BY <1>3 DEF OpenTransmittal, Write
  <2>2. [row EXCEPT !.rev = rev + 1, !.at = now].of = {}
    BY <1>1 DEF Text
  <2> QED
    BY <1>0, <1>2, <2>1, <2>2
<1>4. ASSUME NEW p \in Projects, NEW q \in Projects, DuplicateTransmittal(p, q)
      PROVE  SlotType' /\ NamesType' /\ NamedOrPending'
  <2>1. /\ tx' = [tx EXCEPT ![q] = [BlankCopy(tx[p]) EXCEPT !.rev = rev + 1, !.at = now]]
        /\ UNCHANGED <<save, name, strayed>>
    BY <1>4 DEF DuplicateTransmittal, Write
  <2>2. [BlankCopy(tx[p]) EXCEPT !.rev = rev + 1, !.at = now].of = {}
    BY <1>0 DEF Text, BlankCopy
  <2> QED
    BY <1>0, <1>2, <2>1, <2>2
<1>5. ASSUME NEW p \in Projects, NEW s \in Saves, NEW form \in Forms,
             SaveTransmittal(s, p, form[1], form[2])
      PROVE  SlotType' /\ NamesType' /\ NamedOrPending'
  <2>1. /\ save[s].pc = "idle" /\ UNCHANGED <<name, strayed>>
        /\ rev + 1 \in 0..MaxRev
        /\ \A q \in Projects : q # p => tx'[q] = tx[q]
    BY <1>0, <1>5, Bounds DEF SaveTransmittal, Write
  <2> DEFINE others == {x \in Saves : save[x].pc = "committed" /\ save[x].project = p}
             mine == [pc |-> "committed", project |-> p, text |-> rev + 1, alone |-> others = {}]
  <2>2. save' = [x \in Saves |-> IF x = s THEN mine
                                 ELSE IF x \in others THEN [save[x] EXCEPT !.alone = FALSE]
                                 ELSE save[x]]
    BY <1>5 DEF SaveTransmittal
  <2>3. mine \in [pc: {"idle", "committed"}, project: Projects, text: 0..MaxRev,
                  alone: BOOLEAN]
    BY <2>1
  <2>4. SlotType'
    BY <1>0, <2>2, <2>3
  <2>5. /\ save'[s].pc = "committed" /\ save'[s].project = p
        /\ \A x \in Saves : x # s => save'[x].pc = save[x].pc /\ save'[x].project = save[x].project
    BY <1>0, <2>2
  <2>6. NamedOrPending'
    <3> SUFFICES ASSUME NEW q \in PassHeld \ strayed', tx'[q].of = {q}
                 PROVE  \/ name'[q] = tx'[q].text
                        \/ \E x \in Saves : save'[x].pc = "committed" /\ save'[x].project = q
      BY DEF NamedOrPending
    <3>1. CASE q = p
      BY <2>5, <3>1
    <3>2. CASE q # p
      BY <1>0, <1>1, <2>1, <2>5, <3>2 DEF NamedOrPending
    <3> QED
      BY <3>1, <3>2
  <2> QED
    BY <1>0, <2>1, <2>4, <2>6
<1>6. ASSUME NEW p \in Projects, NEW i \in kept, RestoreVersion(p, i)
      PROVE  SlotType' /\ NamesType' /\ NamedOrPending'
  <2>1. /\ \A q \in Projects : q # p => tx'[q] = tx[q]
        /\ strayed' = strayed \cup {p} /\ UNCHANGED <<save, name>>
    BY <1>0, <1>6 DEF RestoreVersion, Write
  <2> QED
    BY <1>0, <1>1, <2>1 DEF NamedOrPending
<1>7. ASSUME NEW s \in Saves, RenameBook(s)
      PROVE  SlotType' /\ NamesType' /\ NamedOrPending'
  <2> DEFINE p == save[s].project
  <2>1. /\ p \in Projects /\ save[s].text \in 0..MaxRev /\ tx' = tx
        /\ save' = [save EXCEPT ![s] = FreeSlot]
        /\ name' = IF p \in PassHeld THEN [name EXCEPT ![p] = save[s].text] ELSE name
        /\ strayed' = IF save[s].alone /\ tx[p].text = save[s].text
                      THEN strayed \ {p} ELSE strayed \cup {p}
    BY <1>0, <1>7 DEF RenameBook
  <2>2. SlotType' /\ NamesType'
    BY <1>0, <1>1, <2>1
  <2>3. NamedOrPending'
    <3> SUFFICES ASSUME NEW q \in PassHeld \ strayed', tx'[q].of = {q}
                 PROVE  \/ name'[q] = tx'[q].text
                        \/ \E x \in Saves : save'[x].pc = "committed" /\ save'[x].project = q
      BY DEF NamedOrPending
    <3>1. CASE q = p
      BY <1>0, <1>1, <2>1, <3>1
    <3>2. CASE q # p
      <4>1. q \in PassHeld \ strayed /\ name'[q] = name[q] /\ tx'[q] = tx[q]
        BY <1>0, <1>1, <2>1, <3>2
      <4>2. \A x \in Saves : save[x].project = q => save'[x] = save[x]
        BY <1>0, <2>1, <3>2
      <4> QED
        BY <1>0, <4>1, <4>2 DEF NamedOrPending
    <3> QED
      BY <3>1, <3>2
  <2> QED
    BY <2>2, <2>3
<1>8. ASSUME NEW s \in Saves, AbandonSave(s)
      PROVE  SlotType' /\ NamesType' /\ NamedOrPending'
  <2>1. /\ save' = [save EXCEPT ![s] = FreeSlot] /\ save[s].project \in Projects
        /\ strayed' = strayed \cup {save[s].project}
        /\ UNCHANGED <<tx, name>>
    BY <1>0, <1>8 DEF AbandonSave
  <2>2. SlotType' /\ NamesType'
    BY <1>0, <1>1, <2>1
  <2>3. \A q \in PassHeld \ strayed', x \in Saves : save[x].project = q => save'[x] = save[x]
    BY <1>0, <2>1
  <2>4. NamedOrPending'
    BY <1>0, <2>1, <2>3 DEF NamedOrPending
  <2> QED
    BY <2>2, <2>4
<1>9. CASE Tick \/ UNCHANGED transmittalVars
  BY <1>0, <1>9 DEF Tick, transmittalVars, NamedOrPending
<1> QED
  BY <1>3, <1>4, <1>5, <1>6, <1>7, <1>8, <1>9 DEF TransmittalNext, TransmittalStep

LEMMA TransmittalInvStep ==
  ASSUME TransmittalInv, [TransmittalNext]_transmittalVars
  PROVE  TransmittalInv'
<1>1. RowsType' /\ HistoryIsNewest' /\ LogOrdered' /\ RowsPast' /\ RowsOwn'
  BY RowsKept
<1>2. SlotType' /\ NamesType' /\ NamedOrPending'
  BY NamesKept
<1>3. TransmittalTypeOK'
  BY <1>1, <1>2 DEF RowsType, SlotType, NamesType, TransmittalTypeOK, Version
<1>4. AttestationOwn'
  BY <1>1 DEF RowsOwn, RowsType, Own, AttestationOwn
<1>5. NameFollowsTitle'
  BY <1>2 DEF NamedOrPending, NameFollowsTitle
<1> QED
  BY <1>1, <1>2, <1>3, <1>4, <1>5 DEF TransmittalInv, TransmittalSafe

LEMMA TransmittalInvariant == TransmittalSpec => []TransmittalInv
  BY TransmittalInvInit, TransmittalInvStep, PTL DEF TransmittalSpec

\* Whatever PUTs, restores and copies interleave: the history of a book is its
\* newest versions, no text of it is another book's, and its project is named
\* after its title unless PUTs crossed (srv/transmittal.go).
THEOREM TransmittalIsSafe == TransmittalSpec => []TransmittalSafe
  BY TransmittalInvariant, PTL DEF TransmittalInv

-----------------------------------------------------------------------------
(* What no step loses.                                                     *)

\* A write that follows a snapshot finds the old text in the history.
LEMMA SnapshotRecords ==
  ASSUME TransmittalInv, NEW p \in Projects, Snapshot(p)
  PROVE  InHistory(log', kept', p, tx[p])
<1> DEFINE n == Len(log) + 1
<1>1. n \in kept'
  BY SnapshotKept DEF TransmittalInv, TransmittalSafe
<1>2. log'[n] = [project |-> p, row |-> tx[p], at |-> now]
  BY SnapshotLog DEF TransmittalInv, TransmittalSafe
<1>3. log'[n].project = p /\ log'[n].row = tx[p]
  BY <1>2
<1> QED
  BY <1>1, <1>3 DEF InHistory

\* A version saved within the window makes a text that stood longer impossible:
\* a save that takes no snapshot overwrites a text younger than the window.
LEMMA RecentMeansYoung ==
  ASSUME TransmittalInv, NEW p \in Projects, RecentVersions(p) # {}
  PROVE  ~ (tx[p].at + Window <= now)
<1>1. PICK i \in kept : log[i].project = p /\ log[i].at + Window > now
  BY DEF RecentVersions
<1>2. /\ i \in DOMAIN log /\ log \in Seq(Version)
      /\ tx \in [Projects -> Text] /\ now \in 0..MaxTime
  BY DEF TransmittalInv, TransmittalSafe, TransmittalTypeOK, Version
<1>3. log[i] \in Version
  BY <1>2, LenProperties, ElementOfSeq
<1>4. log[i].at \in Nat /\ tx[p].at \in Nat /\ now \in Nat /\ Window \in Nat
  BY <1>2, <1>3, Bounds DEF Version, Text
<1>5. log[i].at <= tx[p].at
  BY <1>1, <1>2 DEF TransmittalInv, RowsPast
<1> QED
  BY <1>1, <1>4, <1>5

\* A text that stood for the whole window is in the history after the write
\* that overwrites it.
LEMMA LongStandingStep ==
  ASSUME TransmittalInv, [TransmittalNext]_transmittalVars, NEW p \in Projects,
         Has(p), tx'[p].rev # tx[p].rev, tx[p].at + Window <= now
  PROVE  InHistory(log', kept', p, tx[p])
<1>0. tx \in [Projects -> Text]
  BY DEF TransmittalInv, TransmittalSafe, TransmittalTypeOK
<1>1. ASSUME NEW q \in Projects, NEW s \in Saves, NEW form \in Forms,
             SaveTransmittal(s, q, form[1], form[2])
      PROVE  InHistory(log', kept', p, tx[p])
  <2>1. q = p
    BY <1>0, <1>1 DEF SaveTransmittal, Write
  <2>2. Snapshot(p)
    BY <1>1, <2>1, RecentMeansYoung DEF SaveTransmittal, MaybeSnapshot
  <2> QED
    BY <2>2, SnapshotRecords
<1>2. ASSUME NEW q \in Projects, NEW i \in kept, RestoreVersion(q, i)
      PROVE  InHistory(log', kept', p, tx[p])
  <2>1. q = p
    BY <1>0, <1>2 DEF RestoreVersion, Write
  <2> QED
    BY <1>2, <2>1, SnapshotRecords DEF RestoreVersion
<1>3. ASSUME NEW q \in Projects, OpenTransmittal(q)
      PROVE  FALSE
  BY <1>0, <1>3 DEF OpenTransmittal, Write
<1>4. ASSUME NEW q \in Projects, NEW z \in Projects, DuplicateTransmittal(q, z)
      PROVE  FALSE
  BY <1>0, <1>4 DEF DuplicateTransmittal, Write
<1>5. UNCHANGED tx => FALSE
  OBVIOUS
<1> QED
  BY <1>1, <1>2, <1>3, <1>4, <1>5
  DEF TransmittalNext, TransmittalStep, Tick, RenameBook, AbandonSave, transmittalVars

\* A write that keeps another write's text is a restore.
LEMMA FreshText ==
  ASSUME TransmittalTypeOK, NEW p \in Projects, NEW row \in Text, row.text = rev + 1,
         Write(p, row)
  PROVE  tx'[p].text = tx'[p].rev
<1>1. tx' = [tx EXCEPT ![p] = [row EXCEPT !.rev = rev + 1, !.at = now]]
      /\ tx \in [Projects -> Text]
  BY DEF Write, TransmittalTypeOK
<1>2. /\ [row EXCEPT !.rev = rev + 1, !.at = now].rev = rev + 1
      /\ [row EXCEPT !.rev = rev + 1, !.at = now].text = rev + 1
  BY DEF Text
<1> QED
  BY <1>1, <1>2

\* What a restore replaces is in the history.
LEMMA RestoreStep ==
  ASSUME TransmittalInv, [TransmittalNext]_transmittalVars, NEW p \in Projects,
         tx'[p].rev # tx[p].rev, tx'[p].text # tx'[p].rev
  PROVE  InHistory(log', kept', p, tx[p])
<1>0. /\ TransmittalTypeOK /\ tx \in [Projects -> Text] /\ rev \in Nat
      /\ NoTransmittal \in Text
  BY Bounds DEF TransmittalInv, TransmittalSafe, TransmittalTypeOK, NoTransmittal, Text
<1>1. ASSUME NEW q \in Projects, NEW i \in kept, RestoreVersion(q, i)
      PROVE  InHistory(log', kept', p, tx[p])
  <2>1. q = p
    BY <1>0, <1>1 DEF RestoreVersion, Write
  <2> QED
    BY <1>1, <2>1, SnapshotRecords DEF RestoreVersion
<1>2. ASSUME NEW q \in Projects, NEW row \in Text, row.text = rev + 1, Write(q, row)
      PROVE  FALSE
  <2>1. q = p
    BY <1>0, <1>2 DEF Write
  <2> QED
    BY <1>0, <1>2, <2>1, FreshText
<1>3. ASSUME NEW q \in Projects, OpenTransmittal(q)
      PROVE  FALSE
  <2> DEFINE row == [NoTransmittal EXCEPT !.text = rev + 1, !.status = "draft"]
  <2>1. Write(q, row)
    BY <1>3 DEF OpenTransmittal
  <2>2. rev + 1 \in 0..MaxRev
    BY <1>0, <2>1, Bounds DEF Write
  <2>3. row \in Text /\ row.text = rev + 1
    BY <1>0, <2>2 DEF Text
  <2> QED
    BY <1>2, <2>1, <2>3
<1>4. ASSUME NEW q \in Projects, NEW s \in Saves, NEW form \in Forms,
             SaveTransmittal(s, q, form[1], form[2])
      PROVE  FALSE
  <2> DEFINE row == [NoTransmittal EXCEPT !.text = rev + 1, !.of = {q}, !.attested = form[2],
                                          !.status = Stated(form[1])]
  <2>1. Write(q, row)
    BY <1>4 DEF SaveTransmittal
  <2>2. form[1] \in {"", "draft", "final"} /\ form[2] \in BOOLEAN
    BY TransmittalAssumption
  <2>3. Stated(form[1]) \in {"none", "draft", "final"}
    BY <2>2 DEF Stated
  <2>4. rev + 1 \in 0..MaxRev
    BY <1>0, <2>1, Bounds DEF Write
  <2>5. row \in Text /\ row.text = rev + 1
    BY <1>0, <2>2, <2>3, <2>4 DEF Text
  <2> QED
    BY <1>2, <2>1, <2>5
<1>5. ASSUME NEW q \in Projects, NEW z \in Projects, DuplicateTransmittal(q, z)
      PROVE  FALSE
  <2>1. Write(z, BlankCopy(tx[q]))
    BY <1>5 DEF DuplicateTransmittal
  <2>2. rev + 1 \in 0..MaxRev /\ tx[q] \in Text
    BY <1>0, <2>1, Bounds DEF Write
  <2>3. BlankCopy(tx[q]) \in Text /\ BlankCopy(tx[q]).text = rev + 1
    BY <2>2 DEF BlankCopy, Text
  <2> QED
    BY <1>2, <2>1, <2>3
<1>6. UNCHANGED tx => FALSE
  OBVIOUS
<1> QED
  BY <1>1, <1>3, <1>4, <1>5, <1>6
  DEF TransmittalNext, TransmittalStep, Tick, RenameBook, AbandonSave, transmittalVars

\* Nothing the author worked on is overwritten beyond recall: neither a text
\* that stood for the window nor one a restore replaces, whatever happened
\* before (maybeSnapshotVersion, handleRestoreTransmittalVersion).
THEOREM TransmittalHistoryKeeps == TransmittalSpec => HistoryKeeps
<1>1. TransmittalInv /\ [TransmittalNext]_transmittalVars
        => [\A p \in Projects :
              Has(p) /\ tx'[p].rev # tx[p].rev /\ tx[p].at + Window <= now
                => InHistory(log', kept', p, tx[p])]_transmittalVars
  BY LongStandingStep
<1>2. TransmittalInv /\ [TransmittalNext]_transmittalVars
        => [\A p \in Projects :
              tx'[p].rev # tx[p].rev /\ tx'[p].text # tx'[p].rev
                => InHistory(log', kept', p, tx[p])]_transmittalVars
  BY RestoreStep
<1> QED
  BY <1>1, <1>2, TransmittalInvariant, PTL
  DEF TransmittalSpec, HistoryKeeps, LongStandingKept, RestoreUndoable
=============================================================================
