---------------------------- MODULE IndexEntries ----------------------------
(***************************************************************************)
(* The entries of a back-of-book index (package indexer): a model drafts   *)
(* them chapter by chapter, a second call consolidates the headings, and   *)
(* Tidy normalises the result and every edit a reviewer saves.             *)
(*                                                                         *)
(* A heading is the sequence of its comma-separated parts, folded; a       *)
(* subheading likewise, <<>> for none. An anchor is a model value. Go's    *)
(* map order makes crossRefs nondeterministic, so CrossRefs and Tidy are   *)
(* sets of results.                                                        *)
(***************************************************************************)
EXTENDS Positions, SequencesExt

CONSTANTS
    Proper,   \* headings written with a capital
    Replies,  \* what the model may answer for a chapter: sequences of entries
    Merges,   \* what it may answer to the consolidation call
    Chapters, \* number of chapters
    Targets,  \* references a reviewer may type
    MaxSaves  \* bound on PUT .../index

Heading == Seq(Nat)
EntryRecord == [head: Heading, sub: Heading, see: Heading, also: Seq(Heading), anchors: Seq(STRING)]
MergeReply ==
    [failed: BOOLEAN, merge: Seq(Heading \X Heading), sub: Seq(Heading \X Heading \X Heading),
     see: Seq(Heading \X Heading), also: Seq(Heading \X Heading), drop: SUBSET Heading]

ASSUME EntriesAssumption ==
    /\ Replies \subseteq Seq(EntryRecord) /\ Merges \subseteq MergeReply
    /\ Targets \subseteq Heading
    /\ Chapters \in Nat /\ MaxSaves \in Nat

VARIABLES
    raw,      \* Draft's raw: the entries of the chapters so far
    chapter,  \* chapters answered
    entries,  \* idx.Entries of the stored document
    owed,     \* history: anchors nobody asked to drop
    lookups,  \* history: drafted headings a reader might look up
    chained,  \* history: those merged into one that was merged or moved itself
    saves

entryVars == <<raw, chapter, entries, owed, lookups, chained, saves>>

NoRef == <<>>
Entry(h, s, see, also, as) == [head |-> h, sub |-> s, see |-> see, also |-> also, anchors |-> as]
Heads(es) == {es[i].head : i \in DOMAIN es}
Key(e) == <<e.head, e.sub>>
AnchorsOf(es) == UNION {ToSet(es[i].anchors) : i \in DOMAIN es}

EntriesInit ==
    /\ raw = <<>> /\ chapter = 0 /\ entries = <<>>
    /\ owed = {} /\ lookups = {} /\ chained = {} /\ saves = 0

(***************************************************************************)
(* mergeIdentical.                                                         *)
(***************************************************************************)
\* The second sequence's elements that are new, each once.
AppendNew(xs, ys) ==
    xs \o Picked(ys, {i \in DOMAIN ys : ys[i] \notin ToSet(xs) /\ \A j \in 1..i - 1 : ys[j] # ys[i]})
AppendUnique(xs, x) == AppendNew(xs, <<x>>)
Unique(xs) == AppendNew(<<>>, xs)

FirstSee(g) ==
    LET at == {i \in DOMAIN g : g[i].see # NoRef} IN IF at = {} THEN NoRef ELSE g[First(at)].see
AllAlso(g) == AppendNew(g[1].also, FlattenSeq([i \in DOMAIN g |-> g[i].also]))

\* The first entry of a group takes the others' anchors and references.
Joined(g) == [g[1] EXCEPT !.see = FirstSee(g), !.also = AllAlso(g),
                          !.anchors = Unique(FlattenSeq([i \in DOMAIN g |-> g[i].anchors]))]

MergeIdentical(es) ==
    LET keys == Unique([i \in DOMAIN es |-> Key(es[i])]) IN
    [k \in DOMAIN keys |-> Joined(Picked(es, {i \in DOMAIN es : Key(es[i]) = keys[k]}))]

(***************************************************************************)
(* tidy: no reference to itself; "see" only where there is no locator.     *)
(***************************************************************************)
WithoutSelf(e) ==
    LET see == IF e.see = e.head THEN NoRef ELSE e.see
        demoted == see # NoRef /\ (e.anchors # <<>> \/ e.sub # <<>>)
        also == IF demoted THEN AppendUnique(e.also, see) ELSE e.also
    IN [e EXCEPT !.see = IF demoted THEN NoRef ELSE see,
                 !.also = Unique(Picked(also, {i \in DOMAIN also : also[i] # e.head}))]

Tidied(es) == [i \in DOMAIN es |-> WithoutSelf(es[i])]

(***************************************************************************)
(* crossRefs.                                                              *)
(***************************************************************************)
Under(es, h) == {i \in DOMAIN es : es[i].head = h}

\* The heading itself or its longest prefix that is one; NoRef if there is none.
Target(es, t) ==
    IF t \in Heads(es) THEN t
    ELSE LET ps == {n \in 1..Len(t) - 1 : SubSeq(t, 1, n) \in Heads(es)}
         IN IF ps = {} THEN NoRef ELSE SubSeq(t, 1, CHOOSE n \in ps : \A m \in ps : m <= n)

ResolvedRefs(es) ==
    [i \in DOMAIN es |->
        LET e == es[i]
            also == [k \in DOMAIN e.also |-> Target(es, e.also[k])]
        IN [e EXCEPT !.see = Target(es, @),
                     !.also = Unique(Picked(also, {k \in DOMAIN also : also[k] \notin {NoRef, e.head}}))]]

Anchored(es, h) == Len(FlattenSeq([i \in DOMAIN es |-> IF es[i].head = h THEN es[i].anchors ELSE <<>>]))
Thin(es, h) == /\ Anchored(es, h) <= 1 /\ h \notin Proper
               /\ \A i \in Under(es, h) : es[i].sub = <<>>
Sees(es, a, b) == \E i \in Under(es, a) : Contains(es[i].also, b)

\* Where each thin heading of a mutual pair may be folded: with several
\* substantial partners, the map decides.
Folds(es) ==
    LET partners(a) == {b \in Heads(es) : Sees(es, a, b) /\ Sees(es, b, a) /\ ~ Thin(es, b)}
        thin == {a \in Heads(es) : Thin(es, a) /\ partners(a) # {}}
    IN {f \in [thin -> Heads(es)] : \A a \in thin : f[a] \in partners(a)}

\* A thin entry moves to its partner and leaves "thin. See partner".
Folded(es, f, e) ==
    IF e.head \in DOMAIN f
    THEN <<[e EXCEPT !.head = f[e.head], !.also = <<>>], Entry(e.head, <<>>, f[e.head], <<>>, <<>>)>>
    ELSE LET also == [k \in DOMAIN e.also |-> IF e.also[k] \in DOMAIN f THEN f[e.also[k]] ELSE e.also[k]]
         IN <<[e EXCEPT !.also = Unique(Picked(also, {k \in DOMAIN also : also[k] # e.head}))]>>

CrossRefs(es) ==
    LET rs == ResolvedRefs(es) IN
    {IF DOMAIN f = {} THEN rs ELSE MergeIdentical(FlattenSeq([i \in DOMAIN rs |-> Folded(rs, f, rs[i])]))
        : f \in Folds(rs)}

\* sortEntries, a stable sort: by heading, then by subheading; a prefix comes first.
Before(s, t) == \E n \in 0..Len(s) : /\ n < Len(t) /\ \A k \in 1..n : s[k] = t[k]
                                    /\ (n = Len(s) \/ s[n + 1] < t[n + 1])
Precedes(es, i, j) ==
    \/ Before(es[i].head, es[j].head)
    \/ es[i].head = es[j].head /\ Before(es[i].sub, es[j].sub)
    \/ Key(es[i]) = Key(es[j]) /\ i < j
SortEntries(es) ==
    LET place(i) == Cardinality({j \in DOMAIN es : Precedes(es, j, i)}) + 1
    IN [k \in DOMAIN es |-> es[CHOOSE i \in DOMAIN es : place(i) = k]]

Tidy_Once(es) == {SortEntries(x) : x \in CrossRefs(Tidied(MergeIdentical(es)))}

Tidy(es) == {SortEntries(Tidied(x)) : x \in CrossRefs(Tidied(MergeIdentical(es)))}

(***************************************************************************)
(* consolidate: a reply names merges <<from, to>>, subentries              *)
(* <<from, to, as>>, references <<heading, to>> and headings to drop.      *)
(***************************************************************************)
SharesWord(a, b) == ToSet(a) \cap ToSet(b) # {}
Firsts(s) == {s[i][1] : i \in DOMAIN s}
\* Of two operations on a heading the later one holds.
LastOf(s, from) ==
    LET at == {i \in DOMAIN s : s[i][1] = from} IN s[CHOOSE i \in at : \A j \in at : j <= i]

Renames(rep) == Picked(rep.merge, {i \in DOMAIN rep.merge : rep.merge[i][1] # rep.merge[i][2]})
Renamed(rep, h) == IF h \in Firsts(Renames(rep)) THEN LastOf(Renames(rep), h)[2] ELSE h

\* Chains are chased for five steps.
Resolve(rep, h) ==
    LET chased[n \in 0..5] == IF n = 0 THEN h ELSE Renamed(rep, chased[n - 1]) IN chased[5]

Subs(rep, es) ==
    LET subs == [i \in DOMAIN rep.sub |-> <<rep.sub[i][1], Resolve(rep, rep.sub[i][2]), rep.sub[i][3]>>]
    IN Picked(subs, {i \in DOMAIN subs : /\ subs[i][1] # subs[i][2] /\ subs[i][2] \notin rep.drop
                                         /\ subs[i][1] \in Heads(es) \ Firsts(Renames(rep))})

ResolveSub(rep, es, h) ==
    LET r == Resolve(rep, h) IN IF r \in Firsts(Subs(rep, es)) THEN LastOf(Subs(rep, es), r)[2] ELSE r

Moved(rep, es, e) ==
    LET h == Resolve(rep, e.head)
        also == [k \in DOMAIN e.also |-> ResolveSub(rep, es, e.also[k])]
        see == IF e.see = NoRef THEN NoRef ELSE ResolveSub(rep, es, e.see)
    IN IF h \in Firsts(Subs(rep, es))
       THEN LET op == LastOf(Subs(rep, es), h) IN
            Entry(op[2], IF e.sub \in {<<>>, op[3]} THEN op[3] ELSE op[3] \o e.sub, see, <<>>, e.anchors)
       ELSE [e EXCEPT !.head = h, !.also = also, !.see = see]

\* Wordings merged or moved away that a reader might still look up.
AutoSees(rep, es) ==
    LET rs == Renames(rep)
        subs == Subs(rep, es)
    IN Picked(rs, {i \in DOMAIN rs : ~ SharesWord(rs[i][1], rs[i][2])})
       \o Picked(subs, {i \in DOMAIN subs : /\ ~ SharesWord(subs[i][1], subs[i][2])
                                             /\ Anchored(es, subs[i][1]) > 1})

AddSee(rep, es, out, p) ==
    LET to == ResolveSub(rep, es, p[2]) IN
    IF p[1] \in Heads(out) \/ to \notin Heads(out) \/ p[1] = to THEN out
    ELSE Append(out, Entry(p[1], <<>>, to, <<>>, <<>>))

AddAlso(rep, es, out, p) ==
    LET h == ResolveSub(rep, es, p[1])
        also == ResolveSub(rep, es, p[2])
        plain == {i \in Under(out, h) : out[i].sub = <<>>}
    IN IF also \notin Heads(out) \/ h = also \/ plain = {} THEN out
       ELSE [out EXCEPT ![First(plain)].also = AppendUnique(@, also)]

Consolidated(es, rep) ==
    LET moved == [i \in DOMAIN es |-> Moved(rep, es, es[i])]
        kept == Picked(moved, {i \in DOMAIN moved : moved[i].head \notin rep.drop})
        sees == AutoSees(rep, es) \o rep.see
        withSee[n \in 0..Len(sees)] ==
            IF n = 0 THEN kept ELSE AddSee(rep, es, withSee[n - 1], sees[n])
        withAlso[n \in 0..Len(rep.also)] ==
            IF n = 0 THEN withSee[Len(sees)] ELSE AddAlso(rep, es, withAlso[n - 1], rep.also[n])
    IN MergeIdentical(withAlso[Len(rep.also)])

(***************************************************************************)
(* Draft and the reviewer's saves.                                         *)
(***************************************************************************)
\* Not moved under another heading, and renamed to one that stays: its chain
\* ends within the five steps.
LookedUp(rep, es, h) == h \notin Firsts(Subs(rep, es)) /\ Resolve(rep, h) \notin Firsts(Renames(rep))

\* Renamed to a wording it shares a word with, which went elsewhere.
Chained(rep, es, h) ==
    LET to == Renamed(rep, h)
    IN SharesWord(h, to) /\ to \in Firsts(Renames(rep)) \cup Firsts(Subs(rep, es))

DraftChapter(reply) ==
    /\ chapter < Chapters
    /\ chapter' = chapter + 1
    /\ raw' = raw \o reply
    /\ UNCHANGED <<entries, owed, lookups, chained, saves>>

\* A failed consolidation keeps the draft by chapter.
FinishDraft(rep) ==
    LET es == MergeIdentical(raw)
        skipped == rep.failed \/ Chapters = 1
    IN /\ chapter = Chapters /\ raw # <<>>
       /\ entries' \in Tidy(IF skipped THEN es ELSE Consolidated(es, rep))
       /\ owed' = IF skipped \/ rep.drop = {} THEN AnchorsOf(raw) ELSE {}
       /\ lookups' = IF skipped THEN Heads(raw)
                     ELSE {h \in Heads(raw) : rep.drop = {} /\ LookedUp(rep, es, h)}
       /\ chained' = IF skipped THEN {} ELSE {h \in lookups' : Chained(rep, es, h)}
       /\ raw' = <<>> /\ UNCHANGED <<chapter, saves>>

\* validateIndexEntries.
Valid(es) == \A i \in DOMAIN es : es[i].anchors # <<>> \/ es[i].see # NoRef \/ es[i].sub # <<>>

\* One change a reviewer makes to the document on the screen.
Edits(es) ==
    {RemoveAt(es, i) : i \in DOMAIN es}
    \cup {[es EXCEPT ![i].see = t] : i \in DOMAIN es, t \in Targets}
    \cup {[es EXCEPT ![i].head = t] : i \in DOMAIN es, t \in Targets}
    \cup {[es EXCEPT ![i].also = Append(@, t)] : i \in DOMAIN es, t \in Targets}

PutBookIndex(body) ==
    /\ raw = <<>> /\ chapter = Chapters /\ saves < MaxSaves /\ Valid(body)
    /\ entries' \in Tidy(body)
    /\ owed' = AnchorsOf(body) /\ lookups' = {} /\ chained' = {} /\ saves' = saves + 1
    /\ UNCHANGED <<raw, chapter>>

EntriesNext ==
    \/ \E reply \in Replies : DraftChapter(reply)
    \/ \E rep \in Merges : FinishDraft(rep)
    \/ \E body \in Edits(entries) : PutBookIndex(body)

EntriesSpec == EntriesInit /\ [][EntriesNext]_entryVars

-----------------------------------------------------------------------------
EntriesTypeOK ==
    /\ chapter \in 0..Chapters /\ saves \in 0..MaxSaves
    /\ entries \in Seq(EntryRecord)
    /\ \A i, j \in DOMAIN entries : i < j => Key(entries[i]) # Key(entries[j])
    /\ \A i \in DOMAIN entries : IsInjective(entries[i].anchors) /\ IsInjective(entries[i].also)

\* Through any draft, consolidation and edits, every cross-reference of the
\* stored index leads to a heading of the index, never to its own; "see" stands
\* only where nothing else does.
RefsProper ==
    \A i \in DOMAIN entries : LET e == entries[i] IN
        /\ e.see # NoRef => /\ e.see \in Heads(entries) \ {e.head}
                            /\ e.anchors = <<>> /\ e.sub = <<>>
        /\ ToSet(e.also) \subseteq Heads(entries) \ {e.head}

\* Merging, moving and folding headings loses no locator: unless headings were
\* dropped on purpose, every anchor handed in is in the stored index.
AnchorsKept == owed \subseteq AnchorsOf(entries)

Found(h) == \E g \in Heads(entries) : g = h \/ SharesWord(h, g)

\* A drafted heading that was merged or folded away is still found: under its
\* own wording, or under a heading that shares a word with it. (A heading merged
\* in a circle, or moved under another, is exempt, and one merged in two steps.)
LookupsKept == \A h \in lookups \ chained : Found(h)

\* The same for headings merged in two steps.
WordingsKept == \A h \in lookups : Found(h)

\* What the server stores, the reviewer can save again: no entry that
\* validateIndexEntries refuses.
StoredIsAccepted == Valid(entries)

\* The stored index is one a reader can follow: its references lead somewhere
\* else in it, no locator was lost, and a heading the model merged away can
\* still be looked up (indexer/draft.go).
EntriesSafe ==
    /\ EntriesTypeOK
    /\ RefsProper
    /\ AnchorsKept
    /\ LookupsKept
=============================================================================
