----------------------------- MODULE IndexPlaces -----------------------------
(***************************************************************************)
(* Where the locators of an index land: Chunks cuts the manuscript for the *)
(* drafting calls, PlaceMarkers finds each anchor again, in the draft run  *)
(* and in every later build, when the author may have sent another file.   *)
(*                                                                         *)
(* A manuscript is the sequence of lines of its extracted text: the level  *)
(* of the heading a line is (0 for a paragraph) and its folded words. A    *)
(* word is a number; case is not told apart. Lengths are counted in words. *)
(***************************************************************************)
EXTENDS Positions, SequencesExt

CONSTANTS
    Manuscripts, \* files an author may send
    WordTails,   \* <<w, u>>: w is the end of the longer word u ("he", "she")
    WordHeads,   \* <<w, u>>: w is the beginning of the longer word u
    MinChunk,    \* 20 words: a shorter chapter is not drafted
    MaxInput,    \* MaxInputChars
    MinAnchor,   \* minAnchorWords
    AnchorWords, \* words of an anchor
    MaxUploads

Line == [level: Nat, words: Seq(Nat)]

ASSUME PlacesAssumption ==
    /\ Manuscripts \subseteq Seq(Line)
    /\ AnchorWords \in Nat /\ MinAnchor \in 2..AnchorWords
    /\ MinChunk \in Nat /\ MinChunk >= AnchorWords
    /\ MaxInput \in Nat /\ MaxUploads \in Nat

VARIABLES
    ms,      \* source_data
    parts,   \* specHasParts when the draft was started
    anchors, \* the anchors of the stored index, [chapter, text, home]
    placed,  \* the last run of PlaceMarkers: the word each anchor ends at, or 0
    fresh,   \* history: the manuscript is the one that was drafted
    uploads

placeVars == <<ms, parts, anchors, placed, fresh, uploads>>

Words(m) == FlattenSeq([i \in DOMAIN m |-> m[i].words])
Offset(m, i) == Len(Words(SubSeq(m, 1, i - 1)))

(***************************************************************************)
(* Chunks.                                                                 *)
(***************************************************************************)
\* The headings of a level, as they follow one another.
Headings(m, level) == Ascending({i \in DOMAIN m : m[i].level = level})

\* The lines the text is cut at: whatever line reads like a heading of the level.
Cuts(m, level) ==
    Ascending({i \in DOMAIN m :
                  m[i].words # <<>> /\ \E h \in DOMAIN m : m[h].level = level /\ m[h].words = m[i].words})

\* Chapter 0 is what stands before the first cut.
Chapter(m, level, k) ==
    LET cuts == Cuts(m, level)
        from == IF k = 0 THEN 1 ELSE cuts[k]
        to == IF k < Len(cuts) THEN cuts[k + 1] - 1 ELSE Len(m)
    IN [i \in 1..(to - from + 1) |-> m[from + i - 1].words]

\* One more paragraph: a new part where it would overflow the last.
AddParagraph(out, p) ==
    IF out = <<>> \/ Len(Last(out)) + Len(p) > MaxInput
    THEN Append(out, p) ELSE Append(Front(out), Last(out) \o p)

SplitLong(paras) ==
    LET out[n \in 0..Len(paras)] == IF n = 0 THEN <<>> ELSE AddParagraph(out[n - 1], paras[n])
    IN IF Len(FlattenSeq(paras)) <= MaxInput THEN <<FlattenSeq(paras)>> ELSE out[Len(paras)]

Chunks(m, level) ==
    FlattenSeq([k \in 1..Len(Cuts(m, level)) + 1 |->
        LET paras == Chapter(m, level, k - 1) IN
        IF Len(FlattenSeq(paras)) < MinChunk THEN <<>>
        ELSE LET split == SplitLong(paras) IN [j \in DOMAIN split |-> [home |-> k - 1, words |-> split[j]]]])

DraftLevel == IF parts THEN 2 ELSE 1

(***************************************************************************)
(* PlaceMarkers.                                                           *)
(***************************************************************************)
PlaceLevel(m) == IF \E i \in DOMAIN m : m[i].level = 1 THEN 1
                 ELSE IF \E i \in DOMAIN m : m[i].level = 2 THEN 2 ELSE 1

Bounds(m) == LET heads == Headings(m, PlaceLevel(m)) IN [k \in DOMAIN heads |-> Offset(m, heads[k])]

Shift_None(m) == 0

\* Untitled front matter is chunk 1 when there is enough of it.
Shift(m) == IF Bounds(m) # <<>> /\ Bounds(m)[1] >= MinChunk THEN 1 ELSE 0

ChapterRange(m, ch) ==
    LET b == Bounds(m)
        k == ch - Shift(m)
    IN IF k <= 0 THEN <<0, IF b = <<>> THEN Len(Words(m)) ELSE b[1]>>
       ELSE IF k > Len(b) THEN <<0, Len(Words(m))>>
       ELSE <<b[k], IF k < Len(b) THEN b[k + 1] ELSE Len(Words(m))>>

\* A fragment is looked for as bytes, not as words: it may begin inside a word
\* and end inside one. Where it is found, the marker goes after that last word.
Stands(t, f, i) ==
    /\ \A k \in 2..Len(f) - 1 : t[i - Len(f) + k] = f[k]
    /\ f[1] = t[i - Len(f) + 1] \/ <<f[1], t[i - Len(f) + 1]>> \in WordTails
    /\ f[Len(f)] = t[i] \/ <<f[Len(f)], t[i]>> \in WordHeads

Ends(t, f, lo, hi) == {i \in (lo + Len(f))..hi : Stands(t, f, i)}

\* In the chapter, else anywhere; 0 when it is nowhere.
Try(t, f, lo, hi) ==
    IF Ends(t, f, lo, hi) # {} THEN First(Ends(t, f, lo, hi))
    ELSE IF Ends(t, f, 0, Len(t)) # {} THEN First(Ends(t, f, 0, Len(t))) ELSE 0

\* The fragment, then without words at its end, then at its start.
Shortened(f) ==
    <<f>> \o [n \in 1..Len(f) - MinAnchor |-> SubSeq(f, 1, Len(f) - n)]
          \o [n \in 1..Len(f) - MinAnchor |-> SubSeq(f, n + 1, Len(f))]

FindAnchor(m, a) ==
    LET range == ChapterRange(m, a.chapter)
        tries == [i \in DOMAIN Shortened(a.text) |-> Try(Words(m), Shortened(a.text)[i], range[1], range[2])]
        hits == {i \in DOMAIN tries : tries[i] # 0}
    IN IF hits = {} THEN 0 ELSE tries[First(hits)]

PlaceMarkers(m, as) == [a \in as |-> FindAnchor(m, a)]

-----------------------------------------------------------------------------
PlacesInit ==
    /\ ms \in Manuscripts /\ parts \in BOOLEAN
    /\ anchors = {} /\ placed = <<>> /\ fresh = FALSE /\ uploads = 0

\* The model copies one fragment from each chunk.
RunIndexDraft ==
    LET chunks == Chunks(ms, DraftLevel) IN
    /\ anchors = {} /\ chunks # <<>>
    /\ \E at \in [DOMAIN chunks -> 0..MaxInput] :
          /\ \A n \in DOMAIN chunks : at[n] + AnchorWords <= Len(chunks[n].words)
          /\ anchors' = {[chapter |-> n, home |-> chunks[n].home,
                          text |-> SubSeq(chunks[n].words, at[n] + 1, at[n] + AnchorWords)] : n \in DOMAIN chunks}
    /\ placed' = PlaceMarkers(ms, anchors')
    /\ fresh' = TRUE /\ UNCHANGED <<ms, parts, uploads>>

UploadSource(m) ==
    /\ uploads < MaxUploads /\ m # ms
    /\ ms' = m /\ fresh' = FALSE /\ placed' = <<>> /\ uploads' = uploads + 1
    /\ UNCHANGED <<parts, anchors>>

\* A review or a build: applyIndexMarkers.
ApplyIndexMarkers ==
    /\ anchors # {} /\ placed = <<>>
    /\ placed' = PlaceMarkers(ms, anchors)
    /\ UNCHANGED <<ms, parts, anchors, fresh, uploads>>

PlacesNext == RunIndexDraft \/ ApplyIndexMarkers \/ \E m \in Manuscripts : UploadSource(m)

PlacesSpec == PlacesInit /\ [][PlacesNext]_placeVars

-----------------------------------------------------------------------------
\* Whatever file replaced the one that was drafted, a marker stands after a run
\* of at least MinAnchor words of its anchor, in their order, of which the first
\* may be the end of a longer word there, and the last the beginning of one.
OnItsWords ==
    \A a \in DOMAIN placed : placed[a] # 0 =>
        \E i, j \in 1..AnchorWords : /\ j - i + 1 >= MinAnchor
                                     /\ placed[a] \in Ends(Words(ms), SubSeq(a.text, i, j), 0, Len(Words(ms)))

\* "reported, never guessed" (Unmatched): a marker stands after words of its
\* anchor. Not so: the end of a longer word will do for the first of them.
OnWholeWords ==
    \A a \in DOMAIN placed : placed[a] # 0 =>
        \E i, j \in 1..AnchorWords : /\ j - i + 1 >= MinAnchor
                                     /\ placed[a] >= j - i + 1
                                     /\ SubSeq(Words(ms), placed[a] - (j - i), placed[a]) = SubSeq(a.text, i, j)

\* An anchor whose words stand once in the file is placed there, wherever its
\* chapter has moved and however chapters are numbered now.
FoundWhereverItIs ==
    \A a \in DOMAIN placed :
        LET ends == Ends(Words(ms), a.text, 0, Len(Words(ms))) IN
        Cardinality(ends) = 1 => placed[a] \in ends

\* In the file it was drafted from, no anchor is missed or found by a shortened
\* fragment, wherever the chunks were cut and whatever chapter its number names.
DraftedIsFound ==
    fresh => \A a \in DOMAIN placed : placed[a] \in Ends(Words(ms), a.text, 0, Len(Words(ms)))

HomeChapter(a) ==
    placed[a] > 0 /\ LET k == {c \in 1..Len(Cuts(ms, DraftLevel)) : Offset(ms, Cuts(ms, DraftLevel)[c]) < placed[a]}
                     IN Cardinality(k) = a.home

\* Every chapter is one chunk, chapters are the first level of heading, and no
\* other line reads like one of their headings.
Regular ==
    /\ PlaceLevel(ms) = DraftLevel
    /\ Cuts(ms, DraftLevel) = Headings(ms, DraftLevel)
    /\ \A k \in 1..Len(Cuts(ms, DraftLevel)) :
          LET n == Len(FlattenSeq(Chapter(ms, DraftLevel, k))) IN n >= MinChunk /\ n <= MaxInput
    /\ Len(FlattenSeq(Chapter(ms, DraftLevel, 0))) <= MaxInput

\* In the file it was drafted from, an anchor lands in the chapter it was copied
\* from, though its words may stand in others, if chapters and chunks agree.
LandsAtHome == fresh /\ Regular => \A a \in DOMAIN placed : HomeChapter(a)

\* The same without that condition: chapter k of PlaceMarkers matches Chunks.
ChaptersMatchChunks == fresh => \A a \in DOMAIN placed : HomeChapter(a)

\* A marker is put where the words are: on them or inside longer words, wherever
\* they moved to; in the file that was drafted no anchor is missed, and each is
\* in the chapter it came from where chapters and chunks agree
\* (indexer/anchor.go).
PlacesSafe ==
    /\ OnItsWords
    /\ FoundWhereverItIs
    /\ DraftedIsFound
    /\ LandsAtHome
=============================================================================
