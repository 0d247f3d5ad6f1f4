------------------------------- MODULE BookMap -------------------------------
(***************************************************************************)
(* How a manuscript is read as a book (src/srv/bookmap.go): which          *)
(* paragraphs are untitled front pieces, which Heading 1 sections are      *)
(* front, body and back matter, and what is dropped because the build      *)
(* generates it. The map is computed in Go from document.xml; the print    *)
(* filter and the EPUB filter (src/typesetting/filters) apply it to what   *)
(* pandoc makes of the same file by counting paragraphs and headings.      *)
(*                                                                         *)
(* A paragraph is its style, the class of its text, the page break it      *)
(* carries and what the print build makes of it. The Title and Subtitle    *)
(* styles are one style here.                                              *)
(***************************************************************************)
EXTENDS Positions, SequencesExt

CONSTANTS
    Paragraphs,     \* what the author may type: [style, text, brk, made]
    Declarations,   \* the untitled pieces a transmittal may list, in canonical order
    StubParas,      \* paragraphs that may be dropped with a title heading (3 in the code)
    StubWords,      \* words that may be (60 in the code)
    MaxTyped        \* bound: paragraphs of a manuscript

VARIABLES
    typed,          \* the manuscript
    declared,       \* the untitled pieces its transmittal lists
    map,            \* what was read of it: its paragraphs, pieces and sections
    printed         \* every paragraph the print filter read, with its place

bookMapVars == <<typed, declared, map, printed>>

UntitledNames == <<"dedication", "epigraph">>

\* What pandoc and then the print filter make of a paragraph: a block of its own;
\* a RawBlock (an ornament, an indented quotation, a list item the client had
\* converted); nothing (one the client had stripped); a line of a poem or of a
\* signature, one block with the lines around it that counts its lines, as a list
\* counts its items; a cell of a table, which counts once.
Makings == {"block", "raw", "nothing", "verse", "cell"}

ASSUME BookMapAssumption ==
    /\ Paragraphs \subseteq [style: STRING, text: STRING, brk: {"none", "before", "after"}, made: Makings]
    /\ \A p \in Paragraphs : p.made # "block" => p.style = "normal"
    /\ \A d \in Declarations : d \in Seq(ToSet(UntitledNames)) /\ IsInjective(d)
    /\ StubParas \in Nat /\ StubWords \in Nat /\ MaxTyped \in Nat

FrontTerms == {"preface", "acknowledgments"}
BackTerms == {"notes", "acknowledgments"}
PieceStyles == {"dedication", "epigraph", "copyright"}

\* Words of a paragraph: "chunk" stands for more text than a stub may hold.
WordsOf(text) ==
    CASE text \in {"", "image"} -> 0 [] text = "chunk" -> StubWords + 1 [] OTHER -> 1

WordCount(ps) == SumOf([i \in DOMAIN ps |-> WordsOf(ps[i].text)])

-----------------------------------------------------------------------------
(* Reading document.xml *)

\* An empty paragraph is skipped, and the break it carries is passed on.
Carry(s, p) ==
    IF p.text = ""
    THEN [at |-> s.at + 1, paras |-> s.paras, pending |-> s.pending \/ p.brk # "none"]
    ELSE [at |-> s.at + 1,
          paras |-> Append(s.paras, [at |-> s.at + 1, style |-> p.style, text |-> p.text, made |-> p.made,
                                     opens |-> p.brk = "before" \/ s.pending]),
          pending |-> p.brk = "after"]

Paras(ms) ==
    LET read[n \in 0..Len(ms)] == IF n = 0 THEN [at |-> 0, paras |-> <<>>, pending |-> FALSE]
                                  ELSE Carry(read[n - 1], ms[n])
    IN read[Len(ms)].paras

Untitled(p) ==
    LET at == Ascending({i \in DOMAIN p : p[i].style # "title"}) IN [k \in DOMAIN at |-> p[at[k]]]

\* The title page is generated, so Title paragraphs are dropped first.
Body(paras) == Untitled(paras)

IsHead(p) == p.style = "h1"

\* The place of the first Heading 1, or one past the end.
FirstHead(ps) ==
    LET heads == {i \in DOMAIN ps : IsHead(ps[i])} IN
    IF heads = {} THEN Len(ps) + 1 ELSE CHOOSE i \in heads : \A j \in heads : i <= j

HasHead(ps) == FirstHead(ps) <= Len(ps)

-----------------------------------------------------------------------------
(* Untitled front matter *)

Byline(p) == p.style \notin PieceStyles /\ p.text = "byline"

StyleOf(p) == IF p.style \in PieceStyles THEN p.style ELSE ""

Joins_AnyStyle(blocks, p) ==
    /\ blocks # <<>> /\ ~p.opens
    /\ ~Last(blocks).drop

\* A paragraph belongs to the block before it unless a page break, another
\* style or a dropped byline stands between them.
Joins(blocks, p) ==
    /\ blocks # <<>> /\ ~p.opens
    /\ ~Last(blocks).drop
    /\ Last(blocks).style = StyleOf(p)

\* The author's byline is a block of its own, dropped.
Gather(blocks, p) ==
    CASE Byline(p) -> Append(blocks, [style |-> "", paras |-> <<p>>, drop |-> TRUE])
      [] ~Byline(p) /\ Joins(blocks, p) -> Append(Front(blocks), [Last(blocks) EXCEPT !.paras = Append(@, p)])
      [] OTHER -> Append(blocks, [style |-> StyleOf(p), paras |-> <<p>>, drop |-> FALSE])

\* A typed copyright page is dropped: the build sets its own.
DropCopyright(bs) == [k \in DOMAIN bs |-> [bs[k] EXCEPT !.drop = @ \/ bs[k].style = "copyright"]]

Blocks(body) ==
    IF ~HasHead(body) THEN <<>>
    ELSE LET gathered[n \in 0..FirstHead(body) - 1] ==
                 IF n = 0 THEN <<>> ELSE Gather(gathered[n - 1], body[n])
         IN DropCopyright(gathered[FirstHead(body) - 1])

\* The names left for plain blocks: those the transmittal lists, then the others.
Unused(names, used) ==
    LET at == Ascending({i \in DOMAIN names : names[i] \notin used}) IN [k \in DOMAIN at |-> names[at[k]]]

FreeNames(used) == Unused(declared, used) \o Unused(UntitledNames, used \cup ToSet(declared))

\* Each block with its name and length, as the filters receive them.
Pieces(bs) ==
    LET free == FreeNames({bs[k].style : k \in {j \in DOMAIN bs : ~bs[j].drop}})
        plain(k) == Cardinality({j \in 1 .. k : ~bs[j].drop /\ bs[j].style = ""})
    IN [k \in DOMAIN bs |->
           [count |-> Len(bs[k].paras), drop |-> bs[k].drop, styled |-> bs[k].style # "",
            name |-> CASE bs[k].drop -> "dropped"
                       [] ~bs[k].drop /\ bs[k].style # "" -> bs[k].style
                       [] OTHER -> IF plain(k) <= Len(free) THEN free[plain(k)] ELSE "page"]]

-----------------------------------------------------------------------------
(* Sections *)

\* Each Heading 1 with the paragraphs up to the next.
Spans(b) ==
    LET heads == Ascending({i \in DOMAIN b : IsHead(b[i])})
        end(k) == IF k = Len(heads) THEN Len(b) ELSE heads[k + 1] - 1
    IN [k \in DOMAIN heads |-> [head |-> b[heads[k]], paras |-> SubSeq(b, heads[k] + 1, end(k))]]

IsTitleStub(ps) ==
    /\ Len(ps) <= StubParas
    /\ \A i \in DOMAIN ps : ps[i].style # "h2"
    /\ WordCount(ps) <= StubWords

\* What the build generates itself: a title heading over a stub, a contents list.
Generated(sp, k) ==
    CASE k = 1 /\ sp.head.text = "booktitle" /\ IsTitleStub(sp.paras) -> "title"
      [] sp.head.text = "contents" -> "toc"
      [] OTHER -> ""

\* The headings that are left to classify.
Classed(sps) == {k \in DOMAIN sps : Generated(sps[k], k) = ""}

FrontRun(sps) == {k \in Classed(sps) : \A i \in Classed(sps) : i <= k => sps[i].head.text \in FrontTerms}

BackRun(sps) ==
    {k \in Classed(sps) : \A i \in Classed(sps) : i >= k => sps[i].head.text \in BackTerms} \ FrontRun(sps)

\* The kind of every section: the leading run of front-matter headings, the
\* trailing run of back-matter ones, body between them. Headings that are all
\* front matter are all body.
SectionKinds(sps) ==
    LET allFront == FrontRun(sps) = Classed(sps) IN
    [k \in DOMAIN sps |->
        CASE k \notin Classed(sps) -> Generated(sps[k], k)
          [] ~allFront /\ k \in FrontRun(sps) -> "front"
          [] ~allFront /\ k \in BackRun(sps) -> "back"
          [] OTHER -> "body"]

\* The words the final's gate counts: zero refuses the final.
KeptWords(m) ==
    IF m.spans = <<>> THEN WordCount(m.body)
    ELSE SumOf([k \in DOMAIN m.spans |->
                   IF m.kinds[k] \in {"title", "toc"} THEN 0
                   ELSE WordCount(<<m.spans[k].head>> \o m.spans[k].paras)])

\* buildBookMapInner.
BuildBookMap(ms) ==
    LET paras == Paras(ms)
        body == Body(paras)
        blocks == Blocks(body)
        spans == Spans(body)
    IN [paras |-> paras, body |-> body, blocks |-> blocks, pieces |-> Pieces(blocks),
        spans |-> spans, kinds |-> SectionKinds(spans)]

-----------------------------------------------------------------------------
(* The filters *)

\* Pandoc makes metadata of the leading Title paragraphs only.
PandocBlocks(p) ==
    LET lifted == {i \in DOMAIN p : \A j \in 1 .. i : p[j].style = "title"} IN
    SubSeq(p, Cardinality(lifted) + 1, Len(p))

PrintBlocks_Lifted(p) == PandocBlocks(p)

\* The print filter removes the others before it counts.
PrintBlocks(p) == Untitled(PandocBlocks(p))

\* Lines of one poem, cells of one table.
Glued(p, x) ==
    x.made \in {"verse", "cell"} /\ \E j \in 2..Len(p) : p[j] = x /\ p[j - 1].made = x.made

\* block_para_count, of a block or of its lines one by one.
Weight(p, x) == IF x.made \in {"raw", "nothing"} \/ (x.made = "cell" /\ Glued(p, x)) THEN 0 ELSE 1

\* consume_piece: what comes next goes to the piece that still lacks paragraphs,
\* else to the next piece. A block is not cut, and the last piece takes the rest.
Consume(pieces, s, glued, weight) ==
    IF glued \/ s.left > 0 \/ s.piece = Len(pieces)
    THEN [piece |-> s.piece, left |-> s.left - weight]
    ELSE [piece |-> s.piece + 1, left |-> pieces[s.piece + 1].count - weight]

\* The piece that takes paragraph i of the front.
PieceFor(p, b, pieces, i) ==
    LET taken[n \in 0..i] ==
            IF n = 0 THEN [piece |-> 1, left |-> pieces[1].count]
            ELSE Consume(pieces, taken[n - 1], Glued(p, b[n]), Weight(p, b[n]))
    IN taken[i].piece

\* Before the first heading there is nothing that counts: pre_paras is 0.
NoneCounts(b) == \A i \in 1..FirstHead(b) - 1 : b[i].made \in {"raw", "nothing"}

\* RawBlocks before a heading are held back and set after it.
Held(b, i) ==
    /\ b[i].made = "raw"
    /\ \E h \in i + 1..Len(b) : IsHead(b[h]) /\ \A j \in i..h - 1 : b[j].made \in {"raw", "nothing"}

SectionPlace(kinds, k) == IF kinds[k] \in {"title", "toc"} THEN "dropped" ELSE kinds[k]

\* Where the filter puts paragraph i of what it reads.
Placed(m, b, i) ==
    LET k == Cardinality({j \in 1..i : IsHead(b[j])}) IN
    CASE ~HasHead(b) -> "body"
      [] HasHead(b) /\ k = 0 /\ ~NoneCounts(b) -> m.pieces[PieceFor(m.paras, b, m.pieces, i)].name
      [] HasHead(b) /\ k = 0 /\ NoneCounts(b) -> SectionPlace(m.kinds, 1)
      [] OTHER -> IF Held(b, i) /\ SectionPlace(m.kinds, k) # "dropped"
                  THEN SectionPlace(m.kinds, k + 1) ELSE SectionPlace(m.kinds, k)

\* Every paragraph that is left, with its place.
Printed(m) ==
    LET b == PrintBlocks(m.paras) IN
    {[at |-> b[i].at, place |-> Placed(m, b, i)] : i \in {j \in DOMAIN b : b[j].made # "nothing"}}

-----------------------------------------------------------------------------
(* Bylines of an anthology *)

\* How sure a paragraph is a chapter's byline.
Confidence(p) ==
    CASE p.style = "author" -> 2 [] p.text = "byline" /\ p.style # "author" -> 1 [] OTHER -> 0

\* Chapter detection: the surest of the paragraphs close under the heading.
BylineUnder(sp) ==
    LET near == {i \in DOMAIN sp.paras : i <= 3 /\ Confidence(sp.paras[i]) > 0} IN
    IF near = {} THEN 0
    ELSE LET best == CHOOSE i \in near : \A j \in near :
                        \/ Confidence(sp.paras[i]) > Confidence(sp.paras[j])
                        \/ Confidence(sp.paras[i]) = Confidence(sp.paras[j]) /\ i <= j
         IN sp.paras[best].at

DetectedChapters(m) == [k \in DOMAIN m.spans |-> BylineUnder(m.spans[k])]

\* Print counts the headings of the source.
PrintByline(m, k) == DetectedChapters(m)[k]

\* The EPUB counts the files with a heading: one per kept untitled piece (each
\* has a block, if no table is cut between two), which gets a hidden heading,
\* then one per kept section.
EPUBByline(m, k) ==
    LET found == DetectedChapters(m)
        pieces == Cardinality({j \in DOMAIN m.pieces : ~m.pieces[j].drop})
        sections == Cardinality({j \in 1 .. k : m.kinds[j] \notin {"title", "toc"}})
    IN IF pieces + sections <= Len(found) THEN found[pieces + sections] ELSE 0

-----------------------------------------------------------------------------

BookMapInit ==
    /\ typed = <<>> /\ declared \in Declarations
    /\ map = BuildBookMap(<<>>) /\ printed = {}

\* The author types one more paragraph, uploads the file again and has it built.
TypeParagraph(p) ==
    /\ Len(typed) < MaxTyped
    /\ typed' = Append(typed, p)
    /\ map' = BuildBookMap(typed')
    /\ printed' = Printed(map')
    /\ UNCHANGED declared

BookMapNext == \E p \in Paragraphs : TypeParagraph(p)

BookMapSpec == BookMapInit /\ [][BookMapNext]_bookMapVars

-----------------------------------------------------------------------------
(* Properties *)

\* Paragraphs of the first k pieces.
Taken(pieces, k) == SumOf([j \in 1..k |-> pieces[j].count])

\* The pieces the filters are told of are as long as the blocks before the
\* first heading, every section has a kind, and no body means no body heading.
BookMapTypeOK ==
    /\ typed \in Seq(Paragraphs) /\ Len(typed) <= MaxTyped
    /\ declared \in Declarations
    /\ HasHead(map.body) => Taken(map.pieces, Len(map.pieces)) = FirstHead(map.body) - 1
    /\ \A k \in DOMAIN map.kinds : map.kinds[k] \in {"front", "body", "back", "title", "toc"}

\* A paragraph opens a page exactly when a page break was typed somewhere
\* between it and the paragraph with text before it.
BreaksCarried ==
    \A i \in DOMAIN map.paras :
        LET this == map.paras[i].at
            prev == IF i = 1 THEN 0 ELSE map.paras[i - 1].at
        IN map.paras[i].opens <=>
              \/ typed[this].brk = "before"
              \/ prev > 0 /\ typed[prev].brk = "after"
              \/ \E j \in prev + 1 .. this - 1 : typed[j].brk # "none"

\* Where the map puts the paragraphs before the first heading, and the others.
PiecesPut(blocks, pieces) ==
    UNION {{[at |-> blocks[k].paras[i].at, place |-> pieces[k].name] : i \in DOMAIN blocks[k].paras}
              : k \in DOMAIN blocks}

SectionsPut(spans, kinds) ==
    UNION {{[at |-> p.at, place |-> SectionPlace(kinds, k)] : p \in ToSet(<<spans[k].head>> \o spans[k].paras)}
              : k \in DOMAIN spans}

MapPut == PiecesPut(map.blocks, map.pieces) \cup SectionsPut(map.spans, map.kinds)

\* The paragraphs the filter may lose count of: before the first heading, from
\* the first that is not a block of its own; after it, what is held or stripped.
Loose(b) ==
    {b[i].at : i \in {j \in DOMAIN b : IF j < FirstHead(b) THEN \E l \in 1..j : b[l].made # "block"
                                       ELSE Held(b, j) \/ b[j].made = "nothing"}}

\* The print filter, which only counts, puts every paragraph where the map put
\* it when it read the file, as long as it has not lost count.
PrintFollowsMap ==
    HasHead(map.body) =>
        \A s \in printed \cup MapPut : s.at \notin Loose(map.body) => s \in printed \cap MapPut

\* Where it has, a paragraph is still in its own piece or in an earlier one (or,
\* where no piece has anything that counts, in the first section), and one of a
\* section is in its own or in the next.
PrintStaysNear ==
    HasHead(map.body) =>
        \A s \in printed :
            \/ \E k \in DOMAIN map.blocks :
                  /\ s.at \in {p.at : p \in ToSet(map.blocks[k].paras)}
                  /\ \/ \E j \in 1..k : s.place = map.pieces[j].name
                     \/ NoneCounts(map.body) /\ s.place = SectionPlace(map.kinds, 1)
            \/ \E k \in DOMAIN map.spans : \E j \in {k, k + 1} \cap DOMAIN map.spans :
                  /\ s.at \in {p.at : p \in ToSet(<<map.spans[k].head>> \o map.spans[k].paras)}
                  /\ s.place = SectionPlace(map.kinds, j)

\* "RawBlocks are our own wrappers and count for nothing": every paragraph is set
\* where the map says. Not so: an ornament, a quotation or a list item may be one.
EveryParagraphFollows == HasHead(map.body) => printed = MapPut

\* A piece of front matter never holds paragraphs of two styles, so a typed
\* copyright page is dropped whole and nothing else with it.
PiecesAreWhole ==
    \A k \in DOMAIN map.blocks : \A p \in ToSet(map.blocks[k].paras) : StyleOf(p) = map.blocks[k].style

RealText(p) == p.text = "chunk" \/ (p.style = "h2" /\ p.text # "byline")

DroppedAsReal(s) ==
    s.place = "dropped" /\ RealText(typed[s.at]) =>
        \/ typed[s.at].style = "copyright"
        \/ \E k \in DOMAIN map.kinds : map.kinds[k] = "toc" /\ s.at \in {p.at : p \in ToSet(map.spans[k].paras)}

\* Real content is not dropped as long as the filter has not lost count: a long
\* text, or a subheading other than the author's name, is left out only in the
\* copyright style or under a Contents heading.
RealTextKept == \A s \in printed : s.at \notin Loose(map.body) => DroppedAsReal(s)

\* "Real content is never dropped". Not so once it has: what a dropped piece
\* takes then, or what is held for a dropped heading, is lost.
RealContentNeverDropped == \A s \in printed : DroppedAsReal(s)

\* Front matter, then body, then back matter: printed folios turn from roman
\* to arabic once and never back.
OrderKept ==
    \A j, k \in DOMAIN map.kinds : j < k =>
        /\ map.kinds[k] = "front" => map.kinds[j] \notin {"body", "back"}
        /\ map.kinds[j] = "back" => map.kinds[k] \notin {"front", "body"}

\* The gate refuses a final exactly when no section of the file sets a word, if
\* headings have words and the client had nothing stripped.
GateMatchesPrint ==
    (\A i \in DOMAIN map.body : /\ map.body[i].made # "nothing"
                                /\ IsHead(map.body[i]) => WordsOf(map.body[i].text) > 0) =>
        (KeptWords(map) = 0 <=>
            \A s \in printed : s.place \in {"front", "body", "back"} => WordsOf(typed[s.at].text) = 0)

\* "words the build will actually set": the gate sees to it that some are. Not so
\* when every item of the file is stripped.
GateSeesWhatIsSet ==
    KeptWords(map) # 0 =>
        \E s \in printed : s.place \in {"front", "body", "back"} /\ WordsOf(typed[s.at].text) > 0

\* A name is given to one block, unless the author styled both.
NamesOnce ==
    \A j, k \in DOMAIN map.pieces :
        j < k /\ map.pieces[j].name = map.pieces[k].name /\ map.pieces[j].name \in ToSet(UntitledNames) =>
            map.pieces[j].styled /\ map.pieces[k].styled

\* Print and EPUB set the same byline under the same heading.
SameBylines ==
    \A k \in DOMAIN map.kinds : map.kinds[k] \notin {"title", "toc"} => EPUBByline(map, k) = PrintByline(map, k)

\* The map reads a manuscript as it was typed: breaks are carried over empty
\* paragraphs, pieces are whole and named once, and the three divisions follow
\* one another (bookmap.go).
MapSafe ==
    /\ BookMapTypeOK
    /\ BreaksCarried
    /\ PiecesAreWhole
    /\ NamesOnce
    /\ OrderKept

\* What is printed is what the map says, and no real text is left out, until the
\* filter loses count; then text moves no further than a piece or a section. The
\* gate on finals counts what is printed (the print filter, keptWordsForBook).
PrintSafe ==
    /\ PrintFollowsMap
    /\ PrintStaysNear
    /\ RealTextKept
    /\ GateMatchesPrint
=============================================================================
