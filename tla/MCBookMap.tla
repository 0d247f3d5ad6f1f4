----------------------------- MODULE MCBookMap -----------------------------
(***************************************************************************)
(* What an author may type into a manuscript, for TLC: a paragraph of each *)
(* kind the map tells apart, with the page breaks where they matter.       *)
(***************************************************************************)
EXTENDS BookMap

P(s, t, b) == [style |-> s, text |-> t, brk |-> b, made |-> "block"]

\* Paragraphs that are a block each.
MCPlainParagraphs ==
    {P("title", "prose", "none"), P("h2", "chapter", "none"),
     P("dedication", "prose", "none"), P("copyright", "prose", "none"),
     P("normal", "prose", "none"), P("normal", "chunk", "none"), P("normal", "byline", "none"),
     P("normal", "prose", "before"), P("normal", "prose", "after"), P("normal", "", "before")}
    \cup {P("h1", t, "none") : t \in {"preface", "notes", "acknowledgments", "contents", "booktitle", "chapter"}}

Made(m, t, b) == [style |-> "normal", text |-> t, brk |-> b, made |-> m]

\* And the others.
MCParagraphs ==
    MCPlainParagraphs \cup {Made("raw", "chunk", "none"), Made("nothing", "prose", "none"),
                            Made("verse", "prose", "none"), Made("verse", "chunk", "before"),
                            Made("cell", "prose", "none")}

MCDeclarations == {<<"dedication">>}
=============================================================================
