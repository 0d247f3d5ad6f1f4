------------------------------ MODULE MCOffice ------------------------------
(***************************************************************************)
(* The desks an editor works at: transmittals and the book specs filled    *)
(* from them, style sheets, calendars, the entries and the places of an    *)
(* index, the book map, and the stages of a build. Only the first two      *)
(* share state; the other desks share no row, so a behaviour picks one     *)
(* desk and the others stay as they are. The desk of the specs is bounded  *)
(* further: a PUT of a transmittal ends before anything else happens, as   *)
(* what follows its commit concerns the project's name alone.              *)
(***************************************************************************)
EXTENDS BookSpec, StyleSheets, Calendar, IndexEntries, IndexPlaces, MCBookMap,
        BuildStages, TLC

CONSTANTS
    OfficeDesks,
    SpecsRev,  \* bound on writes at the desk of the specs
    SpecsTime  \* bound on its clock

VARIABLE desk

texts == bookSpecVars
sheets == styleVars
papers == <<calendarVars, entryVars, placeVars, bookMapVars>>

Init ==
    /\ desk \in OfficeDesks
    /\ BookSpecInit /\ StyleInit /\ CalendarInit
    /\ EntriesInit /\ PlacesInit /\ BookMapInit /\ StagesInit
    /\ desk # "places" => ms = (CHOOSE m \in Manuscripts : TRUE) /\ parts

TextsDesk ==
    /\ \/ desk = "transmittals" /\ TransmittalNext /\ UNCHANGED specVars
       \/ /\ desk = "specs" /\ BookSpecNext
          /\ rev' <= SpecsRev /\ now' <= SpecsTime
          /\ \A s \in Saves : save[s].pc = "committed" => RenameBook(s)
    /\ UNCHANGED <<sheets, papers, stageVars>>

SheetsDesk ==
    /\ \/ desk = "sheet" /\ SheetNext
       \/ desk = "review" /\ ReviewNext
    /\ UNCHANGED <<texts, papers, stageVars>>

PapersDesk ==
    /\ \/ desk = "calendar" /\ CalendarNext /\ UNCHANGED <<entryVars, placeVars, bookMapVars>>
       \/ desk = "entries" /\ EntriesNext /\ UNCHANGED <<calendarVars, placeVars, bookMapVars>>
       \/ desk = "places" /\ PlacesNext /\ UNCHANGED <<calendarVars, entryVars, bookMapVars>>
       \/ desk = "map" /\ BookMapNext /\ UNCHANGED <<calendarVars, entryVars, placeVars>>
    /\ UNCHANGED <<texts, sheets, stageVars>>

StagesDesk ==
    /\ desk = "stages" /\ StagesNext
    /\ UNCHANGED <<texts, sheets, papers>>

Next ==
    /\ UNCHANGED desk
    /\ TextsDesk \/ SheetsDesk \/ PapersDesk \/ StagesDesk

OfficeSpec == Init /\ [][Next]_<<texts, sheets, papers, stageVars, desk>>

-----------------------------------------------------------------------------
MCForms == {<<"", FALSE>>, <<"final", TRUE>>}

On(f, n) == [form |-> f, day |-> n]
Due(o, c, done) == [orig |-> o, curr |-> c, done |-> done]
MCWorkflow == <<Due(On("date", 1), On("date", 1), FALSE), Due(On("time", 2), On("time", 2), FALSE)>>
MCStarts == {On("date", 0), On("date", 1), On("none", 0)}
MCBodies == {Due(On("date", 2), On("date", 3), FALSE), Due(On("junk", 0), On("date", 1), TRUE)}

\* Headings: one word, another, a third, the second with a qualifier,
\* and the first two in one.
A == <<1>>
B == <<2>>
C == <<3>>
BX == <<2, 9>>
AB == <<1, 2>>
MCReplies ==
    {<<Entry(A, <<>>, NoRef, <<B>>, <<"a1">>)>>,
     <<Entry(B, <<>>, NoRef, <<A>>, <<"b1", "b2">>), Entry(C, <<>>, B, <<>>, <<>>)>>,
     <<Entry(C, <<>>, NoRef, <<A, B>>, <<"c1">>), Entry(A, <<7>>, NoRef, <<>>, <<"a2">>)>>,
     <<Entry(BX, <<>>, <<4>>, <<>>, <<>>), Entry(B, <<7>>, A, <<BX>>, <<"b1", "b3">>)>>,
     <<Entry(A, <<>>, C, <<>>, <<>>), Entry(C, <<>>, NoRef, <<A>>, <<"c2", "c3">>)>>,
     <<Entry(C, <<>>, B, <<A>>, <<>>)>>}
Answer(m, s, see, also, d) ==
    [failed |-> FALSE, merge |-> m, sub |-> s, see |-> see, also |-> also, drop |-> d]
MCMerges ==
    {[Answer(<<>>, <<>>, <<>>, <<>>, {}) EXCEPT !.failed = TRUE],
     Answer(<<<<A, B>>>>, <<>>, <<<<<<5>>, A>>>>, <<<<B, C>>>>, {}),
     Answer(<<<<A, B>>, <<B, C>>>>, <<>>, <<>>, <<>>, {}),
     Answer(<<<<A, AB>>, <<AB, B>>>>, <<>>, <<>>, <<>>, {}),
     Answer(<<<<A, B>>, <<B, A>>>>, <<>>, <<>>, <<>>, {}),
     Answer(<<>>, <<<<C, B, <<8>>>>>>, <<<<<<5>>, C>>>>, <<<<A, C>>, <<C, A>>>>, {}),
     Answer(<<<<BX, B>>>>, <<<<A, BX, <<8>>>>>>, <<>>, <<<<B, C>>>>, {C})}
MCTargets == {A, BX, <<4>>, <<1, 9>>}

\* Chapters that share the phrase 1 2 3: at their start, later, in a section,
\* before the first heading, cut in two, inside longer words, under a line that
\* repeats a title (a typed contents page, a title over a second scene).
TitleLine(l, t) == [level |-> l, words |-> <<t>>]
PlainLine(ws) == [level |-> 0, words |-> ws]
MCWordTails == {<<1, 11>>}
MCWordHeads == {<<3, 13>>}
MCManuscripts ==
    {<<TitleLine(1, 21), PlainLine(<<1, 2, 3>>), TitleLine(1, 22), PlainLine(<<4, 1, 2, 3>>)>>,
     <<PlainLine(<<1, 2, 3>>), TitleLine(1, 21), PlainLine(<<1, 2, 3>>), TitleLine(1, 22), PlainLine(<<5, 6, 1, 2>>)>>,
     <<PlainLine(<<9>>), TitleLine(1, 21), PlainLine(<<4, 1, 2, 3>>), TitleLine(1, 22), PlainLine(<<1, 2, 3>>)>>,
     <<TitleLine(1, 21), TitleLine(1, 22), PlainLine(<<1, 2, 3>>), TitleLine(1, 23), PlainLine(<<1, 2, 3>>)>>,
     <<TitleLine(1, 21), PlainLine(<<1, 2, 3>>), PlainLine(<<4, 5, 6>>), TitleLine(1, 22), PlainLine(<<7, 1, 2, 3>>)>>,
     <<TitleLine(1, 21), TitleLine(2, 22), PlainLine(<<1, 2, 3>>), TitleLine(2, 23), PlainLine(<<1, 2, 3, 6>>)>>,
     <<TitleLine(2, 21), PlainLine(<<1, 2, 3>>), TitleLine(2, 22), PlainLine(<<4, 1, 2, 3>>)>>,
     <<PlainLine(<<1, 2, 3, 4>>)>>,
     <<PlainLine(<<21>>), PlainLine(<<22>>), TitleLine(1, 21), PlainLine(<<1, 2, 3>>), TitleLine(1, 22), PlainLine(<<1, 2, 3>>)>>,
     <<TitleLine(1, 21), PlainLine(<<1, 2, 3>>), PlainLine(<<21>>), PlainLine(<<1, 2, 3>>), TitleLine(1, 22), PlainLine(<<1, 2, 3>>)>>,
     <<TitleLine(1, 21), PlainLine(<<11, 2, 3>>), TitleLine(1, 22), PlainLine(<<1, 2, 13>>)>>,
     <<TitleLine(1, 21), PlainLine(<<2, 3, 4>>), TitleLine(1, 22), PlainLine(<<1, 2, 9, 9>>)>>}

\* What a correction makes of each of the four titles.
MCPatch == <<[t \in 0..3 |-> IF t = 1 THEN 2 ELSE t], [t \in 0..3 |-> IF t = 3 THEN 3 ELSE t + 1]>>

\* The slots of the four desks that have two are the same two values.
MCSymmetry == Permutations(Visits)
=============================================================================
