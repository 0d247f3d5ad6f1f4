---------------------------- MODULE StyleSheets ----------------------------
(***************************************************************************)
(* Style sheets: a project's own sheet, copied from the house style for    *)
(* its kind of book, and the review tool in which two editors propose and  *)
(* accept edits of the house text. The house style itself is read-only.    *)
(*                                                                         *)
(* Every statement is an action of its own, but for the review tool's      *)
(* transaction. Text 0 is the studio's; other texts are the client's.      *)
(***************************************************************************)
EXTENDS Naturals, FiniteSets

CONSTANTS
    BothRules,   \* house_style rows for every book
    FictionRules, NonfictionRules,
    OwnRules,    \* rules a client may add
    Texts,       \* texts a rule may be given; 0 is the studio's
    Visits,      \* GET and PATCH requests of the sheet
    ItemPatches, \* PATCH requests of a rule
    Proposals,   \* edits proposed in the review tool, and the requests for them
    Decisions    \* accept and reject requests of the review tool

ASSUME StyleSheetsAssumption ==
    /\ 0 \in Texts /\ 0 \notin Proposals
    /\ OwnRules \cap (BothRules \cup FictionRules \cup NonfictionRules) = {}
    /\ BothRules # {} /\ Proposals # {}

VARIABLES
    bookKind, \* project_stylesheets.book_kind, "none" before the first visit
    item,     \* project_stylesheet_items
    visit,    \* where each visit is
    patch,    \* where each item patch is, and the row it has read
    overlap,  \* history: visits during which another visit changed the kind
    piEdit,   \* stylesheet_edits of one reviewed item: proposed, state
    piText,   \* the reviewed item: the proposal its text comes from, 0 at first
    decide,   \* where each decision is
    raced     \* history: proposals or decisions of the review tool overlapped

sheetVars == <<bookKind, item, visit, patch, overlap>>
reviewVars == <<piEdit, piText, decide, raced>>
styleVars == <<sheetVars, reviewVars>>

HouseRules == BothRules \cup FictionRules \cup NonfictionRules
Rules == HouseRules \cup OwnRules
Of(kind) == BothRules \cup (IF kind = "fiction" THEN FictionRules
                            ELSE IF kind = "nonfiction" THEN NonfictionRules ELSE {})
BookKinds == {"both", "fiction", "nonfiction"}
Row == [status: {"absent", "accepted", "rejected", "edited", "added"}, text: Texts, note: BOOLEAN]
Absent == [status |-> "absent", text |-> 0, note |-> FALSE]
Accepted == [status |-> "accepted", text |-> 0, note |-> FALSE]
Present(i) == item[i].status # "absent"
NewVisit == [pc |-> "new", kind |-> "both", read |-> "none"]
NewPatch == [pc |-> "new", rule |-> CHOOSE i \in Rules : TRUE, row |-> Absent]
NewDecision == [pc |-> "new", edit |-> CHOOSE e \in Proposals : TRUE, accept |-> FALSE]

StyleTypeOK ==
    /\ bookKind \in BookKinds \cup {"none"}
    /\ item \in [Rules -> Row]
    /\ \A i \in OwnRules : item[i].status \in {"absent", "added", "rejected"}
    /\ \A i \in HouseRules : item[i].status # "added"
    /\ visit \in [Visits -> [pc: {"new", "seed1", "update", "prune", "seed2", "ensure", "seed", "select", "done"},
                             kind: BookKinds \cup {"get"}, read: BookKinds \cup {"none"}]]
    /\ patch \in [ItemPatches -> [pc: {"new", "write", "done"}, rule: Rules, row: Row]]
    /\ overlap \subseteq Visits
    /\ piEdit \in [Proposals -> {"none", "superseding", "pending", "accepted", "rejected"}]
    /\ piText \in Proposals \cup {0}
    /\ decide \in [Decisions -> [pc: {"new", "commit", "done"}, edit: Proposals, accept: BOOLEAN]]
    /\ raced \in BOOLEAN

StyleInit ==
    /\ bookKind = "none"
    /\ item = [i \in Rules |-> Absent]
    /\ visit = [v \in Visits |-> NewVisit]
    /\ patch = [x \in ItemPatches |-> NewPatch]
    /\ overlap = {}
    /\ piEdit = [e \in Proposals |-> "none"] /\ piText = 0
    /\ decide = [d \in Decisions |-> NewDecision]
    /\ raced = FALSE

(***************************************************************************)
(* A visit: GET ensures and reads the sheet; PATCH ensures, sets the kind, *)
(* prunes, seeds, and then reads the sheet as a GET does.                  *)
(***************************************************************************)
Seeded_WhenEmpty(kind) ==
    IF \E i \in Rules : Present(i) THEN item
    ELSE [i \in Rules |-> IF i \in Of(kind) THEN Accepted ELSE item[i]]

\* INSERT ... SELECT ... WHERE NOT EXISTS
Seeded(kind) == [i \in Rules |-> IF i \in Of(kind) /\ ~ Present(i) THEN Accepted ELSE item[i]]

Untouched_Status(i) == item[i].status = "accepted"

Untouched(i) == item[i].status = "accepted" /\ ~ item[i].note

\* pssPruneOtherKinds: the rules of the other kind, or of both kinds when the
\* new kind is "both".
WithoutOthers(kind) == [i \in Rules |-> IF i \in HouseRules \ Of(kind) /\ Untouched(i) THEN Absent ELSE item[i]]

Go(v, pc) == visit' = [visit EXCEPT ![v].pc = pc]

\* pssEnsure reads the kind, or inserts the sheet.
EnsureSheet(v, from, to) ==
    LET kind == IF bookKind = "none" THEN "both" ELSE bookKind IN
    /\ visit[v].pc = from
    /\ bookKind' = kind
    /\ visit' = [visit EXCEPT ![v].pc = to, ![v].read = kind]
    /\ UNCHANGED <<item, patch, overlap, reviewVars>>

\* Who begins while a kind that another has replaced is still to be pruned for
\* overlaps that change.
BeginVisit(v, kind) ==
    LET current == IF bookKind = "none" THEN "both" ELSE bookKind
        stale == \E u \in Visits : visit[u].pc = "prune" /\ visit[u].kind # current IN
    /\ visit[v].pc = "new"
    /\ visit' = [visit EXCEPT ![v] = [pc |-> IF kind = "get" THEN "seed" ELSE "seed1", kind |-> kind,
                                      read |-> current]]
    /\ bookKind' = current
    /\ overlap' = IF stale THEN overlap \cup {v} ELSE overlap
    /\ UNCHANGED <<item, patch, reviewVars>>

SeedRead(v, from, to) ==
    /\ visit[v].pc = from
    /\ item' = Seeded(visit[v].read)
    /\ Go(v, to)
    /\ UNCHANGED <<bookKind, patch, overlap, reviewVars>>

\* Visits in flight when the kind changes, or in flight together with one
\* that has changed it, may show either kind's rules.
UpdateKind(v) ==
    LET busy == {u \in Visits \ {v} : visit[u].pc \notin {"new", "done"}} IN
    /\ visit[v].pc = "update"
    /\ bookKind' = visit[v].kind
    /\ overlap' = overlap \cup busy \cup (IF \E u \in busy : visit[u].kind # "get" THEN {v} ELSE {})
    /\ Go(v, "prune")
    /\ UNCHANGED <<item, patch, reviewVars>>

PruneOtherKinds(v) ==
    /\ visit[v].pc = "prune"
    /\ item' = WithoutOthers(visit[v].kind)
    /\ Go(v, "seed2")
    /\ UNCHANGED <<bookKind, patch, overlap, reviewVars>>

SeedKind(v) ==
    /\ visit[v].pc = "seed2"
    /\ item' = Seeded(visit[v].kind)
    /\ Go(v, "ensure")
    /\ UNCHANGED <<bookKind, patch, overlap, reviewVars>>

\* The answer is one SELECT; after it the request is over.
ShowSheet(v) ==
    /\ visit[v].pc = "select"
    /\ Go(v, "done")
    /\ UNCHANGED <<bookKind, item, patch, overlap, reviewVars>>

\* The client goes away: the next statement fails.
LeaveVisit(v) ==
    /\ visit[v].pc \in {"update", "prune", "seed2", "ensure", "seed"}
    /\ Go(v, "done")
    /\ UNCHANGED <<bookKind, item, patch, overlap, reviewVars>>

(***************************************************************************)
(* One rule at a time.                                                     *)
(***************************************************************************)
AcceptAllStatus(i) ==
    IF i \in OwnRules THEN "added" ELSE IF item[i].text = 0 THEN "accepted" ELSE "edited"

\* handleProjectStylesheetAcceptAll (its pssEnsure is a visit of its own).
AcceptAll ==
    /\ \E i \in Rules : item[i].status = "rejected"
    /\ item' = [i \in Rules |-> IF item[i].status = "rejected"
                                THEN [item[i] EXCEPT !.status = AcceptAllStatus(i)] ELSE item[i]]
    /\ UNCHANGED <<bookKind, visit, patch, overlap, reviewVars>>

AddRule(i, text, note) ==
    /\ i \in OwnRules /\ ~ Present(i) /\ bookKind # "none"
    /\ item' = [item EXCEPT ![i] = [status |-> "added", text |-> text, note |-> note]]
    /\ UNCHANGED <<bookKind, visit, patch, overlap, reviewVars>>

DeleteRule(i) ==
    /\ i \in OwnRules /\ Present(i)
    /\ item' = [item EXCEPT ![i] = Absent]
    /\ UNCHANGED <<bookKind, visit, patch, overlap, reviewVars>>

RestoreRule(i) ==
    /\ i \in HouseRules /\ Present(i)
    /\ item' = [item EXCEPT ![i].text = 0, ![i].status = "accepted"]
    /\ UNCHANGED <<bookKind, visit, patch, overlap, reviewVars>>

ReadRule(x, i) ==
    /\ patch[x].pc = "new" /\ Present(i)
    /\ patch' = [patch EXCEPT ![x] = [pc |-> "write", rule |-> i, row |-> item[i]]]
    /\ UNCHANGED <<bookKind, item, visit, overlap, reviewVars>>

\* The status of a row that is not rejected follows from its text.
Derived(i, text) == IF i \in OwnRules THEN "added" ELSE IF text = 0 THEN "accepted" ELSE "edited"

\* The whole row is written back; a row pruned or deleted since is not made again.
WriteRule(x, text, note, reject) ==
    LET i == patch[x].rule IN
    /\ patch[x].pc = "write"
    /\ text = patch[x].row.text \/ note = patch[x].row.note
    /\ item' = IF Present(i)
               THEN [item EXCEPT ![i] = [status |-> IF reject THEN "rejected" ELSE Derived(i, text),
                                         text |-> text, note |-> note]]
               ELSE item
    /\ patch' = [patch EXCEPT ![x] = [NewPatch EXCEPT !.pc = "done"]]
    /\ UNCHANGED <<bookKind, visit, overlap, reviewVars>>

(***************************************************************************)
(* The review tool, for one item of the house text.                        *)
(***************************************************************************)
InFlight == \/ \E e \in Proposals : piEdit[e] = "superseding"
            \/ \E d \in Decisions : decide[d].pc = "commit"

SupersedePending(e) ==
    /\ piEdit[e] = "none"
    /\ piEdit' = [f \in Proposals |-> IF f = e THEN "superseding"
                                      ELSE IF piEdit[f] = "pending" THEN "rejected" ELSE piEdit[f]]
    /\ raced' = (raced \/ InFlight)
    /\ UNCHANGED <<sheetVars, piText, decide>>

InsertEdit(e) ==
    /\ piEdit[e] = "superseding"
    /\ piEdit' = [piEdit EXCEPT ![e] = "pending"]
    /\ UNCHANGED <<sheetVars, piText, decide, raced>>

FindPending(d, e, accept) ==
    /\ decide[d].pc = "new" /\ piEdit[e] = "pending"
    /\ decide' = [decide EXCEPT ![d] = [pc |-> "commit", edit |-> e, accept |-> accept]]
    /\ raced' = (raced \/ InFlight)
    /\ UNCHANGED <<sheetVars, piEdit, piText>>

\* The transaction does not look at the state again.
ResolveEdit(d) ==
    LET e == decide[d].edit IN
    /\ decide[d].pc = "commit"
    /\ piText' = IF decide[d].accept THEN e ELSE piText
    /\ piEdit' = [piEdit EXCEPT ![e] = IF decide[d].accept THEN "accepted" ELSE "rejected"]
    /\ decide' = [decide EXCEPT ![d] = [NewDecision EXCEPT !.pc = "done"]]
    /\ UNCHANGED <<sheetVars, raced>>

VisitStep(v) ==
    \/ \E kind \in BookKinds \cup {"get"} : BeginVisit(v, kind)
    \/ SeedRead(v, "seed1", "update") \/ UpdateKind(v) \/ PruneOtherKinds(v) \/ SeedKind(v)
    \/ EnsureSheet(v, "ensure", "seed") \/ SeedRead(v, "seed", "select") \/ ShowSheet(v)
    \/ LeaveVisit(v)

SheetNext ==
    \/ \E v \in Visits : VisitStep(v)
    \/ AcceptAll
    \/ \E i \in Rules : \/ DeleteRule(i) \/ RestoreRule(i)
                        \/ \E text \in Texts, note \in BOOLEAN : AddRule(i, text, note)
    \/ \E x \in ItemPatches : \/ \E i \in Rules : ReadRule(x, i)
                              \/ \E text \in Texts, note, reject \in BOOLEAN : WriteRule(x, text, note, reject)

ReviewNext ==
    \/ \E e \in Proposals : SupersedePending(e) \/ InsertEdit(e)
    \/ \E d \in Decisions : ResolveEdit(d) \/ \E e \in Proposals, a \in BOOLEAN : FindPending(d, e, a)

StyleNext == SheetNext \/ ReviewNext

StyleSpec == StyleInit /\ [][StyleNext]_styleVars

-----------------------------------------------------------------------------
\* "changing kind adds and never overwrites a client decision": no step of a
\* visit, whatever overlaps it, drops or changes a rule the client has edited,
\* rejected or annotated, or added.
DecisionsKept ==
    [][visit' # visit =>
         \A i \in Rules : Present(i) /\ (item[i].status # "accepted" \/ item[i].note)
                            => item'[i] = item[i]]_styleVars

\* What a row says of itself is true of its text, after any mixture of stale
\* writes, accept-alls and restores: accepted is the studio's wording, edited
\* is another.
StatusFollowsText ==
    \A i \in HouseRules : /\ item[i].status = "accepted" => item[i].text = 0
                          /\ item[i].status = "edited" => item[i].text # 0

\* A sheet is shown with every rule of its kind, also after requests that were
\* abandoned half-way, if no change of kind overlapped the visit.
ShownComplete ==
    \A v \in Visits \ overlap : visit[v].pc = "select" =>
        \A i \in Of(visit[v].read) : Present(i)

\* One edit of an item is pending at most, and an edit is accepted exactly when
\* its text has been put in, as long as no two requests overlapped. (They do
\* not look again: see the README.)
ReviewSettled ==
    ~ raced => /\ Cardinality({e \in Proposals : piEdit[e] = "pending"}) <= 1
               /\ piText # 0 => piEdit[piText] = "accepted"

\* What a sheet shows is so: statuses tell the truth about their text, no rule
\* of the kind is missing, and a reviewed item has one proposal at a time
\* (project_stylesheet.go, stylesheet.go).
SheetsSafe ==
    /\ StyleTypeOK
    /\ StatusFollowsText
    /\ ShownComplete
    /\ ReviewSettled
=============================================================================
