---------------------------- MODULE StudioProofs ----------------------------
(***************************************************************************)
(* What TLAPS proves of three of the studio's desks: of StyleSheets, for   *)
(* any house style, any number of visits, item patches, proposals and      *)
(* decisions; of Calendar, for any workflow, dates and projects, and any   *)
(* finite supply of task ids; and of BuildStages, for any titles, any      *)
(* corrections in order of creation, and any number of runs and edits.     *)
(***************************************************************************)
EXTENDS StyleSheets, Calendar, BuildStages, FiniteSetTheorems, SequenceTheorems,
        WellFoundedInduction, TLAPS

-----------------------------------------------------------------------------
(* What SheetsSafe needs to be inductive.                                  *)

\* A row that may stand for a rule: the types, and StatusFollowsText.
Fits(i, row) ==
    /\ row \in Row
    /\ i \in OwnRules => row.status \in {"absent", "added", "rejected"}
    /\ i \in HouseRules => /\ row.status # "added"
                           /\ row.status = "accepted" => row.text = 0
                           /\ row.status = "edited" => row.text # 0

ItemsFit == item \in [Rules -> Row] /\ \A i \in Rules : Fits(i, item[i])

\* Every variable of StyleTypeOK but the items.
DeskOK ==
    /\ bookKind \in BookKinds \cup {"none"}
    /\ visit \in [Visits -> [pc: {"new", "seed1", "update", "prune", "seed2", "ensure", "seed", "select", "done"},
                             kind: BookKinds \cup {"get"}, read: BookKinds \cup {"none"}]]
    /\ patch \in [ItemPatches -> [pc: {"new", "write", "done"}, rule: Rules, row: Row]]
    /\ overlap \subseteq Visits

ReviewTypes ==
    /\ piEdit \in [Proposals -> {"none", "superseding", "pending", "accepted", "rejected"}]
    /\ piText \in Proposals \cup {0}
    /\ decide \in [Decisions -> [pc: {"new", "commit", "done"}, edit: Proposals, accept: BOOLEAN]]
    /\ raced \in BOOLEAN

\* A PATCH names a kind until it goes on as a GET.
PatchesNameKind ==
    \A v \in Visits : visit[v].pc \in {"seed1", "update", "prune", "seed2", "ensure"}
                        => visit[v].kind \in BookKinds

\* What a visit that nothing overlapped can rely on: from its own change of the
\* kind until it has read the kind again no other PATCH is about to prune, and
\* from then on a PATCH that is prunes for the kind the visit has read.
Undisturbed ==
    \A v \in Visits \ overlap :
        /\ visit[v].pc \in {"prune", "seed2", "ensure"}
             => \A u \in Visits \ {v} : visit[u].pc # "prune"
        /\ visit[v].pc \in {"seed", "select"}
             => /\ visit[v].read = bookKind /\ bookKind # "none"
                /\ \A u \in Visits : visit[u].pc = "prune" => visit[u].kind = bookKind

\* Without a race one request at a time is between its two statements; while a
\* proposal is, none is pending, and a decision that is has the pending edit.
ReviewAlone ==
    ~ raced =>
        /\ \A e, f \in Proposals : piEdit[e] = "superseding" => /\ piEdit[f] = "superseding" => e = f
                                                               /\ piEdit[f] # "pending"
        /\ \A c, d \in Decisions : decide[c].pc = "commit" /\ decide[d].pc = "commit" => c = d
        /\ \A e \in Proposals, d \in Decisions : ~ (piEdit[e] = "superseding" /\ decide[d].pc = "commit")
        /\ \A d \in Decisions : decide[d].pc = "commit" => piEdit[decide[d].edit] = "pending"
        /\ \A e, f \in Proposals : piEdit[e] = "pending" /\ piEdit[f] = "pending" => e = f
        /\ piText # 0 => piEdit[piText] = "accepted"

SheetInv == ItemsFit /\ DeskOK /\ PatchesNameKind /\ Undisturbed /\ ShownComplete

ReviewInv == ReviewTypes /\ ReviewAlone

StyleInv == SheetInv /\ ReviewInv
-----------------------------------------------------------------------------
(* Rows and rules.                                                         *)

LEMMA RuleFacts ==
    /\ \A i \in OwnRules : i \in Rules /\ i \notin HouseRules
    /\ \A i \in HouseRules : i \in Rules /\ i \notin OwnRules
    /\ \A i \in Rules : i \in OwnRules \/ i \in HouseRules
    /\ \A k : Of(k) \subseteq HouseRules
    /\ Rules # {} /\ Proposals # {} /\ 0 \in Texts /\ 0 \notin Proposals
<1>1. OwnRules \cap HouseRules = {} /\ BothRules # {} /\ Proposals # {} /\ 0 \in Texts /\ 0 \notin Proposals
  BY StyleSheetsAssumption DEF HouseRules
<1> QED
  BY <1>1 DEF Rules, HouseRules, Of

LEMMA NewRows ==
    /\ Absent \in Row /\ Accepted \in Row
    /\ Absent.status = "absent" /\ Accepted.status = "accepted" /\ Accepted.text = 0
    /\ \A i \in Rules : Fits(i, Absent)
    /\ \A i \in HouseRules : Fits(i, Accepted)
    /\ NewVisit.pc = "new"
    /\ NewVisit \in [pc: {"new", "seed1", "update", "prune", "seed2", "ensure", "seed", "select", "done"},
                     kind: BookKinds \cup {"get"}, read: BookKinds \cup {"none"}]
    /\ NewPatch \in [pc: {"new", "write", "done"}, rule: Rules, row: Row]
    /\ NewDecision \in [pc: {"new", "commit", "done"}, edit: Proposals, accept: BOOLEAN]
    /\ NewDecision.pc = "new"
<1>1. Absent \in Row /\ Accepted \in Row
  BY RuleFacts DEF Absent, Accepted, Row
<1>2. (CHOOSE i \in Rules : TRUE) \in Rules /\ (CHOOSE e \in Proposals : TRUE) \in Proposals
  BY RuleFacts
<1>3. /\ NewPatch \in [pc: {"new", "write", "done"}, rule: Rules, row: Row]
      /\ NewDecision \in [pc: {"new", "commit", "done"}, edit: Proposals, accept: BOOLEAN]
  BY <1>1, <1>2 DEF NewPatch, NewDecision
<1>4. Absent.status = "absent" /\ Accepted.status = "accepted" /\ Accepted.text = 0
  BY DEF Absent, Accepted
<1>5. (\A i \in Rules : Fits(i, Absent)) /\ (\A i \in HouseRules : Fits(i, Accepted))
  BY <1>1, <1>4, RuleFacts DEF Fits
<1> QED
  BY <1>1, <1>3, <1>4, <1>5 DEF NewVisit, NewDecision, BookKinds

\* A row with a new status and text is a row.
LEMMA RowOf ==
  ASSUME NEW s \in {"absent", "accepted", "rejected", "edited", "added"}, NEW t \in Texts, NEW n \in BOOLEAN
  PROVE  [status |-> s, text |-> t, note |-> n] \in Row
  BY DEF Row

LEMMA StyleInitHolds == StyleInit => StyleInv
<1> SUFFICES ASSUME StyleInit PROVE StyleInv
  OBVIOUS
<1>1. ItemsFit
  BY NewRows DEF ItemsFit, StyleInit
<1>2. DeskOK
  BY NewRows DEF DeskOK, StyleInit
<1>3. PatchesNameKind /\ Undisturbed /\ ShownComplete
  BY NewRows DEF PatchesNameKind, Undisturbed, ShownComplete, StyleInit
<1>4. ReviewTypes
  BY NewRows DEF ReviewTypes, StyleInit
<1>5. ReviewAlone
  BY NewRows DEF ReviewAlone, StyleInit
<1> QED
  BY <1>1, <1>2, <1>3, <1>4, <1>5 DEF StyleInv, SheetInv, ReviewInv

\* Every statement leaves rows that fit their rules.
LEMMA ItemsStep ==
  ASSUME ItemsFit, DeskOK, SheetNext
  PROVE  ItemsFit'
<1> USE RuleFacts, NewRows
<1>0. /\ item \in [Rules -> Row] /\ \A i \in Rules : Fits(i, item[i])
      /\ \A i \in Rules : item[i] \in Row
  BY DEF ItemsFit
<1>a. ASSUME NEW new \in [Rules -> Row], \A i \in Rules : Fits(i, new[i]), item' = new
      PROVE  ItemsFit'
  BY <1>a DEF ItemsFit
<1>b. ASSUME UNCHANGED item
      PROVE  ItemsFit'
  BY <1>0, <1>a, <1>b
<1>c. ASSUME NEW i \in Rules, NEW row \in Row, Fits(i, row), item' = [item EXCEPT ![i] = row]
      PROVE  ItemsFit'
  <2>1. [item EXCEPT ![i] = row] \in [Rules -> Row]
    BY <1>0
  <2>2. \A j \in Rules : [item EXCEPT ![i] = row][j] = IF j = i THEN row ELSE item[j]
    BY <1>0
  <2> QED
    BY <1>0, <1>a, <1>c, <2>1, <2>2
<1>1. ASSUME NEW k, item' = Seeded(k)
      PROVE  ItemsFit'
  <2>1. Seeded(k) \in [Rules -> Row] /\ \A i \in Rules : Fits(i, Seeded(k)[i])
    BY <1>0 DEF Seeded
  <2> QED
    BY <1>1, <1>a, <2>1
<1>2. ASSUME NEW k, item' = WithoutOthers(k)
      PROVE  ItemsFit'
  <2>1. WithoutOthers(k) \in [Rules -> Row] /\ \A i \in Rules : Fits(i, WithoutOthers(k)[i])
    BY <1>0 DEF WithoutOthers
  <2> QED
    BY <1>2, <1>a, <2>1
<1>3. ASSUME NEW v \in Visits, VisitStep(v)
      PROVE  ItemsFit'
  BY <1>3, <1>1, <1>2, <1>b
    DEF VisitStep, BeginVisit, SeedRead, UpdateKind, PruneOtherKinds, SeedKind, EnsureSheet, ShowSheet, LeaveVisit
<1>4. CASE AcceptAll
  <2> DEFINE new == [i \in Rules |-> IF item[i].status = "rejected"
                                     THEN [item[i] EXCEPT !.status = AcceptAllStatus(i)] ELSE item[i]]
  <2>1. ASSUME NEW i \in Rules
        PROVE  Fits(i, new[i])
    <3>1. CASE item[i].status # "rejected"
      BY <1>0, <3>1
    <3>2. CASE item[i].status = "rejected"
      <4>1. AcceptAllStatus(i) \in {"absent", "accepted", "rejected", "edited", "added"}
        BY DEF AcceptAllStatus
      <4>2. new[i] = [item[i] EXCEPT !.status = AcceptAllStatus(i)]
        BY <3>2
      <4> HIDE DEF new
      <4>3. item[i] \in Row
        BY <1>0
      <4>4. new[i] \in Row /\ new[i].status = AcceptAllStatus(i) /\ new[i].text = item[i].text
        BY <4>1, <4>2, <4>3 DEF Row
      <4> QED
        BY <4>4 DEF Fits, AcceptAllStatus
    <3> QED
      BY <3>1, <3>2
  <2>2. new \in [Rules -> Row]
    <3>1. \A i \in Rules : new[i] \in Row
      BY <2>1 DEF Fits
    <3> QED
      BY <3>1
  <2> QED
    BY <1>4, <1>a, <2>1, <2>2 DEF AcceptAll
<1>5. ASSUME NEW i \in Rules, NEW text \in Texts, NEW note \in BOOLEAN, AddRule(i, text, note)
      PROVE  ItemsFit'
  <2> DEFINE row == [status |-> "added", text |-> text, note |-> note]
  <2>1. row \in Row /\ row.status = "added"
    BY RowOf
  <2>2. item' = [item EXCEPT ![i] = row] /\ i \in OwnRules
    BY <1>5 DEF AddRule
  <2> HIDE DEF row
  <2>3. Fits(i, row)
    BY <2>1, <2>2 DEF Fits
  <2> QED
    BY <1>c, <2>1, <2>2, <2>3
<1>6. ASSUME NEW i \in Rules, DeleteRule(i)
      PROVE  ItemsFit'
  BY <1>6, <1>c DEF DeleteRule
<1>7. ASSUME NEW i \in Rules, RestoreRule(i)
      PROVE  ItemsFit'
  <2> DEFINE row == [item[i] EXCEPT !.text = 0, !.status = "accepted"]
  <2>1. row \in Row /\ row.status = "accepted" /\ row.text = 0
    BY <1>0 DEF Row
  <2>2. item' = [item EXCEPT ![i] = row] /\ i \in HouseRules
    <3>1. item' = [item EXCEPT ![i].text = 0, ![i].status = "accepted"] /\ i \in HouseRules
      BY <1>7 DEF RestoreRule
    <3>2. [item EXCEPT ![i].text = 0, ![i].status = "accepted"] = [item EXCEPT ![i] = row]
      BY <1>0
    <3> QED
      BY <3>1, <3>2
  <2> HIDE DEF row
  <2>3. Fits(i, row)
    BY <2>1, <2>2 DEF Fits
  <2> QED
    BY <1>c, <2>1, <2>2, <2>3
<1>8. ASSUME NEW x \in ItemPatches, NEW text \in Texts, NEW note \in BOOLEAN, NEW reject \in BOOLEAN,
             WriteRule(x, text, note, reject)
      PROVE  ItemsFit'
  <2> DEFINE i == patch[x].rule
             row == [status |-> IF reject THEN "rejected" ELSE Derived(i, text), text |-> text, note |-> note]
  <2>1. i \in Rules
    BY DEF DeskOK
  <2>2. row \in Row /\ row.text = text /\ row.status = IF reject THEN "rejected" ELSE Derived(i, text)
    BY RowOf DEF Derived
  <2>3. item' = IF Present(i) THEN [item EXCEPT ![i] = row] ELSE item
    BY <1>8 DEF WriteRule
  <2> HIDE DEF row, i
  <2>4. Fits(i, row)
    BY <2>1, <2>2 DEF Fits, Derived
  <2> QED
    BY <1>b, <1>c, <2>1, <2>2, <2>3, <2>4
<1>9. ASSUME NEW x \in ItemPatches, NEW i \in Rules, ReadRule(x, i)
      PROVE  ItemsFit'
  BY <1>9, <1>b DEF ReadRule
<1> QED
  BY <1>3, <1>4, <1>5, <1>6, <1>7, <1>8, <1>9 DEF SheetNext
-----------------------------------------------------------------------------
(* Visits.                                                                 *)

\* The next statement of a visit, and nothing else of it.
LEMMA GoMoves ==
  ASSUME DeskOK, NEW v \in Visits,
         NEW pc \in {"update", "prune", "seed2", "ensure", "seed", "select", "done"}, Go(v, pc)
  PROVE  /\ visit' \in [Visits -> [pc: {"new", "seed1", "update", "prune", "seed2", "ensure", "seed", "select", "done"},
                                   kind: BookKinds \cup {"get"}, read: BookKinds \cup {"none"}]]
         /\ visit'[v].pc = pc /\ visit'[v].kind = visit[v].kind /\ visit'[v].read = visit[v].read
         /\ \A u \in Visits \ {v} : visit'[u] = visit[u]
<1> DEFINE V == [pc: {"new", "seed1", "update", "prune", "seed2", "ensure", "seed", "select", "done"},
                 kind: BookKinds \cup {"get"}, read: BookKinds \cup {"none"}]
<1>1. visit \in [Visits -> V] /\ visit[v] \in V /\ visit' = [visit EXCEPT ![v].pc = pc]
  BY DEF DeskOK, Go
<1>2. [visit[v] EXCEPT !.pc = pc] \in V
  BY <1>1
<1>3. /\ [visit[v] EXCEPT !.pc = pc].pc = pc
      /\ [visit[v] EXCEPT !.pc = pc].kind = visit[v].kind
      /\ [visit[v] EXCEPT !.pc = pc].read = visit[v].read
  BY <1>1
<1>4. visit' = [visit EXCEPT ![v] = [visit[v] EXCEPT !.pc = pc]]
  BY <1>1
<1> HIDE DEF V
<1>5. visit' \in [Visits -> V] /\ visit'[v] = [visit[v] EXCEPT !.pc = pc]
  BY <1>1, <1>2, <1>4
<1> QED
  BY <1>1, <1>3, <1>4, <1>5 DEF V

\* A rule of the house that is there stays there, but for pruning.
LEMMA HouseKept ==
  ASSUME ItemsFit, ItemsFit', DeskOK, SheetNext, NEW i \in HouseRules, Present(i)
  PROVE  \/ Present(i)'
         \/ \E v \in Visits : PruneOtherKinds(v) /\ i \notin Of(visit[v].kind)
<1> USE RuleFacts, NewRows
<1>0. item \in [Rules -> Row] /\ i \in Rules /\ i \notin OwnRules
  BY DEF ItemsFit
<1>a. ASSUME item' = item
      PROVE  Present(i)'
  BY <1>a DEF Present
<1>1. ASSUME NEW k, item' = Seeded(k)
      PROVE  Present(i)'
  BY <1>0, <1>1 DEF Present, Seeded
<1>2. ASSUME NEW v \in Visits, PruneOtherKinds(v)
      PROVE  Present(i)' \/ i \notin Of(visit[v].kind)
  BY <1>0, <1>2 DEF PruneOtherKinds, WithoutOthers, Present
<1>3. ASSUME NEW v \in Visits, VisitStep(v)
      PROVE  Present(i)' \/ (PruneOtherKinds(v) /\ i \notin Of(visit[v].kind))
  BY <1>3, <1>1, <1>2, <1>a
    DEF VisitStep, BeginVisit, SeedRead, UpdateKind, SeedKind, EnsureSheet, ShowSheet, LeaveVisit
<1>4. CASE AcceptAll
  <2>1. CASE item[i].status = "rejected"
    <3>1. item'[i] = [item[i] EXCEPT !.status = AcceptAllStatus(i)]
      BY <1>0, <1>4, <2>1 DEF AcceptAll
    <3>2. AcceptAllStatus(i) \in {"absent", "accepted", "rejected", "edited", "added"} /\ AcceptAllStatus(i) # "absent"
      BY DEF AcceptAllStatus
    <3>3. item[i] \in Row
      BY <1>0
    <3>4. item'[i].status = AcceptAllStatus(i)
      BY <3>1, <3>2, <3>3 DEF Row
    <3> QED
      BY <3>2, <3>4 DEF Present
  <2>2. CASE item[i].status # "rejected"
    BY <1>0, <1>4, <2>2 DEF AcceptAll, Present
  <2> QED
    BY <2>1, <2>2
<1>5. ASSUME NEW j \in Rules, NEW text \in Texts, NEW note \in BOOLEAN, AddRule(j, text, note)
      PROVE  Present(i)'
  <2>1. item'[i] = item[i]
    BY <1>0, <1>5 DEF AddRule
  <2> QED
    BY <2>1 DEF Present
<1>6. ASSUME NEW j \in Rules, DeleteRule(j)
      PROVE  Present(i)'
  <2>1. item'[i] = item[i]
    BY <1>0, <1>6 DEF DeleteRule
  <2> QED
    BY <2>1 DEF Present
<1>7. ASSUME NEW j \in Rules, RestoreRule(j)
      PROVE  Present(i)'
  <2>1. item' = [item EXCEPT ![j].text = 0, ![j].status = "accepted"]
    BY <1>7 DEF RestoreRule
  <2>2. CASE j = i
    <3>1. item'[i] = [item[i] EXCEPT !.text = 0, !.status = "accepted"]
      BY <1>0, <2>1, <2>2
    <3>2. item'[i].status = "accepted"
      BY <1>0, <3>1 DEF Row
    <3> QED
      BY <3>2 DEF Present
  <2>3. CASE j # i
    <3>1. item'[i] = item[i]
      BY <1>0, <2>1, <2>3
    <3> QED
      BY <3>1 DEF Present
  <2> QED
    BY <2>2, <2>3
<1>8. ASSUME NEW x \in ItemPatches, NEW text \in Texts, NEW note \in BOOLEAN, NEW reject \in BOOLEAN,
             WriteRule(x, text, note, reject)
      PROVE  Present(i)'
  <2> DEFINE j == patch[x].rule
             row == [status |-> IF reject THEN "rejected" ELSE Derived(j, text), text |-> text, note |-> note]
  <2>1. row.status # "absent" /\ j \in Rules
    BY DEF Derived, DeskOK
  <2>2. item' = IF Present(j) THEN [item EXCEPT ![j] = row] ELSE item
    BY <1>8 DEF WriteRule
  <2> HIDE DEF row, j
  <2>3. item'[i] = item[i] \/ item'[i] = row
    BY <1>0, <2>1, <2>2
  <2> QED
    BY <2>1, <2>3 DEF Present
<1>9. ASSUME NEW x \in ItemPatches, NEW j \in Rules, ReadRule(x, j)
      PROVE  Present(i)'
  BY <1>9, <1>a DEF ReadRule
<1> QED
  BY <1>3, <1>4, <1>5, <1>6, <1>7, <1>8, <1>9 DEF SheetNext
\* A sheet that is complete and not disturbed stays complete.
LEMMA ShownKept ==
  ASSUME SheetInv, ItemsFit', SheetNext,
         NEW w \in Visits \ overlap, visit[w].pc = "select", visit'[w] = visit[w]
  PROVE  \A i \in Of(visit'[w].read) : Present(i)'
<1> SUFFICES ASSUME NEW i \in Of(visit[w].read) PROVE Present(i)'
  OBVIOUS
<1>1. Present(i) /\ i \in HouseRules
  BY RuleFacts DEF SheetInv, ShownComplete
<1>2. ASSUME NEW v \in Visits, PruneOtherKinds(v), i \notin Of(visit[v].kind)
      PROVE  FALSE
  <2>1. visit[v].kind = visit[w].read
    BY <1>2 DEF SheetInv, Undisturbed, PruneOtherKinds
  <2> QED
    BY <1>2, <2>1
<1> QED
  BY <1>1, <1>2, HouseKept DEF SheetInv

\* Statements that are no step of a visit.
LEMMA VisitsRest ==
  ASSUME SheetInv, ItemsFit', SheetNext, UNCHANGED <<bookKind, visit, overlap>>
  PROVE  PatchesNameKind' /\ Undisturbed' /\ ShownComplete'
<1>1. PatchesNameKind'
  BY DEF SheetInv, PatchesNameKind
<1>2. Undisturbed'
  BY DEF SheetInv, Undisturbed
<1>3. ShownComplete'
  BY ShownKept DEF ShownComplete
<1> QED
  BY <1>1, <1>2, <1>3

\* A visit goes on, and neither the kind nor the history changes.
LEMMA VisitGoes ==
  ASSUME SheetInv, ItemsFit', SheetNext, NEW v \in Visits,
         NEW from \in {"seed1", "update", "prune", "seed2", "ensure", "seed", "select"}, visit[v].pc = from,
         NEW to \in {"update", "seed2", "ensure", "seed", "select", "done"},
         UNCHANGED overlap, bookKind' \in BookKinds \cup {"none"},
         bookKind # "none" => bookKind' = bookKind,
         visit'[v].pc = to, visit'[v].kind = visit[v].kind,
         \A u \in Visits \ {v} : visit'[u] = visit[u],
         from = "seed1" <=> to = "update",
         to \in {"seed2", "ensure"} => from \in {"prune", "seed2"},
         to = "seed" => from = "ensure" /\ visit'[v].read = bookKind' /\ bookKind' # "none",
         to = "select" => /\ from = "seed" /\ visit'[v].read = visit[v].read
                          /\ \A i \in Of(visit[v].read) : Present(i)'
  PROVE  PatchesNameKind' /\ Undisturbed' /\ ShownComplete'
<1>1. PatchesNameKind'
  BY DEF SheetInv, PatchesNameKind
<1>2. \A u \in Visits : visit'[u].pc = "prune" => /\ visit[u].pc = "prune" /\ visit'[u].kind = visit[u].kind
                                                  /\ u # v
  OBVIOUS
<1>3. ASSUME NEW w \in Visits \ overlap
      PROVE  /\ visit'[w].pc \in {"prune", "seed2", "ensure"}
                  => \A u \in Visits \ {w} : visit'[u].pc # "prune"
             /\ visit'[w].pc \in {"seed", "select"}
                  => /\ visit'[w].read = bookKind' /\ bookKind' # "none"
                     /\ \A u \in Visits : visit'[u].pc = "prune" => visit'[u].kind = bookKind'
  <2>0. /\ visit[w].pc \in {"prune", "seed2", "ensure"}
             => \A u \in Visits \ {w} : visit[u].pc # "prune"
        /\ visit[w].pc \in {"seed", "select"}
             => /\ visit[w].read = bookKind /\ bookKind # "none"
                /\ \A u \in Visits : visit[u].pc = "prune" => visit[u].kind = bookKind
    BY DEF SheetInv, Undisturbed
  <2>1. CASE w # v
    BY <1>2, <2>0, <2>1
  <2>2. CASE w = v
    <3>1. ASSUME to \in {"prune", "seed2", "ensure"}
          PROVE  \A u \in Visits \ {w} : visit'[u].pc # "prune"
      BY <1>2, <2>0, <2>2, <3>1
    <3>2. ASSUME to = "seed"
          PROVE  \A u \in Visits : visit'[u].pc # "prune"
      BY <1>2, <2>0, <2>2, <3>2
    <3>3. ASSUME to = "select"
          PROVE  /\ visit'[w].read = bookKind' /\ bookKind' # "none"
                 /\ \A u \in Visits : visit'[u].pc = "prune" => visit'[u].kind = bookKind'
      BY <1>2, <2>0, <2>2, <3>3
    <3> QED
      BY <2>2, <3>1, <3>2, <3>3
  <2> QED
    BY <2>1, <2>2
<1>4. Undisturbed'
  BY <1>3 DEF Undisturbed
<1>5. ShownComplete'
  <2> SUFFICES ASSUME NEW w \in Visits \ overlap, visit'[w].pc = "select"
               PROVE  \A i \in Of(visit'[w].read) : Present(i)'
    BY DEF ShownComplete
  <2>1. CASE w # v
    BY <2>1, ShownKept
  <2>2. CASE w = v
    BY <2>2
  <2> QED
    BY <2>1, <2>2
<1> QED
  BY <1>1, <1>4, <1>5

LEMMA SeededShows ==
  ASSUME ItemsFit, NEW k, item' = Seeded(k)
  PROVE  \A i \in Of(k) : Present(i)'
<1>1. item \in [Rules -> Row] /\ \A i \in Of(k) : i \in Rules
  BY RuleFacts DEF ItemsFit
<1>2. ASSUME NEW i \in Of(k)
      PROVE  item'[i].status # "absent"
  <2>1. item'[i] = IF ~ Present(i) THEN Accepted ELSE item[i]
    BY <1>1 DEF Seeded
  <2> QED
    BY <2>1, NewRows DEF Present
<1> QED
  BY <1>2 DEF Present

LEMMA VisitsStep ==
  ASSUME SheetInv, ItemsFit', SheetNext
  PROVE  DeskOK' /\ PatchesNameKind' /\ Undisturbed' /\ ShownComplete'
<1> DEFINE V == [pc: {"new", "seed1", "update", "prune", "seed2", "ensure", "seed", "select", "done"},
                 kind: BookKinds \cup {"get"}, read: BookKinds \cup {"none"}]
           Shape == PatchesNameKind' /\ Undisturbed' /\ ShownComplete'
<1> USE RuleFacts, NewRows
<1>0. /\ DeskOK /\ visit \in [Visits -> V] /\ bookKind \in BookKinds \cup {"none"} /\ "both" \in BookKinds
      /\ ItemsFit /\ PatchesNameKind /\ Undisturbed /\ ShownComplete
      /\ "get" \notin BookKinds /\ "none" \notin BookKinds
  BY DEF SheetInv, DeskOK, BookKinds
<1>v. \A v \in Visits : visit[v].kind \in BookKinds \cup {"get"} /\ visit[v].read \in BookKinds \cup {"none"}
  BY <1>0
<1>d. ASSUME visit' \in [Visits -> V], bookKind' \in BookKinds \cup {"none"}, UNCHANGED patch,
             overlap' \subseteq Visits
      PROVE  DeskOK'
  BY <1>0, <1>d DEF DeskOK
<1> HIDE DEF Shape
<1>1. ASSUME NEW v \in Visits, NEW kind \in BookKinds \cup {"get"}, BeginVisit(v, kind)
      PROVE  DeskOK' /\ Shape
  <2> DEFINE current == IF bookKind = "none" THEN "both" ELSE bookKind
             new == [pc |-> IF kind = "get" THEN "seed" ELSE "seed1", kind |-> kind, read |-> current]
  <2>1. /\ visit[v].pc = "new" /\ visit' = [visit EXCEPT ![v] = new]
        /\ bookKind' = current /\ UNCHANGED <<item, patch>>
        /\ overlap \subseteq overlap' /\ overlap' \subseteq overlap \cup {v}
        /\ v \notin overlap' => \A u \in Visits : visit[u].pc = "prune" => visit[u].kind = current
    BY <1>1 DEF BeginVisit
  <2>2. current \in BookKinds /\ (bookKind # "none" => current = bookKind)
    BY <1>0
  <2>3. /\ new \in V /\ new.pc \in {"seed", "seed1"} /\ (new.pc = "seed1" => kind \in BookKinds)
        /\ new.kind = kind /\ new.read = current
    BY <2>2
  <2> HIDE DEF new, current
  <2>4. /\ visit' \in [Visits -> V] /\ visit'[v] = new /\ \A u \in Visits \ {v} : visit'[u] = visit[u]
        /\ overlap' \subseteq Visits
    BY <1>0, <2>1, <2>3 DEF DeskOK
  <2>5. DeskOK'
    BY <1>d, <2>1, <2>2, <2>4
  <2>6. PatchesNameKind'
    BY <1>0, <2>3, <2>4 DEF PatchesNameKind
  <2>7. \A u \in Visits : visit'[u].pc = "prune" =>
            u # v /\ visit[u].pc = "prune" /\ visit'[u].kind = visit[u].kind
    BY <2>3, <2>4
  <2>8. ASSUME NEW w \in Visits \ overlap'
        PROVE  /\ visit'[w].pc \in {"prune", "seed2", "ensure"}
                    => \A u \in Visits \ {w} : visit'[u].pc # "prune"
               /\ visit'[w].pc \in {"seed", "select"}
                    => /\ visit'[w].read = bookKind' /\ bookKind' # "none"
                       /\ \A u \in Visits : visit'[u].pc = "prune" => visit'[u].kind = bookKind'
    <3>1. CASE w # v
      <4>1. w \in Visits \ overlap /\ visit'[w] = visit[w]
        BY <2>1, <2>4, <3>1
      <4> QED
        BY <1>0, <2>1, <2>2, <2>7, <4>1 DEF Undisturbed
    <3>2. CASE w = v
      BY <1>0, <2>1, <2>2, <2>3, <2>4, <2>7, <3>2
    <3> QED
      BY <3>1, <3>2
  <2>9. ShownComplete'
    <3> SUFFICES ASSUME NEW w \in Visits \ overlap', visit'[w].pc = "select"
                 PROVE  \A i \in Of(visit'[w].read) : Present(i)'
      BY DEF ShownComplete
    <3>1. w # v /\ w \in Visits \ overlap /\ visit'[w] = visit[w]
      BY <2>1, <2>3, <2>4
    <3> QED
      BY <3>1, ShownKept
  <2> QED
    BY <2>5, <2>6, <2>8, <2>9 DEF Shape, Undisturbed
<1>2. ASSUME NEW v \in Visits, SeedRead(v, "seed1", "update")
      PROVE  DeskOK' /\ Shape
  <2>1. visit[v].pc = "seed1" /\ Go(v, "update") /\ UNCHANGED <<bookKind, patch, overlap>>
    BY <1>2 DEF SeedRead
  <2>2. /\ visit' \in [Visits -> V] /\ visit'[v].pc = "update" /\ visit'[v].kind = visit[v].kind
        /\ \A u \in Visits \ {v} : visit'[u] = visit[u]
    BY <1>0, <2>1, GoMoves
  <2>3. DeskOK'
    BY <1>0, <1>d, <2>1, <2>2 DEF DeskOK
  <2>4. Shape
    BY <1>0, <2>1, <2>2, VisitGoes DEF Shape
  <2> QED
    BY <2>3, <2>4
<1>3. ASSUME NEW v \in Visits, UpdateKind(v)
      PROVE  DeskOK' /\ Shape
  <2> DEFINE busy == {u \in Visits \ {v} : visit[u].pc \notin {"new", "done"}}
  <2>1. /\ visit[v].pc = "update" /\ Go(v, "prune") /\ UNCHANGED <<item, patch>>
        /\ bookKind' = visit[v].kind
        /\ overlap' = overlap \cup busy \cup (IF \E u \in busy : visit[u].kind # "get" THEN {v} ELSE {})
    BY <1>3 DEF UpdateKind
  <2>2. /\ visit' \in [Visits -> V] /\ visit'[v].pc = "prune" /\ visit'[v].kind = visit[v].kind
        /\ \A u \in Visits \ {v} : visit'[u] = visit[u]
    BY <1>0, <2>1, GoMoves
  <2>3. bookKind' \in BookKinds
    BY <1>0, <2>1 DEF PatchesNameKind
  <2>4. DeskOK'
    BY <1>0, <1>d, <2>1, <2>2, <2>3 DEF DeskOK
  <2>5. PatchesNameKind'
    BY <1>0, <2>1, <2>2, <2>3 DEF PatchesNameKind
  <2>6. ASSUME NEW w \in Visits \ overlap', w # v
        PROVE  visit'[w].pc \in {"new", "done"}
    BY <2>1, <2>2, <2>6
  <2>7. ASSUME v \notin overlap', NEW u \in Visits \ {v}
        PROVE  visit'[u].pc # "prune"
    <3>1. visit'[u] = visit[u]
      BY <2>2
    <3>2. visit[u].pc = "prune" => u \in busy /\ visit[u].kind # "get"
      BY <1>0 DEF PatchesNameKind
    <3>3. ~ \E x \in busy : visit[x].kind # "get"
      BY <2>1, <2>7
    <3> QED
      BY <3>1, <3>2, <3>3
  <2>8. Undisturbed'
    <3> SUFFICES ASSUME NEW w \in Visits \ overlap'
                 PROVE  /\ visit'[w].pc \in {"prune", "seed2", "ensure"}
                             => \A u \in Visits \ {w} : visit'[u].pc # "prune"
                        /\ visit'[w].pc \notin {"seed", "select"}
      BY DEF Undisturbed
    <3>1. CASE w = v
      BY <2>2, <2>7, <3>1
    <3>2. CASE w # v
      BY <2>6, <3>2
    <3> QED
      BY <3>1, <3>2
  <2>9. ShownComplete'
    <3>1. \A w \in Visits \ overlap' : visit'[w].pc # "select"
      BY <2>2, <2>6
    <3> QED
      BY <3>1 DEF ShownComplete
  <2> QED
    BY <2>4, <2>5, <2>8, <2>9 DEF Shape
<1>4. ASSUME NEW v \in Visits, PruneOtherKinds(v)
      PROVE  DeskOK' /\ Shape
  <2>1. visit[v].pc = "prune" /\ Go(v, "seed2") /\ UNCHANGED <<bookKind, patch, overlap>>
    BY <1>4 DEF PruneOtherKinds
  <2>2. /\ visit' \in [Visits -> V] /\ visit'[v].pc = "seed2" /\ visit'[v].kind = visit[v].kind
        /\ \A u \in Visits \ {v} : visit'[u] = visit[u]
    BY <1>0, <2>1, GoMoves
  <2>3. DeskOK'
    BY <1>0, <1>d, <2>1, <2>2 DEF DeskOK
  <2>4. Shape
    BY <1>0, <2>1, <2>2, VisitGoes DEF Shape
  <2> QED
    BY <2>3, <2>4
<1>5. ASSUME NEW v \in Visits, SeedKind(v)
      PROVE  DeskOK' /\ Shape
  <2>1. visit[v].pc = "seed2" /\ Go(v, "ensure") /\ UNCHANGED <<bookKind, patch, overlap>>
    BY <1>5 DEF SeedKind
  <2>2. /\ visit' \in [Visits -> V] /\ visit'[v].pc = "ensure" /\ visit'[v].kind = visit[v].kind
        /\ \A u \in Visits \ {v} : visit'[u] = visit[u]
    BY <1>0, <2>1, GoMoves
  <2>3. DeskOK'
    BY <1>0, <1>d, <2>1, <2>2 DEF DeskOK
  <2>4. Shape
    BY <1>0, <2>1, <2>2, VisitGoes DEF Shape
  <2> QED
    BY <2>3, <2>4
<1>6. ASSUME NEW v \in Visits, EnsureSheet(v, "ensure", "seed")
      PROVE  DeskOK' /\ Shape
  <2> DEFINE kind == IF bookKind = "none" THEN "both" ELSE bookKind
             new == [visit[v] EXCEPT !.pc = "seed", !.read = kind]
  <2>1. /\ visit[v].pc = "ensure" /\ bookKind' = kind /\ UNCHANGED <<item, patch, overlap>>
        /\ visit' = [visit EXCEPT ![v].pc = "seed", ![v].read = kind]
    BY <1>6 DEF EnsureSheet
  <2>2. kind \in BookKinds /\ (bookKind # "none" => kind = bookKind)
    BY <1>0
  <2> HIDE DEF kind
  <2>3. new \in V /\ new.pc = "seed" /\ new.kind = visit[v].kind /\ new.read = kind
    <3>1. visit[v] \in V
      BY <1>0
    <3> QED
      BY <2>2, <3>1
  <2>4. visit' = [visit EXCEPT ![v] = new]
    BY <1>0, <2>1
  <2> HIDE DEF new
  <2>5. visit' \in [Visits -> V] /\ visit'[v] = new /\ \A u \in Visits \ {v} : visit'[u] = visit[u]
    BY <1>0, <2>3, <2>4
  <2>6. DeskOK'
    BY <1>0, <1>d, <2>1, <2>2, <2>5 DEF DeskOK
  <2>7. Shape
    BY <1>0, <2>1, <2>2, <2>3, <2>5, VisitGoes DEF Shape
  <2> QED
    BY <2>6, <2>7
<1>7. ASSUME NEW v \in Visits, SeedRead(v, "seed", "select")
      PROVE  DeskOK' /\ Shape
  <2>1. /\ visit[v].pc = "seed" /\ Go(v, "select") /\ UNCHANGED <<bookKind, patch, overlap>>
        /\ item' = Seeded(visit[v].read)
    BY <1>7 DEF SeedRead
  <2>2. /\ visit' \in [Visits -> V] /\ visit'[v].pc = "select" /\ visit'[v].kind = visit[v].kind
        /\ visit'[v].read = visit[v].read /\ \A u \in Visits \ {v} : visit'[u] = visit[u]
    BY <1>0, <2>1, GoMoves
  <2>3. DeskOK'
    BY <1>0, <1>d, <2>1, <2>2 DEF DeskOK
  <2>4. \A i \in Of(visit[v].read) : Present(i)'
    BY <1>0, <2>1, SeededShows
  <2>5. Shape
    BY <1>0, <2>1, <2>2, <2>4, VisitGoes DEF Shape
  <2> QED
    BY <2>3, <2>5
<1>8. ASSUME NEW v \in Visits, ShowSheet(v) \/ LeaveVisit(v)
      PROVE  DeskOK' /\ Shape
  <2>1. /\ visit[v].pc \in {"update", "prune", "seed2", "ensure", "seed", "select"}
        /\ Go(v, "done") /\ UNCHANGED <<bookKind, patch, overlap>>
    BY <1>8 DEF ShowSheet, LeaveVisit
  <2>2. /\ visit' \in [Visits -> V] /\ visit'[v].pc = "done" /\ visit'[v].kind = visit[v].kind
        /\ \A u \in Visits \ {v} : visit'[u] = visit[u]
    BY <1>0, <2>1, GoMoves
  <2>3. DeskOK'
    BY <1>0, <1>d, <2>1, <2>2 DEF DeskOK
  <2>4. Shape
    <3>1. PICK from \in {"seed1", "update", "prune", "seed2", "ensure", "seed", "select"} :
            visit[v].pc = from /\ from # "seed1"
      BY <2>1
    <3> QED
      BY <1>0, <2>1, <2>2, <3>1, VisitGoes DEF Shape
  <2> QED
    BY <2>3, <2>4
<1>9. ASSUME UNCHANGED <<bookKind, visit, overlap>>, UNCHANGED patch
      PROVE  DeskOK' /\ Shape
  BY <1>0, <1>9, <1>d, VisitsRest DEF Shape, DeskOK
<1>10. ASSUME NEW x \in ItemPatches, NEW i \in Rules, ReadRule(x, i)
       PROVE  DeskOK' /\ Shape
  <2>1. /\ patch' = [patch EXCEPT ![x] = [pc |-> "write", rule |-> i, row |-> item[i]]]
        /\ UNCHANGED <<bookKind, visit, overlap>>
    BY <1>10 DEF ReadRule
  <2>2. item[i] \in Row
    BY <1>0 DEF ItemsFit
  <2>3. patch' \in [ItemPatches -> [pc: {"new", "write", "done"}, rule: Rules, row: Row]]
    BY <1>0, <2>1, <2>2 DEF DeskOK
  <2>4. DeskOK'
    BY <1>0, <2>1, <2>3 DEF DeskOK
  <2> QED
    BY <2>1, <2>4, VisitsRest DEF Shape
<1>11. ASSUME NEW x \in ItemPatches, NEW text \in Texts, NEW note \in BOOLEAN, NEW reject \in BOOLEAN,
              WriteRule(x, text, note, reject)
       PROVE  DeskOK' /\ Shape
  <2> DEFINE over == [NewPatch EXCEPT !.pc = "done"]
  <2>1. /\ patch' = [patch EXCEPT ![x] = over]
        /\ UNCHANGED <<bookKind, visit, overlap>>
    BY <1>11 DEF WriteRule
  <2>2. over \in [pc: {"new", "write", "done"}, rule: Rules, row: Row]
    OBVIOUS
  <2> HIDE DEF over
  <2>3. patch' \in [ItemPatches -> [pc: {"new", "write", "done"}, rule: Rules, row: Row]]
    BY <1>0, <2>1, <2>2 DEF DeskOK
  <2>4. DeskOK'
    BY <1>0, <2>1, <2>3 DEF DeskOK
  <2> QED
    BY <2>1, <2>4, VisitsRest DEF Shape
<1>12. ASSUME NEW v \in Visits, VisitStep(v)
       PROVE  DeskOK' /\ Shape
  BY <1>1, <1>2, <1>3, <1>4, <1>5, <1>6, <1>7, <1>8, <1>12 DEF VisitStep
<1>13. ASSUME \/ AcceptAll
              \/ \E i \in Rules : \/ DeleteRule(i) \/ RestoreRule(i)
                                  \/ \E text \in Texts, note \in BOOLEAN : AddRule(i, text, note)
       PROVE  DeskOK' /\ Shape
  BY <1>9, <1>13 DEF AcceptAll, DeleteRule, RestoreRule, AddRule
<1> QED
  BY <1>10, <1>11, <1>12, <1>13 DEF SheetNext, Shape
-----------------------------------------------------------------------------
(* The review tool.                                                        *)

LEMMA ReviewStep ==
  ASSUME ReviewInv, ReviewNext
  PROVE  ReviewInv'
<1> DEFINE States == {"none", "superseding", "pending", "accepted", "rejected"}
           D == [pc: {"new", "commit", "done"}, edit: Proposals, accept: BOOLEAN]
<1>0. /\ piEdit \in [Proposals -> States] /\ piText \in Proposals \cup {0}
      /\ decide \in [Decisions -> D] /\ raced \in BOOLEAN
      /\ ReviewAlone
  BY DEF ReviewInv, ReviewTypes
<1>1. ASSUME NEW e \in Proposals, SupersedePending(e)
      PROVE  ReviewInv'
  <2>1. /\ piEdit[e] = "none"
        /\ piEdit' = [f \in Proposals |-> IF f = e THEN "superseding"
                                          ELSE IF piEdit[f] = "pending" THEN "rejected" ELSE piEdit[f]]
        /\ raced' = (raced \/ InFlight)
        /\ UNCHANGED <<piText, decide>>
    BY <1>1 DEF SupersedePending
  <2>2. ReviewTypes'
    BY <1>0, <2>1 DEF ReviewTypes
  <2>3. ReviewAlone'
    <3> SUFFICES ASSUME ~ raced, ~ InFlight PROVE ReviewAlone'
      BY <1>0, <2>1 DEF ReviewAlone
    <3>1. /\ \A f \in Proposals : piEdit[f] # "superseding"
          /\ \A d \in Decisions : decide[d].pc # "commit"
      BY DEF InFlight
    <3>2. piText # 0 => piEdit[piText] = "accepted"
      BY <1>0 DEF ReviewAlone
    <3> QED
      BY <1>0, <2>1, <3>1, <3>2 DEF ReviewAlone
  <2> QED
    BY <2>2, <2>3 DEF ReviewInv
<1>2. ASSUME NEW e \in Proposals, InsertEdit(e)
      PROVE  ReviewInv'
  <2>1. /\ piEdit[e] = "superseding" /\ piEdit' = [piEdit EXCEPT ![e] = "pending"]
        /\ UNCHANGED <<piText, decide, raced>>
    BY <1>2 DEF InsertEdit
  <2>2. ReviewTypes'
    BY <1>0, <2>1 DEF ReviewTypes
  <2>3. ReviewAlone'
    BY <1>0, <2>1 DEF ReviewAlone
  <2> QED
    BY <2>2, <2>3 DEF ReviewInv
<1>3. ASSUME NEW d \in Decisions, NEW e \in Proposals, NEW accept \in BOOLEAN, FindPending(d, e, accept)
      PROVE  ReviewInv'
  <2> DEFINE new == [pc |-> "commit", edit |-> e, accept |-> accept]
  <2>1. /\ piEdit[e] = "pending" /\ decide' = [decide EXCEPT ![d] = new]
        /\ raced' = (raced \/ InFlight)
        /\ UNCHANGED <<piEdit, piText>>
    BY <1>3 DEF FindPending
  <2>2. new \in D /\ new.pc = "commit" /\ new.edit = e
    OBVIOUS
  <2> HIDE DEF new
  <2>3. decide' \in [Decisions -> D] /\ decide'[d] = new /\ \A c \in Decisions \ {d} : decide'[c] = decide[c]
    BY <1>0, <2>1, <2>2
  <2>4. ReviewTypes'
    BY <1>0, <2>1, <2>3 DEF ReviewTypes
  <2>5. ReviewAlone'
    <3> SUFFICES ASSUME ~ raced, ~ InFlight PROVE ReviewAlone'
      BY <1>0, <2>1 DEF ReviewAlone
    <3>1. /\ \A f \in Proposals : piEdit[f] # "superseding"
          /\ \A c \in Decisions : decide[c].pc # "commit"
      BY DEF InFlight
    <3>2. \A c \in Decisions : decide'[c].pc = "commit" => c = d
      BY <2>3, <3>1
    <3> QED
      BY <1>0, <2>1, <2>2, <2>3, <3>1, <3>2 DEF ReviewAlone
  <2> QED
    BY <2>4, <2>5 DEF ReviewInv
<1>4. ASSUME NEW d \in Decisions, ResolveEdit(d)
      PROVE  ReviewInv'
  <2> DEFINE e == decide[d].edit
             over == [NewDecision EXCEPT !.pc = "done"]
             state == IF decide[d].accept THEN "accepted" ELSE "rejected"
  <2>1. /\ decide[d].pc = "commit"
        /\ piText' = IF decide[d].accept THEN e ELSE piText
        /\ piEdit' = [piEdit EXCEPT ![e] = state]
        /\ decide' = [decide EXCEPT ![d] = over]
        /\ UNCHANGED raced
    BY <1>4 DEF ResolveEdit
  <2>2. e \in Proposals
    BY <1>0
  <2>3. over \in D /\ over.pc = "done"
    BY NewRows
  <2> HIDE DEF over, e
  <2>4. decide' \in [Decisions -> D] /\ decide'[d] = over /\ \A c \in Decisions \ {d} : decide'[c] = decide[c]
    BY <1>0, <2>1, <2>3
  <2>5. ReviewTypes'
    BY <1>0, <2>1, <2>2, <2>4 DEF ReviewTypes
  <2>6. ReviewAlone'
    <3> SUFFICES ASSUME ~ raced PROVE ReviewAlone'
      BY <2>1 DEF ReviewAlone
    <3>1. /\ piEdit[e] = "pending"
          /\ \A f \in Proposals : piEdit[f] # "superseding"
          /\ \A f \in Proposals : piEdit[f] = "pending" => f = e
          /\ \A c \in Decisions : decide[c].pc = "commit" => c = d
          /\ piText # 0 => piEdit[piText] = "accepted"
      BY <1>0, <2>1, <2>2 DEF ReviewAlone, e
    <3>2. /\ \A f \in Proposals : piEdit'[f] # "superseding" /\ piEdit'[f] # "pending"
          /\ \A c \in Decisions : decide'[c].pc # "commit"
      BY <1>0, <2>1, <2>2, <2>3, <2>4, <3>1
    <3>3. piText' # 0 => piEdit'[piText'] = "accepted"
      <4>1. CASE decide[d].accept
        BY <1>0, <2>1, <2>2, <4>1
      <4>2. CASE ~ decide[d].accept
        <5>1. piText' = piText /\ (piText # 0 => piText # e /\ piText \in Proposals)
          BY <1>0, <2>1, <3>1, <4>2
        <5> QED
          BY <1>0, <2>1, <2>2, <3>1, <5>1
      <4> QED
        BY <4>1, <4>2
    <3> QED
      BY <3>2, <3>3 DEF ReviewAlone
  <2> QED
    BY <2>5, <2>6 DEF ReviewInv
<1> QED
  BY <1>1, <1>2, <1>3, <1>4 DEF ReviewNext

-----------------------------------------------------------------------------
LEMMA StyleInvStep == StyleInv /\ [StyleNext]_styleVars => StyleInv'
<1> SUFFICES ASSUME StyleInv, [StyleNext]_styleVars PROVE StyleInv'
  OBVIOUS
<1>1. ASSUME UNCHANGED sheetVars
      PROVE  SheetInv'
  BY <1>1 DEF StyleInv, SheetInv, sheetVars, ItemsFit, DeskOK, PatchesNameKind, Undisturbed,
             ShownComplete, Present
<1>2. ASSUME UNCHANGED reviewVars
      PROVE  ReviewInv'
  BY <1>2 DEF StyleInv, ReviewInv, reviewVars, ReviewTypes, ReviewAlone
<1>3. CASE SheetNext
  <2>1. ItemsFit'
    BY <1>3, ItemsStep DEF StyleInv, SheetInv
  <2>2. SheetInv'
    BY <1>3, <2>1, VisitsStep DEF StyleInv, SheetInv
  <2>3. UNCHANGED reviewVars
    BY <1>3 DEF SheetNext, VisitStep, BeginVisit, SeedRead, UpdateKind, PruneOtherKinds, SeedKind,
                EnsureSheet, ShowSheet, LeaveVisit, AcceptAll, AddRule, DeleteRule, RestoreRule,
                ReadRule, WriteRule
  <2> QED
    BY <1>2, <2>2, <2>3 DEF StyleInv
<1>4. CASE ReviewNext
  <2>1. ReviewInv'
    BY <1>4, ReviewStep DEF StyleInv
  <2>2. UNCHANGED sheetVars
    BY <1>4 DEF ReviewNext, SupersedePending, InsertEdit, FindPending, ResolveEdit
  <2> QED
    BY <1>1, <2>1, <2>2 DEF StyleInv
<1>5. CASE UNCHANGED styleVars
  BY <1>1, <1>2, <1>5 DEF StyleInv, styleVars
<1> QED
  BY <1>3, <1>4, <1>5 DEF StyleNext

LEMMA StyleInvSafe == StyleInv => SheetsSafe
<1> SUFFICES ASSUME StyleInv PROVE SheetsSafe
  OBVIOUS
<1>1. StyleTypeOK
  BY RuleFacts DEF StyleInv, SheetInv, ReviewInv, ItemsFit, Fits, DeskOK, ReviewTypes, StyleTypeOK
<1>2. StatusFollowsText
  BY RuleFacts DEF StyleInv, SheetInv, ItemsFit, Fits, StatusFollowsText
<1>3. ReviewSettled
  <2> SUFFICES ASSUME ~ raced
               PROVE  /\ Cardinality({e \in Proposals : piEdit[e] = "pending"}) <= 1
                      /\ piText # 0 => piEdit[piText] = "accepted"
    BY DEF ReviewSettled
  <2> DEFINE S == {e \in Proposals : piEdit[e] = "pending"}
  <2>1. /\ \A e, f \in S : e = f
        /\ piText # 0 => piEdit[piText] = "accepted"
    BY DEF StyleInv, ReviewInv, ReviewAlone
  <2>2. CASE S = {}
    BY <2>1, <2>2, FS_EmptySet
  <2>3. CASE S # {}
    <3>1. PICK e : S = {e}
      BY <2>1, <2>3
    <3>2. Cardinality(S) = 1
      BY <3>1, FS_Singleton
    <3> QED
      BY <2>1, <3>2
  <2> QED
    BY <2>2, <2>3
<1> QED
  BY <1>1, <1>2, <1>3 DEF StyleInv, SheetInv, SheetsSafe

\* What a sheet shows is so, however many visits, edits, decisions and changes
\* of kind overlap (project_stylesheet.go, stylesheet.go).
THEOREM SheetsAreSafe == StyleSpec => []SheetsSafe
<1>1. StyleInit => StyleInv
  BY StyleInitHolds
<1>2. StyleInv /\ [StyleNext]_styleVars => StyleInv'
  BY StyleInvStep
<1>3. StyleInv => SheetsSafe
  BY StyleInvSafe
<1> QED
  BY <1>1, <1>2, <1>3, PTL DEF StyleSpec

\* "changing kind adds and never overwrites a client decision", in any step of
\* any visit (pssSeed, pssPruneOtherKinds).
THEOREM DecisionsAreKept == StyleSpec => DecisionsKept
<1> DEFINE Kept == visit' # visit =>
                     \A i \in Rules : Present(i) /\ (item[i].status # "accepted" \/ item[i].note)
                                        => item'[i] = item[i]
<1>1. ASSUME [StyleNext]_styleVars
      PROVE  [Kept]_styleVars
  <2> SUFFICES ASSUME visit' # visit, NEW i \in Rules, Present(i), ~ Untouched(i)
               PROVE  item'[i] = item[i]
    BY DEF Untouched
  <2>1. PICK v \in Visits : VisitStep(v)
    BY <1>1 DEF StyleNext, SheetNext, ReviewNext, AcceptAll, AddRule, DeleteRule, RestoreRule,
                ReadRule, WriteRule, SupersedePending, InsertEdit, FindPending, ResolveEdit,
                styleVars, sheetVars
  <2>2. ASSUME NEW k, item' = Seeded(k)
        PROVE  item'[i] = item[i]
    BY <2>2 DEF Seeded
  <2>3. ASSUME NEW k, item' = WithoutOthers(k)
        PROVE  item'[i] = item[i]
    BY <2>3 DEF WithoutOthers
  <2> QED
    BY <2>1, <2>2, <2>3 DEF VisitStep, BeginVisit, SeedRead, UpdateKind, PruneOtherKinds, SeedKind,
                            EnsureSheet, ShowSheet, LeaveVisit
<1> QED
  BY <1>1, PTL DEF StyleSpec, DecisionsKept

-----------------------------------------------------------------------------
(* Calendar.                                                               *)

\* The rows the tasks table may hold, and those of a project's calendar.
TaskRow == [project: Calendars \cup {"none", "deleted"}, orig: Date, curr: Date, done: BOOLEAN,
            typed: Date, batch: Calendars \cup {"none"}]
OnCalendar(t) == t \notin {NoTask, GoneTask}
Shiftable(d) == d.form \in {"date", "time"}

\* What one row promises, given the projects there are: a date is shiftable as
\* it was when it was typed; a row of its own project stands as typed; a copied
\* row nobody has touched is planned for its original date and not done.
RowFits(t, projects) ==
    OnCalendar(t) => /\ t.project \in projects /\ t.batch \in projects
                     /\ Shiftable(t.orig) <=> Shiftable(t.typed)
                     /\ t.batch = t.project => t.orig = t.typed
                     /\ t.batch # t.project => t.curr = t.orig /\ ~ t.done

\* ShapeKept, of two rows.
InStep(t, u) ==
    OnCalendar(t) /\ OnCalendar(u) /\ Shiftable(t.typed) /\ Shiftable(u.typed)
        /\ t.project = u.project /\ t.batch = u.batch
      => t.orig.day - u.orig.day = t.typed.day - u.typed.day

TasksFit ==
    /\ task \in [TaskIds -> TaskRow]
    /\ \A i \in TaskIds : RowFits(task[i], Created)
    /\ \A i, j \in TaskIds : InStep(task[i], task[j])

CalendarTypes ==
    /\ start \in [Calendars -> Date \cup {NoProject}]
    /\ made \subseteq Created
    /\ typing \in [Editors -> [pc: {"idle", "read", "done"}, id: TaskIds \cup {0}]]
    /\ \A e \in Editors : typing[e].pc = "read" => typing[e].id \in TaskIds
    /\ seeding \in [Calendars -> 0..Len(Workflow)]
    /\ \A p \in Calendars : seeding[p] > 0 => p \in Created

CalendarInv == CalendarTypes /\ TasksFit

-----------------------------------------------------------------------------
(* Enumerations of finite sets of naturals.                                *)

\* A set of naturals that is not empty has a least member.
LEMMA LeastNatural ==
  ASSUME NEW S \in SUBSET Nat, S # {}
  PROVE  \E m \in S : \A k \in S : m <= k
<1> DEFINE R == {ss \in Nat \X Nat : ss[1] < ss[2]}
<1>1. IsWellFoundedOn(R, Nat)
  BY NatLessThanWellFounded DEF OpToRel
<1>2. \E m \in S : \A k \in S : ~ (<<k, m>> \in R)
  <2> HIDE DEF R
  <2> QED
    BY <1>1, WFMin, Zenon
<1>3. \A k, m \in Nat : ~ (<<k, m>> \in R) => m <= k
  OBVIOUS
<1> QED
  BY <1>2, <1>3

Ascending(s, S) == /\ s \in [1..Cardinality(S) -> S]
                   /\ \A a, b \in 1..Cardinality(S) : a < b => s[a] < s[b]

\* A finite set of ids can be listed in ascending order (ORDER BY id): its
\* least member first, then the rest, which is smaller.
LEMMA CanBeListed ==
  ASSUME NEW S \in SUBSET Nat, IsFiniteSet(S)
  PROVE  \E s : Ascending(s, S)
<1> DEFINE Odd(T) == IsFiniteSet(T) /\ ~ \E s : Ascending(s, T)
           Sizes == {n \in Nat : \E T \in SUBSET Nat : Odd(T) /\ Cardinality(T) = n}
<1> SUFFICES ASSUME Odd(S) PROVE FALSE
  OBVIOUS
<1>1. Cardinality(S) \in Sizes
  BY FS_CardinalityType
<1>2. PICK n \in Sizes : \A k \in Sizes : n <= k
  <2> HIDE DEF Sizes
  <2>1. Sizes \in SUBSET Nat
    BY DEF Sizes
  <2> QED
    BY <1>1, <2>1, LeastNatural
<1>3. PICK T \in SUBSET Nat : Odd(T) /\ Cardinality(T) = n
  OBVIOUS
<1>4. T # {}
  <2> SUFFICES ASSUME T = {} PROVE FALSE
    OBVIOUS
  <2>1. Cardinality(T) = 0
    BY FS_EmptySet
  <2>2. Ascending([a \in 1..0 |-> 0], T)
    BY <2>1 DEF Ascending
  <2> QED
    BY <1>3, <2>2
<1>5. PICK m \in T : \A k \in T : m <= k
  BY <1>4, LeastNatural
<1> DEFINE Rest == T \ {m}
<1>6. IsFiniteSet(Rest) /\ Cardinality(Rest) = n - 1 /\ n - 1 \in Nat
  <2>1. IsFiniteSet(Rest) /\ Cardinality(Rest) = n - 1
    BY <1>3, FS_RemoveElement
  <2> QED
    BY <2>1, FS_CardinalityType
<1>7. PICK f : Ascending(f, Rest)
  <2> SUFFICES ASSUME Odd(Rest) PROVE FALSE
    BY <1>6
  <2>1. n - 1 \in Sizes
    BY <1>6
  <2> QED
    BY <1>2, <2>1
<1> DEFINE g == [a \in 1..n |-> IF a = 1 THEN m ELSE f[a - 1]]
<1>8. /\ f \in [1..(n - 1) -> Rest]
      /\ \A a, b \in 1..(n - 1) : a < b => f[a] < f[b]
  BY <1>6, <1>7 DEF Ascending
<1>9. \A a \in 1..n : a # 1 => a - 1 \in 1..(n - 1) /\ f[a - 1] \in T /\ m < f[a - 1]
  <2> TAKE a \in 1..n
  <2> HAVE a # 1
  <2>1. a - 1 \in 1..(n - 1)
    OBVIOUS
  <2>2. f[a - 1] \in Rest
    BY <1>8, <2>1
  <2>3. f[a - 1] \in T /\ f[a - 1] # m
    BY <2>2
  <2>4. m <= f[a - 1] /\ m \in Nat /\ f[a - 1] \in Nat
    BY <1>5, <2>3
  <2> HIDE DEF Rest
  <2> QED
    BY <2>1, <2>3, <2>4
<1>10. g \in [1..n -> T]
  BY <1>9
<1>11. \A a, b \in 1..n : a < b => g[a] < g[b]
  <2> TAKE a, b \in 1..n
  <2> HAVE a < b
  <2>1. b # 1 /\ g[b] = f[b - 1]
    OBVIOUS
  <2>2. CASE a = 1
    BY <1>9, <2>1, <2>2
  <2>3. CASE a # 1
    <3>1. a - 1 \in 1..(n - 1) /\ b - 1 \in 1..(n - 1) /\ a - 1 < b - 1
      BY <1>9, <2>1, <2>3
    <3>2. f[a - 1] < f[b - 1]
      BY <1>8, <3>1
    <3> QED
      BY <2>1, <2>3, <3>2
  <2> QED
    BY <2>2, <2>3
<1>12. Ascending(g, T)
  <2> HIDE DEF g
  <2> QED
    BY <1>3, <1>10, <1>11 DEF Ascending
<1> QED
  BY <1>3, <1>12

\* The tasks of a project are listed one by one.
LEMMA InOrderLists ==
  ASSUME NEW S \in SUBSET TaskIds
  PROVE  Cardinality(S) \in Nat /\ InOrder(S) \in [1..Cardinality(S) -> S]
<1>1. S \in SUBSET Nat /\ IsFiniteSet(S)
  BY CalendarAssumption, FS_Subset
<1>2. \E s \in [1..Cardinality(S) -> S] : \A a, b \in 1..Cardinality(S) : a < b => s[a] < s[b]
  BY <1>1, CanBeListed DEF Ascending
<1> QED
  BY <1>1, <1>2, FS_CardinalityType DEF InOrder

\* An insert puts new rows where there was none and leaves the others. Which ids
\* they get matters to nothing that follows.
LEMMA InsertAdds ==
  ASSUME NEW rows, NEW n \in Nat, Len(rows) = n, NEW i \in TaskIds
  PROVE  Insert(rows)[i] = task[i] \/ \E a \in 1..n : Insert(rows)[i] = rows[a]
<1> DEFINE ids == CHOOSE s \in [1..Len(rows) -> FreeIds] : \A a, b \in 1..Len(rows) : a < b => s[a] < s[b]
<1> HIDE DEF ids
<1>1. Insert(rows)[i] = IF \E a \in 1..Len(rows) : ids[a] = i
                        THEN rows[CHOOSE a \in 1..Len(rows) : ids[a] = i] ELSE task[i]
  BY DEF Insert, ids
<1>2. ASSUME \E a \in 1..Len(rows) : ids[a] = i
      PROVE  (CHOOSE a \in 1..Len(rows) : ids[a] = i) \in 1..n
  BY <1>2
<1> QED
  BY <1>1, <1>2

-----------------------------------------------------------------------------
(* Steps of the calendar desk.                                             *)

\* Rows written over others leave the table fit, if each is fit, and in step
\* with every other new one and with every row that stays.
LEMMA TableFits ==
  ASSUME TasksFit,
         NEW rows \in SUBSET TaskRow, NEW table \in [TaskIds -> TaskRow], NEW projects,
         Created \subseteq projects,
         \A i \in TaskIds : table[i] = task[i] \/ table[i] \in rows,
         \A t \in rows : RowFits(t, projects),
         \A t, u \in rows : InStep(t, u),
         \A t \in rows, i \in TaskIds : InStep(t, task[i]) /\ InStep(task[i], t)
  PROVE  /\ \A i \in TaskIds : RowFits(table[i], projects)
         /\ \A i, j \in TaskIds : InStep(table[i], table[j])
<1>1. \A i \in TaskIds : RowFits(table[i], projects)
  <2> TAKE i \in TaskIds
  <2>1. RowFits(task[i], Created)
    BY DEF TasksFit
  <2>2. RowFits(task[i], projects)
    BY <2>1 DEF RowFits
  <2> QED
    BY <2>2
<1>2. \A i, j \in TaskIds : InStep(table[i], table[j])
  <2> TAKE i, j \in TaskIds
  <2>1. InStep(task[i], task[j])
    BY DEF TasksFit
  <2> QED
    BY <2>1
<1> QED
  BY <1>1, <1>2

\* A row entered by hand or from the workflow.
LEMMA NewTaskFits ==
  ASSUME NEW p \in Calendars, NEW b \in TaskBody, NEW projects, p \in projects
  PROVE  /\ NewTask(p, b) \in TaskRow
         /\ NewTask(p, b).project = p /\ NewTask(p, b).batch = p
         /\ RowFits(NewTask(p, b), projects)
BY DEF NewTask, TaskRow, RowFits, TaskBody

\* Two rows of a project that were typed into it are in step as they stand.
LEMMA TypedInStep ==
  ASSUME NEW t \in TaskRow, NEW u \in TaskRow,
         OnCalendar(t) => (t.batch = t.project => t.orig = t.typed),
         OnCalendar(u) => (u.batch = u.project => u.orig = u.typed),
         t.batch = t.project \/ u.batch = u.project
  PROVE  InStep(t, u)
BY DEF InStep

\* A live row's project is one of the projects, and a row of a project is live.
LEMMA RowsOfProjects ==
  ASSUME TasksFit, NEW i \in TaskIds
  PROVE  /\ task[i] \in TaskRow
         /\ OnCalendar(task[i]) => task[i].project \in Created /\ task[i].batch \in Created
         /\ task[i].project \in Calendars => OnCalendar(task[i])
         /\ OnCalendar(task[i]) => (task[i].batch = task[i].project => task[i].orig = task[i].typed)
<1>1. task[i] \in TaskRow /\ RowFits(task[i], Created)
  BY DEF TasksFit
<1>2. task[i].project \in Calendars => OnCalendar(task[i])
  <2>1. NoTask.project = "none" /\ GoneTask.project = "deleted"
    BY DEF NoTask, GoneTask
  <2>2. "none" \notin Calendars /\ "deleted" \notin Calendars
    BY CalendarAssumption, Zenon
  <2> QED
    BY <2>1, <2>2 DEF OnCalendar
<1> QED
  BY <1>1, <1>2 DEF RowFits

\* Rows typed into a project, added or written over others.
LEMMA TypedRowsFit ==
  ASSUME TasksFit,
         NEW rows \in SUBSET TaskRow, NEW table \in [TaskIds -> TaskRow], NEW projects,
         Created \subseteq projects,
         \A i \in TaskIds : table[i] = task[i] \/ table[i] \in rows,
         \A t \in rows : RowFits(t, projects) /\ t.batch = t.project
  PROVE  /\ \A i \in TaskIds : RowFits(table[i], projects)
         /\ \A i, j \in TaskIds : InStep(table[i], table[j])
<1>1. \A t \in rows : OnCalendar(t) => (t.batch = t.project => t.orig = t.typed)
  BY DEF RowFits
<1>2. \A t, u \in rows : InStep(t, u)
  BY <1>1, TypedInStep
<1>3. \A t \in rows, i \in TaskIds : InStep(t, task[i]) /\ InStep(task[i], t)
  BY <1>1, RowsOfProjects, TypedInStep
<1> QED
  BY <1>2, <1>3, TableFits

\* The table after an insert.
LEMMA InsertedTable ==
  ASSUME TasksFit, NEW n \in Nat, NEW rows, Len(rows) = n,
         NEW S \in SUBSET TaskRow, \A a \in 1..n : rows[a] \in S
  PROVE  /\ Insert(rows) \in [TaskIds -> TaskRow]
         /\ \A i \in TaskIds : Insert(rows)[i] = task[i] \/ Insert(rows)[i] \in S
<1>1. \A i \in TaskIds : Insert(rows)[i] = task[i] \/ Insert(rows)[i] \in S
  <2> TAKE i \in TaskIds
  <2>1. Insert(rows)[i] = task[i] \/ \E a \in 1..n : Insert(rows)[i] = rows[a]
    BY InsertAdds
  <2> QED
    BY <2>1
<1>2. \A i \in TaskIds : task[i] \in TaskRow
  BY DEF TasksFit
<1>3. \E e : Insert(rows) = [i \in TaskIds |-> e[i]]
  <2> DEFINE ids == CHOOSE s \in [1..Len(rows) -> FreeIds] : \A a, b \in 1..Len(rows) : a < b => s[a] < s[b]
             row(i) == IF \E a \in 1..Len(rows) : ids[a] = i
                       THEN rows[CHOOSE a \in 1..Len(rows) : ids[a] = i] ELSE task[i]
             e == [i \in TaskIds |-> row(i)]
  <2>1. Insert(rows) = [i \in TaskIds |-> row(i)]
    BY DEF Insert
  <2> HIDE DEF ids, row
  <2> QED
    BY <2>1
<1>4. Insert(rows) = [i \in TaskIds |-> Insert(rows)[i]]
  BY <1>3
<1> QED
  BY <1>1, <1>2, <1>4

\* One row typed into a project, wherever it is inserted.
LEMMA OneTypedRow ==
  ASSUME TasksFit, NEW p \in Created, NEW b \in TaskBody, task' = Insert(<<NewTask(p, b)>>),
         UNCHANGED start
  PROVE  TasksFit'
<1> DEFINE rows == {NewTask(p, b)}
<1>1. p \in Calendars /\ Created' = Created
  BY DEF Created
<1>2. /\ NewTask(p, b) \in TaskRow /\ NewTask(p, b).project = p /\ NewTask(p, b).batch = p
      /\ RowFits(NewTask(p, b), Created)
  BY <1>1, NewTaskFits
<1>3. Len(<<NewTask(p, b)>>) = 1 /\ \A a \in 1..1 : <<NewTask(p, b)>>[a] \in rows
  OBVIOUS
<1>4. task' \in [TaskIds -> TaskRow] /\ \A i \in TaskIds : task'[i] = task[i] \/ task'[i] \in rows
  <2> HIDE DEF rows
  <2>1. rows \in SUBSET TaskRow
    BY <1>2 DEF rows
  <2> QED
    BY <1>3, <2>1, InsertedTable
<1>5. /\ \A i \in TaskIds : RowFits(task'[i], Created)
      /\ \A i, j \in TaskIds : InStep(task'[i], task'[j])
  <2>1. rows \in SUBSET TaskRow /\ \A t \in rows : RowFits(t, Created) /\ t.batch = t.project
    BY <1>2
  <2> HIDE DEF rows
  <2> QED
    BY <1>4, <2>1, TypedRowsFit
<1> QED
  BY <1>1, <1>4, <1>5 DEF TasksFit

\* The standard workflow of a new project.
LEMMA CreateCalendarKeeps ==
  ASSUME CalendarInv, NEW p \in Calendars, NEW d \in Starts, CreateCalendar(p, d)
  PROVE  CalendarInv'
<1> DEFINE new == [a \in 1..Len(Workflow) |-> NewTask(p, Workflow[a])]
           rows == {NewTask(p, Workflow[a]) : a \in 1..Len(Workflow)}
<1>1. Len(Workflow) \in Nat /\ (\A a \in 1..Len(Workflow) : Workflow[a] \in TaskBody) /\ d \in Date
  BY CalendarAssumption
<1>2. d # NoProject /\ Created \subseteq Created' /\ p \in Created'
  BY <1>1 DEF CreateCalendar, Created, CalendarInv, CalendarTypes, NoProject, Date
<1>3. \A t \in rows : t \in TaskRow /\ t.batch = t.project /\ RowFits(t, Created')
  <2> TAKE t \in rows
  <2>1. PICK a \in 1..Len(Workflow) : t = NewTask(p, Workflow[a])
    OBVIOUS
  <2>2. PICK projects : projects = Created'
    OBVIOUS
  <2> HIDE DEF rows
  <2>3. /\ t \in TaskRow /\ t.project = p /\ t.batch = p /\ RowFits(t, projects)
    BY <1>1, <1>2, <2>1, <2>2, NewTaskFits
  <2> QED
    BY <2>2, <2>3
<1>4. Len(new) = Len(Workflow) /\ \A a \in 1..Len(Workflow) : new[a] \in rows
  BY <1>1
<1>5. task' = Insert(new)
  BY DEF CreateCalendar
<1>6. task' \in [TaskIds -> TaskRow] /\ \A i \in TaskIds : task'[i] = task[i] \/ task'[i] \in rows
  <2>1. rows \in SUBSET TaskRow
    BY <1>3
  <2> HIDE DEF rows, new
  <2> QED
    BY <1>1, <1>4, <1>5, <2>1, InsertedTable DEF CalendarInv
<1>7. /\ \A i \in TaskIds : RowFits(task'[i], Created')
      /\ \A i, j \in TaskIds : InStep(task'[i], task'[j])
  <2>1. rows \in SUBSET TaskRow
    BY <1>3
  <2> HIDE DEF rows
  <2> QED
    BY <1>2, <1>3, <1>6, <2>1, TypedRowsFit DEF CalendarInv
<1>8. TasksFit'
  BY <1>6, <1>7 DEF TasksFit
<1>9. CalendarTypes'
  BY <1>1, <1>2 DEF CalendarInv, CalendarTypes, CreateCalendar
<1> QED
  BY <1>8, <1>9 DEF CalendarInv

\* A date moves by the shift if it can be read, and stays readable.
LEMMA ShiftMoves ==
  ASSUME NEW d \in Date, NEW delta \in Int
  PROVE  /\ ShiftDate(d, delta) \in Date
         /\ Shiftable(ShiftDate(d, delta)) <=> Shiftable(d)
         /\ Shiftable(d) => ShiftDate(d, delta).day = d.day + delta
BY DEF ShiftDate, Date, Shiftable

LEMMA CopiedRow ==
  ASSUME NEW t \in TaskRow, NEW q \in Calendars, NEW delta \in Int
  PROVE  LET u == CopyTask(t, q, delta)
         IN /\ u \in TaskRow
            /\ u.project = q /\ u.batch = t.batch /\ u.typed = t.typed
            /\ u.orig = ShiftDate(t.orig, delta) /\ u.curr = u.orig /\ u.done = FALSE
<1>1. ShiftDate(t.orig, delta) \in Date
  BY ShiftMoves DEF TaskRow
<1> QED
  BY <1>1 DEF CopyTask, TaskRow

\* What a copy of a live row promises in a project that was not there before.
LEMMA CopyFits ==
  ASSUME NEW t \in TaskRow, NEW q \in Calendars, NEW delta \in Int, NEW projects, NEW more,
         OnCalendar(t), RowFits(t, projects), q \notin projects, q \in more, projects \subseteq more
  PROVE  RowFits(CopyTask(t, q, delta), more)
<1>1. t.batch \in projects /\ (Shiftable(t.orig) <=> Shiftable(t.typed))
  BY DEF RowFits
<1>2. t.orig \in Date
  BY DEF TaskRow
<1>3. Shiftable(ShiftDate(t.orig, delta)) <=> Shiftable(t.orig)
  BY <1>2, ShiftMoves
<1> DEFINE u == CopyTask(t, q, delta)
<1>4. /\ u.project = q /\ u.batch = t.batch /\ u.typed = t.typed
      /\ u.orig = ShiftDate(t.orig, delta) /\ u.curr = u.orig /\ ~ u.done
  BY CopiedRow
<1>5. u.batch \in more /\ u.batch # u.project
  BY <1>1, <1>4
<1>6. Shiftable(u.orig) <=> Shiftable(u.typed)
  BY <1>1, <1>3, <1>4
<1> HIDE DEF u
<1>7. RowFits(u, more)
  BY <1>4, <1>5, <1>6 DEF RowFits
<1> QED
  BY <1>7 DEF u

\* Copies of two rows of a project are as far apart as the rows were.
LEMMA CopiesInStep ==
  ASSUME NEW t \in TaskRow, NEW u \in TaskRow, NEW q \in Calendars, NEW delta \in Int, NEW projects,
         OnCalendar(t), OnCalendar(u), RowFits(t, projects), RowFits(u, projects),
         t.project = u.project, InStep(t, u)
  PROVE  InStep(CopyTask(t, q, delta), CopyTask(u, q, delta))
<1> DEFINE tt == CopyTask(t, q, delta)
           uu == CopyTask(u, q, delta)
<1>1. /\ tt.batch = t.batch /\ tt.typed = t.typed /\ tt.orig = ShiftDate(t.orig, delta)
      /\ uu.batch = u.batch /\ uu.typed = u.typed /\ uu.orig = ShiftDate(u.orig, delta)
  BY CopiedRow
<1>2. t.orig \in Date /\ u.orig \in Date /\ t.orig.day \in Int /\ u.orig.day \in Int
  BY DEF TaskRow, Date
<1>3. Shiftable(t.typed) => tt.orig.day = t.orig.day + delta
  BY <1>1, <1>2, ShiftMoves DEF RowFits
<1>4. Shiftable(u.typed) => uu.orig.day = u.orig.day + delta
  BY <1>1, <1>2, ShiftMoves DEF RowFits
<1>5. Shiftable(t.typed) /\ Shiftable(u.typed) /\ t.batch = u.batch
        => t.orig.day - u.orig.day = t.typed.day - u.typed.day
  BY DEF InStep
<1>6. Shiftable(t.typed) /\ Shiftable(u.typed) /\ t.batch = u.batch
        => tt.orig.day - uu.orig.day = t.typed.day - u.typed.day
  <2> HIDE DEF tt, uu
  <2> QED
    BY <1>2, <1>3, <1>4, <1>5
<1> QED
  BY <1>1, <1>6 DEF InStep

\* Duplicating a project.
LEMMA DuplicateCalendarKeeps ==
  ASSUME CalendarInv, NEW src \in Calendars, NEW q \in Calendars, NEW d \in Starts,
         DuplicateCalendar(src, q, d)
  PROVE  CalendarInv'
<1> DEFINE listed == InOrder(TasksOf(src))
           n == Cardinality(TasksOf(src))
           delta == IF d.form = "none" THEN 0 ELSE Delta(start[src], d)
           copies == [a \in DOMAIN listed |-> CopyTask(task[listed[a]], q, delta)]
           rows == {CopyTask(task[i], q, delta) : i \in TasksOf(src)}
           began == IF d.form = "none" THEN start[src] ELSE d
<1>1. /\ src \in Created /\ q \notin Created
      /\ start' = [start EXCEPT ![q] = began]
      /\ task' = Insert(copies) /\ made' = made \cup {q} /\ UNCHANGED <<typing, seeding>>
  BY DEF DuplicateCalendar
<1>2. start[src] \in Date /\ d \in Date /\ began \in Date
  BY <1>1, CalendarAssumption DEF Created, CalendarInv, CalendarTypes
<1>3. delta \in Int
  <2>1. start[src].day \in Int /\ d.day \in Int
    BY <1>2 DEF Date
  <2> QED
    BY <2>1 DEF Delta
<1>4. Created \subseteq Created' /\ q \in Created' /\ began # NoProject
  <2>1. began # NoProject
    BY <1>2 DEF NoProject, Date
  <2> HIDE DEF began
  <2> QED
    BY <1>1, <2>1 DEF Created, CalendarInv, CalendarTypes
<1>5. \A i \in TasksOf(src) : /\ i \in TaskIds /\ task[i] \in TaskRow /\ OnCalendar(task[i])
                              /\ task[i].project = src /\ RowFits(task[i], Created)
  BY RowsOfProjects DEF TasksOf, CalendarInv, TasksFit
<1>6. n \in Nat /\ listed \in [1..n -> TasksOf(src)]
  BY InOrderLists DEF TasksOf
<1>7. Len(copies) = n /\ \A a \in 1..n : copies[a] \in rows
  <2> HIDE DEF listed, delta, n
  <2>1. DOMAIN listed = 1..n
    BY <1>6
  <2> QED
    BY <1>6, <2>1
<1> HIDE DEF delta, listed, copies, began, n
<1>8. \A t \in rows : t \in TaskRow /\ t.project = q /\ RowFits(t, Created')
  <2> TAKE t \in rows
  <2>1. PICK i \in TasksOf(src) : t = CopyTask(task[i], q, delta)
    OBVIOUS
  <2>2. PICK more : more = Created'
    OBVIOUS
  <2>3. /\ t \in TaskRow /\ t.project = q
    BY <1>3, <1>5, <2>1, CopiedRow
  <2>4. RowFits(t, more)
    BY <1>1, <1>3, <1>4, <1>5, <2>1, <2>2, CopyFits
  <2> QED
    BY <2>2, <2>3, <2>4
<1>9. \A t, u \in rows : InStep(t, u)
  <2> TAKE t, u \in rows
  <2>1. PICK i \in TasksOf(src) : t = CopyTask(task[i], q, delta)
    OBVIOUS
  <2>2. PICK j \in TasksOf(src) : u = CopyTask(task[j], q, delta)
    OBVIOUS
  <2>3. InStep(task[i], task[j])
    BY <1>5 DEF CalendarInv, TasksFit
  <2> QED
    BY <1>3, <1>5, <2>1, <2>2, <2>3, CopiesInStep
<1>10. rows \in SUBSET TaskRow
  BY <1>8
<1>11. task' \in [TaskIds -> TaskRow] /\ \A i \in TaskIds : task'[i] = task[i] \/ task'[i] \in rows
  <2> HIDE DEF rows
  <2> QED
    BY <1>1, <1>6, <1>7, <1>10, InsertedTable DEF CalendarInv
<1>12. \A t \in rows, i \in TaskIds : InStep(t, task[i]) /\ InStep(task[i], t)
  <2> TAKE t \in rows, i \in TaskIds
  <2>1. t.project = q
    BY <1>8
  <2>2. OnCalendar(task[i]) => task[i].project # q
    BY <1>1, RowsOfProjects DEF CalendarInv
  <2> QED
    BY <2>1, <2>2 DEF InStep
<1>13. /\ \A i \in TaskIds : RowFits(task'[i], Created')
       /\ \A i, j \in TaskIds : InStep(task'[i], task'[j])
  <2>1. PICK more : more = Created'
    OBVIOUS
  <2> HIDE DEF rows
  <2>2. \A t \in rows : RowFits(t, more)
    BY <1>8, <2>1
  <2>3. Created \subseteq more
    BY <1>4, <2>1
  <2>4. /\ \A i \in TaskIds : RowFits(task'[i], more)
        /\ \A i, j \in TaskIds : InStep(task'[i], task'[j])
    BY <1>9, <1>10, <1>11, <1>12, <2>2, <2>3, TableFits DEF CalendarInv
  <2> QED
    BY <2>1, <2>4
<1>14. TasksFit'
  BY <1>11, <1>13 DEF TasksFit
<1>15. CalendarTypes'
  BY <1>1, <1>2, <1>4 DEF CalendarInv, CalendarTypes
<1> QED
  BY <1>14, <1>15 DEF CalendarInv

\* A row of the table overwritten by one edit.
LEMMA EditKeeps ==
  ASSUME CalendarInv, NEW e \in Editors, NEW b \in Bodies, UpdateTask(e, b)
  PROVE  CalendarInv'
<1>1. typing[e].pc = "read" /\ typing[e].id \in TaskIds /\ b \in TaskBody
  BY CalendarAssumption DEF UpdateTask, CalendarInv, CalendarTypes
<1> DEFINE i == typing[e].id
           row == NewTask(task[i].project, b)
           rows == {row}
<1>2. UNCHANGED <<start, made, seeding>> /\ Created' = Created
  BY DEF UpdateTask, Created
<1>3. CalendarTypes'
  <2>1. typing' = [typing EXCEPT ![e] = [pc |-> "done", id |-> 0]]
    BY DEF UpdateTask
  <2> QED
    BY <1>2, <2>1 DEF CalendarInv, CalendarTypes
<1>4. CASE ~ OnCalendar(task[i])
  <2>1. task' = task
    BY <1>4 DEF UpdateTask, Live, OnCalendar
  <2> QED
    BY <1>2, <1>3, <2>1 DEF CalendarInv, TasksFit
<1>5. CASE OnCalendar(task[i])
  <2>1. task' = [task EXCEPT ![i] = row]
    BY <1>5 DEF UpdateTask, Live, OnCalendar, Overwritten
  <2>2. task[i].project \in Created /\ task[i].project \in Calendars
    BY <1>1, <1>5, RowsOfProjects DEF CalendarInv, Created
  <2>3. /\ row \in TaskRow /\ row.project = task[i].project /\ row.batch = row.project
        /\ RowFits(row, Created)
    BY <1>1, <2>2, NewTaskFits
  <2> HIDE DEF row
  <2>4. task' \in [TaskIds -> TaskRow] /\ \A k \in TaskIds : task'[k] = task[k] \/ task'[k] \in rows
    BY <2>1, <2>3 DEF CalendarInv, TasksFit
  <2>5. rows \in SUBSET TaskRow /\ \A t \in rows : RowFits(t, Created) /\ t.batch = t.project
    BY <2>3
  <2> HIDE DEF rows
  <2>6. /\ \A k \in TaskIds : RowFits(task'[k], Created)
        /\ \A k, l \in TaskIds : InStep(task'[k], task'[l])
    BY <2>4, <2>5, TypedRowsFit DEF CalendarInv
  <2> QED
    BY <1>2, <1>3, <2>4, <2>6 DEF CalendarInv, TasksFit
<1> QED
  BY <1>4, <1>5

LEMMA DeleteKeeps ==
  ASSUME CalendarInv, NEW e \in Editors, DeleteTask(e)
  PROVE  CalendarInv'
<1>1. typing[e].pc = "read" /\ typing[e].id \in TaskIds
  BY DEF DeleteTask, CalendarInv, CalendarTypes
<1>2. UNCHANGED <<start, made, seeding>> /\ Created' = Created
  BY DEF DeleteTask, Created
<1>3. CalendarTypes'
  <2>1. typing' = [typing EXCEPT ![e] = [pc |-> "done", id |-> 0]]
    BY DEF DeleteTask
  <2> QED
    BY <1>2, <2>1 DEF CalendarInv, CalendarTypes
<1>4. GoneTask \in TaskRow /\ ~ OnCalendar(GoneTask)
  <2>1. NoTask \in TaskRow
    BY DEF NoTask, NoDate, Date, TaskRow
  <2>2. GoneTask \in TaskRow
    BY <2>1 DEF GoneTask, TaskRow
  <2> QED
    BY <2>2 DEF OnCalendar
<1>5. task' = [task EXCEPT ![typing[e].id] = GoneTask]
  BY DEF DeleteTask
<1>6. task' \in [TaskIds -> TaskRow] /\ \A i \in TaskIds : task'[i] = task[i] \/ task'[i] = GoneTask
  BY <1>1, <1>4, <1>5 DEF CalendarInv, TasksFit
<1>7. \A i \in TaskIds : RowFits(task'[i], Created)
  BY <1>4, <1>6 DEF CalendarInv, TasksFit, RowFits
<1>8. \A i, j \in TaskIds : InStep(task'[i], task'[j])
  <2> TAKE i, j \in TaskIds
  <2>1. InStep(task[i], task[j])
    BY DEF CalendarInv, TasksFit
  <2>2. CASE task'[i] = GoneTask \/ task'[j] = GoneTask
    BY <1>4, <2>2 DEF InStep
  <2> QED
    BY <1>6, <2>1, <2>2
<1> QED
  BY <1>2, <1>3, <1>6, <1>7, <1>8 DEF CalendarInv, TasksFit

\* Moving the start leaves the tasks where they are.
LEMMA MoveStartKeeps ==
  ASSUME CalendarInv, NEW p \in Calendars, NEW d \in Starts, MoveStart(p, d)
  PROVE  CalendarInv'
<1>1. d \in Date /\ d # NoProject
  BY CalendarAssumption DEF Date, NoProject
<1>2. start' = [start EXCEPT ![p] = d] /\ p \in Created /\ UNCHANGED <<task, made, typing, seeding>>
  BY DEF MoveStart
<1>3. Created' = Created
  BY <1>1, <1>2 DEF Created, CalendarInv, CalendarTypes
<1> QED
  BY <1>1, <1>2, <1>3 DEF CalendarInv, CalendarTypes, TasksFit

LEMMA CalendarInit_Inv ==
  ASSUME CalendarInit
  PROVE  CalendarInv
<1>1. NoTask \in TaskRow /\ ~ OnCalendar(NoTask)
  BY DEF NoTask, NoDate, Date, TaskRow, OnCalendar
<1>2. Len(Workflow) \in Nat /\ Created = {}
  BY CalendarAssumption DEF CalendarInit, Created
<1>3. \A i \in TaskIds : task[i] = NoTask
  BY DEF CalendarInit
<1>4. TasksFit
  <2>1. task \in [TaskIds -> TaskRow]
    BY <1>1 DEF CalendarInit
  <2> QED
    BY <1>1, <1>3, <2>1 DEF TasksFit, RowFits, InStep
<1>5. CalendarTypes
  BY <1>2 DEF CalendarInit, CalendarTypes
<1> QED
  BY <1>4, <1>5 DEF CalendarInv

LEMMA CalendarStep ==
  ASSUME CalendarInv, [CalendarNext]_calendarVars
  PROVE  CalendarInv'
<1>1. ASSUME NEW p \in Calendars, NEW d \in Starts, CreateCalendar(p, d) \/ MoveStart(p, d)
      PROVE  CalendarInv'
  BY <1>1, CreateCalendarKeeps, MoveStartKeeps
<1>2. ASSUME NEW p \in Calendars, NEW q \in Calendars, NEW d \in Starts, DuplicateCalendar(p, q, d)
      PROVE  CalendarInv'
  BY <1>2, DuplicateCalendarKeeps
<1>3. ASSUME NEW p \in Calendars, NEW b \in Bodies, CreateTask(p, b)
      PROVE  CalendarInv'
  <2>1. b \in TaskBody /\ p \in Created /\ task' = Insert(<<NewTask(p, b)>>)
    BY <1>3, CalendarAssumption DEF CreateTask
  <2>2. UNCHANGED <<start, made, typing, seeding>>
    BY <1>3 DEF CreateTask
  <2>3. TasksFit'
    BY <2>1, <2>2, OneTypedRow DEF CalendarInv
  <2> QED
    BY <2>2, <2>3 DEF CalendarInv, CalendarTypes, Created
<1>4. ASSUME NEW p \in Calendars, StartSeed(p)
      PROVE  CalendarInv'
  <2>1. Len(Workflow) \in Nat
    BY CalendarAssumption
  <2>2. /\ UNCHANGED <<start, task, made, typing>> /\ p \in Created
        /\ seeding' = [seeding EXCEPT ![p] = Len(Workflow)]
    BY <1>4 DEF StartSeed
  <2> QED
    BY <2>1, <2>2 DEF CalendarInv, CalendarTypes, TasksFit, Created
<1>5. ASSUME NEW p \in Calendars, NEW b \in Bodies, SeedTask(p, b)
      PROVE  CalendarInv'
  <2>1. Len(Workflow) \in Nat /\ b \in TaskBody
    BY CalendarAssumption
  <2>2. UNCHANGED <<start, made, typing>> /\ seeding' = [seeding EXCEPT ![p] = @ - 1]
        /\ seeding[p] > 0 /\ (task' = Insert(<<NewTask(p, b)>>) \/ task' = task)
    BY <1>5 DEF SeedTask
  <2>3. seeding[p] - 1 \in 0..Len(Workflow)
    BY <2>1, <2>2 DEF CalendarInv, CalendarTypes
  <2>4. p \in Created
    BY <2>2 DEF CalendarInv, CalendarTypes
  <2>5. TasksFit'
    <3>1. CASE task' = task
      BY <2>2, <3>1 DEF CalendarInv, TasksFit, Created
    <3>2. CASE task' = Insert(<<NewTask(p, b)>>)
      BY <2>1, <2>2, <2>4, <3>2, OneTypedRow DEF CalendarInv
    <3> QED
      BY <2>2, <3>1, <3>2
  <2> QED
    BY <2>2, <2>3, <2>5 DEF CalendarInv, CalendarTypes, Created
<1>6. ASSUME NEW e \in Editors, NEW i \in TaskIds, ReadTask(e, i)
      PROVE  CalendarInv'
  <2>1. typing' = [typing EXCEPT ![e] = [pc |-> "read", id |-> i]] /\ UNCHANGED <<start, task, made, seeding>>
    BY <1>6 DEF ReadTask
  <2> QED
    BY <2>1 DEF CalendarInv, CalendarTypes, TasksFit, Created
<1>7. ASSUME NEW e \in Editors, NEW b \in Bodies, UpdateTask(e, b)
      PROVE  CalendarInv'
  BY <1>7, EditKeeps
<1>8. ASSUME NEW e \in Editors, DeleteTask(e)
      PROVE  CalendarInv'
  BY <1>8, DeleteKeeps
<1>9. CASE UNCHANGED calendarVars
  BY <1>9 DEF calendarVars, CalendarInv, CalendarTypes, TasksFit, Created
<1> QED
  BY <1>1, <1>2, <1>3, <1>4, <1>5, <1>6, <1>7, <1>8, <1>9 DEF CalendarNext

LEMMA CalendarInv_Safe ==
  ASSUME CalendarInv
  PROVE  CalendarSafe
<1>1. \A i \in TaskIds : Live(i) <=> OnCalendar(task[i])
  BY DEF Live, OnCalendar
<1>2. \A i \in TaskIds : task[i] \in TaskRow /\ RowFits(task[i], Created)
  BY DEF CalendarInv, TasksFit
<1>3. CalendarTypeOK
  <2>1. \A i \in TaskIds : Live(i) => /\ task[i].project \in Created
                                      /\ task[i].orig \in Date /\ task[i].curr \in Date
    BY <1>1, <1>2 DEF RowFits, TaskRow
  <2> QED
    BY <2>1 DEF CalendarTypeOK, CalendarInv, CalendarTypes
<1>4. ShapeKept
  BY <1>1 DEF ShapeKept, CalendarInv, TasksFit, InStep, Dated, Shiftable
<1>5. CopyStartsAfresh
  BY <1>1, <1>2 DEF CopyStartsAfresh, RowFits
<1> QED
  BY <1>3, <1>4, <1>5 DEF CalendarSafe

\* However projects are made, duplicated and reseeded while their tasks are
\* edited between a read and a write: copies keep the distances of the schedule
\* they were typed with, and start afresh.
THEOREM CalendarsAreSafe == CalendarSpec => []CalendarSafe
<1>1. CalendarSpec => []CalendarInv
  BY CalendarInit_Inv, CalendarStep, PTL DEF CalendarSpec
<1> QED
  BY <1>1, CalendarInv_Safe, PTL

-----------------------------------------------------------------------------
(* BuildStages.                                                            *)

RunStages == {"idle", "corrections", "title", "map", "pdf", "epub corrections", "epub spec", "epub", "done"}
EPUBStages == {"epub corrections", "epub spec", "epub"}
Loaded == {"title", "map", "pdf", "epub spec", "epub"}

RunRow == [at: RunStages, title: Titles, pairs: Seq(Rows), body: Seq(Rows), snapshot: Seq(Rows),
           mapTitle: Titles \cup {NoTitle}, faults: SUBSET {"corrections", "spec"}, quiet: BOOLEAN]
Artifact == [run: Runs, format: {"pdf", "epub"}, title: Titles, body: Seq(Rows), snapshot: Seq(Rows),
             pairs: Seq(Rows), mapTitle: Titles \cup {NoTitle}, faults: SUBSET {"corrections", "spec"},
             quiet: BOOLEAN]

Oldest(pairs) == \A m, n \in DOMAIN pairs : m < n => pairs[m] < pairs[n]

\* Spec and run rows; what a run holds was pending at one moment of it.
StagesTypes ==
    /\ ledger \in [Rows -> {"absent", "pending", "applied", "skipped", "deleted"}]
    /\ specRow \in [exists: BOOLEAN, title: Titles \cup {NoTitle}]
    /\ specRow.title \in SpecTitles \cup {NoTitle}
    /\ ~ specRow.exists => specRow.title = NoTitle
    /\ job \in [Runs -> RunRow] /\ during = [j \in Runs |-> during[j]]
    /\ outputs \subseteq Artifact

\* OneLedger, of what a run or an artifact holds.
OfOneMoment(r, moments) ==
    IF "corrections" \in r.faults THEN r.pairs = <<>> /\ r.snapshot = <<>> /\ r.body = <<>>
                                  ELSE ToSet(r.pairs) \in moments

\* What a run r holds, given what was pending during it and what is pending now.
RowHolds(r, moments, pending) ==
    /\ Oldest(r.pairs)
    /\ r.body # <<>> => r.snapshot = r.body
    /\ r.at \notin {"idle", "done"} => pending \in moments
    /\ r.at \in Loaded => OfOneMoment(r, moments)
    /\ r.at \in {"idle", "corrections"} => r.title = UploadTitle

\* What a stage with these faults has of the pending corrections, and the title
\* it starts from: what the spec says, or the upload's.
Got(pairs, faults) == IF "corrections" \in faults THEN <<>> ELSE pairs
From(base, faults) == IF "spec" \in faults THEN UploadTitle ELSE base

\* What is known of run j while nobody has edited anything: a stage has the
\* pending corrections unless it could not load them, and, if repeating them
\* changes nothing, arrives at the title it started from, corrected; the EPUB
\* stages set out from the title of the PDF, and come back to it if their reads
\* failed as the print's did.
RowQuiet(j, r, stored, pairs, base) ==
    r.quiet =>
      /\ r.at \in Loaded => r.pairs = Got(pairs, r.faults)
      /\ r.at \in {"title", "epub spec"} => "spec" \notin r.faults
      /\ r.at = "title" => r.title = Patched(r.pairs, UploadTitle)
      /\ r.at \in {"map", "pdf"} /\ Settled(r.pairs) => r.title = Patched(r.pairs, From(base, r.faults))
      /\ \A o \in stored :
           o.run = j /\ o.format = "pdf" /\ r.at \in EPUBStages =>
             /\ o.pairs = Got(pairs, o.faults)
             /\ Settled(o.pairs) => o.title = Patched(o.pairs, From(base, o.faults))
             /\ r.at = "epub corrections" => r.title = o.title
             /\ r.at = "epub spec" => r.title = Patched(r.pairs, o.title)
             /\ r.at = "epub" /\ r.faults = o.faults /\ Settled(o.pairs) => r.title = o.title

BaseTitle == IF specRow.title = NoTitle THEN UploadTitle ELSE specRow.title

\* When an artifact of a run at a stage is stored.
StoredBy(o, at) == at \in IF o.format = "pdf" THEN EPUBStages \cup {"done"} ELSE {"done"}

Recorded(o) == o.body # <<>> => o.snapshot = o.body

\* TitlesAgree, of two artifacts.
Agree(p, e) ==
    /\ p.run = e.run /\ p.format = "pdf" /\ e.format = "epub"
    /\ p.quiet /\ e.quiet /\ p.faults = e.faults /\ Settled(p.pairs)
    => p.title = e.title

StagesInv ==
    /\ StagesTypes
    /\ \A j \in Runs : /\ RowHolds(job[j], during[j], PendingSet)
                       /\ RowQuiet(j, job[j], outputs, PendingPairs, BaseTitle)
    /\ \A o \in outputs : /\ StoredBy(o, job[o.run].at) /\ Recorded(o)
                          /\ OfOneMoment(o, during[o.run])
    /\ \A p, e \in outputs : Agree(p, e)

\* The pending corrections in order of creation: each once.
LEMMA PendingListed ==
  /\ PendingPairs \in Seq(Rows) /\ Oldest(PendingPairs)
  /\ ToSet(PendingPairs) = PendingSet
<1> DEFINE n == Cardinality(PendingSet)
           f == PendingPairs
<1>1. Len(Patch) \in Nat
  BY StagesAssumption
<1>2. PendingSet \in SUBSET Nat /\ PendingSet \subseteq Rows
  BY <1>1 DEF PendingSet, Rows
<1>3. IsFiniteSet(PendingSet) /\ n \in Nat
  <2>1. IsFiniteSet(Rows)
    BY <1>1, FS_Interval DEF Rows
  <2> QED
    BY <1>2, <2>1, FS_Subset, FS_CardinalityType
<1>4. \E s \in [1 .. n -> PendingSet] : \A a, b \in 1 .. n : a < b => s[a] < s[b]
  BY <1>2, <1>3, CanBeListed DEF Ascending
<1>5. /\ f \in [1 .. n -> PendingSet]
      /\ \A a, b \in 1 .. n : a < b => f[a] < f[b]
  BY <1>4 DEF PendingPairs
<1> HIDE DEF f, n
<1>6. DOMAIN f = 1 .. n /\ f \in [1 .. n -> Rows]
  BY <1>2, <1>5
<1>7. f \in Seq(Rows)
  BY <1>3, <1>6, SeqDef, Zenon DEF n
<1>8. f \in Surjection(1 .. n, PendingSet)
  <2>1. \A a, b \in 1 .. n : f[a] = f[b] => a = b
    <3> SUFFICES ASSUME NEW a \in 1 .. n, NEW b \in 1 .. n, a # b PROVE f[a] # f[b]
      OBVIOUS
    <3>1. f[a] \in Nat /\ f[b] \in Nat
      BY <1>2, <1>5
    <3>2. a < b \/ b < a
      BY <1>3
    <3> QED
      BY <1>5, <3>1, <3>2
  <2>2. f \in Injection(1 .. n, PendingSet)
    BY <1>5, <2>1 DEF Injection, IsInjective
  <2>3. Cardinality(1 .. n) = n
    <3>1. Cardinality(1 .. n) = IF 1 > n THEN 0 ELSE n - 1 + 1
      BY <1>3, FS_Interval
    <3> QED
      BY <1>3, <3>1
  <2> QED
    BY <1>3, <2>2, <2>3, FS_Injection DEF n
<1>9. ToSet(f) = PendingSet
  BY <1>6, <1>8 DEF ToSet, Surjection
<1>10. Oldest(f)
  BY <1>5, <1>6 DEF Oldest
<1> QED
  BY <1>7, <1>9, <1>10 DEF f

\* Correcting a title one correction after another gives a title.
LEMMA PatchedTitle ==
  ASSUME NEW pairs \in Seq(Rows), NEW t \in Titles
  PROVE  Patched(pairs, t) \in Titles
<1> DEFINE l == Len(pairs)
           next(n, x) == IF pairs[n] \in Scoped THEN x ELSE Patch[pairs[n]][x]
           Way(s, n) == /\ s \in [0 .. n -> Titles] /\ s[0] = t
                        /\ \A k \in 1 .. n : s[k] = next(k, s[k - 1])
           Stuck == {n \in 0 .. l : ~ \E s : Way(s, n)}
<1>1. l \in Nat /\ \A n \in 1 .. l : pairs[n] \in Rows
  BY LenProperties
<1>2. \A n \in 1 .. l : \A x \in Titles : next(n, x) \in Titles
  <2> TAKE n \in 1 .. l
  <2>1. Patch \in [1 .. Len(Patch) -> [Titles -> Titles]]
    BY StagesAssumption, LenProperties
  <2>2. Patch[pairs[n]] \in [Titles -> Titles]
    BY <1>1, <2>1 DEF Rows
  <2> QED
    BY <2>2
<1> HIDE DEF next, l
<1>3. Stuck = {}
  <2> SUFFICES ASSUME Stuck # {} PROVE FALSE
    OBVIOUS
  <2>1. PICK n \in Stuck : \A k \in Stuck : n <= k
    <3>1. Stuck \in SUBSET Nat
      BY <1>1
    <3> HIDE DEF Stuck
    <3> QED
      BY <3>1, LeastNatural
  <2>2. CASE n = 0
    <3>1. Way([k \in 0 .. 0 |-> t], 0)
      OBVIOUS
    <3> QED
      BY <2>2, <3>1
  <2>3. CASE n # 0
    <3>1. n \in 1 .. l /\ n - 1 \in 0 .. l /\ n \in Nat /\ n - 1 \in Nat
      BY <1>1, <2>3
    <3>2. n - 1 \notin Stuck
      BY <2>1, <3>1
    <3>3. PICK s : Way(s, n - 1)
      BY <3>1, <3>2
    <3> DEFINE more == [k \in 0 .. n |-> IF k = n THEN next(n, s[n - 1]) ELSE s[k]]
    <3>4. s[n - 1] \in Titles /\ \A k \in 0 .. (n - 1) : s[k] \in Titles
      BY <3>1, <3>3
    <3>5. next(n, s[n - 1]) \in Titles
      BY <1>2, <3>1, <3>4
    <3>6. more \in [0 .. n -> Titles]
      <4>1. \A k \in 0 .. n : k # n => k \in 0 .. (n - 1)
        BY <3>1
      <4> QED
        BY <3>4, <3>5, <4>1
    <3>7. more[0] = t
      BY <2>3, <3>1, <3>3
    <3>8. \A k \in 1 .. n : more[k] = next(k, more[k - 1])
      <4> TAKE k \in 1 .. n
      <4>1. more[k - 1] = s[k - 1]
        BY <3>1
      <4>2. CASE k = n
        BY <3>1, <4>1, <4>2
      <4>3. CASE k # n
        <5>1. k \in 1 .. (n - 1) /\ more[k] = s[k]
          BY <3>1, <4>3
        <5> QED
          BY <3>3, <4>1, <5>1
      <4> QED
        BY <4>2, <4>3
    <3>9. Way(more, n)
      <4> HIDE DEF more
      <4> QED
        BY <3>6, <3>7, <3>8
    <3> QED
      BY <3>9
  <2> QED
    BY <2>2, <2>3
<1>4. \E s : Way(s, l)
  <2> HIDE DEF Way
  <2>1. l \in 0 .. l
    BY <1>1
  <2> QED
    BY <1>3, <2>1
<1> DEFINE after == CHOOSE s \in [0 .. Len(pairs) -> Titles] :
                      /\ s[0] = t
                      /\ \A n \in 1 .. Len(pairs) :
                           s[n] = IF pairs[n] \in Scoped THEN s[n - 1] ELSE Patch[pairs[n]][s[n - 1]]
<1>5. after \in [0 .. Len(pairs) -> Titles]
  <2>1. PICK s : Way(s, l)
    BY <1>4
  <2>2. s \in [0 .. Len(pairs) -> Titles] /\ s[0] = t
    BY <2>1 DEF l
  <2>3. \A n \in 1 .. Len(pairs) :
          s[n] = IF pairs[n] \in Scoped THEN s[n - 1] ELSE Patch[pairs[n]][s[n - 1]]
    BY <2>1 DEF l, next
  <2>4. \E x \in [0 .. Len(pairs) -> Titles] :
          /\ x[0] = t
          /\ \A n \in 1 .. Len(pairs) :
               x[n] = IF pairs[n] \in Scoped THEN x[n - 1] ELSE Patch[pairs[n]][x[n - 1]]
    BY <2>2, <2>3
  <2> QED
    BY <2>4
<1>6. Patched(pairs, t) = after[Len(pairs)]
  BY DEF Patched
<1> HIDE DEF after
<1> QED
  BY <1>1, <1>5, <1>6 DEF l

\* An edit: the runs under way are no longer quiet, and what is pending now is
\* among what was pending during them.
LEMMA EditKeepsRuns ==
  ASSUME StagesInv, Edit,
         ledger' \in [Rows -> {"absent", "pending", "applied", "skipped", "deleted"}],
         specRow' \in [exists: BOOLEAN, title: Titles \cup {NoTitle}],
         specRow'.title \in SpecTitles \cup {NoTitle},
         ~ specRow'.exists => specRow'.title = NoTitle
  PROVE  StagesInv'
<1>1. /\ job \in [Runs -> RunRow] /\ outputs \subseteq Artifact /\ during = [j \in Runs |-> during[j]]
      /\ outputs' = outputs
      /\ job' = [j \in Runs |-> [job[j] EXCEPT !.quiet = @ /\ ~ Running(j)]]
      /\ during' = [j \in Runs |-> IF Running(j) THEN during[j] \cup {PendingSet'} ELSE during[j]]
  BY DEF StagesInv, StagesTypes, Edit
<1>2. ASSUME NEW j \in Runs
      PROVE  /\ job'[j] \in RunRow
             /\ job'[j].at = job[j].at /\ job'[j].pairs = job[j].pairs /\ job'[j].body = job[j].body
             /\ job'[j].snapshot = job[j].snapshot /\ job'[j].title = job[j].title
             /\ job'[j].faults = job[j].faults
             /\ job'[j].quiet => job[j].at \in {"idle", "done"}
  <2>1. PICK b : b = job[j]
    OBVIOUS
  <2>2. b \in RunRow
    BY <1>1, <2>1
  <2>3. PICK calm \in BOOLEAN : calm = (b.quiet /\ ~ Running(j))
    BY <2>2 DEF RunRow
  <2>4. job'[j] = [b EXCEPT !.quiet = calm]
    BY <1>1, <2>1, <2>3
  <2>5. calm => b.at \in {"idle", "done"}
    BY <2>1, <2>3 DEF Running
  <2> QED
    BY <2>1, <2>2, <2>4, <2>5 DEF RunRow
<1>3. ASSUME NEW j \in Runs
      PROVE  /\ during[j] \subseteq during'[j]
             /\ job[j].at \notin {"idle", "done"} => PendingSet' \in during'[j]
  BY <1>1 DEF Running
<1>4. ASSUME NEW j \in Runs
      PROVE  RowHolds(job'[j], during'[j], PendingSet')
  <2>1. RowHolds(job[j], during[j], PendingSet)
    BY DEF StagesInv
  <2> QED
    BY <1>2, <1>3, <2>1 DEF RowHolds, OfOneMoment
<1>5. ASSUME NEW j \in Runs
      PROVE  RowQuiet(j, job'[j], outputs', PendingPairs', BaseTitle')
  <2>1. job'[j].quiet => job'[j].at \in {"idle", "done"}
    BY <1>2
  <2>2. {"idle", "done"} \cap (Loaded \cup EPUBStages \cup {"title", "map", "pdf", "epub spec"}) = {}
    BY DEF Loaded, EPUBStages
  <2> QED
    BY <2>1, <2>2 DEF RowQuiet
<1>6. \A o \in outputs : o.run \in Runs
  BY <1>1 DEF Artifact
<1>7. \A o \in outputs : /\ StoredBy(o, job'[o.run].at) /\ Recorded(o)
                         /\ OfOneMoment(o, during'[o.run])
  BY <1>2, <1>3, <1>6 DEF StagesInv, OfOneMoment
<1>8. StagesTypes'
  <2>1. job' \in [Runs -> RunRow]
    BY <1>1, <1>2
  <2>2. during' = [j \in Runs |-> during'[j]]
    BY <1>1
  <2> QED
    BY <1>1, <2>1, <2>2 DEF StagesTypes
<1> QED
  BY <1>1, <1>4, <1>5, <1>7, <1>8 DEF StagesInv

\* A stage of run j: the row becomes r, and what is stored is its own.
LEMMA RunMoves ==
  ASSUME StagesInv, NEW j \in Runs, NEW r \in RunRow, Becomes(j, r),
         NEW moments, during' = [during EXCEPT ![j] = moments],
         NEW new \in SUBSET Artifact, outputs' = outputs \cup new, \A o \in new : o.run = j,
         RowHolds(r, moments, PendingSet),
         RowQuiet(j, r, outputs', PendingPairs, BaseTitle),
         \A o \in outputs' : o.run = j => /\ StoredBy(o, r.at) /\ Recorded(o)
                                          /\ OfOneMoment(o, moments),
         \A p, e \in outputs' : p.run = j /\ e.run = j => Agree(p, e)
  PROVE  StagesInv'
<1>1. /\ job' = [job EXCEPT ![j] = r] /\ UNCHANGED <<ledger, specRow>>
      /\ job \in [Runs -> RunRow] /\ outputs \subseteq Artifact /\ during = [k \in Runs |-> during[k]]
  BY DEF StagesInv, StagesTypes, Becomes
<1>2. PendingSet' = PendingSet /\ PendingPairs' = PendingPairs /\ BaseTitle' = BaseTitle
  BY <1>1 DEF PendingSet, PendingPairs, BaseTitle
<1>3. /\ job'[j] = r /\ during'[j] = moments /\ during' = [k \in Runs |-> during'[k]]
      /\ job' \in [Runs -> RunRow]
      /\ \A k \in Runs \ {j} : job'[k] = job[k] /\ during'[k] = during[k]
  BY <1>1
<1>4. ASSUME NEW k \in Runs
      PROVE  /\ RowHolds(job'[k], during'[k], PendingSet)
             /\ RowQuiet(k, job'[k], outputs', PendingPairs, BaseTitle)
  <2>1. CASE k = j
    BY <1>3, <2>1
  <2>2. CASE k # j
    <3>1. /\ RowHolds(job[k], during[k], PendingSet)
          /\ RowQuiet(k, job[k], outputs, PendingPairs, BaseTitle)
      BY DEF StagesInv
    <3>2. \A o \in outputs' : o.run = k => o \in outputs
      BY <2>2
    <3>3. RowQuiet(k, job[k], outputs', PendingPairs, BaseTitle)
      BY <3>1, <3>2 DEF RowQuiet
    <3> QED
      BY <1>3, <2>2, <3>1, <3>3
  <2> QED
    BY <2>1, <2>2
<1>5. ASSUME NEW o \in outputs'
      PROVE  StoredBy(o, job'[o.run].at) /\ Recorded(o) /\ OfOneMoment(o, during'[o.run])
  <2>1. CASE o.run = j
    BY <1>3, <2>1
  <2>2. CASE o.run # j
    <3>1. o \in outputs /\ o.run \in Runs
      BY <1>1, <2>2 DEF Artifact
    <3>2. StoredBy(o, job[o.run].at) /\ Recorded(o) /\ OfOneMoment(o, during[o.run])
      BY <3>1 DEF StagesInv
    <3> QED
      BY <1>3, <2>2, <3>1, <3>2
  <2> QED
    BY <2>1, <2>2
<1>6. ASSUME NEW p \in outputs', NEW e \in outputs' PROVE Agree(p, e)
  <2>1. CASE p.run = e.run /\ p.run = j
    BY <2>1
  <2>2. CASE p.run = e.run /\ p.run # j
    <3>1. p \in outputs /\ e \in outputs
      BY <2>2
    <3> QED
      BY <3>1 DEF StagesInv
  <2>3. CASE p.run # e.run
    BY <2>3 DEF Agree
  <2> QED
    BY <2>1, <2>2, <2>3
<1>7. StagesTypes'
  BY <1>1, <1>3 DEF StagesTypes, StagesInv
<1> QED
  BY <1>2, <1>4, <1>5, <1>6, <1>7 DEF StagesInv

\* What is known of the row and the artifacts of a run before its next stage.
LEMMA RunKnown ==
  ASSUME StagesInv, NEW j \in Runs
  PROVE  /\ job[j] \in RunRow /\ RowHolds(job[j], during[j], PendingSet)
         /\ RowQuiet(j, job[j], outputs, PendingPairs, BaseTitle)
         /\ \A o \in outputs : o.run = j => /\ StoredBy(o, job[j].at) /\ Recorded(o)
                                            /\ OfOneMoment(o, during[j])
         /\ during = [during EXCEPT ![j] = during[j]]
         /\ UploadTitle \in Titles /\ BaseTitle \in Titles
<1>1. job[j] \in RunRow /\ during = [during EXCEPT ![j] = during[j]]
  BY DEF StagesInv, StagesTypes
<1>2. UploadTitle \in Titles /\ BaseTitle \in Titles
  BY StagesAssumption DEF StagesInv, StagesTypes, BaseTitle
<1> QED
  BY <1>1, <1>2 DEF StagesInv

\* Rows of the next stages.
LEMMA NextStage ==
  ASSUME NEW b \in RunRow, NEW at \in RunStages, NEW t \in Titles, NEW u \in Titles \cup {NoTitle}
  PROVE  /\ [b EXCEPT !.at = at] \in RunRow
         /\ [b EXCEPT !.at = at, !.title = t] \in RunRow
         /\ [b EXCEPT !.at = at, !.title = t, !.mapTitle = u] \in RunRow
         /\ [b EXCEPT !.at = at, !.mapTitle = u] \in RunRow
BY DEF RunRow

\* A stage that only reads.
LEMMA RunReads ==
  ASSUME StagesInv, NEW j \in Runs, NEW r \in RunRow, Becomes(j, r), UNCHANGED <<outputs, during>>,
         RowHolds(r, during[j], PendingSet),
         RowQuiet(j, r, outputs, PendingPairs, BaseTitle),
         \A o \in outputs : o.run = j => StoredBy(o, r.at)
  PROVE  StagesInv'
<1>1. PICK moments : moments = during[j]
  OBVIOUS
<1>2. during' = [during EXCEPT ![j] = moments]
  BY <1>1, RunKnown
<1>3. {} \in SUBSET Artifact /\ outputs' = outputs \cup {} /\ \A o \in {} : o.run = j
  OBVIOUS
<1>4. \A o \in outputs' : o.run = j => /\ StoredBy(o, r.at) /\ Recorded(o)
                                       /\ OfOneMoment(o, moments)
  BY <1>1, RunKnown
<1>5. \A p, e \in outputs' : p.run = j /\ e.run = j => Agree(p, e)
  BY DEF StagesInv
<1>6. RowHolds(r, moments, PendingSet) /\ RowQuiet(j, r, outputs', PendingPairs, BaseTitle)
  BY <1>1
<1> QED
  BY <1>2, <1>3, <1>4, <1>5, <1>6, RunMoves

LEMMA StartRunKeeps ==
  ASSUME StagesInv, NEW j \in Runs, StartRun(j)
  PROVE  StagesInv'
<1>1. PICK at \in {"corrections", "epub corrections"} : Becomes(j, [job[j] EXCEPT !.at = at])
  BY DEF StartRun
<1>2. PICK b \in RunRow : b = job[j]
  BY RunKnown
<1> DEFINE r == [b EXCEPT !.at = at]
<1>3. /\ r \in RunRow /\ r.at = at /\ r.title = b.title /\ r.pairs = b.pairs
      /\ r.body = b.body /\ r.snapshot = b.snapshot
  BY DEF RunRow, RunStages
<1>4. Becomes(j, r) /\ during' = [during EXCEPT ![j] = {PendingSet}] /\ outputs' = outputs /\ b.at = "idle"
  BY <1>1, <1>2 DEF StartRun
<1> HIDE DEF r
<1>5. at \notin Loaded /\ at \notin {"idle", "done", "title", "map", "pdf"}
  BY DEF Loaded
<1>6. RowHolds(r, {PendingSet}, PendingSet)
  <2>1. RowHolds(b, during[j], PendingSet)
    BY <1>2, RunKnown
  <2> QED
    BY <1>3, <1>4, <1>5, <2>1 DEF RowHolds
<1>7. \A o \in outputs : o.run # j
  BY <1>2, <1>4, RunKnown DEF StoredBy, EPUBStages
<1>8. RowQuiet(j, r, outputs, PendingPairs, BaseTitle)
  BY <1>3, <1>5, <1>7 DEF RowQuiet
<1>9. {} \in SUBSET Artifact /\ outputs' = outputs \cup {}
  BY <1>4
<1>10. RowQuiet(j, r, outputs', PendingPairs, BaseTitle)
  BY <1>4, <1>8
<1>11. \A o \in outputs' : o.run # j
  BY <1>4, <1>7
<1>12. /\ \A o \in {} : o.run = j
       /\ \A o \in outputs' : o.run = j => /\ StoredBy(o, r.at) /\ Recorded(o)
                                           /\ OfOneMoment(o, {PendingSet})
       /\ \A p, e \in outputs' : p.run = j /\ e.run = j => Agree(p, e)
  BY <1>11
<1> QED
  BY <1>3, <1>4, <1>6, <1>9, <1>10, <1>12, RunMoves

LEMMA SettledTwice ==
  \A pairs : Settled(pairs) =>
    \A t \in Titles : Patched(pairs, Patched(pairs, t)) = Patched(pairs, t)
BY DEF Settled

\* What loading the corrections makes of a run's row.
LoadedRow(b, outcome, at) == [ApplyCorrections(b, PendingPairs, outcome) EXCEPT !.at = at]

LoadedFits(r, b, at, moments) ==
    /\ r \in RunRow /\ r.at = at /\ r.quiet = b.quiet /\ "spec" \notin r.faults
    /\ r.pairs = Got(PendingPairs, r.faults) /\ r.title = Patched(r.pairs, b.title)
    /\ Oldest(r.pairs) /\ (r.body # <<>> => r.snapshot = r.body)
    /\ PendingSet \in moments => OfOneMoment(r, moments)

LEMMA RowLoaded ==
  ASSUME NEW b \in RunRow, NEW at \in RunStages, NEW outcome \in LoadOutcomes, NEW r,
         NEW moments, r = LoadedRow(b, outcome, at)
  PROVE  LoadedFits(r, b, at, moments)
<1>1. PICK missed \in BOOLEAN : missed = (outcome = "unloaded")
  OBVIOUS
<1>2. <<>> \in Seq(Rows) /\ Oldest(<<>>)
  BY DEF Oldest
<1>3. PICK pairs \in Seq(Rows) : pairs = IF missed THEN <<>> ELSE PendingPairs
  BY <1>2, PendingListed
<1>4. PICK snapshot \in Seq(Rows) : snapshot = IF outcome \in {"unpatched", "patched"} THEN pairs ELSE <<>>
  BY <1>2
<1>5. PICK body \in Seq(Rows) : body = IF outcome = "patched" THEN pairs ELSE <<>>
  BY <1>2
<1>6. PICK faults \in SUBSET {"corrections", "spec"} : faults = IF missed THEN {"corrections"} ELSE {}
  OBVIOUS
<1>7. PICK t \in Titles : t = Patched(pairs, b.title)
  BY PatchedTitle DEF RunRow
<1>8. ApplyCorrections(b, PendingPairs, outcome) =
        [b EXCEPT !.pairs = pairs, !.title = t, !.snapshot = snapshot, !.body = body, !.faults = faults]
  BY <1>1, <1>3, <1>4, <1>5, <1>6, <1>7 DEF ApplyCorrections
<1>9. r = [[b EXCEPT !.pairs = pairs, !.title = t, !.snapshot = snapshot, !.body = body, !.faults = faults]
             EXCEPT !.at = at]
  BY <1>8 DEF LoadedRow
<1>10. /\ r \in RunRow /\ r.at = at /\ r.pairs = pairs /\ r.title = t /\ r.snapshot = snapshot
       /\ r.body = body /\ r.faults = faults /\ r.quiet = b.quiet
  BY <1>9 DEF RunRow
<1>11. pairs = Got(PendingPairs, faults) /\ "spec" \notin faults /\ ("corrections" \in faults <=> missed)
  BY <1>3, <1>6 DEF Got
<1>12. Oldest(pairs) /\ (body # <<>> => snapshot = body)
  BY <1>2, <1>3, <1>4, <1>5, PendingListed
<1>13. missed => pairs = <<>> /\ snapshot = <<>> /\ body = <<>>
  BY <1>3, <1>4, <1>5
<1>14. ~ missed => ToSet(pairs) = PendingSet
  BY <1>3, PendingListed
<1> QED
  BY <1>7, <1>10, <1>11, <1>12, <1>13, <1>14 DEF OfOneMoment, LoadedFits

LEMMA LoadCorrectionsKeeps ==
  ASSUME StagesInv, NEW j \in Runs, LoadCorrections(j)
  PROVE  StagesInv'
<1>1. PICK b \in RunRow : b = job[j]
  BY RunKnown
<1>2. PICK at \in {"title", "epub spec"} : at = IF b.at = "corrections" THEN "title" ELSE "epub spec"
  OBVIOUS
<1>3. PICK outcome \in LoadOutcomes :
        Becomes(j, [ApplyCorrections(job[j], PendingPairs, outcome)
                      EXCEPT !.at = IF @ = "corrections" THEN "title" ELSE "epub spec"])
  BY DEF LoadCorrections
<1>4. at \in RunStages /\ at \in Loaded
  BY DEF RunStages, Loaded
<1>5. PICK r : r = LoadedRow(b, outcome, at)
  OBVIOUS
<1>6. Becomes(j, r)
  <2>1. ApplyCorrections(b, PendingPairs, outcome).at = b.at
    BY DEF ApplyCorrections, RunRow
  <2>2. [ApplyCorrections(job[j], PendingPairs, outcome)
           EXCEPT !.at = IF @ = "corrections" THEN "title" ELSE "epub spec"] = r
    BY <1>1, <1>2, <1>5, <2>1 DEF LoadedRow
  <2> QED
    BY <1>3, <2>2
<1>7. /\ r \in RunRow /\ r.at = at /\ r.quiet = b.quiet /\ "spec" \notin r.faults
      /\ r.pairs = Got(PendingPairs, r.faults) /\ r.title = Patched(r.pairs, b.title)
      /\ Oldest(r.pairs) /\ (r.body # <<>> => r.snapshot = r.body)
      /\ PendingSet \in during[j] => OfOneMoment(r, during[j])
  <2>1. PICK moments : moments = during[j]
    OBVIOUS
  <2>2. at \in RunStages /\ b \in RunRow /\ outcome \in LoadOutcomes /\ r = LoadedRow(b, outcome, at)
    BY <1>4, <1>5
  <2>3. LoadedFits(r, b, at, moments)
    BY <2>2, RowLoaded
  <2> QED
    BY <2>1, <2>3 DEF LoadedFits
<1>8. outputs' = outputs /\ during' = during /\ b.at \in {"corrections", "epub corrections"}
  BY <1>1 DEF LoadCorrections
<1>9. /\ RowHolds(b, during[j], PendingSet) /\ RowQuiet(j, b, outputs, PendingPairs, BaseTitle)
      /\ \A o \in outputs : o.run = j => StoredBy(o, b.at)
  BY <1>1, RunKnown
<1>10. RowHolds(r, during[j], PendingSet)
  BY <1>2, <1>7, <1>8, <1>9 DEF RowHolds
<1>11. \A o \in outputs : o.run = j => b.at = "epub corrections" /\ o.format = "pdf"
  BY <1>8, <1>9 DEF StoredBy, EPUBStages
<1>12. \A o \in outputs : o.run = j => StoredBy(o, r.at)
  BY <1>2, <1>7, <1>11 DEF StoredBy, EPUBStages
<1>13. RowQuiet(j, r, outputs, PendingPairs, BaseTitle)
  <2>1. r.at = "title" => r.title = Patched(r.pairs, UploadTitle)
    BY <1>2, <1>7, <1>8, <1>9 DEF RowHolds
  <2>2. ASSUME r.quiet, NEW o \in outputs, o.run = j, o.format = "pdf"
        PROVE  /\ o.pairs = Got(PendingPairs, o.faults)
               /\ Settled(o.pairs) => o.title = Patched(o.pairs, From(BaseTitle, o.faults))
               /\ r.title = Patched(r.pairs, o.title)
    <3>1. b.at = "epub corrections" /\ b.at \in EPUBStages /\ b.quiet
      BY <1>7, <1>11, <2>2 DEF EPUBStages
    <3>2. /\ o.pairs = Got(PendingPairs, o.faults)
          /\ Settled(o.pairs) => o.title = Patched(o.pairs, From(BaseTitle, o.faults))
          /\ b.title = o.title
      BY <1>9, <2>2, <3>1 DEF RowQuiet
    <3> QED
      BY <1>7, <3>2
  <2>3. r.at \notin {"map", "pdf", "epub corrections", "epub"}
    BY <1>2, <1>7
  <2> QED
    BY <1>7, <2>1, <2>2, <2>3 DEF RowQuiet
<1> QED
  BY <1>6, <1>7, <1>8, <1>10, <1>12, <1>13, RunReads

\* The title a spec as it was read starts from.
SeenTitle(spec) == IF spec.title = NoTitle THEN UploadTitle ELSE spec.title

LEMMA SpecSeen ==
  ASSUME StagesInv, NEW spec, spec \in SpecReads
  PROVE  /\ spec.title \in Titles \cup {NoTitle} /\ SeenTitle(spec) \in Titles
         /\ ~ spec.exists => spec.title = NoTitle
<1>1. /\ specRow.title \in Titles \cup {NoTitle} /\ (~ specRow.exists => specRow.title = NoTitle)
      /\ UploadTitle \in Titles
  BY StagesAssumption DEF StagesInv, StagesTypes
<1>2. spec = specRow \/ spec.title = NoTitle
  BY DEF SpecReads, Unwritten
<1> QED
  BY <1>1, <1>2 DEF SeenTitle

\* A read that failed is remembered, and one that did not shows the spec.
LEMMA FaultSeen ==
  ASSUME NEW spec, spec \in SpecReads, NEW pairs, NEW faults, NEW more,
         more = faults \cup ReadFault(spec), "spec" \notin faults
  PROVE  /\ Got(pairs, more) = Got(pairs, faults)
         /\ From(BaseTitle, more) = SeenTitle(spec)
<1>1. CASE spec = specRow
  BY <1>1 DEF ReadFault, Got, From, SeenTitle, BaseTitle
<1>2. CASE spec # specRow
  <2>1. spec = Unwritten /\ ReadFault(spec) = {"spec"}
    BY <1>2 DEF SpecReads, ReadFault
  <2>2. spec.title = NoTitle
    BY <2>1 DEF Unwritten
  <2> QED
    BY <2>1, <2>2 DEF Got, From, SeenTitle
<1> QED
  BY <1>1, <1>2

\* Reading the spec's title over a title x that is already corrected, and
\* correcting it.
LEMMA TitleRead ==
  ASSUME StagesInv, NEW spec, spec \in SpecReads, NEW pairs, NEW x \in Titles, Settled(pairs),
         spec.title = NoTitle => x = Patched(pairs, SeenTitle(spec))
  PROVE  LET t == IF spec.title = NoTitle THEN x ELSE spec.title IN
         /\ spec.exists => Patched(pairs, t) = Patched(pairs, SeenTitle(spec))
         /\ ~ spec.exists => t = Patched(pairs, SeenTitle(spec)) /\ x = t
<1>1. SeenTitle(spec) \in Titles /\ (~ spec.exists => spec.title = NoTitle)
  BY SpecSeen
<1>2. Patched(pairs, Patched(pairs, SeenTitle(spec))) = Patched(pairs, SeenTitle(spec))
  BY <1>1, SettledTwice, Zenon
<1>3. CASE spec.title = NoTitle
  BY <1>2, <1>3
<1>4. CASE spec.title # NoTitle
  BY <1>1, <1>4 DEF SeenTitle
<1> QED
  BY <1>3, <1>4

\* What the stages before the first artifact have stored: nothing.
LEMMA NothingStored ==
  ASSUME StagesInv, NEW j \in Runs, job[j].at \in {"title", "map", "pdf"}
  PROVE  \A o \in outputs : o.run # j
BY RunKnown DEF StoredBy, EPUBStages

LEMMA ReadTitleKeeps ==
  ASSUME StagesInv, NEW j \in Runs, ReadTitle(j)
  PROVE  StagesInv'
<1>1. PICK b \in RunRow : b = job[j]
  BY RunKnown
<1>2. /\ b.at = "title" /\ b.title \in Titles /\ b.pairs \in Seq(Rows)
      /\ b.faults \in SUBSET {"corrections", "spec"} /\ outputs' = outputs /\ during' = during
  BY <1>1 DEF ReadTitle, RunRow
<1>3. RowHolds(b, during[j], PendingSet) /\ RowQuiet(j, b, outputs, PendingPairs, BaseTitle)
  BY <1>1, RunKnown
<1>4. PICK spec \in SpecReads :
        LET t == IF spec.title = NoTitle THEN job[j].title ELSE spec.title IN
        Becomes(j, [job[j] EXCEPT !.at = "map", !.faults = @ \cup ReadFault(spec),
                                  !.title = IF spec.exists THEN Patched(job[j].pairs, t) ELSE @])
  BY DEF ReadTitle
<1>5. spec.title \in Titles \cup {NoTitle}
  BY SpecSeen
<1>6. PICK t \in Titles : t = IF spec.title = NoTitle THEN b.title ELSE spec.title
  BY <1>2, <1>5
<1>7. PICK u \in Titles : u = IF spec.exists THEN Patched(b.pairs, t) ELSE b.title
  BY <1>2, PatchedTitle
<1>8. PICK faults \in SUBSET {"corrections", "spec"} : faults = b.faults \cup ReadFault(spec)
  BY <1>2 DEF ReadFault
<1> DEFINE r == [b EXCEPT !.at = "map", !.faults = faults, !.title = u]
<1>9. Becomes(j, r)
  BY <1>1, <1>4, <1>6, <1>7, <1>8
<1>10. /\ r \in RunRow /\ r.at = "map" /\ r.title = u /\ r.pairs = b.pairs /\ r.body = b.body
       /\ r.snapshot = b.snapshot /\ r.quiet = b.quiet /\ r.faults = faults
  BY DEF RunRow, RunStages
<1> HIDE DEF r
<1>11. RowHolds(r, during[j], PendingSet)
  <2>1. "corrections" \in faults <=> "corrections" \in b.faults
    BY <1>8 DEF ReadFault
  <2> QED
    BY <1>2, <1>3, <1>10, <2>1 DEF RowHolds, OfOneMoment, Loaded
<1>12. \A o \in outputs : o.run # j
  BY <1>1, <1>2, NothingStored
<1>13. RowQuiet(j, r, outputs, PendingPairs, BaseTitle)
  <2> SUFFICES ASSUME r.quiet
               PROVE  /\ r.pairs = Got(PendingPairs, r.faults)
                      /\ Settled(r.pairs) => r.title = Patched(r.pairs, From(BaseTitle, r.faults))
    BY <1>10, <1>12 DEF RowQuiet
  <2>1. /\ b.pairs = Got(PendingPairs, b.faults) /\ b.title = Patched(b.pairs, UploadTitle)
        /\ "spec" \notin b.faults
    BY <1>2, <1>3, <1>10 DEF RowQuiet, Loaded
  <2>2. /\ Got(PendingPairs, faults) = Got(PendingPairs, b.faults)
        /\ From(BaseTitle, faults) = SeenTitle(spec)
    BY <1>8, <2>1, FaultSeen
  <2>3. spec.title = NoTitle => b.title = Patched(b.pairs, SeenTitle(spec))
    BY <2>1 DEF SeenTitle
  <2>4. Settled(b.pairs) => u = Patched(b.pairs, SeenTitle(spec))
    BY <1>2, <1>6, <1>7, <2>3, TitleRead
  <2> QED
    BY <1>10, <2>1, <2>2, <2>4
<1> QED
  BY <1>2, <1>9, <1>10, <1>11, <1>12, <1>13, RunReads

LEMMA ReadMapKeeps ==
  ASSUME StagesInv, NEW j \in Runs, ReadMap(j)
  PROVE  StagesInv'
<1>1. PICK b \in RunRow : b = job[j]
  BY RunKnown
<1>2. b.at = "map" /\ b.title \in Titles /\ outputs' = outputs /\ during' = during
  BY <1>1 DEF ReadMap, RunRow
<1>3. RowHolds(b, during[j], PendingSet) /\ RowQuiet(j, b, outputs, PendingPairs, BaseTitle)
  BY <1>1, RunKnown
<1>4. PICK u \in Titles \cup {NoTitle} : Becomes(j, [job[j] EXCEPT !.at = "pdf", !.mapTitle = u])
  <2>1. PICK spec \in SpecReads :
          Becomes(j, [job[j] EXCEPT !.at = "pdf",
                                    !.mapTitle = IF spec.title = NoTitle THEN job[j].title ELSE spec.title])
    BY DEF ReadMap
  <2> QED
    BY <1>1, <1>2, <2>1, SpecSeen
<1> DEFINE r == [b EXCEPT !.at = "pdf", !.mapTitle = u]
<1>5. Becomes(j, r)
  BY <1>1, <1>4
<1>6. /\ r \in RunRow /\ r.at = "pdf" /\ r.title = b.title /\ r.pairs = b.pairs /\ r.body = b.body
      /\ r.snapshot = b.snapshot /\ r.quiet = b.quiet /\ r.faults = b.faults
  BY DEF RunRow, RunStages
<1> HIDE DEF r
<1>7. RowHolds(r, during[j], PendingSet)
  BY <1>2, <1>3, <1>6 DEF RowHolds, OfOneMoment, Loaded
<1>8. \A o \in outputs : o.run # j
  BY <1>1, <1>2, NothingStored
<1>9. RowQuiet(j, r, outputs, PendingPairs, BaseTitle)
  BY <1>2, <1>3, <1>6, <1>8 DEF RowQuiet, Loaded
<1> QED
  BY <1>2, <1>5, <1>6, <1>7, <1>8, <1>9, RunReads

LEMMA ReadEPUBSpecKeeps ==
  ASSUME StagesInv, NEW j \in Runs, ReadEPUBSpec(j)
  PROVE  StagesInv'
<1>1. PICK b \in RunRow : b = job[j]
  BY RunKnown
<1>2. /\ b.at = "epub spec" /\ b.title \in Titles /\ b.pairs \in Seq(Rows)
      /\ b.faults \in SUBSET {"corrections", "spec"} /\ outputs' = outputs /\ during' = during
  BY <1>1 DEF ReadEPUBSpec, RunRow
<1>3. /\ RowHolds(b, during[j], PendingSet) /\ RowQuiet(j, b, outputs, PendingPairs, BaseTitle)
      /\ \A o \in outputs : o.run = j => StoredBy(o, b.at)
  BY <1>1, RunKnown
<1>4. PICK spec \in SpecReads :
        LET t == EPUBTitle(job[j], spec)
        IN Becomes(j, [job[j] EXCEPT !.at = "epub", !.title = t, !.mapTitle = t,
                                     !.faults = @ \cup ReadFault(spec)])
  BY DEF ReadEPUBSpec
<1>5. spec.title \in Titles \cup {NoTitle}
  BY SpecSeen
<1>6. PICK t \in Titles : t = IF spec.title = NoTitle THEN b.title ELSE spec.title
  BY <1>2, <1>5
<1>7. PICK u \in Titles : u = IF spec.exists THEN Patched(b.pairs, t) ELSE t
  BY <1>2, PatchedTitle
<1>8. PICK faults \in SUBSET {"corrections", "spec"} : faults = b.faults \cup ReadFault(spec)
  BY <1>2 DEF ReadFault
<1> DEFINE r == [b EXCEPT !.at = "epub", !.title = u, !.mapTitle = u, !.faults = faults]
<1>9. Becomes(j, r)
  <2>1. EPUBTitle(job[j], spec) = u
    BY <1>1, <1>6, <1>7 DEF EPUBTitle
  <2> QED
    BY <1>1, <1>4, <1>8, <2>1
<1>10. /\ r \in RunRow /\ r.at = "epub" /\ r.title = u /\ r.pairs = b.pairs /\ r.body = b.body
       /\ r.snapshot = b.snapshot /\ r.quiet = b.quiet /\ r.faults = faults
  BY DEF RunRow, RunStages
<1> HIDE DEF r
<1>11. RowHolds(r, during[j], PendingSet)
  <2>1. "corrections" \in faults <=> "corrections" \in b.faults
    BY <1>8 DEF ReadFault
  <2> QED
    BY <1>2, <1>3, <1>10, <2>1 DEF RowHolds, OfOneMoment, Loaded
<1>12. \A o \in outputs : o.run = j => StoredBy(o, r.at)
  BY <1>2, <1>3, <1>10 DEF StoredBy, EPUBStages
<1>13. RowQuiet(j, r, outputs, PendingPairs, BaseTitle)
  <2> SUFFICES ASSUME r.quiet
               PROVE  /\ r.pairs = Got(PendingPairs, r.faults)
                      /\ \A o \in outputs : o.run = j /\ o.format = "pdf" =>
                            /\ o.pairs = Got(PendingPairs, o.faults)
                            /\ Settled(o.pairs) => o.title = Patched(o.pairs, From(BaseTitle, o.faults))
                            /\ r.faults = o.faults /\ Settled(o.pairs) => r.title = o.title
    BY <1>10 DEF RowQuiet
  <2>1. b.quiet /\ b.pairs = Got(PendingPairs, b.faults) /\ "spec" \notin b.faults
    BY <1>2, <1>3, <1>10 DEF RowQuiet, Loaded
  <2>2. /\ Got(PendingPairs, faults) = Got(PendingPairs, b.faults)
        /\ From(BaseTitle, faults) = SeenTitle(spec) /\ SeenTitle(spec) \in Titles
    BY <1>8, <2>1, FaultSeen, SpecSeen
  <2>3. ASSUME NEW o \in outputs, o.run = j, o.format = "pdf"
        PROVE  /\ o.pairs = Got(PendingPairs, o.faults)
               /\ Settled(o.pairs) => o.title = Patched(o.pairs, From(BaseTitle, o.faults))
               /\ b.title = Patched(b.pairs, o.title)
    BY <1>2, <1>3, <2>1, <2>3 DEF RowQuiet, EPUBStages
  <2>4. ASSUME NEW o \in outputs, o.run = j, o.format = "pdf", r.faults = o.faults, Settled(o.pairs)
        PROVE  r.title = o.title
    <3>1. o.pairs = b.pairs /\ o.title = Patched(b.pairs, SeenTitle(spec))
      BY <1>10, <2>1, <2>2, <2>3, <2>4
    <3>2. Settled(b.pairs)
      BY <2>4, <3>1
    <3>3. Patched(b.pairs, Patched(b.pairs, SeenTitle(spec))) = Patched(b.pairs, SeenTitle(spec))
      BY <2>2, <3>2, SettledTwice, Zenon
    <3>4. b.title = Patched(b.pairs, SeenTitle(spec))
      BY <2>3, <2>4, <3>1, <3>3
    <3>5. u = Patched(b.pairs, SeenTitle(spec))
      BY <1>2, <1>6, <1>7, <3>2, <3>4, TitleRead
    <3> QED
      BY <1>10, <3>1, <3>5
  <2> QED
    BY <1>10, <2>1, <2>2, <2>3, <2>4
<1> QED
  BY <1>2, <1>9, <1>10, <1>11, <1>12, <1>13, RunReads

\* The artifact a run stores.
LEMMA ArtifactOf ==
  ASSUME NEW j \in Runs, NEW b \in RunRow, b = job[j], NEW format \in {"pdf", "epub"}, Store(j, format)
  PROVE  \E o \in Artifact :
            /\ outputs' = outputs \cup {o} /\ o.run = j /\ o.format = format
            /\ o.title = b.title /\ o.body = b.body /\ o.snapshot = b.snapshot
            /\ o.pairs = b.pairs /\ o.quiet = b.quiet /\ o.faults = b.faults
<1> DEFINE o == [run |-> j, format |-> format, title |-> b.title, body |-> b.body,
                 snapshot |-> b.snapshot, pairs |-> b.pairs, mapTitle |-> b.mapTitle,
                 faults |-> b.faults, quiet |-> b.quiet]
<1>1. o \in Artifact
  BY DEF RunRow, Artifact
<1>2. outputs' = outputs \cup {o}
  BY DEF Store
<1>3. /\ o.run = j /\ o.format = format /\ o.title = b.title /\ o.body = b.body
      /\ o.snapshot = b.snapshot /\ o.pairs = b.pairs /\ o.quiet = b.quiet /\ o.faults = b.faults
  OBVIOUS
<1> HIDE DEF o
<1> QED
  BY <1>1, <1>2, <1>3

LEMMA StorePDFKeeps ==
  ASSUME StagesInv, NEW j \in Runs, StorePDF(j)
  PROVE  StagesInv'
<1>1. PICK b \in RunRow : b = job[j]
  BY RunKnown
<1>2. b.at = "pdf" /\ Store(j, "pdf")
  BY <1>1 DEF StorePDF
<1>3. PICK o \in Artifact :
        /\ outputs' = outputs \cup {o} /\ o.run = j /\ o.format = "pdf"
        /\ o.title = b.title /\ o.body = b.body /\ o.snapshot = b.snapshot
        /\ o.pairs = b.pairs /\ o.quiet = b.quiet /\ o.faults = b.faults
  BY <1>1, <1>2, ArtifactOf
<1> DEFINE r == [b EXCEPT !.at = "epub corrections"]
<1>4. Becomes(j, r) /\ during' = [during EXCEPT ![j] = during[j]]
  BY <1>1, RunKnown DEF StorePDF
<1>5. /\ r \in RunRow /\ r.at = "epub corrections" /\ r.title = b.title /\ r.pairs = b.pairs
      /\ r.body = b.body /\ r.snapshot = b.snapshot /\ r.quiet = b.quiet /\ r.faults = b.faults
  BY DEF RunRow, RunStages
<1> HIDE DEF r
<1>6. /\ RowHolds(b, during[j], PendingSet) /\ RowQuiet(j, b, outputs, PendingPairs, BaseTitle)
      /\ \A q \in outputs : q.run # j
  BY <1>1, <1>2, RunKnown, NothingStored
<1>7. RowHolds(r, during[j], PendingSet)
  BY <1>2, <1>5, <1>6 DEF RowHolds, OfOneMoment, Loaded
<1>8. \A q \in outputs' : q.run = j => q = o
  BY <1>3, <1>6
<1>9. RowQuiet(j, r, outputs', PendingPairs, BaseTitle)
  <2> SUFFICES ASSUME r.quiet
               PROVE  /\ o.pairs = Got(PendingPairs, o.faults)
                      /\ Settled(o.pairs) => o.title = Patched(o.pairs, From(BaseTitle, o.faults))
                      /\ r.title = o.title
    BY <1>5, <1>8 DEF RowQuiet, Loaded
  <2> QED
    BY <1>2, <1>3, <1>5, <1>6 DEF RowQuiet, Loaded
<1>10. StoredBy(o, r.at) /\ Recorded(o) /\ OfOneMoment(o, during[j])
  BY <1>2, <1>3, <1>5, <1>6 DEF StoredBy, Recorded, RowHolds, OfOneMoment, EPUBStages, Loaded
<1>11. \A q \in outputs' : q.run = j => /\ StoredBy(q, r.at) /\ Recorded(q)
                                        /\ OfOneMoment(q, during[j])
  BY <1>8, <1>10
<1>12. \A p, e \in outputs' : p.run = j /\ e.run = j => Agree(p, e)
  BY <1>3, <1>8 DEF Agree
<1>13. PICK new \in SUBSET Artifact : new = {o}
  BY <1>3
<1>14. PICK moments : moments = during[j]
  OBVIOUS
<1>15. /\ during' = [during EXCEPT ![j] = moments] /\ RowHolds(r, moments, PendingSet)
       /\ \A q \in outputs' : q.run = j => /\ StoredBy(q, r.at) /\ Recorded(q)
                                           /\ OfOneMoment(q, moments)
  BY <1>4, <1>7, <1>11, <1>14
<1>16. outputs' = outputs \cup new /\ \A q \in new : q.run = j
  BY <1>3, <1>13
<1> QED
  BY <1>4, <1>5, <1>9, <1>12, <1>15, <1>16, RunMoves

LEMMA StoreEPUBKeeps ==
  ASSUME StagesInv, NEW j \in Runs, StoreEPUB(j)
  PROVE  StagesInv'
<1>1. PICK b \in RunRow : b = job[j]
  BY RunKnown
<1>2. b.at = "epub" /\ Store(j, "epub")
  BY <1>1 DEF StoreEPUB
<1>3. PICK o \in Artifact :
        /\ outputs' = outputs \cup {o} /\ o.run = j /\ o.format = "epub"
        /\ o.title = b.title /\ o.body = b.body /\ o.snapshot = b.snapshot
        /\ o.pairs = b.pairs /\ o.quiet = b.quiet /\ o.faults = b.faults
  BY <1>1, <1>2, ArtifactOf
<1> DEFINE r == [b EXCEPT !.at = "done"]
<1>4. Becomes(j, r) /\ during' = [during EXCEPT ![j] = during[j]]
  BY <1>1, RunKnown DEF StoreEPUB
<1>5. /\ r \in RunRow /\ r.at = "done" /\ r.title = b.title /\ r.pairs = b.pairs
      /\ r.body = b.body /\ r.snapshot = b.snapshot /\ r.quiet = b.quiet /\ r.faults = b.faults
  BY DEF RunRow, RunStages
<1> HIDE DEF r
<1>6. /\ RowHolds(b, during[j], PendingSet) /\ RowQuiet(j, b, outputs, PendingPairs, BaseTitle)
      /\ \A q \in outputs : q.run = j => /\ StoredBy(q, b.at) /\ Recorded(q)
                                         /\ OfOneMoment(q, during[j])
  BY <1>1, RunKnown
<1>7. RowHolds(r, during[j], PendingSet)
  BY <1>2, <1>5, <1>6 DEF RowHolds, OfOneMoment, Loaded
<1>8. \A q \in outputs' : q.run = j => q = o \/ (q \in outputs /\ q.format = "pdf")
  <2> SUFFICES ASSUME NEW q \in outputs, q.run = j PROVE q.format = "pdf"
    BY <1>3
  <2>1. StoredBy(q, b.at)
    BY <1>6
  <2> QED
    BY <1>2, <2>1 DEF StoredBy
<1>9. RowQuiet(j, r, outputs', PendingPairs, BaseTitle)
  BY <1>5 DEF RowQuiet, Loaded, EPUBStages
<1>10. StoredBy(o, r.at) /\ Recorded(o) /\ OfOneMoment(o, during[j])
  BY <1>2, <1>3, <1>5, <1>6 DEF StoredBy, Recorded, RowHolds, OfOneMoment, Loaded
<1>11. \A q \in outputs' : q.run = j => /\ StoredBy(q, r.at) /\ Recorded(q)
                                        /\ OfOneMoment(q, during[j])
  BY <1>5, <1>6, <1>8, <1>10 DEF StoredBy
<1>12. \A p, e \in outputs' : p.run = j /\ e.run = j => Agree(p, e)
  <2> SUFFICES ASSUME NEW p \in outputs', NEW e \in outputs', p.run = j, e.run = j,
                      p.format = "pdf", e.format = "epub", p.quiet, e.quiet, p.faults = e.faults,
                      Settled(p.pairs)
               PROVE  p.title = e.title
    BY DEF Agree
  <2>1. e = o /\ p \in outputs
    BY <1>3, <1>8
  <2>2. b.quiet /\ b.at \in EPUBStages
    BY <1>2, <1>3, <2>1 DEF EPUBStages
  <2>3. b.faults = p.faults
    BY <1>3, <2>1
  <2>4. b.title = p.title
    BY <1>2, <1>6, <2>1, <2>2, <2>3 DEF RowQuiet
  <2> QED
    BY <1>3, <2>1, <2>4
<1>13. PICK new \in SUBSET Artifact : new = {o}
  BY <1>3
<1>14. PICK moments : moments = during[j]
  OBVIOUS
<1>15. /\ during' = [during EXCEPT ![j] = moments] /\ RowHolds(r, moments, PendingSet)
       /\ \A q \in outputs' : q.run = j => /\ StoredBy(q, r.at) /\ Recorded(q)
                                           /\ OfOneMoment(q, moments)
  BY <1>4, <1>7, <1>11, <1>14
<1>16. outputs' = outputs \cup new /\ \A q \in new : q.run = j
  BY <1>3, <1>13
<1> QED
  BY <1>4, <1>5, <1>9, <1>12, <1>15, <1>16, RunMoves

LEMMA StagesInit_Inv ==
  ASSUME StagesInit
  PROVE  StagesInv
<1>1. UploadTitle \in Titles /\ <<>> \in Seq(Rows)
  BY StagesAssumption
<1>2. ASSUME NEW j \in Runs
      PROVE  /\ job[j] \in RunRow /\ job[j].at = "idle" /\ job[j].title = UploadTitle
             /\ job[j].pairs = <<>> /\ job[j].body = <<>> /\ job[j].faults = {}
  BY <1>1 DEF StagesInit, RunRow, RunStages
<1>3. StagesTypes
  <2>1. job \in [Runs -> RunRow]
    BY <1>2 DEF StagesInit
  <2>2. ledger \in [Rows -> {"absent", "pending", "applied", "skipped", "deleted"}]
    BY DEF StagesInit
  <2>3. /\ specRow \in [exists: BOOLEAN, title: Titles \cup {NoTitle}] /\ specRow.title = NoTitle
        /\ during = [j \in Runs |-> during[j]] /\ outputs = {}
    BY DEF StagesInit, Unwritten
  <2> QED
    BY <2>1, <2>2, <2>3 DEF StagesTypes
<1>4. outputs = {}
  BY DEF StagesInit
<1>5. ASSUME NEW j \in Runs
      PROVE  RowHolds(job[j], during[j], PendingSet)
  <2>1. Oldest(<<>>)
    BY DEF Oldest
  <2> QED
    BY <1>2, <2>1 DEF RowHolds, Loaded
<1>6. ASSUME NEW j \in Runs
      PROVE  RowQuiet(j, job[j], outputs, PendingPairs, BaseTitle)
  BY <1>2, <1>4 DEF RowQuiet, Loaded
<1> QED
  BY <1>3, <1>4, <1>5, <1>6 DEF StagesInv

LEMMA StagesStep ==
  ASSUME StagesInv, [StagesNext]_stageVars
  PROVE  StagesInv'
<1>1. /\ ledger \in [Rows -> {"absent", "pending", "applied", "skipped", "deleted"}]
      /\ specRow \in [exists: BOOLEAN, title: Titles \cup {NoTitle}]
      /\ specRow.title \in SpecTitles \cup {NoTitle}
      /\ ~ specRow.exists => specRow.title = NoTitle
  BY DEF StagesInv, StagesTypes
<1>2. ASSUME NEW c \in Rows, CreateCorrection(c) \/ DeleteCorrection(c)
      PROVE  StagesInv'
  <2>1. /\ Edit /\ specRow' = specRow
        /\ ledger' = [ledger EXCEPT ![c] = "pending"] \/ ledger' = [ledger EXCEPT ![c] = "deleted"]
    BY <1>2 DEF CreateCorrection, DeleteCorrection
  <2>2. ledger' \in [Rows -> {"absent", "pending", "applied", "skipped", "deleted"}]
    BY <1>1, <2>1
  <2> QED
    BY <1>1, <2>1, <2>2, EditKeepsRuns
<1>3. ASSUME NEW c \in Rows, NEW s \in {"pending", "applied", "skipped"}, UpdateCorrectionStatus(c, s)
      PROVE  StagesInv'
  <2>1. Edit /\ specRow' = specRow /\ ledger' = [ledger EXCEPT ![c] = s]
    BY <1>3 DEF UpdateCorrectionStatus
  <2>2. ledger' \in [Rows -> {"absent", "pending", "applied", "skipped", "deleted"}]
    BY <1>1, <2>1
  <2> QED
    BY <1>1, <2>1, <2>2, EditKeepsRuns
<1>4. ASSUME NEW t \in SpecTitles, PutSpecTitle(t)
      PROVE  StagesInv'
  <2>1. Edit /\ ledger' = ledger /\ specRow' = [exists |-> TRUE, title |-> t]
    BY <1>4 DEF PutSpecTitle
  <2>2. t \in Titles \cup {NoTitle}
    BY StagesAssumption
  <2>3. /\ specRow' \in [exists: BOOLEAN, title: Titles \cup {NoTitle}]
        /\ specRow'.title \in SpecTitles \cup {NoTitle}
        /\ ~ specRow'.exists => specRow'.title = NoTitle
    BY <2>1, <2>2
  <2> QED
    BY <1>1, <2>1, <2>3, EditKeepsRuns
<1>5. ASSUME NEW j \in Runs,
             \/ StartRun(j) \/ LoadCorrections(j)
             \/ ReadTitle(j) \/ ReadMap(j) \/ StorePDF(j)
             \/ ReadEPUBSpec(j) \/ StoreEPUB(j)
      PROVE  StagesInv'
  BY <1>5, StartRunKeeps, LoadCorrectionsKeeps, ReadTitleKeeps, ReadMapKeeps, StorePDFKeeps,
     ReadEPUBSpecKeeps, StoreEPUBKeeps
<1>6. CASE UNCHANGED stageVars
  BY <1>6 DEF stageVars, StagesInv, StagesTypes, PendingSet, PendingPairs, BaseTitle
<1> QED
  BY <1>2, <1>3, <1>4, <1>5, <1>6 DEF StagesNext

LEMMA StagesInv_Safe ==
  ASSUME StagesInv
  PROVE  StagesSafe
<1>1. StagesTypeOK
  BY DEF StagesInv, StagesTypes, StagesTypeOK, RunRow, RowHolds, Oldest
<1>2. OneLedger /\ BodyIsRecorded
  BY DEF StagesInv, OneLedger, BodyIsRecorded, Recorded, OfOneMoment
<1>3. TitlesAgree
  BY DEF StagesInv, TitlesAgree, Agree
<1> QED
  BY <1>1, <1>2, <1>3 DEF StagesSafe

\* However corrections and spec are edited while builds read them stage by
\* stage, and whichever of their reads fail: an artifact holds the corrections of
\* one moment and says which, or none; and print and EPUB of a build nobody
\* edits under carry one title if they read alike.
THEOREM StagesAreSafe == StagesSpec => []StagesSafe
<1>1. StagesSpec => []StagesInv
  BY StagesInit_Inv, StagesStep, PTL DEF StagesSpec
<1> QED
  BY <1>1, StagesInv_Safe, PTL
=============================================================================
