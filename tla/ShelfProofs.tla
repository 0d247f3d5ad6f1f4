----------------------------- MODULE ShelfProofs -----------------------------
(***************************************************************************)
(* What TLAPS proves of IndexDraft and of BookOutputs: any number of       *)
(* drafts, reviews, books and builds, every cap and every bound. Of        *)
(* IndexPlaces and BookMap: manuscripts of any length and shape, anchors   *)
(* and chunks of any size, any pieces a transmittal may list. And of       *)
(* IndexEntries: any drafts, any answers to the consolidation call, any    *)
(* edits.                                                                  *)
(***************************************************************************)
EXTENDS IndexDraft, BookOutputs, IndexPlaces, IndexEntries, BookMap, FunctionTheorems,
        FiniteSetTheorems, SequenceTheorems, NaturalsInduction, WellFoundedInduction, TLAPS

-----------------------------------------------------------------------------
(* Least numbers.                                                         *)

\* A set of naturals that is not empty has a least. The library's induction
\* theorems take a predicate; this instance of the well-foundedness of < does not.
LEMMA LeastNatural ==
  ASSUME NEW S \in SUBSET Nat, S # {}
  PROVE  \E m \in S : \A k \in S : m <= k
<1> DEFINE R == {ss \in Nat \X Nat : ss[1] < ss[2]}
<1>1. IsWellFoundedOn(R, Nat)
  BY NatLessThanWellFounded DEF OpToRel
<1>2. \E m \in S : \A k \in S : ~ (<<k, m>> \in R)
  <2> HIDE DEF R
  <2> QED
    BY <1>1, WFMin, Zenon
<1>3. \A k, m \in Nat : ~ (<<k, m>> \in R) => m <= k
  OBVIOUS
<1> QED
  BY <1>2, <1>3

-----------------------------------------------------------------------------
(* The index.                                                              *)

\* Whoever said "drafting" last is still at it, or was lost to a fault.
DraftingAccounted ==
  istatus = "drafting" => \E d \in Drafts : Running(d) \/ dpc[d] = "lost"

\* A run is lost only when it expires or its process dies.
LostToFault == \A d \in Drafts : dpc[d] = "lost" => Faults \cap {"expire", "crash"} # {}

IndexInv ==
  /\ IndexSafe
  /\ DraftingAccounted
  /\ LostToFault
LEMMA IndexInitHolds == IndexInit => IndexInv
<1> SUFFICES ASSUME IndexInit PROVE IndexInv
  OBVIOUS
<1>1. IndexSafe
  BY DEF IndexInit, IndexSafe, IndexTypeOK, StatusTellsDoc, Docs
<1>2. DraftingAccounted /\ LostToFault
  BY DEF IndexInit, DraftingAccounted, LostToFault
<1> QED
  BY <1>1, <1>2 DEF IndexInv

LEMMA IndexStep == IndexInv /\ [IndexNext]_indexVars => IndexInv'
<1> SUFFICES ASSUME IndexInv, [IndexNext]_indexVars PROVE IndexInv'
  OBVIOUS
<1>0. /\ IndexTypeOK /\ StatusTellsDoc /\ DraftingAccounted /\ LostToFault
      /\ \A d \in Drafts : d \in Docs
      /\ \A v \in Reviews : v \in Docs
      /\ NoDoc \in Docs /\ EmptyDoc \in Docs
  BY DEF IndexInv, IndexSafe, Docs
<1>z. ASSUME UNCHANGED <<istatus, doc, snap, blank>>,
             \A d \in Drafts : dpc[d] = "done" => dpc'[d] = "done"
      PROVE  StatusTellsDoc'
  BY <1>0, <1>z DEF StatusTellsDoc, PutBack
<1> DEFINE Steps == {"new", "inflight", "mark", "run", "failing", "done", "refused", "lost"}
<1>a. ASSUME NEW d \in Drafts, NEW s \in Steps, DraftAt(d, s)
      PROVE  /\ dpc' \in [Drafts -> Steps] /\ dpc'[d] = s
             /\ \A e \in Drafts \ {d} : dpc'[e] = dpc[e]
  BY <1>0, <1>a DEF IndexTypeOK, DraftAt
<1>b. ASSUME NEW d \in Drafts, NEW s \in Steps, DraftAt(d, s),
             istatus' = istatus => s \in {"run", "failing", "lost"} \/ (~ Running(d) /\ dpc[d] # "lost"),
             istatus' = istatus \/ istatus' # "drafting" \/ s = "run",
             s = "lost" => "expire" \in Faults
      PROVE  DraftingAccounted' /\ LostToFault'
  <2>1. LostToFault'
    BY <1>0, <1>a, <1>b DEF LostToFault
  <2>2. DraftingAccounted'
    <3> SUFFICES ASSUME istatus' = "drafting"
                 PROVE  \E e \in Drafts : dpc'[e] \in {"run", "failing", "lost"}
      BY DEF DraftingAccounted, Running
    <3>1. CASE s \in {"run", "failing", "lost"}
      BY <1>a, <1>b, <3>1
    <3>2. CASE s \notin {"run", "failing", "lost"}
      <4>1. istatus = "drafting" /\ dpc[d] \notin {"run", "failing", "lost"}
        BY <1>b, <3>2 DEF Running
      <4>2. PICK e \in Drafts : dpc[e] \in {"run", "failing", "lost"}
        BY <1>0, <4>1 DEF DraftingAccounted, Running
      <4>3. e # d /\ dpc'[e] = dpc[e]
        BY <1>a, <1>b, <4>1, <4>2
      <4> QED
        BY <4>2, <4>3
    <3> QED
      BY <3>1, <3>2
  <2> QED
    BY <2>1, <2>2
<1>c. ASSUME UNCHANGED dpc, istatus' = istatus \/ istatus' # "drafting"
      PROVE  DraftingAccounted' /\ LostToFault'
  BY <1>0, <1>c DEF DraftingAccounted, LostToFault, Running
<1>1. ASSUME NEW d \in Drafts, GetBookForDraft(d)
      PROVE  IndexInv'
  <2>1. PICK s \in {"refused", "inflight"} : DraftAt(d, s)
    BY <1>1 DEF GetBookForDraft
  <2>2. DraftingAccounted' /\ LostToFault'
    BY <1>1, <1>b, <2>1 DEF GetBookForDraft, Running
  <2>3. IndexSafe'
    <3>1. IndexTypeOK'
      BY <1>0, <1>1, <1>a, <2>1 DEF GetBookForDraft, IndexTypeOK
    <3>2. \A e \in Drafts : dpc[e] = "done" => dpc'[e] = "done" /\ snap'[e] = snap[e]
      BY <1>0, <1>1, <1>a, <2>1 DEF GetBookForDraft, IndexTypeOK
    <3>3. UNCHANGED <<istatus, doc>>
      BY <1>1 DEF GetBookForDraft
    <3>4. StatusTellsDoc'
      BY <1>0, <3>2, <3>3 DEF StatusTellsDoc, PutBack
    <3> QED
      BY <3>1, <3>4 DEF IndexSafe
  <2> QED
    BY <2>2, <2>3 DEF IndexInv
<1>2. ASSUME NEW d \in Drafts, CheckInFlight(d) \/ RefuseDraft(d)
      PROVE  IndexInv'
  <2>1. /\ dpc[d] \in {"inflight", "mark"}
        /\ UNCHANGED <<istatus, doc, converting, rpc, snap, over, blank>>
    BY <1>2 DEF CheckInFlight, RefuseDraft
  <2>2. PICK s \in {"refused", "mark"} : DraftAt(d, s)
    BY <1>2 DEF CheckInFlight, RefuseDraft
  <2>3. DraftingAccounted' /\ LostToFault'
    BY <1>b, <2>1, <2>2 DEF Running
  <2>4. IndexSafe'
    <3>1. IndexTypeOK'
      BY <1>0, <1>a, <2>1, <2>2 DEF IndexTypeOK
    <3> QED
      BY <1>a, <1>z, <2>1, <2>2, <3>1 DEF IndexSafe
  <2> QED
    BY <2>3, <2>4 DEF IndexInv
<1>3. ASSUME NEW d \in Drafts, MarkDrafting(d)
      PROVE  IndexInv'
  <2>1. DraftingAccounted' /\ LostToFault'
    BY <1>3, <1>b DEF MarkDrafting, Running
  <2>2. IndexSafe'
    <3>1. IndexTypeOK'
      BY <1>0, <1>3, <1>a DEF MarkDrafting, IndexTypeOK
    <3>2. istatus' = "drafting"
      BY <1>3 DEF MarkDrafting
    <3> QED
      BY <3>1, <3>2 DEF IndexSafe, StatusTellsDoc
  <2> QED
    BY <2>1, <2>2 DEF IndexInv
<1>4. ASSUME NEW d \in Drafts, StoreDraft(d) \/ RecordFailure(d)
      PROVE  IndexInv'
  <2>1. /\ DraftAt(d, "done") /\ UNCHANGED <<converting, rpc, snap, over>>
        /\ \/ istatus' = "draft" /\ doc' = d
           \/ istatus' = "error" /\ doc' = PutBack(d)
        /\ blank' \subseteq blank \cup {d} /\ PutBack(d) \in Docs
    BY <1>0, <1>4 DEF StoreDraft, RecordFailure, IndexTypeOK, Store, PutBack
  <2>2. dpc[d] \in {"run", "failing"}
    BY <1>4 DEF StoreDraft, RecordFailure
  <2>3. DraftingAccounted' /\ LostToFault'
    <3>1. LostToFault'
      BY <1>0, <1>a, <2>1 DEF LostToFault
    <3>2. istatus' # "drafting"
      BY <2>1
    <3> QED
      BY <3>1, <3>2 DEF DraftingAccounted
  <2>4. IndexSafe'
    <3>1. IndexTypeOK'
      BY <1>0, <1>a, <2>1 DEF IndexTypeOK
    <3>2. StatusTellsDoc'
      BY <1>a, <2>1 DEF StatusTellsDoc, PutBack
    <3> QED
      BY <3>1, <3>2 DEF IndexSafe
  <2> QED
    BY <2>3, <2>4 DEF IndexInv
<1>5. ASSUME NEW d \in Drafts, DraftFails(d) \/ Expire(d)
      PROVE  IndexInv'
  <2>1. UNCHANGED <<istatus, doc, converting, rpc, snap, over, blank>>
    BY <1>5 DEF DraftFails, Expire
  <2>2. PICK s \in {"failing", "lost"} : DraftAt(d, s) /\ (s = "lost" => "expire" \in Faults)
    BY <1>5 DEF DraftFails, Expire
  <2>3. DraftingAccounted' /\ LostToFault'
    BY <1>b, <2>1, <2>2
  <2>4. IndexSafe'
    <3>1. IndexTypeOK'
      BY <1>0, <1>a, <2>1, <2>2 DEF IndexTypeOK
    <3>2. dpc[d] # "done"
      BY <1>5 DEF DraftFails, Expire
    <3> QED
      BY <1>a, <1>z, <2>1, <2>2, <3>1, <3>2 DEF IndexSafe
  <2> QED
    BY <2>3, <2>4 DEF IndexInv
<1>6. ASSUME NEW v \in Reviews, GetBookForReview(v) \/ StoreReview(v)
      PROVE  IndexInv'
  <2>1. /\ UNCHANGED <<converting, dpc, snap, over>>
        /\ \E s \in {"store", "refused", "done"} : ReviewAt(v, s)
        /\ \/ UNCHANGED <<istatus, doc, blank>>
           \/ istatus' = "reviewed" /\ doc' = v /\ blank' \subseteq blank \cup {v}
    BY <1>6 DEF GetBookForReview, StoreReview, Store
  <2>2. DraftingAccounted' /\ LostToFault'
    BY <1>c, <2>1
  <2>3. IndexSafe'
    <3>1. IndexTypeOK'
      BY <1>0, <2>1 DEF IndexTypeOK, ReviewAt
    <3>2. StatusTellsDoc'
      BY <1>0, <1>z, <2>1 DEF StatusTellsDoc
    <3> QED
      BY <3>1, <3>2 DEF IndexSafe
  <2> QED
    BY <2>2, <2>3 DEF IndexInv
<1>7. ASSUME UNCHANGED <<istatus, doc, dpc, rpc, snap, over, blank>>, converting' \in {"none", "running", "dead"}
      PROVE  IndexInv'
  <2>1. DraftingAccounted' /\ LostToFault'
    BY <1>7, <1>c
  <2>2. IndexSafe'
    BY <1>0, <1>7, <1>z DEF IndexSafe, IndexTypeOK
  <2> QED
    BY <2>1, <2>2 DEF IndexInv
<1>8. CASE Crash
  <2> DEFINE died == [d \in Drafts |-> IF dpc[d] \in {"inflight", "mark", "run", "failing"}
                                       THEN "lost" ELSE dpc[d]]
  <2>1. /\ dpc' = died /\ UNCHANGED <<istatus, doc, snap, over, blank>>
        /\ rpc' = [v \in Reviews |-> IF rpc[v] = "store" THEN "refused" ELSE rpc[v]]
        /\ converting' \in {"none", "running", "dead"}
        /\ "crash" \in Faults
    BY <1>0, <1>8 DEF Crash, IndexTypeOK
  <2>2. IndexSafe'
    <3>1. dpc' \in [Drafts -> Steps]
      BY <1>0, <2>1 DEF IndexTypeOK
    <3>2. rpc' \in [Reviews -> {"new", "store", "done", "refused"}]
      BY <1>0, <2>1 DEF IndexTypeOK
    <3> QED
      BY <1>0, <1>z, <2>1, <3>1, <3>2 DEF IndexSafe, IndexTypeOK
  <2>3. LostToFault'
    BY <2>1 DEF LostToFault
  <2>4. DraftingAccounted'
    <3> SUFFICES ASSUME istatus = "drafting"
                 PROVE  \E d \in Drafts : dpc'[d] = "lost"
      BY <2>1 DEF DraftingAccounted
    <3>1. PICK d \in Drafts : dpc[d] \in {"run", "failing", "lost"}
      BY <1>0 DEF DraftingAccounted, Running
    <3> QED
      BY <2>1, <3>1
  <2> QED
    BY <2>2, <2>3, <2>4 DEF IndexInv
<1>9. ASSUME (\E withIndex \in BOOLEAN : ClaimBook(withIndex)) \/ ReleaseBook
      PROVE  IndexInv'
  BY <1>7, <1>9 DEF ClaimBook, ReleaseBook
<1>10. CASE UNCHANGED indexVars
  BY <1>0, <1>7, <1>10 DEF indexVars, IndexTypeOK
<1> QED
  BY <1>1, <1>2, <1>3, <1>4, <1>5, <1>6, <1>8, <1>9, <1>10 DEF IndexNext, DraftStep, RunStep

LEMMA IndexHolds == IndexSpec => []IndexInv
<1>1. IndexInit => IndexInv
  BY IndexInitHolds
<1>2. IndexInv /\ [IndexNext]_indexVars => IndexInv'
  BY IndexStep
<1> QED
  BY <1>1, <1>2, PTL DEF IndexSpec

\* However drafts, reviews, builds, timeouts and restarts interleave, the status
\* tells whose text the document is: what a draft or a reviewer stored when a
\* build may include it, what was there before when a run failed (srv/index.go).
THEOREM IndexIsSafe == IndexSpec => []IndexSafe
<1>1. IndexInv => IndexSafe
  BY DEF IndexInv
<1> QED
  BY <1>1, IndexHolds, PTL

\* Where runs end in time and the process lives, "drafting" is said of a run
\* that exists, with any number of drafts and reviews at once. (Where they do
\* not, the status is left to a run that was lost; DraftingAccounted.)
THEOREM DraftingIsOfARun ==
  ASSUME Faults \subseteq {"build"}
  PROVE  IndexSpec => []DraftingIsHeld
<1>1. IndexInv => DraftingIsHeld
  <2> SUFFICES ASSUME IndexInv, istatus = "drafting" PROVE \E d \in Drafts : Running(d)
    BY DEF DraftingIsHeld
  <2>1. \A d \in Drafts : dpc[d] # "lost"
    BY DEF IndexInv, LostToFault
  <2> QED
    BY <2>1 DEF IndexInv, DraftingAccounted
<1> QED
  BY <1>1, IndexHolds, PTL
-----------------------------------------------------------------------------
(* The shelf: what the properties of BookOutputs need to be inductive.     *)

\* Ids are given out in order and once.
IdsOK ==
  /\ IsFiniteSet(made)
  /\ \A o \in made : o.id <= Cardinality(made)
  /\ \A o, x \in made : o.id = x.id => o = x

\* A build that runs is of a book, and of a PDF when it stores or prunes one.
BuildOK ==
  /\ phase # "idle" => build \in Builds
  /\ phase \in {"pdf", "pruneproofs"} => build.format # "epub"
  /\ phase = "pruneproofs" => build.kind = "proof"

\* From the moment its PDF is stored a build has one on the shelf.
HasPDF ==
  phase \in {"pruneproofs", "epub", "pruneepubs", "ready"} /\ build.format # "epub" =>
    \E o \in outputs : o.book = build.book /\ o.format = "pdf" /\ o.kind = build.kind

\* Only the book whose prune is due may have a proof too many.
OneOverdue ==
  \A b \in Books : \/ Cardinality(ProofPDFs(b)) <= ProofsKept
                   \/ phase = "pruneproofs" /\ build.book = b

OutputsInv ==
  /\ OutputsSafe
  /\ IdsOK
  /\ BuildOK
  /\ HasPDF
  /\ OneOverdue
-----------------------------------------------------------------------------
(* The newest of a set of rows.                                            *)

\* A set of rows that is not empty has a newest, and it is kept.
LEMMA NewestTop ==
  ASSUME NEW S, S # {}, \A o \in S : o.id \in Nat, NEW M \in Nat, \A o \in S : o.id <= M,
         NEW n \in Nat \ {0}
  PROVE  \E o \in Newest(S, n) : \A x \in S : x.id <= o.id
<1> DEFINE Tops == {m \in Nat : \A o \in S : o.id <= m}
<1>1. PICK m \in Tops : \A k \in Tops : m <= k
  BY LeastNatural
<1>2. PICK o \in S : o.id = m
  <2> SUFFICES ASSUME \A o \in S : o.id # m PROVE FALSE
    OBVIOUS
  <2>1. PICK o \in S : o.id <= m /\ o.id # m
    OBVIOUS
  <2>2. m - 1 \in Nat
    BY <2>1
  <2>3. \A x \in S : x.id <= m - 1
    OBVIOUS
  <2>4. m - 1 \in Tops
    BY <2>2, <2>3
  <2> QED
    BY <1>1, <2>2, <2>4
<1>3. \A x \in S : x.id <= o.id
  BY <1>2
<1>4. {x \in S : x.id > o.id} = {}
  BY <1>3
<1>5. o \in Newest(S, n)
  BY <1>4, FS_EmptySet DEF Newest
<1> QED
  BY <1>3, <1>5

\* The newest n are n at most.
LEMMA NewestBounded ==
  ASSUME NEW S, IsFiniteSet(S), \A o \in S : o.id \in Nat,
         \A o, x \in S : o.id = x.id => o = x,
         NEW n \in Nat
  PROVE  IsFiniteSet(Newest(S, n)) /\ Cardinality(Newest(S, n)) <= n
<1> DEFINE T == Newest(S, n)
<1>1. T \in SUBSET S /\ IsFiniteSet(T)
  <2>1. T \in SUBSET S
    BY DEF Newest
  <2> QED
    BY <2>1, FS_Subset
<1>2. CASE T = {}
  BY <1>1, <1>2, FS_EmptySet
<1>3. CASE T # {}
  <2> DEFINE IDs == {o.id : o \in T}
  <2>0. IDs \in SUBSET Nat /\ IDs # {}
    BY <1>1, <1>3
  <2>1. PICK m \in IDs : \A k \in IDs : m <= k
    <3> HIDE DEF IDs
    <3> QED
      BY <2>0, LeastNatural
  <2>2. PICK o \in T : o.id = m
    OBVIOUS
  <2> DEFINE Above == {x \in S : x.id > o.id}
  <2>3. T \ {o} \in SUBSET Above
    <3> SUFFICES ASSUME NEW x \in T, x # o PROVE x \in Above
      OBVIOUS
    <3>1. x \in S /\ o \in S /\ x.id \in Nat /\ o.id \in Nat /\ x.id # o.id
      BY <1>1
    <3>2. o.id <= x.id
      BY <2>1, <2>2
    <3> QED
      BY <3>1, <3>2
  <2>4. Cardinality(Above) < n
    BY DEF Newest
  <2>5. IsFiniteSet(Above) /\ Cardinality(Above) \in Nat
    <3>1. Above \in SUBSET S
      OBVIOUS
    <3> QED
      BY <3>1, FS_Subset, FS_CardinalityType
  <2>6. Cardinality(T \ {o}) <= Cardinality(Above)
    BY <2>3, <2>5, FS_Subset
  <2>7. Cardinality(T \ {o}) = Cardinality(T) - 1 /\ Cardinality(T) \in Nat
    BY <1>1, FS_RemoveElement, FS_CardinalityType
  <2> QED
    BY <1>1, <2>4, <2>5, <2>6, <2>7
<1> QED
  BY <1>2, <1>3

\* What nothing in the set is newer than is kept.
LEMMA NewestOf ==
  ASSUME NEW S, \A x \in S : x.id \in Nat, NEW o \in S, \A x \in S : x.id <= o.id, NEW n \in Nat \ {0}
  PROVE  o \in Newest(S, n)
<1>1. {x \in S : x.id > o.id} = {}
  OBVIOUS
<1> QED
  BY <1>1, FS_EmptySet DEF Newest

-----------------------------------------------------------------------------
(* The statements.                                                         *)

LEMMA OutputsBounds ==
  ProofsKept \in Nat \ {0} /\ EPUBsKept \in Nat \ {0} /\ MaxRows \in Nat /\ MaxTime \in Nat
  BY OutputsAssumption

LEMMA OutputsInitHolds == OutputsInit => OutputsInv
<1> SUFFICES ASSUME OutputsInit PROVE OutputsInv
  OBVIOUS
<1>1. OutputsSafe
  BY OutputsBounds DEF OutputsInit, OutputsSafe, OutputsTypeOK, FinalPDFsKept, NewestKept, Kinds
<1>2. IdsOK
  BY FS_EmptySet DEF OutputsInit, IdsOK
<1>3. BuildOK /\ HasPDF
  BY DEF OutputsInit, BuildOK, HasPDF
<1>4. OneOverdue
  <2>1. \A b \in Books : ProofPDFs(b) = {}
    BY DEF OutputsInit, ProofPDFs
  <2> QED
    BY <2>1, FS_EmptySet, OutputsBounds DEF OneOverdue
<1> QED
  BY <1>1, <1>2, <1>3, <1>4 DEF OutputsInv

\* An INSERT: the row is new, it is the newest, and the others stay.
LEMMA RowInserted ==
  ASSUME OutputsInv, NEW b \in Books, NEW f \in Formats, NEW k \in Kinds, CreateBookOutput(b, f, k)
  PROVE  /\ NewRow(b, f, k) \in Rows
         /\ outputs' \subseteq Rows /\ outputs' \subseteq made' /\ made' \subseteq Rows
         /\ outputs \subseteq outputs' /\ NewRow(b, f, k) \in outputs'
         /\ IdsOK' /\ FinalPDFsKept' /\ NewestKept'
         /\ \A c \in Books : c # b \/ f # "pdf" \/ k # "proof" => ProofPDFs(c)' = ProofPDFs(c)
<1> DEFINE N == Cardinality(made)
           row == NewRow(b, f, k)
<1>0. /\ outputs \subseteq Rows /\ outputs \subseteq made /\ made \subseteq Rows /\ now \in Nat
      /\ IsFiniteSet(made) /\ N \in Nat
      /\ \A o \in made : o.id <= N /\ o.id \in Nat
      /\ \A o, x \in made : o.id = x.id => o = x
      /\ FinalPDFsKept /\ NewestKept
  BY OutputsBounds, FS_CardinalityType DEF OutputsInv, OutputsSafe, OutputsTypeOK, IdsOK, Rows
<1>1. /\ row \in Rows /\ row.id = N + 1 /\ row.book = b /\ row.format = f /\ row.kind = k
      /\ outputs' = outputs \cup {row} /\ made' = made \cup {row}
  BY <1>0 DEF CreateBookOutput, NewRow, Rows
<1> HIDE DEF row
<1>2. row \notin made
  BY <1>0, <1>1
<1>3. IdsOK'
  <2>1. IsFiniteSet(made') /\ Cardinality(made') = N + 1
    BY <1>0, <1>1, <1>2, FS_AddElement
  <2>2. \A o \in made' : o.id <= N + 1
    BY <1>0, <1>1
  <2>3. \A o, x \in made' : o.id = x.id => o = x
    BY <1>0, <1>1
  <2> QED
    BY <2>1, <2>2, <2>3 DEF IdsOK
<1>4. FinalPDFsKept'
  BY <1>0, <1>1 DEF FinalPDFsKept
<1>5. NewestKept'
  BY <1>0, <1>1 DEF NewestKept
<1>6. \A c \in Books : c # b \/ f # "pdf" \/ k # "proof" => ProofPDFs(c)' = ProofPDFs(c)
  BY <1>1 DEF ProofPDFs
<1> QED
  BY <1>0, <1>1, <1>3, <1>4, <1>5, <1>6 DEF row

\* A DELETE keeps the newest of the rows it is about, and every other row.
LEMMA RowsPruned ==
  ASSUME OutputsInv, NEW b \in Books, NEW n \in Nat \ {0}, UNCHANGED made,
         NEW S, S = ProofPDFs(b) \/ S = EPUBs(b), outputs' = Prune(S, n)
  PROVE  /\ outputs' \subseteq outputs
         /\ \A o \in outputs : o \in outputs' \/ (o \in S /\ o \notin Newest(S, n))
         /\ IdsOK' /\ FinalPDFsKept' /\ NewestKept'
<1>0. /\ outputs \subseteq Rows /\ outputs \subseteq made /\ made \subseteq Rows
      /\ FinalPDFsKept /\ NewestKept /\ IdsOK
      /\ S \subseteq outputs
      /\ \A o \in made : o.id \in Nat
  BY DEF OutputsInv, OutputsSafe, OutputsTypeOK, ProofPDFs, EPUBs, Rows
<1>1. outputs' = outputs \ (S \ Newest(S, n)) /\ Newest(S, n) \subseteq S
  BY DEF Prune, Newest
<1>2. FinalPDFsKept'
  <2>1. \A o \in S : ~ (o.kind = "final" /\ o.format = "pdf")
    BY DEF ProofPDFs, EPUBs
  <2> QED
    BY <1>0, <1>1, <2>1 DEF FinalPDFsKept
<1>3. NewestKept'
  <2> SUFFICES ASSUME NEW o \in made,
                      \A x \in made : x.book = o.book /\ x.format = o.format => x.id <= o.id
               PROVE  o \in outputs'
    BY DEF NewestKept
  <2>1. o \in outputs
    BY <1>0 DEF NewestKept
  <2>2. ASSUME o \in S
        PROVE  o \in Newest(S, n)
    <3>1. \A x \in S : x.book = o.book /\ x.format = o.format /\ x \in made
      BY <1>0, <2>2 DEF ProofPDFs, EPUBs
    <3>2. \A x \in S : x.id <= o.id /\ x.id \in Nat
      BY <1>0, <3>1
    <3> QED
      BY <2>2, <3>2, NewestOf
  <2> QED
    BY <1>1, <2>1, <2>2
<1>4. IdsOK'
  BY <1>0 DEF IdsOK
<1> QED
  BY <1>0, <1>1, <1>2, <1>3, <1>4
LEMMA OutputsStep == OutputsInv /\ [OutputsNext]_outputVars => OutputsInv'
<1> SUFFICES ASSUME OutputsInv, [OutputsNext]_outputVars PROVE OutputsInv'
  OBVIOUS
<1> USE OutputsBounds
<1>0. /\ OutputsTypeOK /\ FinalPDFsKept /\ NewestKept /\ IdsOK /\ BuildOK /\ HasPDF /\ OneOverdue
  BY DEF OutputsInv, OutputsSafe
<1>b. phase # "idle" => /\ build \in Builds /\ build.book \in Books /\ build.kind \in Kinds
                        /\ build.format \in {"pdf", "epub", "both"}
  BY <1>0 DEF BuildOK, Builds
<1> DEFINE Phases == {"idle", "pdf", "pruneproofs", "epub", "pruneepubs", "ready"}
<1>a. ASSUME UNCHANGED <<outputs, made>>, now' \in 0..MaxTime, lastKind' \in [Books -> Kinds],
             phase' \in Phases, build' \in Builds \cup {NoBuild}, BuildOK', HasPDF',
             phase # "pruneproofs" \/ UNCHANGED <<phase, build>>
      PROVE  OutputsInv'
  <2>1. OutputsSafe'
    BY <1>0, <1>a DEF OutputsSafe, OutputsTypeOK, FinalPDFsKept, NewestKept
  <2>2. IdsOK'
    BY <1>0, <1>a DEF IdsOK
  <2>3. OneOverdue'
    BY <1>0, <1>a DEF OneOverdue, ProofPDFs
  <2> QED
    BY <1>a, <2>1, <2>2, <2>3 DEF OutputsInv
<1>1. ASSUME NEW b \in Books, NEW f \in {"pdf", "epub", "both"}, NEW k \in Kinds, NEW who \in Askers,
             StartBuild(b, f, k, who)
      PROVE  OutputsInv'
  <2> DEFINE new == [book |-> b, format |-> f, kind |-> k]
  <2>1. /\ phase = "idle" /\ build' = new
        /\ phase' = IF f = "epub" THEN "epub" ELSE "pdf"
        /\ lastKind' = [lastKind EXCEPT ![b] = k]
        /\ UNCHANGED <<outputs, made, now>>
    BY <1>1 DEF StartBuild
  <2>2. new \in Builds /\ new.format = f
    BY DEF Builds
  <2> HIDE DEF new
  <2>3. BuildOK' /\ HasPDF'
    BY <2>1, <2>2 DEF BuildOK, HasPDF
  <2> QED
    BY <1>0, <1>a, <2>1, <2>2, <2>3 DEF OutputsTypeOK
<1>2. CASE StorePDF
  <2>1. /\ phase = "pdf" /\ CreateBookOutput(build.book, "pdf", build.kind)
        /\ UNCHANGED <<now, lastKind, build>>
        /\ build.kind = "proof" => phase' = "pruneproofs"
        /\ build.kind = "final" => phase' \in {"epub", "ready"}
    BY <1>2 DEF StorePDF
  <2> DEFINE row == NewRow(build.book, "pdf", build.kind)
  <2>2. /\ outputs' \subseteq Rows /\ outputs' \subseteq made' /\ made' \subseteq Rows
        /\ outputs \subseteq outputs' /\ row \in outputs'
        /\ IdsOK' /\ FinalPDFsKept' /\ NewestKept'
        /\ \A c \in Books : c # build.book \/ build.kind # "proof" => ProofPDFs(c)' = ProofPDFs(c)
    BY <1>b, <2>1, RowInserted DEF Formats
  <2>3. row.book = build.book /\ row.format = "pdf" /\ row.kind = build.kind
    BY DEF NewRow
  <2>4. phase' \in Phases /\ (build.kind = "proof" \/ build.kind = "final")
    BY <1>b, <2>1 DEF Kinds
  <2>5. OutputsSafe'
    BY <1>0, <2>1, <2>2, <2>4 DEF OutputsSafe, OutputsTypeOK
  <2>6. HasPDF'
    BY <2>1, <2>2, <2>3 DEF HasPDF
  <2>7. BuildOK'
    BY <1>0, <1>b, <2>1, <2>4 DEF BuildOK
  <2>8. OneOverdue'
    <3> SUFFICES ASSUME NEW c \in Books
                 PROVE  \/ Cardinality(ProofPDFs(c)') <= ProofsKept
                        \/ phase' = "pruneproofs" /\ build.book = c
      BY <2>1 DEF OneOverdue
    <3>1. Cardinality(ProofPDFs(c)) <= ProofsKept
      BY <1>0, <2>1 DEF OneOverdue
    <3> QED
      BY <2>1, <2>2, <2>4, <3>1
  <2> QED
    BY <2>2, <2>5, <2>6, <2>7, <2>8 DEF OutputsInv
<1>3. CASE PruneProofPDFs
  <2> DEFINE S == ProofPDFs(build.book)
             M == Cardinality(made)
  <2>1. /\ phase = "pruneproofs" /\ outputs' = Prune(S, ProofsKept)
        /\ phase' \in {"epub", "ready"} /\ UNCHANGED <<made, now, lastKind, build>>
    BY <1>3 DEF PruneProofPDFs
  <2>2. /\ outputs' \subseteq outputs
        /\ \A o \in outputs : o \in outputs' \/ (o \in S /\ o \notin Newest(S, ProofsKept))
        /\ IdsOK' /\ FinalPDFsKept' /\ NewestKept'
    BY <1>b, <2>1, RowsPruned
  <2>3. OutputsSafe'
    BY <1>0, <2>1, <2>2 DEF OutputsSafe, OutputsTypeOK
  <2>4. BuildOK'
    BY <1>b, <2>1 DEF BuildOK
  <2>5. /\ IsFiniteSet(S) /\ S \subseteq made /\ S \subseteq outputs /\ M \in Nat
        /\ \A o \in S : o.id \in Nat /\ o.id <= M
        /\ \A o, x \in S : o.id = x.id => o = x
    <3>1. S \in SUBSET made /\ S \subseteq outputs
      BY <1>0 DEF ProofPDFs, OutputsTypeOK
    <3>2. IsFiniteSet(S) /\ M \in Nat
      BY <1>0, <3>1, FS_Subset, FS_CardinalityType DEF IdsOK
    <3> QED
      BY <1>0, <3>1, <3>2 DEF IdsOK, OutputsTypeOK, Rows
  <2>6. HasPDF'
    <3> SUFFICES ASSUME build.format # "epub"
                 PROVE  \E o \in outputs' : o.book = build.book /\ o.format = "pdf" /\ o.kind = build.kind
      BY <2>1 DEF HasPDF
    <3>1. build.kind = "proof"
      BY <1>0, <2>1 DEF BuildOK
    <3>2. S # {}
      BY <1>0, <2>1, <3>1 DEF HasPDF, ProofPDFs
    <3>3. PICK o \in Newest(S, ProofsKept) : TRUE
      <4> HIDE DEF S, M
      <4> QED
        BY <2>5, <3>2, NewestTop
    <3>4. o \in S /\ o \in outputs'
      BY <2>2, <2>5, <3>3 DEF Newest
    <3> QED
      BY <3>1, <3>4 DEF ProofPDFs
  <2>7. OneOverdue'
    <3> SUFFICES ASSUME NEW c \in Books PROVE Cardinality(ProofPDFs(c)') <= ProofsKept
      BY DEF OneOverdue
    <3>1. CASE c = build.book
      <4>1. ProofPDFs(c)' = Newest(S, ProofsKept)
        <5>1. ProofPDFs(c)' = {o \in outputs' : o.book = c /\ o.format = "pdf" /\ o.kind = "proof"}
          BY DEF ProofPDFs
        <5>2. outputs' = outputs \ (S \ Newest(S, ProofsKept)) /\ Newest(S, ProofsKept) \subseteq S
          BY <2>1 DEF Prune, Newest
        <5>3. S = {o \in outputs : o.book = c /\ o.format = "pdf" /\ o.kind = "proof"}
          BY <3>1 DEF ProofPDFs
        <5> HIDE DEF S
        <5> QED
          BY <5>1, <5>2, <5>3
      <4>2. Cardinality(Newest(S, ProofsKept)) <= ProofsKept
        <5> HIDE DEF S
        <5> QED
          BY <2>5, NewestBounded
      <4> QED
        BY <4>1, <4>2
    <3>2. CASE c # build.book
      <4>1. ProofPDFs(c)' = ProofPDFs(c)
        BY <2>2, <3>2 DEF ProofPDFs
      <4> QED
        BY <1>0, <3>2, <4>1 DEF OneOverdue
    <3> QED
      BY <3>1, <3>2
  <2> QED
    BY <2>2, <2>3, <2>4, <2>6, <2>7 DEF OutputsInv
<1>c. ASSUME NEW b \in Books, NEW k \in Kinds, CreateBookOutput(b, "epub", k),
             UNCHANGED <<now, lastKind, build>>,
             phase' \in Phases, phase' = phase \/ (phase = "epub" /\ phase' = "pruneepubs")
      PROVE  OutputsInv'
  <2>1. /\ outputs' \subseteq Rows /\ outputs' \subseteq made' /\ made' \subseteq Rows
        /\ outputs \subseteq outputs'
        /\ IdsOK' /\ FinalPDFsKept' /\ NewestKept'
        /\ \A c \in Books : ProofPDFs(c)' = ProofPDFs(c)
    BY <1>c, RowInserted DEF Formats
  <2>2. OutputsSafe'
    BY <1>0, <1>c, <2>1 DEF OutputsSafe, OutputsTypeOK
  <2>3. BuildOK' /\ HasPDF'
    BY <1>0, <1>c, <2>1 DEF BuildOK, HasPDF
  <2>4. OneOverdue'
    BY <1>0, <1>c, <2>1 DEF OneOverdue
  <2> QED
    BY <2>1, <2>2, <2>3, <2>4 DEF OutputsInv
<1>4. CASE StoreEPUB
  BY <1>4, <1>b, <1>c DEF StoreEPUB
<1>5. ASSUME NEW b \in Books, GenerateEPUB(b)
      PROVE  OutputsInv'
  <2>1. lastKind[b] \in Kinds /\ phase' \in Phases
    BY <1>0, <1>5 DEF OutputsTypeOK, GenerateEPUB
  <2> QED
    BY <1>5, <1>c, <2>1 DEF GenerateEPUB
<1>6. CASE PruneEPUBs
  <2> DEFINE S == EPUBs(build.book)
  <2>1. /\ phase = "pruneepubs" /\ phase' = "ready" /\ outputs' = Prune(S, EPUBsKept)
        /\ UNCHANGED <<made, now, lastKind, build>>
    BY <1>6 DEF PruneEPUBs
  <2>2. /\ outputs' \subseteq outputs
        /\ \A o \in outputs : o \in outputs' \/ o \in S
        /\ IdsOK' /\ FinalPDFsKept' /\ NewestKept'
    BY <1>b, <2>1, RowsPruned
  <2>3. \A o \in outputs : o.format = "pdf" => o \in outputs'
    BY <2>2 DEF EPUBs
  <2>4. OutputsSafe'
    BY <1>0, <2>1, <2>2 DEF OutputsSafe, OutputsTypeOK
  <2>5. BuildOK' /\ HasPDF'
    BY <1>0, <2>1, <2>3 DEF BuildOK, HasPDF
  <2>6. \A c \in Books : ProofPDFs(c)' = ProofPDFs(c)
    BY <2>2, <2>3 DEF ProofPDFs
  <2>7. OneOverdue'
    BY <1>0, <2>1, <2>6 DEF OneOverdue
  <2> QED
    BY <2>2, <2>4, <2>5, <2>7 DEF OutputsInv
<1>7. CASE EPUBFails
  <2>1. BuildOK' /\ HasPDF'
    BY <1>0, <1>7 DEF EPUBFails, BuildOK, HasPDF
  <2> QED
    BY <1>0, <1>7, <1>a, <2>1 DEF EPUBFails, OutputsTypeOK
<1>8. CASE PDFFails \/ Finish
  <2>1. BuildOK' /\ HasPDF'
    BY <1>0, <1>8 DEF PDFFails, Finish, BuildOK, HasPDF
  <2> QED
    BY <1>0, <1>8, <1>a, <2>1 DEF PDFFails, Finish, OutputsTypeOK
<1>9. ASSUME UNCHANGED <<outputs, made, lastKind, build, phase>>, now' \in 0..MaxTime
      PROVE  OutputsInv'
  <2>1. BuildOK' /\ HasPDF'
    BY <1>0, <1>9 DEF BuildOK, HasPDF
  <2> QED
    BY <1>0, <1>9, <1>a, <2>1 DEF OutputsTypeOK
<1>10. CASE Tick
  BY <1>0, <1>9, <1>10 DEF Tick, OutputsTypeOK
<1>11. CASE UNCHANGED outputVars
  BY <1>0, <1>9, <1>11 DEF outputVars, OutputsTypeOK
<1> QED
  BY <1>1, <1>2, <1>3, <1>4, <1>5, <1>6, <1>7, <1>8, <1>10, <1>11 DEF OutputsNext

LEMMA OutputsHold == OutputsSpec => []OutputsInv
<1>1. OutputsInit => OutputsInv
  BY OutputsInitHolds
<1>2. OutputsInv /\ [OutputsNext]_outputVars => OutputsInv'
  BY OutputsStep
<1> QED
  BY <1>1, <1>2, PTL DEF OutputsSpec

\* Whatever is built and pruned, by a build and by an admin at once, the PDFs
\* of finals and the newest of each format stay (pruneProofPDFs,
\* pruneEPUBOutputs and handleDownloadBook in srv).
THEOREM OutputsAreSafe == OutputsSpec => []OutputsSafe
<1>1. OutputsInv => OutputsSafe
  BY DEF OutputsInv
<1> QED
  BY <1>1, OutputsHold, PTL

\* Between builds no book has more proofs than proofOutputsKept, however many
\* books a project has.
THEOREM ProofsAreBounded == OutputsSpec => []ProofsBounded
<1>1. OutputsInv => ProofsBounded
  <2> SUFFICES ASSUME OutputsInv, phase \in {"idle", "ready"}, NEW b \in Books
               PROVE  Cardinality({o \in outputs : <<o.book, o.format, o.kind>> = <<b, "pdf", "proof">>})
                        <= ProofsKept
    BY DEF ProofsBounded
  <2>1. {o \in outputs : <<o.book, o.format, o.kind>> = <<b, "pdf", "proof">>} = ProofPDFs(b)
    BY DEF ProofPDFs
  <2>2. Cardinality(ProofPDFs(b)) <= ProofsKept
    BY DEF OutputsInv, OneOverdue
  <2> QED
    BY <2>1, <2>2
<1> QED
  BY <1>1, OutputsHold, PTL

\* A book that is reported ready has the PDF its build was about: pruning
\* after the build, for any proofOutputsKept of one or more, leaves it.
THEOREM ReadyIsThere == OutputsSpec => []ReadyHasPDF
<1>1. OutputsInv => ReadyHasPDF
  BY DEF OutputsInv, HasPDF, ReadyHasPDF
<1> QED
  BY <1>1, OutputsHold, PTL

-----------------------------------------------------------------------------
(* Numbers and sequences: definitions by steps, and induction for sets.   *)

\* Induction on the naturals for a set, where the library's is for a predicate.
LEMMA SetInduction ==
  ASSUME NEW n \in Nat, NEW I, 0 \in I, \A i \in 1..n : i - 1 \in I => i \in I
  PROVE  \A i \in 0..n : i \in I
<1> DEFINE Out == {i \in 0..n : i \notin I}
<1> SUFFICES ASSUME Out # {} PROVE FALSE
  OBVIOUS
<1>1. Out \in SUBSET Nat
  OBVIOUS
<1>2. PICK i \in Out : \A k \in Out : i <= k
  <2> HIDE DEF Out
  <2> QED
    BY <1>1, LeastNatural
<1>3. i \in 1..n /\ i - 1 \in 0..n
  OBVIOUS
<1>4. i - 1 \notin Out
  BY <1>2, <1>3
<1> QED
  BY <1>3, <1>4

\* f is base at 0 and takes n steps.
Iterates(f, S, base, n, step) ==
  /\ f \in [0..n -> S] /\ f[0] = base
  /\ \A i \in 1..n : f[i] = step[i][f[i - 1]]

\* A function on 0..n may be defined by its first value and a step.
LEMMA Recursion ==
  ASSUME NEW S, NEW base \in S, NEW n \in Nat, NEW step \in [1..n -> [S -> S]]
  PROVE  \E f : Iterates(f, S, base, n, step)
<1> DEFINE I == {k \in 0..n : \E f : Iterates(f, S, base, k, step)}
<1>1. 0 \in I
  <2>1. Iterates([i \in 0..0 |-> base], S, base, 0, step)
    BY DEF Iterates
  <2>2. 0 \in 0..n
    OBVIOUS
  <2> QED
    BY <2>1, <2>2
<1>2. ASSUME NEW k \in 1..n, k - 1 \in I PROVE k \in I
  <2>1. PICK f : Iterates(f, S, base, k - 1, step)
    BY <1>2
  <2> DEFINE g == [i \in 0..k |-> IF i = k THEN step[k][f[k - 1]] ELSE f[i]]
  <2>2. \A i \in 0..(k - 1) : f[i] \in S /\ i \in 0..k /\ g[i] = f[i]
    BY <2>1 DEF Iterates
  <2>3. k - 1 \in 0..(k - 1) /\ k \in 0..k
    OBVIOUS
  <2>4. step[k][f[k - 1]] \in S
    BY <2>2, <2>3
  <2>5. g \in [0..k -> S]
    <3>1. \A i \in 0..k : i # k => i \in 0..(k - 1)
      OBVIOUS
    <3> QED
      BY <2>2, <2>4, <3>1
  <2>6. g[0] = base /\ g[k] = step[k][g[k - 1]]
    BY <2>1, <2>2, <2>3 DEF Iterates
  <2> HIDE DEF g
  <2>7. ASSUME NEW i \in 1..k PROVE g[i] = step[i][g[i - 1]]
    <3>1. CASE i = k
      BY <2>6, <3>1
    <3>2. CASE i # k
      <4>1. i \in 1..(k - 1) /\ i \in 0..(k - 1) /\ i - 1 \in 0..(k - 1)
        BY <3>2
      <4> QED
        BY <2>1, <2>2, <4>1 DEF Iterates
    <3> QED
      BY <3>1, <3>2
  <2>8. Iterates(g, S, base, k, step)
    BY <2>5, <2>6, <2>7 DEF Iterates
  <2>9. k \in 0..n
    OBVIOUS
  <2> QED
    BY <2>8, <2>9
<1>3. n \in I
  <2>1. n \in 0..n
    OBVIOUS
  <2> HIDE DEF I
  <2> QED
    BY <1>1, <1>2, <2>1, SetInduction
<1> QED
  BY <1>3

\* What a property of sequences needs: <<>> and one more element.
LEMMA SeqInduction ==
  ASSUME NEW T, NEW I \in SUBSET Seq(T), <<>> \in I,
         \A s \in I, e \in T : Append(s, e) \in I
  PROVE  \A s \in Seq(T) : s \in I
<1> DEFINE Odd == {n \in Nat : \E s \in Seq(T) : s \notin I /\ Len(s) = n}
<1> SUFFICES ASSUME NEW s \in Seq(T), s \notin I PROVE FALSE
  OBVIOUS
<1>1. Len(s) \in Odd
  BY LenProperties
<1>2. PICK n \in Odd : \A k \in Odd : n <= k
  <2>1. Odd \in SUBSET Nat
    OBVIOUS
  <2> HIDE DEF Odd
  <2> QED
    BY <1>1, <2>1, LeastNatural
<1>3. PICK t \in Seq(T) : t \notin I /\ Len(t) = n
  BY <1>2
<1>4. t # <<>>
  BY <1>3
<1>5. PICK u \in Seq(T), e \in T : t = Append(u, e)
  BY <1>4, SequenceEmptyOrAppend
<1>6. Len(t) = Len(u) + 1 /\ Len(u) \in Nat
  BY <1>5, AppendProperties, LenProperties
<1>7. u \notin I
  BY <1>3, <1>5
<1>8. Len(u) \in Odd
  BY <1>6, <1>7
<1>9. n <= Len(u) /\ n = Len(u) + 1
  BY <1>2, <1>3, <1>6, <1>8
<1> QED
  BY <1>6, <1>9

-----------------------------------------------------------------------------
(* FlattenSeq.                                                             *)

LEMMA FlattenIs ==
  ASSUME NEW T, NEW ss \in Seq(Seq(T)), NEW f \in [0..Len(ss) -> Seq(T)], f[0] = <<>>,
         \A i \in 1..Len(ss) : f[i] = f[i - 1] \o ss[i]
  PROVE  FlattenSeq(ss) = f[Len(ss)]
<1>1. PICK n \in Nat : n = Len(ss)
  BY LenProperties
<1>2. CASE n = 0
  <2>1. ss = <<>>
    BY <1>1, <1>2, EmptySeq
  <2> QED
    BY <1>1, <1>2, <2>1 DEF FlattenSeq
<1>3. CASE n # 0
  <2> DEFINE flat == CHOOSE g : g = [i \in 1..Len(ss) |-> IF i = 1 THEN ss[i] ELSE g[i - 1] \o ss[i]]
             r == [i \in 1..n |-> f[i]]
  <2>1. FlattenSeq(ss) = flat[n]
    BY <1>1, <1>3 DEF FlattenSeq
  <2>2. r = [i \in 1..n |-> IF i = 1 THEN ss[i] ELSE r[i - 1] \o ss[i]]
    <3>1. ASSUME NEW i \in 1..n PROVE r[i] = IF i = 1 THEN ss[i] ELSE r[i - 1] \o ss[i]
      <4>1. f[i] = f[i - 1] \o ss[i]
        BY <1>1
      <4>2. ss[i] \in Seq(T)
        BY <1>1, ElementOfSeq
      <4>3. CASE i = 1
        <5>1. i - 1 = 0
          BY <4>3
        <5>2. f[i] = <<>> \o ss[i]
          BY <4>1, <5>1
        <5>3. <<>> \o ss[i] = ss[i]
          BY <4>2, ConcatEmptySeq
        <5> QED
          BY <4>3, <5>2, <5>3
      <4>4. CASE i # 1
        <5>1. i - 1 \in 1..n
          BY <4>4
        <5> QED
          BY <4>1, <4>4, <5>1
      <4> QED
        BY <4>3, <4>4
    <3> QED
      BY <3>1
  <2>3. flat = [i \in 1..n |-> IF i = 1 THEN ss[i] ELSE flat[i - 1] \o ss[i]]
    <3>1. \E g : g = [i \in 1..Len(ss) |-> IF i = 1 THEN ss[i] ELSE g[i - 1] \o ss[i]]
      <4> HIDE DEF r
      <4> QED
        BY <1>1, <2>2
    <3> QED
      BY <1>1, <3>1
  <2> HIDE DEF flat, r
  <2>4. \A i \in 1..n : flat[i] = IF i = 1 THEN ss[i] ELSE flat[i - 1] \o ss[i]
    BY <2>3
  <2>5. \A i \in 1..n : r[i] = IF i = 1 THEN ss[i] ELSE r[i - 1] \o ss[i]
    BY <2>2
  <2> DEFINE I == {i \in 0..n : i = 0 \/ flat[i] = r[i]}
  <2>6. ASSUME NEW i \in 1..n, i - 1 \in I PROVE i \in I
    BY <2>4, <2>5, <2>6
  <2>7. n \in I
    <3>1. 0 \in I /\ n \in 0..n
      OBVIOUS
    <3> HIDE DEF I
    <3> QED
      BY <2>6, <3>1, SetInduction
  <2> QED
    BY <1>1, <1>3, <2>1, <2>7 DEF r
<1> QED
  BY <1>2, <1>3

LEMMA FlattenPrefixes ==
  ASSUME NEW T, NEW ss \in Seq(Seq(T))
  PROVE  \E f \in [0..Len(ss) -> Seq(T)] :
            f[0] = <<>> /\ \A i \in 1..Len(ss) : f[i] = f[i - 1] \o ss[i]
<1>1. PICK n \in Nat : n = Len(ss)
  BY LenProperties
<1>2. \A i \in 1..n : ss[i] \in Seq(T)
  BY <1>1, ElementOfSeq
<1>3. \A i \in 1..n, s \in Seq(T) : s \o ss[i] \in Seq(T)
  BY <1>2, ConcatProperties
<1>4. PICK S : S = Seq(T)
  OBVIOUS
<1>5. PICK base \in S : base = <<>>
  BY <1>4, EmptySeq
<1>6. PICK step \in [1..n -> [S -> S]] : \A i \in 1..n, s \in S : step[i][s] = s \o ss[i]
  <2> DEFINE st == [i \in 1..n |-> [s \in S |-> s \o ss[i]]]
  <2>1. st \in [1..n -> [S -> S]]
    BY <1>3, <1>4
  <2>2. \A i \in 1..n, s \in S : st[i][s] = s \o ss[i]
    OBVIOUS
  <2> HIDE DEF st
  <2> QED
    BY <2>1, <2>2
<1>7. PICK f : Iterates(f, S, base, n, step)
  BY Recursion
<1>8. f \in [0..n -> S] /\ f[0] = base /\ \A i \in 1..n : f[i] = step[i][f[i - 1]]
  BY <1>7 DEF Iterates
<1>9. \A i \in 1..n : f[i - 1] \in S
  BY <1>8
<1>10. f \in [0..Len(ss) -> Seq(T)] /\ f[0] = <<>> /\ \A i \in 1..Len(ss) : f[i] = f[i - 1] \o ss[i]
  BY <1>1, <1>4, <1>5, <1>6, <1>8, <1>9
<1> QED
  BY <1>10

LEMMA FlattenType ==
  ASSUME NEW T, NEW ss \in Seq(Seq(T))
  PROVE  FlattenSeq(ss) \in Seq(T)
<1>1. PICK f \in [0..Len(ss) -> Seq(T)] :
            f[0] = <<>> /\ \A i \in 1..Len(ss) : f[i] = f[i - 1] \o ss[i]
  BY FlattenPrefixes
<1>2. FlattenSeq(ss) = f[Len(ss)]
  BY <1>1, FlattenIs
<1>3. Len(ss) \in Nat
  BY LenProperties
<1> QED
  BY <1>2, <1>3

LEMMA FlattenEmpty == FlattenSeq(<<>>) = <<>>
  BY DEF FlattenSeq

LEMMA FlattenAppend ==
  ASSUME NEW T, NEW ss \in Seq(Seq(T)), NEW s \in Seq(T)
  PROVE  FlattenSeq(Append(ss, s)) = FlattenSeq(ss) \o s
<1> DEFINE more == Append(ss, s)
<1>1. PICK n \in Nat : n = Len(ss)
  BY LenProperties
<1>2. /\ more \in Seq(Seq(T)) /\ Len(more) = n + 1 /\ more[n + 1] = s
      /\ \A i \in 1..n : more[i] = ss[i]
  BY <1>1, AppendProperties
<1> HIDE DEF more
<1>3. PICK f \in [0..(n + 1) -> Seq(T)] :
            f[0] = <<>> /\ \A i \in 1..(n + 1) : f[i] = f[i - 1] \o more[i]
  <2>1. \E f \in [0..Len(more) -> Seq(T)] :
            f[0] = <<>> /\ \A i \in 1..Len(more) : f[i] = f[i - 1] \o more[i]
    BY <1>2, FlattenPrefixes
  <2> QED
    BY <1>2, <2>1
<1>4. FlattenSeq(more) = f[n + 1]
  BY <1>2, <1>3, FlattenIs
<1>5. FlattenSeq(ss) = f[n]
  <2> DEFINE g == [i \in 0..n |-> f[i]]
  <2>1. g \in [0..Len(ss) -> Seq(T)] /\ g[0] = <<>>
    BY <1>1, <1>3
  <2>2. ASSUME NEW i \in 1..Len(ss) PROVE g[i] = g[i - 1] \o ss[i]
    <3>1. i \in 1..(n + 1) /\ i \in 0..n /\ i - 1 \in 0..n /\ i \in 1..n
      BY <1>1
    <3> QED
      BY <1>2, <1>3, <3>1
  <2>3. g[n] = f[n]
    OBVIOUS
  <2> HIDE DEF g
  <2> QED
    BY <1>1, <2>1, <2>2, <2>3, FlattenIs
<1>6. f[n + 1] = f[n] \o s
  <2>1. n + 1 \in 1..(n + 1) /\ (n + 1) - 1 = n
    OBVIOUS
  <2> QED
    BY <1>2, <1>3, <2>1
<1> QED
  BY <1>4, <1>5, <1>6 DEF more

\* Three sequences of numbers may be joined in either order.
LEMMA Regrouped == \A r, s, v \in Seq(Nat) : (r \o s) \o v = r \o (s \o v)
<1>1. \A T : T = Nat => \A r, s, v \in Seq(T) : (r \o s) \o v = r \o (s \o v)
  BY ConcatAssociative
<1> QED
  BY <1>1

LEMMA AppendAssoc ==
  ASSUME NEW T, NEW s \in Seq(T), NEW t \in Seq(T), NEW e \in T
  PROVE  s \o Append(t, e) = Append(s \o t, e)
<1>1. <<e>> \in Seq(T) /\ s \o t \in Seq(T)
  BY ConcatProperties
<1> QED
  BY <1>1, AppendIsConcat, ConcatAssociative

LEMMA FlattenConcat ==
  ASSUME NEW T, NEW ss \in Seq(Seq(T)), NEW tt \in Seq(Seq(T))
  PROVE  FlattenSeq(ss \o tt) = FlattenSeq(ss) \o FlattenSeq(tt)
<1> DEFINE I == {u \in Seq(Seq(T)) : FlattenSeq(ss \o u) = FlattenSeq(ss) \o FlattenSeq(u)}
<1>0. FlattenSeq(ss) \in Seq(T)
  BY FlattenType
<1>1. <<>> \in I
  BY <1>0, FlattenEmpty, EmptySeq, ConcatEmptySeq
<1>2. ASSUME NEW u \in I, NEW e \in Seq(T) PROVE Append(u, e) \in I
  <2>1. Append(u, e) \in Seq(Seq(T)) /\ ss \o u \in Seq(Seq(T))
    BY AppendProperties, ConcatProperties
  <2>2. FlattenSeq(u) \in Seq(T)
    BY FlattenType
  <2>3. FlattenSeq(ss \o Append(u, e)) = FlattenSeq(ss \o u) \o e
    <3>1. ss \o Append(u, e) = Append(ss \o u, e)
      BY AppendAssoc
    <3>2. FlattenSeq(Append(ss \o u, e)) = FlattenSeq(ss \o u) \o e
      BY <2>1, FlattenAppend
    <3> QED
      BY <3>1, <3>2
  <2>4. FlattenSeq(Append(u, e)) = FlattenSeq(u) \o e
    BY FlattenAppend
  <2>5. (FlattenSeq(ss) \o FlattenSeq(u)) \o e = FlattenSeq(ss) \o (FlattenSeq(u) \o e)
    BY <1>0, <2>2, ConcatAssociative
  <2> QED
    BY <2>1, <2>3, <2>4, <2>5
<1>3. tt \in I
  <2> HIDE DEF I
  <2>1. I \in SUBSET Seq(Seq(T))
    BY DEF I
  <2> QED
    BY <1>1, <1>2, <2>1, SeqInduction
<1> QED
  BY <1>3
-----------------------------------------------------------------------------
(* Searching.                                                              *)

LEMMA FirstOf ==
  ASSUME NEW S \in SUBSET Nat, S # {}
  PROVE  First(S) \in S /\ \A j \in S : First(S) <= j
<1>1. \E i \in S : \A j \in S : i <= j
  BY LeastNatural
<1> QED
  BY <1>1 DEF First

\* A fragment stands where its words do.
LEMMA WholeStands ==
  ASSUME NEW t \in Seq(Nat), NEW f \in Seq(Nat), NEW A \in Nat, Len(f) = A, A >= 1,
         NEW e \in Nat, A <= e, e <= Len(t), SubSeq(t, e - A + 1, e) = f
  PROVE  Stands(t, f, e)
<1>1. Len(t) \in Nat /\ \A i \in 1..Len(t) : t[i] \in Nat
  BY LenProperties, ElementOfSeq
<1>2. e - A + 1 \in Int /\ e \in Int /\ e - (e - A + 1) + 1 = A /\ \A i \in (e - A + 1)..e : t[i] \in Nat
  BY <1>1
<1>3. \A k \in 1..(e - (e - A + 1) + 1) : SubSeq(t, e - A + 1, e)[k] = t[(e - A + 1) + k - 1]
  BY <1>2, SubSeqProperties
<1>4. \A k \in 1..A : f[k] = t[e - A + k]
  <2> TAKE k \in 1..A
  <2>1. (e - A + 1) + k - 1 = e - A + k
    OBVIOUS
  <2> QED
    BY <1>2, <1>3, <2>1
<1>5. f[1] = t[e - A + 1] /\ f[A] = t[e]
  <2>1. 1 \in 1..A /\ A \in 1..A /\ e - A + A = e
    OBVIOUS
  <2> QED
    BY <1>4, <2>1
<1>6. \A k \in 2..A - 1 : t[e - A + k] = f[k]
  BY <1>4
<1> QED
  BY <1>5, <1>6 DEF Stands

\* x is a stretch of t.
Within(x, t) == \E lo \in Nat : lo + Len(x) <= Len(t) /\ \A i \in 1..Len(x) : t[lo + i] = x[i]

LEMMA WithinTrans ==
  ASSUME NEW x \in Seq(Nat), NEW y \in Seq(Nat), NEW t \in Seq(Nat), Within(x, y), Within(y, t)
  PROVE  Within(x, t)
<1>1. PICK lx \in Nat, ly \in Nat, lt \in Nat : lx = Len(x) /\ ly = Len(y) /\ lt = Len(t)
  BY LenProperties
<1>2. PICK a \in Nat : a + lx <= ly /\ \A i \in 1..lx : y[a + i] = x[i]
  BY <1>1 DEF Within
<1>3. PICK b \in Nat : b + ly <= lt /\ \A i \in 1..ly : t[b + i] = y[i]
  BY <1>1 DEF Within
<1>4. PICK lo \in Nat : lo = b + a
  OBVIOUS
<1>5. lo + lx <= lt
  BY <1>2, <1>3, <1>4
<1>6. ASSUME NEW i \in 1..lx PROVE t[lo + i] = x[i]
  <2>1. a + i \in 1..ly /\ b + (a + i) = lo + i
    BY <1>2, <1>4
  <2> QED
    BY <1>2, <1>3, <2>1
<1> QED
  BY <1>1, <1>5, <1>6 DEF Within

LEMMA WithinConcat ==
  ASSUME NEW u \in Seq(Nat), NEW v \in Seq(Nat)
  PROVE  /\ u \o v \in Seq(Nat) /\ Within(v, u \o v)
         /\ \A x \in Seq(Nat) : Within(x, u) => Within(x, u \o v)
<1>1. PICK lu \in Nat, lv \in Nat : lu = Len(u) /\ lv = Len(v)
  BY LenProperties
<1>2. PICK t \in Seq(Nat) : /\ t = u \o v /\ Len(t) = lu + lv
                            /\ \A i \in 1..(lu + lv) : t[i] = IF i <= lu THEN u[i] ELSE v[i - lu]
  <2>1. /\ u \o v \in Seq(Nat) /\ Len(u \o v) = Len(u) + Len(v)
        /\ \A i \in 1..(Len(u) + Len(v)) : (u \o v)[i] = IF i <= Len(u) THEN u[i] ELSE v[i - Len(u)]
    BY ConcatProperties
  <2>2. /\ Len(u \o v) = lu + lv
        /\ \A i \in 1..(lu + lv) : (u \o v)[i] = IF i <= lu THEN u[i] ELSE v[i - lu]
    BY <1>1, <2>1, Zenon
  <2> QED
    BY <2>1, <2>2, Zenon
<1>3. Within(v, t)
  <2>1. \A i \in 1..lv : t[lu + i] = v[i]
    <3> TAKE i \in 1..lv
    <3>1. lu + i \in 1..(lu + lv) /\ ~ (lu + i <= lu) /\ (lu + i) - lu = i
      OBVIOUS
    <3> QED
      BY <1>2, <3>1
  <2>2. lu + lv <= Len(t)
    BY <1>2
  <2>3. lu + Len(v) <= Len(t) /\ \A i \in 1..Len(v) : t[lu + i] = v[i]
    BY <1>1, <2>1, <2>2, Zenon
  <2> QED
    BY <2>3, Zenon DEF Within
<1>4. ASSUME NEW x \in Seq(Nat), Within(x, u) PROVE Within(x, t)
  <2>1. PICK lx \in Nat : lx = Len(x)
    BY LenProperties
  <2>2. PICK a \in Nat : a + lx <= lu /\ \A i \in 1..lx : u[a + i] = x[i]
    BY <1>1, <1>4, <2>1 DEF Within
  <2>3. \A i \in 1..lx : t[a + i] = x[i]
    <3> TAKE i \in 1..lx
    <3>1. a + i \in 1..(lu + lv) /\ a + i <= lu
      BY <2>2
    <3> QED
      BY <1>2, <2>2, <3>1
  <2>4. a + lx <= Len(t)
    BY <1>2, <2>2
  <2>5. a + Len(x) <= Len(t) /\ \A i \in 1..Len(x) : t[a + i] = x[i]
    BY <2>1, <2>3, <2>4, Zenon
  <2> QED
    BY <2>5, Zenon DEF Within
<1> QED
  BY <1>2, <1>3, <1>4

\* Each of the sequences that are put one after the other is a stretch of the whole.
LEMMA PartsWithin ==
  ASSUME NEW ss \in Seq(Seq(Nat))
  PROVE  \A j \in DOMAIN ss : Within(ss[j], FlattenSeq(ss))
<1> DEFINE Parts(s) == \A j \in DOMAIN s : Within(s[j], FlattenSeq(s))
           I == {s \in Seq(Seq(Nat)) : Parts(s)}
<1>1. <<>> \in I
  BY EmptySeq
<1>2. ASSUME NEW s \in I, NEW e \in Seq(Nat) PROVE Append(s, e) \in I
  <2>1. PICK n \in Nat : n = Len(s) /\ DOMAIN s = 1..n /\ s \in Seq(Seq(Nat)) /\ \A j \in 1..n : s[j] \in Seq(Nat)
    BY LenProperties, ElementOfSeq
  <2>2. PICK t \in Seq(Seq(Nat)) : /\ t = Append(s, e) /\ DOMAIN t = 1..(n + 1)
                                   /\ t[n + 1] = e /\ \A j \in 1..n : t[j] = s[j]
    <3>1. PICK t \in Seq(Seq(Nat)) : t = Append(s, e)
      BY AppendProperties
    <3>2. Len(t) = n + 1 /\ t[n + 1] = e /\ \A j \in 1..n : t[j] = s[j]
      BY <2>1, <3>1, AppendProperties
    <3>3. DOMAIN t = 1..(n + 1)
      BY <3>2, LenProperties
    <3> QED
      BY <3>1, <3>2, <3>3
  <2>3. PICK u \in Seq(Nat) : u = FlattenSeq(s)
    BY <2>1, FlattenType
  <2>4. FlattenSeq(t) = u \o e
    BY <2>1, <2>2, <2>3, FlattenAppend
  <2>5. Parts(s)
    OBVIOUS
  <2>6. ASSUME NEW j \in 1..(n + 1) PROVE Within(t[j], u \o e)
    <3>1. CASE j = n + 1
      BY <2>2, <3>1, WithinConcat
    <3>2. CASE j # n + 1
      <4>1. j \in 1..n
        BY <3>2
      <4>2. Within(s[j], u) /\ s[j] \in Seq(Nat)
        BY <2>1, <2>3, <2>5, <4>1
      <4> QED
        BY <2>2, <4>1, <4>2, WithinConcat
    <3> QED
      BY <3>1, <3>2
  <2>7. Parts(t)
    BY <2>2, <2>4, <2>6
  <2> QED
    BY <2>2, <2>7
<1>3. ss \in I
  <2>1. I \in SUBSET Seq(Seq(Nat))
    OBVIOUS
  <2> HIDE DEF I
  <2> QED
    BY <1>1, <1>2, <2>1, SeqInduction
<1> QED
  BY <1>3

\* Where a fragment ends is a place in the text.
LEMMA EndsOf ==
  ASSUME NEW t \in Seq(Nat), NEW f \in Seq(Nat), Len(f) >= 1, NEW lo \in Nat, NEW hi \in Nat, hi <= Len(t)
  PROVE  /\ Ends(t, f, lo, hi) \in SUBSET (Nat \ {0})
         /\ Ends(t, f, lo, hi) \subseteq Ends(t, f, 0, Len(t))
<1>1. Len(f) \in Nat /\ Len(t) \in Nat
  BY LenProperties
<1> QED
  BY <1>1, SMTT(30) DEF Ends

LEMMA TryFinds ==
  ASSUME NEW t \in Seq(Nat), NEW f \in Seq(Nat), Len(f) >= 1, NEW lo \in Nat, NEW hi \in Nat, hi <= Len(t)
  PROVE  /\ Try(t, f, lo, hi) # 0 => Try(t, f, lo, hi) \in Ends(t, f, 0, Len(t))
         /\ Ends(t, f, 0, Len(t)) # {} => Try(t, f, lo, hi) # 0
         /\ Ends(t, f, lo, hi) # {} => Try(t, f, lo, hi) \in Ends(t, f, lo, hi)
         /\ Try(t, f, lo, hi) \in Nat
<1> DEFINE here == Ends(t, f, lo, hi)
           all == Ends(t, f, 0, Len(t))
<1>1. Len(t) \in Nat /\ 0 \in Nat
  BY LenProperties
<1>2. here \in SUBSET (Nat \ {0}) /\ here \subseteq all
  BY EndsOf
<1>3. all \in SUBSET (Nat \ {0})
  BY <1>1, EndsOf
<1>4. here # {} => First(here) \in here
  <2> HIDE DEF here
  <2>1. here \in SUBSET Nat
    BY <1>2
  <2> QED
    BY <2>1, FirstOf
<1>5. all # {} => First(all) \in all
  <2> HIDE DEF all
  <2>1. all \in SUBSET Nat
    BY <1>3
  <2> QED
    BY <2>1, FirstOf
<1>6. Try(t, f, lo, hi) = IF here # {} THEN First(here) ELSE IF all # {} THEN First(all) ELSE 0
  BY DEF Try
<1> HIDE DEF here, all
<1>7. CASE here # {}
  <2>1. First(here) \in here /\ First(here) \in all /\ First(here) # 0 /\ First(here) \in Nat
    BY <1>2, <1>4, <1>7
  <2> QED
    BY <1>6, <1>7, <2>1 DEF here, all
<1>8. CASE here = {} /\ all # {}
  <2>1. First(all) \in all /\ First(all) # 0 /\ First(all) \in Nat
    BY <1>3, <1>5, <1>8
  <2> QED
    BY <1>6, <1>8, <2>1 DEF here, all
<1>9. CASE here = {} /\ all = {}
  BY <1>6, <1>9 DEF here, all
<1> QED
  BY <1>7, <1>8, <1>9

\* What is left of a fragment is a run of its words, MinAnchor of them or more;
\* the whole fragment is tried first.
RunOf(s, f) == \E b, e \in 1..AnchorWords : e - b + 1 >= MinAnchor /\ s = SubSeq(f, b, e)

LEMMA ShortenedOf ==
  ASSUME NEW f \in Seq(Nat), Len(f) = AnchorWords
  PROVE  /\ \E n \in Nat : DOMAIN Shortened(f) = 1..n /\ n >= 1
         /\ Shortened(f)[1] = f
         /\ \A i \in DOMAIN Shortened(f) : RunOf(Shortened(f)[i], f)
<1> DEFINE l == AnchorWords - MinAnchor
           A == [n \in 1..l |-> SubSeq(f, 1, Len(f) - n)]
           B == [n \in 1..l |-> SubSeq(f, n + 1, Len(f))]
<1>1. AnchorWords \in Nat /\ MinAnchor \in 1..AnchorWords /\ l \in Nat /\ l + MinAnchor = AnchorWords
  BY PlacesAssumption
<1>2. Shortened(f) = <<f>> \o A \o B
  BY DEF Shortened
<1>3. f = SubSeq(f, 1, Len(f))
  BY SubSeqFull
<1>4. RunOf(f, f)
  <2>1. 1 \in 1..AnchorWords /\ AnchorWords \in 1..AnchorWords /\ AnchorWords - 1 + 1 >= MinAnchor
    BY <1>1
  <2> QED
    BY <1>3, <2>1 DEF RunOf
<1>5. \A n \in 1..l : RunOf(A[n], f)
  <2> TAKE n \in 1..l
  <2>1. 1 \in 1..AnchorWords /\ Len(f) - n \in 1..AnchorWords /\ (Len(f) - n) - 1 + 1 >= MinAnchor
    BY <1>1
  <2> QED
    BY <2>1 DEF RunOf
<1>6. \A n \in 1..l : RunOf(B[n], f)
  <2> TAKE n \in 1..l
  <2>1. n + 1 \in 1..AnchorWords /\ Len(f) \in 1..AnchorWords /\ Len(f) - (n + 1) + 1 >= MinAnchor
    BY <1>1
  <2> QED
    BY <2>1 DEF RunOf
<1>7. PICK R : R = {f} \cup {A[n] : n \in 1..l} \cup {B[n] : n \in 1..l}
  OBVIOUS
<1>8. <<f>> \in Seq(R) /\ Len(<<f>>) = 1 /\ <<f>>[1] = f
  BY <1>7
<1>9. A \in Seq(R) /\ Len(A) = l /\ B \in Seq(R) /\ Len(B) = l
  <2>1. A \in [1..l -> R] /\ B \in [1..l -> R]
    BY <1>7
  <2>2. \A s \in [1..l -> R] : s \in Seq(R) /\ Len(s) = l
    BY <1>1, SeqDef, LenProperties
  <2> HIDE DEF A, B, l
  <2> QED
    BY <2>1, <2>2
<1>10. \A s \in R : RunOf(s, f)
  BY <1>4, <1>5, <1>6, <1>7
<1> DEFINE all == <<f>> \o A \o B
<1> HIDE DEF A, B, l
<1>11. all \in Seq(R) /\ Len(all) = 1 + l + l /\ all[1] = f
  <2>1. PICK s : s = <<f>> \o A
    OBVIOUS
  <2>2. s \in Seq(R) /\ Len(s) = 1 + l /\ s[1] = f
    BY <1>1, <1>8, <1>9, <2>1, ConcatProperties
  <2>3. s \o B \in Seq(R) /\ Len(s \o B) = (1 + l) + l /\ (s \o B)[1] = f
    <3>1. PICK u \in Seq(R) : u = B /\ Len(u) = l
      BY <1>9
    <3>2. 1 \in 1..(Len(s) + Len(u)) /\ 1 <= Len(s)
      BY <1>1, <2>2, <3>1
    <3>3. (s \o u)[1] = s[1]
      BY <2>2, <3>2, ConcatProperties
    <3>4. s \o u \in Seq(R) /\ Len(s \o u) = Len(s) + Len(u)
      BY <2>2, ConcatProperties
    <3> QED
      BY <2>2, <3>1, <3>3, <3>4
  <2> QED
    BY <2>1, <2>3
<1> HIDE DEF all
<1>12. DOMAIN all = 1..(1 + l + l) /\ \A i \in DOMAIN all : all[i] \in R
  BY <1>11, LenProperties
<1>13. Shortened(f) = all
  BY <1>2 DEF all
<1>14. 1 + l + l \in Nat /\ 1 + l + l >= 1
  BY <1>1
<1>15. \A i \in DOMAIN all : RunOf(all[i], f)
  BY <1>10, <1>12
<1>16. \E n \in Nat : DOMAIN all = 1..n /\ n >= 1
  BY <1>12, <1>14
<1> QED
  BY <1>11, <1>13, <1>15, <1>16

LEMMA RunLong ==
  ASSUME NEW f \in Seq(Nat), Len(f) = AnchorWords, NEW s, RunOf(s, f)
  PROVE  s \in Seq(Nat) /\ Len(s) >= 1 /\ Len(s) <= AnchorWords
<1>1. PICK b, e \in 1..AnchorWords : e - b + 1 >= MinAnchor /\ s = SubSeq(f, b, e)
  BY DEF RunOf
<1>2. AnchorWords \in Nat /\ MinAnchor \in Nat /\ MinAnchor >= 1
  BY PlacesAssumption
<1>3. b \in Int /\ e \in Int /\ b <= e
  BY <1>1, <1>2
<1>4. \A i \in b..e : f[i] \in Nat
  BY <1>2, <1>3, ElementOfSeq
<1>5. SubSeq(f, b, e) \in Seq(Nat) /\ Len(SubSeq(f, b, e)) = e - b + 1
  BY <1>3, <1>4, SubSeqProperties
<1> QED
  BY <1>1, <1>2, <1>3, <1>5

-----------------------------------------------------------------------------
(* The words of a manuscript.                                              *)

Texts(m) == [i \in DOMAIN m |-> m[i].words]

LEMMA LinesMapped ==
  ASSUME NEW m \in Seq(Line)
  PROVE  Texts(m) \in Seq(Seq(Nat)) /\ Len(Texts(m)) = Len(m)
<1>1. PICK n \in Nat : n = Len(m) /\ DOMAIN m = 1..n /\ \A i \in 1..n : m[i] \in Line
  BY LenProperties, ElementOfSeq
<1>2. \A i \in 1..n : m[i].words \in Seq(Nat)
  BY <1>1 DEF Line
<1>3. Texts(m) \in [1..n -> Seq(Nat)]
  BY <1>1, <1>2 DEF Texts
<1>4. \A T : \A s \in [1..n -> T] : s \in Seq(T) /\ Len(s) = n
  BY SeqDef, LenProperties
<1> QED
  BY <1>1, <1>3, <1>4

LEMMA TextsAppend ==
  ASSUME NEW m \in Seq(Line), NEW b \in Line
  PROVE  Texts(Append(m, b)) = Append(Texts(m), b.words)
<1>1. PICK n \in Nat : n = Len(m) /\ DOMAIN m = 1..n
  BY LenProperties
<1>2. PICK more \in Seq(Line) :
         /\ more = Append(m, b) /\ Len(more) = n + 1 /\ DOMAIN more = 1..(n + 1)
         /\ more[n + 1] = b /\ \A i \in 1..n : more[i] = m[i]
  <2>1. PICK more \in Seq(Line) : more = Append(m, b)
    BY AppendProperties
  <2>2. Len(more) = n + 1 /\ more[n + 1] = b /\ \A i \in 1..n : more[i] = m[i]
    BY <1>1, <2>1, AppendProperties
  <2>3. DOMAIN more = 1..(n + 1)
    BY <2>2, LenProperties
  <2> QED
    BY <2>1, <2>2, <2>3
<1>3. b.words \in Seq(Nat)
  BY DEF Line
<1>4. Texts(more) \in Seq(Seq(Nat)) /\ Len(Texts(more)) = n + 1 /\ Texts(m) \in Seq(Seq(Nat)) /\ Len(Texts(m)) = n
  BY <1>1, <1>2, LinesMapped
<1>5. PICK t : t = Append(Texts(m), b.words)
  OBVIOUS
<1>6. /\ t \in Seq(Seq(Nat)) /\ Len(t) = n + 1 /\ t[n + 1] = b.words
      /\ \A i \in 1..n : t[i] = Texts(m)[i]
  BY <1>3, <1>4, <1>5, AppendProperties
<1>7. ASSUME NEW i \in 1..(n + 1) PROVE Texts(more)[i] = t[i]
  <2>1. Texts(more)[i] = more[i].words
    BY <1>2 DEF Texts
  <2>2. CASE i = n + 1
    BY <1>2, <1>6, <2>1, <2>2
  <2>3. CASE i # n + 1
    <3>1. i \in 1..n
      BY <2>3
    <3> QED
      BY <1>1, <1>2, <1>6, <2>1, <3>1 DEF Texts
  <2> QED
    BY <2>2, <2>3
<1>8. Texts(more) = t
  BY <1>4, <1>6, <1>7, SeqEqual
<1> QED
  BY <1>2, <1>5, <1>8

LEMMA WordsType ==
  ASSUME NEW m \in Seq(Line)
  PROVE  Words(m) \in Seq(Nat) /\ Texts(m) \in Seq(Seq(Nat)) /\ Words(m) = FlattenSeq(Texts(m))
  BY LinesMapped, FlattenType DEF Words, Texts

LEMMA WordsAppend ==
  ASSUME NEW m \in Seq(Line), NEW b \in Line
  PROVE  Words(Append(m, b)) = Words(m) \o b.words
<1>1. b.words \in Seq(Nat)
  BY DEF Line
<1>2. Append(m, b) \in Seq(Line)
  BY AppendProperties
<1>3. Texts(m) \in Seq(Seq(Nat))
  BY LinesMapped
<1>4. FlattenSeq(Append(Texts(m), b.words)) = FlattenSeq(Texts(m)) \o b.words
  BY <1>1, <1>3, FlattenAppend
<1> QED
  BY <1>2, <1>4, TextsAppend, WordsType

\* Cutting a manuscript in two cuts its words in two.
LEMMA WordsConcat ==
  ASSUME NEW m \in Seq(Line), NEW r \in Seq(Line)
  PROVE  Words(m \o r) = Words(m) \o Words(r)
<1> DEFINE I == {u \in Seq(Line) : Words(m \o u) = Words(m) \o Words(u)}
<1>1. <<>> \in I
  <2>1. Words(<<>>) = <<>>
    BY FlattenEmpty DEF Words
  <2>2. m \o <<>> = m /\ Words(m) \o <<>> = Words(m) /\ <<>> \in Seq(Line)
    BY WordsType, ConcatEmptySeq
  <2> QED
    BY <2>1, <2>2
<1>2. ASSUME NEW u \in I, NEW b \in Line PROVE Append(u, b) \in I
  <2>1. m \o u \in Seq(Line) /\ Append(u, b) \in Seq(Line)
    BY ConcatProperties, AppendProperties
  <2>2. m \o Append(u, b) = Append(m \o u, b)
    BY AppendAssoc
  <2>3. PICK t \in Seq(Nat) : t = b.words
    BY DEF Line
  <2>4. Words(Append(m \o u, b)) = Words(m \o u) \o t /\ Words(Append(u, b)) = Words(u) \o t
    BY <2>1, <2>3, WordsAppend
  <2>5. (Words(m) \o Words(u)) \o t = Words(m) \o (Words(u) \o t)
    <3>1. u \in Seq(Line)
      OBVIOUS
    <3>2. Words(m) \in Seq(Nat)
      BY WordsType
    <3>3. Words(u) \in Seq(Nat)
      BY <3>1, WordsType
    <3> QED
      BY <3>2, <3>3, Regrouped, Zenon
  <2> QED
    BY <2>1, <2>2, <2>4, <2>5
<1>3. r \in I
  <2>1. I \in SUBSET Seq(Line)
    OBVIOUS
  <2> HIDE DEF I
  <2> QED
    BY <1>1, <1>2, <2>1, SeqInduction
<1> QED
  BY <1>3

-----------------------------------------------------------------------------
(* Cuts.                                                                   *)

\* A finite set of naturals, by rank.
LEMMA RanksOnto ==
  ASSUME NEW S \in SUBSET Nat, IsFiniteSet(S)
  PROVE  /\ Cardinality(S) \in Nat
         /\ \A i, j \in S : i < j => Rank(S, i) < Rank(S, j)
         /\ \A k \in 1..Cardinality(S) : \E i \in S : Rank(S, i) = k - 1
         /\ \A i \in S : Rank(S, i) \in 0..(Cardinality(S) - 1)
<1> DEFINE below(i) == {j \in S : j < i}
<1>1. PICK n \in Nat : n = Cardinality(S)
  BY FS_CardinalityType
<1>2. ASSUME NEW i \in S PROVE IsFiniteSet(below(i)) /\ Cardinality(below(i)) \in 0..(n - 1)
  <2>1. below(i) \in SUBSET (S \ {i})
    OBVIOUS
  <2>2. IsFiniteSet(S \ {i}) /\ Cardinality(S \ {i}) = n - 1
    BY <1>1, FS_RemoveElement
  <2> HIDE DEF below
  <2>3. IsFiniteSet(below(i)) /\ Cardinality(below(i)) <= n - 1
    BY <2>1, <2>2, FS_Subset
  <2>4. Cardinality(below(i)) \in Nat
    BY <2>3, FS_CardinalityType
  <2> QED
    BY <2>3, <2>4
<1>3. ASSUME NEW i \in S, NEW j \in S, i < j PROVE Rank(S, i) < Rank(S, j)
  <2>0. i \in Nat /\ j \in Nat /\ \A k \in S : k \in Nat
    OBVIOUS
  <2>a. \A k \in S : k < i => k < j
    BY <1>3, <2>0
  <2>b. ~ (i < i)
    BY <2>0
  <2>1. below(i) \in SUBSET below(j) /\ i \in below(j) /\ i \notin below(i)
    BY <1>3, <2>a, <2>b, Zenon
  <2>2. IsFiniteSet(below(j)) /\ Cardinality(below(j)) \in Nat /\ Cardinality(below(i)) \in Nat
    BY <1>2
  <2> HIDE DEF below
  <2>3. PICK A, B : A = below(i) /\ B = below(j)
    OBVIOUS
  <2>4. IsFiniteSet(B) /\ A \in SUBSET B /\ A # B
    BY <2>1, <2>2, <2>3
  <2>5. Cardinality(A) <= Cardinality(B) /\ Cardinality(B) # Cardinality(A)
    BY <2>4, FS_Subset
  <2>6. Cardinality(A) < Cardinality(B)
    BY <2>2, <2>3, <2>5
  <2>7. Cardinality(below(i)) < Cardinality(below(j))
    BY <2>3, <2>6
  <2> QED
    BY <2>7 DEF below, Rank
<1>4. PICK r \in [S -> 0..(n - 1)] : \A i \in S : r[i] = Rank(S, i)
  <2> DEFINE rr == [i \in S |-> Rank(S, i)]
  <2>1. rr \in [S -> 0..(n - 1)]
    BY <1>2 DEF Rank
  <2>2. \A i \in S : rr[i] = Rank(S, i)
    OBVIOUS
  <2> HIDE DEF rr
  <2> QED
    BY <2>1, <2>2
<1>5. ASSUME NEW i \in S, NEW j \in S, r[i] = r[j] PROVE i = j
  <2>1. r[i] \in Nat /\ r[j] \in Nat
    BY <1>4
  <2>2. ~ (i < j) /\ ~ (j < i)
    BY <1>3, <1>4, <1>5, <2>1
  <2> QED
    BY <2>2
<1>6. r \in Injection(S, 0..(n - 1))
  BY <1>4, <1>5 DEF Injection, IsInjective
<1>7. IsFiniteSet(0..(n - 1)) /\ Cardinality(0..(n - 1)) = n
  <2>1. 0 \in Int /\ n - 1 \in Int
    OBVIOUS
  <2> QED
    BY <2>1, FS_Interval
<1>8. r \in Surjection(S, 0..(n - 1))
  BY <1>1, <1>6, <1>7, FS_Injection
<1>9. ASSUME NEW k \in 1..n PROVE \E i \in S : Rank(S, i) = k - 1
  <2>1. k - 1 \in 0..(n - 1)
    OBVIOUS
  <2> QED
    BY <1>4, <1>8, <2>1 DEF Surjection
<1>10. \A i \in S : Rank(S, i) \in 0..(n - 1)
  BY <1>2 DEF Rank
<1> QED
  BY <1>1, <1>3, <1>9, <1>10

\* A set of places in order is a sequence of them, each once.
LEMMA AscendingIs ==
  ASSUME NEW n \in Nat, NEW S \in SUBSET (1..n)
  PROVE  /\ Len(Ascending(S)) \in Nat
         /\ DOMAIN Ascending(S) = 1..Len(Ascending(S))
         /\ \A k \in 1..Len(Ascending(S)) : Ascending(S)[k] \in S /\ Rank(S, Ascending(S)[k]) = k - 1
         /\ \A k, l \in 1..Len(Ascending(S)) : k < l => Ascending(S)[k] < Ascending(S)[l]
         /\ \A i \in S : \E k \in 1..Len(Ascending(S)) : Ascending(S)[k] = i
<1> DEFINE K == Cardinality(S)
           at == Ascending(S)
<1>1. S \in SUBSET Nat /\ IsFiniteSet(S)
  <2>1. IsFiniteSet(1..n)
    <3>1. 1 \in Int /\ n \in Int
      OBVIOUS
    <3> QED
      BY <3>1, FS_Interval
  <2>2. IsFiniteSet(S)
    BY <2>1, FS_Subset
  <2>3. 1..n \subseteq Nat
    OBVIOUS
  <2> QED
    BY <2>2, <2>3, Zenon
<1>2. /\ K \in Nat
      /\ \A i, j \in S : i < j => Rank(S, i) < Rank(S, j)
      /\ \A k \in 1..K : \E i \in S : Rank(S, i) = k - 1
      /\ \A i \in S : Rank(S, i) \in 0..(K - 1)
  BY <1>1, RanksOnto
<1>3. at = [k \in 1..K |-> CHOOSE i \in S : Rank(S, i) = k - 1]
  BY DEF Ascending
<1>4. \A k \in 1..K : at[k] \in S /\ Rank(S, at[k]) = k - 1
  BY <1>2, <1>3
<1>5. at \in [1..K -> S]
  BY <1>3, <1>4
<1>6. Len(at) = K /\ DOMAIN at = 1..K
  <2> HIDE DEF at, K
  <2>1. \A T : \A s \in [1..K -> T] : s \in Seq(T) /\ Len(s) = K
    BY <1>2, SeqDef, LenProperties
  <2> QED
    BY <1>5, <2>1
<1> HIDE DEF at, K
<1>7. \A i \in S : i \in Nat
  BY <1>1
<1>8. ASSUME NEW k \in 1..K, NEW l \in 1..K, k < l PROVE at[k] < at[l]
  <2>1. at[k] \in S /\ at[l] \in S /\ Rank(S, at[k]) = k - 1 /\ Rank(S, at[l]) = l - 1
    BY <1>4
  <2>2. at[k] # at[l]
    BY <1>2, <1>8, <2>1
  <2>3. ~ (at[l] < at[k])
    <3>1. SUFFICES ASSUME at[l] < at[k] PROVE FALSE
      OBVIOUS
    <3>2. Rank(S, at[l]) < Rank(S, at[k])
      BY <1>2, <2>1, <3>1
    <3>3. l - 1 < k - 1
      BY <2>1, <3>2
    <3> QED
      BY <1>8, <3>3
  <2>4. at[k] \in Nat /\ at[l] \in Nat
    BY <1>7, <2>1
  <2> QED
    BY <2>2, <2>3, <2>4
<1>9. ASSUME NEW i \in S PROVE \E k \in 1..K : at[k] = i
  <2>1. PICK k \in 1..K : k = Rank(S, i) + 1
    BY <1>2
  <2>2. at[k] \in S /\ Rank(S, at[k]) = Rank(S, i)
    BY <1>2, <1>4, <2>1
  <2>3. ~ (at[k] < i) /\ ~ (i < at[k])
    <3>1. PICK r \in Nat : r = Rank(S, i)
      BY <1>2
    <3>2. ~ (r < r)
      OBVIOUS
    <3> QED
      BY <1>2, <2>2, <3>1, <3>2, Zenon
  <2>4. at[k] \in Nat /\ i \in Nat
    BY <1>7, <2>2
  <2>5. at[k] = i
    BY <2>3, <2>4
  <2> QED
    BY <2>5
<1> QED
  BY <1>2, <1>4, <1>6, <1>8, <1>9 DEF at

\* Places of a file, one after the other.
LEMMA PlacesIncrease ==
  ASSUME NEW m \in Seq(Line), NEW S, S \subseteq DOMAIN m, NEW at, at = Ascending(S)
  PROVE  /\ Len(at) \in Nat
         /\ DOMAIN at = 1..Len(at)
         /\ \A k \in 1..Len(at) : at[k] \in 1..Len(m)
         /\ \A k, l \in 1..Len(at) : k < l => at[k] < at[l]
<1>1. PICK n \in Nat : n = Len(m) /\ DOMAIN m = 1..n
  BY LenProperties
<1>2. S \in SUBSET (1..n)
  BY <1>1
<1>3. \A k \in 1..Len(Ascending(S)) : Ascending(S)[k] \in 1..n
  BY <1>2, AscendingIs
<1> QED
  BY <1>1, <1>2, <1>3, AscendingIs

LEMMA CutsIncrease ==
  ASSUME NEW m \in Seq(Line), NEW level
  PROVE  /\ Len(Cuts(m, level)) \in Nat
         /\ DOMAIN Cuts(m, level) = 1..Len(Cuts(m, level))
         /\ \A k \in 1..Len(Cuts(m, level)) : Cuts(m, level)[k] \in 1..Len(m)
         /\ \A k, l \in 1..Len(Cuts(m, level)) : k < l => Cuts(m, level)[k] < Cuts(m, level)[l]
<1>1. PICK S : S = {i \in DOMAIN m :
                  m[i].words # <<>> /\ \E h \in DOMAIN m : m[h].level = level /\ m[h].words = m[i].words}
  OBVIOUS
<1>2. S \subseteq DOMAIN m
  BY <1>1
<1>3. Cuts(m, level) = Ascending(S)
  BY <1>1 DEF Cuts
<1> QED
  BY <1>2, <1>3, PlacesIncrease

LEMMA HeadingsIncrease ==
  ASSUME NEW m \in Seq(Line), NEW level
  PROVE  /\ Len(Headings(m, level)) \in Nat
         /\ DOMAIN Headings(m, level) = 1..Len(Headings(m, level))
         /\ \A k \in 1..Len(Headings(m, level)) : Headings(m, level)[k] \in 1..Len(m)
<1>1. PICK S : S = {i \in DOMAIN m : m[i].level = level}
  OBVIOUS
<1>2. S \subseteq DOMAIN m
  BY <1>1
<1>3. Headings(m, level) = Ascending(S)
  BY <1>1 DEF Headings
<1> QED
  BY <1>2, <1>3, PlacesIncrease

-----------------------------------------------------------------------------
(* Chapters.                                                               *)

\* A stretch of lines, and where its words stand among the file's.
LEMMA Segment ==
  ASSUME NEW m \in Seq(Line), NEW from \in 1..(Len(m) + 1), NEW to \in (from - 1)..Len(m),
         NEW x, x = Words(SubSeq(m, from, to))
  PROVE  /\ SubSeq(m, from, to) \in Seq(Line) /\ x \in Seq(Nat) /\ Words(m) \in Seq(Nat)
         /\ Offset(m, from) \in Nat /\ Offset(m, to + 1) \in Nat
         /\ Offset(m, to + 1) = Offset(m, from) + Len(x)
         /\ Offset(m, to + 1) <= Len(Words(m))
         /\ \A i \in 1..Len(x) : Words(m)[Offset(m, from) + i] = x[i]
<1>1. PICK n \in Nat : n = Len(m) /\ \A i \in 1..n : m[i] \in Line
  BY LenProperties, ElementOfSeq
<1>2. \A i, j \in Int : 1 <= i /\ j <= n => SubSeq(m, i, j) \in Seq(Line)
  <2> TAKE i, j \in Int
  <2> HAVE 1 <= i /\ j <= n
  <2>1. \A k \in i..j : m[k] \in Line
    BY <1>1
  <2> QED
    BY <2>1, SubSeqProperties
<1>3. PICK a \in Seq(Line), b \in Seq(Line), c \in Seq(Line), ab \in Seq(Line) :
          /\ a = SubSeq(m, 1, from - 1) /\ b = SubSeq(m, from, to) /\ c = SubSeq(m, to + 1, n)
          /\ ab = SubSeq(m, 1, to)
  <2>1. from \in Int /\ to \in Int /\ 1 <= from /\ from - 1 <= n /\ to <= n /\ 1 <= to + 1
    BY <1>1
  <2>2. SubSeq(m, 1, from - 1) \in Seq(Line)
    BY <1>2, <2>1
  <2>3. SubSeq(m, from, to) \in Seq(Line)
    BY <1>2, <2>1
  <2>4. SubSeq(m, to + 1, n) \in Seq(Line)
    BY <1>2, <2>1
  <2>5. SubSeq(m, 1, to) \in Seq(Line)
    BY <1>2, <2>1
  <2> QED
    BY <2>2, <2>3, <2>4, <2>5
<1>4. ab = a \o b
  <2>1. 1 \in 1..(Len(m) + 1) /\ from - 1 \in (1 - 1)..Len(m) /\ to \in (from - 1)..Len(m)
    BY <1>1
  <2>2. SubSeq(m, 1, from - 1) \o SubSeq(m, (from - 1) + 1, to) = SubSeq(m, 1, to)
    BY <2>1, ConcatAdjacentSubSeq
  <2>3. (from - 1) + 1 = from
    OBVIOUS
  <2> QED
    BY <1>3, <2>2, <2>3
<1>5. m = ab \o c
  <2>1. 1 \in 1..(Len(m) + 1) /\ to \in (1 - 1)..Len(m) /\ n \in to..Len(m)
    BY <1>1
  <2>2. SubSeq(m, 1, to) \o SubSeq(m, to + 1, n) = SubSeq(m, 1, n)
    BY <2>1, ConcatAdjacentSubSeq
  <2>3. SubSeq(m, 1, n) = m
    BY <1>1, SubSeqFull
  <2> QED
    BY <1>3, <2>2, <2>3
<1>6. PICK T : T = Nat
  OBVIOUS
<1>7. PICK wa \in Seq(T), wc \in Seq(T), wab \in Seq(T), w \in Seq(T) :
          wa = Words(a) /\ wc = Words(c) /\ wab = Words(ab) /\ w = Words(m)
  <2>1. Words(a) \in Seq(T)
    BY <1>6, WordsType
  <2>2. Words(c) \in Seq(T)
    BY <1>6, WordsType
  <2>3. Words(ab) \in Seq(T)
    BY <1>6, WordsType
  <2>4. Words(m) \in Seq(T)
    BY <1>6, WordsType
  <2> QED
    BY <2>1, <2>2, <2>3, <2>4
<1>8. x \in Seq(T) /\ x = Words(b)
  BY <1>3, <1>6, WordsType
<1>9. wab = wa \o x /\ w = wab \o wc
  <2>1. Words(a \o b) = Words(a) \o Words(b) /\ Words(ab \o c) = Words(ab) \o Words(c)
    BY <1>4, WordsConcat
  <2> QED
    BY <1>4, <1>5, <1>7, <1>8, <2>1, Zenon
<1>10. PICK la \in Nat, lx \in Nat, lc \in Nat : la = Len(wa) /\ lx = Len(x) /\ lc = Len(wc)
  <2>1. Len(wa) \in Nat
    BY LenProperties
  <2>2. Len(wc) \in Nat
    BY LenProperties
  <2>3. Len(x) \in Nat
    BY <1>8, LenProperties
  <2> QED
    BY <2>1, <2>2, <2>3
<1>11. Len(wab) = la + lx
  BY <1>8, <1>9, <1>10, ConcatProperties
<1>12. Len(w) = la + lx + lc
  BY <1>9, <1>10, <1>11, ConcatProperties
<1>13. Offset(m, from) = la /\ Offset(m, to + 1) = la + lx
  <2>1. Offset(m, from) = la
    BY <1>3, <1>7, <1>10 DEF Offset
  <2>2. (to + 1) - 1 = to
    OBVIOUS
  <2>3. Offset(m, to + 1) = Len(wab)
    BY <1>3, <1>7, <2>2 DEF Offset
  <2> QED
    BY <1>11, <2>1, <2>3
<1>14. ASSUME NEW i \in 1..lx PROVE w[la + i] = x[i]
  <2>1. la + i \in 1..(Len(wab) + Len(wc)) /\ la + i <= Len(wab) /\ la + i \in 1..(Len(wa) + Len(x)) /\ ~ (la + i <= Len(wa)) /\ (la + i) - la = i
    BY <1>10, <1>11
  <2>2. w[la + i] = wab[la + i]
    BY <1>9, <2>1, ConcatProperties
  <2>3. wab[la + i] = x[(la + i) - Len(wa)]
    BY <1>8, <1>9, <2>1, ConcatProperties
  <2> QED
    BY <1>10, <2>1, <2>2, <2>3
<1>15. Words(m) \in Seq(Nat) /\ x \in Seq(Nat)
  BY <1>6, <1>7, <1>8
<1> QED
  BY <1>3, <1>7, <1>10, <1>12, <1>13, <1>14, <1>15, SMTT(30)

From(m, level, k) == IF k = 0 THEN 1 ELSE Cuts(m, level)[k]
To(m, level, k) == IF k < Len(Cuts(m, level)) THEN Cuts(m, level)[k + 1] - 1 ELSE Len(m)

\* A chapter is a stretch of lines.
LEMMA ChapterIs ==
  ASSUME NEW m \in Seq(Line), NEW level, NEW k \in 0..Len(Cuts(m, level))
  PROVE  /\ From(m, level, k) \in 1..(Len(m) + 1)
         /\ To(m, level, k) \in (From(m, level, k) - 1)..Len(m)
         /\ SubSeq(m, From(m, level, k), To(m, level, k)) \in Seq(Line)
         /\ Chapter(m, level, k) = Texts(SubSeq(m, From(m, level, k), To(m, level, k)))
         /\ Chapter(m, level, k) \in Seq(Seq(Nat))
         /\ FlattenSeq(Chapter(m, level, k)) = Words(SubSeq(m, From(m, level, k), To(m, level, k)))
<1>0. PICK cuts : cuts = Cuts(m, level)
  OBVIOUS
<1>1. PICK n \in Nat : n = Len(m) /\ \A i \in 1..n : m[i] \in Line
  BY LenProperties, ElementOfSeq
<1>2. PICK K \in Nat : /\ K = Len(Cuts(m, level)) /\ cuts = Cuts(m, level)
                       /\ \A i \in 1..K : cuts[i] \in 1..n
                       /\ \A i, j \in 1..K : i < j => cuts[i] < cuts[j]
  BY <1>0, <1>1, CutsIncrease
<1>3. PICK from, to : from = From(m, level, k) /\ to = To(m, level, k)
  OBVIOUS
<1>4. from = IF k = 0 THEN 1 ELSE cuts[k]
  BY <1>2, <1>3 DEF From
<1>5. to = IF k < K THEN cuts[k + 1] - 1 ELSE n
  BY <1>1, <1>2, <1>3 DEF To
<1>6. k \in 0..K
  BY <1>2
<1>7. from \in 1..(n + 1) /\ (from = n + 1 => k = 0)
  BY <1>2, <1>4, <1>6
<1>8. to \in (from - 1)..n
  <2>1. CASE k < K
    <3>1. k + 1 \in 1..K /\ cuts[k + 1] \in 1..n
      BY <1>2, <1>6, <2>1
    <3>2. CASE k = 0
      BY <1>4, <1>5, <2>1, <3>1, <3>2
    <3>3. CASE k # 0
      <4>1. k \in 1..K /\ k < k + 1
        BY <1>6, <3>3
      <4>2. cuts[k] < cuts[k + 1] /\ cuts[k] \in 1..n
        BY <1>2, <3>1, <4>1
      <4> QED
        BY <1>4, <1>5, <2>1, <3>1, <3>3, <4>2
    <3> QED
      BY <3>2, <3>3
  <2>2. CASE ~ (k < K)
    <3>1. to = n
      BY <1>5, <2>2
    <3> QED
      BY <1>7, <3>1
  <2> QED
    BY <2>1, <2>2
<1>9. \A i \in from..to : m[i] \in Line
  BY <1>1, <1>7, <1>8
<1>10. PICK s \in Seq(Line) : /\ s = SubSeq(m, from, to) /\ Len(s) = to - from + 1
                                 /\ \A i \in 1..(to - from + 1) : s[i] = m[from + i - 1]
  <2>1. from \in Int /\ to \in Int /\ from <= to + 1
    BY <1>7, <1>8
  <2>2. SubSeq(m, from, to) \in Seq(Line)
    BY <1>9, <2>1, SubSeqProperties
  <2>3. Len(SubSeq(m, from, to)) = IF from <= to THEN to - from + 1 ELSE 0
    BY <1>9, <2>1, SubSeqProperties
  <2>4. Len(SubSeq(m, from, to)) = to - from + 1
    BY <2>1, <2>3
  <2>5. \A i \in 1..(to - from + 1) : SubSeq(m, from, to)[i] = m[from + i - 1]
    BY <1>9, <2>1, SubSeqProperties
  <2> QED
    BY <2>2, <2>4, <2>5
<1>11. DOMAIN s = 1..(to - from + 1)
  BY <1>10, LenProperties
<1>12. [i \in 1..(to - from + 1) |-> m[from + i - 1].words] = [i \in DOMAIN s |-> s[i].words]
  BY <1>10, <1>11
<1>13. Chapter(m, level, k) = Texts(s)
  <2>1. Chapter(m, level, k) = [i \in 1..(to - from + 1) |-> m[from + i - 1].words]
    BY <1>1, <1>2, <1>4, <1>5 DEF Chapter
  <2> QED
    BY <1>12, <2>1 DEF Texts
<1>14. Texts(s) \in Seq(Seq(Nat))
  BY WordsType
<1>15. FlattenSeq(Texts(s)) = Words(s)
  BY WordsType
<1> QED
  BY <1>1, <1>3, <1>7, <1>8, <1>10, <1>13, <1>14, <1>15

-----------------------------------------------------------------------------
(* Chunks.                                                                 *)

LEMMA AddParagraphType ==
  ASSUME NEW T, NEW out \in Seq(Seq(T)), NEW p \in Seq(T)
  PROVE  AddParagraph(out, p) \in Seq(Seq(T))
<1>1. CASE out = <<>>
  <2>1. Append(out, p) \in Seq(Seq(T))
    BY AppendProperties
  <2> QED
    BY <1>1, <2>1 DEF AddParagraph
<1>2. CASE out # <<>>
  <2>1. PICK n \in Nat : n = Len(out) /\ n >= 1
    BY <1>2, LenProperties, EmptySeq
  <2>2. Append(out, p) \in Seq(Seq(T))
    BY AppendProperties
  <2>3. Last(out) \in Seq(T)
    BY <2>1, ElementOfSeq DEF Last
  <2>4. Last(out) \o p \in Seq(T)
    BY <2>3, ConcatProperties
  <2>5. Front(out) \in Seq(Seq(T))
    <3>1. \A i \in 1..(n - 1) : out[i] \in Seq(T)
      BY <2>1, ElementOfSeq
    <3>2. 1 \in Int /\ n - 1 \in Int
      OBVIOUS
    <3>3. SubSeq(out, 1, n - 1) \in Seq(Seq(T))
      BY <3>1, <3>2, SubSeqProperties
    <3> QED
      BY <2>1, <3>3 DEF Front
  <2>6. Append(Front(out), Last(out) \o p) \in Seq(Seq(T))
    BY <2>4, <2>5, AppendProperties
  <2> QED
    BY <2>2, <2>6 DEF AddParagraph
<1> QED
  BY <1>1, <1>2

LEMMA SplitLongType ==
  ASSUME NEW paras \in Seq(Seq(Nat))
  PROVE  /\ SplitLong(paras) \in Seq(Seq(Nat))
         /\ Len(FlattenSeq(paras)) <= MaxInput => SplitLong(paras) = <<FlattenSeq(paras)>>
<1>1. PICK n \in Nat : n = Len(paras) /\ \A i \in 1..n : paras[i] \in Seq(Nat)
  BY LenProperties, ElementOfSeq
<1>2. PICK S : S = Seq(Seq(Nat))
  OBVIOUS
<1>3. PICK base \in S : base = <<>>
  BY <1>2, EmptySeq
<1>4. \A i \in 1..n, s \in S : AddParagraph(s, paras[i]) \in S
  BY <1>1, <1>2, AddParagraphType
<1>5. PICK step \in [1..n -> [S -> S]] : \A i \in 1..n, s \in S : step[i][s] = AddParagraph(s, paras[i])
  <2> DEFINE st == [i \in 1..n |-> [s \in S |-> AddParagraph(s, paras[i])]]
  <2>1. st \in [1..n -> [S -> S]]
    BY <1>4
  <2>2. \A i \in 1..n, s \in S : st[i][s] = AddParagraph(s, paras[i])
    OBVIOUS
  <2> HIDE DEF st
  <2> QED
    BY <2>1, <2>2
<1>6. PICK f : Iterates(f, S, base, n, step)
  BY Recursion
<1>7. f \in [0..n -> S] /\ f[0] = base /\ \A i \in 1..n : f[i] = step[i][f[i - 1]]
  BY <1>6 DEF Iterates
<1>8. \A i \in 1..n : f[i] = AddParagraph(f[i - 1], paras[i])
  <2>1. \A i \in 1..n : f[i - 1] \in S
    BY <1>7
  <2> QED
    BY <1>5, <1>7, <2>1
<1> DEFINE out == CHOOSE g : g = [i \in 0..n |-> IF i = 0 THEN <<>> ELSE AddParagraph(g[i - 1], paras[i])]
<1>9. SplitLong(paras) = IF Len(FlattenSeq(paras)) <= MaxInput THEN <<FlattenSeq(paras)>> ELSE out[n]
  BY <1>1 DEF SplitLong
<1>10. \E g : g = [i \in 0..n |-> IF i = 0 THEN <<>> ELSE AddParagraph(g[i - 1], paras[i])]
  <2>1. \A i \in 0..n : f[i] = IF i = 0 THEN <<>> ELSE AddParagraph(f[i - 1], paras[i])
    BY <1>3, <1>7, <1>8
  <2>2. f = [i \in 0..n |-> IF i = 0 THEN <<>> ELSE AddParagraph(f[i - 1], paras[i])]
    BY <1>7, <2>1
  <2> QED
    BY <2>2
<1>11. out = [i \in 0..n |-> IF i = 0 THEN <<>> ELSE AddParagraph(out[i - 1], paras[i])]
  BY <1>10
<1> HIDE DEF out
<1>12. out[n] \in S
  <2> DEFINE I == {i \in 0..n : out[i] \in S}
  <2>1. 0 \in I
    BY <1>3, <1>11
  <2>2. ASSUME NEW i \in 1..n, i - 1 \in I PROVE i \in I
    <3>1. out[i] = AddParagraph(out[i - 1], paras[i]) /\ i \in 0..n
      BY <1>11
    <3>2. out[i - 1] \in S
      BY <2>2
    <3> QED
      BY <1>4, <3>1, <3>2
  <2>3. n \in I
    <3>1. n \in 0..n
      OBVIOUS
    <3> HIDE DEF I
    <3> QED
      BY <2>1, <2>2, <3>1, SetInduction
  <2> QED
    BY <2>3
<1>13. <<FlattenSeq(paras)>> \in Seq(Seq(Nat))
  <2>1. FlattenSeq(paras) \in Seq(Nat)
    BY FlattenType
  <2> QED
    BY <2>1
<1> QED
  BY <1>2, <1>9, <1>12, <1>13

\* A paragraph more: the words of the parts are those of the paragraphs.
LEMMA AddParagraphFlat ==
  ASSUME NEW out \in Seq(Seq(Nat)), NEW p \in Seq(Nat)
  PROVE  FlattenSeq(AddParagraph(out, p)) = FlattenSeq(out) \o p
<1>1. FlattenSeq(Append(out, p)) = FlattenSeq(out) \o p
  BY FlattenAppend
<1>2. ASSUME out # <<>> PROVE FlattenSeq(Append(Front(out), Last(out) \o p)) = FlattenSeq(out) \o p
  <2>1. PICK u \in Seq(Seq(Nat)), e \in Seq(Nat) : out = Append(u, e)
    BY <1>2, SequenceEmptyOrAppend
  <2>2. PICK n \in Nat : n = Len(u) /\ Len(out) = n + 1
    BY <2>1, AppendProperties, LenProperties
  <2>3. Front(out) = u /\ Last(out) = e
    <3>1. Last(out) = out[n + 1] /\ Front(out) = SubSeq(out, 1, n)
      BY <2>2 DEF Front, Last
    <3>2. out[n + 1] = e /\ \A i \in 1..n : out[i] = u[i]
      BY <2>1, <2>2, AppendProperties
    <3>3. \A i \in 1..n : out[i] \in Seq(Nat)
      BY <2>2, ElementOfSeq
    <3>4. 1 \in Int /\ n \in Int /\ n - 1 + 1 = n
      OBVIOUS
    <3>5. SubSeq(out, 1, n) \in Seq(Seq(Nat)) /\ \A i \in 1..n : SubSeq(out, 1, n)[i] = out[i]
      <4>1. \A i \in 1..(n - 1 + 1) : SubSeq(out, 1, n)[i] = out[1 + i - 1]
        BY <3>3, <3>4, SubSeqProperties
      <4>2. \A i \in 1..n : 1 + i - 1 = i
        OBVIOUS
      <4>3. SubSeq(out, 1, n) \in Seq(Seq(Nat))
        BY <3>3, <3>4, SubSeqProperties
      <4> QED
        BY <3>4, <4>1, <4>2, <4>3
    <3>6. Len(SubSeq(out, 1, n)) = n
      <4>1. Len(SubSeq(out, 1, n)) = IF 1 <= n THEN n - 1 + 1 ELSE 0
        BY <3>3, <3>4, SubSeqProperties
      <4> QED
        BY <4>1
    <3>7. SubSeq(out, 1, n) = u
      BY <2>2, <3>2, <3>5, <3>6, SeqEqual
    <3> QED
      BY <3>1, <3>2, <3>7
  <2>4. PICK w \in Seq(Nat), ep \in Seq(Nat) : w = FlattenSeq(u) /\ ep = e \o p
    <3>1. FlattenSeq(u) \in Seq(Nat)
      BY FlattenType
    <3>2. e \o p \in Seq(Nat)
      BY ConcatProperties
    <3> QED
      BY <3>1, <3>2
  <2>5. FlattenSeq(Append(u, ep)) = w \o ep /\ FlattenSeq(out) = w \o e
    BY <2>1, <2>4, FlattenAppend
  <2>6. w \o (e \o p) = (w \o e) \o p
    BY Regrouped
  <2> QED
    BY <2>3, <2>4, <2>5, <2>6
<1> QED
  BY <1>1, <1>2 DEF AddParagraph

\* Parts cut a chapter between paragraphs: its words are theirs, in order.
LEMMA SplitLongFlat ==
  ASSUME NEW paras \in Seq(Seq(Nat))
  PROVE  FlattenSeq(SplitLong(paras)) = FlattenSeq(paras)
<1>1. PICK n \in Nat : n = Len(paras) /\ \A i \in 1..n : paras[i] \in Seq(Nat)
  BY LenProperties, ElementOfSeq
<1>2. PICK f : Iterates(f, Seq(Seq(Nat)), <<>>, n, [i \in 1..n |-> [s \in Seq(Seq(Nat)) |-> AddParagraph(s, paras[i])]])
  <2>1. [i \in 1..n |-> [s \in Seq(Seq(Nat)) |-> AddParagraph(s, paras[i])]] \in [1..n -> [Seq(Seq(Nat)) -> Seq(Seq(Nat))]]
    BY <1>1, AddParagraphType
  <2>2. <<>> \in Seq(Seq(Nat))
    BY EmptySeq
  <2> QED
    BY <2>1, <2>2, Recursion
<1>3. /\ f \in [0..n -> Seq(Seq(Nat))] /\ f[0] = <<>>
      /\ \A i \in 1..n : f[i - 1] \in Seq(Seq(Nat)) /\ f[i] = AddParagraph(f[i - 1], paras[i])
  <2>1. f \in [0..n -> Seq(Seq(Nat))] /\ f[0] = <<>>
    BY <1>2 DEF Iterates
  <2>2. \A i \in 1..n : f[i - 1] \in Seq(Seq(Nat))
    BY <2>1
  <2>3. \A i \in 1..n : f[i] = AddParagraph(f[i - 1], paras[i])
    BY <1>2, <2>2 DEF Iterates
  <2> QED
    BY <2>1, <2>2, <2>3
<1> DEFINE out == CHOOSE g : g = [i \in 0..n |-> IF i = 0 THEN <<>> ELSE AddParagraph(g[i - 1], paras[i])]
<1>4. SplitLong(paras) = IF Len(FlattenSeq(paras)) <= MaxInput THEN <<FlattenSeq(paras)>> ELSE out[n]
  BY <1>1 DEF SplitLong
<1>5. out = [i \in 0..n |-> IF i = 0 THEN <<>> ELSE AddParagraph(out[i - 1], paras[i])]
  <2>1. \A i \in 0..n : f[i] = IF i = 0 THEN <<>> ELSE AddParagraph(f[i - 1], paras[i])
    BY <1>3
  <2>2. f = [i \in 0..n |-> IF i = 0 THEN <<>> ELSE AddParagraph(f[i - 1], paras[i])]
    BY <1>3, <2>1
  <2> QED
    BY <2>2
<1> HIDE DEF out
<1>6. PICK w \in [0..n -> Seq(Nat)] : w[0] = <<>> /\ \A i \in 1..n : w[i] = w[i - 1] \o paras[i]
  BY <1>1, FlattenPrefixes
<1>7. FlattenSeq(paras) = w[n]
  BY <1>1, <1>6, FlattenIs
<1>8. \A i \in 0..n : out[i] \in Seq(Seq(Nat)) /\ FlattenSeq(out[i]) = w[i]
  <2> DEFINE Ok(i) == out[i] \in Seq(Seq(Nat)) /\ FlattenSeq(out[i]) = w[i]
             I == {i \in 0..n : Ok(i)}
  <2>1. 0 \in I
    <3>1. out[0] = <<>> /\ 0 \in 0..n
      BY <1>5
    <3>2. <<>> \in Seq(Seq(Nat)) /\ FlattenSeq(<<>>) = <<>>
      BY EmptySeq, FlattenEmpty
    <3> QED
      BY <1>6, <3>1, <3>2
  <2>2. ASSUME NEW i \in 1..n, i - 1 \in I PROVE i \in I
    <3>1. out[i] = AddParagraph(out[i - 1], paras[i]) /\ i \in 0..n
      BY <1>5
    <3>2. PICK s \in Seq(Seq(Nat)) : s = out[i - 1] /\ FlattenSeq(s) = w[i - 1]
      BY <2>2
    <3>3. PICK q \in Seq(Nat) : q = paras[i]
      BY <1>1
    <3>4. AddParagraph(s, q) \in Seq(Seq(Nat)) /\ FlattenSeq(AddParagraph(s, q)) = FlattenSeq(s) \o q
      BY AddParagraphType, AddParagraphFlat
    <3>5. w[i] = w[i - 1] \o q
      BY <1>6, <3>3
    <3> QED
      BY <3>1, <3>2, <3>3, <3>4, <3>5
  <2>3. \A i \in 0..n : i \in I
    <3> HIDE DEF I
    <3> QED
      BY <2>1, <2>2, SetInduction
  <2> QED
    BY <2>3
<1>9. FlattenSeq(out[n]) = w[n]
  <2>1. n \in 0..n
    OBVIOUS
  <2> QED
    BY <1>8, <2>1
<1>10. FlattenSeq(<<FlattenSeq(paras)>>) = FlattenSeq(paras)
  <2>1. PICK x \in Seq(Nat) : x = FlattenSeq(paras)
    BY FlattenType
  <2>2. <<x>> = Append(<<>>, x) /\ <<>> \in Seq(Seq(Nat))
    OBVIOUS
  <2>3. FlattenSeq(Append(<<>>, x)) = FlattenSeq(<<>>) \o x
    BY <2>2, FlattenAppend
  <2>4. <<>> \o x = x
    BY ConcatEmptySeq
  <2> QED
    BY <2>1, <2>2, <2>3, <2>4, FlattenEmpty
<1> QED
  BY <1>4, <1>7, <1>9, <1>10

Chunk == [home: Nat, words: Seq(Nat)]

\* The chunks of one chapter.
ChunksOf(m, level, k) ==
  LET paras == Chapter(m, level, k) IN
  IF Len(FlattenSeq(paras)) < MinChunk THEN <<>>
  ELSE LET split == SplitLong(paras) IN [j \in DOMAIN split |-> [home |-> k, words |-> split[j]]]

LEMMA ChunksOfType ==
  ASSUME NEW m \in Seq(Line), NEW level, NEW k \in 0..Len(Cuts(m, level))
  PROVE  /\ ChunksOf(m, level, k) \in Seq(Chunk)
         /\ LET words == FlattenSeq(Chapter(m, level, k)) IN
            Len(words) <= MaxInput =>
              ChunksOf(m, level, k) = IF Len(words) < MinChunk THEN <<>> ELSE <<[home |-> k, words |-> words]>>
<1>1. PICK paras \in Seq(Seq(Nat)) : paras = Chapter(m, level, k)
  BY ChapterIs
<1>2. PICK split \in Seq(Seq(Nat)) : split = SplitLong(paras)
  BY SplitLongType
<1>3. PICK n \in Nat : DOMAIN split = 1..n /\ \A j \in 1..n : split[j] \in Seq(Nat)
  BY LenProperties, ElementOfSeq
<1>4. k \in Nat
  BY CutsIncrease
<1> DEFINE tagged == [j \in DOMAIN split |-> [home |-> k, words |-> split[j]]]
<1>5. tagged \in [1..n -> Chunk]
  BY <1>3, <1>4 DEF Chunk
<1>6. ChunksOf(m, level, k) = IF Len(FlattenSeq(paras)) < MinChunk THEN <<>> ELSE tagged
  BY <1>1, <1>2 DEF ChunksOf
<1>7. tagged \in Seq(Chunk)
  <2> HIDE DEF tagged
  <2> QED
    BY <1>5, SeqDef
<1>8. ASSUME Len(FlattenSeq(paras)) <= MaxInput PROVE tagged = <<[home |-> k, words |-> FlattenSeq(paras)]>>
  <2>1. split = <<FlattenSeq(paras)>>
    BY <1>2, <1>8, SplitLongType
  <2> QED
    BY <2>1
<1>9. <<>> \in Seq(Chunk)
  BY EmptySeq
<1> HIDE DEF tagged
<1> QED
  BY <1>1, <1>6, <1>7, <1>8, <1>9

LEMMA ChunksType ==
  ASSUME NEW m \in Seq(Line), NEW level
  PROVE  /\ [k \in 1..(Len(Cuts(m, level)) + 1) |-> ChunksOf(m, level, k - 1)] \in Seq(Seq(Chunk))
         /\ Chunks(m, level) = FlattenSeq([k \in 1..(Len(Cuts(m, level)) + 1) |-> ChunksOf(m, level, k - 1)])
         /\ Chunks(m, level) \in Seq(Chunk)
<1>1. PICK K \in Nat : K = Len(Cuts(m, level))
  BY CutsIncrease
<1>2. PICK all : all = [k \in 1..(K + 1) |-> ChunksOf(m, level, k - 1)]
  OBVIOUS
<1>3. \A k \in 1..(K + 1) : ChunksOf(m, level, k - 1) \in Seq(Chunk)
  <2> TAKE k \in 1..(K + 1)
  <2>1. k - 1 \in 0..Len(Cuts(m, level))
    BY <1>1
  <2> QED
    BY <2>1, ChunksOfType
<1>4. all \in [1..(K + 1) -> Seq(Chunk)]
  BY <1>2, <1>3
<1>5. all \in Seq(Seq(Chunk))
  <2>1. K + 1 \in Nat
    OBVIOUS
  <2> QED
    BY <1>4, <2>1, SeqDef
<1>6. Chunks(m, level) = FlattenSeq([k \in 1..(Len(Cuts(m, level)) + 1) |-> ChunksOf(m, level, k - 1)])
  BY DEF Chunks, ChunksOf
<1>7. FlattenSeq(all) \in Seq(Chunk)
  BY <1>5, FlattenType
<1> QED
  BY <1>1, <1>2, <1>5, <1>6, <1>7

\* A chunk is a stretch of the file, wherever the lines are that it was cut at.
LEMMA ChunksWithin ==
  ASSUME NEW m \in Seq(Line), NEW level
  PROVE  \A n \in DOMAIN Chunks(m, level) : Within(Chunks(m, level)[n].words, Words(m))
<1> DEFINE T == {c \in Chunk : Within(c.words, Words(m))}
<1>1. PICK K \in Nat : K = Len(Cuts(m, level))
  BY CutsIncrease
<1>2. ASSUME NEW k \in 0..K PROVE ChunksOf(m, level, k) \in Seq(T)
  <2>1. PICK paras \in Seq(Seq(Nat)) : paras = Chapter(m, level, k)
    BY <1>1, ChapterIs
  <2>2. PICK split \in Seq(Seq(Nat)) : split = SplitLong(paras)
    BY SplitLongType
  <2>3. PICK n \in Nat : DOMAIN split = 1..n /\ \A j \in 1..n : split[j] \in Seq(Nat)
    BY LenProperties, ElementOfSeq
  <2>4. PICK x \in Seq(Nat) : x = FlattenSeq(paras)
    BY FlattenType
  <2>5. \A j \in 1..n : Within(split[j], x)
    <3>1. FlattenSeq(split) = x
      BY <2>2, <2>4, SplitLongFlat
    <3> QED
      BY <2>3, <3>1, PartsWithin
  <2>6. Within(x, Words(m)) /\ Words(m) \in Seq(Nat)
    <3>1. PICK from, to : from = From(m, level, k) /\ to = To(m, level, k)
      OBVIOUS
    <3>2. from \in 1..(Len(m) + 1) /\ to \in (from - 1)..Len(m) /\ x = Words(SubSeq(m, from, to))
      BY <1>1, <2>1, <2>4, <3>1, ChapterIs
    <3>3. Offset(m, from) \in Nat /\ Offset(m, to + 1) = Offset(m, from) + Len(x) /\ Words(m) \in Seq(Nat)
      BY <3>2, Segment
    <3>4. Offset(m, to + 1) <= Len(Words(m))
      BY <3>2, Segment
    <3>5. \A i \in 1..Len(x) : Words(m)[Offset(m, from) + i] = x[i]
      BY <3>2, Segment, SMTT(60)
    <3>6. PICK lo \in Nat : lo = Offset(m, from)
      BY <3>3
    <3> QED
      BY <3>3, <3>4, <3>5, <3>6 DEF Within
  <2>7. \A j \in 1..n : [home |-> k, words |-> split[j]] \in T
    <3> TAKE j \in 1..n
    <3>1. Within(split[j], Words(m)) /\ split[j] \in Seq(Nat)
      BY <2>3, <2>5, <2>6, WithinTrans
    <3>2. [home |-> k, words |-> split[j]] \in Chunk /\ [home |-> k, words |-> split[j]].words = split[j]
      BY <3>1 DEF Chunk
    <3> QED
      BY <3>1, <3>2
  <2>8. [j \in DOMAIN split |-> [home |-> k, words |-> split[j]]] \in Seq(T)
    <3> DEFINE tagged == [j \in DOMAIN split |-> [home |-> k, words |-> split[j]]]
    <3>1. tagged \in [1..n -> T]
      BY <2>3, <2>7
    <3> HIDE DEF tagged, T
    <3> QED
      BY <3>1, SeqDef DEF tagged
  <2>9. <<>> \in Seq(T)
    BY EmptySeq
  <2> HIDE DEF T
  <2> QED
    BY <2>1, <2>2, <2>8, <2>9 DEF ChunksOf
<1>3. [k \in 1..(K + 1) |-> ChunksOf(m, level, k - 1)] \in Seq(Seq(T))
  <2>1. [k \in 1..(K + 1) |-> ChunksOf(m, level, k - 1)] \in [1..(K + 1) -> Seq(T)]
    <3>1. \A k \in 1..(K + 1) : ChunksOf(m, level, k - 1) \in Seq(T)
      <4> TAKE k \in 1..(K + 1)
      <4>1. k - 1 \in 0..K
        OBVIOUS
      <4> HIDE DEF T
      <4> QED
        BY <1>2, <4>1
    <3> QED
      BY <3>1
  <2>2. K + 1 \in Nat
    OBVIOUS
  <2> HIDE DEF T
  <2> QED
    BY <2>1, <2>2, SeqDef
<1>4. Chunks(m, level) \in Seq(T)
  <2> HIDE DEF T
  <2> QED
    BY <1>1, <1>3, ChunksType, FlattenType
<1>5. \A n \in DOMAIN Chunks(m, level) : Chunks(m, level)[n] \in T
  <2> HIDE DEF T
  <2> QED
    BY <1>4, LenProperties, ElementOfSeq
<1> QED
  BY <1>5

-----------------------------------------------------------------------------
(* Bounds and ranges.                                                      *)

\* Where the chunks start and end.
CutBounds(m, level, b) ==
  /\ Words(m) \in Seq(Nat) /\ Len(Words(m)) \in Nat
  /\ Len(b) = Len(Cuts(m, level)) /\ Len(b) \in Nat /\ DOMAIN b = 1..Len(b)
  /\ \A k \in 1..Len(b) : b[k] \in 0..Len(Words(m)) /\ b[k] = Offset(m, From(m, level, k))
  /\ \A k, l \in 1..Len(b) : k <= l => b[k] <= b[l]
  /\ \A k \in 0..Len(b) : Offset(m, To(m, level, k) + 1) = IF k < Len(b) THEN b[k + 1] ELSE Len(Words(m))
  /\ Offset(m, From(m, level, 0)) = 0

LEMMA BoundsOf ==
  ASSUME NEW m \in Seq(Line), NEW level,
         NEW b, b = [k \in DOMAIN Cuts(m, level) |-> Offset(m, Cuts(m, level)[k])]
  PROVE  CutBounds(m, level, b)
<1>0. PICK cuts : cuts = Cuts(m, level)
  OBVIOUS
<1>1. PICK n \in Nat : n = Len(m)
  BY LenProperties
<1>2. PICK K \in Nat : /\ K = Len(Cuts(m, level)) /\ cuts = Cuts(m, level) /\ DOMAIN cuts = 1..K
                       /\ \A i \in 1..K : cuts[i] \in 1..n
                       /\ \A i, j \in 1..K : i < j => cuts[i] < cuts[j]
  BY <1>0, <1>1, CutsIncrease
<1>3. \A from \in 1..(n + 1) : Offset(m, from) \in Nat
  <2> TAKE from \in 1..(n + 1)
  <2>1. from - 1 \in (from - 1)..Len(m) /\ from \in 1..(Len(m) + 1)
    BY <1>1
  <2> QED
    BY <2>1, Segment
<1>4. \A from \in 1..(n + 1), to \in 0..n : from <= to + 1 => Offset(m, from) <= Offset(m, to + 1)
  <2> SUFFICES ASSUME NEW from \in 1..(n + 1), NEW to \in 0..n, from <= to + 1
               PROVE  Offset(m, from) <= Offset(m, to + 1)
    OBVIOUS
  <2>1. to \in (from - 1)..Len(m) /\ from \in 1..(Len(m) + 1)
    BY <1>1
  <2>2. PICK x : x = Words(SubSeq(m, from, to))
    OBVIOUS
  <2>3. Offset(m, to + 1) = Offset(m, from) + Len(x) /\ x \in Seq(Nat)
    BY <2>1, <2>2, Segment
  <2>4. Len(x) \in Nat
    BY <2>3, LenProperties
  <2>5. Offset(m, from) \in Nat
    BY <1>3
  <2> QED
    BY <2>3, <2>4, <2>5
<1>5. PICK w \in Nat : w = Len(Words(m)) /\ Words(m) \in Seq(Nat)
  BY WordsType, LenProperties
<1>6. Offset(m, n + 1) = w
  <2>1. SubSeq(m, 1, n) = m
    BY <1>1, SubSeqFull
  <2>2. (n + 1) - 1 = n
    OBVIOUS
  <2> QED
    BY <1>5, <2>1, <2>2 DEF Offset
<1>7. Offset(m, 1) = 0
  <2>1. SubSeq(m, 1, 0) = <<>>
    BY SubSeqEmpty
  <2>2. Words(<<>>) = <<>>
    BY FlattenEmpty DEF Words
  <2>3. 1 - 1 = 0 /\ Len(<<>>) = 0
    OBVIOUS
  <2> QED
    BY <2>1, <2>2, <2>3 DEF Offset
<1>8. b = [k \in 1..K |-> Offset(m, cuts[k])]
  BY <1>2
<1>9. \A k \in 1..K : b[k] = Offset(m, cuts[k]) /\ b[k] \in 0..w
  <2> TAKE k \in 1..K
  <2>1. cuts[k] \in 1..n /\ cuts[k] \in 1..(n + 1) /\ n \in 0..n /\ cuts[k] <= n + 1
    BY <1>2
  <2>2. Offset(m, cuts[k]) <= Offset(m, n + 1)
    BY <1>4, <2>1
  <2>3. Offset(m, cuts[k]) \in Nat
    BY <1>3, <2>1
  <2> QED
    BY <1>6, <1>8, <2>2, <2>3
<1>10. b \in [1..K -> 0..w]
  BY <1>8, <1>9
<1>11. Len(b) = K /\ DOMAIN b = 1..K
  BY <1>10, SeqDef, LenProperties
<1>12. ASSUME NEW k \in 1..K, NEW l \in 1..K, k <= l PROVE b[k] <= b[l]
  <2>1. CASE k = l
    <3>0. b[l] \in 0..w
      BY <1>9, Zenon
    <3>1. PICK x \in Nat : x = b[l]
      BY <3>0
    <3>2. b[k] = b[l]
      BY <2>1
    <3> QED
      BY <3>1, <3>2
  <2>2. CASE k < l
    <3>1. cuts[k] < cuts[l] /\ cuts[k] \in 1..n /\ cuts[l] \in 1..n
      BY <1>2, <2>2
    <3>2. cuts[k] \in 1..(n + 1) /\ cuts[l] - 1 \in 0..n /\ cuts[k] <= (cuts[l] - 1) + 1 /\ (cuts[l] - 1) + 1 = cuts[l]
      BY <3>1
    <3>3. Offset(m, cuts[k]) <= Offset(m, cuts[l])
      BY <1>4, <3>2
    <3> QED
      BY <1>9, <3>3
  <2> QED
    BY <1>12, <2>1, <2>2
<1>13. ASSUME NEW k \in 0..K PROVE Offset(m, To(m, level, k) + 1) = IF k < K THEN b[k + 1] ELSE w
  <2>1. CASE k < K
    <3>1. k + 1 \in 1..K
      BY <2>1
    <3>2. cuts[k + 1] \in 1..n
      BY <1>2, <3>1
    <3>3. To(m, level, k) + 1 = cuts[k + 1]
      BY <1>2, <2>1, <3>2 DEF To
    <3> QED
      BY <1>9, <2>1, <3>1, <3>3
  <2>2. CASE ~ (k < K)
    BY <1>1, <1>2, <1>6, <2>2 DEF To
  <2> QED
    BY <2>1, <2>2
<1>14. \A k \in 1..K : b[k] = Offset(m, From(m, level, k))
  BY <1>2, <1>9 DEF From
<1>15. Offset(m, From(m, level, 0)) = 0
  BY <1>7 DEF From
<1> QED
  BY <1>2, <1>5, <1>9, <1>11, <1>12, <1>13, <1>14, <1>15 DEF CutBounds

\* A place in the file is an offset in its words.
LEMMA OffsetBound ==
  ASSUME NEW m \in Seq(Line), NEW i \in 1..Len(m)
  PROVE  Offset(m, i) \in 0..Len(Words(m))
<1>1. PICK n \in Nat : n = Len(m)
  BY LenProperties
<1>2. PICK x : x = Words(SubSeq(m, i, n))
  OBVIOUS
<1>3. i \in 1..(Len(m) + 1) /\ n \in (i - 1)..Len(m)
  BY <1>1
<1>4. /\ Offset(m, i) \in Nat /\ Offset(m, n + 1) = Offset(m, i) + Len(x) /\ x \in Seq(Nat)
      /\ Offset(m, n + 1) <= Len(Words(m)) /\ Words(m) \in Seq(Nat)
  BY <1>2, <1>3, Segment
<1>5. Len(x) \in Nat /\ Len(Words(m)) \in Nat
  BY <1>4, LenProperties
<1> QED
  BY <1>4, <1>5

LEMMA HeadingsBound ==
  ASSUME NEW m \in Seq(Line), NEW level,
         NEW b, b = [k \in DOMAIN Headings(m, level) |-> Offset(m, Headings(m, level)[k])]
  PROVE  \E w, K \in Nat : /\ w = Len(Words(m)) /\ K = Len(b) /\ b = [k \in 1..K |-> b[k]]
                           /\ \A k \in 1..K : b[k] \in 0..w
<1>1. PICK heads : heads = Headings(m, level)
  OBVIOUS
<1>2. PICK K \in Nat : K = Len(heads) /\ DOMAIN heads = 1..K /\ \A k \in 1..K : heads[k] \in 1..Len(m)
  BY <1>1, HeadingsIncrease
<1>3. PICK w \in Nat : w = Len(Words(m))
  BY WordsType, LenProperties
<1>4. b = [k \in 1..K |-> Offset(m, heads[k])]
  BY <1>1, <1>2
<1>5. \A k \in 1..K : b[k] \in 0..w
  <2> TAKE k \in 1..K
  <2>1. heads[k] \in 1..Len(m)
    BY <1>2
  <2>2. Offset(m, heads[k]) \in 0..Len(Words(m))
    BY <2>1, OffsetBound
  <2> QED
    BY <1>3, <1>4, <2>2
<1>6. Len(b) = K /\ b = [k \in 1..K |-> b[k]]
  <2>1. b \in [1..K -> 0..w]
    BY <1>4, <1>5
  <2> QED
    BY <1>4, <2>1, SeqDef, LenProperties
<1> QED
  BY <1>3, <1>5, <1>6

\* What is searched is part of the file.
LEMMA RangeOf ==
  ASSUME NEW m \in Seq(Line), NEW ch \in Nat
  PROVE  \E lo, hi \in Nat : ChapterRange(m, ch) = <<lo, hi>> /\ hi <= Len(Words(m))
<1>1. PICK level : level = PlaceLevel(m)
  OBVIOUS
<1>2. PICK b : b = Bounds(m) /\ b = [k \in DOMAIN Headings(m, level) |-> Offset(m, Headings(m, level)[k])]
  BY <1>1 DEF Bounds
<1>31. PICK w \in Nat, K \in Nat : /\ w = Len(Words(m)) /\ K = Len(b) /\ b = [i \in 1..K |-> b[i]]
                                   /\ \A i \in 1..K : b[i] \in 0..w
  BY <1>2, HeadingsBound
<1>3. w = Len(Words(m)) /\ K = Len(b) /\ \A i \in 1..K : b[i] \in 0..w
  BY <1>31
<1>4. b # <<>> => K >= 1
  <2>1. b \in [1..K -> 0..w]
    BY <1>31
  <2>2. b \in Seq(0..w)
    BY <2>1, SeqDef
  <2> QED
    BY <1>3, <2>2, EmptySeq
<1>5. PICK sh \in 0..1 : sh = Shift(m)
  BY DEF Shift
<1>6. PICK k \in Int : k = ch - sh
  OBVIOUS
<1>7. ChapterRange(m, ch) =
        IF k <= 0 THEN <<0, IF b = <<>> THEN w ELSE b[1]>>
        ELSE IF k > K THEN <<0, w>>
        ELSE <<b[k], IF k < K THEN b[k + 1] ELSE w>>
  BY <1>2, <1>3, <1>5, <1>6 DEF ChapterRange
<1>8. CASE k <= 0
  <2>1. PICK hi : hi = IF b = <<>> THEN w ELSE b[1]
    OBVIOUS
  <2>2. hi \in 0..w
    BY <1>3, <1>4, <2>1
  <2> QED
    BY <1>3, <1>7, <1>8, <2>1, <2>2
<1>9. CASE k > K
  BY <1>3, <1>7, <1>9
<1>10. CASE ~ (k <= 0) /\ ~ (k > K)
  <2>1. k \in 1..K /\ (k < K => k + 1 \in 1..K)
    BY <1>10
  <2>2. PICK hi : hi = IF k < K THEN b[k + 1] ELSE w
    OBVIOUS
  <2>3. hi \in 0..w
    BY <1>3, <2>1, <2>2
  <2>4. b[k] \in 0..w
    BY <1>3, <2>1
  <2> QED
    BY <1>3, <1>7, <1>10, <2>2, <2>3, <2>4
<1> QED
  BY <1>8, <1>9, <1>10

-----------------------------------------------------------------------------
(* Anchors.                                                                *)

AnchorOK(a) == a.text \in Seq(Nat) /\ Len(a.text) = AnchorWords /\ a.chapter \in Nat

LEMMA FindAnchorOK ==
  ASSUME NEW m \in Seq(Line), NEW a, AnchorOK(a), NEW r, r = FindAnchor(m, a), NEW t, t = Words(m),
         NEW lo \in Nat, NEW hi \in Nat, ChapterRange(m, a.chapter) = <<lo, hi>>
  PROVE  /\ r # 0 => \E s : RunOf(s, a.text) /\ r \in Ends(t, s, 0, Len(t))
         /\ Ends(t, a.text, 0, Len(t)) # {} => r \in Ends(t, a.text, 0, Len(t))
         /\ Ends(t, a.text, lo, hi) # {} => r \in Ends(t, a.text, lo, hi)
<1>1. t \in Seq(Nat)
  BY WordsType
<1>2. hi <= Len(t)
  <2>1. PICK l, h \in Nat : ChapterRange(m, a.chapter) = <<l, h>> /\ h <= Len(Words(m))
    BY RangeOf DEF AnchorOK
  <2>2. h = hi
    BY <2>1
  <2> QED
    BY <2>1, <2>2
<1>3. PICK f \in Seq(Nat) : f = a.text /\ Len(f) = AnchorWords
  BY DEF AnchorOK
<1>4. PICK sh : sh = Shortened(f)
  OBVIOUS
<1>5. PICK n \in Nat : DOMAIN sh = 1..n /\ n >= 1
  BY <1>3, <1>4, ShortenedOf
<1>6. sh[1] = f /\ \A i \in 1..n : RunOf(sh[i], f)
  BY <1>3, <1>4, <1>5, ShortenedOf
<1>7. \A i \in 1..n : sh[i] \in Seq(Nat) /\ Len(sh[i]) >= 1
  BY <1>3, <1>6, RunLong
<1> DEFINE tries == [i \in 1..n |-> Try(t, sh[i], lo, hi)]
           hits == {i \in 1..n : tries[i] # 0}
<1>8. r = IF hits = {} THEN 0 ELSE tries[First(hits)]
  <2>1. ChapterRange(m, a.chapter)[1] = lo /\ ChapterRange(m, a.chapter)[2] = hi
    OBVIOUS
  <2>2. [i \in DOMAIN Shortened(a.text) |-> Try(Words(m), Shortened(a.text)[i], ChapterRange(m, a.chapter)[1], ChapterRange(m, a.chapter)[2])] = tries
    BY <1>3, <1>4, <1>5, <2>1
  <2>3. DOMAIN tries = 1..n
    OBVIOUS
  <2> DEFINE u == [i \in DOMAIN Shortened(a.text) |-> Try(Words(m), Shortened(a.text)[i], ChapterRange(m, a.chapter)[1], ChapterRange(m, a.chapter)[2])]
  <2>4. FindAnchor(m, a) = IF {i \in DOMAIN u : u[i] # 0} = {} THEN 0 ELSE u[First({i \in DOMAIN u : u[i] # 0})]
    BY Zenon DEF FindAnchor
  <2>5. u = tries
    BY <2>2
  <2> HIDE DEF tries, u
  <2> QED
    BY <2>3, <2>4, <2>5
<1>9. hits \in SUBSET Nat
  OBVIOUS
<1>10. \A i \in 1..n : tries[i] = Try(t, sh[i], lo, hi)
  OBVIOUS
<1>11. \A i \in 1..n : i \in hits <=> tries[i] # 0
  OBVIOUS
<1>12. hits \subseteq 1..n
  OBVIOUS
<1> HIDE DEF tries, hits
<1>13. hits # {} => First(hits) \in hits /\ \A j \in hits : First(hits) <= j
  BY <1>9, FirstOf
<1>14. ASSUME r # 0 PROVE \E s : RunOf(s, a.text) /\ r \in Ends(t, s, 0, Len(t))
  <2>1. hits # {}
    BY <1>8, <1>14
  <2>2. PICK i \in 1..n : i = First(hits) /\ r = tries[i]
    BY <1>8, <1>12, <1>13, <2>1
  <2>3. r = Try(t, sh[i], lo, hi)
    BY <1>10, <2>2
  <2>4. r \in Ends(t, sh[i], 0, Len(t))
    BY <1>1, <1>2, <1>7, <1>14, <2>3, TryFinds
  <2> QED
    BY <1>3, <1>6, <2>4
<1>15. ASSUME Try(t, f, lo, hi) # 0 PROVE r = Try(t, f, lo, hi)
  <2>1. 1 \in 1..n
    BY <1>5
  <2>2. tries[1] = Try(t, f, lo, hi)
    BY <1>6, <1>10, <2>1
  <2>3. 1 \in hits
    BY <1>11, <1>15, <2>1, <2>2
  <2>4. First(hits) \in 1..n /\ First(hits) <= 1
    BY <1>12, <1>13, <2>3
  <2>5. First(hits) = 1
    BY <2>4
  <2> QED
    BY <1>8, <2>2, <2>3, <2>5
<1>16. /\ Try(t, f, lo, hi) # 0 => Try(t, f, lo, hi) \in Ends(t, f, 0, Len(t))
       /\ Ends(t, f, 0, Len(t)) # {} => Try(t, f, lo, hi) # 0
       /\ Ends(t, f, lo, hi) # {} => Try(t, f, lo, hi) \in Ends(t, f, lo, hi)
  <2>1. Len(f) >= 1
    BY <1>3, PlacesAssumption
  <2> QED
    BY <1>1, <1>2, <2>1, TryFinds
<1>17. Ends(t, f, lo, hi) \in SUBSET (Nat \ {0})
  <2>1. Len(f) >= 1
    BY <1>3, PlacesAssumption
  <2> QED
    BY <1>1, <1>2, <2>1, EndsOf
<1> QED
  BY <1>3, <1>14, <1>15, <1>16, <1>17

-----------------------------------------------------------------------------
(* Chapters and chunks.                                                    *)

\* The chapters of this file are its chunks, each under its heading.
OneEach(m, level) ==
  /\ Cuts(m, level) = Headings(m, level)
  /\ \A k \in 1..Len(Cuts(m, level)) :
        LET n == Len(FlattenSeq(Chapter(m, level, k))) IN n >= MinChunk /\ n <= MaxInput
  /\ Len(FlattenSeq(Chapter(m, level, 0))) <= MaxInput

Whole(m, level, h) == [home |-> h, words |-> FlattenSeq(Chapter(m, level, h))]

LEMMA ChunksInOrder ==
  ASSUME NEW m \in Seq(Line), NEW level, OneEach(m, level),
         NEW s, s = IF Len(FlattenSeq(Chapter(m, level, 0))) < MinChunk THEN 0 ELSE 1
  PROVE  /\ Len(Chunks(m, level)) = s + Len(Cuts(m, level))
         /\ \A n \in 1..(s + Len(Cuts(m, level))) : Chunks(m, level)[n] = Whole(m, level, n - s)
<1>1. PICK K \in Nat : K = Len(Cuts(m, level))
  BY CutsIncrease
<1>2. PICK all \in Seq(Seq(Chunk)) :
         /\ all = [k \in 1..(K + 1) |-> ChunksOf(m, level, k - 1)]
         /\ Chunks(m, level) = FlattenSeq(all)
  BY <1>1, ChunksType
<1>3. Len(all) = K + 1
  <2>1. DOMAIN all = 1..(K + 1) /\ DOMAIN all = 1..Len(all) /\ Len(all) \in Nat
    BY <1>2, LenProperties
  <2> QED
    BY <2>1
<1>4. PICK f \in [0..(K + 1) -> Seq(Chunk)] :
         f[0] = <<>> /\ \A i \in 1..(K + 1) : f[i] = f[i - 1] \o all[i]
  <2>1. \E f \in [0..Len(all) -> Seq(Chunk)] :
          f[0] = <<>> /\ \A i \in 1..Len(all) : f[i] = f[i - 1] \o all[i]
    BY FlattenPrefixes
  <2> QED
    BY <1>3, <2>1
<1>5. Chunks(m, level) = f[K + 1]
  <2>1. FlattenSeq(all) = f[Len(all)]
    BY <1>3, <1>4, FlattenIs
  <2> QED
    BY <1>2, <1>3, <2>1
<1>6. s \in 0..1
  OBVIOUS
<1>7. all[1] = IF s = 0 THEN <<>> ELSE <<Whole(m, level, 0)>>
  <2>1. all[1] = ChunksOf(m, level, 0)
    BY <1>2
  <2>2. 0 \in 0..Len(Cuts(m, level))
    BY <1>1
  <2>3. Len(FlattenSeq(Chapter(m, level, 0))) <= MaxInput
    BY DEF OneEach
  <2> QED
    BY <2>1, <2>2, <2>3, ChunksOfType DEF Whole
<1>8. ASSUME NEW i \in 1..K PROVE all[i + 1] = <<Whole(m, level, i)>>
  <2>1. i + 1 \in 1..(K + 1) /\ (i + 1) - 1 = i
    OBVIOUS
  <2>2. all[i + 1] = ChunksOf(m, level, i)
    BY <1>2, <2>1
  <2>3. i \in 0..Len(Cuts(m, level)) /\ i \in 1..Len(Cuts(m, level))
    BY <1>1
  <2>4. PICK l \in Nat : l = Len(FlattenSeq(Chapter(m, level, i)))
    <3>1. Chapter(m, level, i) \in Seq(Seq(Nat))
      BY <2>3, ChapterIs
    <3>2. FlattenSeq(Chapter(m, level, i)) \in Seq(Nat)
      BY <3>1, FlattenType
    <3> QED
      BY <3>2, LenProperties
  <2>5. l >= MinChunk /\ l <= MaxInput
    BY <2>3, <2>4 DEF OneEach
  <2>6. ChunksOf(m, level, i) = IF l < MinChunk THEN <<>> ELSE <<[home |-> i, words |-> FlattenSeq(Chapter(m, level, i))]>>
    BY <2>3, <2>4, <2>5, ChunksOfType
  <2>7. ~ (l < MinChunk)
    BY <2>5, PlacesAssumption
  <2> QED
    BY <2>2, <2>6, <2>7 DEF Whole
<1> DEFINE Ok(i) == Len(f[i + 1]) = s + i /\ \A n \in 1..(s + i) : f[i + 1][n] = Whole(m, level, n - s)
           I == {i \in 0..K : Ok(i)}
<1>9. 0 \in I
  <2>1. f[1] = <<>> \o all[1] /\ all[1] \in Seq(Chunk)
    <3>1. 1 \in 1..(K + 1) /\ 1 - 1 = 0
      OBVIOUS
    <3>2. all[1] \in Seq(Chunk)
      BY <1>3, <3>1, ElementOfSeq
    <3>3. f[1] = f[0] \o all[1]
      BY <1>4, <3>1
    <3> QED
      BY <1>4, <3>2, <3>3
  <2>2. f[1] = all[1]
    BY <2>1, ConcatEmptySeq
  <2>3. CASE s = 0
    <3>1. f[1] = <<>>
      BY <1>7, <2>2, <2>3
    <3>2. Len(<<>>) = 0 /\ 0 + 1 = 1 /\ s + 0 = 0 /\ 1..0 = {} /\ 0 \in 0..K
      BY <2>3
    <3>3. Ok(0)
      BY <2>3, <3>1, <3>2
    <3> HIDE DEF Ok
    <3> QED
      BY <3>2, <3>3
  <2>4. CASE s = 1
    <3>1. f[1] = <<Whole(m, level, 0)>>
      BY <1>7, <2>2, <2>4
    <3>2. PICK e : e = Whole(m, level, 0)
      OBVIOUS
    <3>3. Len(<<e>>) = 1 /\ <<e>>[1] = e /\ 0 + 1 = 1 /\ s + 0 = 1 /\ 0 \in 0..K
      BY <2>4
    <3>4. Len(f[0 + 1]) = s + 0 /\ f[0 + 1][1] = e
      BY <3>1, <3>2, <3>3
    <3>5. ASSUME NEW n \in 1..(s + 0) PROVE n = 1 /\ n - s = 0
      BY <2>4
    <3>6. Ok(0)
      BY <3>2, <3>4, <3>5
    <3> HIDE DEF Ok
    <3> QED
      BY <3>3, <3>6
  <2> QED
    BY <1>6, <2>3, <2>4
<1>10. ASSUME NEW i \in 1..K, i - 1 \in I PROVE i \in I
  <2>1. (i - 1) + 1 = i /\ i + 1 \in 1..(K + 1) /\ (i + 1) - 1 = i /\ i \in 0..(K + 1) /\ s + (i - 1) \in Nat
    BY <1>6
  <2>2. Len(f[i]) = s + (i - 1) /\ \A n \in 1..(s + (i - 1)) : f[i][n] = Whole(m, level, n - s)
    BY <1>10, <2>1
  <2>3. f[i + 1] = f[i] \o <<Whole(m, level, i)>>
    BY <1>4, <1>8, <2>1
  <2>4. PICK u, e : u = f[i] /\ e = Whole(m, level, i)
    OBVIOUS
  <2>5. u \in Seq(Chunk)
    BY <1>4, <2>1, <2>4
  <2>6. <<e>> \in Seq(Chunk)
    <3>1. all[i + 1] \in Seq(Chunk)
      BY <1>3, <2>1, ElementOfSeq
    <3> QED
      BY <1>8, <2>4, <3>1
  <2>7. Len(<<e>>) = 1 /\ <<e>>[1] = e
    OBVIOUS
  <2>8. /\ Len(u \o <<e>>) = Len(u) + 1
        /\ \A n \in 1..(Len(u) + 1) : (u \o <<e>>)[n] = IF n <= Len(u) THEN u[n] ELSE <<e>>[n - Len(u)]
    BY <2>5, <2>6, <2>7, ConcatProperties
  <2>9. Len(u) = s + (i - 1) /\ Len(u) + 1 = s + i
    BY <1>6, <2>2, <2>4
  <2>10. ASSUME NEW n \in 1..(s + i) PROVE (u \o <<e>>)[n] = Whole(m, level, n - s)
    <3>1. CASE n <= Len(u)
      <4>1. n \in 1..(s + (i - 1))
        BY <1>6, <2>9, <3>1
      <4> QED
        BY <2>2, <2>4, <2>8, <2>9, <3>1, <4>1
    <3>2. CASE ~ (n <= Len(u))
      <4>1. n - Len(u) = 1 /\ n - s = i
        BY <1>6, <2>9, <3>2
      <4>2. n \in 1..(Len(u) + 1)
        BY <2>9
      <4>3. (u \o <<e>>)[n] = <<e>>[n - Len(u)]
        BY <2>8, <3>2, <4>2
      <4> QED
        BY <2>4, <2>7, <4>1, <4>3, Zenon
    <3> QED
      BY <3>1, <3>2
  <2>11. i \in 0..K
    OBVIOUS
  <2> QED
    BY <2>3, <2>4, <2>8, <2>9, <2>10, <2>11
<1>11. K \in I
  <2>1. K \in 0..K
    OBVIOUS
  <2> HIDE DEF I
  <2> QED
    BY <1>9, <1>10, <2>1, SetInduction
<1>12. Ok(K)
  BY <1>11
<1> QED
  BY <1>1, <1>5, <1>12

\* Which of them is an untitled beginning is what PlaceMarkers works out.
LEMMA ShiftIs ==
  ASSUME NEW m \in Seq(Line), NEW level, level = PlaceLevel(m), Len(Cuts(m, level)) >= 1,
         Cuts(m, level) = Headings(m, level)
  PROVE  Shift(m) = IF Len(FlattenSeq(Chapter(m, level, 0))) < MinChunk THEN 0 ELSE 1
<1>1. PICK b : b = Bounds(m) /\ b = [k \in DOMAIN Cuts(m, level) |-> Offset(m, Cuts(m, level)[k])]
  BY DEF Bounds, OneEach
<1>2. PICK K \in Nat : /\ K = Len(Cuts(m, level)) /\ K = Len(b) /\ K >= 1
  BY <1>1, BoundsOf DEF CutBounds
<1>3. b # <<>>
  <2>1. Len(<<>>) = 0
    OBVIOUS
  <2> QED
    BY <1>2, <2>1
<1>4. PICK x : x = Words(SubSeq(m, From(m, level, 0), To(m, level, 0)))
  OBVIOUS
<1>5. 0 \in 0..Len(Cuts(m, level))
  BY <1>2
<1>6. /\ From(m, level, 0) \in 1..(Len(m) + 1)
      /\ To(m, level, 0) \in (From(m, level, 0) - 1)..Len(m)
      /\ FlattenSeq(Chapter(m, level, 0)) = x
  BY <1>4, <1>5, ChapterIs
<1>7. Offset(m, To(m, level, 0) + 1) = Offset(m, From(m, level, 0)) + Len(x) /\ x \in Seq(Nat)
  BY <1>4, <1>6, Segment
<1>8. Offset(m, From(m, level, 0)) = 0
  BY <1>1, BoundsOf DEF CutBounds
<1>9. Offset(m, To(m, level, 0) + 1) = b[1]
  <2>1. 0 \in 0..Len(b) /\ 0 < Len(b) /\ 0 + 1 = 1
    BY <1>2
  <2> QED
    BY <1>1, <2>1, BoundsOf DEF CutBounds
<1>10. Len(x) \in Nat
  BY <1>7, LenProperties
<1>11. b[1] = Len(x)
  BY <1>7, <1>8, <1>9, <1>10
<1> QED
  BY <1>1, <1>3, <1>6, <1>10, <1>11, PlacesAssumption DEF Shift

\* An anchor is a run of the words of the chunk it is numbered by.
Copied(a, chunks) ==
  \E n \in DOMAIN chunks, at \in Nat :
      /\ a.chapter = n /\ a.home = chunks[n].home
      /\ at + AnchorWords <= Len(chunks[n].words)
      /\ a.text = SubSeq(chunks[n].words, at + 1, at + AnchorWords)

\* A run of a chapter's words is found in that chapter.
LEMMA FoundAtHome ==
  ASSUME NEW m \in Seq(Line), NEW level, level = PlaceLevel(m), OneEach(m, level),
         NEW a, AnchorOK(a), Copied(a, Chunks(m, level)), NEW r, r = FindAnchor(m, a)
  PROVE  r > 0 /\ Cardinality({c \in 1..Len(Cuts(m, level)) : Offset(m, Cuts(m, level)[c]) < r}) = a.home
<1>0. PICK n \in DOMAIN Chunks(m, level), at \in Nat :
      /\ a.chapter = n /\ a.home = Chunks(m, level)[n].home
      /\ at + AnchorWords <= Len(Chunks(m, level)[n].words)
      /\ a.text = SubSeq(Chunks(m, level)[n].words, at + 1, at + AnchorWords)
  BY DEF Copied
<1>1. PICK b : b = Bounds(m) /\ b = [k \in DOMAIN Cuts(m, level) |-> Offset(m, Cuts(m, level)[k])]
  BY DEF Bounds, OneEach
<1>a. CutBounds(m, level, b)
  BY <1>1, BoundsOf
<1>2. PICK t \in Seq(Nat), w \in Nat : t = Words(m) /\ w = Len(t)
  BY <1>a DEF CutBounds
<1>3. PICK K \in Nat : /\ K = Len(Cuts(m, level)) /\ K = Len(b) /\ DOMAIN Cuts(m, level) = 1..K
                       /\ \A k \in 1..K : b[k] \in 0..w /\ b[k] = Offset(m, From(m, level, k))
                       /\ \A k, l \in 1..K : k <= l => b[k] <= b[l]
                       /\ \A k \in 0..K : Offset(m, To(m, level, k) + 1) = IF k < K THEN b[k + 1] ELSE w
                       /\ Offset(m, From(m, level, 0)) = 0
  <2>1. PICK K \in Nat : K = Len(Cuts(m, level)) /\ K = Len(b)
    BY <1>a DEF CutBounds
  <2>2. DOMAIN Cuts(m, level) = 1..K
    BY <2>1, CutsIncrease
  <2>3. \A k \in 1..K : b[k] \in 0..w /\ b[k] = Offset(m, From(m, level, k))
    <3>1. \A k \in 1..Len(b) : b[k] \in 0..Len(Words(m)) /\ b[k] = Offset(m, From(m, level, k))
      BY <1>a DEF CutBounds
    <3> QED
      BY <1>2, <2>1, <3>1
  <2>4. \A k, l \in 1..K : k <= l => b[k] <= b[l]
    <3>1. \A k, l \in 1..Len(b) : k <= l => b[k] <= b[l]
      BY <1>a DEF CutBounds
    <3> QED
      BY <2>1, <3>1, Zenon
  <2>5. \A k \in 0..K : Offset(m, To(m, level, k) + 1) = IF k < K THEN b[k + 1] ELSE w
    <3>1. \A k \in 0..Len(b) : Offset(m, To(m, level, k) + 1) = IF k < Len(b) THEN b[k + 1] ELSE Len(Words(m))
      BY <1>a DEF CutBounds
    <3> QED
      BY <1>2, <2>1, <3>1
  <2>6. Offset(m, From(m, level, 0)) = 0
    BY <1>a DEF CutBounds
  <2> QED
    BY <2>1, <2>2, <2>3, <2>4, <2>5, <2>6
<1>4. PICK s \in 0..1 : s = IF Len(FlattenSeq(Chapter(m, level, 0))) < MinChunk THEN 0 ELSE 1
  OBVIOUS
<1>5. Len(Chunks(m, level)) = s + K /\ \A i \in 1..(s + K) : Chunks(m, level)[i] = Whole(m, level, i - s)
  BY <1>3, <1>4, ChunksInOrder, SMTT(30)
<1>6. n \in 1..(s + K)
  <2>1. Chunks(m, level) \in Seq(Chunk)
    BY ChunksType
  <2>2. DOMAIN Chunks(m, level) = 1..Len(Chunks(m, level))
    BY <2>1, LenProperties
  <2> QED
    BY <1>5, <2>2
<1>7. PICK h \in 0..K : h = n - s
  BY <1>4, <1>6
<1>8. PICK x : x = Words(SubSeq(m, From(m, level, h), To(m, level, h)))
  OBVIOUS
<1>9. h \in 0..Len(Cuts(m, level))
  BY <1>3
<1>10. /\ From(m, level, h) \in 1..(Len(m) + 1)
       /\ To(m, level, h) \in (From(m, level, h) - 1)..Len(m)
       /\ FlattenSeq(Chapter(m, level, h)) = x
  BY <1>8, <1>9, ChapterIs
<1>11. a.home = h /\ Chunks(m, level)[n].words = x
  BY <1>0, <1>5, <1>6, <1>7, <1>10 DEF Whole
<1>12. PICK lo \in Nat, hi \in Nat : lo = Offset(m, From(m, level, h)) /\ hi = Offset(m, To(m, level, h) + 1)
  BY <1>8, <1>10, Segment
<1>13. PICK l \in Nat : l = Len(x) /\ hi = lo + l /\ hi <= w /\ x \in Seq(Nat) /\ \A i \in 1..l : t[lo + i] = x[i]
  <2>a. PICK from, to : from = From(m, level, h) /\ to = To(m, level, h)
    OBVIOUS
  <2>b. from \in 1..(Len(m) + 1) /\ to \in (from - 1)..Len(m) /\ x = Words(SubSeq(m, from, to))
    BY <1>8, <1>10, <2>a
  <2>c. x \in Seq(Nat) /\ Offset(m, to + 1) = Offset(m, from) + Len(x)
    BY <2>b, Segment
  <2>d. Offset(m, to + 1) <= Len(Words(m))
    BY <2>b, Segment
  <2>e. \A i \in 1..Len(x) : Words(m)[Offset(m, from) + i] = x[i]
    BY <2>b, Segment, SMTT(60)
  <2>1. /\ x \in Seq(Nat) /\ hi = lo + Len(x) /\ hi <= Len(Words(m))
        /\ \A i \in 1..Len(x) : Words(m)[lo + i] = x[i]
    BY <1>12, <2>a, <2>c, <2>d, <2>e
  <2>2. Len(x) \in Nat
    BY <2>1, LenProperties
  <2> QED
    BY <1>2, <2>1, <2>2
<1>14. lo = IF h = 0 THEN 0 ELSE b[h]
  BY <1>3, <1>7, <1>12
<1>15. hi = IF h < K THEN b[h + 1] ELSE w
  BY <1>3, <1>7, <1>12
<1>16. ChapterRange(m, n) = <<lo, hi>>
  <2>1. K >= 1 => Shift(m) = s
    BY <1>3, <1>4, ShiftIs DEF OneEach
  <2>2. K = 0 => b = <<>>
    <3>1. b = [k \in 1..K |-> b[k]]
      BY <1>1, <1>3
    <3>2. b \in Seq(0..w)
      <4>1. b \in [1..K -> 0..w]
        BY <1>3, <3>1
      <4> QED
        BY <4>1, SeqDef
    <3> QED
      BY <1>3, <3>2, EmptySeq
  <2>3. ChapterRange(m, n) =
        IF n - Shift(m) <= 0 THEN <<0, IF b = <<>> THEN w ELSE b[1]>>
        ELSE IF n - Shift(m) > K THEN <<0, w>>
        ELSE <<b[n - Shift(m)], IF n - Shift(m) < K THEN b[n - Shift(m) + 1] ELSE w>>
    BY <1>1, <1>2, <1>3 DEF ChapterRange
  <2>4. CASE K = 0
    <3>1. s = 1 /\ n = 1 /\ h = 0
      BY <1>4, <1>6, <1>7, <2>4
    <3>2. Shift(m) = 0
      BY <1>1, <2>2, <2>4 DEF Shift
    <3>3. n - Shift(m) = 1
      BY <3>1, <3>2
    <3>4. ChapterRange(m, n) = <<0, w>>
      BY <2>3, <2>4, <3>3
    <3> QED
      BY <1>14, <1>15, <2>4, <3>1, <3>4
  <2>5. CASE K # 0
    <3>1. n - Shift(m) = h
      BY <1>7, <2>1, <2>5
    <3>2. b # <<>>
      <4>1. Len(<<>>) = 0
        OBVIOUS
      <4> QED
        BY <1>3, <2>5, <4>1
    <3>3. CASE h = 0
      BY <1>14, <1>15, <2>3, <2>5, <3>1, <3>2, <3>3
    <3>4. CASE h # 0
      <4>1. ~ (h <= 0) /\ ~ (h > K)
        BY <1>7, <3>4
      <4> QED
        BY <1>14, <1>15, <2>3, <3>1, <3>4, <4>1
    <3> QED
      BY <3>3, <3>4
  <2> QED
    BY <2>4, <2>5
<1>17. PICK A \in Nat : A = AnchorWords /\ A >= 1 /\ at + A <= l
  <2>1. AnchorWords \in Nat /\ AnchorWords >= 1
    BY PlacesAssumption
  <2> QED
    BY <1>0, <1>11, <1>13, <2>1
<1>18. lo + at + A \in Ends(t, a.text, lo, hi)
  <2>1. PICK f \in Seq(Nat) : f = a.text /\ Len(f) = A
    BY <1>17 DEF AnchorOK
  <2>2. \A i \in 1..A : f[i] = x[at + i]
    <3>1. \A i \in (at + 1)..(at + A) : x[i] \in Nat
      <4>1. \A i \in 1..l : x[i] \in Nat
        BY <1>13, ElementOfSeq
      <4> QED
        BY <1>17, <4>1
    <3>2. f = SubSeq(x, at + 1, at + A)
      BY <1>0, <1>11, <1>17, <2>1
    <3>3. at + 1 \in Int /\ at + A \in Int
      OBVIOUS
    <3>4. \A i \in 1..((at + A) - (at + 1) + 1) : f[i] = x[(at + 1) + i - 1]
      BY <3>1, <3>2, <3>3, SubSeqProperties
    <3>5. (at + A) - (at + 1) + 1 = A /\ \A i \in 1..A : (at + 1) + i - 1 = at + i
      OBVIOUS
    <3> QED
      BY <3>4, <3>5
  <2>3. PICK e \in Nat : e = lo + at + A
    OBVIOUS
  <2>4. e \in (lo + A)..hi
    BY <1>13, <1>17, <2>3
  <2>5. SubSeq(t, e - A + 1, e) = f
    <3>1. e - A + 1 \in Int /\ e \in Int /\ e - A + 1 >= 1 /\ e <= w /\ e - A + 1 <= e /\ e - (e - A + 1) + 1 = A
      BY <1>13, <1>17, <2>3
    <3>2. \A i \in (e - A + 1)..e : t[i] \in Nat
      <4>1. \A i \in 1..w : t[i] \in Nat
        BY <1>2, ElementOfSeq
      <4>2. \A i \in (e - A + 1)..e : i \in 1..w
        BY <3>1
      <4> QED
        BY <4>1, <4>2, Zenon
    <3>3. PICK g : g = SubSeq(t, e - A + 1, e)
      OBVIOUS
    <3>4. g \in Seq(Nat)
      BY <3>1, <3>2, <3>3, SubSeqProperties
    <3>5. Len(g) = A
      <4>1. Len(g) = IF e - A + 1 <= e THEN e - (e - A + 1) + 1 ELSE 0
        BY <3>1, <3>2, <3>3, SubSeqProperties
      <4> QED
        BY <3>1, <4>1
    <3>6. ASSUME NEW i \in 1..A PROVE g[i] = f[i]
      <4>1. i \in 1..(e - (e - A + 1) + 1)
        BY <3>1
      <4>2. g[i] = t[(e - A + 1) + i - 1]
        BY <3>1, <3>2, <3>3, <4>1, SubSeqProperties
      <4>3. (e - A + 1) + i - 1 = lo + (at + i) /\ at + i \in 1..l
        BY <1>17, <2>3
      <4>4. t[lo + (at + i)] = x[at + i]
        BY <1>13, <4>3
      <4> QED
        BY <2>2, <4>2, <4>3, <4>4
    <3>7. g = f
      BY <2>1, <3>4, <3>5, <3>6, SeqEqual
    <3> QED
      BY <3>3, <3>7
  <2>6. e \in {i \in (lo + Len(f))..hi : Stands(t, f, i)}
    <3>1. A <= e /\ e <= w
      BY <1>13, <1>17, <2>3
    <3>2. A <= e /\ e <= Len(t) /\ t \in Seq(Nat)
      BY <1>2, <3>1
    <3>3. Stands(t, f, e)
      BY <1>17, <2>1, <2>5, <3>2, WholeStands
    <3> QED
      BY <2>1, <2>4, <3>3
  <2> QED
    BY <2>1, <2>3, <2>6 DEF Ends
<1>19. r \in Ends(t, a.text, lo, hi)
  <2>1. ChapterRange(m, a.chapter) = <<lo, hi>>
    BY <1>0, <1>16
  <2>2. Ends(t, a.text, lo, hi) # {}
    BY <1>18
  <2> QED
    BY <1>2, <2>1, <2>2, FindAnchorOK
<1>20. r \in (lo + A)..hi
  <2>1. Len(a.text) = A
    BY <1>17 DEF AnchorOK
  <2> QED
    BY <1>19, <2>1 DEF Ends
<1>21. r \in Nat /\ r > lo /\ r <= hi /\ r > 0
  BY <1>17, <1>20
<1>22. {c \in 1..K : Offset(m, Cuts(m, level)[c]) < r} = 1..h
  <2>1. \A c \in 1..K : Offset(m, Cuts(m, level)[c]) = b[c]
    BY <1>1, <1>3
  <2>2. ASSUME NEW c \in 1..K PROVE b[c] < r <=> c \in 1..h
    <3>1. PICK bc \in Nat : bc = b[c]
      BY <1>3
    <3>2. CASE c <= h
      <4>1. h \in 1..K /\ c \in 1..h /\ h # 0
        BY <3>2
      <4>2. PICK bh \in Nat : bh = b[h] /\ bc <= bh
        BY <1>3, <3>1, <3>2, <4>1
      <4>3. bh = lo
        BY <1>14, <4>1, <4>2
      <4>4. bc < r
        BY <1>21, <4>2, <4>3
      <4> QED
        BY <3>1, <4>1, <4>4
    <3>3. CASE ~ (c <= h)
      <4>1. h < K /\ h + 1 \in 1..K /\ h + 1 <= c /\ c \notin 1..h
        BY <3>3
      <4>2. PICK bh \in Nat : bh = b[h + 1] /\ bh <= bc
        BY <1>3, <3>1, <4>1
      <4>3. bh = hi
        BY <1>15, <4>1, <4>2
      <4>4. ~ (bc < r)
        BY <1>21, <4>2, <4>3
      <4> QED
        BY <3>1, <4>1, <4>4
    <3> QED
      BY <3>2, <3>3
  <2>3. 1..h \subseteq 1..K
    BY <1>7
  <2> QED
    BY <2>1, <2>2, <2>3
<1>23. Cardinality(1..h) = h
  <2>1. 1 \in Int /\ h \in Int /\ (1 > h => h = 0)
    BY <1>7
  <2>2. Cardinality(1..h) = IF 1 > h THEN 0 ELSE h - 1 + 1
    BY <2>1, FS_Interval
  <2> QED
    BY <2>1, <2>2
<1> QED
  BY <1>3, <1>11, <1>21, <1>22, <1>23

-----------------------------------------------------------------------------
(* The desk.                                                               *)

PlacesInv ==
  /\ ms \in Seq(Line)
  /\ \A a \in anchors : AnchorOK(a)
  /\ placed = <<>> \/ placed = PlaceMarkers(ms, anchors)
  /\ fresh => \A a \in anchors : Copied(a, Chunks(ms, DraftLevel))

LEMMA CopiedOK ==
  ASSUME NEW m \in Seq(Line), NEW level, NEW a, Copied(a, Chunks(m, level))
  PROVE  AnchorOK(a)
<1>1. PICK chunks \in Seq(Chunk) : chunks = Chunks(m, level)
  BY ChunksType
<1>2. PICK n \in DOMAIN chunks, at \in Nat :
        /\ a.chapter = n /\ a.home = chunks[n].home
        /\ at + AnchorWords <= Len(chunks[n].words)
        /\ a.text = SubSeq(chunks[n].words, at + 1, at + AnchorWords)
  BY <1>1 DEF Copied
<1>3. n \in Nat /\ chunks[n] \in Chunk
  BY LenProperties, ElementOfSeq
<1>4. PICK words \in Seq(Nat) : words = chunks[n].words
  BY <1>3 DEF Chunk
<1>5. PICK A \in Nat : A = AnchorWords
  BY PlacesAssumption
<1>6. PICK l \in Nat : l = Len(words) /\ \A i \in 1..l : words[i] \in Nat
  BY LenProperties, ElementOfSeq
<1>7. at + A <= l /\ a.text = SubSeq(words, at + 1, at + A)
  BY <1>2, <1>4, <1>5, <1>6
<1>8. \A i \in (at + 1)..(at + A) : words[i] \in Nat
  BY <1>6, <1>7
<1>9. at + 1 \in Int /\ at + A \in Int
  OBVIOUS
<1>10. a.text \in Seq(Nat)
  BY <1>7, <1>8, <1>9, SubSeqProperties
<1>11. Len(a.text) = A
  <2>1. Len(a.text) = IF at + 1 <= at + A THEN (at + A) - (at + 1) + 1 ELSE 0
    BY <1>7, <1>8, <1>9, SubSeqProperties
  <2> QED
    BY <2>1
<1> QED
  BY <1>2, <1>3, <1>5, <1>10, <1>11 DEF AnchorOK

LEMMA PlacesInvInductive == PlacesSpec => []PlacesInv
<1>1. PlacesInit => PlacesInv
  BY PlacesAssumption DEF PlacesInit, PlacesInv
<1>2. PlacesInv /\ [PlacesNext]_placeVars => PlacesInv'
  <2> SUFFICES ASSUME PlacesInv, [PlacesNext]_placeVars PROVE PlacesInv'
    OBVIOUS
  <2>1. CASE RunIndexDraft
    <3>1. PICK chunks : chunks = Chunks(ms, DraftLevel)
      OBVIOUS
    <3>2. PICK at \in [DOMAIN chunks -> 0..MaxInput] :
            /\ \A n \in DOMAIN chunks : at[n] + AnchorWords <= Len(chunks[n].words)
            /\ anchors' = {[chapter |-> n, home |-> chunks[n].home,
                            text |-> SubSeq(chunks[n].words, at[n] + 1, at[n] + AnchorWords)] : n \in DOMAIN chunks}
      BY <2>1, <3>1 DEF RunIndexDraft
    <3>3. placed' = PlaceMarkers(ms, anchors') /\ ms' = ms /\ parts' = parts
      BY <2>1 DEF RunIndexDraft
    <3>4. ASSUME NEW a \in anchors' PROVE Copied(a, chunks)
      <4>1. PICK n \in DOMAIN chunks : a = [chapter |-> n, home |-> chunks[n].home,
                            text |-> SubSeq(chunks[n].words, at[n] + 1, at[n] + AnchorWords)]
        BY <3>2
      <4>2. PICK k : k = at[n] /\ k \in Nat
        BY <3>2, PlacesAssumption
      <4>3. k + AnchorWords <= Len(chunks[n].words)
        BY <3>2, <4>2
      <4>4. a.chapter = n /\ a.home = chunks[n].home /\ a.text = SubSeq(chunks[n].words, k + 1, k + AnchorWords)
        BY <4>1, <4>2
      <4> QED
        BY <4>2, <4>3, <4>4 DEF Copied
    <3>5. ms' \in Seq(Line) /\ ms \in Seq(Line)
      BY <3>3 DEF PlacesInv
    <3>6. \A a \in anchors' : AnchorOK(a)
      BY <3>1, <3>4, <3>5, CopiedOK
    <3>7. Chunks(ms, DraftLevel)' = chunks
      <4>1. DraftLevel' = DraftLevel
        BY <3>3 DEF DraftLevel
      <4> QED
        BY <3>1, <3>3, <4>1
    <3>8. PlaceMarkers(ms, anchors)' = PlaceMarkers(ms, anchors')
      BY <3>3
    <3> QED
      BY <3>3, <3>4, <3>5, <3>6, <3>7, <3>8 DEF PlacesInv
  <2>2. CASE ApplyIndexMarkers
    <3>1. ms' = ms /\ parts' = parts /\ anchors' = anchors /\ fresh' = fresh /\ placed' = PlaceMarkers(ms, anchors)
      BY <2>2 DEF ApplyIndexMarkers
    <3>2. DraftLevel' = DraftLevel
      BY <3>1 DEF DraftLevel
    <3> QED
      BY <3>1, <3>2 DEF PlacesInv
  <2>3. ASSUME NEW m \in Manuscripts, UploadSource(m) PROVE PlacesInv'
    <3>1. ms' = m /\ anchors' = anchors /\ fresh' = FALSE /\ placed' = <<>>
      BY <2>3 DEF UploadSource
    <3>2. m \in Seq(Line)
      BY PlacesAssumption
    <3> QED
      BY <3>1, <3>2 DEF PlacesInv
  <2>4. CASE UNCHANGED placeVars
    <3>1. ms' = ms /\ parts' = parts /\ anchors' = anchors /\ fresh' = fresh /\ placed' = placed
      BY <2>4 DEF placeVars
    <3>2. DraftLevel' = DraftLevel
      BY <3>1 DEF DraftLevel
    <3> QED
      BY <3>1, <3>2 DEF PlacesInv
  <2> QED
    BY <2>1, <2>2, <2>3, <2>4 DEF PlacesNext
<1> QED
  BY <1>1, <1>2, PTL DEF PlacesSpec

LEMMA PlacedIs ==
  ASSUME PlacesInv, NEW a \in DOMAIN placed
  PROVE  a \in anchors /\ placed[a] = FindAnchor(ms, a) /\ AnchorOK(a) /\ ms \in Seq(Line)
<1>1. placed # <<>>
  OBVIOUS
<1>2. placed = [b \in anchors |-> FindAnchor(ms, b)]
  BY <1>1 DEF PlacesInv, PlaceMarkers
<1> QED
  BY <1>2 DEF PlacesInv

LEMMA OnItsWordsHolds == PlacesInv => OnItsWords
<1> SUFFICES ASSUME PlacesInv, NEW a \in DOMAIN placed, placed[a] # 0
             PROVE  \E i, j \in 1..AnchorWords :
                       /\ j - i + 1 >= MinAnchor
                       /\ placed[a] \in Ends(Words(ms), SubSeq(a.text, i, j), 0, Len(Words(ms)))
  BY DEF OnItsWords
<1>1. placed[a] = FindAnchor(ms, a) /\ AnchorOK(a) /\ ms \in Seq(Line)
  BY PlacedIs
<1>2. PICK lo, hi \in Nat : ChapterRange(ms, a.chapter) = <<lo, hi>>
  BY <1>1, RangeOf DEF AnchorOK
<1>3. PICK s : RunOf(s, a.text) /\ placed[a] \in Ends(Words(ms), s, 0, Len(Words(ms)))
  BY <1>1, <1>2, FindAnchorOK
<1> QED
  BY <1>3 DEF RunOf

LEMMA FoundHolds == PlacesInv => FoundWhereverItIs
<1> SUFFICES ASSUME PlacesInv, NEW a \in DOMAIN placed,
                    Cardinality(Ends(Words(ms), a.text, 0, Len(Words(ms)))) = 1
             PROVE  placed[a] \in Ends(Words(ms), a.text, 0, Len(Words(ms)))
  BY DEF FoundWhereverItIs
<1>1. placed[a] = FindAnchor(ms, a) /\ AnchorOK(a) /\ ms \in Seq(Line)
  BY PlacedIs
<1>2. PICK lo, hi \in Nat : ChapterRange(ms, a.chapter) = <<lo, hi>>
  BY <1>1, RangeOf DEF AnchorOK
<1>3. Ends(Words(ms), a.text, 0, Len(Words(ms))) # {}
  <2>1. PICK found : found = Ends(Words(ms), a.text, 0, Len(Words(ms)))
    OBVIOUS
  <2>2. found # {}
    <3>1. Cardinality({}) = 0
      BY FS_EmptySet
    <3>2. Cardinality(found) = 1
      BY <2>1, Zenon
    <3>3. 0 # 1
      OBVIOUS
    <3> QED
      BY <3>1, <3>2, <3>3, Zenon
  <2> QED
    BY <2>1, <2>2
<1> QED
  BY <1>1, <1>2, <1>3, FindAnchorOK

\* A run of a stretch of the text stands in it.
LEMMA RunStands ==
  ASSUME NEW t \in Seq(Nat), NEW x \in Seq(Nat), Within(x, t), NEW A \in Nat, A >= 1,
         NEW at \in Nat, at + A <= Len(x), NEW f \in Seq(Nat), Len(f) = A, f = SubSeq(x, at + 1, at + A)
  PROVE  Ends(t, f, 0, Len(t)) # {}
<1>1. PICK lx \in Nat, lt \in Nat : lx = Len(x) /\ lt = Len(t)
  BY LenProperties
<1>2. PICK lo \in Nat : lo + lx <= lt /\ \A i \in 1..lx : t[lo + i] = x[i]
  BY <1>1 DEF Within
<1>3. \A i \in 1..A : f[i] = t[lo + at + i]
  <2>1. \A i \in (at + 1)..(at + A) : x[i] \in Nat
    <3>1. \A i \in 1..lx : x[i] \in Nat
      BY <1>1, ElementOfSeq
    <3> QED
      BY <1>1, <3>1
  <2>2. at + 1 \in Int /\ at + A \in Int
    OBVIOUS
  <2>3. \A i \in 1..((at + A) - (at + 1) + 1) : f[i] = x[(at + 1) + i - 1]
    BY <2>1, <2>2, SubSeqProperties
  <2> TAKE i \in 1..A
  <2>4. i \in 1..((at + A) - (at + 1) + 1) /\ (at + 1) + i - 1 = at + i /\ at + i \in 1..lx /\ lo + (at + i) = lo + at + i
    BY <1>1
  <2> QED
    BY <1>2, <2>3, <2>4
<1>4. PICK e \in Nat : e = lo + at + A
  OBVIOUS
<1>5. \A i \in 1..A : f[i] = t[e - A + i]
  <2> TAKE i \in 1..A
  <2>1. e - A + i = lo + at + i
    BY <1>4
  <2> QED
    BY <1>3, <2>1
<1>6. Stands(t, f, e)
  <2>1. \A k \in 2..A - 1 : t[e - A + k] = f[k]
    BY <1>5
  <2>2. f[1] = t[e - A + 1] /\ f[A] = t[e]
    <3>1. 1 \in 1..A /\ A \in 1..A /\ e - A + A = e
      OBVIOUS
    <3> QED
      BY <1>5, <3>1
  <2> QED
    BY <2>1, <2>2 DEF Stands
<1>7. e \in (0 + A)..lt
  BY <1>1, <1>2, <1>4
<1>8. e \in Ends(t, f, 0, Len(t))
  BY <1>1, <1>6, <1>7 DEF Ends
<1> QED
  BY <1>8

LEMMA DraftedHolds == PlacesInv => DraftedIsFound
<1> SUFFICES ASSUME PlacesInv, fresh, NEW a \in DOMAIN placed
             PROVE  placed[a] \in Ends(Words(ms), a.text, 0, Len(Words(ms)))
  BY DEF DraftedIsFound
<1>1. a \in anchors /\ placed[a] = FindAnchor(ms, a) /\ AnchorOK(a) /\ ms \in Seq(Line)
  BY PlacedIs
<1>2. PICK lo, hi \in Nat : ChapterRange(ms, a.chapter) = <<lo, hi>>
  BY <1>1, RangeOf DEF AnchorOK
<1>3. PICK chunks \in Seq(Chunk) : chunks = Chunks(ms, DraftLevel)
  BY <1>1, ChunksType
<1>4. PICK n \in DOMAIN chunks, at \in Nat :
        /\ at + AnchorWords <= Len(chunks[n].words)
        /\ a.text = SubSeq(chunks[n].words, at + 1, at + AnchorWords)
  BY <1>1, <1>3 DEF PlacesInv, Copied
<1>5. PICK x \in Seq(Nat) : x = chunks[n].words
  <2>1. chunks[n] \in Chunk
    BY ElementOfSeq, LenProperties
  <2> QED
    BY <2>1 DEF Chunk
<1>6. Within(x, Words(ms))
  BY <1>1, <1>3, <1>5, ChunksWithin
<1>7. PICK A \in Nat : A = AnchorWords /\ A >= 1
  BY PlacesAssumption
<1>8. PICK t \in Seq(Nat), f \in Seq(Nat) : t = Words(ms) /\ f = a.text /\ Len(f) = A
  BY <1>1, <1>7, WordsType DEF AnchorOK
<1>9. Ends(t, f, 0, Len(t)) # {}
  BY <1>4, <1>5, <1>6, <1>7, <1>8, RunStands
<1> QED
  BY <1>1, <1>2, <1>8, <1>9, FindAnchorOK

LEMMA HomeHolds == PlacesInv => LandsAtHome
<1> SUFFICES ASSUME PlacesInv, fresh, Regular, NEW a \in DOMAIN placed PROVE HomeChapter(a)
  BY DEF LandsAtHome
<1>1. a \in anchors /\ placed[a] = FindAnchor(ms, a) /\ AnchorOK(a) /\ ms \in Seq(Line)
  BY PlacedIs
<1>2. PICK level : level = DraftLevel /\ level = PlaceLevel(ms) /\ OneEach(ms, level)
  BY DEF Regular, OneEach
<1>3. PICK m, r : m = ms /\ r = FindAnchor(ms, a)
  OBVIOUS
<1>4. m \in Seq(Line) /\ level = PlaceLevel(m) /\ OneEach(m, level) /\ AnchorOK(a) /\ r = FindAnchor(m, a)
  BY <1>1, <1>2, <1>3
<1>5. Copied(a, Chunks(m, level))
  BY <1>1, <1>2, <1>3 DEF PlacesInv
<1>6. r > 0 /\ Cardinality({c \in 1..Len(Cuts(m, level)) : Offset(m, Cuts(m, level)[c]) < r}) = a.home
  BY <1>4, <1>5, FoundAtHome
<1> QED
  BY <1>1, <1>2, <1>3, <1>6 DEF HomeChapter

\* Whatever file replaces the one that was drafted, a marker stands after a run
\* of its anchor's own words, of which the first may be the end of a longer word
\* and the last the beginning of one; an anchor whose words stand once is placed
\* there. In the file it was drafted from no anchor is missed or shortened,
\* wherever Chunks cut; it lands in the chapter it was copied from where every
\* chapter is one chunk and no other line reads like a heading (PlaceMarkers and
\* findAnchor in srv/indexer/anchor.go).
THEOREM PlacesAreSafe == PlacesSpec => []PlacesSafe
<1>1. PlacesInv => PlacesSafe
  BY OnItsWordsHolds, FoundHolds, DraftedHolds, HomeHolds DEF PlacesSafe
<1> QED
  BY <1>1, PlacesInvInductive, PTL

-----------------------------------------------------------------------------
(* Sums.                                                                   *)

\* The sums of the first numbers.
LEMMA SumsOf ==
  ASSUME NEW n \in Nat, NEW c \in [1..n -> Nat]
  PROVE  \E f \in [0..n -> Nat] :
            /\ f[0] = 0
            /\ \A i \in 1..n : f[i] = f[i - 1] + c[i]
            /\ \A k \in 0..n : SumOf([j \in 1..k |-> c[j]]) = f[k]
<1>1. PICK S : S = Nat
  OBVIOUS
<1>2. PICK base \in S : base = 0
  BY <1>1
<1>3. PICK step \in [1..n -> [S -> S]] : \A i \in 1..n, x \in S : step[i][x] = x + c[i]
  <2> DEFINE st == [i \in 1..n |-> [x \in S |-> x + c[i]]]
  <2>1. \A i \in 1..n, x \in S : x + c[i] \in S
    BY <1>1
  <2>2. st \in [1..n -> [S -> S]]
    BY <2>1
  <2>3. \A i \in 1..n, x \in S : st[i][x] = x + c[i]
    OBVIOUS
  <2> HIDE DEF st
  <2> QED
    BY <2>2, <2>3
<1>4. PICK f : Iterates(f, S, base, n, step)
  BY Recursion
<1>5. f \in [0..n -> S] /\ f[0] = base /\ \A i \in 1..n : f[i] = step[i][f[i - 1]]
  BY <1>4 DEF Iterates
<1>6. \A i \in 1..n : f[i] = f[i - 1] + c[i]
  <2>1. \A i \in 1..n : f[i - 1] \in S
    BY <1>5
  <2> QED
    BY <1>3, <1>5, <2>1
<1>7. ASSUME NEW k \in 0..n PROVE SumOf([j \in 1..k |-> c[j]]) = f[k]
  <2> DEFINE sum == CHOOSE g : g = [i \in 0..k |-> IF i = 0 THEN 0 ELSE g[i - 1] + c[i]]
             h == [i \in 0..k |-> f[i]]
  <2>1. PICK s : s = [j \in 1..k |-> c[j]]
    OBVIOUS
  <2>2. Len(s) = k /\ \A i \in 1..k : s[i] = c[i]
    <3>1. s \in [1..k -> Nat]
      BY <2>1
    <3>2. s \in Seq(Nat) /\ Len(s) = k
      BY <3>1, SeqDef, LenProperties
    <3> QED
      BY <2>1, <3>2
  <2>3. SumOf(s) = sum[k]
    <3>1. SumOf(s) = (CHOOSE g : g = [i \in 0..k |-> IF i = 0 THEN 0 ELSE g[i - 1] + s[i]])[k]
      BY <2>2, Zenon DEF SumOf
    <3>2. \A g : [i \in 0..k |-> IF i = 0 THEN 0 ELSE g[i - 1] + s[i]] = [i \in 0..k |-> IF i = 0 THEN 0 ELSE g[i - 1] + c[i]]
      BY <2>2
    <3> QED
      BY <3>1, <3>2, Zenon
  <2>4. h = [i \in 0..k |-> IF i = 0 THEN 0 ELSE h[i - 1] + c[i]]
    <3>1. ASSUME NEW i \in 0..k PROVE h[i] = IF i = 0 THEN 0 ELSE h[i - 1] + c[i]
      <4>1. CASE i = 0
        BY <1>2, <1>5, <4>1
      <4>2. CASE i # 0
        <5>1. i \in 1..n /\ i - 1 \in 0..k
          BY <4>2
        <5> QED
          BY <1>6, <4>2, <5>1
      <4> QED
        BY <4>1, <4>2
    <3> QED
      BY <3>1
  <2>5. sum = [i \in 0..k |-> IF i = 0 THEN 0 ELSE sum[i - 1] + c[i]]
    <3>1. \E g : g = [i \in 0..k |-> IF i = 0 THEN 0 ELSE g[i - 1] + c[i]]
      <4> HIDE DEF h
      <4> QED
        BY <2>4
    <3> QED
      BY <3>1
  <2> HIDE DEF sum, h
  <2> DEFINE I == {i \in 0..k : sum[i] = h[i]}
  <2>6. 0 \in I
    BY <2>4, <2>5
  <2>7. ASSUME NEW i \in 1..k, i - 1 \in I PROVE i \in I
    <3>1. i \in 0..k /\ i # 0
      OBVIOUS
    <3>2. sum[i] = sum[i - 1] + c[i] /\ h[i] = h[i - 1] + c[i]
      BY <2>4, <2>5, <3>1
    <3> QED
      BY <2>7, <3>1, <3>2
  <2>8. k \in I
    <3>1. k \in 0..k /\ k \in Nat
      OBVIOUS
    <3> HIDE DEF I
    <3> QED
      BY <2>6, <2>7, <3>1, SetInduction
  <2>9. h[k] = f[k]
    <3>1. k \in 0..k
      OBVIOUS
    <3> QED
      BY <3>1 DEF h
  <2> QED
    BY <2>1, <2>3, <2>8, <2>9
<1> QED
  BY <1>1, <1>2, <1>5, <1>6, <1>7

\* A sum is no less than a part of it, and zero when all parts are.
LEMMA SumBounds ==
  ASSUME NEW s \in Seq(Nat)
  PROVE  /\ SumOf(s) \in Nat
         /\ \A i \in 1..Len(s) : s[i] <= SumOf(s)
         /\ (SumOf(s) = 0 <=> \A i \in 1..Len(s) : s[i] = 0)
<1>1. PICK n \in Nat : n = Len(s) /\ s \in [1..n -> Nat]
  BY LenProperties
<1>2. PICK f \in [0..n -> Nat] :
            /\ f[0] = 0
            /\ \A i \in 1..n : f[i] = f[i - 1] + s[i]
            /\ \A k \in 0..n : SumOf([j \in 1..k |-> s[j]]) = f[k]
  BY <1>1, SumsOf
<1>3. SumOf(s) = f[n]
  <2>1. s = [j \in 1..n |-> s[j]] /\ n \in 0..n
    BY <1>1
  <2> QED
    BY <1>2, <2>1
<1>4. \A i \in 1..n : s[i] \in Nat /\ f[i] \in Nat /\ f[i - 1] \in Nat
  <2>1. \A i \in 1..n : i \in 0..n /\ i - 1 \in 0..n
    OBVIOUS
  <2> QED
    BY <1>1, <1>2, <2>1
<1> DEFINE I == {i \in 0..n : /\ \A j \in 1..i : s[j] <= f[i]
                              /\ (\A j \in 1..i : s[j] = 0) => f[i] = 0}
<1>5. 0 \in I
  BY <1>2
<1>6. ASSUME NEW i \in 1..n, i - 1 \in I PROVE i \in I
  <2>1. i \in 0..n
    OBVIOUS
  <2>0. f[i - 1] \in Nat /\ s[i] \in Nat /\ f[i] = f[i - 1] + s[i]
    BY <1>2, <1>4
  <2>2. PICK x \in Nat, y \in Nat : x = f[i - 1] /\ y = s[i] /\ f[i] = x + y
    BY <2>0, Zenon
  <2>3. \A j \in 1..(i - 1) : s[j] <= x /\ s[j] \in Nat
    <3>1. \A j \in 1..(i - 1) : s[j] <= f[i - 1]
      BY <1>6
    <3>2. \A j \in 1..(i - 1) : j \in 1..n
      OBVIOUS
    <3> QED
      BY <1>4, <2>2, <3>1, <3>2, Zenon
  <2>4. ASSUME NEW j \in 1..i PROVE s[j] <= f[i]
    <3>1. CASE j = i
      BY <2>2, <3>1
    <3>2. CASE j # i
      <4>1. j \in 1..(i - 1)
        BY <3>2
      <4>2. PICK z \in Nat : z = s[j] /\ z <= x
        BY <2>3, <4>1
      <4>3. z <= x + y
        BY <4>2
      <4> QED
        BY <2>2, <4>2, <4>3
    <3> QED
      BY <3>1, <3>2
  <2>5. ASSUME \A j \in 1..i : s[j] = 0 PROVE f[i] = 0
    <3>1. \A j \in 1..(i - 1) : j \in 1..i
      OBVIOUS
    <3>2. f[i - 1] = 0 /\ s[i] = 0
      BY <1>6, <2>5, <3>1
    <3> QED
      BY <2>2, <3>2
  <2> QED
    BY <2>1, <2>4, <2>5
<1>7. n \in I
  <2>1. n \in 0..n
    OBVIOUS
  <2> HIDE DEF I
  <2> QED
    BY <1>5, <1>6, <2>1, SetInduction
<1>8. f[n] \in Nat
  BY <1>2
<1>9. ASSUME f[n] = 0 PROVE \A i \in 1..n : s[i] = 0
  <2> TAKE i \in 1..n
  <2>1. s[i] <= f[n] /\ s[i] \in Nat
    BY <1>4, <1>7
  <2> QED
    BY <1>9, <2>1
<1>10. (\A i \in 1..n : s[i] = 0) => f[n] = 0
  BY <1>7
<1>11. \A i \in 1..n : s[i] <= f[n]
  BY <1>7
<1> HIDE DEF I
<1> QED
  BY <1>1, <1>3, <1>8, <1>9, <1>10, <1>11

-----------------------------------------------------------------------------
(* Reading.                                                                *)

Breaks == {"none", "before", "after"}
Typed == [style: STRING, text: STRING, brk: Breaks, made: Makings]
Para == [at: Nat, style: STRING, text: STRING, made: Makings, opens: BOOLEAN]
ReadState == [at: Nat, paras: Seq(Para), pending: BOOLEAN]

At(ps, i) == IF i = 0 THEN 0 ELSE ps[i].at

\* A paragraph read from place at of m, after the one read from place prev.
ReadFrom(m, q, prev, at) ==
  /\ prev < at /\ q.style = m[at].style /\ q.text = m[at].text /\ q.made = m[at].made
  /\ q.opens <=> \/ m[at].brk = "before"
                 \/ prev > 0 /\ m[prev].brk = "after"
                 \/ \E j \in (prev + 1)..(at - 1) : m[j].brk # "none"

\* What n paragraphs of m leave.
HasRead(m, n, s) ==
  /\ s \in ReadState /\ s.at = n
  /\ \A i \in 1..Len(s.paras) : /\ s.paras[i].at \in 1..n
                                /\ ReadFrom(m, s.paras[i], At(s.paras, i - 1), s.paras[i].at)
  /\ s.pending <=> LET last == At(s.paras, Len(s.paras)) IN
                      \/ last > 0 /\ m[last].brk = "after"
                      \/ \E j \in (last + 1)..n : m[j].brk # "none"

LEMMA CarryReads ==
  ASSUME NEW m \in Seq(Typed), NEW n \in 1..Len(m), NEW s, HasRead(m, n - 1, s)
  PROVE  HasRead(m, n, Carry(s, m[n]))
<1>1. PICK p \in Typed : p = m[n]
  BY ElementOfSeq
<1>2. PICK ps \in Seq(Para), k \in Nat : ps = s.paras /\ k = Len(ps)
  <2>1. s.paras \in Seq(Para)
    BY DEF HasRead, ReadState
  <2> QED
    BY <2>1, LenProperties
<1>3. n \in Nat /\ n - 1 \in Nat /\ Len(m) \in Nat
  BY LenProperties
<1>4. s.at + 1 = n /\ s.pending \in BOOLEAN
  BY <1>3 DEF HasRead, ReadState
<1>5. PICK last : last = At(ps, k)
  OBVIOUS
<1>6. \A i \in 1..k : ps[i].at \in 1..(n - 1) /\ ReadFrom(m, ps[i], At(ps, i - 1), ps[i].at)
  BY <1>2 DEF HasRead
<1>7. last \in 0..(n - 1)
  <2>1. CASE k = 0
    BY <1>3, <1>5, <2>1 DEF At
  <2>2. CASE k # 0
    <3>1. k \in 1..k
      BY <2>2
    <3> QED
      BY <1>5, <1>6, <2>2, <3>1 DEF At
  <2> QED
    BY <2>1, <2>2
<1>8. s.pending <=> \/ last > 0 /\ m[last].brk = "after"
                    \/ \E j \in (last + 1)..(n - 1) : m[j].brk # "none"
  BY <1>2, <1>5 DEF HasRead
<1>9. CASE p.text = ""
  <2>1. PICK t : t = [at |-> n, paras |-> ps, pending |-> (s.pending \/ p.brk # "none")]
    OBVIOUS
  <2>2. Carry(s, p) = t
    BY <1>2, <1>4, <1>9, <2>1, Zenon DEF Carry
  <2>3. t \in ReadState /\ t.at = n /\ t.paras = ps
    BY <1>3, <1>4, <2>1 DEF ReadState
  <2>4. \A i \in 1..k : ps[i].at \in 1..n
    BY <1>3, <1>6
  <2>5. t.pending <=> \/ last > 0 /\ m[last].brk = "after"
                      \/ \E j \in (last + 1)..n : m[j].brk # "none"
    <3>1. t.pending <=> s.pending \/ m[n].brk # "none"
      BY <1>1, <2>1
    <3>2. (\E j \in (last + 1)..n : m[j].brk # "none") <=>
             \/ \E j \in (last + 1)..(n - 1) : m[j].brk # "none"
             \/ m[n].brk # "none"
      <4>1. \A j : j \in (last + 1)..n <=> j \in (last + 1)..(n - 1) \/ j = n
        BY <1>3, <1>7
      <4> QED
        BY <4>1, Zenon
    <3> QED
      BY <1>8, <3>1, <3>2
  <2> QED
    BY <1>1, <1>2, <1>5, <1>6, <2>2, <2>3, <2>4, <2>5 DEF HasRead
<1>10. CASE p.text # ""
  <2>0. PICK o \in BOOLEAN : o = (p.brk = "before" \/ s.pending)
    BY Zenon
  <2>1. PICK q \in Para : q = [at |-> n, style |-> p.style, text |-> p.text, made |-> p.made, opens |-> o]
    <3>1. p.style \in STRING /\ p.text \in STRING /\ p.made \in Makings
      BY DEF Typed
    <3> QED
      BY <1>3, <3>1 DEF Para
  <2>2. PICK t : t = [at |-> n, paras |-> Append(ps, q), pending |-> (p.brk = "after")]
    OBVIOUS
  <2>3. Carry(s, p) = t
    BY <1>2, <1>4, <1>10, <2>0, <2>1, <2>2, Zenon DEF Carry
  <2>4. PICK more \in Seq(Para) : more = Append(ps, q)
    BY AppendProperties
  <2>5. Len(more) = k + 1 /\ more[k + 1] = q /\ \A i \in 1..k : more[i] = ps[i]
    BY <1>2, <2>4, AppendProperties
  <2>6. t \in ReadState /\ t.at = n /\ t.paras = more
    BY <1>3, <2>2, <2>4 DEF ReadState
  <2>7. \A i \in 0..k : At(more, i) = At(ps, i)
    BY <2>5 DEF At
  <2>8. ASSUME NEW i \in 1..(k + 1)
        PROVE  more[i].at \in 1..n /\ ReadFrom(m, more[i], At(more, i - 1), more[i].at)
    <3>1. CASE i = k + 1
      <4>1. At(more, i - 1) = last
        <5>1. i - 1 = k /\ k \in 0..k
          BY <3>1
        <5> QED
          BY <1>5, <2>7, <5>1
      <4>2. more[i] = q /\ q.at = n
        BY <2>1, <2>5, <3>1
      <4>3. q.style = m[n].style /\ q.text = m[n].text /\ q.made = m[n].made /\ (q.opens <=> m[n].brk = "before" \/ s.pending)
        BY <1>1, <2>0, <2>1
      <4>4. last < n /\ n \in 1..n
        BY <1>3, <1>7
      <4>5. ReadFrom(m, q, last, n)
        BY <1>8, <4>3, <4>4 DEF ReadFrom
      <4> QED
        BY <4>1, <4>2, <4>4, <4>5
    <3>2. CASE i # k + 1
      <4>1. i \in 1..k /\ i - 1 \in 0..k
        BY <3>2
      <4>2. more[i] = ps[i] /\ At(more, i - 1) = At(ps, i - 1)
        BY <2>5, <2>7, <4>1
      <4>3. ps[i].at \in 1..n
        BY <1>3, <1>6, <4>1
      <4> QED
        BY <1>6, <4>1, <4>2, <4>3
    <3> QED
      BY <3>1, <3>2
  <2>9. At(more, k + 1) = n
    BY <2>1, <2>5 DEF At
  <2>10. t.pending <=> m[n].brk = "after"
    BY <1>1, <2>2
  <2>11. n > 0 /\ (n + 1)..n = {}
    BY <1>3
  <2>12. t.pending <=> LET to == At(more, k + 1) IN
                         \/ to > 0 /\ m[to].brk = "after"
                         \/ \E j \in (to + 1)..n : m[j].brk # "none"
    BY <2>9, <2>10, <2>11
  <2> QED
    BY <1>1, <2>3, <2>5, <2>6, <2>8, <2>12 DEF HasRead
<1> QED
  BY <1>9, <1>10

LEMMA ParasRead ==
  ASSUME NEW m \in Seq(Typed)
  PROVE  /\ Paras(m) \in Seq(Para)
         /\ \A i \in 1..Len(Paras(m)) : /\ Paras(m)[i].at \in 1..Len(m)
                                        /\ ReadFrom(m, Paras(m)[i], At(Paras(m), i - 1), Paras(m)[i].at)
<1>1. PICK n \in Nat : n = Len(m)
  BY LenProperties
<1>2. PICK none : none = [at |-> 0, paras |-> <<>>, pending |-> FALSE]
  OBVIOUS
<1>3. none \in ReadState
  <2>1. <<>> \in Seq(Para)
    BY EmptySeq
  <2> QED
    BY <1>2, <2>1 DEF ReadState
<1>4. HasRead(m, 0, none)
  <2>1. none.paras = <<>> /\ Len(<<>>) = 0 /\ none.at = 0 /\ none.pending = FALSE
    BY <1>2
  <2>2. At(<<>>, 0) = 0
    BY DEF At
  <2> QED
    BY <1>3, <2>1, <2>2 DEF HasRead
<1> DEFINE step == [i \in 1..n |-> [s \in ReadState |-> Carry(s, m[i])]]
<1>5. \A i \in 1..n, s \in ReadState : Carry(s, m[i]) \in ReadState
  <2> TAKE i \in 1..n, s \in ReadState
  <2>1. PICK p \in Typed : p = m[i]
    BY <1>1, ElementOfSeq
  <2>2. PICK ps \in Seq(Para), a \in Nat, b \in BOOLEAN : s = [at |-> a, paras |-> ps, pending |-> b]
    BY DEF ReadState
  <2>3. CASE p.text = ""
    <3>1. Carry(s, p) = [at |-> a + 1, paras |-> ps, pending |-> (b \/ p.brk # "none")]
      BY <2>2, <2>3 DEF Carry
    <3> QED
      BY <2>1, <3>1 DEF ReadState
  <2>4. CASE p.text # ""
    <3>0. PICK o \in BOOLEAN : o = (p.brk = "before" \/ b)
      BY Zenon
    <3>1. PICK q \in Para : q = [at |-> a + 1, style |-> p.style, text |-> p.text, made |-> p.made, opens |-> o]
      <4>1. p.style \in STRING /\ p.text \in STRING /\ p.made \in Makings /\ a + 1 \in Nat
        BY DEF Typed
      <4> QED
        BY <4>1 DEF Para
    <3>2. Carry(s, p) = [at |-> a + 1, paras |-> Append(ps, q), pending |-> (p.brk = "after")]
      <4>1. s.at = a /\ s.paras = ps /\ s.pending = b
        BY <2>2
      <4> QED
        BY <2>4, <3>0, <3>1, <4>1, Zenon DEF Carry
    <3>3. Append(ps, q) \in Seq(Para)
      BY AppendProperties
    <3> QED
      BY <2>1, <3>2, <3>3 DEF ReadState
  <2> QED
    BY <2>3, <2>4
<1>6. step \in [1..n -> [ReadState -> ReadState]] /\ \A i \in 1..n, s \in ReadState : step[i][s] = Carry(s, m[i])
  BY <1>5
<1> HIDE DEF step
<1>7. PICK f : Iterates(f, ReadState, none, n, step)
  BY <1>3, <1>6, Recursion
<1>8. f \in [0..n -> ReadState] /\ f[0] = none /\ \A i \in 1..n : f[i] = Carry(f[i - 1], m[i])
  <2>1. f \in [0..n -> ReadState] /\ f[0] = none /\ \A i \in 1..n : f[i] = step[i][f[i - 1]]
    BY <1>7 DEF Iterates
  <2>2. \A i \in 1..n : f[i - 1] \in ReadState
    BY <2>1
  <2> QED
    BY <1>6, <2>1, <2>2
<1> DEFINE read == CHOOSE g : g = [i \in 0..n |-> IF i = 0 THEN [at |-> 0, paras |-> <<>>, pending |-> FALSE]
                                                ELSE Carry(g[i - 1], m[i])]
<1>9. Paras(m) = read[n].paras
  BY <1>1, Zenon DEF Paras
<1>10. \E g : g = [i \in 0..n |-> IF i = 0 THEN [at |-> 0, paras |-> <<>>, pending |-> FALSE] ELSE Carry(g[i - 1], m[i])]
  <2>1. \A i \in 0..n : f[i] = IF i = 0 THEN none ELSE Carry(f[i - 1], m[i])
    BY <1>8
  <2>2. f = [i \in 0..n |-> IF i = 0 THEN none ELSE Carry(f[i - 1], m[i])]
    BY <1>8, <2>1
  <2> QED
    BY <1>2, <2>2, Zenon
<1>11. read = [i \in 0..n |-> IF i = 0 THEN none ELSE Carry(read[i - 1], m[i])]
  BY <1>2, <1>10, Zenon
<1> HIDE DEF read
<1> DEFINE I == {i \in 0..n : HasRead(m, i, read[i])}
<1>12. 0 \in I
  <2>1. read[0] = none
    BY <1>11
  <2> QED
    BY <1>4, <2>1
<1>13. ASSUME NEW i \in 1..n, i - 1 \in I PROVE i \in I
  <2>1. read[i] = Carry(read[i - 1], m[i]) /\ i \in 0..n /\ i \in 1..Len(m)
    BY <1>1, <1>11
  <2>2. HasRead(m, i - 1, read[i - 1])
    BY <1>13
  <2>3. HasRead(m, i, Carry(read[i - 1], m[i]))
    BY <2>1, <2>2, CarryReads
  <2> QED
    BY <2>1, <2>3
<1>14. n \in I
  <2>1. n \in 0..n
    OBVIOUS
  <2> HIDE DEF I
  <2> QED
    BY <1>12, <1>13, <2>1, SetInduction
<1> QED
  BY <1>1, <1>9, <1>14 DEF HasRead, ReadState

-----------------------------------------------------------------------------
(* The body.                                                               *)

\* Only one sequence lists a set in order.
LEMMA AscendingOnly ==
  ASSUME NEW n \in Nat, NEW S \in SUBSET (1..n), NEW K \in Nat, NEW f \in [1..K -> S],
         \A k, l \in 1..K : k < l => f[k] < f[l],
         \A i \in S : \E k \in 1..K : f[k] = i
  PROVE  Len(Ascending(S)) = K /\ \A k \in 1..K : Ascending(S)[k] = f[k]
<1>0. PICK a : a = Ascending(S)
  OBVIOUS
<1>1. PICK A \in Nat : A = Len(a) /\ \A k \in 1..A : a[k] \in S
  BY <1>0, AscendingIs
<1>2. (\A k, l \in 1..A : k < l => a[k] < a[l]) /\ \A i \in S : \E k \in 1..A : a[k] = i
  BY <1>0, <1>1, AscendingIs
<1>3. \A i \in S : i \in Nat /\ ~ (i < i)
  OBVIOUS
<1> DEFINE Odd == {k \in Nat : k \in 1..A /\ k \in 1..K /\ a[k] # f[k]}
<1>4. Odd = {}
  <2> SUFFICES ASSUME Odd # {} PROVE FALSE
    OBVIOUS
  <2>1. Odd \in SUBSET Nat
    OBVIOUS
  <2>2. PICK k \in Odd : \A j \in Odd : k <= j
    <3> HIDE DEF Odd
    <3> QED
      BY <2>1, LeastNatural
  <2>3. k \in 1..A /\ k \in 1..K /\ a[k] # f[k]
    OBVIOUS
  <2>4. \A j \in 1..A : j < k => j \in 1..K /\ a[j] = f[j]
    BY <2>2, <2>3
  <2>5. \A j \in 1..K : j < k => j \in 1..A /\ a[j] = f[j]
    BY <2>2, <2>3
  <2>6. a[k] \in S /\ f[k] \in S
    BY <1>1, <2>3
  <2>7. PICK l \in 1..K : f[l] = a[k]
    BY <2>6
  <2>8. PICK j \in 1..A : a[j] = f[k]
    BY <1>2, <2>6
  <2>9. ~ (l < k)
    <3> SUFFICES ASSUME l < k PROVE FALSE
      OBVIOUS
    <3>1. l \in 1..A /\ a[l] = a[k]
      BY <2>5, <2>7
    <3>2. a[l] < a[k]
      BY <1>2, <2>3, <3>1
    <3> QED
      BY <1>3, <2>6, <3>1, <3>2, Zenon
  <2>10. ~ (j < k)
    <3> SUFFICES ASSUME j < k PROVE FALSE
      OBVIOUS
    <3>1. j \in 1..K /\ f[j] = f[k]
      BY <2>4, <2>8
    <3>2. f[j] < f[k]
      BY <2>3, <3>1
    <3> QED
      BY <1>3, <2>6, <3>1, <3>2, Zenon
  <2>11. l # k /\ j # k
    BY <2>3, <2>7, <2>8
  <2>12. f[k] < f[l] /\ a[k] < a[j]
    BY <1>2, <2>3, <2>9, <2>10, <2>11
  <2>13. PICK x \in Nat, y \in Nat : x = a[k] /\ y = f[k]
    BY <1>3, <2>6
  <2> QED
    BY <2>7, <2>8, <2>12, <2>13
<1>5. ~ (A < K)
  <2> SUFFICES ASSUME A < K PROVE FALSE
    OBVIOUS
  <2>1. A + 1 \in 1..K
    OBVIOUS
  <2>2. f[A + 1] \in S
    BY <2>1
  <2>3. PICK j \in 1..A : a[j] = f[A + 1]
    BY <1>2, <2>2
  <2>4. j \in 1..K /\ j < A + 1 /\ a[j] = f[j]
    BY <1>4
  <2>5. f[j] < f[A + 1]
    BY <2>1, <2>4
  <2> QED
    BY <1>3, <2>2, <2>3, <2>4, <2>5, Zenon
<1>6. ~ (K < A)
  <2> SUFFICES ASSUME K < A PROVE FALSE
    OBVIOUS
  <2>1. K + 1 \in 1..A
    OBVIOUS
  <2>2. a[K + 1] \in S
    BY <1>1, <2>1
  <2>3. PICK j \in 1..K : f[j] = a[K + 1]
    BY <2>2
  <2>4. j \in 1..A /\ j < K + 1 /\ a[j] = f[j]
    BY <1>4
  <2>5. a[j] < a[K + 1]
    BY <1>2, <2>1, <2>4
  <2> QED
    BY <1>3, <2>2, <2>3, <2>4, <2>5, Zenon
<1>7. A = K
  BY <1>5, <1>6
<1> QED
  BY <1>0, <1>1, <1>4, <1>7

\* b has the paragraphs of p that are not Title, at these places of it.
Keeps(p, b, at) ==
  /\ b \in Seq(Para)
  /\ at \in [1..Len(b) -> {i \in 1..Len(p) : p[i].style # "title"}]
  /\ \A k \in 1..Len(b) : b[k] = p[at[k]]
  /\ \A k, l \in 1..Len(b) : k < l => at[k] < at[l]
  /\ \A i \in 1..Len(p) : p[i].style # "title" => \E k \in 1..Len(b) : at[k] = i

LEMMA UntitledKeeps ==
  ASSUME NEW p \in Seq(Para)
  PROVE  \E at : Keeps(p, Untitled(p), at)
<1>1. PICK n \in Nat : n = Len(p) /\ DOMAIN p = 1..n /\ \A i \in 1..n : p[i] \in Para
  BY LenProperties, ElementOfSeq
<1>2. PICK S \in SUBSET (1..n) : S = {i \in DOMAIN p : p[i].style # "title"}
  BY <1>1
<1>3. PICK at : at = Ascending(S)
  OBVIOUS
<1>4. PICK K \in Nat : K = Len(at) /\ DOMAIN at = 1..K
  BY <1>3, AscendingIs
<1>5. \A k \in 1..K : at[k] \in S
  BY <1>3, <1>4, AscendingIs
<1>6. (\A k, l \in 1..K : k < l => at[k] < at[l]) /\ \A i \in S : \E k \in 1..K : at[k] = i
  BY <1>3, <1>4, AscendingIs
<1>7. PICK b : b = [k \in 1..K |-> p[at[k]]]
  OBVIOUS
<1>8. b = Untitled(p)
  BY <1>2, <1>3, <1>4, <1>7, Zenon DEF Untitled
<1>9. b \in Seq(Para) /\ Len(b) = K
  <2>1. \A k \in 1..K : p[at[k]] \in Para
    BY <1>1, <1>2, <1>5
  <2>2. PICK T : T = Para
    OBVIOUS
  <2>3. b \in [1..K -> T]
    BY <1>7, <2>1, <2>2
  <2>4. \A s \in [1..K -> T] : s \in Seq(T) /\ Len(s) = K
    BY SeqDef, LenProperties
  <2> QED
    BY <2>2, <2>3, <2>4
<1>10. PICK g : g = [k \in 1..K |-> at[k]]
  OBVIOUS
<1>11. g \in [1..Len(b) -> {i \in 1..Len(p) : p[i].style # "title"}]
  BY <1>1, <1>2, <1>5, <1>9, <1>10
<1>12. \A k \in 1..Len(b) : b[k] = p[g[k]]
  BY <1>7, <1>9, <1>10
<1>13. \A k, l \in 1..Len(b) : k < l => g[k] < g[l]
  BY <1>6, <1>9, <1>10
<1>14. \A i \in 1..Len(p) : p[i].style # "title" => \E k \in 1..Len(b) : g[k] = i
  BY <1>1, <1>2, <1>6, <1>9, <1>10
<1>15. Keeps(p, b, g)
  BY <1>9, <1>11, <1>12, <1>13, <1>14 DEF Keeps
<1> QED
  BY <1>8, <1>15

\* What is kept is determined by its places.
LEMMA KeptOnly ==
  ASSUME NEW p \in Seq(Para), NEW b, NEW at, Keeps(p, b, at)
  PROVE  b = Untitled(p)
<1>1. PICK n \in Nat : n = Len(p) /\ DOMAIN p = 1..n
  BY LenProperties
<1>2. PICK S \in SUBSET (1..n) : S = {i \in DOMAIN p : p[i].style # "title"}
  BY <1>1
<1>3. PICK K \in Nat : K = Len(b) /\ b = [k \in 1..K |-> b[k]]
  <2>1. b \in Seq(Para)
    BY DEF Keeps
  <2> QED
    BY <2>1, LenProperties
<1>4. at \in [1..K -> S]
  BY <1>1, <1>2, <1>3 DEF Keeps
<1>5. \A k, l \in 1..K : k < l => at[k] < at[l]
  BY <1>3 DEF Keeps
<1>6. \A i \in S : \E k \in 1..K : at[k] = i
  BY <1>1, <1>2, <1>3 DEF Keeps
<1>7. Len(Ascending(S)) = K /\ \A k \in 1..K : Ascending(S)[k] = at[k]
  BY <1>4, <1>5, <1>6, AscendingOnly
<1>8. DOMAIN Ascending(S) = 1..K
  BY <1>7, AscendingIs
<1>9. \A k \in 1..K : b[k] = p[Ascending(S)[k]]
  BY <1>3, <1>7 DEF Keeps
<1>10. b = [k \in DOMAIN Ascending(S) |-> p[Ascending(S)[k]]]
  BY <1>3, <1>8, <1>9
<1> QED
  BY <1>2, <1>10, Zenon DEF Untitled

\* The Title paragraphs pandoc lifts are the first ones.
LEMMA LiftedAre ==
  ASSUME NEW p \in Seq(Para)
  PROVE  \E c \in 0..Len(p) : /\ PandocBlocks(p) = SubSeq(p, c + 1, Len(p))
                              /\ \A i \in 1..c : p[i].style = "title"
<1>1. PICK n \in Nat : n = Len(p) /\ DOMAIN p = 1..n
  BY LenProperties
<1> DEFINE Kept == {i \in Nat : i \in 1..(n + 1) /\ (i \in 1..n => p[i].style # "title")}
<1>2. PICK m \in Kept : \A i \in Kept : m <= i
  <2>1. Kept \in SUBSET Nat /\ n + 1 \in Kept
    OBVIOUS
  <2>2. Kept # {}
    BY <2>1
  <2> HIDE DEF Kept
  <2> QED
    BY <2>1, <2>2, LeastNatural
<1>3. PICK c \in 0..n : c = m - 1
  OBVIOUS
<1>4. \A i \in 1..c : p[i].style = "title"
  <2> SUFFICES ASSUME NEW i \in 1..c, p[i].style # "title" PROVE FALSE
    OBVIOUS
  <2>1. i \in Kept /\ i < m
    BY <1>3
  <2> QED
    BY <1>2, <1>3, <2>1
<1>5. PICK lifted : lifted = {i \in DOMAIN p : \A j \in 1 .. i : p[j].style = "title"}
  OBVIOUS
<1>6. lifted = 1..c
  <2>1. ASSUME NEW i \in 1..c PROVE i \in lifted
    <3>1. i \in 1..n /\ \A j \in 1..i : j \in 1..c
      BY <1>3
    <3> QED
      BY <1>1, <1>4, <1>5, <3>1
  <2>2. ASSUME NEW i \in lifted PROVE i \in 1..c
    <3>1. i \in 1..n /\ \A j \in 1..i : p[j].style = "title"
      BY <1>1, <1>5
    <3>2. ~ (i >= m)
      <4> SUFFICES ASSUME i >= m PROVE FALSE
        OBVIOUS
      <4>1. m \in 1..i /\ m \in 1..n
        BY <3>1
      <4>2. p[m].style = "title" /\ p[m].style # "title"
        BY <3>1, <4>1
      <4> QED
        BY <4>2
    <3> QED
      BY <1>3, <3>1, <3>2
  <2> QED
    BY <2>1, <2>2
<1>7. Cardinality(lifted) = c
  <2>1. 1 \in Int /\ c \in Int
    BY <1>3
  <2>2. Cardinality(1..c) = IF 1 > c THEN 0 ELSE c - 1 + 1
    BY <2>1, FS_Interval
  <2> QED
    BY <1>3, <1>6, <2>2
<1>8. PandocBlocks(p) = SubSeq(p, c + 1, n)
  BY <1>1, <1>5, <1>7, Zenon DEF PandocBlocks
<1> QED
  BY <1>1, <1>3, <1>4, <1>8

\* The print filter, which never sees the leading Title paragraphs, reads the
\* body the map was made of.
LEMMA PrintReadsBody ==
  ASSUME NEW p \in Seq(Para)
  PROVE  PrintBlocks(p) = Body(p)
<1>1. PICK n \in Nat : n = Len(p) /\ \A i \in 1..n : p[i] \in Para
  BY LenProperties, ElementOfSeq
<1>2. PICK c \in 0..n : /\ PandocBlocks(p) = SubSeq(p, c + 1, n)
                        /\ \A i \in 1..c : p[i].style = "title"
  BY <1>1, LiftedAre
<1>3. PICK r : r = SubSeq(p, c + 1, n)
  OBVIOUS
<1>4. r \in Seq(Para) /\ Len(r) = n - c /\ \A i \in 1..(n - c) : r[i] = p[c + i]
  <2>1. c + 1 \in Int /\ n \in Int /\ c + 1 <= n + 1 /\ \A i \in (c + 1)..n : p[i] \in Para
    BY <1>1
  <2>2. r \in Seq(Para)
    BY <1>3, <2>1, SubSeqProperties
  <2>3. Len(r) = IF c + 1 <= n THEN n - (c + 1) + 1 ELSE 0
    BY <1>3, <2>1, SubSeqProperties
  <2>4. \A i \in 1..(n - (c + 1) + 1) : r[i] = p[c + 1 + i - 1]
    BY <1>3, <2>1, SubSeqProperties
  <2>5. Len(r) = n - c
    BY <2>1, <2>3
  <2>6. \A i \in 1..(n - c) : r[i] = p[c + i]
    <3> TAKE i \in 1..(n - c)
    <3>1. i \in 1..(n - (c + 1) + 1) /\ c + 1 + i - 1 = c + i
      OBVIOUS
    <3> QED
      BY <2>4, <3>1
  <2> QED
    BY <2>2, <2>5, <2>6
<1>5. PICK at : Keeps(r, Untitled(r), at)
  BY <1>4, UntitledKeeps
<1>6. PICK b : b = Untitled(r)
  OBVIOUS
<1>7. b \in Seq(Para) /\ Len(b) \in Nat
  BY <1>5, <1>6, LenProperties DEF Keeps
<1>8. PICK K \in Nat : K = Len(b)
  BY <1>7
<1>9. /\ \A k \in 1..K : at[k] \in 1..(n - c) /\ r[at[k]].style # "title" /\ b[k] = r[at[k]]
      /\ \A k, l \in 1..K : k < l => at[k] < at[l]
      /\ \A i \in 1..(n - c) : r[i].style # "title" => \E k \in 1..K : at[k] = i
  BY <1>4, <1>5, <1>6, <1>8 DEF Keeps
<1>10. PICK g : g = [k \in 1..K |-> at[k] + c]
  OBVIOUS
<1>11. ASSUME NEW k \in 1..K PROVE g[k] \in {i \in 1..n : p[i].style # "title"} /\ b[k] = p[g[k]]
  <2>1. PICK x \in 1..(n - c) : x = at[k]
    BY <1>9
  <2>2. g[k] = c + x /\ c + x \in 1..n /\ r[x] = p[c + x]
    BY <1>4, <1>10, <2>1
  <2> QED
    BY <1>9, <2>1, <2>2
<1>12. \A k, l \in 1..K : k < l => g[k] < g[l]
  <2> SUFFICES ASSUME NEW k \in 1..K, NEW l \in 1..K, k < l PROVE g[k] < g[l]
    OBVIOUS
  <2>1. PICK x \in 1..(n - c), y \in 1..(n - c) : x = at[k] /\ y = at[l] /\ x < y
    BY <1>9
  <2>2. g[k] = x + c /\ g[l] = y + c
    BY <1>10, <2>1
  <2> QED
    BY <2>1, <2>2
<1>13. ASSUME NEW i \in 1..n, p[i].style # "title" PROVE \E k \in 1..K : g[k] = i
  <2>1. i \notin 1..c
    BY <1>2, <1>13
  <2>2. PICK x \in 1..(n - c) : c + x = i
    <3>1. i - c \in 1..(n - c) /\ c + (i - c) = i
      BY <2>1
    <3> QED
      BY <3>1
  <2>3. r[x].style # "title"
    BY <1>4, <1>13, <2>2
  <2>4. PICK k \in 1..K : at[k] = x
    BY <1>9, <2>3
  <2> QED
    BY <1>10, <2>2, <2>4
<1>14. g \in [1..K -> {i \in 1..n : p[i].style # "title"}]
  BY <1>10, <1>11
<1>15. Keeps(p, b, g)
  BY <1>1, <1>7, <1>8, <1>11, <1>12, <1>13, <1>14 DEF Keeps
<1>16. b = Untitled(p)
  BY <1>15, KeptOnly
<1> QED
  BY <1>1, <1>2, <1>3, <1>6, <1>16, Zenon DEF PrintBlocks, Body

\* The first heading, and what comes before it.
LEMMA FirstHeadIs ==
  ASSUME NEW b \in Seq(Para)
  PROVE  /\ FirstHead(b) \in 1..(Len(b) + 1)
         /\ \A i \in 1..Len(b) : i < FirstHead(b) => ~IsHead(b[i])
         /\ HasHead(b) => FirstHead(b) \in 1..Len(b) /\ IsHead(b[FirstHead(b)])
         /\ ~HasHead(b) => FirstHead(b) = Len(b) + 1
<1>1. PICK n \in Nat : n = Len(b) /\ DOMAIN b = 1..n
  BY LenProperties
<1>2. PICK heads : heads = {i \in DOMAIN b : IsHead(b[i])}
  OBVIOUS
<1>3. CASE heads = {}
  <2>1. FirstHead(b) = n + 1
    BY <1>1, <1>2, <1>3, Zenon DEF FirstHead
  <2>2. \A i \in 1..n : ~IsHead(b[i])
    BY <1>1, <1>2, <1>3
  <2> QED
    BY <1>1, <2>1, <2>2 DEF HasHead
<1>4. CASE heads # {}
  <2>1. heads \in SUBSET Nat
    BY <1>1, <1>2
  <2>2. \E i \in heads : \A j \in heads : i <= j
    BY <1>4, <2>1, LeastNatural
  <2>3. PICK f \in heads : f = FirstHead(b) /\ \A j \in heads : f <= j
    <3>1. FirstHead(b) = CHOOSE i \in heads : \A j \in heads : i <= j
      BY <1>2, <1>4, Zenon DEF FirstHead
    <3> QED
      BY <2>2, <3>1
  <2>4. f \in 1..n /\ IsHead(b[f])
    BY <1>1, <1>2
  <2>5. ASSUME NEW i \in 1..n, i < f PROVE ~IsHead(b[i])
    <3>1. i \notin heads
      BY <2>3, <2>4, <2>5
    <3> QED
      BY <1>1, <1>2, <3>1
  <2> QED
    BY <1>1, <2>3, <2>4, <2>5 DEF HasHead
<1> QED
  BY <1>3, <1>4

-----------------------------------------------------------------------------
(* Blocks.                                                                 *)

Block == [style: STRING \cup {""}, paras: Seq(Para), drop: BOOLEAN]

\* A block of the paragraphs of b from the place after y.
BlockOf(b, x, y) ==
  /\ 1 <= Len(x.paras) /\ x.style \in PieceStyles \cup {""}
  /\ \A i \in 1..Len(x.paras) :
        /\ x.paras[i] = b[y + i]
        /\ StyleOf(x.paras[i]) = x.style
        /\ x.drop => Byline(x.paras[i])

\* bs are the first n paragraphs of b in blocks, off[k] of them in the first k.
Layout(b, n, bs, off) ==
  /\ bs \in Seq(Block) /\ off \in [0..Len(bs) -> Nat] /\ off[0] = 0 /\ off[Len(bs)] = n
  /\ \A k \in 1..Len(bs) : off[k] = off[k - 1] + Len(bs[k].paras)
  /\ \A k \in 1..Len(bs) : BlockOf(b, bs[k], off[k - 1])

\* A block of one paragraph is put after the others.
LEMMA BlockAdded ==
  ASSUME NEW b \in Seq(Para), NEW n \in 1..Len(b), NEW bs, NEW off, Layout(b, n - 1, bs, off),
         NEW x \in Block, Len(x.paras) = 1, x.paras[1] = b[n], x.style = StyleOf(b[n]), x.drop => Byline(b[n])
  PROVE  \E o : Layout(b, n, Append(bs, x), o)
<1>1. PICK p \in Para : p = b[n]
  BY ElementOfSeq
<1>2. PICK K \in Nat : K = Len(bs)
  BY LenProperties DEF Layout
<1>3. bs \in Seq(Block) /\ off \in [0..K -> Nat] /\ off[0] = 0 /\ off[K] = n - 1
  BY <1>2 DEF Layout
<1>a. \A k \in 1..K : off[k] = off[k - 1] + Len(bs[k].paras)
  BY <1>2 DEF Layout
<1>b. \A k \in 1..K : BlockOf(b, bs[k], off[k - 1])
  BY <1>2 DEF Layout
<1>4. PICK cs \in Seq(Block) : cs = Append(bs, x)
  BY <1>3, AppendProperties
<1>5. Len(cs) = K + 1 /\ cs[K + 1] = x /\ \A k \in 1..K : cs[k] = bs[k]
  BY <1>2, <1>3, <1>4, AppendProperties
<1>6. n \in Nat /\ n - 1 \in Nat
  BY LenProperties
<1>7. PICK o \in [0..(K + 1) -> Nat] : o[K + 1] = n /\ \A k \in 0..K : o[k] = off[k]
  <2> DEFINE g == [k \in 0..(K + 1) |-> IF k = K + 1 THEN n ELSE off[k]]
  <2>1. \A k \in 0..(K + 1) : g[k] \in Nat
    BY <1>3, <1>6
  <2>2. g \in [0..(K + 1) -> Nat] /\ g[K + 1] = n
    BY <2>1
  <2>3. \A k \in 0..K : g[k] = off[k]
    OBVIOUS
  <2> HIDE DEF g
  <2> QED
    BY <2>2, <2>3
<1>8. Len(x.paras) = 1 /\ x.paras[1] = p
  BY <1>1
<1>9. BlockOf(b, x, n - 1)
  <2>1. x.style \in PieceStyles \cup {""}
    BY DEF StyleOf
  <2>2. ASSUME NEW i \in 1..Len(x.paras)
        PROVE  x.paras[i] = b[n - 1 + i] /\ StyleOf(x.paras[i]) = x.style /\ (x.drop => Byline(x.paras[i]))
    <3>1. i = 1 /\ n - 1 + i = n
      BY <1>6, <1>8
    <3> QED
      BY <1>1, <1>8, <3>1
  <2>3. 1 <= Len(x.paras)
    BY <1>8
  <2> QED
    BY <2>1, <2>2, <2>3 DEF BlockOf
<1>10. ASSUME NEW k \in 1..(K + 1)
       PROVE  o[k] = o[k - 1] + Len(cs[k].paras) /\ BlockOf(b, cs[k], o[k - 1])
  <2>1. CASE k = K + 1
    <3>1. cs[k] = x /\ o[k] = n /\ o[k - 1] = n - 1
      <4>1. K \in 0..K /\ k - 1 = K
        BY <2>1
      <4> QED
        BY <1>3, <1>5, <1>7, <2>1, <4>1
    <3>2. n = n - 1 + 1
      BY <1>6
    <3> QED
      BY <1>8, <1>9, <3>1, <3>2
  <2>2. CASE k # K + 1
    <3>1. k \in 1..K /\ k \in 0..K /\ k - 1 \in 0..K
      BY <2>2
    <3>2. cs[k] = bs[k] /\ o[k] = off[k] /\ o[k - 1] = off[k - 1]
      BY <1>5, <1>7, <3>1
    <3> QED
      BY <1>a, <1>b, <3>1, <3>2
  <2> QED
    BY <2>1, <2>2
<1>11. o[0] = 0
  <2>1. 0 \in 0..K
    OBVIOUS
  <2> QED
    BY <1>3, <1>7, <2>1
<1>12. Layout(b, n, cs, o)
  BY <1>4, <1>5, <1>7, <1>10, <1>11 DEF Layout
<1> QED
  BY <1>4, <1>12

\* A paragraph is put into the last block.
LEMMA BlockGrown ==
  ASSUME NEW b \in Seq(Para), NEW n \in 1..Len(b), NEW bs, NEW off, Layout(b, n - 1, bs, off),
         bs # <<>>, ~Last(bs).drop, Last(bs).style = StyleOf(b[n])
  PROVE  \E o : Layout(b, n, Append(Front(bs), [Last(bs) EXCEPT !.paras = Append(@, b[n])]), o)
<1>1. PICK p \in Para : p = b[n]
  BY ElementOfSeq
<1>2. PICK K \in Nat : K = Len(bs)
  BY LenProperties DEF Layout
<1>3. bs \in Seq(Block) /\ off \in [0..K -> Nat] /\ off[0] = 0 /\ off[K] = n - 1
  BY <1>2 DEF Layout
<1>a. \A k \in 1..K : off[k] = off[k - 1] + Len(bs[k].paras)
  BY <1>2 DEF Layout
<1>b. \A k \in 1..K : BlockOf(b, bs[k], off[k - 1])
  BY <1>2 DEF Layout
<1>4. K >= 1 /\ K \in 1..K /\ K - 1 \in 0..(K - 1) /\ 0 \in 0..(K - 1) /\ 0 \in 0..K
  <2>1. K # 0
    BY <1>2, <1>3, EmptySeq
  <2> QED
    BY <2>1
<1>5. PICK l \in Block : l = bs[K] /\ l = Last(bs)
  BY <1>2, <1>3, <1>4, ElementOfSeq DEF Last
<1>6. PICK ps \in Seq(Para), m \in Nat : ps = l.paras /\ m = Len(ps)
  <2>1. l.paras \in Seq(Para)
    BY DEF Block
  <2> QED
    BY <2>1, LenProperties
<1>7. PICK more \in Seq(Para) : more = Append(ps, p)
  BY AppendProperties
<1>8. Len(more) = m + 1 /\ more[m + 1] = p /\ \A i \in 1..m : more[i] = ps[i]
  BY <1>6, <1>7, AppendProperties
<1>9. PICK x \in Block : x = [l EXCEPT !.paras = more]
  BY DEF Block
<1>10. x.paras = more /\ x.style = l.style /\ x.drop = l.drop
  BY <1>9 DEF Block
<1>11. PICK front \in Seq(Block) : front = Front(bs) /\ Len(front) = K - 1 /\ \A k \in 1..(K - 1) : front[k] = bs[k]
  <2>1. 1 \in Int /\ K - 1 \in Int /\ 1 <= K - 1 + 1 /\ \A k \in 1..(K - 1) : bs[k] \in Block
    <3>1. K - 1 \in Int /\ 1 <= K - 1 + 1 /\ \A k \in 1..(K - 1) : k \in 1..Len(bs)
      BY <1>2, <1>4
    <3> QED
      BY <1>3, <3>1, ElementOfSeq
  <2>2. SubSeq(bs, 1, K - 1) \in Seq(Block)
    BY <2>1, SubSeqProperties
  <2>3. Len(SubSeq(bs, 1, K - 1)) = IF 1 <= K - 1 THEN K - 1 - 1 + 1 ELSE 0
    BY <2>1, SubSeqProperties
  <2>4. \A k \in 1..(K - 1 - 1 + 1) : SubSeq(bs, 1, K - 1)[k] = bs[1 + k - 1]
    BY <2>1, SubSeqProperties
  <2>5. Len(SubSeq(bs, 1, K - 1)) = K - 1
    BY <1>4, <2>3
  <2>6. \A k \in 1..(K - 1) : SubSeq(bs, 1, K - 1)[k] = bs[k]
    <3> TAKE k \in 1..(K - 1)
    <3>1. k \in 1..(K - 1 - 1 + 1) /\ 1 + k - 1 = k
      OBVIOUS
    <3> QED
      BY <2>4, <3>1
  <2> QED
    BY <1>2, <2>2, <2>5, <2>6 DEF Front
<1>12. PICK cs \in Seq(Block) : cs = Append(front, x)
  BY AppendProperties
<1>13. Len(cs) = K /\ cs[K] = x /\ \A k \in 1..(K - 1) : cs[k] = bs[k]
  <2>1. Len(cs) = K - 1 + 1 /\ cs[K - 1 + 1] = x /\ \A k \in 1..(K - 1) : cs[k] = front[k]
    BY <1>11, <1>12, AppendProperties
  <2> QED
    BY <1>11, <2>1
<1>14. cs = Append(Front(bs), [Last(bs) EXCEPT !.paras = Append(@, b[n])])
  BY <1>1, <1>5, <1>6, <1>7, <1>9, <1>11, <1>12
<1>15. n \in Nat /\ n - 1 \in Nat
  BY LenProperties
<1>16. PICK o \in [0..K -> Nat] : o[K] = n /\ \A k \in 0..(K - 1) : o[k] = off[k]
  <2> DEFINE g == [k \in 0..K |-> IF k = K THEN n ELSE off[k]]
  <2>1. \A k \in 0..K : g[k] \in Nat
    BY <1>3, <1>15
  <2>2. g \in [0..K -> Nat] /\ g[K] = n
    BY <2>1
  <2>3. \A k \in 0..(K - 1) : g[k] = off[k]
    OBVIOUS
  <2> HIDE DEF g
  <2> QED
    BY <2>2, <2>3
<1>17. ASSUME NEW k \in 1..K
       PROVE  o[k] = o[k - 1] + Len(cs[k].paras) /\ BlockOf(b, cs[k], o[k - 1])
  <2>1. CASE k = K
    <3>1. cs[k] = x /\ o[k] = n /\ o[k - 1] = off[K - 1]
      BY <1>4, <1>13, <1>16, <2>1
    <3>2. PICK y \in Nat : y = off[K - 1]
      <4>1. K - 1 \in 0..K
        BY <1>4
      <4> QED
        BY <1>3, <4>1
    <3>3. n - 1 = y + m
      BY <1>3, <1>4, <1>5, <1>6, <1>a, <3>2
    <3>4. BlockOf(b, l, y)
      BY <1>4, <1>5, <1>b, <3>2
    <3>5. \A i \in 1..m : ps[i] = b[y + i] /\ StyleOf(ps[i]) = l.style
      BY <1>6, <3>4 DEF BlockOf
    <3>6. ~x.drop /\ x.style = l.style /\ l.style = StyleOf(p)
      BY <1>1, <1>5, <1>10
    <3>7. ASSUME NEW i \in 1..(m + 1) PROVE more[i] = b[y + i] /\ StyleOf(more[i]) = l.style
      <4>1. CASE i = m + 1
        <5>1. y + i = n
          BY <1>15, <3>3, <4>1
        <5> QED
          BY <1>1, <1>8, <3>6, <4>1, <5>1
      <4>2. CASE i # m + 1
        <5>1. i \in 1..m
          BY <4>2
        <5> QED
          BY <1>8, <3>5, <5>1
      <4> QED
        BY <4>1, <4>2
    <3>8. n = y + (m + 1)
      BY <1>15, <3>3
    <3>9. l.style \in PieceStyles \cup {""}
      BY <3>4 DEF BlockOf
    <3>10. BlockOf(b, x, y)
      <4>1. x.paras = more /\ Len(x.paras) = m + 1 /\ 1 <= m + 1
        BY <1>8, <1>10
      <4>2. \A i \in 1..Len(x.paras) : x.paras[i] = b[y + i] /\ StyleOf(x.paras[i]) = x.style
        BY <3>6, <3>7, <4>1
      <4> QED
        BY <3>6, <3>9, <4>1, <4>2 DEF BlockOf
    <3> QED
      BY <1>8, <1>10, <3>1, <3>2, <3>8, <3>10
  <2>2. CASE k # K
    <3>1. k \in 1..(K - 1) /\ k \in 0..(K - 1) /\ k - 1 \in 0..(K - 1)
      BY <2>2
    <3>2. cs[k] = bs[k] /\ o[k] = off[k] /\ o[k - 1] = off[k - 1]
      BY <1>13, <1>16, <3>1
    <3> QED
      BY <1>a, <1>b, <3>1, <3>2
  <2> QED
    BY <2>1, <2>2
<1>18. o[0] = 0
  BY <1>3, <1>4, <1>16
<1>19. Layout(b, n, cs, o)
  BY <1>12, <1>13, <1>16, <1>17, <1>18 DEF Layout
<1> QED
  BY <1>14, <1>19

LEMMA GatherLaysOut ==
  ASSUME NEW b \in Seq(Para), NEW n \in 1..Len(b), NEW bs, NEW off, Layout(b, n - 1, bs, off)
  PROVE  \E o : Layout(b, n, Gather(bs, b[n]), o)
<1>1. PICK p \in Para : p = b[n]
  BY ElementOfSeq
<1>2. <<p>> \in Seq(Para)
  OBVIOUS
<1>3. CASE Byline(p)
  <2>1. PICK x \in Block : x = [style |-> "", paras |-> <<p>>, drop |-> TRUE]
    <3>1. PICK ps \in Seq(Para) : ps = <<p>>
      BY <1>2
    <3> QED
      BY <3>1 DEF Block
  <2>2. Gather(bs, p) = Append(bs, x)
    BY <1>3, <2>1 DEF Gather
  <2>3. Len(x.paras) = 1 /\ x.paras[1] = b[n] /\ x.style = StyleOf(b[n]) /\ (x.drop => Byline(b[n]))
    BY <1>1, <1>3, <2>1 DEF Byline, StyleOf
  <2>4. \E o : Layout(b, n, Append(bs, x), o)
    BY <2>3, BlockAdded
  <2> QED
    BY <1>1, <2>2, <2>4
<1>4. CASE ~Byline(p) /\ Joins(bs, p)
  <2>1. bs # <<>> /\ ~Last(bs).drop /\ Last(bs).style = StyleOf(b[n])
    BY <1>1, <1>4 DEF Joins
  <2>2. Gather(bs, p) = Append(Front(bs), [Last(bs) EXCEPT !.paras = Append(@, b[n])])
    BY <1>1, <1>4 DEF Gather
  <2>3. \E o : Layout(b, n, Append(Front(bs), [Last(bs) EXCEPT !.paras = Append(@, b[n])]), o)
    BY <2>1, BlockGrown
  <2> QED
    BY <1>1, <2>2, <2>3
<1>5. CASE ~Byline(p) /\ ~Joins(bs, p)
  <2>1. PICK x \in Block : x = [style |-> StyleOf(p), paras |-> <<p>>, drop |-> FALSE]
    <3>1. p.style \in STRING
      BY DEF Para
    <3>2. PICK y \in STRING \cup {""} : y = StyleOf(p)
      BY <3>1 DEF StyleOf
    <3>3. PICK ps \in Seq(Para) : ps = <<p>>
      BY <1>2
    <3> QED
      BY <3>2, <3>3 DEF Block
  <2>2. Gather(bs, p) = Append(bs, x)
    BY <1>5, <2>1 DEF Gather
  <2>3. Len(x.paras) = 1 /\ x.paras[1] = b[n] /\ x.style = StyleOf(b[n]) /\ (x.drop => Byline(b[n]))
    BY <1>1, <2>1
  <2>4. \E o : Layout(b, n, Append(bs, x), o)
    BY <2>3, BlockAdded
  <2> QED
    BY <1>1, <2>2, <2>4
<1> QED
  BY <1>3, <1>4, <1>5

LEMMA GatherType ==
  ASSUME NEW bs \in Seq(Block), NEW p \in Para
  PROVE  Gather(bs, p) \in Seq(Block)
<1>1. <<p>> \in Seq(Para)
  OBVIOUS
<1>2. CASE ~Byline(p) /\ Joins(bs, p)
  <2>1. bs # <<>>
    BY <1>2 DEF Joins
  <2>2. PICK K \in Nat : K = Len(bs) /\ K \in 1..K
    <3>1. Len(bs) \in Nat /\ Len(bs) # 0
      BY <2>1, LenProperties, EmptySeq
    <3> QED
      BY <3>1
  <2>3. PICK l \in Block : l = Last(bs)
    BY <2>2, ElementOfSeq DEF Last
  <2>4. PICK more \in Seq(Para) : more = Append(l.paras, p)
    <3>1. l.paras \in Seq(Para)
      BY DEF Block
    <3> QED
      BY <3>1, AppendProperties
  <2>5. PICK x \in Block : x = [l EXCEPT !.paras = more]
    BY DEF Block
  <2>6. Front(bs) \in Seq(Block)
    <3>1. 1 \in Int /\ K - 1 \in Int /\ \A k \in 1..(K - 1) : k \in 1..Len(bs)
      BY <2>2
    <3>2. \A k \in 1..(K - 1) : bs[k] \in Block
      BY <3>1, ElementOfSeq
    <3> QED
      BY <2>2, <3>1, <3>2, SubSeqProperties DEF Front
  <2>7. Append(Front(bs), x) \in Seq(Block)
    BY <2>6, AppendProperties
  <2> QED
    BY <1>2, <2>3, <2>4, <2>5, <2>7 DEF Gather
<1>3. CASE Byline(p)
  <2>1. PICK x \in Block : x = [style |-> "", paras |-> <<p>>, drop |-> TRUE]
    <3>1. PICK ps \in Seq(Para) : ps = <<p>>
      BY <1>1
    <3> QED
      BY <3>1 DEF Block
  <2>2. Append(bs, x) \in Seq(Block)
    BY AppendProperties
  <2> QED
    BY <1>3, <2>1, <2>2 DEF Gather
<1>4. CASE ~Byline(p) /\ ~Joins(bs, p)
  <2>1. PICK x \in Block : x = [style |-> StyleOf(p), paras |-> <<p>>, drop |-> FALSE]
    <3>1. p.style \in STRING
      BY DEF Para
    <3>2. PICK y \in STRING \cup {""} : y = StyleOf(p)
      BY <3>1 DEF StyleOf
    <3>3. PICK ps \in Seq(Para) : ps = <<p>>
      BY <1>1
    <3> QED
      BY <3>2, <3>3 DEF Block
  <2>2. Append(bs, x) \in Seq(Block)
    BY AppendProperties
  <2> QED
    BY <1>4, <2>1, <2>2 DEF Gather
<1> QED
  BY <1>2, <1>3, <1>4

\* A block of the paragraphs of b from the place after y, with what is dropped.
PieceOf(b, x, y) ==
  /\ 1 <= Len(x.paras) /\ x.style \in PieceStyles \cup {""} /\ (x.style = "copyright" => x.drop)
  /\ \A i \in 1..Len(x.paras) :
        /\ x.paras[i] = b[y + i]
        /\ StyleOf(x.paras[i]) = x.style
        /\ x.drop => Byline(x.paras[i]) \/ x.style = "copyright"

\* bs are the paragraphs before the first heading of b, in blocks.
Divided(b, bs, off) ==
  /\ bs \in Seq(Block) /\ off \in [0..Len(bs) -> Nat] /\ off[0] = 0 /\ off[Len(bs)] = FirstHead(b) - 1
  /\ \A k \in 1..Len(bs) : off[k] = off[k - 1] + Len(bs[k].paras)
  /\ \A k \in 1..Len(bs) : PieceOf(b, bs[k], off[k - 1])

\* The blocks are gathered from the paragraphs one by one.
LEMMA Gathered ==
  ASSUME NEW b \in Seq(Para), HasHead(b)
  PROVE  \E bs, off : /\ Layout(b, FirstHead(b) - 1, bs, off)
                      /\ Blocks(b) = DropCopyright(bs)
<1>1. PICK n \in Nat : n = FirstHead(b) - 1 /\ n <= Len(b) /\ Len(b) \in Nat
  BY FirstHeadIs, LenProperties
<1>2. \A i \in 1..n : i \in 1..Len(b)
  BY <1>1
<1>3. \A i \in 1..n : b[i] \in Para
  BY <1>2, ElementOfSeq
<1>4. PICK S : S = Seq(Block)
  OBVIOUS
<1>5. PICK none \in S : none = <<>>
  BY <1>4, EmptySeq
<1>6. \A i \in 1..n, s \in S : Gather(s, b[i]) \in S
  BY <1>3, <1>4, GatherType
<1>7. PICK step \in [1..n -> [S -> S]] : \A i \in 1..n, s \in S : step[i][s] = Gather(s, b[i])
  <2> DEFINE st == [i \in 1..n |-> [s \in S |-> Gather(s, b[i])]]
  <2>1. st \in [1..n -> [S -> S]]
    BY <1>6
  <2>2. \A i \in 1..n, s \in S : st[i][s] = Gather(s, b[i])
    OBVIOUS
  <2> HIDE DEF st
  <2> QED
    BY <2>1, <2>2
<1>8. PICK f : Iterates(f, S, none, n, step)
  BY Recursion
<1>9. f \in [0..n -> S] /\ f[0] = none /\ \A i \in 1..n : f[i] = step[i][f[i - 1]]
  BY <1>8 DEF Iterates
<1>10. \A i \in 1..n : f[i] = Gather(f[i - 1], b[i])
  <2>1. \A i \in 1..n : f[i - 1] \in S
    BY <1>9
  <2> QED
    BY <1>7, <1>9, <2>1
<1> DEFINE gathered == CHOOSE g : g = [i \in 0..n |-> IF i = 0 THEN <<>> ELSE Gather(g[i - 1], b[i])]
<1>11. Blocks(b) = DropCopyright(gathered[n])
  <2>1. PICK h : h = FirstHead(b) - 1
    OBVIOUS
  <2> DEFINE all == CHOOSE g : g = [i \in 0..h |-> IF i = 0 THEN <<>> ELSE Gather(g[i - 1], b[i])]
  <2>2. Blocks(b) = DropCopyright(all[h])
    BY <2>1, Zenon DEF Blocks
  <2>3. h = n
    BY <1>1, <2>1
  <2> QED
    BY <2>2, <2>3, Zenon
<1>12. \E g : g = [i \in 0..n |-> IF i = 0 THEN <<>> ELSE Gather(g[i - 1], b[i])]
  <2>1. \A i \in 0..n : f[i] = IF i = 0 THEN none ELSE Gather(f[i - 1], b[i])
    BY <1>9, <1>10
  <2>2. f = [i \in 0..n |-> IF i = 0 THEN none ELSE Gather(f[i - 1], b[i])]
    BY <1>9, <2>1
  <2> QED
    BY <1>5, <2>2, Zenon
<1>13. gathered = [i \in 0..n |-> IF i = 0 THEN none ELSE Gather(gathered[i - 1], b[i])]
  BY <1>5, <1>12, Zenon
<1> HIDE DEF gathered
<1> DEFINE I == {i \in 0..n : \E off : Layout(b, i, gathered[i], off)}
<1>14. 0 \in I
  <2>1. gathered[0] = none /\ none \in Seq(Block) /\ Len(none) = 0
    BY <1>4, <1>5, <1>13
  <2>2. PICK off \in [0..0 -> Nat] : off[0] = 0
    <3>1. [i \in 0..0 |-> 0] \in [0..0 -> Nat] /\ [i \in 0..0 |-> 0][0] = 0
      OBVIOUS
    <3> QED
      BY <3>1
  <2>3. Layout(b, 0, gathered[0], off)
    BY <2>1, <2>2 DEF Layout
  <2> QED
    BY <2>3
<1>15. ASSUME NEW i \in 1..n, i - 1 \in I PROVE i \in I
  <2>1. PICK off : Layout(b, i - 1, gathered[i - 1], off)
    BY <1>15
  <2>2. gathered[i] = Gather(gathered[i - 1], b[i]) /\ i \in 0..n
    BY <1>13
  <2>3. \E o : Layout(b, i, Gather(gathered[i - 1], b[i]), o)
    BY <1>2, <2>1, GatherLaysOut
  <2> QED
    BY <2>2, <2>3
<1>16. n \in I
  <2>1. n \in 0..n
    OBVIOUS
  <2> HIDE DEF I
  <2> QED
    BY <1>14, <1>15, <2>1, SetInduction
<1>17. PICK bs, off : bs = gathered[n] /\ Layout(b, n, bs, off)
  BY <1>16
<1> QED
  BY <1>1, <1>11, <1>17, Zenon

LEMMA BlocksDivide ==
  ASSUME NEW b \in Seq(Para), HasHead(b)
  PROVE  \E off : Divided(b, Blocks(b), off)
<1>1. PICK bs, off : /\ Layout(b, FirstHead(b) - 1, bs, off)
                     /\ Blocks(b) = DropCopyright(bs)
  BY Gathered
<1>2. PICK K \in Nat : K = Len(bs) /\ DOMAIN bs = 1..K
  BY <1>1, LenProperties DEF Layout
<1>3. bs \in Seq(Block) /\ off \in [0..K -> Nat] /\ off[0] = 0 /\ off[K] = FirstHead(b) - 1
  BY <1>1, <1>2 DEF Layout
<1>4. \A k \in 1..K : off[k] = off[k - 1] + Len(bs[k].paras) /\ BlockOf(b, bs[k], off[k - 1])
  BY <1>1, <1>2 DEF Layout
<1>5. \A k \in 1..K : bs[k] \in Block
  BY <1>2, <1>3, ElementOfSeq
<1>6. PICK cs : cs = [k \in 1..K |-> [bs[k] EXCEPT !.drop = @ \/ bs[k].style = "copyright"]]
  OBVIOUS
<1>7. ASSUME NEW k \in 1..K
      PROVE  cs[k] \in Block /\ cs[k].paras = bs[k].paras /\ PieceOf(b, cs[k], off[k - 1])
  <2>1. PICK x, y : x \in Block /\ x = bs[k] /\ y = off[k - 1]
    BY <1>5
  <2>2. PICK d \in BOOLEAN : d = (x.drop \/ x.style = "copyright")
    BY Zenon
  <2>3. cs[k] = [x EXCEPT !.drop = d]
    BY <1>6, <2>1, <2>2
  <2>4. PICK z \in Block : z = cs[k] /\ z.paras = x.paras /\ z.style = x.style /\ z.drop = d
    <3>1. PICK z \in Block : z = [x EXCEPT !.drop = d]
      BY <2>1 DEF Block
    <3>2. z.paras = x.paras /\ z.style = x.style /\ z.drop = d
      BY <2>1, <3>1 DEF Block
    <3> QED
      BY <2>3, <3>1, <3>2
  <2>5. BlockOf(b, x, y)
    BY <1>4, <2>1
  <2>6. PieceOf(b, z, y)
    BY <2>2, <2>4, <2>5 DEF BlockOf, PieceOf
  <2> QED
    BY <2>1, <2>4, <2>6
<1>8. cs \in Seq(Block) /\ Len(cs) = K
  <2>1. PICK T : T = Block
    OBVIOUS
  <2>2. cs \in [1..K -> T]
    BY <1>6, <1>7, <2>1
  <2>3. \A s \in [1..K -> T] : s \in Seq(T) /\ Len(s) = K
    BY SeqDef, LenProperties
  <2> QED
    BY <2>1, <2>2, <2>3
<1>9. Blocks(b) = cs
  BY <1>1, <1>2, <1>6 DEF DropCopyright
<1>10. \A k \in 1..K : off[k] = off[k - 1] + Len(cs[k].paras) /\ PieceOf(b, cs[k], off[k - 1])
  BY <1>4, <1>7
<1>11. Divided(b, cs, off)
  BY <1>3, <1>8, <1>10 DEF Divided
<1> QED
  BY <1>9, <1>11

-----------------------------------------------------------------------------
(* Pieces.                                                                 *)

\* What is left of a list of names, in its order.
LEMMA UnusedIs ==
  ASSUME NEW T, NEW names \in Seq(T), IsInjective(names), NEW used, NEW u, u = Unused(names, used)
  PROVE  /\ u \in Seq(T) /\ Len(u) \in Nat
         /\ \A i \in 1..Len(u) : u[i] \in ToSet(names) /\ u[i] \notin used
         /\ \A i, j \in 1..Len(u) : u[i] = u[j] => i = j
<1>1. PICK n \in Nat : n = Len(names) /\ DOMAIN names = 1..n /\ \A i \in 1..n : names[i] \in T
  BY LenProperties, ElementOfSeq
<1>2. PICK S \in SUBSET (1..n) : S = {i \in DOMAIN names : names[i] \notin used}
  BY <1>1
<1>3. PICK at : at = Ascending(S)
  OBVIOUS
<1>4. PICK K \in Nat : K = Len(at) /\ DOMAIN at = 1..K
  BY <1>3, AscendingIs
<1>5. \A k \in 1..K : at[k] \in S
  BY <1>3, <1>4, AscendingIs
<1>6. \A k, l \in 1..K : k < l => at[k] < at[l]
  BY <1>3, <1>4, AscendingIs
<1>7. u = [k \in 1..K |-> names[at[k]]]
  BY <1>2, <1>3, <1>4, Zenon DEF Unused
<1>8. \A k \in 1..K : u[k] \in T /\ at[k] \in 1..n /\ u[k] = names[at[k]] /\ u[k] \notin used
  BY <1>1, <1>2, <1>5, <1>7
<1>9. u \in Seq(T) /\ Len(u) = K
  <2>1. u \in [1..K -> T]
    BY <1>7, <1>8
  <2>2. \A s \in [1..K -> T] : s \in Seq(T) /\ Len(s) = K
    BY SeqDef, LenProperties
  <2> QED
    BY <2>1, <2>2
<1>10. \A k \in 1..K : u[k] \in ToSet(names)
  BY <1>1, <1>8 DEF ToSet
<1>11. ASSUME NEW i \in 1..K, NEW j \in 1..K, u[i] = u[j] PROVE i = j
  <2>1. PICK x \in 1..n, y \in 1..n : x = at[i] /\ y = at[j] /\ names[x] = names[y]
    BY <1>8, <1>11
  <2>2. x = y
    BY <1>1, <2>1 DEF IsInjective
  <2>3. (i < j => x < y) /\ (j < i => y < x)
    BY <1>6, <2>1
  <2> QED
    BY <2>2, <2>3
<1> QED
  BY <1>8, <1>9, <1>10, <1>11

NamesSet == ToSet(UntitledNames)

LEMMA UntitledNamesAre ==
  NamesSet = {"dedication", "epigraph"} /\ UntitledNames \in Seq(NamesSet) /\ IsInjective(UntitledNames)
<1>1. DOMAIN UntitledNames = {1, 2} /\ UntitledNames[1] = "dedication" /\ UntitledNames[2] = "epigraph"
  BY DEF UntitledNames
<1>2. NamesSet = {"dedication", "epigraph"}
  <2>1. NamesSet = {UntitledNames[i] : i \in {1, 2}}
    BY <1>1, Zenon DEF NamesSet, ToSet
  <2> QED
    BY <1>1, <2>1
<1>3. UntitledNames \in Seq(NamesSet)
  BY <1>2 DEF UntitledNames
<1>4. IsInjective(UntitledNames)
  BY <1>1 DEF IsInjective
<1> QED
  BY <1>2, <1>3, <1>4

\* The names that are free are names of pieces, each once, that are not taken.
LEMMA FreeNamesAre ==
  ASSUME declared \in Declarations, NEW used, NEW f, f = FreeNames(used)
  PROVE  /\ Len(f) \in Nat
         /\ \A i \in 1..Len(f) : f[i] \in NamesSet /\ f[i] \notin used
         /\ \A i, j \in 1..Len(f) : f[i] = f[j] => i = j
<1>0. PICK T : T = NamesSet
  OBVIOUS
<1>1. declared \in Seq(T) /\ IsInjective(declared)
  BY <1>0, BookMapAssumption DEF NamesSet
<1>2. UntitledNames \in Seq(T) /\ IsInjective(UntitledNames)
  BY <1>0, UntitledNamesAre
<1>3. PICK taken, d, r : taken = used \cup ToSet(declared) /\ d = Unused(declared, used) /\ r = Unused(UntitledNames, taken)
  OBVIOUS
<1>4. /\ d \in Seq(T) /\ Len(d) \in Nat
      /\ \A i \in 1..Len(d) : d[i] \in ToSet(declared) /\ d[i] \notin used
      /\ \A i, j \in 1..Len(d) : d[i] = d[j] => i = j
  <2>1. PICK names : names = declared
    OBVIOUS
  <2>2. names \in Seq(T) /\ IsInjective(names) /\ d = Unused(names, used)
    BY <1>1, <1>3, <2>1
  <2>3. /\ d \in Seq(T) /\ Len(d) \in Nat
        /\ \A i \in 1..Len(d) : d[i] \in ToSet(names) /\ d[i] \notin used
        /\ \A i, j \in 1..Len(d) : d[i] = d[j] => i = j
    BY <2>2, UnusedIs
  <2> QED
    BY <2>1, <2>3
<1>5a. /\ r \in Seq(T) /\ Len(r) \in Nat
       /\ \A i \in 1..Len(r) : r[i] \in ToSet(UntitledNames) /\ r[i] \notin taken
       /\ \A i, j \in 1..Len(r) : r[i] = r[j] => i = j
  <2>1. PICK names : names = UntitledNames
    OBVIOUS
  <2>2. names \in Seq(T) /\ IsInjective(names) /\ r = Unused(names, taken)
    BY <1>2, <1>3, <2>1
  <2>3. /\ r \in Seq(T) /\ Len(r) \in Nat
        /\ \A i \in 1..Len(r) : r[i] \in ToSet(names) /\ r[i] \notin taken
        /\ \A i, j \in 1..Len(r) : r[i] = r[j] => i = j
    BY <2>2, UnusedIs
  <2> QED
    BY <2>1, <2>3
<1>5. /\ r \in Seq(T) /\ Len(r) \in Nat
      /\ \A i \in 1..Len(r) : r[i] \notin used \cup ToSet(declared)
      /\ \A i, j \in 1..Len(r) : r[i] = r[j] => i = j
  BY <1>3, <1>5a, Zenon
<1>6. PICK m \in Nat, n \in Nat : m = Len(d) /\ n = Len(r)
  BY <1>4, <1>5
<1>7. f = d \o r
  BY <1>3 DEF FreeNames
<1>8. Len(f) = m + n /\ \A i \in 1..(m + n) : f[i] = IF i <= m THEN d[i] ELSE r[i - m]
  <2>1. d \in Seq(T) /\ r \in Seq(T)
    BY <1>4, <1>5
  <2> QED
    BY <1>6, <1>7, <2>1, ConcatProperties
<1>9. \A i \in 1..m : d[i] \in T /\ d[i] \notin used /\ d[i] \in ToSet(declared)
  BY <1>4, <1>6, ElementOfSeq
<1>10. \A i \in 1..n : r[i] \in T /\ r[i] \notin used /\ r[i] \notin ToSet(declared)
  BY <1>5, <1>6, ElementOfSeq
<1>11. \A i \in 1..(m + n) : IF i <= m THEN i \in 1..m /\ f[i] = d[i] ELSE i - m \in 1..n /\ f[i] = r[i - m]
  BY <1>8
<1>12. \A i \in 1..(m + n) : f[i] \in T /\ f[i] \notin used
  BY <1>9, <1>10, <1>11
<1>13. ASSUME NEW i \in 1..(m + n), NEW j \in 1..(m + n), f[i] = f[j] PROVE i = j
  <2>1. CASE i <= m /\ j <= m
    <3>1. i \in 1..m /\ j \in 1..m /\ d[i] = d[j]
      BY <1>11, <1>13, <2>1
    <3> QED
      BY <1>4, <1>6, <3>1
  <2>2. CASE ~ (i <= m) /\ ~ (j <= m)
    <3>1. i - m \in 1..n /\ j - m \in 1..n /\ r[i - m] = r[j - m]
      BY <1>11, <1>13, <2>2
    <3>2. i - m = j - m
      BY <1>5, <1>6, <3>1
    <3> QED
      BY <3>2
  <2>3. CASE i <= m /\ ~ (j <= m)
    <3>1. i \in 1..m /\ j - m \in 1..n /\ d[i] = r[j - m]
      BY <1>11, <1>13, <2>3
    <3> QED
      BY <1>9, <1>10, <3>1
  <2>4. CASE ~ (i <= m) /\ j <= m
    <3>1. j \in 1..m /\ i - m \in 1..n /\ d[j] = r[i - m]
      BY <1>11, <1>13, <2>4
    <3> QED
      BY <1>9, <1>10, <3>1
  <2> QED
    BY <2>1, <2>2, <2>3, <2>4
<1> QED
  BY <1>0, <1>8, <1>12, <1>13

\* A piece is as long as its block, and called by its style, by a free name or a page.
Named(bs, P) ==
  /\ Len(P) = Len(bs) /\ DOMAIN P = 1..Len(bs)
  /\ \A k \in 1..Len(bs) :
        /\ P[k].count = Len(bs[k].paras) /\ P[k].drop = bs[k].drop /\ P[k].styled = (bs[k].style # "")
        /\ bs[k].drop => P[k].name = "dropped"
        /\ ~bs[k].drop /\ bs[k].style # "" => P[k].name = bs[k].style
        /\ ~bs[k].drop /\ bs[k].style = "" => P[k].name \in NamesSet \cup {"page"}
  /\ \A j, k \in 1..Len(bs) :
        j # k /\ ~bs[k].drop /\ bs[k].style = "" /\ P[j].name = P[k].name => P[k].name \notin NamesSet

LEMMA PiecesNamed ==
  ASSUME declared \in Declarations, NEW bs \in Seq(Block)
  PROVE  Named(bs, Pieces(bs))
<1>1. PICK K \in Nat : K = Len(bs) /\ DOMAIN bs = 1..K
  BY LenProperties
<1>2. \A k \in 1..K : bs[k] \in Block
  BY <1>1, ElementOfSeq
<1>3. PICK used, free : used = {bs[k].style : k \in {j \in DOMAIN bs : ~bs[j].drop}} /\ free = FreeNames(used)
  OBVIOUS
<1>3a. free = FreeNames(used)
  BY <1>3
<1>4. /\ Len(free) \in Nat
      /\ \A i \in 1..Len(free) : free[i] \in NamesSet /\ free[i] \notin used
      /\ \A i, j \in 1..Len(free) : free[i] = free[j] => i = j
  BY <1>3a, FreeNamesAre
<1> DEFINE Plain(k) == {j \in 1 .. k : ~bs[j].drop /\ bs[j].style = ""}
<1>5. \A k \in 1..K : IsFiniteSet(Plain(k)) /\ Cardinality(Plain(k)) \in Nat
  <2> TAKE k \in 1..K
  <2>1. PICK whole, part : whole = 1..k /\ part = Plain(k)
    OBVIOUS
  <2>2. 1 \in Int /\ k \in Int
    OBVIOUS
  <2>3. IsFiniteSet(whole) /\ part \in SUBSET whole
    BY <2>1, <2>2, FS_Interval
  <2>4. IsFiniteSet(part) /\ Cardinality(part) \in Nat
    BY <2>3, FS_Subset, FS_CardinalityType
  <2> QED
    BY <2>1, <2>4
<1>6. ASSUME NEW j \in 1..K, NEW k \in 1..K, j < k, k \in Plain(k)
      PROVE  Cardinality(Plain(j)) < Cardinality(Plain(k))
  <2>1. PICK part, whole : part = Plain(j) /\ whole = Plain(k)
    OBVIOUS
  <2>2. part \in SUBSET whole /\ k \in whole /\ k \notin part
    <3> HIDE DEF Plain
    <3>0. j < k
      BY <1>6
    <3>1. k \notin 1..j /\ \A i \in 1..j : i \in 1..k
      BY <3>0
    <3> USE DEF Plain
    <3> QED
      BY <1>6, <2>1, <3>1
  <2>3. IsFiniteSet(whole) /\ part # whole
    BY <1>5, <2>1, <2>2
  <2>4. Cardinality(part) <= Cardinality(whole) /\ (Cardinality(whole) = Cardinality(part) => whole = part)
    BY <2>2, <2>3, FS_Subset
  <2>5. PICK x \in Nat, y \in Nat : x = Cardinality(part) /\ y = Cardinality(whole)
    BY <1>5, <2>1
  <2>6. Cardinality(part) < Cardinality(whole)
    BY <2>3, <2>4, <2>5
  <2> QED
    BY <2>1, <2>6
<1>7. ASSUME NEW k \in 1..K, k \in Plain(k) PROVE Cardinality(Plain(k)) >= 1
  <2>1. Plain(k) # {}
    BY <1>7
  <2>2. PICK part : part = Plain(k)
    OBVIOUS
  <2>3. IsFiniteSet(part) /\ part # {} /\ Cardinality(part) \in Nat
    BY <1>5, <2>1, <2>2
  <2>4. PICK c \in Nat : c = Cardinality(part)
    BY <2>3
  <2>5. c # 0
    BY <2>3, <2>4, FS_EmptySet
  <2>6. c >= 1
    BY <2>5
  <2> QED
    BY <2>2, <2>4, <2>6
<1> DEFINE name(k) == CASE bs[k].drop -> "dropped"
                        [] ~bs[k].drop /\ bs[k].style # "" -> bs[k].style
                        [] OTHER -> IF Cardinality(Plain(k)) <= Len(free) THEN free[Cardinality(Plain(k))] ELSE "page"
<1>8. PICK P : P = Pieces(bs)
  OBVIOUS
<1>9. P = [k \in DOMAIN bs |->
              [count |-> Len(bs[k].paras), drop |-> bs[k].drop, styled |-> bs[k].style # "", name |-> name(k)]]
  BY <1>3, <1>8, Zenon DEF Pieces
<1>10. DOMAIN P = 1..K /\ Len(P) = K
  <2>1. PICK T : T = {P[k] : k \in 1..K}
    OBVIOUS
  <2>2. P \in [1..K -> T]
    BY <1>1, <1>9, <2>1
  <2>3. \A s \in [1..K -> T] : DOMAIN s = 1..K /\ Len(s) = K
    BY SeqDef, LenProperties
  <2> QED
    BY <2>2, <2>3
<1>11. \A k \in 1..K : /\ P[k].count = Len(bs[k].paras) /\ P[k].drop = bs[k].drop
                       /\ P[k].styled = (bs[k].style # "") /\ P[k].name = name(k)
  <2> HIDE DEF name
  <2> QED
    BY <1>1, <1>9
<1>12. ASSUME NEW k \in 1..K
       PROVE  /\ bs[k].drop => P[k].name = "dropped"
              /\ ~bs[k].drop /\ bs[k].style # "" => P[k].name = bs[k].style
              /\ ~bs[k].drop /\ bs[k].style = "" =>
                    \/ P[k].name = "page"
                    \/ Cardinality(Plain(k)) \in 1..Len(free) /\ P[k].name = free[Cardinality(Plain(k))]
  <2>1. bs[k].drop \in BOOLEAN
    BY <1>2 DEF Block
  <2>2. CASE bs[k].drop
    BY <1>11, <2>1, <2>2
  <2>3. CASE ~bs[k].drop /\ bs[k].style # ""
    BY <1>11, <2>1, <2>3
  <2>4. CASE ~bs[k].drop /\ bs[k].style = ""
    <3>0. k \in 1 .. k
      OBVIOUS
    <3>1. k \in Plain(k)
      BY <2>4, <3>0
    <3>2. PICK c \in Nat : c = Cardinality(Plain(k)) /\ c >= 1
      BY <1>5, <1>7, <3>1
    <3>3. name(k) = IF c <= Len(free) THEN free[c] ELSE "page"
      BY <2>4, <3>2
    <3>4. P[k].name = name(k)
      BY <1>11
    <3> HIDE DEF name, Plain
    <3>5. c <= Len(free) => c \in 1..Len(free)
      BY <1>4, <3>2
    <3> QED
      BY <2>4, <3>2, <3>3, <3>4, <3>5
  <2> QED
    BY <2>1, <2>2, <2>3, <2>4
<1> HIDE DEF name, Plain
<1>13. ASSUME NEW j \in 1..K, NEW k \in 1..K, j # k, ~bs[k].drop, bs[k].style = "", P[j].name = P[k].name
       PROVE  P[k].name \notin NamesSet
  <2> SUFFICES ASSUME P[k].name \in NamesSet PROVE FALSE
    OBVIOUS
  <2>1. P[k].name \in {"dedication", "epigraph"}
    BY UntitledNamesAre
  <2>2. PICK c \in 1..Len(free) : c = Cardinality(Plain(k)) /\ P[k].name = free[c]
    BY <1>12, <1>13, <2>1
  <2>3. CASE bs[j].drop
    BY <1>12, <1>13, <2>1, <2>3
  <2>4. CASE ~bs[j].drop /\ bs[j].style # ""
    <3>1. P[j].name \in used
      BY <1>1, <1>3, <1>12, <2>4
    <3> QED
      BY <1>4, <1>13, <2>2, <3>1
  <2>5. CASE ~bs[j].drop /\ bs[j].style = ""
    <3>1. PICK d \in 1..Len(free) : d = Cardinality(Plain(j)) /\ P[j].name = free[d]
      BY <1>12, <1>13, <2>1, <2>5
    <3>2. c = d
      BY <1>4, <1>13, <2>2, <3>1
    <3>a. j \in 1 .. j /\ k \in 1 .. k
      OBVIOUS
    <3>3. j \in Plain(j) /\ k \in Plain(k)
      BY <1>13, <2>5, <3>a DEF Plain
    <3>4. (j < k => d < c) /\ (k < j => c < d)
      BY <1>6, <2>2, <3>1, <3>3
    <3>b. j # k
      BY <1>13
    <3>5. j < k \/ k < j
      BY <3>b
    <3>6. c \in Nat /\ d \in Nat
      BY <1>4
    <3>7. ~ (d < c) /\ ~ (c < d)
      BY <3>2, <3>6
    <3> QED
      BY <3>4, <3>5, <3>7, Zenon
  <2>6. bs[j].drop \in BOOLEAN
    BY <1>2 DEF Block
  <2> QED
    BY <2>3, <2>4, <2>5, <2>6
<1>14. \A k \in 1..K : ~bs[k].drop /\ bs[k].style = "" => P[k].name \in NamesSet \cup {"page"}
  BY <1>4, <1>12
<1> QED
  BY <1>1, <1>8, <1>10, <1>11, <1>12, <1>13, <1>14 DEF Named

-----------------------------------------------------------------------------
(* Sections.                                                               *)

HeadCount(b, i) == Cardinality({j \in 1 .. i : IsHead(b[j])})

\* K headings, each at the place h gives; after them the end of the text.
HeadsAt(b, h, K) ==
  /\ K \in Nat /\ h \in [1..(K + 1) -> 1..(Len(b) + 1)] /\ h[K + 1] = Len(b) + 1
  /\ \A k \in 1..K : h[k] \in 1..Len(b) /\ IsHead(b[h[k]]) /\ h[k] < h[k + 1]
  /\ \A k, l \in 1..(K + 1) : k < l => h[k] < h[l]
  /\ \A i \in 1..Len(b) : IsHead(b[i]) => \E k \in 1..K : h[k] = i

\* The sections those headings open.
SpansAt(b, h, sp) ==
  /\ DOMAIN sp = 1..Len(sp)
  /\ \A k \in 1..Len(sp) : /\ sp[k].head = b[h[k]] /\ sp[k].paras \in Seq(Para)
                           /\ Len(sp[k].paras) = h[k + 1] - h[k] - 1
                           /\ \A i \in 1..Len(sp[k].paras) : sp[k].paras[i] = b[h[k] + i]

\* Up to the end of a section, the headings are those of the sections up to it.
Counted(b, h, K) == \A k \in 1..K : HeadCount(b, h[k + 1] - 1) = k

\* Every heading has its place, and opens the section of its number.
LEMMA SpansAre ==
  ASSUME NEW b \in Seq(Para)
  PROVE  \E h : /\ HeadsAt(b, h, Len(Spans(b))) /\ SpansAt(b, h, Spans(b))
                /\ Counted(b, h, Len(Spans(b)))
<1>1. PICK n \in Nat : n = Len(b) /\ DOMAIN b = 1..n /\ \A i \in 1..n : b[i] \in Para
  BY LenProperties, ElementOfSeq
<1>2. PICK S \in SUBSET (1..n) : S = {i \in DOMAIN b : IsHead(b[i])}
  BY <1>1
<1>3. PICK a, K : a = Ascending(S) /\ K = Len(a)
  OBVIOUS
<1>4. K \in Nat /\ DOMAIN a = 1..K
  BY <1>3, AscendingIs
<1>5. /\ \A k \in 1..K : a[k] \in S /\ Rank(S, a[k]) = k - 1
      /\ \A i \in S : \E k \in 1..K : a[k] = i
  BY <1>3, AscendingIs
<1>6. \A k, l \in 1..K : k < l => a[k] < a[l]
  BY <1>3, AscendingIs
<1>7. PICK h : h = [k \in 1..(K + 1) |-> IF k <= K THEN a[k] ELSE n + 1]
  OBVIOUS
<1>8. \A k \in 1..K : k \in 1..(K + 1) /\ k + 1 \in 1..(K + 1) /\ h[k] = a[k] /\ h[k] \in 1..n /\ IsHead(b[h[k]])
  <2> TAKE k \in 1..K
  <2>1. k \in 1..(K + 1) /\ k + 1 \in 1..(K + 1) /\ k <= K
    BY <1>4
  <2>2. h[k] = a[k]
    BY <1>7, <2>1
  <2> QED
    BY <1>2, <1>5, <2>1, <2>2
<1>9. h[K + 1] = n + 1
  <2>1. K + 1 \in 1..(K + 1) /\ ~ (K + 1 <= K)
    BY <1>4
  <2> QED
    BY <1>7, <2>1
<1>10. \A k \in 1..K : k < K => k + 1 \in 1..K /\ h[k + 1] = a[k + 1]
  BY <1>4, <1>8
<1>11. \A k \in 1..K : k = K \/ k < K
  BY <1>4
<1>12. \A k \in 1..K : h[k] < h[k + 1]
  <2> TAKE k \in 1..K
  <2>1. CASE k = K
    BY <1>8, <1>9, <2>1
  <2>2. CASE k < K
    <3>1. k + 1 \in 1..K /\ k < k + 1
      BY <1>10, <2>2
    <3>2. a[k] < a[k + 1]
      BY <1>6, <3>1
    <3> QED
      BY <1>8, <1>10, <2>2, <3>2
  <2> QED
    BY <1>11, <2>1, <2>2
<1>13. h \in [1..(K + 1) -> 1..(n + 1)]
  <2>1. \A k \in 1..(K + 1) : k \in 1..K \/ k = K + 1
    BY <1>4
  <2>2. \A k \in 1..(K + 1) : h[k] \in 1..(n + 1)
    BY <1>8, <1>9, <2>1
  <2> QED
    BY <1>7, <2>2
<1>14. HeadsAt(b, h, K)
  <2>1. \A i \in 1..n : IsHead(b[i]) => \E k \in 1..K : h[k] = i
    BY <1>1, <1>2, <1>5, <1>8
  <2>2. ASSUME NEW k \in 1..(K + 1), NEW l \in 1..(K + 1), k < l PROVE h[k] < h[l]
    <3>1. k \in 1..K /\ (l \in 1..K \/ l = K + 1)
      BY <1>4, <2>2
    <3>2. CASE l \in 1..K
      BY <1>6, <1>8, <2>2, <3>1, <3>2
    <3>3. CASE l = K + 1
      BY <1>8, <1>9, <3>1, <3>3
    <3> QED
      BY <3>1, <3>2, <3>3
  <2> QED
    BY <1>1, <1>4, <1>8, <1>9, <1>12, <1>13, <2>1, <2>2 DEF HeadsAt
<1>15. PICK sp : sp = Spans(b)
  OBVIOUS
<1> DEFINE end(k) == IF k = K THEN n ELSE a[k + 1] - 1
<1>16. sp = [k \in 1..K |-> [head |-> b[a[k]], paras |-> SubSeq(b, a[k] + 1, end(k))]]
  BY <1>1, <1>2, <1>3, <1>4, <1>15, Zenon DEF Spans
<1>17. \A k \in 1..K : end(k) = h[k + 1] - 1
  BY <1>9, <1>10, <1>11
<1>18. Len(sp) = K /\ DOMAIN sp = 1..K
  <2>1. PICK T : T = {sp[k] : k \in 1..K}
    OBVIOUS
  <2>2. sp \in [1..K -> T]
    BY <1>16, <2>1
  <2>3. \A s \in [1..K -> T] : DOMAIN s = 1..K /\ Len(s) = K
    BY <1>4, SeqDef, LenProperties
  <2> QED
    BY <2>2, <2>3
<1>19. ASSUME NEW k \in 1..K
       PROVE  /\ sp[k].head = b[h[k]] /\ sp[k].paras \in Seq(Para)
              /\ Len(sp[k].paras) = h[k + 1] - h[k] - 1
              /\ \A i \in 1..Len(sp[k].paras) : sp[k].paras[i] = b[h[k] + i]
  <2>1. PICK x \in 1..n, y \in 1..(n + 1) : x = h[k] /\ y = h[k + 1] /\ x < y
    BY <1>8, <1>12, <1>13
  <2>2. sp[k].head = b[x] /\ sp[k].paras = SubSeq(b, x + 1, y - 1)
    BY <1>8, <1>16, <1>17, <2>1
  <2>3. PICK s : s = SubSeq(b, x + 1, y - 1)
    OBVIOUS
  <2>4. x + 1 \in 1..(n + 1) /\ y - 1 \in (x + 1 - 1)..n
    BY <2>1
  <2>5. s \in Seq(Para) /\ Len(s) = y - x - 1 /\ \A i \in 1..(y - x - 1) : s[i] = b[x + i]
    <3>1. x + 1 <= y - 1 => /\ s \in Seq(Para) /\ Len(s) = y - 1 - (x + 1) + 1
                            /\ \A i \in 1..(y - 1 - (x + 1) + 1) : s[i] = b[x + 1 + i - 1]
      <4>1. x + 1 \in Int /\ y - 1 \in Int /\ \A i \in (x + 1)..(y - 1) : b[i] \in Para
        BY <1>1, <2>4
      <4>2. PICK T, u, v : T = Para /\ u = x + 1 /\ v = y - 1
        OBVIOUS
      <4>3. u \in Int /\ v \in Int /\ \A i \in u..v : b[i] \in T
        BY <4>1, <4>2
      <4>4. /\ SubSeq(b, u, v) \in Seq(T)
            /\ Len(SubSeq(b, u, v)) = IF u <= v THEN v - u + 1 ELSE 0
            /\ \A i \in 1..(v - u + 1) : SubSeq(b, u, v)[i] = b[u + i - 1]
        BY <4>3, SubSeqProperties
      <4> QED
        BY <2>3, <4>2, <4>4
    <3>2. ~ (x + 1 <= y - 1) => s = <<>>
      BY <1>1, <2>3, <2>4, SubSeqProperties
    <3>3. CASE x + 1 <= y - 1
      <4>1. y - 1 - (x + 1) + 1 = y - x - 1 /\ \A i \in 1..(y - x - 1) : x + 1 + i - 1 = x + i
        BY <2>1
      <4> QED
        BY <3>1, <3>3, <4>1
    <3>4. CASE ~ (x + 1 <= y - 1)
      <4>1. y - x - 1 = 0 /\ 1..0 = {}
        BY <2>1, <3>4
      <4> QED
        BY <3>2, <3>4, <4>1
    <3> QED
      BY <3>3, <3>4
  <2> QED
    BY <2>1, <2>2, <2>3, <2>5
<1>20. SpansAt(b, h, sp)
  BY <1>18, <1>19 DEF SpansAt
<1>21. ASSUME NEW k \in 1..K PROVE HeadCount(b, h[k + 1] - 1) = k
  <2>1. PICK y \in 1..(n + 1) : y = h[k + 1]
    BY <1>8, <1>13
  <2>2. PICK heads : heads = {j \in 1 .. (y - 1) : IsHead(b[j])}
    OBVIOUS
  <2>3. heads = {j \in S : j < y}
    <3>1. \A j : j \in 1 .. (y - 1) <=> j \in 1..n /\ j < y
      BY <2>1
    <3> QED
      BY <1>1, <1>2, <2>2, <3>1
  <2>4. CASE k = K
    <3>1. \A j \in S : j < y
      BY <1>9, <2>1, <2>4
    <3>2. heads = S
      BY <2>3, <3>1
    <3>3. K = Cardinality(S)
      <4>1. a = [i \in 1..Cardinality(S) |-> CHOOSE j \in S : Rank(S, j) = i - 1]
        BY <1>3 DEF Ascending
      <4>2. 1..K = 1..Cardinality(S)
        BY <1>4, <4>1
      <4>3. IsFiniteSet(S)
        <5>1. PICK whole : whole = 1..n
          OBVIOUS
        <5>2. 1 \in Int /\ n \in Int
          OBVIOUS
        <5>3. IsFiniteSet(whole) /\ S \in SUBSET whole
          BY <5>1, <5>2, FS_Interval
        <5> QED
          BY <5>3, FS_Subset
      <4>4. PICK c \in Nat : c = Cardinality(S)
        BY <4>3, FS_CardinalityType
      <4>5. 1..K = 1..c
        BY <4>2, <4>4
      <4>6. (K < c => c \in 1..c /\ c \notin 1..K) /\ (c < K => K \in 1..K /\ K \notin 1..c)
        BY <1>4
      <4>7. ~ (K < c) /\ ~ (c < K)
        BY <4>5, <4>6
      <4>8. K = c
        BY <1>4, <4>7
      <4> QED
        BY <4>4, <4>8
    <3> QED
      BY <2>1, <2>2, <2>4, <3>2, <3>3 DEF HeadCount
  <2>5. CASE k < K
    <3>1. k + 1 \in 1..K /\ y = a[k + 1]
      BY <1>10, <2>1, <2>5
    <3>2. Rank(S, y) = k
      BY <1>5, <3>1
    <3> QED
      BY <2>1, <2>2, <2>3, <3>2 DEF HeadCount, Rank
  <2> QED
    BY <1>11, <2>4, <2>5
<1>22. Counted(b, h, K)
  BY <1>21 DEF Counted
<1> QED
  BY <1>14, <1>15, <1>18, <1>20, <1>22

\* The same at every place of a section.
LEMMA CountedIn ==
  ASSUME NEW b \in Seq(Para), NEW K, NEW h, HeadsAt(b, h, K), Counted(b, h, K),
         NEW k \in 1..K, NEW i \in h[k]..(h[k + 1] - 1)
  PROVE  i \in 1..Len(b) /\ HeadCount(b, i) = k
<1>1. PICK n \in Nat : n = Len(b)
  BY LenProperties
<1>2. K \in Nat /\ h \in [1..(K + 1) -> 1..(n + 1)]
  BY <1>1 DEF HeadsAt
<1>3. \A j, l \in 1..(K + 1) : j < l => h[j] < h[l]
  BY DEF HeadsAt
<1>4. \A j \in 1..n : IsHead(b[j]) => \E l \in 1..K : h[l] = j
  BY <1>1 DEF HeadsAt
<1>5. k \in 1..(K + 1) /\ k + 1 \in 1..(K + 1)
  BY <1>2
<1>6. PICK x \in 1..(n + 1), y \in 1..(n + 1) : x = h[k] /\ y = h[k + 1]
  BY <1>2, <1>5
<1>7. i \in 1..n /\ x <= i /\ i < y
  BY <1>6
<1>8. ASSUME NEW j \in 1 .. (y - 1), IsHead(b[j]) PROVE j \in 1 .. i
  <2>1. j \in 1..n
    BY <1>6
  <2>2. PICK l \in 1..K : h[l] = j
    BY <1>4, <1>8, <2>1
  <2>3. l \in 1..(K + 1)
    BY <1>2
  <2>4. ~ (k + 1 < l) /\ l # k + 1
    <3>1. k + 1 < l => y < j
      BY <1>3, <1>5, <1>6, <2>2, <2>3
    <3>2. l = k + 1 => y = j
      BY <1>6, <2>2
    <3>3. ~ (y < j) /\ y # j
      BY <1>6
    <3> QED
      BY <3>1, <3>2, <3>3
  <2>5. l = k \/ l < k
    BY <1>2, <2>4
  <2>6. l < k => j < x
    BY <1>3, <1>5, <1>6, <2>2, <2>3
  <2>7. j = x \/ j < x
    BY <1>6, <2>2, <2>5, <2>6
  <2> QED
    BY <1>7, <2>7
<1>9. {j \in 1 .. i : IsHead(b[j])} = {j \in 1 .. (y - 1) : IsHead(b[j])}
  <2>1. \A j \in 1 .. i : j \in 1 .. (y - 1)
    BY <1>7
  <2> QED
    BY <1>8, <2>1
<1>10. HeadCount(b, i) = HeadCount(b, y - 1)
  BY <1>9 DEF HeadCount
<1>11. HeadCount(b, y - 1) = k
  BY <1>6 DEF Counted
<1> QED
  BY <1>1, <1>7, <1>10, <1>11

\* Before the first heading there is none, and from there on every place has its section.
LEMMA SectionsCover ==
  ASSUME NEW b \in Seq(Para), NEW K, NEW h, HeadsAt(b, h, K)
  PROVE  /\ HasHead(b) <=> K > 0
         /\ \A i \in 1..Len(b) : i < FirstHead(b) => HeadCount(b, i) = 0
         /\ \A i \in 1..Len(b) : FirstHead(b) <= i => \E k \in 1..K : i \in h[k]..(h[k + 1] - 1)
         /\ \A k \in 1..K : FirstHead(b) <= h[k]
<1>1. PICK n \in Nat : n = Len(b)
  BY LenProperties
<1>2. K \in Nat /\ h \in [1..(K + 1) -> 1..(n + 1)] /\ h[K + 1] = n + 1
  BY <1>1 DEF HeadsAt
<1>3. \A j, l \in 1..(K + 1) : j < l => h[j] < h[l]
  BY DEF HeadsAt
<1>4. \A j \in 1..n : IsHead(b[j]) => \E l \in 1..K : h[l] = j
  BY <1>1 DEF HeadsAt
<1>5. \A k \in 1..K : h[k] \in 1..n /\ IsHead(b[h[k]])
  BY <1>1 DEF HeadsAt
<1>6. PICK f \in 1..(n + 1) : f = FirstHead(b)
  BY <1>1, FirstHeadIs
<1>7. \A i \in 1..n : i < f => ~IsHead(b[i])
  BY <1>1, <1>6, FirstHeadIs
<1>8. HasHead(b) <=> f <= n
  BY <1>1, <1>6 DEF HasHead
<1>9. f <= n => f \in 1..n /\ IsHead(b[f])
  BY <1>1, <1>6, <1>8, FirstHeadIs
<1>10. \A k \in 1..K : f <= h[k]
  BY <1>5, <1>6, <1>7
<1>11. f <= n <=> K > 0
  <2>1. f <= n => K > 0
    BY <1>2, <1>4, <1>9
  <2>2. K > 0 => 1 \in 1..K
    BY <1>2
  <2>3. K > 0 => f <= n
    BY <1>5, <1>6, <1>10, <2>2
  <2> QED
    BY <2>1, <2>3
<1>12. ASSUME NEW i \in 1..n, i < f PROVE HeadCount(b, i) = 0
  <2>1. \A j \in 1 .. i : ~IsHead(b[j])
    BY <1>6, <1>7, <1>12
  <2>2. {j \in 1 .. i : IsHead(b[j])} = {}
    BY <2>1
  <2> QED
    BY <2>2, FS_EmptySet DEF HeadCount
<1>13. ASSUME NEW i \in 1..n, f <= i PROVE \E k \in 1..K : i \in h[k]..(h[k + 1] - 1)
  <2> DEFINE After == {l \in 1..(K + 1) : i < h[l]}
  <2>1. K + 1 \in After
    BY <1>2
  <2>2. After \in SUBSET Nat
    BY <1>2
  <2>3. PICK l \in After : \A k \in After : l <= k
    BY <2>1, <2>2, LeastNatural
  <2>4. l # 1
    <3>1. f \in 1..n
      BY <1>6, <1>13
    <3>2. PICK m \in 1..K : h[m] = f
      BY <1>4, <1>9, <3>1
    <3>3. m \in 1..(K + 1) /\ 1 \in 1..(K + 1)
      BY <1>2
    <3>4. m = 1 \/ 1 < m
      OBVIOUS
    <3>5. 1 < m => h[1] < h[m]
      BY <1>3, <3>3
    <3>6. h[1] <= f
      BY <1>2, <3>2, <3>3, <3>4, <3>5
    <3>7. ~ (i < h[1])
      BY <1>2, <1>6, <1>13, <3>3, <3>6
    <3> QED
      BY <2>3, <3>7
  <2>5. l - 1 \in 1..K /\ l - 1 \in 1..(K + 1) /\ l = (l - 1) + 1
    BY <1>2, <2>4
  <2>6. l - 1 \notin After
    BY <2>2, <2>3, <2>5
  <2>7. PICK x \in 1..(n + 1), y \in 1..(n + 1) : x = h[l - 1] /\ y = h[l]
    BY <1>2, <2>5
  <2>8. x <= i /\ i < y
    BY <2>5, <2>6, <2>7
  <2>9. i \in h[l - 1]..(h[(l - 1) + 1] - 1)
    BY <2>5, <2>7, <2>8
  <2> QED
    BY <2>5, <2>9
<1> QED
  BY <1>1, <1>6, <1>8, <1>10, <1>11, <1>12, <1>13

-----------------------------------------------------------------------------
(* Which piece a paragraph goes to.                                        *)

\* The piece that holds paragraph i.
PieceAt(pieces, i) ==
  LET ks == {k \in DOMAIN pieces : Taken(pieces, k) >= i} IN
  IF ks = {} THEN Len(pieces) ELSE CHOOSE k \in ks : \A j \in ks : k <= j

\* Counting finds for every paragraph its own piece.
Filed(b, bs, off, P) ==
  /\ Taken(P, Len(P)) = FirstHead(b) - 1
  /\ \A i \in 1..(FirstHead(b) - 1) :
        PieceAt(P, i) \in 1..Len(bs) /\ off[PieceAt(P, i) - 1] < i /\ i <= off[PieceAt(P, i)]
  /\ \A k \in 1..Len(bs) : \A i \in 1..Len(bs[k].paras) :
        off[k - 1] + i \in 1..(FirstHead(b) - 1) /\ PieceAt(P, off[k - 1] + i) = k

LEMMA FiledAre ==
  ASSUME NEW b \in Seq(Para), NEW bs, NEW off, Divided(b, bs, off), NEW P, Named(bs, P)
  PROVE  Filed(b, bs, off, P)
<1>1. PICK K \in Nat : K = Len(bs) /\ DOMAIN bs = 1..K
  BY LenProperties DEF Divided
<1>2. PICK n \in Nat : n = FirstHead(b) - 1
  <2>1. PICK l \in Nat : l = Len(b)
    BY LenProperties
  <2>2. PICK f \in 1..(l + 1) : f = FirstHead(b)
    BY <2>1, FirstHeadIs
  <2> QED
    BY <2>2
<1>3. off \in [0..K -> Nat] /\ off[0] = 0 /\ off[K] = n
  BY <1>1, <1>2 DEF Divided
<1>4. PICK c \in [1..K -> Nat] : \A k \in 1..K : c[k] = Len(bs[k].paras)
  <2>1. \A k \in 1..K : bs[k] \in Block
    BY <1>1, ElementOfSeq DEF Divided
  <2>2. \A k \in 1..K : Len(bs[k].paras) \in Nat
    BY <2>1, LenProperties DEF Block
  <2>3. PICK d : d = [k \in 1..K |-> Len(bs[k].paras)]
    OBVIOUS
  <2> QED
    BY <2>2, <2>3
<1>5. \A k \in 1..K : off[k] = off[k - 1] + c[k]
  BY <1>1, <1>4 DEF Divided
<1>6. Len(P) = K /\ DOMAIN P = 1..K /\ \A k \in 1..K : P[k].count = c[k]
  BY <1>1, <1>4 DEF Named
<1>7. ASSUME NEW k \in 0..K PROVE Taken(P, k) = off[k]
  <2>1. PICK f \in [0..K -> Nat] : /\ f[0] = 0
                                   /\ \A i \in 1..K : f[i] = f[i - 1] + c[i]
                                   /\ \A l \in 0..K : SumOf([j \in 1..l |-> c[j]]) = f[l]
    BY SumsOf
  <2> DEFINE I == {l \in 0..K : f[l] = off[l]}
  <2>2. 0 \in I
    BY <1>3, <2>1
  <2>3. ASSUME NEW i \in 1..K, i - 1 \in I PROVE i \in I
    <3>1. i \in 0..K
      OBVIOUS
    <3>2. f[i] = f[i - 1] + c[i] /\ off[i] = off[i - 1] + c[i]
      BY <1>5, <2>1
    <3>3. f[i - 1] = off[i - 1]
      BY <2>3
    <3> QED
      BY <3>1, <3>2, <3>3
  <2> HIDE DEF I
  <2>4. k \in I
    BY <2>2, <2>3, SetInduction
  <2>5. [j \in 1..k |-> P[j].count] = [j \in 1..k |-> c[j]]
    <3>1. \A j \in 1..k : j \in 1..K
      OBVIOUS
    <3> QED
      BY <1>6, <3>1
  <2>6. Taken(P, k) = SumOf([j \in 1..k |-> c[j]])
    BY <2>5 DEF Taken
  <2> QED
    BY <2>1, <2>4, <2>6 DEF I
<1>8. ASSUME NEW j \in 0..K, NEW k \in 0..K, j <= k PROVE off[j] <= off[k]
  <2> DEFINE I == {l \in 0..K : j <= l => off[j] <= off[l]}
  <2>1. 0 \in I
    <3>1. j <= 0 => j = 0
      OBVIOUS
    <3>2. off[0] <= off[0]
      BY <1>3
    <3> QED
      BY <3>1, <3>2
  <2>2. ASSUME NEW i \in 1..K, i - 1 \in I PROVE i \in I
    <3>1. i \in 0..K /\ i - 1 \in 0..K
      OBVIOUS
    <3>2. PICK x \in Nat, y \in Nat, z \in Nat, d \in Nat : x = off[j] /\ y = off[i - 1] /\ z = off[i] /\ d = c[i]
      BY <1>3, <1>4, <3>1
    <3>3. z = y + d
      BY <1>5, <3>2
    <3>4. j <= i - 1 => x <= y
      BY <2>2, <3>2
    <3>5. j <= i => j <= i - 1 \/ j = i
      OBVIOUS
    <3>6. j = i => x = z
      BY <3>2
    <3>7. j <= i => x <= z
      BY <3>2, <3>3, <3>4, <3>5, <3>6
    <3> QED
      BY <3>1, <3>2, <3>7
  <2> HIDE DEF I
  <2>3. k \in I
    BY <2>1, <2>2, SetInduction
  <2> QED
    BY <1>8, <2>3 DEF I
<1>9. ASSUME NEW i \in 1..n, NEW j \in 1..K, NEW k \in 1..K, off[j - 1] < i, i <= off[j], off[k - 1] < i, i <= off[k]
      PROVE  j = k
  <2>1. /\ j \in 0..K /\ k \in 0..K /\ j - 1 \in 0..K /\ k - 1 \in 0..K
    OBVIOUS
  <2>2. PICK x \in Nat, y \in Nat, u \in Nat, v \in Nat : x = off[j - 1] /\ y = off[j] /\ u = off[k - 1] /\ v = off[k]
    BY <1>3, <2>1
  <2>3. x < i /\ i <= y /\ u < i /\ i <= v
    BY <1>9, <2>2
  <2>4. j <= k - 1 => y <= u
    BY <1>8, <2>1, <2>2
  <2>5. k <= j - 1 => v <= x
    BY <1>8, <2>1, <2>2
  <2> QED
    BY <2>3, <2>4, <2>5
<1>10. ASSUME NEW i \in 1..n
       PROVE  PieceAt(P, i) \in 1..K /\ off[PieceAt(P, i) - 1] < i /\ i <= off[PieceAt(P, i)]
  <2> DEFINE ks == {k \in DOMAIN P : Taken(P, k) >= i}
  <2>1. \A k \in 1..K : k \in 0..K
    OBVIOUS
  <2>2. \A k \in 1..K : Taken(P, k) = off[k] /\ off[k] \in Nat
    BY <1>3, <1>7, <2>1
  <2>3. PICK s \in SUBSET (1..K) : s = ks
    BY <1>6
  <2>4. \A k \in 1..K : k \in s <=> i <= off[k]
    <3>1. \A k \in 1..K : off[k] >= i <=> i <= off[k]
      BY <2>2
    <3> QED
      BY <1>6, <2>2, <2>3, <3>1
  <2>5. K \in 1..K
    <3>1. K # 0
      BY <1>3
    <3> QED
      BY <3>1
  <2>6. K \in s
    BY <1>3, <2>4, <2>5
  <2>7. s \in SUBSET Nat
    OBVIOUS
  <2>8. PICK k \in s : \A j \in s : k <= j
    BY <2>6, <2>7, LeastNatural
  <2>9. \A j \in s : (\A l \in s : j <= l) => j = k
    <3> SUFFICES ASSUME NEW j \in s, \A l \in s : j <= l PROVE j = k
      OBVIOUS
    <3>1. j <= k /\ k <= j
      BY <2>8
    <3>2. j \in Nat /\ k \in Nat
      OBVIOUS
    <3> QED
      BY <3>1, <3>2
  <2>10. PieceAt(P, i) = k
    <3>1. PieceAt(P, i) = CHOOSE j \in s : \A l \in s : j <= l
      BY <2>3, <2>6, Zenon DEF PieceAt
    <3>2. PICK e : e = CHOOSE j \in s : \A l \in s : j <= l
      OBVIOUS
    <3>3. e \in s /\ \A l \in s : e <= l
      BY <2>8, <3>2, Zenon
    <3> QED
      BY <2>9, <3>1, <3>2, <3>3
  <2>11. k - 1 \notin s
    <3>1. ~ (k <= k - 1)
      OBVIOUS
    <3> QED
      BY <2>8, <3>1
  <2>12. off[k - 1] < i
    <3>1. CASE k = 1
      BY <1>3, <3>1
    <3>2. CASE k # 1
      <4>1. k - 1 \in 1..K
        BY <3>2
      <4>2. ~ (i <= off[k - 1]) /\ off[k - 1] \in Nat
        BY <2>2, <2>4, <2>11, <4>1
      <4> QED
        BY <4>2
    <3> QED
      BY <3>1, <3>2
  <2>13. i <= off[k]
    BY <2>4
  <2> QED
    BY <2>10, <2>12, <2>13
<1>11. ASSUME NEW k \in 1..K, NEW i \in 1..c[k]
       PROVE  off[k - 1] + i \in 1..n /\ PieceAt(P, off[k - 1] + i) = k
  <2>1. k \in 0..K /\ k - 1 \in 0..K /\ K \in 0..K
    OBVIOUS
  <2>2. PICK u \in Nat, v \in Nat, d \in Nat : u = off[k - 1] /\ v = off[k] /\ d = c[k]
    BY <1>3, <1>4, <2>1
  <2>3. v = u + d /\ v <= n
    BY <1>3, <1>5, <1>8, <2>1, <2>2
  <2>a. i \in 1..d
    BY <2>2
  <2>b. u + i \in 1..n /\ u < u + i /\ u + i <= v
    BY <2>3, <2>a
  <2>4. PICK x \in 1..n : x = u + i /\ u < x /\ x <= v
    BY <2>b
  <2>5. PieceAt(P, x) \in 1..K /\ off[PieceAt(P, x) - 1] < x /\ x <= off[PieceAt(P, x)]
    BY <1>10
  <2>6. PieceAt(P, x) = k
    BY <1>9, <2>2, <2>4, <2>5
  <2> QED
    BY <2>2, <2>4, <2>6
<1>12. Taken(P, Len(P)) = n
  <2>1. K \in 0..K
    OBVIOUS
  <2> QED
    BY <1>3, <1>6, <1>7, <2>1
<1>13. \A k \in 1..K : \A i \in 1..Len(bs[k].paras) : off[k - 1] + i \in 1..n /\ PieceAt(P, off[k - 1] + i) = k
  BY <1>4, <1>11
<1> QED
  BY <1>1, <1>2, <1>10, <1>12, <1>13 DEF Filed

\* Offsets do not fall, and a paragraph is in one block.
LEMMA OffsetsAre ==
  ASSUME NEW K \in Nat, NEW off \in [0..K -> Nat], \A k \in 1..K : off[k - 1] <= off[k],
         NEW j \in 1..K, NEW k \in 1..K, NEW i \in Nat, off[j - 1] < i, i <= off[k]
  PROVE  j <= k
<1>1. ASSUME NEW l \in 0..K PROVE \A m \in 0..K : l <= m => off[l] <= off[m]
  <2> DEFINE I == {m \in 0..K : l <= m => off[l] <= off[m]}
  <2>1. 0 \in I
    <3>1. l <= 0 => l = 0
      OBVIOUS
    <3> QED
      BY <3>1
  <2>2. ASSUME NEW m \in 1..K, m - 1 \in I PROVE m \in I
    <3>1. m \in 0..K /\ m - 1 \in 0..K
      OBVIOUS
    <3>2. PICK x \in Nat, y \in Nat, z \in Nat : x = off[l] /\ y = off[m - 1] /\ z = off[m]
      BY <3>1
    <3>3. y <= z /\ (l <= m - 1 => x <= y)
      BY <2>2, <3>2
    <3>4. l <= m => l <= m - 1 \/ l = m
      OBVIOUS
    <3>5. l <= m => x <= z
      BY <3>2, <3>3, <3>4
    <3> QED
      BY <3>1, <3>2, <3>5
  <2> HIDE DEF I
  <2>3. \A m \in 0..K : m \in I
    BY <2>1, <2>2, SetInduction
  <2> QED
    BY <2>3 DEF I
<1>2. j - 1 \in 0..K /\ k \in 0..K
  OBVIOUS
<1>3. PICK x \in Nat, y \in Nat : x = off[j - 1] /\ y = off[k]
  BY <1>2
<1>4. k <= j - 1 => y <= x
  BY <1>1, <1>2, <1>3
<1> QED
  BY <1>3, <1>4

\* What the filter has taken after n paragraphs of the front: it is never past
\* the piece they are in, and exactly there while every one is a block of its own.
Counting(off, K, s, n, plain) ==
  /\ s \in [piece: 1..K, left: Int]
  /\ s.left >= off[s.piece] - n
  /\ IF n = 0 THEN s.piece = 1 ELSE off[s.piece - 1] < n
  /\ plain => s.left = off[s.piece] - n /\ s.left >= 0

LEMMA ConsumeCounts ==
  ASSUME NEW K \in Nat, NEW off \in [0..K -> Nat], off[0] = 0, \A k \in 1..K : off[k - 1] < off[k],
         NEW P, Len(P) = K, \A k \in 1..K : P[k].count = off[k] - off[k - 1],
         NEW n \in 1..off[K], NEW plain \in BOOLEAN, NEW s, Counting(off, K, s, n - 1, plain),
         NEW glued, NEW w \in {0, 1}, plain => ~glued /\ w = 1
  PROVE  Counting(off, K, Consume(P, s, glued, w), n, plain)
<1>1. PICK k \in 1..K, l \in Int : s = [piece |-> k, left |-> l]
  BY DEF Counting
<1>2. s.piece = k /\ s.left = l
  BY <1>1
<1>3. k \in 0..K /\ k - 1 \in 0..K /\ K \in 0..K
  OBVIOUS
<1>4. PICK x \in Nat, y \in Nat, z \in Nat : x = off[k - 1] /\ y = off[k] /\ z = off[K]
  BY <1>3
<1>5. n \in 1..z /\ n \in Nat
  BY <1>4
<1>6. l >= y - (n - 1) /\ (plain => l = y - (n - 1) /\ l >= 0)
  BY <1>2, <1>4 DEF Counting
<1>7. x < n
  <2>1. CASE n - 1 = 0
    <3>1. k = 1
      BY <1>2, <2>1 DEF Counting
    <3>2. x = 0
      BY <1>4, <3>1
    <3> QED
      BY <1>5, <3>2
  <2>2. CASE n - 1 # 0
    <3>1. x < n - 1
      BY <1>2, <1>4, <2>2 DEF Counting
    <3> QED
      BY <1>5, <3>1
  <2> QED
    BY <2>1, <2>2
<1>8. n # 0
  BY <1>5
<1>9. CASE glued \/ l > 0 \/ k = K
  <2>1. PICK t : t = [piece |-> k, left |-> l - w]
    OBVIOUS
  <2>2. Consume(P, s, glued, w) = t
    <3>1. glued \/ s.left > 0 \/ s.piece = Len(P)
      BY <1>2, <1>9
    <3> QED
      BY <1>2, <2>1, <3>1, Zenon DEF Consume
  <2>3. t.piece = k /\ t.left = l - w /\ t \in [piece: 1..K, left: Int]
    BY <2>1
  <2>4. l - w >= y - n
    BY <1>5, <1>6
  <2>5. plain => l - w = y - n /\ l - w >= 0
    <3> SUFFICES ASSUME plain PROVE l - w = y - n /\ l - w >= 0
      OBVIOUS
    <3>1. w = 1 /\ ~glued /\ l = y - (n - 1) /\ l >= 0
      BY <1>6
    <3>2. l > 0
      <4>1. k = K => y = z
        BY <1>4
      <4> QED
        BY <1>5, <1>9, <3>1, <4>1
    <3> QED
      BY <1>5, <3>1, <3>2
  <2> QED
    BY <1>4, <1>7, <1>8, <2>2, <2>3, <2>4, <2>5 DEF Counting
<1>10. CASE ~glued /\ ~(l > 0) /\ k # K
  <2>1. k + 1 \in 1..K /\ k + 1 \in 0..K /\ (k + 1) - 1 = k
    BY <1>10
  <2>2. PICK v \in Nat : v = off[k + 1]
    BY <2>1
  <2>3. P[k + 1].count = v - y /\ y < v
    BY <1>4, <2>1, <2>2
  <2>4. PICK t : t = [piece |-> k + 1, left |-> v - y - w]
    OBVIOUS
  <2>5. Consume(P, s, glued, w) = t
    <3>1. ~ (glued \/ s.left > 0 \/ s.piece = Len(P))
      BY <1>2, <1>10
    <3>2. Consume(P, s, glued, w) = [piece |-> s.piece + 1, left |-> P[s.piece + 1].count - w]
      BY <3>1, Zenon DEF Consume
    <3>3. P[s.piece + 1].count = P[k + 1].count /\ s.piece + 1 = k + 1
      BY <1>2
    <3> QED
      BY <2>3, <2>4, <3>2, <3>3
  <2>6. t.piece = k + 1 /\ t.left = v - y - w /\ t \in [piece: 1..K, left: Int]
    BY <2>1, <2>4
  <2>7. y < n
    BY <1>5, <1>6, <1>10
  <2>8. v - y - w >= v - n
    <3>1. w = 0 \/ w = 1
      OBVIOUS
    <3>2. CASE w = 0
      BY <1>5, <2>7, <3>2
    <3>3. CASE w = 1
      BY <1>5, <2>7, <3>3
    <3> QED
      BY <3>1, <3>2, <3>3
  <2>9. plain => v - y - w = v - n /\ v - y - w >= 0
    <3> SUFFICES ASSUME plain PROVE v - y - w = v - n /\ v - y - w >= 0
      OBVIOUS
    <3>1. w = 1 /\ l = y - (n - 1) /\ l >= 0
      BY <1>6
    <3>2. y = n - 1
      BY <1>5, <1>10, <3>1
    <3> QED
      BY <1>5, <2>3, <3>1, <3>2
  <2>10. off[(k + 1) - 1] < n
    BY <1>4, <2>1, <2>7
  <2> QED
    BY <1>8, <2>2, <2>5, <2>6, <2>8, <2>9, <2>10 DEF Counting
<1> QED
  BY <1>9, <1>10

\* Up to paragraph i of the front, every one is a block of its own.
Plain(b, i) == \A j \in 1..i : b[j].made = "block"

\* The filter puts a paragraph of the front into its own piece or an earlier
\* one, and into its own until it has lost count.
LEMMA PieceForIs ==
  ASSUME NEW b \in Seq(Para), NEW bs, NEW off, Divided(b, bs, off), NEW P, Named(bs, P), Filed(b, bs, off, P),
         NEW p, NEW i \in 1..(FirstHead(b) - 1)
  PROVE  /\ PieceFor(p, b, P, i) \in 1..PieceAt(P, i)
         /\ Plain(b, i) => PieceFor(p, b, P, i) = PieceAt(P, i)
<1>1. PICK K \in Nat : K = Len(bs) /\ DOMAIN bs = 1..K
  BY LenProperties DEF Divided
<1>2. PICK f \in Nat : f = FirstHead(b) - 1 /\ i \in 1..f
  <2>1. PICK l \in Nat : l = Len(b)
    BY LenProperties
  <2>2. PICK g \in 1..(l + 1) : g = FirstHead(b)
    BY <2>1, FirstHeadIs
  <2> QED
    BY <2>2
<1>3. off \in [0..K -> Nat] /\ off[0] = 0 /\ off[K] = f
  BY <1>1, <1>2 DEF Divided
<1>4. ASSUME NEW k \in 1..K PROVE P[k].count = off[k] - off[k - 1] /\ off[k - 1] < off[k]
  <2>1. P[k].count = Len(bs[k].paras)
    BY <1>1 DEF Named
  <2>2. off[k] = off[k - 1] + Len(bs[k].paras) /\ PieceOf(b, bs[k], off[k - 1])
    BY <1>1 DEF Divided
  <2>3. PICK x \in Block : x = bs[k]
    BY <1>1, ElementOfSeq DEF Divided
  <2>4. x.paras \in Seq(Para)
    BY DEF Block
  <2>5. PICK c \in Nat : c = Len(bs[k].paras)
    BY <2>3, <2>4, LenProperties
  <2>6. 1 <= c
    BY <2>2, <2>5 DEF PieceOf
  <2>7. PICK u \in Nat, v \in Nat : u = off[k - 1] /\ v = off[k]
    <3>1. k - 1 \in 0..K /\ k \in 0..K
      OBVIOUS
    <3> QED
      BY <1>3, <3>1
  <2>8. v = u + c
    BY <2>2, <2>5, <2>7
  <2> QED
    BY <2>1, <2>5, <2>6, <2>7, <2>8
<1>5. Len(P) = K
  BY <1>1 DEF Named
<1>6. PICK q : q = PieceAt(P, i) /\ q \in 1..K /\ off[q - 1] < i /\ i <= off[q]
  BY <1>1 DEF Filed
<1>7. i \in Nat /\ K # 0 /\ 1 \in 1..K
  BY <1>2, <1>6
<1>8. PICK S : S = [piece: 1..K, left: Int]
  OBVIOUS
<1>9. PICK first \in S : first = [piece |-> 1, left |-> P[1].count] /\ Counting(off, K, first, 0, TRUE)
  <2>1. PICK u \in Nat : u = off[1]
    <3>1. 1 \in 0..K
      BY <1>7
    <3> QED
      BY <1>3, <3>1
  <2>2. P[1].count = off[1] - off[1 - 1]
    BY <1>4, <1>7
  <2>3. 1 - 1 = 0 /\ u - 0 = u
    BY <2>1
  <2>4. P[1].count = u
    BY <1>3, <2>1, <2>2, <2>3
  <2>5. PICK s : s = [piece |-> 1, left |-> u]
    OBVIOUS
  <2>6. s \in [piece: 1..K, left: Int] /\ s.piece = 1 /\ s.left = u
    BY <1>7, <2>5
  <2>7. Counting(off, K, s, 0, TRUE)
    BY <2>1, <2>3, <2>6 DEF Counting
  <2> QED
    BY <1>8, <2>4, <2>5, <2>6, <2>7
<1> DEFINE next(s, n) == Consume(P, s, Glued(p, b[n]), Weight(p, b[n]))
<1>10. \A x : Weight(p, x) \in {0, 1} /\ (x.made = "block" => Weight(p, x) = 1 /\ ~Glued(p, x))
  <2> TAKE x
  <2>1. Weight(p, x) \in {0, 1}
    BY Zenon DEF Weight
  <2>2. x.made = "block" => ~Glued(p, x)
    BY DEF Glued
  <2>3. x.made = "block" => Weight(p, x) = 1
    BY DEF Weight
  <2> QED
    BY <2>1, <2>2, <2>3
<1>11. \A n \in 1..i, s \in S : next(s, n) \in S
  <2> TAKE n \in 1..i, s \in S
  <2>1. PICK k \in 1..K, l \in Int : s.piece = k /\ s.left = l
    BY <1>8
  <2>2. PICK g, w : g = Glued(p, b[n]) /\ w = Weight(p, b[n])
    OBVIOUS
  <2>3. w \in {0, 1}
    BY <1>10, <2>2
  <2>4. CASE g \/ s.left > 0 \/ s.piece = Len(P)
    <3>1. Consume(P, s, g, w) = [piece |-> k, left |-> l - w]
      BY <2>1, <2>4 DEF Consume
    <3> QED
      BY <1>8, <2>2, <2>3, <3>1
  <2>5. CASE ~ (g \/ s.left > 0 \/ s.piece = Len(P))
    <3>1. Consume(P, s, g, w) = [piece |-> k + 1, left |-> P[k + 1].count - w]
      BY <2>1, <2>5 DEF Consume
    <3>2. k + 1 \in 1..K /\ k + 1 \in 0..K /\ k \in 0..K /\ (k + 1) - 1 = k
      BY <1>5, <2>1, <2>5
    <3>3. PICK u \in Nat, v \in Nat : u = off[k] /\ v = off[k + 1]
      BY <1>3, <3>2
    <3>4. P[k + 1].count = v - u
      BY <1>4, <3>2, <3>3
    <3> QED
      BY <1>8, <2>2, <2>3, <3>1, <3>2, <3>4
  <2> QED
    BY <2>4, <2>5
<1>12. PICK step \in [1..i -> [S -> S]] : \A n \in 1..i, s \in S : step[n][s] = next(s, n)
  <2> DEFINE st == [n \in 1..i |-> [s \in S |-> next(s, n)]]
  <2> HIDE DEF next
  <2>1. st \in [1..i -> [S -> S]]
    BY <1>11
  <2>2. \A n \in 1..i, s \in S : st[n][s] = next(s, n)
    OBVIOUS
  <2> HIDE DEF st
  <2> QED
    BY <2>1, <2>2
<1> HIDE DEF next
<1>13. PICK t : Iterates(t, S, first, i, step)
  BY <1>7, <1>9, <1>12, Recursion
<1>14. t \in [0..i -> S] /\ t[0] = first /\ \A n \in 1..i : t[n] = next(t[n - 1], n)
  <2>1. t \in [0..i -> S] /\ t[0] = first /\ \A n \in 1..i : t[n] = step[n][t[n - 1]]
    BY <1>13 DEF Iterates
  <2>2. \A n \in 1..i : t[n - 1] \in S
    BY <1>7, <2>1
  <2> QED
    BY <1>12, <2>1, <2>2
<1> DEFINE taken == CHOOSE g : g = [n \in 0..i |-> IF n = 0 THEN [piece |-> 1, left |-> P[1].count]
                                                  ELSE Consume(P, g[n - 1], Glued(p, b[n]), Weight(p, b[n]))]
<1>15. PieceFor(p, b, P, i) = taken[i].piece
  BY Zenon DEF PieceFor
<1>16. \E g : g = [n \in 0..i |-> IF n = 0 THEN [piece |-> 1, left |-> P[1].count]
                                  ELSE Consume(P, g[n - 1], Glued(p, b[n]), Weight(p, b[n]))]
  <2>1. \A n \in 0..i : t[n] = IF n = 0 THEN first ELSE next(t[n - 1], n)
    BY <1>7, <1>14
  <2>2. t = [n \in 0..i |-> IF n = 0 THEN first ELSE next(t[n - 1], n)]
    BY <1>14, <2>1
  <2> QED
    BY <1>9, <2>2, Zenon DEF next
<1>17. taken = [n \in 0..i |-> IF n = 0 THEN first ELSE next(taken[n - 1], n)]
  BY <1>9, <1>16, Zenon DEF next
<1> HIDE DEF taken
<1>18. PICK plain \in BOOLEAN : plain = Plain(b, i)
  BY Zenon DEF Plain
<1> DEFINE I == {n \in 0..i : Counting(off, K, taken[n], n, plain)}
<1>19. 0 \in I
  <2>1. taken[0] = first /\ 0 \in 0..i
    BY <1>7, <1>17
  <2>2. Counting(off, K, first, 0, plain)
    BY <1>9 DEF Counting
  <2> QED
    BY <2>1, <2>2
<1>20. ASSUME NEW n \in 1..i, n - 1 \in I PROVE n \in I
  <2>1. n \in 0..i /\ n # 0
    BY <1>7
  <2>2. PICK s : s = taken[n - 1] /\ Counting(off, K, s, n - 1, plain)
    BY <1>20
  <2>3. PICK g, w : g = Glued(p, b[n]) /\ w = Weight(p, b[n])
    OBVIOUS
  <2>4. taken[n] = Consume(P, s, g, w)
    BY <1>17, <2>1, <2>2, <2>3 DEF next
  <2>5. w \in {0, 1}
    BY <1>10, <2>3
  <2>6. plain => ~g /\ w = 1
    <3>1. plain => b[n].made = "block"
      BY <1>18 DEF Plain
    <3> QED
      BY <1>10, <2>3, <3>1
  <2>7. n \in 1..off[K]
    BY <1>2, <1>3
  <2>8. /\ off \in [0..K -> Nat] /\ off[0] = 0 /\ \A k \in 1..K : off[k - 1] < off[k]
        /\ Len(P) = K /\ \A k \in 1..K : P[k].count = off[k] - off[k - 1]
    BY <1>3, <1>4, <1>5
  <2>9. Counting(off, K, Consume(P, s, g, w), n, plain)
    BY <2>2, <2>5, <2>6, <2>7, <2>8, ConsumeCounts
  <2> QED
    BY <2>1, <2>4, <2>9
<1>21. i \in I
  <2>1. i \in 0..i
    BY <1>7
  <2> HIDE DEF I
  <2> QED
    BY <1>7, <1>19, <1>20, <2>1, SetInduction
<1>22. PICK s : s = taken[i] /\ Counting(off, K, s, i, plain)
  BY <1>21
<1>23. PICK k \in 1..K, l \in Int : s.piece = k /\ s.left = l
  BY <1>22 DEF Counting
<1>24. off[k - 1] < i
  <2>1. i # 0
    BY <1>2
  <2> QED
    BY <1>22, <1>23, <2>1 DEF Counting
<1>25. \A j \in 1..K : off[j - 1] <= off[j]
  <2> TAKE j \in 1..K
  <2>1. j - 1 \in 0..K /\ j \in 0..K
    OBVIOUS
  <2>2. PICK u \in Nat, v \in Nat : u = off[j - 1] /\ v = off[j]
    BY <1>3, <2>1
  <2> QED
    BY <1>4, <2>2
<1>26. k <= q
  BY <1>3, <1>6, <1>7, <1>24, <1>25, OffsetsAre
<1>27. plain => q <= k
  <2> SUFFICES ASSUME plain PROVE q <= k
    OBVIOUS
  <2>1. PICK v \in Nat : v = off[k]
    <3>1. k \in 0..K
      OBVIOUS
    <3> QED
      BY <1>3, <3>1
  <2>2. l = v - i /\ l >= 0
    BY <1>22, <1>23, <2>1 DEF Counting
  <2>3. i <= off[k]
    BY <1>7, <2>1, <2>2
  <2> QED
    BY <1>3, <1>6, <1>7, <1>25, <2>3, OffsetsAre
<1>28. k \in 1..q /\ (plain => k = q)
  BY <1>6, <1>26, <1>27
<1>29. PieceFor(p, b, P, i) = k
  BY <1>15, <1>22, <1>23
<1> QED
  BY <1>6, <1>18, <1>28, <1>29

-----------------------------------------------------------------------------
(* The kinds of sections.                                                  *)

\* What is generated has a heading that says so, and a generated title page is a stub.
LEMMA GeneratedIs ==
  ASSUME NEW x, NEW k
  PROVE  \/ Generated(x, k) = ""
         \/ Generated(x, k) = "toc" /\ x.head.text = "contents"
         \/ Generated(x, k) = "title" /\ x.head.text = "booktitle" /\ IsTitleStub(x.paras)
<1>1. PICK g : g = Generated(x, k)
  OBVIOUS
<1>2. CASE k = 1 /\ x.head.text = "booktitle" /\ IsTitleStub(x.paras)
  <2>1. x.head.text # "contents"
    BY <1>2
  <2>2. g = "title"
    BY <1>1, <1>2, <2>1 DEF Generated
  <2> QED
    BY <1>1, <1>2, <2>2
<1>3. CASE ~ (k = 1 /\ x.head.text = "booktitle" /\ IsTitleStub(x.paras)) /\ x.head.text = "contents"
  <2>1. g = "toc"
    BY <1>1, <1>3 DEF Generated
  <2> QED
    BY <1>1, <1>3, <2>1
<1>4. CASE ~ (k = 1 /\ x.head.text = "booktitle" /\ IsTitleStub(x.paras)) /\ x.head.text # "contents"
  <2>1. g = ""
    BY <1>1, <1>4 DEF Generated
  <2> QED
    BY <1>1, <2>1
<1> QED
  BY <1>2, <1>3, <1>4

KindNames == {"front", "body", "back", "title", "toc"}

\* The kind of one section.
LEMMA KindIs ==
  ASSUME NEW sp, NEW k \in DOMAIN sp
  PROVE  /\ k \notin Classed(sp) => SectionKinds(sp)[k] = Generated(sp[k], k)
         /\ k \in Classed(sp) /\ FrontRun(sp) # Classed(sp) /\ k \in FrontRun(sp) => SectionKinds(sp)[k] = "front"
         /\ k \in Classed(sp) /\ FrontRun(sp) # Classed(sp) /\ k \notin FrontRun(sp) /\ k \in BackRun(sp) =>
               SectionKinds(sp)[k] = "back"
         /\ k \in Classed(sp) /\ (FrontRun(sp) = Classed(sp) \/ (k \notin FrontRun(sp) /\ k \notin BackRun(sp))) =>
               SectionKinds(sp)[k] = "body"
<1>1. PICK C, F, B : C = Classed(sp) /\ F = FrontRun(sp) /\ B = BackRun(sp)
  OBVIOUS
<1>2. PICK g : g = Generated(sp[k], k)
  OBVIOUS
<1>3. SectionKinds(sp)[k] = CASE k \notin C -> g
                       [] ~ (F = C) /\ k \in F -> "front"
                       [] ~ (F = C) /\ k \in B -> "back"
                       [] OTHER -> "body"
  <2>1. SectionKinds(sp) = [i \in DOMAIN sp |-> CASE i \notin Classed(sp) -> Generated(sp[i], i)
                                           [] ~ (FrontRun(sp) = Classed(sp)) /\ i \in FrontRun(sp) -> "front"
                                           [] ~ (FrontRun(sp) = Classed(sp)) /\ i \in BackRun(sp) -> "back"
                                           [] OTHER -> "body"]
    BY DEF SectionKinds
  <2>2. SectionKinds(sp)[k] = CASE k \notin Classed(sp) -> Generated(sp[k], k)
                         [] ~ (FrontRun(sp) = Classed(sp)) /\ k \in FrontRun(sp) -> "front"
                         [] ~ (FrontRun(sp) = Classed(sp)) /\ k \in BackRun(sp) -> "back"
                         [] OTHER -> "body"
    BY <2>1
  <2> QED
    BY <1>1, <1>2, <2>2
<1>4. PICK v : v = SectionKinds(sp)[k]
  OBVIOUS
<1>5. F \in SUBSET C
  BY <1>1 DEF FrontRun
<1>6. B \in SUBSET C /\ \A i \in B : i \notin F
  BY <1>1 DEF BackRun
<1>7. k \notin C => v = g
  BY <1>3, <1>4, <1>5, <1>6
<1>8. k \in C /\ F # C /\ k \in F => v = "front"
  BY <1>3, <1>4, <1>6
<1>9. k \in C /\ F # C /\ k \notin F /\ k \in B => v = "back"
  BY <1>3, <1>4
<1>10. k \in C /\ (F = C \/ (k \notin F /\ k \notin B)) => v = "body"
  BY <1>3, <1>4
<1> QED
  BY <1>1, <1>2, <1>4, <1>7, <1>8, <1>9, <1>10

\* Every section has a kind, and what the build generates is recognised by its heading.
KindsOf(sp, kd) ==
  /\ DOMAIN kd = DOMAIN sp
  /\ \A k \in DOMAIN sp : /\ kd[k] \in KindNames
                          /\ kd[k] = "toc" => sp[k].head.text = "contents"
                          /\ kd[k] = "title" => sp[k].head.text = "booktitle" /\ IsTitleStub(sp[k].paras)

LEMMA KindsAre ==
  ASSUME NEW sp
  PROVE  KindsOf(sp, SectionKinds(sp))
<1>1. DOMAIN SectionKinds(sp) = DOMAIN sp
  BY Zenon DEF SectionKinds
<1>2. ASSUME NEW k \in DOMAIN sp
      PROVE  /\ SectionKinds(sp)[k] \in KindNames
             /\ SectionKinds(sp)[k] = "toc" => sp[k].head.text = "contents"
             /\ SectionKinds(sp)[k] = "title" => sp[k].head.text = "booktitle" /\ IsTitleStub(sp[k].paras)
  <2>1. PICK v, x : v = SectionKinds(sp)[k] /\ x = sp[k]
    OBVIOUS
  <2>2. \/ Generated(x, k) = ""
        \/ Generated(x, k) = "toc" /\ x.head.text = "contents"
        \/ Generated(x, k) = "title" /\ x.head.text = "booktitle" /\ IsTitleStub(x.paras)
    BY GeneratedIs
  <2>3. k \in Classed(sp) <=> Generated(x, k) = ""
    BY <2>1 DEF Classed
  <2>4. CASE k \notin Classed(sp)
    <3>1. v = Generated(x, k)
      BY <2>1, <2>4, KindIs
    <3> QED
      BY <2>1, <2>2, <2>3, <2>4, <3>1 DEF KindNames
  <2>5. CASE k \in Classed(sp)
    <3>0. PICK C, F, B : C = Classed(sp) /\ F = FrontRun(sp) /\ B = BackRun(sp)
      OBVIOUS
    <3>a. /\ k \in C /\ F # C /\ k \in F => v = "front"
          /\ k \in C /\ F # C /\ k \notin F /\ k \in B => v = "back"
          /\ k \in C /\ (F = C \/ (k \notin F /\ k \notin B)) => v = "body"
      BY <2>1, <3>0, KindIs
    <3>b. k \in C
      BY <2>5, <3>0
    <3>1. v = "front" \/ v = "back" \/ v = "body"
      BY <3>a, <3>b
    <3> QED
      BY <2>1, <3>1 DEF KindNames
  <2> QED
    BY <2>4, <2>5
<1> QED
  BY <1>1, <1>2 DEF KindsOf

\* Front matter comes first and back matter last.
LEMMA KindsOrdered ==
  ASSUME NEW sp, NEW K \in Nat, DOMAIN sp = 1..K, NEW j \in 1..K, NEW k \in 1..K, j < k
  PROVE  /\ SectionKinds(sp)[k] = "front" => SectionKinds(sp)[j] \notin {"body", "back"}
         /\ SectionKinds(sp)[j] = "back" => SectionKinds(sp)[k] \notin {"front", "body"}
<1>1. PICK C, F, B : C = Classed(sp) /\ F = FrontRun(sp) /\ B = BackRun(sp)
  OBVIOUS
<1>2. C \in SUBSET (1..K)
  BY <1>1 DEF Classed
<1>3. F = {i \in C : \A l \in C : l <= i => sp[l].head.text \in FrontTerms}
  BY <1>1 DEF FrontRun
<1>4. B = {i \in C : \A l \in C : l >= i => sp[l].head.text \in BackTerms} \ F
  BY <1>1 DEF BackRun
<1>5. k \in F /\ j \in C => j \in F
  <2>1. \A l \in C : l <= j => l <= k
    BY <1>2
  <2> QED
    BY <1>3, <2>1
<1>6. j \in B /\ k \in C /\ k \notin F => k \in B
  <2>1. \A l \in C : l >= k => l >= j
    BY <1>2
  <2> QED
    BY <1>4, <2>1
<1>7. PICK u, v : u = SectionKinds(sp)[j] /\ v = SectionKinds(sp)[k]
  OBVIOUS
<1>8. j \notin C => u \notin {"front", "body", "back"}
  <2>1. j \notin C => u = Generated(sp[j], j)
    BY <1>1, <1>7, KindIs
  <2>2. Generated(sp[j], j) \notin {"front", "body", "back"}
    BY GeneratedIs
  <2> QED
    BY <2>1, <2>2
<1>9. k \notin C => v \notin {"front", "body", "back"}
  <2>1. k \notin C => v = Generated(sp[k], k)
    BY <1>1, <1>7, KindIs
  <2>2. Generated(sp[k], k) \notin {"front", "body", "back"}
    BY GeneratedIs
  <2> QED
    BY <2>1, <2>2
<1>10. /\ j \in C /\ F # C /\ j \in F => u = "front"
       /\ j \in C /\ F # C /\ j \notin F /\ j \in B => u = "back"
       /\ j \in C /\ (F = C \/ (j \notin F /\ j \notin B)) => u = "body"
  BY <1>1, <1>7, KindIs
<1>11. /\ k \in C /\ F # C /\ k \in F => v = "front"
       /\ k \in C /\ F # C /\ k \notin F /\ k \in B => v = "back"
       /\ k \in C /\ (F = C \/ (k \notin F /\ k \notin B)) => v = "body"
  BY <1>1, <1>7, KindIs
<1>12. v = "front" => k \in C /\ k \in F /\ F # C
  <2> SUFFICES ASSUME v = "front" PROVE k \in C /\ k \in F /\ F # C
    OBVIOUS
  <2>1. k \in C
    BY <1>9
  <2>2. v # "back" /\ v # "body"
    OBVIOUS
  <2> QED
    BY <1>11, <2>1, <2>2
<1>13. u = "back" => j \in C /\ j \notin F /\ j \in B /\ F # C
  <2> SUFFICES ASSUME u = "back" PROVE j \in C /\ j \notin F /\ j \in B /\ F # C
    OBVIOUS
  <2>1. j \in C
    BY <1>8
  <2>2. u # "front" /\ u # "body"
    OBVIOUS
  <2> QED
    BY <1>10, <2>1, <2>2
<1>14. v = "front" => u \notin {"body", "back"}
  BY <1>5, <1>8, <1>10, <1>12
<1>15. u = "back" /\ k \in C => v = "back"
  BY <1>5, <1>6, <1>11, <1>12, <1>13
<1>16. u = "back" => v \notin {"front", "body"}
  BY <1>9, <1>15
<1> QED
  BY <1>7, <1>14, <1>16

-----------------------------------------------------------------------------
(* The whole book.                                                         *)

\* What is in the map of m.
MapOf(m, r) ==
  /\ r.paras = Paras(m) /\ r.body = Body(Paras(m)) /\ r.blocks = Blocks(r.body) /\ r.pieces = Pieces(r.blocks)
  /\ r.spans = Spans(r.body) /\ r.kinds = SectionKinds(r.spans)

LEMMA MapBuilt ==
  ASSUME NEW m
  PROVE  MapOf(m, BuildBookMap(m))
BY DEF MapOf, BuildBookMap

\* Every paragraph of the body is one that was typed.
LEMMA BodyRead ==
  ASSUME NEW m \in Seq(Typed), NEW b, b = Body(Paras(m))
  PROVE  /\ b \in Seq(Para)
         /\ \A i \in 1..Len(b) : /\ b[i] \in Para /\ b[i].at \in 1..Len(m)
                                 /\ b[i].style = m[b[i].at].style /\ b[i].text = m[b[i].at].text
                                 /\ b[i].made = m[b[i].at].made
<1>1. PICK p \in Seq(Para) : p = Paras(m)
  BY ParasRead
<1>2. PICK at : Keeps(p, b, at)
  <2>1. b = Untitled(p)
    BY <1>1 DEF Body
  <2> QED
    BY <2>1, UntitledKeeps
<1>3. b \in Seq(Para) /\ \A k \in 1..Len(b) : at[k] \in 1..Len(p) /\ b[k] = p[at[k]]
  BY <1>2 DEF Keeps
<1>4. \A j \in 1..Len(p) : p[j].at \in 1..Len(m) /\ ReadFrom(m, p[j], At(p, j - 1), p[j].at)
  BY <1>1, ParasRead
<1>5. \A j \in 1..Len(p) : /\ p[j].style = m[p[j].at].style /\ p[j].text = m[p[j].at].text
                            /\ p[j].made = m[p[j].at].made
  BY <1>4 DEF ReadFrom
<1>6. \A i \in 1..Len(b) : b[i] \in Para
  BY <1>3, ElementOfSeq
<1>7. ASSUME NEW i \in 1..Len(b)
      PROVE  /\ b[i].at \in 1..Len(m) /\ b[i].style = m[b[i].at].style /\ b[i].text = m[b[i].at].text
             /\ b[i].made = m[b[i].at].made
  <2>1. PICK j \in 1..Len(p) : j = at[i] /\ b[i] = p[j]
    BY <1>3
  <2> QED
    BY <1>4, <1>5, <2>1
<1> QED
  BY <1>3, <1>6, <1>7

\* Where the filter puts paragraph i, by what the map has of the front and the sections.
PlaceOf(p, b, P, kd, i) ==
  LET k == HeadCount(b, i) IN
  CASE ~HasHead(b) -> "body"
    [] HasHead(b) /\ k = 0 /\ ~NoneCounts(b) -> P[PieceFor(p, b, P, i)].name
    [] HasHead(b) /\ k = 0 /\ NoneCounts(b) -> SectionPlace(kd, 1)
    [] OTHER -> IF Held(b, i) /\ SectionPlace(kd, k) # "dropped" THEN SectionPlace(kd, k + 1) ELSE SectionPlace(kd, k)

LEMMA PlaceSame ==
  ASSUME NEW m, NEW b, NEW i
  PROVE  Placed(m, b, i) = PlaceOf(m.paras, b, m.pieces, m.kinds, i)
BY Zenon DEF Placed, PlaceOf, HeadCount

\* A paragraph before the first heading goes to its piece or an earlier one, or
\* to the first section.
FrontPlace(p, b, P, kd, i) ==
  /\ i \in 1..Len(b)
  /\ \/ \E j \in 1..PieceAt(P, i) : PlaceOf(p, b, P, kd, i) = P[j].name
     \/ NoneCounts(b) /\ PlaceOf(p, b, P, kd, i) = SectionPlace(kd, 1)
  /\ Plain(b, i) => PlaceOf(p, b, P, kd, i) = P[PieceAt(P, i)].name

\* A paragraph of section k goes there or, if it is held, to the next.
BackPlace(p, b, P, kd, i, k, K) ==
  /\ i \in 1..Len(b)
  /\ ~Held(b, i) => PlaceOf(p, b, P, kd, i) = SectionPlace(kd, k)
  /\ \E j \in {k, k + 1} : j \in 1..K /\ PlaceOf(p, b, P, kd, i) = SectionPlace(kd, j)

\* A book with a heading: its pieces, its sections, and where the filter puts
\* each paragraph.
Book(p, b, bs, off, P, sp, h, kd) ==
  /\ Divided(b, bs, off) /\ Named(bs, P) /\ Filed(b, bs, off, P)
  /\ HeadsAt(b, h, Len(sp)) /\ SpansAt(b, h, sp) /\ KindsOf(sp, kd)
  /\ \A i \in 1..(FirstHead(b) - 1) : FrontPlace(p, b, P, kd, i)
  /\ \A k \in 1..Len(sp) : \A i \in h[k]..(h[k + 1] - 1) : BackPlace(p, b, P, kd, i, k, Len(sp))
  /\ \A i \in 1..Len(b) : \/ i \in 1..(FirstHead(b) - 1)
                          \/ FirstHead(b) <= i /\ \E k \in 1..Len(sp) : i \in h[k]..(h[k + 1] - 1)

\* What is held before a heading is not in the last section.
LEMMA HeldIsNotLast ==
  ASSUME NEW b \in Seq(Para), NEW K, NEW h, HeadsAt(b, h, K), NEW k \in 1..K,
         NEW i \in h[k]..(h[k + 1] - 1), Held(b, i)
  PROVE  k + 1 \in 1..K
<1>1. PICK n \in Nat : n = Len(b)
  BY LenProperties
<1>2. K \in Nat /\ h \in [1..(K + 1) -> 1..(n + 1)] /\ h[K + 1] = n + 1
  BY <1>1 DEF HeadsAt
<1>3. k \in 1..(K + 1) /\ k + 1 \in 1..(K + 1)
  BY <1>2
<1>4. PICK x \in 1..(n + 1), y \in 1..(n + 1) : x = h[k] /\ y = h[k + 1]
  BY <1>2, <1>3
<1>5. i \in x..(y - 1)
  BY <1>4
<1>6. PICK g \in (i + 1)..n : IsHead(b[g])
  BY <1>1 DEF Held
<1>7. g \in 1..n
  BY <1>5
<1>8. PICK l \in 1..K : h[l] = g
  BY <1>1, <1>6, <1>7 DEF HeadsAt
<1>9. \A j, m \in 1..(K + 1) : j < m => h[j] < h[m]
  BY DEF HeadsAt
<1>10. l \in 1..(K + 1)
  BY <1>2
<1>11. x < g
  BY <1>5
<1>12. ~ (l < k) /\ l # k
  <2>1. l < k => g < x
    BY <1>3, <1>4, <1>8, <1>9, <1>10
  <2>2. l = k => g = x
    BY <1>4, <1>8
  <2> QED
    BY <1>7, <1>11, <2>1, <2>2
<1> QED
  BY <1>2, <1>12

LEMMA BookIs ==
  ASSUME declared \in Declarations, NEW m \in Seq(Typed), NEW r, MapOf(m, r), HasHead(r.body)
  PROVE  \E off, h : Book(r.paras, r.body, r.blocks, off, r.pieces, r.spans, h, r.kinds)
<1>1. PICK b \in Seq(Para) : b = r.body
  BY BodyRead DEF MapOf
<1>2. HasHead(b)
  BY <1>1
<1>3. PICK bs, P, sp, kd, p : bs = r.blocks /\ P = r.pieces /\ sp = r.spans /\ kd = r.kinds /\ p = r.paras
  OBVIOUS
<1>4. bs = Blocks(b) /\ P = Pieces(bs) /\ sp = Spans(b) /\ kd = SectionKinds(sp)
  BY <1>1, <1>3 DEF MapOf
<1>5. PICK off : Divided(b, bs, off)
  BY <1>2, <1>4, BlocksDivide
<1>6. Named(bs, P)
  <2>1. bs \in Seq(Block)
    BY <1>5 DEF Divided
  <2> QED
    BY <1>4, <2>1, PiecesNamed
<1>7. Filed(b, bs, off, P)
  BY <1>5, <1>6, FiledAre
<1>8. PICK h : HeadsAt(b, h, Len(sp)) /\ SpansAt(b, h, sp) /\ Counted(b, h, Len(sp))
  BY <1>4, SpansAre
<1>9. KindsOf(sp, kd)
  BY <1>4, KindsAre
<1>10. PICK K \in Nat : K = Len(sp)
  BY <1>8 DEF HeadsAt
<1>11. HeadsAt(b, h, K) /\ Counted(b, h, K)
  BY <1>8, <1>10
<1>12. PICK n \in Nat : n = Len(b)
  BY LenProperties
<1>13. PICK f \in 1..n : f = FirstHead(b)
  BY <1>2, <1>12, FirstHeadIs
<1>14. /\ \A i \in 1..n : i < f => HeadCount(b, i) = 0
       /\ \A i \in 1..n : f <= i => \E k \in 1..K : i \in h[k]..(h[k + 1] - 1)
  BY <1>11, <1>12, <1>13, SectionsCover
<1>15. ASSUME NEW i \in 1..(f - 1) PROVE FrontPlace(p, b, P, kd, i)
  <2>1. i \in 1..n /\ i < f /\ i \in 1..(FirstHead(b) - 1)
    BY <1>13
  <2>2. PICK k : k = HeadCount(b, i)
    OBVIOUS
  <2>3. k = 0
    BY <1>14, <2>1, <2>2
  <2>4. PICK x, y, z : x = P[PieceFor(p, b, P, i)].name /\ y = SectionPlace(kd, 1)
                       /\ z = IF Held(b, i) /\ SectionPlace(kd, k) # "dropped"
                              THEN SectionPlace(kd, k + 1) ELSE SectionPlace(kd, k)
    OBVIOUS
  <2>5. PlaceOf(p, b, P, kd, i) = CASE ~HasHead(b) -> "body"
                                    [] HasHead(b) /\ k = 0 /\ ~NoneCounts(b) -> x
                                    [] HasHead(b) /\ k = 0 /\ NoneCounts(b) -> y
                                    [] OTHER -> z
    BY <2>2, <2>4, Zenon DEF PlaceOf
  <2>6. PieceFor(p, b, P, i) \in 1..PieceAt(P, i) /\ (Plain(b, i) => PieceFor(p, b, P, i) = PieceAt(P, i))
    BY <1>5, <1>6, <1>7, <2>1, PieceForIs
  <2>7. CASE NoneCounts(b)
    <3>1. PlaceOf(p, b, P, kd, i) = y
      BY <1>2, <2>3, <2>5, <2>7
    <3>2. ~Plain(b, i)
      <4>1. 1 \in 1..(FirstHead(b) - 1) /\ 1 \in 1..i
        BY <1>13
      <4>2. b[1].made # "block"
        BY <2>7, <4>1 DEF NoneCounts
      <4> QED
        BY <4>1, <4>2 DEF Plain
    <3> QED
      BY <1>12, <2>1, <2>4, <2>7, <3>1, <3>2 DEF FrontPlace
  <2>8. CASE ~NoneCounts(b)
    <3>1. PlaceOf(p, b, P, kd, i) = x
      BY <1>2, <2>3, <2>5, <2>8
    <3> QED
      BY <1>12, <2>1, <2>4, <2>6, <3>1 DEF FrontPlace
  <2> QED
    BY <2>7, <2>8
<1>16. ASSUME NEW k \in 1..K, NEW i \in h[k]..(h[k + 1] - 1) PROVE BackPlace(p, b, P, kd, i, k, K)
  <2>1. i \in 1..n /\ HeadCount(b, i) = k
    BY <1>11, <1>12, CountedIn
  <2>2. k # 0
    OBVIOUS
  <2>3. PICK x, y, z : x = P[PieceFor(p, b, P, i)].name /\ y = SectionPlace(kd, 1)
                       /\ z = IF Held(b, i) /\ SectionPlace(kd, k) # "dropped"
                              THEN SectionPlace(kd, k + 1) ELSE SectionPlace(kd, k)
    OBVIOUS
  <2>4. PlaceOf(p, b, P, kd, i) = CASE ~HasHead(b) -> "body"
                                    [] HasHead(b) /\ k = 0 /\ ~NoneCounts(b) -> x
                                    [] HasHead(b) /\ k = 0 /\ NoneCounts(b) -> y
                                    [] OTHER -> z
    BY <2>1, <2>3, Zenon DEF PlaceOf
  <2>5. PlaceOf(p, b, P, kd, i) = z
    BY <1>2, <2>2, <2>4
  <2>6. Held(b, i) => k + 1 \in 1..K
    BY <1>11, HeldIsNotLast
  <2>7. CASE Held(b, i) /\ SectionPlace(kd, k) # "dropped"
    <3>1. PlaceOf(p, b, P, kd, i) = SectionPlace(kd, k + 1)
      BY <2>3, <2>5, <2>7
    <3> QED
      BY <1>12, <2>1, <2>6, <2>7, <3>1 DEF BackPlace
  <2>8. CASE ~ (Held(b, i) /\ SectionPlace(kd, k) # "dropped")
    <3>1. PlaceOf(p, b, P, kd, i) = SectionPlace(kd, k)
      BY <2>3, <2>5, <2>8
    <3> QED
      BY <1>12, <2>1, <3>1 DEF BackPlace
  <2> QED
    BY <2>7, <2>8
<1>17. ASSUME NEW i \in 1..n
       PROVE  i \in 1..(f - 1) \/ (f <= i /\ \E k \in 1..K : i \in h[k]..(h[k + 1] - 1))
  <2>1. i < f \/ f <= i
    OBVIOUS
  <2>2. i < f => i \in 1..(f - 1)
    OBVIOUS
  <2> QED
    BY <1>14, <2>1, <2>2
<1>18. Book(p, b, bs, off, P, sp, h, kd)
  BY <1>5, <1>6, <1>7, <1>8, <1>9, <1>10, <1>12, <1>13, <1>15, <1>16, <1>17 DEF Book
<1> QED
  BY <1>1, <1>3, <1>18

\* The text of a section, with its heading.
SectionIs(b, h, sp, k) ==
  /\ sp[k].head \in Para /\ sp[k].paras \in Seq(Para) /\ <<sp[k].head>> \o sp[k].paras \in Seq(Para)
  /\ sp[k].head = b[h[k]] /\ IsHead(b[h[k]]) /\ h[k] \in h[k]..(h[k + 1] - 1)
  /\ \A i \in h[k]..(h[k + 1] - 1) : i # h[k] =>
        i - h[k] \in 1..Len(sp[k].paras) /\ b[i] = sp[k].paras[i - h[k]]
  /\ ToSet(<<sp[k].head>> \o sp[k].paras) = {b[i] : i \in h[k]..(h[k + 1] - 1)}

LEMMA SectionHolds ==
  ASSUME NEW b \in Seq(Para), NEW h, NEW sp, HeadsAt(b, h, Len(sp)), SpansAt(b, h, sp), NEW k \in 1..Len(sp)
  PROVE  SectionIs(b, h, sp, k)
<1>1. PICK n \in Nat : n = Len(b) /\ \A i \in 1..n : b[i] \in Para
  BY LenProperties, ElementOfSeq
<1>2. PICK K \in Nat : K = Len(sp) /\ h \in [1..(K + 1) -> 1..(n + 1)]
  BY <1>1 DEF HeadsAt
<1>3. k \in 1..K /\ k \in 1..(K + 1) /\ k + 1 \in 1..(K + 1)
  BY <1>2
<1>4. PICK x \in 1..(n + 1), y \in 1..(n + 1) : x = h[k] /\ y = h[k + 1]
  BY <1>2, <1>3
<1>5. x \in 1..n /\ IsHead(b[x]) /\ x < y
  BY <1>1, <1>4 DEF HeadsAt
<1>6. PICK q, s : q = sp[k].head /\ s = sp[k].paras
  OBVIOUS
<1>7. q = b[x] /\ s \in Seq(Para) /\ Len(s) = y - x - 1
  BY <1>4, <1>6 DEF SpansAt
<1>8. \A i \in 1..(y - x - 1) : s[i] = b[x + i]
  BY <1>4, <1>6, <1>7 DEF SpansAt
<1>9. q \in Para
  BY <1>1, <1>5, <1>7
<1>10. PICK T : T = Para
  OBVIOUS
<1>11. PICK w : w = <<q>> \o s
  OBVIOUS
<1>12. w \in Seq(T) /\ Len(w) = y - x /\ \A i \in 1..(y - x) : w[i] = b[x + i - 1]
  <2>1. PICK u : u = <<q>>
    OBVIOUS
  <2>2. u \in Seq(T) /\ Len(u) = 1 /\ u[1] = q
    BY <1>9, <1>10, <2>1
  <2>3. s \in Seq(T) /\ w = u \o s
    BY <1>7, <1>10, <1>11, <2>1
  <2>a. u \in Seq(T) /\ s \in Seq(T)
    BY <2>2, <2>3
  <2>b. /\ u \o s \in Seq(T) /\ Len(u \o s) = Len(u) + Len(s)
        /\ \A i \in 1..(Len(u) + Len(s)) : (u \o s)[i] = IF i <= Len(u) THEN u[i] ELSE s[i - Len(u)]
    BY <2>a, ConcatProperties
  <2>c. PICK l \in Nat : l = y - x - 1 /\ Len(s) = l
    BY <1>5, <1>7
  <2>d. w \in Seq(T) /\ Len(w) = 1 + l /\ \A i \in 1..(1 + l) : w[i] = IF i <= 1 THEN u[i] ELSE s[i - 1]
    BY <2>2, <2>3, <2>b, <2>c
  <2>4. w \in Seq(T) /\ Len(w) = 1 + (y - x - 1)
    BY <2>c, <2>d
  <2>5. \A i \in 1..(1 + (y - x - 1)) : w[i] = IF i <= 1 THEN u[i] ELSE s[i - 1]
    BY <2>c, <2>d
  <2>6. ASSUME NEW i \in 1..(y - x) PROVE w[i] = b[x + i - 1]
    <3>1. i \in 1..(1 + (y - x - 1))
      BY <1>5
    <3>2. CASE i = 1
      <4>1. w[1] = u[1] /\ x + 1 - 1 = x
        BY <2>5, <3>1, <3>2
      <4> QED
        BY <1>7, <2>2, <3>2, <4>1
    <3>3. CASE i # 1
      <4>1. ~ (i <= 1) /\ i - 1 \in 1..(y - x - 1) /\ x + (i - 1) = x + i - 1
        BY <1>5, <3>3
      <4>2. w[i] = s[i - 1]
        BY <2>5, <3>1, <4>1
      <4> QED
        BY <1>8, <4>1, <4>2
    <3> QED
      BY <3>2, <3>3
  <2>7. 1 + (y - x - 1) = y - x
    BY <1>5
  <2> QED
    BY <2>4, <2>6, <2>7
<1>13. ToSet(w) = {b[i] : i \in x..(y - 1)}
  <2>1. DOMAIN w = 1..(y - x)
    BY <1>12, LenProperties
  <2>2. ToSet(w) = {w[i] : i \in 1..(y - x)}
    BY <2>1, Zenon DEF ToSet
  <2>3. \A i \in 1..(y - x) : x + i - 1 \in x..(y - 1)
    BY <1>5
  <2>4. \A i \in x..(y - 1) : i - x + 1 \in 1..(y - x) /\ x + (i - x + 1) - 1 = i
    BY <1>5
  <2>5. ASSUME NEW e \in ToSet(w) PROVE e \in {b[i] : i \in x..(y - 1)}
    <3>1. PICK i \in 1..(y - x) : e = w[i]
      BY <2>2, <2>5
    <3>2. PICK j \in x..(y - 1) : j = x + i - 1 /\ e = b[j]
      BY <1>12, <2>3, <3>1
    <3> QED
      BY <3>2
  <2>6. ASSUME NEW i \in x..(y - 1) PROVE b[i] \in ToSet(w)
    <3>1. PICK j \in 1..(y - x) : j = i - x + 1 /\ x + j - 1 = i
      BY <2>4
    <3>2. w[j] = b[i]
      BY <1>12, <3>1
    <3> QED
      BY <2>2, <3>2
  <2> QED
    BY <2>5, <2>6
<1>14. ASSUME NEW i \in x..(y - 1), i # x PROVE i - x \in 1..(y - x - 1) /\ b[i] = s[i - x]
  <2>1. i - x \in 1..(y - x - 1) /\ x + (i - x) = i
    BY <1>5, <1>14
  <2> QED
    BY <1>8, <2>1
<1>15. x \in x..(y - 1)
  BY <1>5
<1> QED
  BY <1>4, <1>5, <1>6, <1>7, <1>9, <1>10, <1>11, <1>12, <1>13, <1>14, <1>15 DEF SectionIs

-----------------------------------------------------------------------------
(* The map is safe.                                                        *)

\* The map is that of what was typed, and the filter has been run on it.
BookMapInv ==
  /\ typed \in Seq(Paragraphs) /\ Len(typed) <= MaxTyped
  /\ declared \in Declarations
  /\ map = BuildBookMap(typed)
  /\ printed = Printed(map)

LEMMA TypedIs ==
  ASSUME BookMapInv
  PROVE  typed \in Seq(Typed) /\ MapOf(typed, map)
<1>1. typed \in Seq(Paragraphs)
  BY DEF BookMapInv
<1>2. PICK n \in Nat : n = Len(typed) /\ DOMAIN typed = 1..n
  BY <1>1, LenProperties
<1>3. \A i \in 1..n : typed[i] \in Paragraphs
  BY <1>1, <1>2, ElementOfSeq
<1>4. \A x \in Paragraphs : x \in Typed
  BY BookMapAssumption DEF Typed, Breaks
<1>5. PICK T, P : T = Typed /\ P = Paragraphs
  OBVIOUS
<1>6. typed \in Seq(T)
  <2>1. typed \in [1..n -> P]
    BY <1>1, <1>2, <1>5, LenProperties
  <2>2. typed \in [1..n -> T]
    BY <1>3, <1>4, <1>5, <2>1
  <2>3. \A s \in [1..n -> T] : s \in Seq(T)
    BY SeqDef
  <2> QED
    BY <2>2, <2>3
<1>7. MapOf(typed, map)
  <2>1. map = BuildBookMap(typed)
    BY DEF BookMapInv
  <2> QED
    BY <2>1, MapBuilt
<1> QED
  BY <1>5, <1>6, <1>7

\* Without a heading there are no blocks, and so no pieces.
LEMMA BlocksNamed ==
  ASSUME BookMapInv
  PROVE  /\ map.body \in Seq(Para) /\ map.blocks \in Seq(Block) /\ Named(map.blocks, map.pieces)
         /\ HasHead(map.body) \/ map.blocks = <<>>
<1>1. typed \in Seq(Typed) /\ MapOf(typed, map) /\ declared \in Declarations
  BY TypedIs DEF BookMapInv
<1>2. PICK b, bs, P : b = map.body /\ bs = map.blocks /\ P = map.pieces
  OBVIOUS
<1>3. b = Body(Paras(typed)) /\ bs = Blocks(b) /\ P = Pieces(bs)
  BY <1>1, <1>2 DEF MapOf
<1>4. b \in Seq(Para)
  BY <1>1, <1>3, BodyRead
<1>5. CASE HasHead(b)
  <2>1. PICK off : Divided(b, bs, off)
    BY <1>3, <1>4, <1>5, BlocksDivide
  <2>2. bs \in Seq(Block)
    BY <2>1 DEF Divided
  <2>3. Named(bs, P)
    BY <1>1, <1>3, <2>2, PiecesNamed
  <2> QED
    BY <1>2, <1>4, <1>5, <2>2, <2>3
<1>6. CASE ~HasHead(b)
  <2>1. bs = <<>>
    BY <1>3, <1>6 DEF Blocks
  <2>2. bs \in Seq(Block)
    BY <2>1
  <2>3. Named(bs, P)
    BY <1>1, <1>3, <2>2, PiecesNamed
  <2> QED
    BY <1>2, <1>4, <2>1, <2>2, <2>3
<1> QED
  BY <1>5, <1>6

\* The sections of the map and their kinds.
LEMMA SectionsRead ==
  ASSUME BookMapInv
  PROVE  /\ Len(map.spans) \in Nat /\ DOMAIN map.spans = 1..Len(map.spans)
         /\ map.kinds = SectionKinds(map.spans) /\ KindsOf(map.spans, map.kinds)
<1>1. PICK b \in Seq(Para) : b = map.body
  BY BlocksNamed
<1>2. PICK sp : sp = map.spans
  OBVIOUS
<1>3. sp = Spans(b) /\ map.kinds = SectionKinds(sp)
  BY <1>1, <1>2, TypedIs DEF MapOf
<1>4. PICK h : HeadsAt(b, h, Len(sp)) /\ SpansAt(b, h, sp)
  BY <1>3, SpansAre
<1>5. Len(sp) \in Nat /\ DOMAIN sp = 1..Len(sp)
  BY <1>4 DEF HeadsAt, SpansAt
<1>6. KindsOf(sp, SectionKinds(sp))
  BY KindsAre
<1> QED
  BY <1>2, <1>3, <1>5, <1>6

LEMMA TypeHolds == BookMapInv => BookMapTypeOK
<1> SUFFICES ASSUME BookMapInv PROVE BookMapTypeOK
  OBVIOUS
<1>1. typed \in Seq(Paragraphs) /\ Len(typed) <= MaxTyped /\ declared \in Declarations
  BY DEF BookMapInv
<1>2. HasHead(map.body) => Taken(map.pieces, Len(map.pieces)) = FirstHead(map.body) - 1
  <2> SUFFICES ASSUME HasHead(map.body) PROVE Taken(map.pieces, Len(map.pieces)) = FirstHead(map.body) - 1
    OBVIOUS
  <2>1. PICK off, h : Book(map.paras, map.body, map.blocks, off, map.pieces, map.spans, h, map.kinds)
    BY <1>1, TypedIs, BookIs
  <2> QED
    BY <2>1 DEF Book, Filed
<1>3. \A k \in DOMAIN map.kinds : map.kinds[k] \in {"front", "body", "back", "title", "toc"}
  BY SectionsRead DEF KindsOf, KindNames
<1> QED
  BY <1>1, <1>2, <1>3 DEF BookMapTypeOK

LEMMA BreaksHold == BookMapInv => BreaksCarried
<1> SUFFICES ASSUME BookMapInv PROVE BreaksCarried
  OBVIOUS
<1>1. PICK m \in Seq(Typed) : m = typed
  BY TypedIs
<1>2. PICK p : p = map.paras
  OBVIOUS
<1>3. p = Paras(m)
  BY <1>1, <1>2, TypedIs DEF MapOf
<1>4. PICK n \in Nat : n = Len(p) /\ DOMAIN p = 1..n
  BY <1>3, ParasRead, LenProperties
<1>5. ASSUME NEW i \in 1..n
      PROVE  p[i].opens <=>
               \/ m[p[i].at].brk = "before"
               \/ (IF i = 1 THEN 0 ELSE p[i - 1].at) > 0 /\ m[IF i = 1 THEN 0 ELSE p[i - 1].at].brk = "after"
               \/ \E j \in (IF i = 1 THEN 0 ELSE p[i - 1].at) + 1 .. p[i].at - 1 : m[j].brk # "none"
  <2>1. PICK prev : prev = IF i = 1 THEN 0 ELSE p[i - 1].at
    OBVIOUS
  <2>2. i - 1 = 0 <=> i = 1
    OBVIOUS
  <2>3. At(p, i - 1) = prev
    BY <2>1, <2>2 DEF At
  <2>4. ReadFrom(m, p[i], prev, p[i].at)
    BY <1>3, <1>4, <2>3, ParasRead
  <2>5. p[i].opens <=> \/ m[p[i].at].brk = "before"
                       \/ prev > 0 /\ m[prev].brk = "after"
                       \/ \E j \in (prev + 1)..(p[i].at - 1) : m[j].brk # "none"
    BY <2>4 DEF ReadFrom
  <2> QED
    BY <2>1, <2>5
<1> QED
  BY <1>1, <1>2, <1>4, <1>5, Zenon DEF BreaksCarried

LEMMA PiecesHold == BookMapInv => PiecesAreWhole
<1> SUFFICES ASSUME BookMapInv PROVE PiecesAreWhole
  OBVIOUS
<1>1. PICK b, bs : b = map.body /\ bs = map.blocks
  OBVIOUS
<1>2. bs \in Seq(Block) /\ (HasHead(b) \/ bs = <<>>)
  BY <1>1, BlocksNamed
<1>3. PICK K \in Nat : K = Len(bs) /\ DOMAIN bs = 1..K
  BY <1>2, LenProperties
<1>4. ASSUME NEW k \in 1..K, NEW p \in ToSet(bs[k].paras) PROVE StyleOf(p) = bs[k].style
  <2>1. HasHead(b)
    <3>1. bs = <<>> => K = 0
      BY <1>3
    <3> QED
      BY <1>2, <3>1
  <2>2. PICK off : Divided(b, bs, off)
    <3>1. declared \in Declarations
      BY DEF BookMapInv
    <3>2. PICK off, h : Book(map.paras, map.body, map.blocks, off, map.pieces, map.spans, h, map.kinds)
      BY <1>1, <2>1, <3>1, TypedIs, BookIs
    <3> QED
      BY <1>1, <3>2 DEF Book
  <2>3. PICK x : x = bs[k]
    OBVIOUS
  <2>4. PieceOf(b, x, off[k - 1])
    BY <1>3, <2>2, <2>3 DEF Divided
  <2>d. x \in Block
    BY <1>2, <1>3, <2>3, ElementOfSeq
  <2>5. x.paras \in Seq(Para)
    BY <2>d DEF Block
  <2>6. PICK i \in 1..Len(x.paras) : p = x.paras[i]
    <3>1. p \in ToSet(x.paras)
      BY <1>4, <2>3
    <3>2. DOMAIN x.paras = 1..Len(x.paras)
      BY <2>5, LenProperties
    <3> QED
      BY <3>1, <3>2 DEF ToSet
  <2> QED
    BY <2>3, <2>4, <2>6 DEF PieceOf
<1> QED
  BY <1>1, <1>3, <1>4 DEF PiecesAreWhole

LEMMA NamesHold == BookMapInv => NamesOnce
<1> SUFFICES ASSUME BookMapInv PROVE NamesOnce
  OBVIOUS
<1>1. PICK bs, P : bs = map.blocks /\ P = map.pieces
  OBVIOUS
<1>2. bs \in Seq(Block) /\ Named(bs, P)
  BY <1>1, BlocksNamed
<1>3. PICK K \in Nat : K = Len(bs) /\ DOMAIN bs = 1..K
  BY <1>2, LenProperties
<1>4. DOMAIN P = 1..K
  BY <1>2, <1>3 DEF Named
<1>5. ASSUME NEW k \in 1..K, P[k].name \in NamesSet
      PROVE  ~bs[k].drop /\ P[k].styled = (bs[k].style # "")
  <2>1. P[k].name # "dropped"
    BY <1>5, UntitledNamesAre
  <2>2. bs[k].drop => P[k].name = "dropped"
    BY <1>2, <1>3 DEF Named
  <2>3. P[k].styled = (bs[k].style # "")
    BY <1>2, <1>3 DEF Named
  <2> QED
    BY <2>1, <2>2, <2>3
<1>6. ASSUME NEW j \in 1..K, NEW k \in 1..K, j # k, ~bs[k].drop, bs[k].style = "", P[j].name = P[k].name
      PROVE  P[k].name \notin NamesSet
  BY <1>2, <1>3, <1>6 DEF Named
<1>7. ASSUME NEW j \in 1..K, NEW k \in 1..K, j < k, P[j].name = P[k].name, P[j].name \in NamesSet
      PROVE  P[j].styled /\ P[k].styled
  <2>1. j # k /\ k # j
    BY <1>7
  <2>2. ~bs[j].drop /\ P[j].styled = (bs[j].style # "") /\ ~bs[k].drop /\ P[k].styled = (bs[k].style # "")
    BY <1>5, <1>7
  <2>3. bs[k].style # ""
    BY <1>6, <1>7, <2>1, <2>2
  <2>4. bs[j].style # ""
    BY <1>6, <1>7, <2>1, <2>2
  <2> QED
    BY <2>2, <2>3, <2>4
<1> QED
  BY <1>1, <1>4, <1>7, Zenon DEF NamesOnce, NamesSet

LEMMA OrderHolds == BookMapInv => OrderKept
<1> SUFFICES ASSUME BookMapInv PROVE OrderKept
  OBVIOUS
<1>1. PICK sp, kd : sp = map.spans /\ kd = map.kinds
  OBVIOUS
<1>2. PICK K \in Nat : K = Len(sp) /\ DOMAIN sp = 1..K
  BY <1>1, SectionsRead
<1>3. kd = SectionKinds(sp) /\ DOMAIN kd = 1..K
  BY <1>1, <1>2, SectionsRead DEF KindsOf
<1>4. ASSUME NEW j \in 1..K, NEW k \in 1..K, j < k
      PROVE  /\ kd[k] = "front" => kd[j] \notin {"body", "back"}
             /\ kd[j] = "back" => kd[k] \notin {"front", "body"}
  BY <1>2, <1>3, <1>4, KindsOrdered
<1> QED
  BY <1>1, <1>3, <1>4, Zenon DEF OrderKept

LEMMA MapHolds == BookMapInv => MapSafe
  BY TypeHolds, BreaksHold, PiecesHold, NamesHold, OrderHolds DEF MapSafe

-----------------------------------------------------------------------------
(* What is printed is safe.                                                *)

LEMMA PrintedAre ==
  ASSUME BookMapInv, NEW p, NEW b, NEW P, NEW kd, p = map.paras, b = map.body, P = map.pieces, kd = map.kinds
  PROVE  /\ b \in Seq(Para)
         /\ printed = {[at |-> b[i].at, place |-> PlaceOf(p, b, P, kd, i)] : i \in {j \in 1..Len(b) : b[j].made # "nothing"}}
         /\ \A i \in 1..Len(b) : typed[b[i].at].style = b[i].style /\ typed[b[i].at].text = b[i].text
<1>2. typed \in Seq(Typed) /\ p = Paras(typed) /\ b = Body(Paras(typed)) /\ printed = Printed(map)
  BY TypedIs DEF MapOf, BookMapInv
<1>3. p \in Seq(Para)
  BY <1>2, ParasRead
<1>4. PrintBlocks(p) = b
  BY <1>2, <1>3, PrintReadsBody
<1>5. b \in Seq(Para) /\ \A i \in 1..Len(b) : typed[b[i].at].style = b[i].style /\ typed[b[i].at].text = b[i].text
  BY <1>2, BodyRead
<1>6. DOMAIN b = 1..Len(b)
  BY <1>5, LenProperties
<1>7. Printed(map) = {[at |-> b[i].at, place |-> Placed(map, b, i)] : i \in {j \in DOMAIN b : b[j].made # "nothing"}}
  <2>1. PrintBlocks(map.paras) = b
    BY <1>4
  <2> QED
    BY <2>1, Zenon DEF Printed
<1>8. ASSUME NEW i PROVE Placed(map, b, i) = PlaceOf(p, b, P, kd, i)
  <2>1. Placed(map, b, i) = PlaceOf(map.paras, b, map.pieces, map.kinds, i)
    BY PlaceSame
  <2> QED
    BY <2>1
<1>9. Printed(map) = {[at |-> b[i].at, place |-> PlaceOf(p, b, P, kd, i)] : i \in {j \in DOMAIN b : b[j].made # "nothing"}}
  BY <1>7, <1>8
<1> QED
  BY <1>2, <1>5, <1>6, <1>9

\* A heading is a block of its own.
LEMMA HeadsAreBlocks ==
  ASSUME BookMapInv, NEW i \in 1..Len(map.body), IsHead(map.body[i])
  PROVE  map.body[i].made = "block"
<1>1. PICK b \in Seq(Para) : b = map.body
  BY BlocksNamed
<1>2. typed \in Seq(Typed) /\ b = Body(Paras(typed)) /\ typed \in Seq(Paragraphs)
  BY <1>1, TypedIs DEF MapOf, BookMapInv
<1>3. PICK a \in 1..Len(typed) : a = b[i].at /\ b[i].style = typed[a].style /\ b[i].made = typed[a].made
  BY <1>1, <1>2, BodyRead
<1>4. PICK q \in Paragraphs : q = typed[a]
  BY <1>2, ElementOfSeq
<1>5. b[i].style = "h1"
  BY <1>1 DEF IsHead
<1>6. q.made # "block" => q.style = "normal"
  BY BookMapAssumption
<1> QED
  BY <1>1, <1>3, <1>4, <1>5, <1>6

\* A paragraph that is not loose is a block of its own, with all of the front
\* before it, or is one of a section that is neither held nor stripped.
LEMMA NotLoose ==
  ASSUME NEW b \in Seq(Para), NEW i \in 1..Len(b), b[i].at \notin Loose(b)
  PROVE  /\ i \in 1..(FirstHead(b) - 1) => Plain(b, i)
         /\ FirstHead(b) <= i => ~Held(b, i) /\ b[i].made # "nothing"
<1>1. PICK n \in Nat : n = Len(b) /\ DOMAIN b = 1..n
  BY LenProperties
<1>2. PICK f \in 1..(n + 1) : f = FirstHead(b)
  BY <1>1, FirstHeadIs
<1>3. PICK L : L = {j \in DOMAIN b : IF j < FirstHead(b) THEN \E l \in 1..j : b[l].made # "block"
                                     ELSE Held(b, j) \/ b[j].made = "nothing"}
  OBVIOUS
<1>4. Loose(b) = {b[j].at : j \in L}
  BY <1>3, Zenon DEF Loose
<1>5. i \notin L
  BY <1>4
<1>6. ~ (IF i < f THEN \E l \in 1..i : b[l].made # "block" ELSE Held(b, i) \/ b[i].made = "nothing")
  BY <1>1, <1>2, <1>3, <1>5
<1>7. i \in 1..(f - 1) => i < f
  BY <1>2
<1>8. f <= i => ~ (i < f)
  BY <1>1, <1>2
<1> QED
  BY <1>2, <1>6, <1>7, <1>8 DEF Plain

\* The names of pieces are no kinds of sections, and "dropped" is what was dropped.
LEMMA PieceNames ==
  ASSUME NEW b, NEW bs, NEW off, Divided(b, bs, off), NEW P, Named(bs, P), NEW k \in 1..Len(bs)
  PROVE  /\ P[k].name \notin {"front", "body", "back"}
         /\ P[k].name = "dropped" => bs[k].drop
<1>1. PICK d, s, name : d = bs[k].drop /\ s = bs[k].style /\ name = P[k].name
  OBVIOUS
<1>2. PieceOf(b, bs[k], off[k - 1])
  BY DEF Divided
<1>3. s \in {"dedication", "epigraph", "copyright", ""}
  BY <1>1, <1>2 DEF PieceOf, PieceStyles
<1>4. /\ d => name = "dropped"
      /\ ~d /\ s # "" => name = s
      /\ ~d /\ s = "" => name \in NamesSet \cup {"page"}
  BY <1>1 DEF Named
<1>5. d => name = "dropped"
  BY <1>4
<1>6. ~d => name \in {"dedication", "epigraph", "copyright", "page"}
  <2>1. CASE s = ""
    BY <1>4, <2>1, UntitledNamesAre
  <2>2. CASE s # ""
    BY <1>3, <1>4, <2>2
  <2> QED
    BY <2>1, <2>2
<1> QED
  BY <1>1, <1>5, <1>6

\* Where a paragraph before the first heading is in its piece.
LEMMA PieceHolds ==
  ASSUME NEW b \in Seq(Para), NEW bs, NEW off, NEW P, Divided(b, bs, off), Filed(b, bs, off, P),
         NEW i \in 1..(FirstHead(b) - 1), NEW k, k = PieceAt(P, i)
  PROVE  /\ k \in 1..Len(bs) /\ bs[k] \in Block
         /\ \E j \in 1..Len(bs[k].paras) : bs[k].paras[j] = b[i]
<1>1. PICK K \in Nat : K = Len(bs) /\ DOMAIN bs = 1..K
  BY LenProperties DEF Divided
<1>2. k \in 1..K /\ off[k - 1] < i /\ i <= off[k]
  BY <1>1 DEF Filed
<1>3. bs[k] \in Block
  BY <1>1, <1>2, ElementOfSeq DEF Divided
<1>4. PICK x \in Block : x = bs[k]
  BY <1>3
<1>5. x.paras \in Seq(Para)
  BY <1>4 DEF Block
<1>6. PICK l \in Nat : l = Len(x.paras)
  BY <1>5, LenProperties
<1>7. off \in [0..K -> Nat]
  BY <1>1 DEF Divided
<1>8. off[k] = off[k - 1] + l /\ PieceOf(b, x, off[k - 1])
  BY <1>1, <1>2, <1>4, <1>6 DEF Divided
<1>9. k \in 0..K /\ k - 1 \in 0..K
  BY <1>1, <1>2
<1>10. PICK u \in Nat, v \in Nat : u = off[k - 1] /\ v = off[k]
  BY <1>7, <1>9
<1>11. PICK f : f = FirstHead(b) - 1
  OBVIOUS
<1>12. i \in Int
  <2>1. PICK n \in Nat : n = Len(b)
    BY LenProperties
  <2>2. PICK g \in 1..(n + 1) : g = FirstHead(b)
    BY <2>1, FirstHeadIs
  <2> QED
    BY <2>2
<1>13. u < i /\ i <= u + l
  BY <1>2, <1>8, <1>10
<1>14. i - u \in 1..l /\ u + (i - u) = i
  BY <1>12, <1>13
<1>15. x.paras[i - u] = b[u + (i - u)]
  <2>1. PICK j : j = i - u
    OBVIOUS
  <2>2. PieceOf(b, x, u) /\ j \in 1..Len(x.paras)
    BY <1>6, <1>8, <1>10, <1>14, <2>1
  <2>3. x.paras[j] = b[u + j]
    BY <2>2 DEF PieceOf
  <2> QED
    BY <2>1, <2>3
<1> QED
  BY <1>1, <1>2, <1>4, <1>6, <1>14, <1>15

LEMMA PrintHolds == BookMapInv => PrintFollowsMap
<1> SUFFICES ASSUME BookMapInv, HasHead(map.body) PROVE PrintFollowsMap
  BY DEF PrintFollowsMap
<1>1. PICK p, b, bs, P, sp, kd : /\ p = map.paras /\ b = map.body /\ bs = map.blocks
                                 /\ P = map.pieces /\ sp = map.spans /\ kd = map.kinds
  OBVIOUS
<1>2. b \in Seq(Para) /\ printed = {[at |-> b[i].at, place |-> PlaceOf(p, b, P, kd, i)] :
                                       i \in {j \in 1..Len(b) : b[j].made # "nothing"}}
  BY <1>1, PrintedAre
<1>3. PICK off, h : Book(p, b, bs, off, P, sp, h, kd)
  <2>1. declared \in Declarations
    BY DEF BookMapInv
  <2> QED
    BY <1>1, <2>1, TypedIs, BookIs
<1>4. Divided(b, bs, off) /\ Filed(b, bs, off, P) /\ HeadsAt(b, h, Len(sp)) /\ SpansAt(b, h, sp)
  BY <1>3 DEF Book
<1>5. /\ \A i \in 1..(FirstHead(b) - 1) :
            i \in 1..Len(b) /\ (Plain(b, i) => PlaceOf(p, b, P, kd, i) = P[PieceAt(P, i)].name)
      /\ \A k \in 1..Len(sp) : \A i \in h[k]..(h[k + 1] - 1) :
            i \in 1..Len(b) /\ (~Held(b, i) => PlaceOf(p, b, P, kd, i) = SectionPlace(kd, k))
      /\ \A i \in 1..Len(b) : \/ i \in 1..(FirstHead(b) - 1)
                              \/ FirstHead(b) <= i /\ \E k \in 1..Len(sp) : i \in h[k]..(h[k + 1] - 1)
  BY <1>3 DEF Book, FrontPlace, BackPlace
<1>6. DOMAIN bs = 1..Len(bs) /\ \A k \in 1..Len(bs) : DOMAIN bs[k].paras = 1..Len(bs[k].paras)
  <2>1. bs \in Seq(Block)
    BY <1>4 DEF Divided
  <2>2. DOMAIN bs = 1..Len(bs) /\ \A k \in 1..Len(bs) : bs[k] \in Block
    BY <2>1, LenProperties, ElementOfSeq
  <2>3. \A x \in Block : x.paras \in Seq(Para)
    BY DEF Block
  <2> QED
    BY <2>2, <2>3, LenProperties
<1>7. DOMAIN sp = 1..Len(sp)
  BY <1>4 DEF SpansAt
<1>a. \A k \in 1..Len(sp) : ToSet(<<sp[k].head>> \o sp[k].paras) = {b[i] : i \in h[k]..(h[k + 1] - 1)}
  <2> TAKE k \in 1..Len(sp)
  <2>1. SectionIs(b, h, sp, k)
    BY <1>2, <1>4, SectionHolds
  <2> QED
    BY <2>1 DEF SectionIs
<1>b. ASSUME NEW k \in 1..Len(sp), NEW i \in h[k]..(h[k + 1] - 1) PROVE FirstHead(b) <= i
  <2>1. PICK n \in Nat : n = Len(b)
    BY <1>2, LenProperties
  <2>2. PICK f \in 1..(n + 1) : f = FirstHead(b)
    BY <1>2, <2>1, FirstHeadIs
  <2>3. f <= h[k]
    BY <1>2, <1>4, <2>2, SectionsCover
  <2>4. h[k] \in 1..n
    BY <1>4, <2>1 DEF HeadsAt
  <2> QED
    BY <2>2, <2>3, <2>4
<1> DEFINE put(i) == [at |-> b[i].at, place |-> PlaceOf(p, b, P, kd, i)]
           InPieces == UNION {{[at |-> bs[k].paras[i].at, place |-> P[k].name] : i \in DOMAIN bs[k].paras} : k \in DOMAIN bs}
           InSections == UNION {{[at |-> q.at, place |-> SectionPlace(kd, k)] : q \in ToSet(<<sp[k].head>> \o sp[k].paras)}
                                   : k \in DOMAIN sp}
<1>8. ASSUME NEW k \in 1..Len(bs), NEW j \in 1..Len(bs[k].paras)
      PROVE  [at |-> bs[k].paras[j].at, place |-> P[k].name] \in InPieces
  <2>1. j \in DOMAIN bs[k].paras /\ k \in DOMAIN bs
    BY <1>6
  <2>2. [at |-> bs[k].paras[j].at, place |-> P[k].name] \in {[at |-> bs[k].paras[i].at, place |-> P[k].name] : i \in DOMAIN bs[k].paras}
    BY <2>1
  <2> QED
    BY <2>1, <2>2
<1>9. ASSUME NEW k \in 1..Len(sp), NEW i \in h[k]..(h[k + 1] - 1)
      PROVE  [at |-> b[i].at, place |-> SectionPlace(kd, k)] \in InSections
  <2>1. b[i] \in ToSet(<<sp[k].head>> \o sp[k].paras)
    BY <1>a
  <2>2. [at |-> b[i].at, place |-> SectionPlace(kd, k)] \in
            {[at |-> q.at, place |-> SectionPlace(kd, k)] : q \in ToSet(<<sp[k].head>> \o sp[k].paras)}
    BY <2>1
  <2> QED
    BY <1>7, <2>2
<1>10. ASSUME NEW e \in printed, e.at \notin Loose(b) PROVE e \in InPieces \cup InSections
  <2> HIDE DEF InPieces, InSections, put
  <2>1. PICK i \in 1..Len(b) : e = put(i)
    BY <1>2, <1>10 DEF put
  <2>a. b[i].at \notin Loose(b)
    BY <1>10, <2>1 DEF put
  <2>2. CASE i \in 1..(FirstHead(b) - 1)
    <3>1. PICK k : k = PieceAt(P, i)
      OBVIOUS
    <3>2. k \in 1..Len(bs) /\ \E j \in 1..Len(bs[k].paras) : bs[k].paras[j] = b[i]
      <4>1. b \in Seq(Para)
        BY <1>2
      <4>2. Divided(b, bs, off) /\ Filed(b, bs, off, P)
        BY <1>4
      <4> QED
        BY <2>2, <3>1, <4>1, <4>2, PieceHolds
    <3>3. PICK j \in 1..Len(bs[k].paras) : bs[k].paras[j] = b[i]
      BY <3>2
    <3>a. Plain(b, i)
      BY <1>2, <2>2, <2>a, NotLoose
    <3>4. PlaceOf(p, b, P, kd, i) = P[k].name
      BY <1>5, <2>2, <3>1, <3>a
    <3>5. e = [at |-> bs[k].paras[j].at, place |-> P[k].name]
      BY <2>1, <3>3, <3>4 DEF put
    <3> QED
      BY <1>8, <3>2, <3>5
  <2>3. CASE FirstHead(b) <= i /\ \E k \in 1..Len(sp) : i \in h[k]..(h[k + 1] - 1)
    <3>1. PICK k \in 1..Len(sp) : i \in h[k]..(h[k + 1] - 1)
      BY <2>3
    <3>a. ~Held(b, i)
      BY <1>2, <2>3, <2>a, NotLoose
    <3>2. PlaceOf(p, b, P, kd, i) = SectionPlace(kd, k)
      BY <1>5, <3>1, <3>a
    <3>3. [at |-> b[i].at, place |-> SectionPlace(kd, k)] \in InSections
      BY <1>9, <3>1
    <3>4. e = [at |-> b[i].at, place |-> SectionPlace(kd, k)]
      BY <2>1, <3>2 DEF put
    <3> QED
      BY <3>3, <3>4
  <2> QED
    BY <1>5, <2>2, <2>3
<1>11. ASSUME NEW i \in 1..Len(b), b[i].made # "nothing" PROVE put(i) \in printed
  BY <1>2, <1>11
<1>12. ASSUME NEW e \in InPieces, e.at \notin Loose(b) PROVE e \in printed
  <2>1. PICK k \in 1..Len(bs) : e \in {[at |-> bs[k].paras[i].at, place |-> P[k].name] : i \in DOMAIN bs[k].paras}
    BY <1>6, <1>12
  <2>2. PICK i \in 1..Len(bs[k].paras) : e = [at |-> bs[k].paras[i].at, place |-> P[k].name]
    BY <1>6, <2>1
  <2> HIDE DEF InPieces, InSections
  <2>3. off[k - 1] + i \in 1..(FirstHead(b) - 1) /\ PieceAt(P, off[k - 1] + i) = k
    BY <1>4 DEF Filed
  <2>4. bs[k].paras[i] = b[off[k - 1] + i]
    BY <1>4 DEF Divided, PieceOf
  <2>5. PICK j : j = off[k - 1] + i
    OBVIOUS
  <2>6. j \in 1..Len(b) /\ j \in 1..(FirstHead(b) - 1) /\ PieceAt(P, j) = k
    BY <1>5, <2>3, <2>5
  <2>7. e.at = b[j].at /\ e = [at |-> b[j].at, place |-> P[k].name]
    BY <2>2, <2>4, <2>5
  <2>8. Plain(b, j)
    <3>1. b[j].at \notin Loose(b)
      BY <1>12, <2>7
    <3> QED
      BY <1>2, <2>6, <3>1, NotLoose
  <2>9. PlaceOf(p, b, P, kd, j) = P[k].name
    BY <1>5, <2>6, <2>8
  <2>10. b[j].made # "nothing"
    <3>1. PICK n \in Nat : n = Len(b)
      BY <1>2, LenProperties
    <3>2. j \in 1..j
      BY <2>6, <3>1
    <3>3. b[j].made = "block"
      BY <2>8, <3>2 DEF Plain
    <3> QED
      BY <3>3
  <2> QED
    BY <1>11, <2>6, <2>7, <2>9, <2>10
<1>13. ASSUME NEW e \in InSections, e.at \notin Loose(b) PROVE e \in printed
  <2>1. PICK k \in 1..Len(sp) : e \in {[at |-> q.at, place |-> SectionPlace(kd, k)] : q \in ToSet(<<sp[k].head>> \o sp[k].paras)}
    BY <1>7, <1>13
  <2>2. PICK q \in ToSet(<<sp[k].head>> \o sp[k].paras) : e = [at |-> q.at, place |-> SectionPlace(kd, k)]
    BY <2>1
  <2> HIDE DEF InPieces, InSections
  <2>3. ToSet(<<sp[k].head>> \o sp[k].paras) = {b[i] : i \in h[k]..(h[k + 1] - 1)}
    BY <1>a
  <2>4. PICK i \in h[k]..(h[k + 1] - 1) : q = b[i]
    BY <2>2, <2>3
  <2>5. i \in 1..Len(b) /\ FirstHead(b) <= i
    BY <1>5, <1>b, <2>4
  <2>6. b[i].at \notin Loose(b)
    BY <1>13, <2>2, <2>4
  <2>7. ~Held(b, i) /\ b[i].made # "nothing"
    BY <1>2, <2>5, <2>6, NotLoose
  <2>8. PlaceOf(p, b, P, kd, i) = SectionPlace(kd, k)
    BY <1>5, <2>4, <2>7
  <2> QED
    BY <1>11, <2>2, <2>4, <2>5, <2>7, <2>8
<1>14. MapPut = InPieces \cup InSections
  BY <1>1 DEF MapPut, PiecesPut, SectionsPut
<1> HIDE DEF InPieces, InSections
<1>15. \A e \in printed \cup MapPut : e.at \notin Loose(map.body) => e \in printed \cap MapPut
  BY <1>1, <1>10, <1>12, <1>13, <1>14
<1> QED
  BY <1>15 DEF PrintFollowsMap

\* Where the filter has lost count, a paragraph is not set further down than its
\* piece, and not further than the next section.
LEMMA NearHolds == BookMapInv => PrintStaysNear
<1> SUFFICES ASSUME BookMapInv, HasHead(map.body) PROVE PrintStaysNear
  BY DEF PrintStaysNear
<1>1. PICK p, b, bs, P, sp, kd : /\ p = map.paras /\ b = map.body /\ bs = map.blocks
                                 /\ P = map.pieces /\ sp = map.spans /\ kd = map.kinds
  OBVIOUS
<1>2. b \in Seq(Para) /\ printed = {[at |-> b[i].at, place |-> PlaceOf(p, b, P, kd, i)] :
                                       i \in {j \in 1..Len(b) : b[j].made # "nothing"}}
  BY <1>1, PrintedAre
<1>3. PICK off, h : Book(p, b, bs, off, P, sp, h, kd)
  <2>1. declared \in Declarations
    BY DEF BookMapInv
  <2> QED
    BY <1>1, <2>1, TypedIs, BookIs
<1>4. Divided(b, bs, off) /\ Filed(b, bs, off, P) /\ HeadsAt(b, h, Len(sp)) /\ SpansAt(b, h, sp)
  BY <1>3 DEF Book
<1>5. DOMAIN sp = 1..Len(sp) /\ DOMAIN bs = 1..Len(bs) /\ bs \in Seq(Block)
  BY <1>4, LenProperties DEF SpansAt, Divided
<1> DEFINE InPiece(s) == \E k \in DOMAIN bs :
                           /\ s.at \in {q.at : q \in ToSet(bs[k].paras)}
                           /\ \/ \E j \in 1..k : s.place = P[j].name
                              \/ NoneCounts(b) /\ s.place = SectionPlace(kd, 1)
           InSection(s) == \E k \in DOMAIN sp : \E j \in {k, k + 1} \cap DOMAIN sp :
                             /\ s.at \in {q.at : q \in ToSet(<<sp[k].head>> \o sp[k].paras)}
                             /\ s.place = SectionPlace(kd, j)
<1>6. ASSUME NEW s \in printed PROVE InPiece(s) \/ InSection(s)
  <2>1. PICK i \in 1..Len(b) : s = [at |-> b[i].at, place |-> PlaceOf(p, b, P, kd, i)]
    BY <1>2
  <2>2. s.at = b[i].at /\ s.place = PlaceOf(p, b, P, kd, i)
    BY <2>1
  <2>3. CASE i \in 1..(FirstHead(b) - 1)
    <3>1. PICK k : k = PieceAt(P, i)
      OBVIOUS
    <3>2. k \in 1..Len(bs) /\ bs[k] \in Block /\ \E j \in 1..Len(bs[k].paras) : bs[k].paras[j] = b[i]
      <4>1. b \in Seq(Para)
        BY <1>2
      <4>2. Divided(b, bs, off) /\ Filed(b, bs, off, P)
        BY <1>4
      <4> QED
        BY <2>3, <3>1, <4>1, <4>2, PieceHolds
    <3>3. b[i] \in ToSet(bs[k].paras)
      <4>1. bs[k].paras \in Seq(Para)
        BY <3>2 DEF Block
      <4>2. DOMAIN bs[k].paras = 1..Len(bs[k].paras)
        BY <4>1, LenProperties
      <4> QED
        BY <3>2, <4>2 DEF ToSet
    <3>4. FrontPlace(p, b, P, kd, i)
      BY <1>3, <2>3 DEF Book
    <3>5. \/ \E j \in 1..k : s.place = P[j].name
          \/ NoneCounts(b) /\ s.place = SectionPlace(kd, 1)
      BY <2>2, <3>1, <3>4 DEF FrontPlace
    <3>6. s.at \in {q.at : q \in ToSet(bs[k].paras)}
      BY <2>2, <3>3
    <3> QED
      BY <1>5, <3>2, <3>5, <3>6
  <2>4. CASE FirstHead(b) <= i /\ \E k \in 1..Len(sp) : i \in h[k]..(h[k + 1] - 1)
    <3>1. PICK k \in 1..Len(sp) : i \in h[k]..(h[k + 1] - 1)
      BY <2>4
    <3>2. BackPlace(p, b, P, kd, i, k, Len(sp))
      BY <1>3, <3>1 DEF Book
    <3>3. PICK j \in {k, k + 1} : j \in 1..Len(sp) /\ s.place = SectionPlace(kd, j)
      BY <2>2, <3>2 DEF BackPlace
    <3>4. b[i] \in ToSet(<<sp[k].head>> \o sp[k].paras)
      <4>1. SectionIs(b, h, sp, k)
        BY <1>2, <1>4, SectionHolds
      <4> QED
        BY <3>1, <4>1 DEF SectionIs
    <3>5. s.at \in {q.at : q \in ToSet(<<sp[k].head>> \o sp[k].paras)}
      BY <2>2, <3>4
    <3>6. k \in DOMAIN sp /\ j \in {k, k + 1} \cap DOMAIN sp
      BY <1>5, <3>3
    <3> QED
      BY <3>3, <3>5, <3>6
  <2>5. \/ i \in 1..(FirstHead(b) - 1)
        \/ FirstHead(b) <= i /\ \E k \in 1..Len(sp) : i \in h[k]..(h[k + 1] - 1)
    BY <1>3 DEF Book
  <2> QED
    BY <2>3, <2>4, <2>5
<1> QED
  BY <1>1, <1>6, Zenon DEF PrintStaysNear

\* The words of a text are none exactly when each of its paragraphs has none.
LEMMA WordCountIs ==
  ASSUME NEW ps \in Seq(Para)
  PROVE  /\ WordCount(ps) \in Nat
         /\ \A i \in 1..Len(ps) : WordsOf(ps[i].text) <= WordCount(ps)
         /\ WordCount(ps) = 0 <=> \A q \in ToSet(ps) : WordsOf(q.text) = 0
<1>1. PICK n \in Nat : n = Len(ps) /\ DOMAIN ps = 1..n
  BY LenProperties
<1>2. \A t : WordsOf(t) \in Nat
  <2> TAKE t
  <2>1. PICK s \in Nat : s = StubWords
    BY BookMapAssumption
  <2>2. CASE t \in {"", "image"}
    BY <2>2 DEF WordsOf
  <2>3. CASE t = "chunk"
    BY <2>1, <2>3 DEF WordsOf
  <2>4. CASE t \notin {"", "image"} /\ t # "chunk"
    BY <2>4 DEF WordsOf
  <2> QED
    BY <2>2, <2>3, <2>4
<1>3. PICK T : T = Nat
  OBVIOUS
<1>4. PICK c : c = [i \in 1..n |-> WordsOf(ps[i].text)]
  OBVIOUS
<1>5. c \in Seq(T) /\ Len(c) = n
  <2>1. c \in [1..n -> T]
    BY <1>2, <1>3, <1>4
  <2>2. \A s \in [1..n -> T] : s \in Seq(T) /\ Len(s) = n
    BY SeqDef, LenProperties
  <2> QED
    BY <2>1, <2>2
<1>6. WordCount(ps) = SumOf(c)
  BY <1>1, <1>4, Zenon DEF WordCount
<1>7. /\ SumOf(c) \in Nat
      /\ \A i \in 1..n : c[i] <= SumOf(c)
      /\ SumOf(c) = 0 <=> \A i \in 1..n : c[i] = 0
  <2>1. c \in Seq(Nat)
    BY <1>3, <1>5
  <2> QED
    BY <1>5, <2>1, SumBounds
<1>8. \A i \in 1..n : c[i] = WordsOf(ps[i].text)
  BY <1>4
<1>9. (\A i \in 1..n : c[i] = 0) <=> \A q \in ToSet(ps) : WordsOf(q.text) = 0
  <2>1. ToSet(ps) = {ps[i] : i \in 1..n}
    BY <1>1, Zenon DEF ToSet
  <2> QED
    BY <1>8, <2>1
<1> QED
  BY <1>1, <1>6, <1>7, <1>8, <1>9

\* In a stub there is no long text and no subheading.
LEMMA StubHolds ==
  ASSUME NEW ps \in Seq(Para), IsTitleStub(ps), NEW i \in 1..Len(ps)
  PROVE  ~RealText(ps[i])
<1>1. DOMAIN ps = 1..Len(ps)
  BY LenProperties
<1>2. ps[i].style # "h2"
  BY <1>1 DEF IsTitleStub
<1>3. PICK w \in Nat, s \in Nat : w = WordCount(ps) /\ s = StubWords
  BY WordCountIs, BookMapAssumption
<1>4. w <= s
  BY <1>3 DEF IsTitleStub
<1>5. WordsOf(ps[i].text) <= w
  BY <1>3, WordCountIs
<1>6. ps[i].text # "chunk"
  <2> SUFFICES ASSUME ps[i].text = "chunk" PROVE FALSE
    OBVIOUS
  <2>1. WordsOf("chunk") = s + 1
    BY <1>3 DEF WordsOf
  <2>2. s + 1 <= w
    BY <1>5, <2>1
  <2> QED
    BY <1>4, <2>2
<1> QED
  BY <1>2, <1>6 DEF RealText

LEMMA RealTextHolds == BookMapInv => RealTextKept
<1> SUFFICES ASSUME BookMapInv PROVE RealTextKept
  OBVIOUS
<1>1. PICK p, b, bs, P, sp, kd : /\ p = map.paras /\ b = map.body /\ bs = map.blocks
                                 /\ P = map.pieces /\ sp = map.spans /\ kd = map.kinds
  OBVIOUS
<1>2. b \in Seq(Para) /\ printed = {[at |-> b[i].at, place |-> PlaceOf(p, b, P, kd, i)] :
                                       i \in {j \in 1..Len(b) : b[j].made # "nothing"}}
  BY <1>1, PrintedAre
<1>3. \A i \in 1..Len(b) : typed[b[i].at].style = b[i].style /\ typed[b[i].at].text = b[i].text
  BY <1>1, PrintedAre
<1>4. SUFFICES ASSUME NEW s \in printed, s.at \notin Loose(b), s.place = "dropped", RealText(typed[s.at])
               PROVE  \/ typed[s.at].style = "copyright"
                      \/ \E k \in DOMAIN kd : kd[k] = "toc" /\ s.at \in {q.at : q \in ToSet(sp[k].paras)}
  BY <1>1, Zenon DEF RealTextKept, DroppedAsReal
<1>5. PICK i \in 1..Len(b) : s = [at |-> b[i].at, place |-> PlaceOf(p, b, P, kd, i)]
  BY <1>2
<1>6. s.at = b[i].at /\ PlaceOf(p, b, P, kd, i) = "dropped"
  BY <1>4, <1>5
<1>a. /\ i \in 1..(FirstHead(b) - 1) => Plain(b, i)
      /\ FirstHead(b) <= i => ~Held(b, i)
  <2>1. b[i].at \notin Loose(b)
    BY <1>4, <1>6
  <2> QED
    BY <1>2, <2>1, NotLoose
<1>7. RealText(b[i]) /\ typed[s.at].style = b[i].style
  <2>1. typed[s.at].style = b[i].style /\ typed[s.at].text = b[i].text
    BY <1>3, <1>6
  <2> QED
    BY <1>4, <2>1 DEF RealText
<1>8. HasHead(b)
  <2>1. ~HasHead(b) => PlaceOf(p, b, P, kd, i) = "body"
    BY DEF PlaceOf
  <2> QED
    BY <1>6, <2>1
<1>9. PICK off, h : Book(p, b, bs, off, P, sp, h, kd)
  <2>1. declared \in Declarations
    BY DEF BookMapInv
  <2> QED
    BY <1>1, <1>8, <2>1, TypedIs, BookIs
<1>10. Divided(b, bs, off) /\ Named(bs, P) /\ Filed(b, bs, off, P) /\ HeadsAt(b, h, Len(sp)) /\ SpansAt(b, h, sp)
  BY <1>9 DEF Book
<1>11. KindsOf(sp, kd) /\ DOMAIN sp = 1..Len(sp)
  BY <1>9, <1>10 DEF Book, SpansAt
<1>12. CASE i \in 1..(FirstHead(b) - 1)
  <2>1. PICK k : k = PieceAt(P, i)
    OBVIOUS
  <2>2. k \in 1..Len(bs) /\ \E j \in 1..Len(bs[k].paras) : bs[k].paras[j] = b[i]
    <3>1. b \in Seq(Para)
      BY <1>2
    <3>2. Divided(b, bs, off) /\ Filed(b, bs, off, P)
      BY <1>10
    <3> QED
      BY <1>12, <2>1, <3>1, <3>2, PieceHolds
  <2>3. PICK j \in 1..Len(bs[k].paras) : bs[k].paras[j] = b[i]
    BY <2>2
  <2>4. P[k].name = "dropped"
    <3>1. FrontPlace(p, b, P, kd, i) /\ Plain(b, i)
      BY <1>9, <1>12, <1>a DEF Book
    <3> QED
      BY <1>6, <2>1, <3>1 DEF FrontPlace
  <2>5. bs[k].drop
    BY <1>10, <2>2, <2>4, PieceNames
  <2>6. PieceOf(b, bs[k], off[k - 1])
    BY <1>10, <2>2 DEF Divided
  <2>7. StyleOf(b[i]) = bs[k].style /\ (Byline(b[i]) \/ bs[k].style = "copyright")
    BY <2>3, <2>5, <2>6 DEF PieceOf
  <2>8. ~Byline(b[i])
    BY <1>7 DEF RealText, Byline
  <2>9. b[i].style = "copyright"
    <3>1. StyleOf(b[i]) = "copyright"
      BY <2>7, <2>8
    <3> QED
      BY <3>1 DEF StyleOf
  <2> QED
    BY <1>7, <2>9
<1>13. CASE FirstHead(b) <= i /\ \E k \in 1..Len(sp) : i \in h[k]..(h[k + 1] - 1)
  <2>1. PICK k \in 1..Len(sp) : i \in h[k]..(h[k + 1] - 1)
    BY <1>13
  <2>2. SectionPlace(kd, k) = "dropped"
    <3>1. BackPlace(p, b, P, kd, i, k, Len(sp)) /\ ~Held(b, i)
      BY <1>9, <1>13, <1>a, <2>1 DEF Book
    <3> QED
      BY <1>6, <3>1 DEF BackPlace
  <2>3. /\ kd[k] \in KindNames
        /\ kd[k] = "toc" => sp[k].head.text = "contents"
        /\ kd[k] = "title" => sp[k].head.text = "booktitle" /\ IsTitleStub(sp[k].paras)
    BY <1>11, <2>1 DEF KindsOf
  <2>4. kd[k] = "title" \/ kd[k] = "toc"
    BY <2>2, <2>3 DEF KindNames, SectionPlace
  <2>5. SectionIs(b, h, sp, k)
    BY <1>2, <1>10, <2>1, SectionHolds
  <2>6. sp[k].head.text \in {"contents", "booktitle"}
    BY <2>3, <2>4
  <2>7. i # h[k]
    <3> SUFFICES ASSUME i = h[k] PROVE FALSE
      OBVIOUS
    <3>1. b[i] = sp[k].head /\ IsHead(b[i])
      BY <2>5 DEF SectionIs
    <3>2. b[i].text \in {"contents", "booktitle"} /\ b[i].style = "h1"
      BY <2>6, <3>1 DEF IsHead
    <3> QED
      BY <1>7, <3>2 DEF RealText
  <2>8. i - h[k] \in 1..Len(sp[k].paras) /\ b[i] = sp[k].paras[i - h[k]] /\ sp[k].paras \in Seq(Para)
    BY <2>1, <2>5, <2>7 DEF SectionIs
  <2>9. PICK j \in 1..Len(sp[k].paras) : b[i] = sp[k].paras[j]
    BY <2>8
  <2>10. kd[k] = "toc"
    <3>1. kd[k] = "title" => ~RealText(sp[k].paras[j])
      BY <2>3, <2>8, StubHolds
    <3> QED
      BY <1>7, <2>4, <2>9, <3>1
  <2>11. b[i] \in ToSet(sp[k].paras)
    <3>1. DOMAIN sp[k].paras = 1..Len(sp[k].paras)
      BY <2>8, LenProperties
    <3> QED
      BY <2>9, <3>1 DEF ToSet
  <2>12. k \in DOMAIN kd
    BY <1>11, <2>1 DEF KindsOf
  <2> QED
    BY <1>6, <2>10, <2>11, <2>12
<1> QED
  BY <1>9, <1>12, <1>13 DEF Book

\* The words the gate counts are words that are set, and the other way round.
LEMMA GateHolds == BookMapInv => GateMatchesPrint
<1> SUFFICES ASSUME BookMapInv, \A i \in DOMAIN map.body : /\ map.body[i].made # "nothing"
                                                           /\ IsHead(map.body[i]) => WordsOf(map.body[i].text) > 0
             PROVE  KeptWords(map) = 0 <=>
                      \A s \in printed : s.place \in {"front", "body", "back"} => WordsOf(typed[s.at].text) = 0
  BY DEF GateMatchesPrint
<1>1. PICK p, b, bs, P, sp, kd : /\ p = map.paras /\ b = map.body /\ bs = map.blocks
                                 /\ P = map.pieces /\ sp = map.spans /\ kd = map.kinds
  OBVIOUS
<1>2. b \in Seq(Para) /\ printed = {[at |-> b[i].at, place |-> PlaceOf(p, b, P, kd, i)] :
                                       i \in {j \in 1..Len(b) : b[j].made # "nothing"}}
  BY <1>1, PrintedAre
<1>3. \A i \in 1..Len(b) : typed[b[i].at].text = b[i].text
  BY <1>1, PrintedAre
<1>a. \A i \in 1..Len(b) : b[i].made # "nothing" /\ (IsHead(b[i]) => WordsOf(b[i].text) > 0)
  <2>1. DOMAIN b = 1..Len(b)
    BY <1>2, LenProperties
  <2> QED
    BY <1>1, <2>1
<1> DEFINE Quiet == \A i \in 1..Len(b) : PlaceOf(p, b, P, kd, i) \in {"front", "body", "back"} => WordsOf(b[i].text) = 0
<1>4. Quiet <=> \A s \in printed : s.place \in {"front", "body", "back"} => WordsOf(typed[s.at].text) = 0
  <2>1. ASSUME Quiet, NEW s \in printed, s.place \in {"front", "body", "back"} PROVE WordsOf(typed[s.at].text) = 0
    <3>1. PICK i \in 1..Len(b) : s = [at |-> b[i].at, place |-> PlaceOf(p, b, P, kd, i)]
      BY <1>2, <2>1
    <3>2. s.place = PlaceOf(p, b, P, kd, i) /\ s.at = b[i].at
      BY <3>1
    <3> QED
      BY <1>3, <2>1, <3>2
  <2>2. ASSUME NEW i \in 1..Len(b), PlaceOf(p, b, P, kd, i) \in {"front", "body", "back"},
               \A s \in printed : s.place \in {"front", "body", "back"} => WordsOf(typed[s.at].text) = 0
        PROVE  WordsOf(b[i].text) = 0
    <3>1. PICK s \in printed : s = [at |-> b[i].at, place |-> PlaceOf(p, b, P, kd, i)]
      BY <1>2, <1>a
    <3>2. s.place = PlaceOf(p, b, P, kd, i) /\ s.at = b[i].at
      BY <3>1
    <3>3. WordsOf(typed[s.at].text) = 0
      BY <2>2, <3>2
    <3> QED
      BY <1>3, <3>2, <3>3
  <2> QED
    BY <2>1, <2>2
<1>5. PICK K \in Nat : K = Len(sp) /\ DOMAIN sp = 1..K
  BY <1>1, SectionsRead
<1>6. sp = Spans(b) /\ declared \in Declarations /\ typed \in Seq(Typed) /\ MapOf(typed, map)
  BY <1>1, TypedIs DEF MapOf, BookMapInv
<1>7. HasHead(b) <=> K > 0
  <2>1. PICK h : HeadsAt(b, h, Len(sp))
    BY <1>2, <1>6, SpansAre
  <2>2. HeadsAt(b, h, K)
    BY <1>5, <2>1
  <2> QED
    BY <1>2, <2>2, SectionsCover
<1>8. sp = <<>> <=> K = 0
  BY <1>5
<1>9. CASE ~HasHead(b)
  <2>1. KeptWords(map) = WordCount(b)
    BY <1>1, <1>5, <1>7, <1>8, <1>9 DEF KeptWords
  <2>2. \A i \in 1..Len(b) : PlaceOf(p, b, P, kd, i) = "body"
    BY <1>9 DEF PlaceOf
  <2>3. Quiet <=> \A q \in ToSet(b) : WordsOf(q.text) = 0
    <3>1. ToSet(b) = {b[i] : i \in 1..Len(b)}
      BY <1>2, LenProperties DEF ToSet
    <3> QED
      BY <2>2, <3>1
  <2>4. WordCount(b) = 0 <=> Quiet
    BY <1>2, <2>3, WordCountIs
  <2> HIDE DEF Quiet
  <2> QED
    BY <1>4, <2>1, <2>4
<1>10. CASE HasHead(b)
  <2>1. PICK off, h : Book(p, b, bs, off, P, sp, h, kd)
    BY <1>1, <1>6, <1>10, BookIs
  <2>2. Divided(b, bs, off) /\ Named(bs, P) /\ HeadsAt(b, h, K) /\ HeadsAt(b, h, Len(sp)) /\ SpansAt(b, h, sp)
    BY <1>5, <2>1 DEF Book
  <2>3. \A k \in 1..K : kd[k] \in KindNames
    BY <1>5, <2>1 DEF Book, KindsOf
  <2> DEFINE text(k) == <<sp[k].head>> \o sp[k].paras
             c == [k \in DOMAIN sp |-> IF kd[k] \in {"title", "toc"} THEN 0 ELSE WordCount(text(k))]
  <2>4. sp # <<>>
    BY <1>5, <1>7, <1>8, <1>10
  <2>5. KeptWords(map) = SumOf(c)
    BY <1>1, <2>4 DEF KeptWords
  <2>6. ASSUME NEW k \in 1..K
        PROVE  /\ WordCount(text(k)) \in Nat /\ WordCount(text(k)) # 0
               /\ h[k] \in 1..Len(b) /\ h[k] \in h[k]..(h[k + 1] - 1)
               /\ IsHead(b[h[k]]) /\ WordsOf(b[h[k]].text) > 0
    <3>1. PICK t : t = text(k)
      OBVIOUS
    <3>a. SectionIs(b, h, sp, k)
      BY <1>2, <1>5, <2>2, SectionHolds
    <3>2. t \in Seq(Para) /\ ToSet(t) = {b[i] : i \in h[k]..(h[k + 1] - 1)}
      BY <3>1, <3>a DEF SectionIs
    <3>3. h[k] \in 1..Len(b) /\ IsHead(b[h[k]])
      BY <2>2 DEF HeadsAt
    <3>4. h[k] \in h[k]..(h[k + 1] - 1)
      BY <3>a DEF SectionIs
    <3>5. WordsOf(b[h[k]].text) > 0
      BY <1>a, <3>3
    <3>6. WordCount(t) \in Nat /\ (WordCount(t) = 0 => \A q \in ToSet(t) : WordsOf(q.text) = 0)
      BY <3>2, WordCountIs
    <3>7. b[h[k]] \in ToSet(t)
      BY <3>2, <3>4
    <3>8. WordCount(t) # 0
      <4> SUFFICES ASSUME WordCount(t) = 0 PROVE FALSE
        OBVIOUS
      <4>1. WordsOf(b[h[k]].text) = 0
        BY <3>6, <3>7
      <4> QED
        BY <3>5, <4>1
    <3> HIDE DEF text
    <3> QED
      BY <3>1, <3>3, <3>4, <3>5, <3>6, <3>8
  <2>7. PICK d, T : d = c /\ T = Nat
    OBVIOUS
  <2> HIDE DEF text
  <2>8. \A k \in 1..K : d[k] = IF kd[k] \in {"title", "toc"} THEN 0 ELSE WordCount(text(k))
    BY <1>5, <2>7
  <2>9. d \in Seq(T) /\ Len(d) = K
    <3>1. d \in [1..K -> T]
      BY <1>5, <2>6, <2>7
    <3>2. \A s \in [1..K -> T] : s \in Seq(T) /\ Len(s) = K
      BY SeqDef, LenProperties
    <3> QED
      BY <3>1, <3>2
  <2> HIDE DEF c
  <2>10. SumOf(d) = 0 <=> \A k \in 1..K : d[k] = 0
    <3>1. d \in Seq(Nat)
      BY <2>7, <2>9
    <3> QED
      BY <2>9, <3>1, SumBounds
  <2>11. SumOf(d) = 0 <=> \A k \in 1..K : kd[k] \in {"title", "toc"}
    BY <2>6, <2>8, <2>10
  <2>12. ASSUME \A k \in 1..K : kd[k] \in {"title", "toc"}, NEW i \in 1..Len(b)
         PROVE  PlaceOf(p, b, P, kd, i) \notin {"front", "body", "back"}
    <3>1. \A k \in 1..K : SectionPlace(kd, k) = "dropped"
      BY <2>12 DEF SectionPlace
    <3>2. CASE i \in 1..(FirstHead(b) - 1)
      <4>1. FrontPlace(p, b, P, kd, i)
        BY <2>1, <3>2 DEF Book
      <4>2. PieceAt(P, i) \in 1..Len(bs)
        BY <2>1, <3>2 DEF Book, Filed
      <4>3. CASE \E j \in 1..PieceAt(P, i) : PlaceOf(p, b, P, kd, i) = P[j].name
        <5>1. PICK j \in 1..PieceAt(P, i) : PlaceOf(p, b, P, kd, i) = P[j].name
          BY <4>3
        <5>2. j \in 1..Len(bs)
          <6>1. PICK l \in Nat : l = Len(bs)
            BY <2>2, LenProperties DEF Divided
          <6> QED
            BY <4>2, <6>1
        <5>3. P[j].name \notin {"front", "body", "back"}
          BY <2>2, <5>2, PieceNames
        <5> QED
          BY <5>1, <5>3
      <4>4. CASE PlaceOf(p, b, P, kd, i) = SectionPlace(kd, 1)
        <5>1. 1 \in 1..K
          BY <1>7, <1>10
        <5> QED
          BY <3>1, <4>4, <5>1
      <4> QED
        BY <4>1, <4>3, <4>4 DEF FrontPlace
    <3>3. CASE \E k \in 1..K : i \in h[k]..(h[k + 1] - 1)
      <4>1. PICK k \in 1..K : i \in h[k]..(h[k + 1] - 1)
        BY <3>3
      <4>2. BackPlace(p, b, P, kd, i, k, K)
        BY <1>5, <2>1, <4>1 DEF Book
      <4>3. PICK j \in 1..K : PlaceOf(p, b, P, kd, i) = SectionPlace(kd, j)
        BY <4>2 DEF BackPlace
      <4> QED
        BY <3>1, <4>3
    <3>4. i \in 1..(FirstHead(b) - 1) \/ \E k \in 1..K : i \in h[k]..(h[k + 1] - 1)
      BY <1>5, <2>1 DEF Book
    <3> QED
      BY <3>2, <3>3, <3>4
  <2>13. ASSUME Quiet, NEW k \in 1..K PROVE kd[k] \in {"title", "toc"}
    <3> SUFFICES ASSUME kd[k] \notin {"title", "toc"} PROVE FALSE
      OBVIOUS
    <3>1. PICK i \in 1..Len(b) : i = h[k] /\ i \in h[k]..(h[k + 1] - 1) /\ IsHead(b[i]) /\ WordsOf(b[i].text) > 0
      BY <2>6
    <3>2. b[i].made = "block"
      BY <1>1, <3>1, HeadsAreBlocks
    <3>3. ~Held(b, i)
      BY <3>2 DEF Held
    <3>4. PlaceOf(p, b, P, kd, i) = SectionPlace(kd, k)
      BY <1>5, <2>1, <3>1, <3>3 DEF Book, BackPlace
    <3>5. SectionPlace(kd, k) \in {"front", "body", "back"}
      BY <2>3 DEF SectionPlace, KindNames
    <3>6. WordsOf(b[i].text) = 0
      BY <2>13, <3>4, <3>5
    <3> QED
      BY <3>1, <3>6
  <2>14. SumOf(d) = 0 <=> Quiet
    BY <2>11, <2>12, <2>13
  <2>15. KeptWords(map) = 0 <=> Quiet
    BY <2>5, <2>7, <2>14
  <2> HIDE DEF Quiet
  <2> QED
    BY <1>4, <2>15
<1> QED
  BY <1>9, <1>10

LEMMA PrintIs == BookMapInv => PrintSafe
  BY PrintHolds, NearHolds, RealTextHolds, GateHolds DEF PrintSafe

-----------------------------------------------------------------------------
(* The invariant.                                                          *)

LEMMA BookMapInvInductive == BookMapSpec => []BookMapInv
<1>1. BookMapInit => BookMapInv
  <2> SUFFICES ASSUME BookMapInit PROVE BookMapInv
    OBVIOUS
  <2>1. typed = <<>> /\ declared \in Declarations /\ map = BuildBookMap(typed) /\ printed = {}
    BY DEF BookMapInit
  <2>2. typed \in Seq(Paragraphs) /\ Len(typed) <= MaxTyped
    BY <2>1, BookMapAssumption
  <2>3. map.paras = <<>>
    <3>1. typed \in Seq(Typed)
      BY <2>1
    <3>2. map.paras = Paras(typed)
      BY <2>1, MapBuilt DEF MapOf
    <3>a. PICK q : q = Paras(typed)
      OBVIOUS
    <3>3. q \in Seq(Para) /\ \A i \in 1..Len(q) : q[i].at \in 1..Len(typed)
      BY <3>1, <3>a, ParasRead
    <3>4. PICK n \in Nat : n = Len(q)
      BY <3>3, LenProperties
    <3>5. n = 0
      <4>1. n # 0 => 1 \in 1..n
        OBVIOUS
      <4>2. 1..Len(typed) = {}
        BY <2>1
      <4> QED
        BY <3>3, <3>4, <4>1, <4>2
    <3>6. q = <<>>
      BY <3>3, <3>4, <3>5, EmptySeq
    <3> QED
      BY <3>2, <3>a, <3>6
  <2>4. Printed(map) = {}
    <3>a. <<>> \in Seq(Para)
      OBVIOUS
    <3>1. PICK p \in Seq(Para) : p = map.paras
      BY <2>3, <3>a
    <3>2. PICK b \in Seq(Para) : b = PrintBlocks(p) /\ b = Untitled(p)
      <4>1. PICK at : Keeps(p, Untitled(p), at)
        BY UntitledKeeps
      <4> QED
        BY <4>1, PrintReadsBody DEF Keeps, Body
    <3>3. PICK at : Keeps(p, b, at)
      BY <3>2, UntitledKeeps
    <3>4. PICK n \in Nat : n = Len(b) /\ DOMAIN b = 1..n
      BY LenProperties
    <3>5. 1..Len(p) = {}
      BY <2>3, <3>1
    <3>6. DOMAIN b = {}
      <4>1. \A i \in 1..n : at[i] \in 1..Len(p)
        BY <3>3, <3>4 DEF Keeps
      <4> QED
        BY <3>4, <3>5, <4>1
    <3>7. Printed(map) = {[at |-> b[i].at, place |-> Placed(map, b, i)] : i \in {j \in DOMAIN b : b[j].made # "nothing"}}
      BY <3>1, <3>2, Zenon DEF Printed
    <3> QED
      BY <3>6, <3>7
  <2> QED
    BY <2>1, <2>2, <2>4 DEF BookMapInv
<1>2. BookMapInv /\ [BookMapNext]_bookMapVars => BookMapInv'
  <2> SUFFICES ASSUME BookMapInv, [BookMapNext]_bookMapVars PROVE BookMapInv'
    OBVIOUS
  <2>1. typed \in Seq(Paragraphs) /\ Len(typed) <= MaxTyped /\ declared \in Declarations
        /\ map = BuildBookMap(typed) /\ printed = Printed(map)
    BY DEF BookMapInv
  <2>2. ASSUME NEW p \in Paragraphs, TypeParagraph(p) PROVE BookMapInv'
    <3>1. /\ Len(typed) < MaxTyped /\ typed' = Append(typed, p) /\ declared' = declared
          /\ map' = BuildBookMap(typed') /\ printed' = Printed(map')
      BY <2>2 DEF TypeParagraph
    <3>2. typed' \in Seq(Paragraphs) /\ Len(typed') = Len(typed) + 1
      BY <2>1, <3>1, AppendProperties
    <3>3. Len(typed') <= MaxTyped
      <4>1. PICK n \in Nat, l \in Nat : n = Len(typed) /\ l = MaxTyped
        BY <2>1, LenProperties, BookMapAssumption
      <4> QED
        BY <3>1, <3>2, <4>1
    <3>4. map' = BuildBookMap(typed)'
      BY <3>1 DEF BuildBookMap, Pieces, FreeNames
    <3>5. printed' = Printed(map)'
      BY <3>1
    <3> QED
      BY <2>1, <3>1, <3>2, <3>3, <3>4, <3>5 DEF BookMapInv
  <2>3. CASE UNCHANGED bookMapVars
    <3>1. typed' = typed /\ declared' = declared /\ map' = map /\ printed' = printed
      BY <2>3 DEF bookMapVars
    <3>a. ASSUME NEW u PROVE FreeNames(u)' = FreeNames(u)
      BY <3>1 DEF FreeNames
    <3>b. ASSUME NEW bs PROVE Pieces(bs)' = Pieces(bs)
      BY <3>a DEF Pieces
    <3>2. map' = BuildBookMap(typed)'
      BY <2>1, <3>1, <3>b DEF BuildBookMap
    <3>3. printed' = Printed(map)'
      BY <2>1, <3>1
    <3> QED
      BY <2>1, <3>1, <3>2, <3>3 DEF BookMapInv
  <2> QED
    BY <2>2, <2>3 DEF BookMapNext
<1> QED
  BY <1>1, <1>2, PTL DEF BookMapSpec

\* For every manuscript: the breaks that were typed are carried, the blocks of
\* the front are whole and their names given once, and front matter, body and
\* back matter follow one another (buildBookMapInner).
THEOREM MapIsSafe == BookMapSpec => []MapSafe
  BY BookMapInvInductive, MapHolds, PTL

\* For every manuscript: the filter that only counts puts every paragraph where
\* the map put it until it loses count (a RawBlock, a stripped item, a poem or a
\* table in the front), and from there on none further than an earlier piece or
\* the next section; no real text it has not lost count of is dropped but under
\* the copyright style or a Contents heading; and the gate refuses a final
\* exactly when no section sets a word (BookMapFilter, keptWordsForBook).
THEOREM PrintIsSafe == BookMapSpec => []PrintSafe
  BY BookMapInvInductive, PrintIs, PTL

-----------------------------------------------------------------------------
(* Sequences without repetitions.                                          *)

LEMMA PickedIs ==
  ASSUME NEW T, NEW s \in Seq(T), NEW S \in SUBSET (DOMAIN s)
  PROVE  /\ Picked(s, S) \in Seq(T)
         /\ ToSet(Picked(s, S)) = {s[i] : i \in S}
         /\ \A k, l \in DOMAIN Picked(s, S) : k # l =>
               \E i, j \in S : i # j /\ Picked(s, S)[k] = s[i] /\ Picked(s, S)[l] = s[j]
<1>1. PICK n \in Nat : n = Len(s) /\ DOMAIN s = 1..n
  BY LenProperties
<1>2. \A i \in 1..n : s[i] \in T
  BY <1>1, ElementOfSeq
<1>3. PICK at : at = Ascending(S)
  OBVIOUS
<1>4. /\ Len(at) \in Nat /\ DOMAIN at = 1..Len(at)
      /\ \A k \in 1..Len(at) : at[k] \in S
      /\ \A k, l \in 1..Len(at) : k < l => at[k] < at[l]
      /\ \A i \in S : \E k \in 1..Len(at) : at[k] = i
  <2>1. S \in SUBSET (1..n)
    BY <1>1
  <2> QED
    BY <2>1, <1>3, AscendingIs
<1>5. PICK l \in Nat : l = Len(at)
  BY <1>4
<1>6. Picked(s, S) = [k \in 1..l |-> s[at[k]]]
  BY <1>3, <1>4, <1>5 DEF Picked
<1>7. \A k \in 1..l : at[k] \in 1..n /\ s[at[k]] \in T
  BY <1>1, <1>2, <1>4, <1>5
<1>8. Picked(s, S) \in [1..l -> T]
  BY <1>6, <1>7
<1>9. Picked(s, S) \in Seq(T) /\ DOMAIN Picked(s, S) = 1..l
  BY <1>8, <1>6, SeqDef
<1>10. ToSet(Picked(s, S)) = {s[i] : i \in S}
  <2>1. \A k \in 1..l : Picked(s, S)[k] = s[at[k]]
    BY <1>6
  <2> QED
    BY <2>1, <1>4, <1>5, <1>9 DEF ToSet
<1>11. ASSUME NEW k \in 1..l, NEW m \in 1..l, k # m
       PROVE  at[k] \in S /\ at[m] \in S /\ at[k] # at[m]
  <2>1. k < m \/ m < k
    BY <1>11
  <2>2. at[k] \in Int /\ at[m] \in Int
    BY <1>7
  <2> QED
    BY <1>4, <1>5, <2>1, <2>2
<1> QED
  BY <1>6, <1>9, <1>10, <1>11

LEMMA ToSetEmpty == ToSet(<<>>) = {}
  BY DEF ToSet

LEMMA ToSetConcat ==
  ASSUME NEW T, NEW s \in Seq(T), NEW t \in Seq(T)
  PROVE  ToSet(s \o t) = ToSet(s) \cup ToSet(t)
<1>1. PICK n \in Nat, m \in Nat : /\ n = Len(s) /\ DOMAIN s = 1..n
                                  /\ m = Len(t) /\ DOMAIN t = 1..m
  BY LenProperties
<1>2. PICK u : u = s \o t
  OBVIOUS
<1>3. /\ u \in Seq(T) /\ Len(u) = n + m
      /\ \A i \in 1..(n + m) : u[i] = IF i <= n THEN s[i] ELSE t[i - n]
  BY <1>1, <1>2, ConcatProperties
<1>4. DOMAIN u = 1..(n + m)
  BY <1>3, LenProperties
<1>5. \A i \in 1..n : i \in 1..(n + m) /\ u[i] = s[i]
  BY <1>3
<1>6. \A i \in 1..m : n + i \in 1..(n + m) /\ u[n + i] = t[i]
  BY <1>3
<1>7. \A i \in 1..(n + m) : i \in 1..n \/ (i - n \in 1..m /\ u[i] = t[i - n])
  BY <1>3
<1>8. ToSet(s) = {s[i] : i \in 1..n} /\ ToSet(t) = {t[i] : i \in 1..m}
  BY <1>1 DEF ToSet
<1>9. ToSet(u) = {u[i] : i \in 1..(n + m)}
  BY <1>4 DEF ToSet
<1>10. ASSUME NEW x \in ToSet(u) PROVE x \in ToSet(s) \cup ToSet(t)
  <2>1. PICK i \in 1..(n + m) : x = u[i]
    BY <1>9
  <2>2. CASE i \in 1..n
    BY <1>5, <1>8, <2>1, <2>2
  <2>3. CASE i - n \in 1..m /\ u[i] = t[i - n]
    BY <1>8, <2>1, <2>3
  <2> QED
    BY <1>7, <2>1, <2>2, <2>3
<1>11. ASSUME NEW x \in ToSet(s) \cup ToSet(t) PROVE x \in ToSet(u)
  BY <1>5, <1>6, <1>8, <1>9
<1> QED
  BY <1>2, <1>10, <1>11

LEMMA AppendNewIs ==
  ASSUME NEW T, NEW xs \in Seq(T), NEW ys \in Seq(T)
  PROVE  /\ AppendNew(xs, ys) \in Seq(T)
         /\ ToSet(AppendNew(xs, ys)) = ToSet(xs) \cup ToSet(ys)
         /\ IsInjective(xs) => IsInjective(AppendNew(xs, ys))
<1>1. PICK n \in Nat, m \in Nat : /\ n = Len(xs) /\ DOMAIN xs = 1..n
                                  /\ m = Len(ys) /\ DOMAIN ys = 1..m
  BY LenProperties
<1> DEFINE New == {i \in DOMAIN ys : ys[i] \notin ToSet(xs) /\ \A j \in 1..i - 1 : ys[j] # ys[i]}
<1>2. PICK p : p = Picked(ys, New)
  OBVIOUS
<1>3. /\ p \in Seq(T) /\ ToSet(p) = {ys[i] : i \in New}
      /\ \A k, l \in DOMAIN p : k # l => \E i, j \in New : i # j /\ p[k] = ys[i] /\ p[l] = ys[j]
  <2>1. New \in SUBSET (DOMAIN ys)
    OBVIOUS
  <2> HIDE DEF New
  <2> QED
    BY <1>2, <2>1, PickedIs
<1>4. AppendNew(xs, ys) = xs \o p
  BY <1>2 DEF AppendNew
<1>5. xs \o p \in Seq(T) /\ ToSet(xs \o p) = ToSet(xs) \cup ToSet(p)
  BY <1>3, ConcatProperties, ToSetConcat
<1>6. ToSet(p) \subseteq ToSet(ys)
  BY <1>3 DEF ToSet
<1>7. ASSUME NEW y \in ToSet(ys), y \notin ToSet(xs) PROVE y \in ToSet(p)
  <2> DEFINE Alike == {i \in 1..m : ys[i] = y}
  <2>1. Alike \in SUBSET Nat /\ Alike # {}
    BY <1>1, <1>7 DEF ToSet
  <2>2. PICK i \in Alike : \A k \in Alike : i <= k
    <3> HIDE DEF Alike
    <3> QED
      BY <2>1, LeastNatural
  <2>3. \A j \in 1..i - 1 : ys[j] # ys[i]
    BY <2>2
  <2>4. i \in New
    BY <1>1, <1>7, <2>2, <2>3
  <2> QED
    BY <1>3, <2>2, <2>4
<1>8. ASSUME IsInjective(xs) PROVE IsInjective(xs \o p)
  <2>1. PICK l \in Nat : l = Len(p) /\ DOMAIN p = 1..l
    BY <1>3, LenProperties
  <2>2. PICK u : u = xs \o p
    OBVIOUS
  <2>3. /\ u \in Seq(T) /\ Len(u) = n + l
        /\ \A i \in 1..(n + l) : u[i] = IF i <= n THEN xs[i] ELSE p[i - n]
    BY <1>1, <1>3, <2>1, <2>2, ConcatProperties
  <2>4. DOMAIN u = 1..(n + l)
    BY <2>3, LenProperties
  <2>5. \A k, j \in 1..l : k # j => p[k] # p[j]
    <3> SUFFICES ASSUME NEW k \in 1..l, NEW j \in 1..l, k # j PROVE p[k] # p[j]
      OBVIOUS
    <3>1. PICK a, b \in New : a # b /\ p[k] = ys[a] /\ p[j] = ys[b]
      <4> HIDE DEF New
      <4> QED
        BY <1>3, <2>1
    <3>2. a \in 1..m /\ b \in 1..m
      BY <1>1
    <3>3. a \in 1..b - 1 \/ b \in 1..a - 1
      BY <3>1, <3>2
    <3> QED
      BY <3>1, <3>3
  <2>6. \A k \in 1..l : p[k] \notin ToSet(xs)
    <3> SUFFICES ASSUME NEW k \in 1..l PROVE p[k] \notin ToSet(xs)
      OBVIOUS
    <3>1. p[k] \in ToSet(p)
      BY <2>1 DEF ToSet
    <3>2. PICK i \in New : p[k] = ys[i]
      BY <1>3, <3>1
    <3> QED
      BY <3>2
  <2>7. \A i \in 1..n : xs[i] \in ToSet(xs)
    BY <1>1 DEF ToSet
  <2>8. \A i, j \in 1..n : xs[i] = xs[j] => i = j
    BY <1>1, <1>8 DEF IsInjective
  <2>9. ASSUME NEW i \in 1..(n + l), NEW j \in 1..(n + l), u[i] = u[j] PROVE i = j
    <3>1. CASE i <= n /\ j <= n
      <4>1. i \in 1..n /\ j \in 1..n /\ u[i] = xs[i] /\ u[j] = xs[j]
        BY <2>3, <3>1
      <4> QED
        BY <2>8, <2>9, <4>1
    <3>2. CASE i <= n /\ ~ (j <= n)
      <4>1. i \in 1..n /\ j - n \in 1..l /\ u[i] = xs[i] /\ u[j] = p[j - n]
        BY <2>3, <3>2
      <4> QED
        BY <2>6, <2>7, <2>9, <4>1
    <3>3. CASE ~ (i <= n) /\ j <= n
      <4>1. j \in 1..n /\ i - n \in 1..l /\ u[j] = xs[j] /\ u[i] = p[i - n]
        BY <2>3, <3>3
      <4> QED
        BY <2>6, <2>7, <2>9, <4>1
    <3>4. CASE ~ (i <= n) /\ ~ (j <= n)
      <4>1. j - n \in 1..l /\ i - n \in 1..l /\ u[j] = p[j - n] /\ u[i] = p[i - n]
        BY <2>3, <3>4
      <4>2. i - n = j - n
        BY <2>5, <2>9, <4>1
      <4> QED
        BY <4>2
    <3> QED
      BY <3>1, <3>2, <3>3, <3>4
  <2> QED
    BY <2>2, <2>4, <2>9 DEF IsInjective
<1> HIDE DEF New
<1> QED
  BY <1>4, <1>5, <1>6, <1>7, <1>8

LEMMA UniqueIs ==
  ASSUME NEW T, NEW xs \in Seq(T)
  PROVE  Unique(xs) \in Seq(T) /\ ToSet(Unique(xs)) = ToSet(xs) /\ IsInjective(Unique(xs))
<1>1. <<>> \in Seq(T) /\ IsInjective(<<>>)
  BY EmptySeq DEF IsInjective
<1>2. /\ AppendNew(<<>>, xs) \in Seq(T)
      /\ ToSet(AppendNew(<<>>, xs)) = ToSet(<<>>) \cup ToSet(xs)
      /\ IsInjective(<<>>) => IsInjective(AppendNew(<<>>, xs))
  BY <1>1, AppendNewIs
<1> QED
  BY <1>1, <1>2, ToSetEmpty DEF Unique

LEMMA AppendUniqueIs ==
  ASSUME NEW T, NEW xs \in Seq(T), NEW x \in T
  PROVE  AppendUnique(xs, x) \in Seq(T) /\ ToSet(AppendUnique(xs, x)) = ToSet(xs) \cup {x}
<1>1. <<x>> \in Seq(T)
  OBVIOUS
<1>2. ToSet(<<x>>) = {x}
  BY DEF ToSet
<1>3. /\ AppendNew(xs, <<x>>) \in Seq(T)
      /\ ToSet(AppendNew(xs, <<x>>)) = ToSet(xs) \cup ToSet(<<x>>)
  BY <1>1, AppendNewIs
<1> QED
  BY <1>2, <1>3 DEF AppendUnique

LEMMA FlattenedSet ==
  ASSUME NEW T, NEW ss \in Seq(Seq(T))
  PROVE  ToSet(FlattenSeq(ss)) = UNION {ToSet(ss[i]) : i \in DOMAIN ss}
<1> DEFINE I == {u \in Seq(Seq(T)) : ToSet(FlattenSeq(u)) = UNION {ToSet(u[i]) : i \in DOMAIN u}}
<1>1. <<>> \in I
  BY FlattenEmpty, ToSetEmpty, EmptySeq
<1>2. ASSUME NEW u \in I, NEW e \in Seq(T) PROVE Append(u, e) \in I
  <2>1. PICK n \in Nat : n = Len(u) /\ DOMAIN u = 1..n
    BY LenProperties
  <2>2. PICK v : v = Append(u, e)
    OBVIOUS
  <2>3. v \in Seq(Seq(T)) /\ Len(v) = n + 1 /\ v[n + 1] = e /\ \A i \in 1..n : v[i] = u[i]
    BY <2>1, <2>2, AppendProperties
  <2>4. DOMAIN v = 1..(n + 1)
    BY <2>3, LenProperties
  <2>5. FlattenSeq(v) = FlattenSeq(u) \o e
    BY <2>2, FlattenAppend
  <2>6. ToSet(FlattenSeq(v)) = ToSet(FlattenSeq(u)) \cup ToSet(e)
    BY <2>5, FlattenType, ToSetConcat
  <2>7. UNION {ToSet(v[i]) : i \in DOMAIN v} = (UNION {ToSet(u[i]) : i \in DOMAIN u}) \cup ToSet(e)
    <3>1. \A i \in 1..n : i \in 1..(n + 1)
      OBVIOUS
    <3>2. \A i \in 1..(n + 1) : i \in 1..n \/ i = n + 1
      OBVIOUS
    <3>3. n + 1 \in 1..(n + 1)
      OBVIOUS
    <3>4. {ToSet(v[i]) : i \in DOMAIN v} = {ToSet(u[i]) : i \in DOMAIN u} \cup {ToSet(e)}
      BY <2>1, <2>3, <2>4, <3>1, <3>2, <3>3
    <3> QED
      BY <3>4
  <2> QED
    BY <2>2, <2>3, <2>6, <2>7
<1>3. I \in SUBSET Seq(Seq(T))
  OBVIOUS
<1>4. ss \in I
  <2> HIDE DEF I
  <2> QED
    BY <1>1, <1>2, <1>3, SeqInduction
<1> QED
  BY <1>4

-----------------------------------------------------------------------------
(* Identical entries.                                                      *)

LEMMA MappedSeq ==
  ASSUME NEW S, NEW s \in Seq(S), NEW T, NEW f \in [DOMAIN s -> T]
  PROVE  f \in Seq(T) /\ DOMAIN f = DOMAIN s /\ Len(f) = Len(s)
<1>1. PICK n \in Nat : n = Len(s) /\ DOMAIN s = 1..n
  BY LenProperties
<1>2. f \in [1..n -> T] /\ DOMAIN f = 1..n
  BY <1>1
<1>3. f \in Seq(T)
  BY <1>2, SeqDef
<1>4. Len(f) = n
  BY <1>2, <1>3, LenProperties
<1> QED
  BY <1>1, <1>2, <1>3, <1>4

SeesOf(es) == {es[i].see : i \in DOMAIN es}
AlsosOf(es) == UNION {ToSet(es[i].also) : i \in DOMAIN es}

LEMMA Holds ==
  ASSUME NEW es, NEW x
  PROVE  /\ x \in AnchorsOf(es) <=> \E i \in DOMAIN es : x \in ToSet(es[i].anchors)
         /\ x \in AlsosOf(es) <=> \E i \in DOMAIN es : x \in ToSet(es[i].also)
         /\ x \in SeesOf(es) <=> \E i \in DOMAIN es : x = es[i].see
         /\ x \in Heads(es) <=> \E i \in DOMAIN es : x = es[i].head
  BY DEF AnchorsOf, AlsosOf, SeesOf, Heads

\* A sequence of entries, field by field.
LEMMA Fields ==
  ASSUME NEW es \in Seq(EntryRecord)
  PROVE  /\ \E n \in Nat : n = Len(es) /\ DOMAIN es = 1..n
         /\ \A i \in DOMAIN es : /\ es[i] \in EntryRecord
                                 /\ es[i].head \in Heading /\ es[i].sub \in Heading /\ es[i].see \in Heading
                                 /\ es[i].also \in Seq(Heading) /\ es[i].anchors \in Seq(STRING)
         /\ Heads(es) \subseteq Heading /\ SeesOf(es) \subseteq Heading
         /\ AlsosOf(es) \subseteq Heading
<1>1. \E n \in Nat : n = Len(es) /\ DOMAIN es = 1..n
  BY LenProperties
<1>2. \A i \in DOMAIN es : es[i] \in EntryRecord
  BY <1>1, ElementOfSeq
<1>3. \A i \in DOMAIN es : /\ es[i].head \in Heading /\ es[i].sub \in Heading /\ es[i].see \in Heading
                           /\ es[i].also \in Seq(Heading) /\ es[i].anchors \in Seq(STRING)
  BY <1>2 DEF EntryRecord
<1>4. \A s \in Seq(Heading) : ToSet(s) \subseteq Heading
  <2>1. \A s \in Seq(Heading) : \A i \in DOMAIN s : s[i] \in Heading
    BY ElementOfSeq, LenProperties
  <2> QED
    BY <2>1 DEF ToSet
<1>5. Heads(es) \subseteq Heading /\ SeesOf(es) \subseteq Heading
  BY <1>3 DEF Heads, SeesOf
<1>6. AlsosOf(es) \subseteq Heading
  BY <1>3, <1>4 DEF AlsosOf
<1> QED
  BY <1>1, <1>2, <1>3, <1>5, <1>6

LEMMA FlattenFields ==
  ASSUME NEW es \in Seq(EntryRecord)
  PROVE  /\ [i \in DOMAIN es |-> es[i].also] \in Seq(Seq(Heading))
         /\ [i \in DOMAIN es |-> es[i].anchors] \in Seq(Seq(STRING))
         /\ ToSet(FlattenSeq([i \in DOMAIN es |-> es[i].also])) = AlsosOf(es)
         /\ ToSet(FlattenSeq([i \in DOMAIN es |-> es[i].anchors])) = AnchorsOf(es)
<1>1. PICK also : also = [i \in DOMAIN es |-> es[i].also]
  OBVIOUS
<1>2. PICK marks : marks = [i \in DOMAIN es |-> es[i].anchors]
  OBVIOUS
<1>3. also \in [DOMAIN es -> Seq(Heading)] /\ marks \in [DOMAIN es -> Seq(STRING)]
  BY <1>1, <1>2, Fields
<1>4. also \in Seq(Seq(Heading)) /\ marks \in Seq(Seq(STRING))
  BY <1>3, MappedSeq
<1>5. /\ ToSet(FlattenSeq(also)) = UNION {ToSet(also[i]) : i \in DOMAIN also}
      /\ ToSet(FlattenSeq(marks)) = UNION {ToSet(marks[i]) : i \in DOMAIN marks}
  BY <1>4, FlattenedSet
<1>6. {ToSet(also[i]) : i \in DOMAIN also} = {ToSet(es[i].also) : i \in DOMAIN es}
  BY <1>1
<1>7. {ToSet(marks[i]) : i \in DOMAIN marks} = {ToSet(es[i].anchors) : i \in DOMAIN es}
  BY <1>2
<1> QED
  BY <1>1, <1>2, <1>4, <1>5, <1>6, <1>7 DEF AlsosOf, AnchorsOf

\* What one entry made of a group holds.
OneOf(g, j) ==
  /\ j \in EntryRecord /\ j.head = g[1].head /\ j.sub = g[1].sub
  /\ j.see \in SeesOf(g) \cup {NoRef}
  /\ ToSet(j.also) = AlsosOf(g)
  /\ ToSet(j.anchors) = AnchorsOf(g) /\ IsInjective(j.anchors)

LEMMA JoinedIs ==
  ASSUME NEW g \in Seq(EntryRecord), g # <<>>
  PROVE  OneOf(g, Joined(g))
<1>1. PICK n \in Nat : n = Len(g) /\ DOMAIN g = 1..n
  BY LenProperties
<1>2. n # 0
  BY <1>1, EmptySeq
<1>3. 1 \in DOMAIN g
  BY <1>1, <1>2
<1>4. PICK e \in EntryRecord : e = g[1]
  BY <1>3, Fields
<1>5. FirstSee(g) \in SeesOf(g) \cup {NoRef} /\ FirstSee(g) \in Heading
  <2> DEFINE with == {i \in DOMAIN g : g[i].see # NoRef}
  <2>1. NoRef \in Heading
    BY EmptySeq DEF NoRef, Heading
  <2>2. CASE with = {}
    BY <2>1, <2>2 DEF FirstSee
  <2>3. CASE with # {}
    <3>1. with \in SUBSET Nat
      BY <1>1
    <3>2. First(with) \in with
      <4> HIDE DEF with
      <4> QED
        BY <2>3, <3>1, FirstOf
    <3>3. First(with) \in DOMAIN g
      BY <3>2
    <3>4. FirstSee(g) = g[First(with)].see
      BY <2>3 DEF FirstSee
    <3> QED
      BY <3>3, <3>4, Fields DEF SeesOf
  <2> QED
    BY <2>2, <2>3
<1>6. PICK also \in Seq(Heading) : also = AllAlso(g) /\ ToSet(also) = AlsosOf(g)
  <2>1. PICK f : f = FlattenSeq([i \in DOMAIN g |-> g[i].also])
    OBVIOUS
  <2>2. f \in Seq(Heading) /\ ToSet(f) = AlsosOf(g)
    BY <2>1, FlattenFields, FlattenType
  <2>3. e.also \in Seq(Heading) /\ ToSet(e.also) \subseteq AlsosOf(g)
    BY <1>3, <1>4 DEF EntryRecord, AlsosOf
  <2>4. AppendNew(e.also, f) \in Seq(Heading) /\ ToSet(AppendNew(e.also, f)) = ToSet(e.also) \cup ToSet(f)
    BY <2>2, <2>3, AppendNewIs
  <2>5. AllAlso(g) = AppendNew(e.also, f)
    BY <1>4, <2>1 DEF AllAlso
  <2> QED
    BY <2>2, <2>3, <2>4, <2>5
<1>7. PICK as \in Seq(STRING) :
         /\ as = Unique(FlattenSeq([i \in DOMAIN g |-> g[i].anchors]))
         /\ ToSet(as) = AnchorsOf(g) /\ IsInjective(as)
  <2>1. PICK f : f = FlattenSeq([i \in DOMAIN g |-> g[i].anchors])
    OBVIOUS
  <2>2. f \in Seq(STRING) /\ ToSet(f) = AnchorsOf(g)
    BY <2>1, FlattenFields, FlattenType
  <2>3. Unique(f) \in Seq(STRING) /\ ToSet(Unique(f)) = ToSet(f) /\ IsInjective(Unique(f))
    BY <2>2, UniqueIs
  <2> QED
    BY <2>1, <2>2, <2>3
<1>8. Joined(g) = [e EXCEPT !.see = FirstSee(g), !.also = also, !.anchors = as]
  BY <1>4, <1>6, <1>7 DEF Joined
<1>9. PICK see \in Heading : see = FirstSee(g)
  BY <1>5
<1>10. PICK j : j = [e EXCEPT !.see = see, !.also = also, !.anchors = as]
  OBVIOUS
<1>11. /\ j \in EntryRecord /\ j.head = e.head /\ j.sub = e.sub /\ j.see = see
       /\ j.also = also /\ j.anchors = as
  BY <1>10 DEF EntryRecord
<1> QED
  BY <1>4, <1>5, <1>6, <1>7, <1>8, <1>9, <1>10, <1>11 DEF OneOf

\* No key twice, no anchor of an entry twice.
NoTwice(es) ==
  /\ \A i, j \in DOMAIN es : i # j => Key(es[i]) # Key(es[j])
  /\ \A i \in DOMAIN es : IsInjective(es[i].anchors)

\* m holds what es holds, each heading and subheading once.
Merged(es, m) ==
  /\ m \in Seq(EntryRecord) /\ NoTwice(m)
  /\ Heads(m) = Heads(es) /\ AnchorsOf(m) = AnchorsOf(es)
  /\ SeesOf(m) \subseteq SeesOf(es) \cup {NoRef} /\ AlsosOf(m) \subseteq AlsosOf(es)

LEMMA MergedIs ==
  ASSUME NEW es \in Seq(EntryRecord)
  PROVE  Merged(es, MergeIdentical(es))
<1>1. PICK H : H = Heading \X Heading
  OBVIOUS
<1>2. PICK all \in Seq(H) : /\ all = [i \in DOMAIN es |-> Key(es[i])]
                            /\ DOMAIN all = DOMAIN es
  <2>1. PICK f : f = [i \in DOMAIN es |-> Key(es[i])]
    OBVIOUS
  <2>2. f \in [DOMAIN es -> H]
    BY <1>1, <2>1, Fields DEF Key
  <2> QED
    BY <2>1, <2>2, MappedSeq
<1>3. PICK keys \in Seq(H) : keys = Unique(all) /\ ToSet(keys) = ToSet(all) /\ IsInjective(keys)
  BY UniqueIs
<1>4. PICK K \in Nat : K = Len(keys) /\ DOMAIN keys = 1..K
  BY LenProperties
<1> DEFINE At1(k) == {i \in DOMAIN es : Key(es[i]) = keys[k]}
<1>5. PICK m : m = MergeIdentical(es)
  OBVIOUS
<1>6. m = [k \in 1..K |-> Joined(Picked(es, At1(k)))]
  BY <1>2, <1>3, <1>4, <1>5 DEF MergeIdentical
<1>7. ASSUME NEW k \in 1..K
      PROVE  /\ m[k] \in EntryRecord /\ Key(m[k]) = keys[k] /\ IsInjective(m[k].anchors)
             /\ At1(k) # {} /\ At1(k) \subseteq DOMAIN es
             /\ \A a : a \in ToSet(m[k].anchors) <=> \E i \in At1(k) : a \in ToSet(es[i].anchors)
             /\ \A a : a \in ToSet(m[k].also) => \E i \in At1(k) : a \in ToSet(es[i].also)
             /\ m[k].see = NoRef \/ \E i \in At1(k) : m[k].see = es[i].see
  <2>1. PICK g : g = Picked(es, At1(k))
    OBVIOUS
  <2>2. At1(k) \in SUBSET (DOMAIN es)
    OBVIOUS
  <2>3. At1(k) # {}
    <3>1. keys[k] \in ToSet(all)
      BY <1>3, <1>4 DEF ToSet
    <3>2. PICK i \in DOMAIN es : keys[k] = all[i]
      BY <1>2, <3>1 DEF ToSet
    <3>3. i \in At1(k)
      BY <1>2, <3>2
    <3> QED
      BY <3>3
  <2>4. g \in Seq(EntryRecord) /\ ToSet(g) = {es[i] : i \in At1(k)}
    <3> HIDE DEF At1
    <3> QED
      BY <2>1, <2>2, PickedIs
  <2>5. g # <<>>
    BY <2>3, <2>4, ToSetEmpty
  <2>6. OneOf(g, m[k])
    BY <1>6, <2>1, <2>4, <2>5, JoinedIs
  <2>7. \A x \in ToSet(g) : \E i \in At1(k) : x = es[i]
    BY <2>4
  <2>8. 1 \in DOMAIN g
    BY <2>4, <2>5, EmptySeq, LenProperties
  <2>9. g[1] \in ToSet(g)
    BY <2>8 DEF ToSet
  <2>10. Key(m[k]) = keys[k]
    <3>1. PICK i \in At1(k) : g[1] = es[i]
      BY <2>7, <2>9
    <3>2. Key(es[i]) = keys[k]
      BY <3>1
    <3>3. m[k].head = es[i].head /\ m[k].sub = es[i].sub
      BY <2>6, <3>1 DEF OneOf
    <3> QED
      BY <3>2, <3>3 DEF Key
  <2>11. \A n \in DOMAIN g : \E i \in At1(k) : g[n] = es[i]
    <3>1. \A n \in DOMAIN g : g[n] \in ToSet(g)
      BY DEF ToSet
    <3> QED
      BY <2>7, <3>1
  <2>12. \A i \in At1(k) : \E n \in DOMAIN g : g[n] = es[i]
    <3>1. \A i \in At1(k) : es[i] \in ToSet(g)
      BY <2>4
    <3> QED
      BY <3>1 DEF ToSet
  <2>13. m[k] \in EntryRecord /\ IsInjective(m[k].anchors)
    BY <2>6 DEF OneOf
  <2> HIDE DEF At1
  <2>14. ASSUME NEW a PROVE a \in ToSet(m[k].anchors) <=> \E i \in At1(k) : a \in ToSet(es[i].anchors)
    <3>1. a \in ToSet(m[k].anchors) <=> a \in AnchorsOf(g)
      BY <2>6 DEF OneOf
    <3>2. a \in AnchorsOf(g) <=> \E n \in DOMAIN g : a \in ToSet(g[n].anchors)
      BY Holds
    <3> QED
      BY <2>11, <2>12, <3>1, <3>2
  <2>15. ASSUME NEW a, a \in ToSet(m[k].also) PROVE \E i \in At1(k) : a \in ToSet(es[i].also)
    <3>1. a \in AlsosOf(g)
      BY <2>6, <2>15 DEF OneOf
    <3>2. PICK n \in DOMAIN g : a \in ToSet(g[n].also)
      BY <3>1, Holds
    <3> QED
      BY <2>11, <3>2
  <2>16. m[k].see = NoRef \/ \E i \in At1(k) : m[k].see = es[i].see
    <3>1. CASE m[k].see \in SeesOf(g)
      <4>1. PICK n \in DOMAIN g : m[k].see = g[n].see
        BY <3>1, Holds
      <4> QED
        BY <2>11, <4>1
    <3> QED
      BY <2>6, <3>1 DEF OneOf
  <2> QED
    BY <2>2, <2>3, <2>10, <2>13, <2>14, <2>15, <2>16
<1>8. \A i \in DOMAIN es : \E k \in 1..K : i \in At1(k)
  <2> SUFFICES ASSUME NEW i \in DOMAIN es PROVE \E k \in 1..K : i \in At1(k)
    OBVIOUS
  <2>1. all[i] \in ToSet(keys)
    BY <1>2, <1>3 DEF ToSet
  <2>2. PICK k \in 1..K : all[i] = keys[k]
    BY <1>4, <2>1 DEF ToSet
  <2> QED
    BY <1>2, <2>2
<1>9. m \in Seq(EntryRecord) /\ DOMAIN m = 1..K
  <2>1. m \in [1..K -> EntryRecord]
    <3>1. \A k \in 1..K : m[k] \in EntryRecord
      BY <1>7
    <3> QED
      BY <1>6, <3>1
  <2> QED
    BY <2>1, SeqDef
<1>10. \A k \in 1..K : \A i \in At1(k) : Key(es[i]) = Key(m[k])
  BY <1>7
<1> HIDE DEF At1
<1>11. NoTwice(m)
  <2>1. \A k, l \in 1..K : k # l => keys[k] # keys[l]
    BY <1>3, <1>4 DEF IsInjective
  <2>2. \A k \in 1..K : Key(m[k]) = keys[k] /\ IsInjective(m[k].anchors)
    BY <1>7
  <2>3. DOMAIN m = 1..K
    BY <1>9
  <2> QED
    BY <2>1, <2>2, <2>3, Zenon DEF NoTwice
<1>12. Heads(m) = Heads(es)
  <2>1. \A k \in 1..K : \A i \in At1(k) : es[i].head = m[k].head
    BY <1>10 DEF Key
  <2>2. ASSUME NEW h \in Heads(m) PROVE h \in Heads(es)
    <3>1. PICK k \in 1..K : h = m[k].head
      BY <1>9 DEF Heads
    <3>2. PICK i \in At1(k) : i \in DOMAIN es
      BY <1>7
    <3> QED
      BY <2>1, <3>1, <3>2 DEF Heads
  <2>3. ASSUME NEW h \in Heads(es) PROVE h \in Heads(m)
    <3>1. PICK i \in DOMAIN es : h = es[i].head
      BY DEF Heads
    <3>2. PICK k \in 1..K : i \in At1(k)
      BY <1>8
    <3> QED
      BY <1>9, <2>1, <3>1, <3>2 DEF Heads
  <2> QED
    BY <2>2, <2>3
<1>13. AnchorsOf(m) = AnchorsOf(es)
  <2>1. ASSUME NEW a \in AnchorsOf(m) PROVE a \in AnchorsOf(es)
    <3>1. PICK k \in 1..K : a \in ToSet(m[k].anchors)
      BY <1>9 DEF AnchorsOf
    <3>2. PICK i \in At1(k) : a \in ToSet(es[i].anchors)
      BY <1>7, <3>1
    <3>3. i \in DOMAIN es
      BY <1>7, <3>2
    <3> QED
      BY <3>2, <3>3 DEF AnchorsOf
  <2>2. ASSUME NEW a \in AnchorsOf(es) PROVE a \in AnchorsOf(m)
    <3>1. PICK i \in DOMAIN es : a \in ToSet(es[i].anchors)
      BY DEF AnchorsOf
    <3>2. PICK k \in 1..K : i \in At1(k)
      BY <1>8
    <3>3. a \in ToSet(m[k].anchors)
      BY <1>7, <3>1, <3>2
    <3> QED
      BY <1>9, <3>3 DEF AnchorsOf
  <2> QED
    BY <2>1, <2>2
<1>14. SeesOf(m) \subseteq SeesOf(es) \cup {NoRef}
  <2> SUFFICES ASSUME NEW x \in SeesOf(m), x # NoRef PROVE x \in SeesOf(es)
    OBVIOUS
  <2>1. PICK k \in 1..K : x = m[k].see
    BY <1>9 DEF SeesOf
  <2>2. PICK i \in At1(k) : m[k].see = es[i].see
    BY <1>7, <2>1
  <2>3. i \in DOMAIN es
    BY <1>7, <2>2
  <2> QED
    BY <2>1, <2>2, <2>3 DEF SeesOf
<1>15. AlsosOf(m) \subseteq AlsosOf(es)
  <2> SUFFICES ASSUME NEW a \in AlsosOf(m) PROVE a \in AlsosOf(es)
    OBVIOUS
  <2>1. PICK k \in 1..K : a \in ToSet(m[k].also)
    BY <1>9 DEF AlsosOf
  <2>2. PICK i \in At1(k) : a \in ToSet(es[i].also)
    BY <1>7, <2>1
  <2>3. i \in DOMAIN es
    BY <1>7, <2>2
  <2> QED
    BY <2>2, <2>3 DEF AlsosOf
<1> QED
  BY <1>5, <1>9, <1>11, <1>12, <1>13, <1>14, <1>15 DEF Merged

-----------------------------------------------------------------------------
(* tidy and crossRefs.                                                     *)

\* t has the headings, subheadings and anchors of es, entry by entry.
SameFrame(es, t) ==
  /\ t \in Seq(EntryRecord) /\ DOMAIN t = DOMAIN es
  /\ \A i \in DOMAIN es : t[i].head = es[i].head /\ t[i].sub = es[i].sub /\ t[i].anchors = es[i].anchors

LEMMA FrameKept ==
  ASSUME NEW es, NEW t, SameFrame(es, t)
  PROVE  Heads(t) = Heads(es) /\ AnchorsOf(t) = AnchorsOf(es) /\ (NoTwice(es) => NoTwice(t))
<1>1. \A x : x \in Heads(t) <=> x \in Heads(es)
  BY DEF SameFrame, Heads
<1>2. \A x : x \in AnchorsOf(t) <=> x \in AnchorsOf(es)
  BY DEF SameFrame, AnchorsOf
<1>3. NoTwice(es) => NoTwice(t)
  <2>1. \A i \in DOMAIN es : Key(t[i]) = Key(es[i])
    BY DEF SameFrame, Key
  <2> QED
    BY <2>1 DEF SameFrame, NoTwice
<1> QED
  BY <1>1, <1>2, <1>3

\* The elements of a sequence without some of them, each once.
LEMMA UniquePicked ==
  ASSUME NEW T, NEW s \in Seq(T), NEW S \in SUBSET (DOMAIN s)
  PROVE  /\ Unique(Picked(s, S)) \in Seq(T) /\ IsInjective(Unique(Picked(s, S)))
         /\ \A x : x \in ToSet(Unique(Picked(s, S))) <=> \E i \in S : x = s[i]
<1>1. PICK p \in Seq(T) : p = Picked(s, S) /\ ToSet(p) = {s[i] : i \in S}
  BY PickedIs
<1>2. Unique(p) \in Seq(T) /\ ToSet(Unique(p)) = ToSet(p) /\ IsInjective(Unique(p))
  BY UniqueIs
<1> QED
  BY <1>1, <1>2

\* An entry that tidy has seen.
TidyEntry(e, t) ==
  /\ t \in EntryRecord /\ t.head = e.head /\ t.sub = e.sub /\ t.anchors = e.anchors
  /\ t.see \in {NoRef, e.see}
  /\ t.see # NoRef => t.see # t.head /\ t.anchors = <<>> /\ t.sub = <<>>
  /\ IsInjective(t.also) /\ t.head \notin ToSet(t.also)
  /\ \A x \in ToSet(t.also) : x \in ToSet(e.also) \/ (x = e.see /\ x # NoRef)

LEMMA WithoutSelfIs ==
  ASSUME NEW e \in EntryRecord
  PROVE  TidyEntry(e, WithoutSelf(e))
<1> DEFINE see == IF e.see = e.head THEN NoRef ELSE e.see
           demoted == see # NoRef /\ (e.anchors # <<>> \/ e.sub # <<>>)
           also == IF demoted THEN AppendUnique(e.also, see) ELSE e.also
           S == {i \in DOMAIN also : also[i] # e.head}
<1>1. e.head \in Heading /\ e.sub \in Heading /\ e.see \in Heading /\ e.also \in Seq(Heading)
      /\ e.anchors \in Seq(STRING)
  BY DEF EntryRecord
<1>2. NoRef \in Heading
  BY EmptySeq DEF NoRef, Heading
<1>3. see \in Heading
  BY <1>1, <1>2
<1>4. also \in Seq(Heading) /\ \A x \in ToSet(also) : x \in ToSet(e.also) \/ (x = e.see /\ x # NoRef)
  <2>1. CASE demoted
    <3>1. see = e.see /\ see # NoRef
      BY <2>1
    <3>2. also = AppendUnique(e.also, see)
      BY <2>1
    <3> HIDE DEF also, see, demoted
    <3>3. PICK xs \in Seq(Heading), v \in Heading : xs = e.also /\ v = see
      BY <1>1, <1>3
    <3>4. AppendUnique(xs, v) \in Seq(Heading) /\ ToSet(AppendUnique(xs, v)) = ToSet(xs) \cup {v}
      BY AppendUniqueIs
    <3>5. also \in Seq(Heading) /\ ToSet(also) = ToSet(e.also) \cup {see}
      BY <3>2, <3>3, <3>4
    <3>6. \A x \in ToSet(also) : x \in ToSet(e.also) \/ x = see
      BY <3>5
    <3> QED
      BY <3>1, <3>5, <3>6, Zenon
  <2>2. CASE ~ demoted
    BY <1>1, <2>2
  <2> QED
    BY <2>1, <2>2
<1>5. S \in SUBSET (DOMAIN also)
  OBVIOUS
<1>6. WithoutSelf(e) = [e EXCEPT !.see = IF demoted THEN NoRef ELSE see, !.also = Unique(Picked(also, S))]
  BY DEF WithoutSelf
<1>7. \A i \in S : also[i] # e.head /\ also[i] \in ToSet(also)
  BY DEF ToSet
<1>8. PICK u \in Seq(Heading) : /\ u = Unique(Picked(also, S)) /\ IsInjective(u)
                                /\ \A x : x \in ToSet(u) <=> \E i \in S : x = also[i]
  <2> HIDE DEF S, also
  <2> QED
    BY <1>4, <1>5, UniquePicked
<1>9. PICK v \in Heading : v = IF demoted THEN NoRef ELSE see
  BY <1>2, <1>3
<1>10. PICK t : t = [e EXCEPT !.see = v, !.also = u]
  OBVIOUS
<1>11. /\ t \in EntryRecord /\ t.head = e.head /\ t.sub = e.sub /\ t.anchors = e.anchors
       /\ t.see = v /\ t.also = u
  BY <1>10 DEF EntryRecord
<1>12. v \in {NoRef, e.see} /\ (v # NoRef => v # e.head /\ e.anchors = <<>> /\ e.sub = <<>>)
  BY <1>9
<1>13. WithoutSelf(e) = t
  BY <1>6, <1>8, <1>9, <1>10
<1>14. e.head \notin ToSet(u) /\ \A x \in ToSet(u) : x \in ToSet(e.also) \/ (x = e.see /\ x # NoRef)
  <2> HIDE DEF S, also
  <2> QED
    BY <1>4, <1>7, <1>8
<1> HIDE DEF see, demoted, also, S
<1> QED
  BY <1>8, <1>11, <1>12, <1>13, <1>14 DEF TidyEntry

LEMMA TidiedIs ==
  ASSUME NEW es \in Seq(EntryRecord)
  PROVE  /\ SameFrame(es, Tidied(es))
         /\ \A i \in DOMAIN es : TidyEntry(es[i], Tidied(es)[i])
<1>1. \A i \in DOMAIN es : es[i] \in EntryRecord
  BY Fields
<1>2. PICK t : t = Tidied(es)
  OBVIOUS
<1>3. t = [i \in DOMAIN es |-> WithoutSelf(es[i])]
  BY <1>2 DEF Tidied
<1>4. \A i \in DOMAIN es : TidyEntry(es[i], t[i])
  BY <1>1, <1>3, WithoutSelfIs
<1>5. t \in [DOMAIN es -> EntryRecord]
  <2>1. \A i \in DOMAIN es : t[i] \in EntryRecord
    BY <1>4 DEF TidyEntry
  <2> QED
    BY <1>3, <2>1
<1>6. t \in Seq(EntryRecord) /\ DOMAIN t = DOMAIN es
  BY <1>5, MappedSeq
<1>7. \A i \in DOMAIN es : t[i].head = es[i].head /\ t[i].sub = es[i].sub /\ t[i].anchors = es[i].anchors
  BY <1>4 DEF TidyEntry
<1> QED
  BY <1>2, <1>4, <1>6, <1>7 DEF SameFrame

-----------------------------------------------------------------------------
(* crossRefs.                                                              *)

\* Where the references of x may lead.
Lead(x, H) == SeesOf(x) \subseteq H \cup {NoRef} /\ AlsosOf(x) \subseteq H

LEMMA TargetIs ==
  ASSUME NEW es \in Seq(EntryRecord), NEW t \in Heading
  PROVE  Target(es, t) \in Heads(es) \cup {NoRef} /\ Target(es, t) \in Heading
<1> DEFINE ps == {n \in 1..Len(t) - 1 : SubSeq(t, 1, n) \in Heads(es)}
           n0 == CHOOSE n \in ps : \A m \in ps : m <= n
<1>1. Heads(es) \subseteq Heading /\ NoRef \in Heading
  BY Fields, EmptySeq DEF NoRef, Heading
<1>2. CASE t \in Heads(es)
  BY <1>1, <1>2 DEF Target
<1>3. CASE t \notin Heads(es) /\ ps = {}
  BY <1>1, <1>3 DEF Target
<1>4. CASE t \notin Heads(es) /\ ps # {}
  <2>1. PICK l \in Nat : l = Len(t)
    BY LenProperties DEF Heading
  <2>2. \E n \in ps : \A m \in ps : m <= n
    <3> DEFINE Gaps == {l - n : n \in ps}
    <3>1. Gaps \in SUBSET Nat /\ Gaps # {}
      BY <1>4, <2>1
    <3>2. PICK g \in Gaps : \A k \in Gaps : g <= k
      <4> HIDE DEF Gaps
      <4> QED
        BY <3>1, LeastNatural
    <3>3. PICK n \in ps : g = l - n
      OBVIOUS
    <3>4. \A m \in ps : m \in Int
      BY <2>1
    <3>5. \A m \in ps : l - m \in Gaps
      OBVIOUS
    <3> HIDE DEF Gaps, ps
    <3>6. \A m \in ps : l - n <= l - m
      BY <3>2, <3>3, <3>5
    <3>7. \A m \in ps : m <= n
      BY <3>4, <3>6
    <3> QED
      BY <3>7
  <2>3. n0 \in ps
    <3> HIDE DEF ps
    <3> QED
      BY <2>2
  <2>4. Target(es, t) = SubSeq(t, 1, n0)
    BY <1>4 DEF Target
  <2>5. SubSeq(t, 1, n0) \in Heads(es)
    BY <2>3
  <2> HIDE DEF n0
  <2> QED
    BY <1>1, <2>4, <2>5
<1> QED
  BY <1>2, <1>3, <1>4

LEMMA ResolvedIs ==
  ASSUME NEW es \in Seq(EntryRecord)
  PROVE  /\ SameFrame(es, ResolvedRefs(es)) /\ Lead(ResolvedRefs(es), Heads(es))
         /\ \A i \in DOMAIN es : IsInjective(ResolvedRefs(es)[i].also)
<1> DEFINE H == Heads(es)
           out(e, also) == [e EXCEPT !.see = Target(es, @),
                              !.also = Unique(Picked(also, {k \in DOMAIN also : also[k] \notin {NoRef, e.head}}))]
<1>1. PICK rs : rs = ResolvedRefs(es)
  OBVIOUS
<1>2. rs = [i \in DOMAIN es |-> out(es[i], [k \in DOMAIN es[i].also |-> Target(es, es[i].also[k])])]
  BY <1>1 DEF ResolvedRefs
<1>3. ASSUME NEW i \in DOMAIN es
      PROVE  /\ rs[i] \in EntryRecord
             /\ rs[i].head = es[i].head /\ rs[i].sub = es[i].sub /\ rs[i].anchors = es[i].anchors
             /\ rs[i].see \in H \cup {NoRef} /\ ToSet(rs[i].also) \subseteq H /\ IsInjective(rs[i].also)
  <2>1. PICK e \in EntryRecord : e = es[i]
    BY Fields
  <2>2. e.see \in Heading /\ e.also \in Seq(Heading)
    BY <2>1 DEF EntryRecord
  <2>3. PICK also : also = [k \in DOMAIN e.also |-> Target(es, e.also[k])]
    OBVIOUS
  <2>4. \A k \in DOMAIN e.also : e.also[k] \in Heading
    BY <2>2, ElementOfSeq, LenProperties
  <2>5. also \in [DOMAIN e.also -> Heading]
    BY <2>3, <2>4, TargetIs
  <2>6. also \in Seq(Heading) /\ DOMAIN also = DOMAIN e.also
    BY <2>2, <2>5, MappedSeq
  <2>7. \A k \in DOMAIN also : also[k] \in H \cup {NoRef}
    BY <2>3, <2>4, <2>6, TargetIs
  <2> DEFINE S == {k \in DOMAIN also : also[k] \notin {NoRef, e.head}}
  <2>8. S \in SUBSET (DOMAIN also)
    OBVIOUS
  <2>9. \A k \in S : also[k] \in H
    BY <2>7
  <2> HIDE DEF S
  <2>10. PICK u \in Seq(Heading) : /\ u = Unique(Picked(also, S)) /\ IsInjective(u)
                                   /\ \A x : x \in ToSet(u) <=> \E k \in S : x = also[k]
    BY <2>6, <2>8, UniquePicked
  <2>11. PICK v \in Heading : v = Target(es, e.see) /\ v \in H \cup {NoRef}
    BY <2>2, TargetIs
  <2>12. rs[i] = out(e, also)
    BY <1>2, <2>1, <2>3
  <2>13. out(e, also) = [e EXCEPT !.see = Target(es, @), !.also = u]
    BY <2>10 DEF S
  <2>14. PICK t : t = [e EXCEPT !.see = v, !.also = u]
    OBVIOUS
  <2>15. [e EXCEPT !.see = Target(es, @), !.also = u] = t
    BY <2>11, <2>14
  <2>16. /\ t \in EntryRecord /\ t.head = e.head /\ t.sub = e.sub /\ t.anchors = e.anchors
         /\ t.see = v /\ t.also = u
    BY <2>14 DEF EntryRecord
  <2>17. ToSet(u) \subseteq H
    BY <2>9, <2>10
  <2> HIDE DEF out
  <2>18. rs[i] = t
    BY <2>12, <2>13, <2>15
  <2> QED
    BY <2>1, <2>10, <2>11, <2>16, <2>17, <2>18
<1> HIDE DEF out
<1>4. rs \in [DOMAIN es -> EntryRecord]
  BY <1>2, <1>3
<1>5. rs \in Seq(EntryRecord) /\ DOMAIN rs = DOMAIN es
  BY <1>4, MappedSeq
<1>6. SameFrame(es, rs)
  BY <1>3, <1>5 DEF SameFrame
<1>7. Lead(rs, H)
  <2>1. \A x \in SeesOf(rs) : x \in H \cup {NoRef}
    BY <1>3, <1>5 DEF SeesOf
  <2>2. ASSUME NEW x \in AlsosOf(rs) PROVE x \in H
    <3>1. PICK i \in DOMAIN es : x \in ToSet(rs[i].also)
      BY <1>5 DEF AlsosOf
    <3> QED
      BY <1>3, <3>1
  <2> QED
    BY <2>1, <2>2 DEF Lead
<1> QED
  BY <1>1, <1>3, <1>6, <1>7

LEMMA HoldsAmong ==
  ASSUME NEW es, NEW x
  PROVE  /\ x \in AnchorsOf(es) <=> \E e \in ToSet(es) : x \in ToSet(e.anchors)
         /\ x \in AlsosOf(es) <=> \E e \in ToSet(es) : x \in ToSet(e.also)
         /\ x \in SeesOf(es) <=> \E e \in ToSet(es) : x = e.see
         /\ x \in Heads(es) <=> \E e \in ToSet(es) : x = e.head
<1>1. \A e : e \in ToSet(es) <=> \E i \in DOMAIN es : e = es[i]
  BY DEF ToSet
<1> QED
  BY <1>1, Holds

\* What an entry becomes when headings are folded by f.
FoldedEntry(H, f, e, p) ==
  /\ p \in Seq(EntryRecord)
  /\ \A x \in ToSet(p) : /\ x.head \in H
                         /\ x.see \in H \cup {NoRef} /\ ToSet(x.also) \subseteq H
                         /\ ToSet(x.anchors) \subseteq ToSet(e.anchors)
  /\ \E x \in ToSet(p) : x.head = e.head
  /\ \E x \in ToSet(p) : x.anchors = e.anchors

LEMMA FoldedIs ==
  ASSUME NEW es, NEW H \in SUBSET Heading, NEW thin \in SUBSET H, NEW f \in [thin -> H],
         NEW e \in EntryRecord, e.head \in H, e.see \in H \cup {NoRef}, ToSet(e.also) \subseteq H
  PROVE  FoldedEntry(H, f, e, Folded(es, f, e))
<1>1. e.head \in Heading /\ e.sub \in Heading /\ e.see \in Heading /\ e.also \in Seq(Heading)
      /\ e.anchors \in Seq(STRING)
  BY DEF EntryRecord
<1>2. <<>> \in Heading /\ <<>> \in Seq(Heading) /\ <<>> \in Seq(STRING) /\ NoRef = <<>>
  BY EmptySeq DEF NoRef, Heading
<1>3. CASE e.head \in thin
  <2>1. PICK t \in H : t = f[e.head]
    BY <1>3
  <2>2. t \in Heading
    OBVIOUS
  <2>3. PICK a : a = [e EXCEPT !.head = t, !.also = <<>>]
    OBVIOUS
  <2>4. PICK b : b = Entry(e.head, <<>>, t, <<>>, <<>>)
    OBVIOUS
  <2>5. /\ a \in EntryRecord /\ a.head = t /\ a.see = e.see /\ a.also = <<>> /\ a.anchors = e.anchors
    BY <1>1, <1>2, <2>2, <2>3 DEF EntryRecord
  <2>6. /\ b \in EntryRecord /\ b.head = e.head /\ b.see = t /\ b.also = <<>> /\ b.anchors = <<>>
    BY <1>1, <1>2, <2>2, <2>4 DEF EntryRecord, Entry
  <2>7. Folded(es, f, e) = <<a, b>>
    BY <1>3, <2>1, <2>3, <2>4 DEF Folded
  <2>8. <<a, b>> \in Seq(EntryRecord)
    BY <2>5, <2>6
  <2>9. \A x : x \in ToSet(<<a, b>>) <=> x \in {a, b}
    <3>1. DOMAIN <<a, b>> = {1, 2} /\ <<a, b>>[1] = a /\ <<a, b>>[2] = b
      OBVIOUS
    <3> QED
      BY <3>1 DEF ToSet
  <2> QED
    BY <2>5, <2>6, <2>7, <2>8, <2>9, ToSetEmpty DEF FoldedEntry
<1>4. CASE e.head \notin thin
  <2>1. PICK also : also = [k \in DOMAIN e.also |-> IF e.also[k] \in DOMAIN f THEN f[e.also[k]] ELSE e.also[k]]
    OBVIOUS
  <2>2. \A k \in DOMAIN e.also : e.also[k] \in H
    BY DEF ToSet
  <2>3. also \in [DOMAIN e.also -> H]
    BY <2>1, <2>2
  <2>4. also \in Seq(H) /\ DOMAIN also = DOMAIN e.also
    BY <1>1, <2>3, MappedSeq
  <2> DEFINE S == {k \in DOMAIN also : also[k] # e.head}
  <2>5. S \in SUBSET (DOMAIN also) /\ \A k \in S : also[k] \in H
    BY <2>3
  <2> HIDE DEF S
  <2>6. PICK u \in Seq(H) : u = Unique(Picked(also, S)) /\ \A x : x \in ToSet(u) <=> \E i \in S : x = also[i]
    BY <2>4, <2>5, UniquePicked
  <2>7. u \in Seq(Heading)
    <3>1. PICK n \in Nat : n = Len(u) /\ DOMAIN u = 1..n
      BY LenProperties
    <3>2. \A i \in 1..n : u[i] \in Heading
      BY <3>1, ElementOfSeq
    <3> QED
      BY <3>1, <3>2, IsASeq
  <2>8. PICK x : x = [e EXCEPT !.also = u]
    OBVIOUS
  <2>9. /\ x \in EntryRecord /\ x.head = e.head /\ x.see = e.see /\ x.also = u /\ x.anchors = e.anchors
    BY <2>7, <2>8 DEF EntryRecord
  <2>10. Folded(es, f, e) = <<x>>
    <3>1. e.head \notin DOMAIN f
      BY <1>4
    <3>2. Unique(Picked(also, {k \in DOMAIN also : also[k] # e.head})) = u
      BY <2>6 DEF S
    <3> QED
      BY <2>1, <2>8, <3>1, <3>2 DEF Folded
  <2>11. <<x>> \in Seq(EntryRecord) /\ ToSet(<<x>>) = {x}
    <3>1. DOMAIN <<x>> = {1} /\ <<x>>[1] = x
      OBVIOUS
    <3> QED
      BY <2>9, <3>1 DEF ToSet
  <2>12. ToSet(u) \subseteq H
    BY <2>5, <2>6
  <2> QED
    BY <2>9, <2>10, <2>11, <2>12 DEF FoldedEntry
<1> QED
  BY <1>3, <1>4

\* Folding keeps headings, anchors and references inside.
CrossKept(es, x) ==
  /\ x \in Seq(EntryRecord) /\ Heads(x) = Heads(es) /\ AnchorsOf(x) = AnchorsOf(es)
  /\ NoTwice(x) /\ Lead(x, Heads(es))

LEMMA CrossRefsAre ==
  ASSUME NEW es \in Seq(EntryRecord), NoTwice(es), NEW x \in CrossRefs(es)
  PROVE  CrossKept(es, x)
<1>1. PICK rs : rs = ResolvedRefs(es)
  OBVIOUS
<1>2. PICK H \in SUBSET Heading : H = Heads(es)
  BY Fields
<1>3. SameFrame(es, rs) /\ Lead(rs, H)
  BY <1>1, <1>2, ResolvedIs
<1>4. rs \in Seq(EntryRecord) /\ Heads(rs) = H /\ AnchorsOf(rs) = AnchorsOf(es) /\ NoTwice(rs)
  BY <1>2, <1>3, FrameKept DEF SameFrame
<1>5. PICK f \in Folds(rs) :
         x = IF DOMAIN f = {} THEN rs ELSE MergeIdentical(FlattenSeq([i \in DOMAIN rs |-> Folded(rs, f, rs[i])]))
  BY <1>1 DEF CrossRefs
<1>6. \E thin \in SUBSET H : f \in [thin -> H]
  BY <1>4 DEF Folds
<1>7. PICK thin \in SUBSET H : f \in [thin -> H]
  BY <1>6
<1>8. CASE DOMAIN f = {}
  BY <1>2, <1>3, <1>4, <1>5, <1>8 DEF CrossKept
<1>9. CASE DOMAIN f # {}
  <2>1. PICK ss : ss = [i \in DOMAIN rs |-> Folded(rs, f, rs[i])]
    OBVIOUS
  <2>2. \A i \in DOMAIN rs : /\ rs[i] \in EntryRecord
                             /\ rs[i].head \in H /\ rs[i].see \in H \cup {NoRef} /\ ToSet(rs[i].also) \subseteq H
    <3>1. \A i \in DOMAIN rs : rs[i] \in EntryRecord
      BY <1>4, Fields
    <3>2. \A i \in DOMAIN rs : rs[i].head \in H /\ rs[i].see \in SeesOf(rs) /\ ToSet(rs[i].also) \subseteq AlsosOf(rs)
      BY <1>4 DEF Heads, SeesOf, AlsosOf
    <3> QED
      BY <1>3, <3>1, <3>2 DEF Lead
  <2>3. \A i \in DOMAIN rs : FoldedEntry(H, f, rs[i], ss[i])
    BY <1>7, <2>1, <2>2, FoldedIs
  <2>4. ss \in [DOMAIN rs -> Seq(EntryRecord)]
    BY <2>1, <2>3 DEF FoldedEntry
  <2>5. ss \in Seq(Seq(EntryRecord)) /\ DOMAIN ss = DOMAIN rs
    BY <1>4, <2>4, MappedSeq
  <2>6. PICK z : z = FlattenSeq(ss)
    OBVIOUS
  <2>7. z \in Seq(EntryRecord) /\ ToSet(z) = UNION {ToSet(ss[i]) : i \in DOMAIN ss}
    BY <2>5, <2>6, FlattenType, FlattenedSet
  <2>8. \A e : e \in ToSet(z) <=> \E i \in DOMAIN rs : e \in ToSet(ss[i])
    BY <2>5, <2>7
  <2>9. Heads(z) = H
    <3>1. ASSUME NEW h \in Heads(z) PROVE h \in H
      <4>1. PICK e \in ToSet(z) : h = e.head
        BY HoldsAmong
      <4>2. PICK i \in DOMAIN rs : e \in ToSet(ss[i])
        BY <2>8
      <4> QED
        BY <2>3, <4>1, <4>2 DEF FoldedEntry
    <3>2. ASSUME NEW h \in H PROVE h \in Heads(z)
      <4>1. PICK i \in DOMAIN rs : h = rs[i].head
        BY <1>4, Holds
      <4>2. PICK e \in ToSet(ss[i]) : e.head = h
        BY <2>3, <4>1 DEF FoldedEntry
      <4>3. e \in ToSet(z)
        BY <2>8
      <4> QED
        BY <4>2, <4>3, HoldsAmong
    <3> QED
      BY <3>1, <3>2
  <2>10. AnchorsOf(z) = AnchorsOf(rs)
    <3>1. ASSUME NEW a \in AnchorsOf(z) PROVE a \in AnchorsOf(rs)
      <4>1. PICK e \in ToSet(z) : a \in ToSet(e.anchors)
        BY HoldsAmong
      <4>2. PICK i \in DOMAIN rs : e \in ToSet(ss[i])
        BY <2>8
      <4>3. a \in ToSet(rs[i].anchors)
        BY <2>3, <4>1, <4>2 DEF FoldedEntry
      <4> QED
        BY <4>3, Holds
    <3>2. ASSUME NEW a \in AnchorsOf(rs) PROVE a \in AnchorsOf(z)
      <4>1. PICK i \in DOMAIN rs : a \in ToSet(rs[i].anchors)
        BY Holds
      <4>2. PICK e \in ToSet(ss[i]) : e.anchors = rs[i].anchors
        BY <2>3 DEF FoldedEntry
      <4>3. e \in ToSet(z)
        BY <2>8
      <4> QED
        BY <4>1, <4>2, <4>3, HoldsAmong
    <3> QED
      BY <3>1, <3>2
  <2>11. SeesOf(z) \subseteq H \cup {NoRef} /\ AlsosOf(z) \subseteq H
    <3>1. ASSUME NEW e \in ToSet(z) PROVE e.see \in H \cup {NoRef} /\ ToSet(e.also) \subseteq H
      <4>1. PICK i \in DOMAIN rs : e \in ToSet(ss[i])
        BY <2>8
      <4> QED
        BY <2>3, <4>1 DEF FoldedEntry
    <3>2. \A s \in SeesOf(z) : \E e \in ToSet(z) : s = e.see
      BY HoldsAmong
    <3>3. \A s \in AlsosOf(z) : \E e \in ToSet(z) : s \in ToSet(e.also)
      BY HoldsAmong
    <3> QED
      BY <3>1, <3>2, <3>3
  <2>12. Merged(z, x)
    <3>1. x = MergeIdentical(z)
      BY <1>5, <1>9, <2>1, <2>6
    <3> QED
      BY <2>7, <3>1, MergedIs
  <2> QED
    BY <1>2, <1>4, <2>9, <2>10, <2>11, <2>12 DEF Merged, CrossKept, Lead
<1> QED
  BY <1>8, <1>9

-----------------------------------------------------------------------------
(* sortEntries.                                                            *)

\* s stands before t from its part n + 1 on.
BeforeAt(s, t, n) ==
  /\ n <= Len(s) /\ n < Len(t) /\ \A k \in 1..n : s[k] = t[k]
  /\ (n = Len(s) \/ s[n + 1] < t[n + 1])

LEMMA BeforeOrders ==
  ASSUME NEW s \in Heading, NEW t \in Heading
  PROVE  /\ ~ Before(s, s)
         /\ ~ (Before(s, t) /\ Before(t, s))
         /\ s # t => Before(s, t) \/ Before(t, s)
         /\ \A u \in Heading : Before(s, t) /\ Before(t, u) => Before(s, u)
<1>1. \A a, b \in Heading : Before(a, b) <=> \E n \in Nat : BeforeAt(a, b, n)
  <2>1. \A a \in Heading : Len(a) \in Nat
    BY LenProperties DEF Heading
  <2> QED
    BY <2>1 DEF Before, BeforeAt
<1>2. \A a \in Heading : Len(a) \in Nat /\ \A k \in 1..Len(a) : a[k] \in Nat
  BY LenProperties, ElementOfSeq DEF Heading
<1>3. ASSUME NEW a \in Heading, NEW b \in Heading, NEW c \in Heading,
             NEW n \in Nat, NEW m \in Nat, BeforeAt(a, b, n), BeforeAt(b, c, m)
      PROVE  BeforeAt(a, c, IF n <= m THEN n ELSE m)
  <2>1. PICK la \in Nat, lb \in Nat, lc \in Nat : la = Len(a) /\ lb = Len(b) /\ lc = Len(c)
    BY <1>2
  <2>2. CASE n < m
    <3>1. n + 1 \in 1..m /\ b[n + 1] = c[n + 1] /\ \A k \in 1..n : k \in 1..m
      BY <1>3, <2>2 DEF BeforeAt
    <3> QED
      BY <1>3, <2>1, <2>2, <3>1 DEF BeforeAt
  <2>3. CASE n = m
    <3>1. n # Len(b) /\ (n = Len(a) \/ a[n + 1] < b[n + 1]) /\ b[n + 1] < c[n + 1]
      BY <1>3, <2>1, <2>3 DEF BeforeAt
    <3>2. n = Len(a) \/ (n + 1 \in 1..la /\ n + 1 \in 1..lb /\ n + 1 \in 1..lc)
      BY <1>3, <2>1, <2>3 DEF BeforeAt
    <3>3. n = Len(a) \/ a[n + 1] < c[n + 1]
      <4>1. n = Len(a) \/ (a[n + 1] \in Nat /\ b[n + 1] \in Nat /\ c[n + 1] \in Nat)
        BY <1>2, <2>1, <3>2
      <4> QED
        BY <3>1, <4>1
    <3>4. \A k \in 1..n : a[k] = c[k]
      BY <1>3, <2>3 DEF BeforeAt
    <3> QED
      BY <1>3, <2>3, <3>3, <3>4 DEF BeforeAt
  <2>4. CASE m < n
    <3>1. m + 1 \in 1..n /\ a[m + 1] = b[m + 1] /\ \A k \in 1..m : k \in 1..n
      BY <1>3, <2>4 DEF BeforeAt
    <3>2. m # Len(b)
      BY <1>3, <2>1, <2>4 DEF BeforeAt
    <3> QED
      BY <1>3, <2>1, <2>4, <3>1, <3>2 DEF BeforeAt
  <2> QED
    BY <2>2, <2>3, <2>4
<1>4. ASSUME NEW a \in Heading, NEW b \in Heading, NEW c \in Heading, Before(a, b), Before(b, c)
      PROVE  Before(a, c)
  <2>1. PICK n \in Nat : BeforeAt(a, b, n)
    BY <1>1, <1>4
  <2>2. PICK m \in Nat : BeforeAt(b, c, m)
    BY <1>1, <1>4
  <2>3. PICK o \in Nat : o = IF n <= m THEN n ELSE m
    OBVIOUS
  <2>4. BeforeAt(a, c, o)
    BY <1>3, <2>1, <2>2, <2>3
  <2> QED
    BY <1>1, <2>4
<1>5. ASSUME NEW a \in Heading PROVE ~ Before(a, a)
  <2> SUFFICES ASSUME NEW n \in Nat, BeforeAt(a, a, n) PROVE FALSE
    BY <1>1
  <2>1. n + 1 \in 1..Len(a)
    BY <1>2 DEF BeforeAt
  <2>2. a[n + 1] \in Nat
    BY <1>2, <2>1
  <2> QED
    BY <1>2, <2>2 DEF BeforeAt
<1>6. ASSUME s # t PROVE Before(s, t) \/ Before(t, s)
  <2>1. PICK ls \in Nat, lt \in Nat : ls = Len(s) /\ lt = Len(t)
    BY <1>2
  <2> DEFINE Apart == {n \in Nat : n >= ls \/ n >= lt \/ s[n + 1] # t[n + 1]}
  <2>2. Apart \in SUBSET Nat /\ Apart # {}
    <3>1. ls \in Apart
      OBVIOUS
    <3> QED
      BY <3>1
  <2>3. PICK n \in Apart : \A m \in Apart : n <= m
    <3> HIDE DEF Apart
    <3> QED
      BY <2>2, LeastNatural
  <2>4. n \in Nat /\ n <= ls /\ n <= lt
    BY <2>3
  <2>5. \A k \in 1..n : s[k] = t[k]
    <3> SUFFICES ASSUME NEW k \in 1..n, s[k] # t[k] PROVE FALSE
      OBVIOUS
    <3>1. k - 1 \in Nat /\ (k - 1) + 1 = k
      OBVIOUS
    <3>2. k - 1 \in Apart
      BY <3>1
    <3>3. n <= k - 1
      BY <2>3, <3>2
    <3> QED
      BY <2>4, <3>3
  <2>6. CASE n = ls /\ n = lt
    <3>1. s = t
      BY <2>1, <2>5, <2>6, SeqEqual DEF Heading
    <3> QED
      BY <1>6, <3>1
  <2>7. CASE n = ls /\ n # lt
    <3>1. BeforeAt(s, t, n)
      BY <2>1, <2>4, <2>5, <2>7 DEF BeforeAt
    <3> QED
      BY <1>1, <2>4, <3>1
  <2>8. CASE n = lt /\ n # ls
    <3>1. BeforeAt(t, s, n)
      BY <2>1, <2>4, <2>5, <2>8 DEF BeforeAt
    <3> QED
      BY <1>1, <2>4, <3>1
  <2>9. CASE n # lt /\ n # ls
    <3>1. s[n + 1] # t[n + 1]
      BY <2>3, <2>4, <2>9
    <3>2. n + 1 \in 1..ls /\ n + 1 \in 1..lt
      BY <2>4, <2>9
    <3>3. s[n + 1] \in Nat /\ t[n + 1] \in Nat
      BY <1>2, <2>1, <3>2
    <3>4. BeforeAt(s, t, n) \/ BeforeAt(t, s, n)
      BY <2>1, <2>4, <2>5, <2>9, <3>1, <3>3 DEF BeforeAt
    <3> QED
      BY <1>1, <2>4, <3>4
  <2> QED
    BY <2>6, <2>7, <2>8, <2>9
<1>7. ~ (Before(s, t) /\ Before(t, s))
  BY <1>4, <1>5
<1> QED
  BY <1>4, <1>5, <1>6, <1>7

\* The order of sortEntries is one: no two entries stand level.
LEMMA PrecedesOrders ==
  ASSUME NEW es \in Seq(EntryRecord)
  PROVE  /\ \A i \in DOMAIN es : ~ Precedes(es, i, i)
         /\ \A i, j \in DOMAIN es : i # j => Precedes(es, i, j) \/ Precedes(es, j, i)
         /\ \A i, j, k \in DOMAIN es : Precedes(es, i, j) /\ Precedes(es, j, k) => Precedes(es, i, k)
<1>1. PICK n \in Nat : n = Len(es) /\ DOMAIN es = 1..n
  BY LenProperties
<1>2. \A i \in 1..n : es[i].head \in Heading /\ es[i].sub \in Heading
  BY <1>1, Fields
<1>3. \A i \in 1..n : i \in Nat
  OBVIOUS
<1>4. \A i, j \in 1..n : Key(es[i]) = Key(es[j]) <=> es[i].head = es[j].head /\ es[i].sub = es[j].sub
  BY DEF Key
<1>5. ASSUME NEW i \in 1..n PROVE ~ Precedes(es, i, i)
  <2>1. ~ Before(es[i].head, es[i].head) /\ ~ Before(es[i].sub, es[i].sub)
    BY <1>2, BeforeOrders
  <2> QED
    BY <1>3, <2>1 DEF Precedes
<1>6. ASSUME NEW i \in 1..n, NEW j \in 1..n, i # j PROVE Precedes(es, i, j) \/ Precedes(es, j, i)
  <2>1. /\ es[i].head # es[j].head => Before(es[i].head, es[j].head) \/ Before(es[j].head, es[i].head)
        /\ es[i].sub # es[j].sub => Before(es[i].sub, es[j].sub) \/ Before(es[j].sub, es[i].sub)
    BY <1>2, BeforeOrders
  <2>2. i < j \/ j < i
    BY <1>6
  <2> QED
    BY <1>4, <2>1, <2>2 DEF Precedes
<1>7. ASSUME NEW i \in 1..n, NEW j \in 1..n, NEW k \in 1..n, Precedes(es, i, j), Precedes(es, j, k)
      PROVE  Precedes(es, i, k)
  <2>1. /\ Before(es[i].head, es[j].head) /\ Before(es[j].head, es[k].head) => Before(es[i].head, es[k].head)
        /\ Before(es[i].sub, es[j].sub) /\ Before(es[j].sub, es[k].sub) => Before(es[i].sub, es[k].sub)
    BY <1>2, BeforeOrders
  <2>2. i < j /\ j < k => i < k
    OBVIOUS
  <2>3. CASE Before(es[i].head, es[j].head)
    BY <1>4, <1>7, <2>1, <2>3 DEF Precedes
  <2>4. CASE es[i].head = es[j].head /\ Before(es[i].sub, es[j].sub)
    BY <1>4, <1>7, <2>1, <2>4 DEF Precedes
  <2>5. CASE Key(es[i]) = Key(es[j]) /\ i < j
    BY <1>4, <1>7, <2>2, <2>5 DEF Precedes
  <2> QED
    BY <1>7, <2>3, <2>4, <2>5 DEF Precedes
<1> QED
  BY <1>1, <1>5, <1>6, <1>7

\* t holds the entries of es in another order.
Reordered(es, t) ==
  /\ t \in Seq(EntryRecord) /\ DOMAIN t = DOMAIN es
  /\ \E p \in [DOMAIN es -> DOMAIN es] :
        /\ \A k \in DOMAIN es : t[k] = es[p[k]]
        /\ \A k, l \in DOMAIN es : p[k] = p[l] => k = l
        /\ \A i \in DOMAIN es : \E k \in DOMAIN es : p[k] = i

LEMMA SortedIs ==
  ASSUME NEW es \in Seq(EntryRecord)
  PROVE  Reordered(es, SortEntries(es))
<1>1. PICK n \in Nat : n = Len(es) /\ DOMAIN es = 1..n
  BY LenProperties
<1>2. PICK S : S = 1..n
  OBVIOUS
<1>3. IsFiniteSet(S) /\ Cardinality(S) = n
  <2>1. 1 \in Int /\ n \in Int
    OBVIOUS
  <2>2. IsFiniteSet(1..n) /\ Cardinality(1..n) = IF 1 > n THEN 0 ELSE n - 1 + 1
    BY <2>1, FS_Interval
  <2> QED
    BY <1>2, <2>2
<1> DEFINE before(i) == {j \in S : Precedes(es, j, i)}
           place(i) == Cardinality(before(i)) + 1
<1>4. /\ \A i \in S : ~ Precedes(es, i, i)
      /\ \A i, j \in S : i # j => Precedes(es, i, j) \/ Precedes(es, j, i)
      /\ \A i, j, k \in S : Precedes(es, i, j) /\ Precedes(es, j, k) => Precedes(es, i, k)
  <2>1. S = DOMAIN es
    BY <1>1, <1>2
  <2> QED
    BY <2>1, PrecedesOrders, Zenon
<1>5. ASSUME NEW i \in S PROVE IsFiniteSet(before(i)) /\ Cardinality(before(i)) \in 0..(n - 1)
  <2>1. before(i) \in SUBSET (S \ {i})
    BY <1>4
  <2>2. IsFiniteSet(S \ {i}) /\ Cardinality(S \ {i}) = n - 1
    BY <1>3, FS_RemoveElement
  <2> HIDE DEF before
  <2>3. IsFiniteSet(before(i)) /\ Cardinality(before(i)) <= n - 1
    BY <2>1, <2>2, FS_Subset
  <2>4. Cardinality(before(i)) \in Nat
    BY <2>3, FS_CardinalityType
  <2> QED
    BY <2>3, <2>4
<1>6. ASSUME NEW i \in S, NEW j \in S, Precedes(es, i, j)
      PROVE  Cardinality(before(i)) < Cardinality(before(j))
  <2>1. before(i) \in SUBSET before(j) /\ i \in before(j) /\ i \notin before(i)
    BY <1>4, <1>6, Zenon
  <2> HIDE DEF before
  <2>2. IsFiniteSet(before(j)) /\ Cardinality(before(j)) \in Nat /\ Cardinality(before(i)) \in Nat
    BY <1>5
  <2>3. PICK A, B : A = before(i) /\ B = before(j)
    OBVIOUS
  <2>4. IsFiniteSet(B) /\ A \in SUBSET B /\ A # B
    BY <2>1, <2>2, <2>3
  <2>5. Cardinality(A) <= Cardinality(B) /\ Cardinality(B) # Cardinality(A)
    BY <2>4, FS_Subset
  <2> QED
    BY <2>2, <2>3, <2>5
<1>7. PICK r \in [S -> 1..n] : \A i \in S : r[i] = place(i)
  <2> DEFINE rr == [i \in S |-> place(i)]
  <2>1. \A i \in S : place(i) \in 1..n
    <3> HIDE DEF before
    <3> QED
      BY <1>5
  <2>2. \A i \in S : rr[i] = place(i)
    OBVIOUS
  <2>3. rr \in [S -> 1..n]
    BY <2>1
  <2> HIDE DEF rr, place
  <2> QED
    BY <2>2, <2>3
<1>8. ASSUME NEW i \in S, NEW j \in S, r[i] = r[j] PROVE i = j
  <2> SUFFICES ASSUME i # j PROVE FALSE
    OBVIOUS
  <2> HIDE DEF before
  <2>1. Cardinality(before(i)) \in Nat /\ Cardinality(before(j)) \in Nat
    BY <1>5
  <2>2. Cardinality(before(i)) = Cardinality(before(j))
    BY <1>7, <1>8, <2>1
  <2> QED
    BY <1>4, <1>6, <2>1, <2>2
<1>9. r \in Surjection(S, S)
  <2>1. r \in Injection(S, S)
    BY <1>2, <1>7, <1>8 DEF Injection, IsInjective
  <2> QED
    BY <1>3, <2>1, FS_Injection
<1>10. PICK p : p = [k \in S |-> CHOOSE i \in S : place(i) = k]
  OBVIOUS
<1>11. ASSUME NEW k \in S PROVE p[k] \in S /\ r[p[k]] = k
  <2>1. \E i \in S : place(i) = k
    <3>1. \E i \in S : r[i] = k
      BY <1>9 DEF Surjection
    <3> HIDE DEF place
    <3> QED
      BY <1>7, <3>1
  <2> HIDE DEF place
  <2> QED
    BY <1>7, <1>10, <2>1
<1>12. p \in [S -> S]
  BY <1>10, <1>11
<1>13. \A k, l \in S : p[k] = p[l] => k = l
  BY <1>11
<1>14. \A i \in S : \E k \in S : p[k] = i
  <2> SUFFICES ASSUME NEW i \in S PROVE \E k \in S : p[k] = i
    OBVIOUS
  <2>1. r[i] \in S
    BY <1>2, <1>7
  <2>2. p[r[i]] = i
    BY <1>8, <1>11, <2>1
  <2> QED
    BY <2>1, <2>2
<1>15. PICK t : t = SortEntries(es)
  OBVIOUS
<1>16. t = [k \in S |-> es[p[k]]]
  BY <1>1, <1>2, <1>10, <1>15 DEF SortEntries
<1>17. t \in [DOMAIN es -> EntryRecord]
  BY <1>1, <1>2, <1>11, <1>16, Fields
<1>18. t \in Seq(EntryRecord) /\ DOMAIN t = DOMAIN es
  BY <1>17, MappedSeq
<1>19. \A k \in S : t[k] = es[p[k]]
  BY <1>16
<1>20. S = DOMAIN es
  BY <1>1, <1>2
<1> HIDE DEF place, before
<1> QED
  BY <1>12, <1>13, <1>14, <1>15, <1>18, <1>19, <1>20 DEF Reordered

\* What Tidy promises of an index made of es.
TidyIndex(es, d) ==
  /\ d \in Seq(EntryRecord) /\ NoTwice(d)
  /\ Heads(d) = Heads(es) /\ AnchorsOf(d) = AnchorsOf(es)
  /\ \A i \in DOMAIN d :
        /\ IsInjective(d[i].also)
        /\ d[i].see # NoRef => /\ d[i].see \in Heads(d) \ {d[i].head}
                               /\ d[i].anchors = <<>> /\ d[i].sub = <<>>
        /\ ToSet(d[i].also) \subseteq Heads(d) \ {d[i].head}

LEMMA TidyIs ==
  ASSUME NEW es \in Seq(EntryRecord), NEW d \in Tidy(es)
  PROVE  TidyIndex(es, d)
<1>1. PICK m : m = MergeIdentical(es)
  OBVIOUS
<1>2. Merged(es, m)
  BY <1>1, MergedIs
<1>3. m \in Seq(EntryRecord) /\ NoTwice(m) /\ Heads(m) = Heads(es) /\ AnchorsOf(m) = AnchorsOf(es)
  BY <1>2 DEF Merged
<1>4. PICK t : t = Tidied(m)
  OBVIOUS
<1>5. SameFrame(m, t)
  BY <1>3, <1>4, TidiedIs
<1>6. t \in Seq(EntryRecord) /\ NoTwice(t) /\ Heads(t) = Heads(es) /\ AnchorsOf(t) = AnchorsOf(es)
  BY <1>3, <1>5, FrameKept DEF SameFrame
<1>7. PICK x \in CrossRefs(t) : d = SortEntries(Tidied(x))
  BY <1>1, <1>4 DEF Tidy
<1>8. CrossKept(t, x)
  BY <1>6, CrossRefsAre
<1>9. /\ x \in Seq(EntryRecord) /\ NoTwice(x) /\ Heads(x) = Heads(es) /\ AnchorsOf(x) = AnchorsOf(es)
      /\ Lead(x, Heads(es))
  BY <1>6, <1>8 DEF CrossKept
<1>10. PICK y : y = Tidied(x)
  OBVIOUS
<1>11. SameFrame(x, y) /\ \A i \in DOMAIN x : TidyEntry(x[i], y[i])
  BY <1>9, <1>10, TidiedIs
<1>12. y \in Seq(EntryRecord) /\ NoTwice(y) /\ Heads(y) = Heads(es) /\ AnchorsOf(y) = AnchorsOf(es) /\ DOMAIN y = DOMAIN x
  BY <1>9, <1>11, FrameKept DEF SameFrame
<1>13. PICK H : H = Heads(es)
  OBVIOUS
<1>14. ASSUME NEW i \in DOMAIN y
       PROVE  /\ IsInjective(y[i].also)
              /\ y[i].see # NoRef => y[i].see \in H \ {y[i].head} /\ y[i].anchors = <<>> /\ y[i].sub = <<>>
              /\ ToSet(y[i].also) \subseteq H \ {y[i].head}
  <2>1. TidyEntry(x[i], y[i])
    BY <1>11, <1>12
  <2>2. x[i].see \in H \cup {NoRef} /\ ToSet(x[i].also) \subseteq H
    <3>1. SeesOf(x) \subseteq H \cup {NoRef} /\ AlsosOf(x) \subseteq H
      BY <1>9, <1>13 DEF Lead
    <3>2. i \in DOMAIN x
      BY <1>12
    <3>3. x[i].see \in SeesOf(x)
      BY <3>2, Holds
    <3>4. \A z \in ToSet(x[i].also) : z \in AlsosOf(x)
      BY <3>2, Holds
    <3> QED
      BY <3>1, <3>3, <3>4
  <2>3. /\ IsInjective(y[i].also) /\ y[i].see \in {NoRef, x[i].see}
        /\ y[i].see # NoRef => y[i].see # y[i].head /\ y[i].anchors = <<>> /\ y[i].sub = <<>>
        /\ y[i].head \notin ToSet(y[i].also)
        /\ \A z \in ToSet(y[i].also) : z \in ToSet(x[i].also) \/ (z = x[i].see /\ z # NoRef)
    BY <2>1 DEF TidyEntry
  <2> QED
    BY <2>2, <2>3
<1>15. Reordered(y, d)
  BY <1>7, <1>10, <1>12, SortedIs
<1>16. d \in Seq(EntryRecord) /\ DOMAIN d = DOMAIN y
  BY <1>15 DEF Reordered
<1>17. PICK p \in [DOMAIN y -> DOMAIN y] :
          /\ \A k \in DOMAIN y : d[k] = y[p[k]]
          /\ \A k, l \in DOMAIN y : p[k] = p[l] => k = l
          /\ \A i \in DOMAIN y : \E k \in DOMAIN y : p[k] = i
  BY <1>15 DEF Reordered
<1>18. Heads(d) = H
  <2>1. \A h : h \in Heads(d) <=> \E k \in DOMAIN y : h = y[p[k]].head
    BY <1>16, <1>17, Holds
  <2>2. \A h : h \in Heads(y) <=> \E i \in DOMAIN y : h = y[i].head
    BY Holds
  <2>3. \A h : h \in Heads(d) <=> h \in Heads(y)
    BY <1>17, <2>1, <2>2
  <2> QED
    BY <1>12, <1>13, <2>3
<1>19. AnchorsOf(d) = AnchorsOf(es)
  <2>1. \A a : a \in AnchorsOf(d) <=> \E k \in DOMAIN y : a \in ToSet(y[p[k]].anchors)
    BY <1>16, <1>17, Holds
  <2>2. \A a : a \in AnchorsOf(y) <=> \E i \in DOMAIN y : a \in ToSet(y[i].anchors)
    BY Holds
  <2>3. \A a : a \in AnchorsOf(d) <=> a \in AnchorsOf(y)
    BY <1>17, <2>1, <2>2
  <2> QED
    BY <1>12, <2>3
<1>20. NoTwice(d)
  <2>1. \A k, l \in DOMAIN y : k # l => Key(d[k]) # Key(d[l])
    <3> SUFFICES ASSUME NEW k \in DOMAIN y, NEW l \in DOMAIN y, k # l PROVE Key(d[k]) # Key(d[l])
      OBVIOUS
    <3>1. p[k] \in DOMAIN y /\ p[l] \in DOMAIN y /\ p[k] # p[l] /\ d[k] = y[p[k]] /\ d[l] = y[p[l]]
      BY <1>17
    <3>2. Key(y[p[k]]) # Key(y[p[l]])
      BY <1>12, <3>1, Zenon DEF NoTwice
    <3> QED
      BY <3>1, <3>2
  <2>2. \A k \in DOMAIN y : IsInjective(d[k].anchors)
    <3>1. \A i \in DOMAIN y : IsInjective(y[i].anchors)
      BY <1>12, Zenon DEF NoTwice
    <3>2. \A k \in DOMAIN y : p[k] \in DOMAIN y /\ d[k] = y[p[k]]
      BY <1>17
    <3> QED
      BY <3>1, <3>2
  <2> QED
    BY <1>16, <2>1, <2>2 DEF NoTwice
<1>21. \A k \in DOMAIN d :
          /\ IsInjective(d[k].also)
          /\ d[k].see # NoRef => d[k].see \in H \ {d[k].head} /\ d[k].anchors = <<>> /\ d[k].sub = <<>>
          /\ ToSet(d[k].also) \subseteq H \ {d[k].head}
  <2>1. \A k \in DOMAIN y : p[k] \in DOMAIN y /\ d[k] = y[p[k]]
    BY <1>17
  <2> QED
    BY <1>14, <1>16, <2>1
<1> QED
  BY <1>13, <1>16, <1>18, <1>19, <1>20, <1>21 DEF TidyIndex

-----------------------------------------------------------------------------
(* consolidate.                                                            *)

LEMMA LastIs ==
  ASSUME NEW T, NEW s \in Seq(T), NEW from \in Firsts(s)
  PROVE  \E i \in DOMAIN s : LastOf(s, from) = s[i] /\ s[i][1] = from /\ s[i] \in T
<1> DEFINE at == {i \in DOMAIN s : s[i][1] = from}
           i0 == CHOOSE i \in at : \A j \in at : j <= i
<1>1. PICK l \in Nat : l = Len(s) /\ DOMAIN s = 1..l
  BY LenProperties
<1>2. at # {}
  BY DEF Firsts
<1>3. \E i \in at : \A j \in at : j <= i
  <2> DEFINE Gaps == {l - i : i \in at}
  <2>1. Gaps \in SUBSET Nat /\ Gaps # {}
    BY <1>1, <1>2
  <2>2. PICK g \in Gaps : \A k \in Gaps : g <= k
    <3> HIDE DEF Gaps
    <3> QED
      BY <2>1, LeastNatural
  <2>3. PICK i \in at : g = l - i
    OBVIOUS
  <2>4. \A j \in at : j \in Int
    BY <1>1
  <2>5. \A j \in at : l - j \in Gaps
    OBVIOUS
  <2> HIDE DEF Gaps, at
  <2>6. \A j \in at : l - i <= l - j
    BY <2>2, <2>3, <2>5
  <2>7. \A j \in at : j <= i
    BY <2>4, <2>6
  <2> QED
    BY <2>7
<1>4. i0 \in at
  <2> HIDE DEF at
  <2> QED
    BY <1>3
<1>5. LastOf(s, from) = s[i0]
  BY DEF LastOf
<1>6. i0 \in DOMAIN s /\ s[i0][1] = from
  BY <1>4
<1> HIDE DEF i0
<1> QED
  BY <1>1, <1>5, <1>6, ElementOfSeq

Pairs == Heading \X Heading
Triples == Heading \X Heading \X Heading

LEMMA RenamesAre ==
  ASSUME NEW rep \in MergeReply
  PROVE  /\ Renames(rep) \in Seq(Pairs)
         /\ \A h \in Heading : Renamed(rep, h) \in Heading
         /\ \A h \in Firsts(Renames(rep)) : <<h, Renamed(rep, h)>> \in ToSet(Renames(rep))
<1>1. PICK m \in Seq(Pairs) : m = rep.merge
  BY DEF MergeReply, Pairs
<1> DEFINE S == {i \in DOMAIN m : m[i][1] # m[i][2]}
<1>2. PICK rs : rs = Renames(rep)
  OBVIOUS
<1>3. rs \in Seq(Pairs)
  <2>1. S \in SUBSET (DOMAIN m)
    OBVIOUS
  <2>2. rs = Picked(m, S)
    BY <1>1, <1>2 DEF Renames
  <2> HIDE DEF S
  <2> QED
    BY <2>1, <2>2, PickedIs
<1> HIDE DEF S
<1>4. ASSUME NEW h \in Firsts(rs)
      PROVE  LastOf(rs, h) \in ToSet(rs) /\ LastOf(rs, h) \in Pairs /\ LastOf(rs, h)[1] = h
  <2>1. PICK i \in DOMAIN rs : LastOf(rs, h) = rs[i] /\ rs[i][1] = h /\ rs[i] \in Pairs
    BY <1>3, LastIs
  <2> QED
    BY <2>1 DEF ToSet
<1>5. \A h \in Heading : Renamed(rep, h) \in Heading
  <2>1. \A p \in Pairs : p[2] \in Heading
    BY DEF Pairs
  <2> QED
    BY <1>2, <1>4, <2>1 DEF Renamed
<1>6. ASSUME NEW h \in Firsts(rs) PROVE <<h, Renamed(rep, h)>> \in ToSet(rs)
  <2>1. PICK p \in Pairs : p = LastOf(rs, h)
    BY <1>4
  <2>2. p \in ToSet(rs) /\ p[1] = h
    BY <1>4, <2>1
  <2>3. Renamed(rep, h) = p[2]
    BY <1>2, <2>1 DEF Renamed
  <2>4. p = <<p[1], p[2]>>
    BY DEF Pairs
  <2> QED
    BY <2>2, <2>3, <2>4
<1> QED
  BY <1>2, <1>3, <1>5, <1>6

\* Chasing is renaming five times.
LEMMA ResolveIs ==
  ASSUME NEW rep \in MergeReply, NEW h \in Heading
  PROVE  \E a, b, c, d \in Heading :
            /\ a = Renamed(rep, h) /\ b = Renamed(rep, a) /\ c = Renamed(rep, b)
            /\ d = Renamed(rep, c) /\ Resolve(rep, h) = Renamed(rep, d)
            /\ Resolve(rep, h) \in Heading
<1>1. PICK a \in Heading : a = Renamed(rep, h)
  BY RenamesAre
<1>2. PICK b \in Heading : b = Renamed(rep, a)
  BY RenamesAre
<1>3. PICK c \in Heading : c = Renamed(rep, b)
  BY RenamesAre
<1>4. PICK d \in Heading : d = Renamed(rep, c)
  BY RenamesAre
<1>5. PICK e \in Heading : e = Renamed(rep, d)
  BY RenamesAre
<1> DEFINE chased == CHOOSE g : g = [n \in 0..5 |-> IF n = 0 THEN h ELSE Renamed(rep, g[n - 1])]
           w == [n \in 0..5 |-> IF n = 0 THEN h ELSE IF n = 1 THEN a ELSE IF n = 2 THEN b
                                ELSE IF n = 3 THEN c ELSE IF n = 4 THEN d ELSE e]
<1>6. w[0] = h /\ w[1] = a /\ w[2] = b /\ w[3] = c /\ w[4] = d /\ w[5] = e
  OBVIOUS
<1>7. w = [n \in 0..5 |-> IF n = 0 THEN h ELSE Renamed(rep, w[n - 1])]
  <2>1. ASSUME NEW n \in 0..5 PROVE w[n] = IF n = 0 THEN h ELSE Renamed(rep, w[n - 1])
    <3>1. n = 0 \/ n = 1 \/ n = 2 \/ n = 3 \/ n = 4 \/ n = 5
      OBVIOUS
    <3>2. 1 - 1 = 0 /\ 2 - 1 = 1 /\ 3 - 1 = 2 /\ 4 - 1 = 3 /\ 5 - 1 = 4
      OBVIOUS
    <3> HIDE DEF w
    <3> QED
      BY <1>1, <1>2, <1>3, <1>4, <1>5, <1>6, <3>1, <3>2
  <2> QED
    BY <2>1
<1>8. chased = [n \in 0..5 |-> IF n = 0 THEN h ELSE Renamed(rep, chased[n - 1])]
  <2>1. \E g : g = [n \in 0..5 |-> IF n = 0 THEN h ELSE Renamed(rep, g[n - 1])]
    <3> HIDE DEF w
    <3> QED
      BY <1>7
  <2> QED
    BY <2>1
<1>9. Resolve(rep, h) = chased[5]
  BY DEF Resolve
<1> HIDE DEF chased, w
<1>10. chased[0] = h
  BY <1>8
<1>11. \A n \in 1..5 : chased[n] = Renamed(rep, chased[n - 1])
  BY <1>8
<1>12. chased[1] = a /\ chased[2] = b /\ chased[3] = c /\ chased[4] = d /\ chased[5] = e
  <2>1. chased[1] = Renamed(rep, chased[1 - 1])
    BY <1>11
  <2>2. chased[2] = Renamed(rep, chased[2 - 1])
    BY <1>11
  <2>3. chased[3] = Renamed(rep, chased[3 - 1])
    BY <1>11
  <2>4. chased[4] = Renamed(rep, chased[4 - 1])
    BY <1>11
  <2>5. chased[5] = Renamed(rep, chased[5 - 1])
    BY <1>11
  <2>6. 1 - 1 = 0 /\ 2 - 1 = 1 /\ 3 - 1 = 2 /\ 4 - 1 = 3 /\ 5 - 1 = 4
    OBVIOUS
  <2> QED
    BY <1>1, <1>2, <1>3, <1>4, <1>5, <1>10, <2>1, <2>2, <2>3, <2>4, <2>5, <2>6
<1> QED
  BY <1>1, <1>2, <1>3, <1>4, <1>5, <1>9, <1>12

\* A chain that ends within five steps ends where it is entered a step later.
LEMMA ResolveOn ==
  ASSUME NEW rep \in MergeReply, NEW h \in Heading, NEW to, to = Renamed(rep, h)
  PROVE  /\ Resolve(rep, h) \notin Firsts(Renames(rep)) => Resolve(rep, to) = Resolve(rep, h)
         /\ h \notin Firsts(Renames(rep)) => Resolve(rep, h) = h
         /\ to \notin Firsts(Renames(rep)) => Resolve(rep, h) = to
<1> DEFINE R(x) == Renamed(rep, x)
<1>1. PICK a, b, c, d \in Heading :
         a = R(h) /\ b = R(a) /\ c = R(b) /\ d = R(c) /\ Resolve(rep, h) = R(d) /\ Resolve(rep, h) \in Heading
  BY ResolveIs
<1>2. PICK a1, b1, c1, d1 \in Heading :
         a1 = R(a) /\ b1 = R(a1) /\ c1 = R(b1) /\ d1 = R(c1) /\ Resolve(rep, a) = R(d1)
  BY ResolveIs
<1>3. \A x : x \notin Firsts(Renames(rep)) => R(x) = x
  BY DEF Renamed
<1>4. d1 = R(d) /\ Resolve(rep, a) = R(R(d))
  BY <1>1, <1>2
<1> HIDE DEF R
<1>5. to = a
  BY <1>1 DEF R
<1> QED
  BY <1>1, <1>3, <1>4, <1>5

LEMMA SubsAre ==
  ASSUME NEW rep \in MergeReply, NEW es \in Seq(EntryRecord)
  PROVE  /\ Subs(rep, es) \in Seq(Triples)
         /\ \A h \in Firsts(Subs(rep, es)) : LastOf(Subs(rep, es), h) \in Triples
         /\ \A h \in Heading : ResolveSub(rep, es, h) \in Heading
<1>1. PICK q \in Seq(Triples) : q = rep.sub
  BY DEF MergeReply, Triples
<1>2. PICK subs : subs = [i \in DOMAIN q |-> <<q[i][1], Resolve(rep, q[i][2]), q[i][3]>>]
  OBVIOUS
<1>3. \A i \in DOMAIN q : q[i][1] \in Heading /\ q[i][2] \in Heading /\ q[i][3] \in Heading
  <2>1. \A i \in DOMAIN q : q[i] \in Triples
    BY ElementOfSeq, LenProperties
  <2> QED
    BY <2>1 DEF Triples
<1>4. \A h \in Heading : Resolve(rep, h) \in Heading
  BY ResolveIs
<1>5. subs \in [DOMAIN q -> Triples]
  BY <1>2, <1>3, <1>4 DEF Triples
<1>6. subs \in Seq(Triples)
  BY <1>5, MappedSeq
<1> DEFINE S == {i \in DOMAIN subs : /\ subs[i][1] # subs[i][2] /\ subs[i][2] \notin rep.drop
                                     /\ subs[i][1] \in Heads(es) \ Firsts(Renames(rep))}
<1>7. Subs(rep, es) = Picked(subs, S)
  BY <1>1, <1>2 DEF Subs
<1>8. S \in SUBSET (DOMAIN subs)
  OBVIOUS
<1> HIDE DEF S
<1>9. Picked(subs, S) \in Seq(Triples)
  BY <1>6, <1>8, PickedIs
<1>10. PICK ops \in Seq(Triples) : ops = Subs(rep, es)
  BY <1>7, <1>9
<1>11. \A h \in Firsts(ops) : LastOf(ops, h) \in Triples
  BY LastIs
<1>12. \A p \in Triples : p[2] \in Heading
  BY DEF Triples
<1>13. \A h \in Heading : ResolveSub(rep, es, h) \in Heading
  BY <1>4, <1>10, <1>11, <1>12 DEF ResolveSub
<1> QED
  BY <1>10, <1>11, <1>13

\* A heading's entries go where references to it go.
LEMMA MovedIs ==
  ASSUME NEW rep \in MergeReply, NEW es \in Seq(EntryRecord), NEW e \in EntryRecord
  PROVE  /\ Moved(rep, es, e) \in EntryRecord
         /\ Moved(rep, es, e).head = ResolveSub(rep, es, e.head)
         /\ Moved(rep, es, e).anchors = e.anchors
<1>1. e.head \in Heading /\ e.sub \in Heading /\ e.see \in Heading /\ e.also \in Seq(Heading)
      /\ e.anchors \in Seq(STRING)
  BY DEF EntryRecord
<1>2. PICK h \in Heading : h = Resolve(rep, e.head)
  BY <1>1, ResolveIs
<1>3. <<>> \in Heading /\ <<>> \in Seq(Heading) /\ NoRef = <<>>
  BY EmptySeq DEF NoRef, Heading
<1>4. PICK see \in Heading : see = IF e.see = NoRef THEN NoRef ELSE ResolveSub(rep, es, e.see)
  BY <1>1, <1>3, SubsAre
<1>5. PICK also \in Seq(Heading) : also = [k \in DOMAIN e.also |-> ResolveSub(rep, es, e.also[k])]
  <2>1. PICK f : f = [k \in DOMAIN e.also |-> ResolveSub(rep, es, e.also[k])]
    OBVIOUS
  <2>2. \A k \in DOMAIN e.also : e.also[k] \in Heading
    BY <1>1, ElementOfSeq, LenProperties
  <2>3. f \in [DOMAIN e.also -> Heading]
    BY <2>1, <2>2, SubsAre
  <2> QED
    BY <1>1, <2>1, <2>3, MappedSeq
<1>6. PICK ops : ops = Subs(rep, es)
  OBVIOUS
<1>7. CASE h \in Firsts(ops)
  <2>1. PICK op \in Triples : op = LastOf(ops, h)
    BY <1>6, <1>7, SubsAre
  <2>2. op[2] \in Heading /\ op[3] \in Heading
    BY DEF Triples
  <2>3. PICK sub : sub = IF e.sub \in {<<>>, op[3]} THEN op[3] ELSE op[3] \o e.sub
    OBVIOUS
  <2>4. sub \in Heading
    <3>1. op[3] \o e.sub \in Heading
      BY <1>1, <2>2, ConcatProperties DEF Heading
    <3> QED
      BY <2>2, <2>3, <3>1
  <2>5. Moved(rep, es, e) = Entry(op[2], sub, see, <<>>, e.anchors)
    BY <1>2, <1>4, <1>6, <1>7, <2>1, <2>3, Zenon DEF Moved
  <2>6. PICK x : x = Entry(op[2], sub, see, <<>>, e.anchors)
    OBVIOUS
  <2>7. x \in EntryRecord /\ x.head = op[2] /\ x.anchors = e.anchors
    BY <1>1, <1>3, <2>2, <2>4, <2>6 DEF EntryRecord, Entry
  <2>8. ResolveSub(rep, es, e.head) = op[2]
    BY <1>2, <1>6, <1>7, <2>1 DEF ResolveSub
  <2> QED
    BY <2>5, <2>6, <2>7, <2>8
<1>8. CASE h \notin Firsts(ops)
  <2>1. PICK x : x = [e EXCEPT !.head = h, !.also = also, !.see = see]
    OBVIOUS
  <2>2. x \in EntryRecord /\ x.head = h /\ x.anchors = e.anchors
    BY <1>1, <2>1 DEF EntryRecord
  <2>3. Moved(rep, es, e) = x
    BY <1>2, <1>4, <1>5, <1>6, <1>8, <2>1, Zenon DEF Moved
  <2>4. ResolveSub(rep, es, e.head) = h
    BY <1>2, <1>6, <1>8 DEF ResolveSub
  <2> QED
    BY <2>2, <2>3, <2>4
<1> QED
  BY <1>7, <1>8

\* out with more headings, anchors and references.
Grown(out, grown) ==
  /\ grown \in Seq(EntryRecord)
  /\ Heads(out) \subseteq Heads(grown) /\ AnchorsOf(out) \subseteq AnchorsOf(grown)

LEMMA SeeAdded ==
  ASSUME NEW rep \in MergeReply, NEW es \in Seq(EntryRecord), NEW out \in Seq(EntryRecord),
         NEW p, p[1] \in Heading, p[2] \in Heading
  PROVE  /\ Grown(out, AddSee(rep, es, out, p))
         /\ ResolveSub(rep, es, p[2]) \in Heads(out) => p[1] \in Heads(AddSee(rep, es, out, p))
<1>1. PICK to \in Heading : to = ResolveSub(rep, es, p[2])
  BY SubsAre
<1>2. CASE p[1] \in Heads(out) \/ to \notin Heads(out) \/ p[1] = to
  <2>1. AddSee(rep, es, out, p) = out
    BY <1>1, <1>2 DEF AddSee
  <2> QED
    BY <1>1, <1>2, <2>1 DEF Grown
<1>3. CASE ~ (p[1] \in Heads(out) \/ to \notin Heads(out) \/ p[1] = to)
  <2>1. PICK e : e = Entry(p[1], <<>>, to, <<>>, <<>>)
    OBVIOUS
  <2>2. e \in EntryRecord /\ e.head = p[1]
    <3>1. <<>> \in Heading /\ <<>> \in Seq(Heading) /\ <<>> \in Seq(STRING)
      BY EmptySeq DEF Heading
    <3> QED
      BY <2>1, <3>1 DEF EntryRecord, Entry
  <2>3. PICK x : x = Append(out, e)
    OBVIOUS
  <2>4. AddSee(rep, es, out, p) = x
    BY <1>1, <1>3, <2>1, <2>3 DEF AddSee
  <2>5. PICK n \in Nat : n = Len(out) /\ DOMAIN out = 1..n
    BY LenProperties
  <2>6. x \in Seq(EntryRecord) /\ Len(x) = n + 1 /\ x[n + 1] = e /\ \A i \in 1..n : x[i] = out[i]
    BY <2>2, <2>3, <2>5, AppendProperties
  <2>7. DOMAIN x = 1..(n + 1) /\ n + 1 \in DOMAIN x /\ \A i \in DOMAIN out : i \in DOMAIN x /\ x[i] = out[i]
    BY <2>5, <2>6, LenProperties
  <2>8. \A h \in Heads(out) : h \in Heads(x)
    BY <2>7, Holds
  <2>9. \A a \in AnchorsOf(out) : a \in AnchorsOf(x)
    BY <2>7, Holds
  <2>10. p[1] \in Heads(x)
    BY <2>2, <2>6, <2>7, Holds
  <2> QED
    BY <2>4, <2>6, <2>8, <2>9, <2>10 DEF Grown
<1> QED
  BY <1>2, <1>3

LEMMA AlsoAdded ==
  ASSUME NEW rep \in MergeReply, NEW es \in Seq(EntryRecord), NEW out \in Seq(EntryRecord),
         NEW p \in Pairs
  PROVE  Grown(out, AddAlso(rep, es, out, p))
<1>1. PICK h \in Heading, also \in Heading : h = ResolveSub(rep, es, p[1]) /\ also = ResolveSub(rep, es, p[2])
  BY SubsAre DEF Pairs
<1> DEFINE plain == {i \in Under(out, h) : out[i].sub = <<>>}
<1>2. CASE also \notin Heads(out) \/ h = also \/ plain = {}
  <2>1. AddAlso(rep, es, out, p) = out
    BY <1>1, <1>2 DEF AddAlso
  <2> QED
    BY <2>1 DEF Grown
<1>3. CASE ~ (also \notin Heads(out) \/ h = also \/ plain = {})
  <2>1. plain \in SUBSET (DOMAIN out) /\ plain # {}
    BY <1>3 DEF Under
  <2>2. DOMAIN out \in SUBSET Nat
    BY LenProperties
  <2>3. PICK f \in DOMAIN out : f = First(plain)
    <3> HIDE DEF plain
    <3>1. plain \in SUBSET Nat
      BY <2>1, <2>2
    <3>2. First(plain) \in plain
      BY <2>1, <3>1, FirstOf
    <3> QED
      BY <2>1, <3>2
  <2>4. PICK e \in EntryRecord : e = out[f]
    BY Fields
  <2>5. PICK v \in Seq(Heading) : v = AppendUnique(e.also, also)
    BY AppendUniqueIs DEF EntryRecord
  <2>6. AddAlso(rep, es, out, p) = [out EXCEPT ![f].also = AppendUnique(@, also)]
    BY <1>1, <1>3, <2>3 DEF AddAlso
  <2>7. PICK x : x = [out EXCEPT ![f].also = v]
    OBVIOUS
  <2>8. AddAlso(rep, es, out, p) = x
    BY <2>4, <2>5, <2>6, <2>7
  <2>9. DOMAIN x = DOMAIN out /\ x[f] = [e EXCEPT !.also = v] /\ \A i \in DOMAIN out : i # f => x[i] = out[i]
    BY <2>4, <2>7
  <2>10. x[f] \in EntryRecord /\ x[f].head = e.head /\ x[f].anchors = e.anchors
    BY <2>9 DEF EntryRecord
  <2>11. \A i \in DOMAIN out : x[i] \in EntryRecord /\ x[i].head = out[i].head /\ x[i].anchors = out[i].anchors
    BY <2>4, <2>9, <2>10, Fields
  <2>12. x \in [DOMAIN out -> EntryRecord]
    <3>1. x = [i \in DOMAIN out |-> x[i]]
      BY <2>7, <2>9
    <3> QED
      BY <2>11, <3>1
  <2>13. x \in Seq(EntryRecord)
    BY <2>12, MappedSeq
  <2>14. \A y \in Heads(out) : y \in Heads(x)
    BY <2>9, <2>11, Holds
  <2>15. \A a \in AnchorsOf(out) : a \in AnchorsOf(x)
    BY <2>9, <2>11, Holds
  <2> QED
    BY <2>8, <2>13, <2>14, <2>15 DEF Grown
<1> QED
  BY <1>2, <1>3

Wordings == Pairs \cup Triples

LEMMA GrownOn ==
  ASSUME NEW x \in Seq(EntryRecord), NEW y, NEW z, Grown(x, y), Grown(y, z)
  PROVE  Grown(x, x) /\ Grown(x, z)
  BY DEF Grown

\* References are added one after the other: g is what stands after each.
SeesWalk(rep, es, kept, sees, n, g) ==
  g = [k \in 0..n |-> IF k = 0 THEN kept ELSE AddSee(rep, es, g[k - 1], sees[k])]
AlsosWalk(rep, es, base, also, n, g) ==
  g = [k \in 0..n |-> IF k = 0 THEN base ELSE AddAlso(rep, es, g[k - 1], also[k])]

LEMMA SeesWalked ==
  ASSUME NEW rep \in MergeReply, NEW es \in Seq(EntryRecord), NEW kept \in Seq(EntryRecord),
         NEW sees \in Seq(Wordings), NEW n \in Nat, n = Len(sees)
  PROVE  /\ \E g : SeesWalk(rep, es, kept, sees, n, g)
         /\ \A g : SeesWalk(rep, es, kept, sees, n, g)
               => /\ Grown(kept, g[n])
                  /\ \A i \in 1..n : ResolveSub(rep, es, sees[i][2]) \in Heads(kept)
                                       => sees[i][1] \in Heads(g[n])
<1>1. \A i \in 1..n : sees[i][1] \in Heading /\ sees[i][2] \in Heading
  <2>1. \A i \in 1..n : sees[i] \in Wordings
    BY ElementOfSeq
  <2>2. \A p \in Wordings : p[1] \in Heading /\ p[2] \in Heading
    BY DEF Wordings, Pairs, Triples
  <2> QED
    BY <2>1, <2>2
<1>2. PICK S : S = Seq(EntryRecord)
  OBVIOUS
<1>3. \A i \in 1..n, x \in S : /\ Grown(x, AddSee(rep, es, x, sees[i])) /\ AddSee(rep, es, x, sees[i]) \in S
                               /\ ResolveSub(rep, es, sees[i][2]) \in Heads(x)
                                    => sees[i][1] \in Heads(AddSee(rep, es, x, sees[i]))
  <2> SUFFICES ASSUME NEW i \in 1..n, NEW x \in S
               PROVE  /\ Grown(x, AddSee(rep, es, x, sees[i])) /\ AddSee(rep, es, x, sees[i]) \in S
                      /\ ResolveSub(rep, es, sees[i][2]) \in Heads(x)
                           => sees[i][1] \in Heads(AddSee(rep, es, x, sees[i]))
    OBVIOUS
  <2>1. PICK p : p = sees[i]
    OBVIOUS
  <2>2. p[1] \in Heading /\ p[2] \in Heading /\ x \in Seq(EntryRecord)
    BY <1>1, <1>2, <2>1
  <2>3. /\ Grown(x, AddSee(rep, es, x, p))
        /\ ResolveSub(rep, es, p[2]) \in Heads(x) => p[1] \in Heads(AddSee(rep, es, x, p))
    BY <2>2, SeeAdded
  <2>4. AddSee(rep, es, x, p) \in S
    BY <1>2, <2>3 DEF Grown
  <2> QED
    BY <2>1, <2>3, <2>4
<1>4. PICK step \in [1..n -> [S -> S]] : \A i \in 1..n, x \in S : step[i][x] = AddSee(rep, es, x, sees[i])
  <2> DEFINE st == [i \in 1..n |-> [x \in S |-> AddSee(rep, es, x, sees[i])]]
  <2>1. st \in [1..n -> [S -> S]]
    BY <1>3
  <2>2. \A i \in 1..n, x \in S : st[i][x] = AddSee(rep, es, x, sees[i])
    OBVIOUS
  <2> HIDE DEF st
  <2> QED
    BY <2>1, <2>2
<1>5. kept \in S
  BY <1>2
<1>6. PICK f : Iterates(f, S, kept, n, step)
  BY <1>5, Recursion
<1>7. f = [k \in 0..n |-> IF k = 0 THEN kept ELSE AddSee(rep, es, f[k - 1], sees[k])]
  <2>1. f \in [0..n -> S] /\ f[0] = kept /\ \A i \in 1..n : f[i] = step[i][f[i - 1]]
    BY <1>6 DEF Iterates
  <2>2. ASSUME NEW k \in 0..n PROVE f[k] = IF k = 0 THEN kept ELSE AddSee(rep, es, f[k - 1], sees[k])
    <3>1. CASE k = 0
      BY <2>1, <3>1
    <3>2. CASE k # 0
      <4>1. k \in 1..n /\ k - 1 \in 0..n
        BY <3>2
      <4>2. f[k - 1] \in S
        BY <2>1, <4>1
      <4> QED
        BY <1>4, <2>1, <3>2, <4>1, <4>2
    <3> QED
      BY <3>1, <3>2
  <2> QED
    BY <2>1, <2>2
<1>8. ASSUME NEW g, SeesWalk(rep, es, kept, sees, n, g)
      PROVE  /\ Grown(kept, g[n])
             /\ \A i \in 1..n : ResolveSub(rep, es, sees[i][2]) \in Heads(kept) => sees[i][1] \in Heads(g[n])
  <2> DEFINE Done(k) == \A i \in 1..k : ResolveSub(rep, es, sees[i][2]) \in Heads(kept) => sees[i][1] \in Heads(g[k])
             I == {k \in 0..n : Grown(kept, g[k]) /\ Done(k)}
  <2>0. \A k \in 0..n : g[k] = IF k = 0 THEN kept ELSE AddSee(rep, es, g[k - 1], sees[k])
    BY <1>8, Zenon DEF SeesWalk
  <2>1. g[0] = kept /\ \A k \in 1..n : g[k] = AddSee(rep, es, g[k - 1], sees[k])
    <3>1. 0 \in 0..n /\ \A k \in 1..n : k \in 0..n /\ k # 0
      OBVIOUS
    <3> QED
      BY <2>0, <3>1
  <2>2. 0 \in I
    BY <2>1 DEF Grown
  <2>3. ASSUME NEW k \in 1..n, k - 1 \in I PROVE k \in I
    <3>1. PICK x : x = g[k - 1]
      OBVIOUS
    <3>2. Grown(kept, x)
      BY <2>3, <3>1
    <3>3. x \in S
      BY <1>2, <3>2 DEF Grown
    <3>4. g[k] = AddSee(rep, es, x, sees[k])
      BY <2>1, <3>1
    <3>5. /\ Grown(x, g[k])
          /\ ResolveSub(rep, es, sees[k][2]) \in Heads(x) => sees[k][1] \in Heads(g[k])
      BY <1>3, <3>3, <3>4
    <3>6. Grown(kept, g[k])
      BY <3>2, <3>5, GrownOn
    <3>7. Done(k)
      <4> SUFFICES ASSUME NEW i \in 1..k, ResolveSub(rep, es, sees[i][2]) \in Heads(kept)
                   PROVE  sees[i][1] \in Heads(g[k])
        OBVIOUS
      <4>1. CASE i = k
        BY <3>2, <3>5, <4>1 DEF Grown
      <4>2. CASE i # k
        <5>1. i \in 1..(k - 1)
          BY <4>2
        <5>2. sees[i][1] \in Heads(x)
          BY <2>3, <3>1, <5>1
        <5> QED
          BY <3>5, <5>2 DEF Grown
      <4> QED
        BY <4>1, <4>2
    <3>8. k \in 0..n
      OBVIOUS
    <3> HIDE DEF Done
    <3> QED
      BY <3>6, <3>7, <3>8
  <2>4. n \in I
    <3>1. n \in 0..n
      OBVIOUS
    <3> HIDE DEF I, Done
    <3> QED
      BY <2>2, <2>3, <3>1, SetInduction
  <2> QED
    BY <2>4
<1>9. SeesWalk(rep, es, kept, sees, n, f)
  BY <1>7, Zenon DEF SeesWalk
<1> QED
  BY <1>8, <1>9

LEMMA AlsosWalked ==
  ASSUME NEW rep \in MergeReply, NEW es \in Seq(EntryRecord), NEW base \in Seq(EntryRecord),
         NEW also \in Seq(Pairs), NEW n \in Nat, n = Len(also)
  PROVE  /\ \E g : AlsosWalk(rep, es, base, also, n, g)
         /\ \A g : AlsosWalk(rep, es, base, also, n, g)
               => Grown(base, g[n])
<1>1. \A i \in 1..n : also[i] \in Pairs
  BY ElementOfSeq
<1>2. PICK S : S = Seq(EntryRecord)
  OBVIOUS
<1>3. \A i \in 1..n, x \in S : Grown(x, AddAlso(rep, es, x, also[i])) /\ AddAlso(rep, es, x, also[i]) \in S
  BY <1>1, <1>2, AlsoAdded DEF Grown
<1>4. PICK step \in [1..n -> [S -> S]] : \A i \in 1..n, x \in S : step[i][x] = AddAlso(rep, es, x, also[i])
  <2> DEFINE st == [i \in 1..n |-> [x \in S |-> AddAlso(rep, es, x, also[i])]]
  <2>1. st \in [1..n -> [S -> S]]
    BY <1>3
  <2>2. \A i \in 1..n, x \in S : st[i][x] = AddAlso(rep, es, x, also[i])
    OBVIOUS
  <2> HIDE DEF st
  <2> QED
    BY <2>1, <2>2
<1>5. base \in S
  BY <1>2
<1>6. PICK f : Iterates(f, S, base, n, step)
  BY <1>5, Recursion
<1>7. f = [k \in 0..n |-> IF k = 0 THEN base ELSE AddAlso(rep, es, f[k - 1], also[k])]
  <2>1. f \in [0..n -> S] /\ f[0] = base /\ \A i \in 1..n : f[i] = step[i][f[i - 1]]
    BY <1>6 DEF Iterates
  <2>2. ASSUME NEW k \in 0..n PROVE f[k] = IF k = 0 THEN base ELSE AddAlso(rep, es, f[k - 1], also[k])
    <3>1. CASE k = 0
      BY <2>1, <3>1
    <3>2. CASE k # 0
      <4>1. k \in 1..n /\ k - 1 \in 0..n
        BY <3>2
      <4>2. f[k - 1] \in S
        BY <2>1, <4>1
      <4> QED
        BY <1>4, <2>1, <3>2, <4>1, <4>2
    <3> QED
      BY <3>1, <3>2
  <2> QED
    BY <2>1, <2>2
<1>8. ASSUME NEW g, AlsosWalk(rep, es, base, also, n, g)
      PROVE  Grown(base, g[n])
  <2> DEFINE I == {k \in 0..n : Grown(base, g[k])}
  <2>0. \A k \in 0..n : g[k] = IF k = 0 THEN base ELSE AddAlso(rep, es, g[k - 1], also[k])
    BY <1>8, Zenon DEF AlsosWalk
  <2>1. g[0] = base /\ \A k \in 1..n : g[k] = AddAlso(rep, es, g[k - 1], also[k])
    <3>1. 0 \in 0..n /\ \A k \in 1..n : k \in 0..n /\ k # 0
      OBVIOUS
    <3> QED
      BY <2>0, <3>1
  <2>2. 0 \in I
    BY <2>1 DEF Grown
  <2>3. ASSUME NEW k \in 1..n, k - 1 \in I PROVE k \in I
    <3>1. PICK x : x = g[k - 1]
      OBVIOUS
    <3>2. Grown(base, x) /\ k \in 0..n
      BY <2>3, <3>1
    <3>3. x \in S
      BY <1>2, <3>2 DEF Grown
    <3>4. Grown(x, g[k])
      BY <1>3, <2>1, <3>1, <3>3
    <3>5. Grown(base, g[k])
      BY <3>2, <3>4, GrownOn
    <3> QED
      BY <3>2, <3>5
  <2>4. n \in I
    <3>1. n \in 0..n
      OBVIOUS
    <3> HIDE DEF I
    <3> QED
      BY <2>2, <2>3, <3>1, SetInduction
  <2> QED
    BY <2>4
<1>9. AlsosWalk(rep, es, base, also, n, f)
  BY <1>7, Zenon DEF AlsosWalk
<1> QED
  BY <1>8, <1>9

\* The wordings AutoSees names.
LEMMA AutoSeesAre ==
  ASSUME NEW rep \in MergeReply, NEW es \in Seq(EntryRecord)
  PROVE  /\ AutoSees(rep, es) \o rep.see \in Seq(Wordings)
         /\ \A h \in Firsts(Renames(rep)) :
               ~ SharesWord(h, Renamed(rep, h)) => <<h, Renamed(rep, h)>> \in ToSet(AutoSees(rep, es) \o rep.see)
<1>1. PICK rs \in Seq(Pairs) : rs = Renames(rep)
  BY RenamesAre
<1>2. PICK subs \in Seq(Triples) : subs = Subs(rep, es)
  BY SubsAre
<1>3. PICK see \in Seq(Pairs) : see = rep.see
  BY DEF MergeReply, Pairs
<1>4. Pairs \subseteq Wordings /\ Triples \subseteq Wordings
  BY DEF Wordings
<1>5. \A T \in SUBSET Wordings : \A s \in Seq(T) : s \in Seq(Wordings)
  <2> SUFFICES ASSUME NEW T \in SUBSET Wordings, NEW s \in Seq(T) PROVE s \in Seq(Wordings)
    OBVIOUS
  <2>1. \A i \in DOMAIN s : s[i] \in Wordings
    BY ElementOfSeq, LenProperties
  <2>2. s = [i \in DOMAIN s |-> s[i]]
    BY SeqDef
  <2>3. s \in [DOMAIN s -> Wordings]
    BY <2>1, <2>2
  <2> QED
    BY <2>3, MappedSeq
<1> DEFINE S1 == {i \in DOMAIN rs : ~ SharesWord(rs[i][1], rs[i][2])}
           S2 == {i \in DOMAIN subs : /\ ~ SharesWord(subs[i][1], subs[i][2])
                                      /\ Anchored(es, subs[i][1]) > 1}
<1>6. AutoSees(rep, es) = Picked(rs, S1) \o Picked(subs, S2)
  BY <1>1, <1>2 DEF AutoSees
<1>7. S1 \in SUBSET (DOMAIN rs) /\ S2 \in SUBSET (DOMAIN subs)
  OBVIOUS
<1>8. \A i \in DOMAIN rs : ~ SharesWord(rs[i][1], rs[i][2]) => i \in S1
  OBVIOUS
<1> HIDE DEF S1, S2
<1>9. PICK p \in Seq(Wordings) : p = Picked(rs, S1) /\ ToSet(p) = {rs[i] : i \in S1}
  <2>1. Picked(rs, S1) \in Seq(Pairs) /\ ToSet(Picked(rs, S1)) = {rs[i] : i \in S1}
    BY <1>7, PickedIs
  <2> QED
    BY <1>4, <1>5, <2>1
<1>10. PICK q \in Seq(Wordings) : q = Picked(subs, S2)
  <2>1. Picked(subs, S2) \in Seq(Triples)
    BY <1>7, PickedIs
  <2> QED
    BY <1>4, <1>5, <2>1
<1>11. see \in Seq(Wordings)
  BY <1>4, <1>5
<1>12. p \o q \in Seq(Wordings)
  BY ConcatProperties
<1>13. (p \o q) \o see \in Seq(Wordings)
  BY <1>11, <1>12, ConcatProperties
<1>14. ToSet((p \o q) \o see) = ToSet(p \o q) \cup ToSet(see) /\ ToSet(p \o q) = ToSet(p) \cup ToSet(q)
  <2>1. ToSet(p \o q) = ToSet(p) \cup ToSet(q)
    BY ToSetConcat
  <2>2. PICK pq \in Seq(Wordings) : pq = p \o q
    BY <1>12
  <2>3. ToSet(pq \o see) = ToSet(pq) \cup ToSet(see)
    BY <1>11, ToSetConcat
  <2> QED
    BY <2>1, <2>2, <2>3
<1>15. ASSUME NEW h \in Firsts(rs), ~ SharesWord(h, Renamed(rep, h)) PROVE <<h, Renamed(rep, h)>> \in ToSet(p)
  <2>1. <<h, Renamed(rep, h)>> \in ToSet(rs)
    BY <1>1, RenamesAre
  <2>2. PICK i \in DOMAIN rs : rs[i] = <<h, Renamed(rep, h)>>
    BY <2>1 DEF ToSet
  <2>3. i \in S1
    BY <1>8, <1>15, <2>2
  <2> QED
    BY <1>9, <2>2, <2>3
<1> QED
  BY <1>1, <1>3, <1>6, <1>9, <1>10, <1>13, <1>14, <1>15

\* What consolidate promises of the entries es it was given.
Consolidates(rep, es, c) ==
  /\ c \in Seq(EntryRecord)
  /\ rep.drop = {} =>
        /\ AnchorsOf(es) \subseteq AnchorsOf(c)
        /\ \A h \in Heads(es) : ResolveSub(rep, es, h) \in Heads(c)
        /\ \A h \in Firsts(Renames(rep)), k \in Heads(es) :
              ~ SharesWord(h, Renamed(rep, h)) /\ ResolveSub(rep, es, Renamed(rep, h)) = ResolveSub(rep, es, k)
                => h \in Heads(c)

LEMMA ConsolidatedIs ==
  ASSUME NEW rep \in MergeReply, NEW es \in Seq(EntryRecord)
  PROVE  Consolidates(rep, es, Consolidated(es, rep))
<1> DEFINE moved == [i \in DOMAIN es |-> Moved(rep, es, es[i])]
           S == {i \in DOMAIN moved : moved[i].head \notin rep.drop}
           kept == Picked(moved, S)
           sees == AutoSees(rep, es) \o rep.see
           withSee == CHOOSE g : g = [k \in 0..Len(sees) |->
                        IF k = 0 THEN kept ELSE AddSee(rep, es, g[k - 1], sees[k])]
           base == withSee[Len(sees)]
           also == rep.also
           withAlso == CHOOSE g : g = [k \in 0..Len(also) |->
                        IF k = 0 THEN base ELSE AddAlso(rep, es, g[k - 1], also[k])]
           last == withAlso[Len(also)]
           c == MergeIdentical(last)
<1>0. Consolidated(es, rep) = c
  BY DEF Consolidated
<1> HIDE DEF moved, S, kept, sees, withSee, base, also, withAlso, last, c
<1>1. moved = [i \in DOMAIN es |-> Moved(rep, es, es[i])]
  BY DEF moved
<1>2. \A i \in DOMAIN es : /\ moved[i] \in EntryRecord
                           /\ moved[i].head = ResolveSub(rep, es, es[i].head)
                           /\ moved[i].anchors = es[i].anchors
  <2>1. \A i \in DOMAIN es : es[i] \in EntryRecord
    BY Fields
  <2> QED
    BY <1>1, <2>1, MovedIs
<1>3. moved \in Seq(EntryRecord) /\ DOMAIN moved = DOMAIN es
  <2>1. moved \in [DOMAIN es -> EntryRecord]
    BY <1>1, <1>2
  <2> QED
    BY <2>1, MappedSeq
<1>4. S \in SUBSET (DOMAIN moved) /\ (rep.drop = {} => S = DOMAIN es)
  BY <1>3 DEF S
<1>6. kept \in Seq(EntryRecord) /\ ToSet(kept) = {moved[i] : i \in S}
  BY <1>3, <1>4, PickedIs DEF kept
<1>7. sees \in Seq(Wordings)
  BY AutoSeesAre DEF sees
<1>8. PICK n \in Nat : n = Len(sees) /\ DOMAIN sees = 1..n
  BY <1>7, LenProperties
<1>9. SeesWalk(rep, es, kept, sees, n, withSee)
  <2>1. \E g : SeesWalk(rep, es, kept, sees, n, g)
    BY <1>6, <1>7, <1>8, SeesWalked
  <2>2. withSee = CHOOSE g : SeesWalk(rep, es, kept, sees, n, g)
    BY <1>8, Zenon DEF withSee, SeesWalk
  <2> QED
    BY <2>1, <2>2, Zenon
<1>10. base = withSee[n]
  BY <1>8 DEF base
<1>11. /\ Grown(kept, base)
       /\ \A i \in 1..n : ResolveSub(rep, es, sees[i][2]) \in Heads(kept) => sees[i][1] \in Heads(base)
  BY <1>6, <1>7, <1>8, <1>9, <1>10, SeesWalked
<1>12. base \in Seq(EntryRecord)
  BY <1>11 DEF Grown
<1>13. also \in Seq(Pairs)
  BY DEF MergeReply, Pairs, also
<1>14. PICK l \in Nat : l = Len(also)
  BY <1>13, LenProperties
<1>15. AlsosWalk(rep, es, base, also, l, withAlso)
  <2>1. \E g : AlsosWalk(rep, es, base, also, l, g)
    BY <1>12, <1>13, <1>14, AlsosWalked
  <2>2. withAlso = CHOOSE g : AlsosWalk(rep, es, base, also, l, g)
    BY <1>14, Zenon DEF withAlso, AlsosWalk
  <2> QED
    BY <2>1, <2>2, Zenon
<1>16. last = withAlso[l]
  BY <1>14 DEF last
<1>17. Grown(base, last)
  BY <1>12, <1>13, <1>14, <1>15, <1>16, AlsosWalked
<1>18. Grown(kept, last)
  BY <1>6, <1>11, <1>17, GrownOn
<1>19. last \in Seq(EntryRecord)
  BY <1>18 DEF Grown
<1>20. c = MergeIdentical(last)
  BY DEF c
<1>21. c \in Seq(EntryRecord) /\ Heads(c) = Heads(last) /\ AnchorsOf(c) = AnchorsOf(last)
  BY <1>19, <1>20, MergedIs DEF Merged
<1>23. ASSUME rep.drop = {}
       PROVE  /\ AnchorsOf(es) \subseteq AnchorsOf(c)
              /\ \A h \in Heads(es) : ResolveSub(rep, es, h) \in Heads(c)
              /\ \A h \in Firsts(Renames(rep)), k \in Heads(es) :
                    ~ SharesWord(h, Renamed(rep, h)) /\ ResolveSub(rep, es, Renamed(rep, h)) = ResolveSub(rep, es, k)
                      => h \in Heads(c)
  <2>1. \A i \in DOMAIN es : moved[i] \in ToSet(kept)
    BY <1>4, <1>6, <1>23
  <2>2. \A a \in AnchorsOf(es) : a \in AnchorsOf(kept)
    <3> SUFFICES ASSUME NEW a \in AnchorsOf(es) PROVE a \in AnchorsOf(kept)
      OBVIOUS
    <3>1. PICK i \in DOMAIN es : a \in ToSet(es[i].anchors)
      BY Holds
    <3>2. moved[i] \in ToSet(kept) /\ moved[i].anchors = es[i].anchors
      BY <1>2, <2>1
    <3> QED
      BY <3>1, <3>2, HoldsAmong
  <2>3. \A h \in Heads(es) : ResolveSub(rep, es, h) \in Heads(kept)
    <3> SUFFICES ASSUME NEW h \in Heads(es) PROVE ResolveSub(rep, es, h) \in Heads(kept)
      OBVIOUS
    <3>1. PICK i \in DOMAIN es : h = es[i].head
      BY Holds
    <3>2. moved[i] \in ToSet(kept) /\ moved[i].head = ResolveSub(rep, es, h)
      BY <1>2, <2>1, <3>1
    <3> QED
      BY <3>2, HoldsAmong
  <2>4. Heads(kept) \subseteq Heads(c) /\ AnchorsOf(kept) \subseteq AnchorsOf(c)
    BY <1>18, <1>21 DEF Grown
  <2>5. ASSUME NEW h \in Firsts(Renames(rep)), NEW k \in Heads(es), ~ SharesWord(h, Renamed(rep, h)),
               ResolveSub(rep, es, Renamed(rep, h)) = ResolveSub(rep, es, k)
        PROVE  h \in Heads(c)
    <3>1. PICK to : to = Renamed(rep, h)
      OBVIOUS
    <3>2. <<h, to>> \in ToSet(sees)
      BY <2>5, <3>1, AutoSeesAre DEF sees
    <3>3. PICK i \in 1..n : sees[i] = <<h, to>>
      BY <1>8, <3>2 DEF ToSet
    <3>4. sees[i][1] = h /\ sees[i][2] = to
      BY <3>3
    <3>5. ResolveSub(rep, es, to) \in Heads(kept)
      BY <2>3, <2>5, <3>1
    <3>6. h \in Heads(base)
      BY <1>11, <3>4, <3>5
    <3> QED
      BY <1>17, <1>21, <3>6 DEF Grown
  <2> QED
    BY <2>2, <2>3, <2>4, <2>5
<1> QED
  BY <1>0, <1>21, <1>23 DEF Consolidates

-----------------------------------------------------------------------------
(* The stored index.                                                       *)

\* The chapters' entries are entries, and the stored index is safe.
EntriesInv ==
  /\ raw \in Seq(EntryRecord)
  /\ EntriesSafe

\* A step that stores an index Tidy made, with every lookup found, stores a safe one.
LEMMA TidyIsSafe ==
  ASSUME NEW es \in Seq(EntryRecord), TidyIndex(es, entries'),
         chapter' \in 0..Chapters, saves' \in 0..MaxSaves,
         owed' \subseteq AnchorsOf(es), \A h \in (lookups \ chained)' : Found(h)'
  PROVE  EntriesSafe'
<1>1. /\ entries' \in Seq(EntryRecord) /\ NoTwice(entries') /\ AnchorsOf(entries') = AnchorsOf(es)
      /\ \A i \in DOMAIN entries' :
            /\ IsInjective(entries'[i].also)
            /\ entries'[i].see # NoRef => /\ entries'[i].see \in Heads(entries') \ {entries'[i].head}
                                         /\ entries'[i].anchors = <<>> /\ entries'[i].sub = <<>>
            /\ ToSet(entries'[i].also) \subseteq Heads(entries') \ {entries'[i].head}
  BY DEF TidyIndex
<1>2. EntriesTypeOK'
  <2>1. \A i, j \in DOMAIN entries' : i < j => Key(entries'[i]) # Key(entries'[j])
    <3>1. \A i, j \in DOMAIN entries' : i < j => i # j
      <4>1. PICK n \in Nat : DOMAIN entries' = 1..n
        BY <1>1, LenProperties
      <4> QED
        BY <4>1
    <3> QED
      BY <1>1, <3>1, Zenon DEF NoTwice
  <2>2. \A i \in DOMAIN entries' : IsInjective(entries'[i].anchors)
    BY <1>1, Zenon DEF NoTwice
  <2> QED
    BY <1>1, <2>1, <2>2, Zenon DEF EntriesTypeOK
<1>3. RefsProper'
  BY <1>1, Zenon DEF RefsProper
<1>4. AnchorsKept'
  BY <1>1 DEF AnchorsKept
<1>5. LookupsKept'
  BY DEF LookupsKept
<1> QED
  BY <1>2, <1>3, <1>4, <1>5 DEF EntriesSafe

\* A heading that was merged away is found among the consolidated ones.
LEMMA FoundAgain ==
  ASSUME NEW rep \in MergeReply, NEW es \in Seq(EntryRecord), NEW c, Consolidates(rep, es, c),
         rep.drop = {}, NEW h \in Heads(es), LookedUp(rep, es, h), ~ Chained(rep, es, h)
  PROVE  \E g \in Heads(c) : g = h \/ SharesWord(h, g)
<1>1. h \in Heading
  BY Fields
<1>2. PICK F, G : F = Firsts(Renames(rep)) /\ G = Firsts(Subs(rep, es))
  OBVIOUS
<1>3. PICK to \in Heading : to = Renamed(rep, h)
  BY <1>1, RenamesAre
<1>4. PICK r : r = Resolve(rep, h)
  OBVIOUS
<1>5. h \notin G /\ r \notin F
  BY <1>2, <1>4 DEF LookedUp
<1>6. ~ (SharesWord(h, to) /\ (to \in F \/ to \in G))
  BY <1>2, <1>3 DEF Chained
<1>7. /\ Resolve(rep, to) = r
      /\ h \notin F => r = h
      /\ to \notin F => r = to
  BY <1>1, <1>2, <1>3, <1>4, <1>5, ResolveOn
<1>8. /\ \A k \in Heads(es) : ResolveSub(rep, es, k) \in Heads(c)
      /\ \A k \in Heads(es) : h \in F /\ ~ SharesWord(h, to) /\ ResolveSub(rep, es, to) = ResolveSub(rep, es, k)
            => h \in Heads(c)
  BY <1>2, <1>3 DEF Consolidates
<1>9. r \notin G => r \in Heads(c)
  <2>1. r \notin G => ResolveSub(rep, es, h) = r
    BY <1>2, <1>4 DEF ResolveSub
  <2> QED
    BY <1>8, <2>1
<1>10. CASE h \notin F
  BY <1>5, <1>7, <1>9, <1>10
<1>11. CASE h \in F /\ SharesWord(h, to)
  BY <1>6, <1>7, <1>9, <1>11
<1>12. CASE h \in F /\ ~ SharesWord(h, to)
  <2>1. ResolveSub(rep, es, to) = ResolveSub(rep, es, h)
    BY <1>4, <1>7 DEF ResolveSub
  <2> QED
    BY <1>8, <1>12, <2>1
<1> QED
  BY <1>10, <1>11, <1>12

LEMMA EditedIs ==
  ASSUME NEW es \in Seq(EntryRecord), NEW b \in Edits(es)
  PROVE  b \in Seq(EntryRecord)
<1>1. PICK n \in Nat : n = Len(es) /\ DOMAIN es = 1..n
  BY LenProperties
<1>2. \A i \in 1..n : es[i] \in EntryRecord
  BY <1>1, ElementOfSeq
<1>3. ASSUME NEW i \in 1..n, NEW e \in EntryRecord, b = [es EXCEPT ![i] = e] PROVE b \in Seq(EntryRecord)
  <2>1. b \in [DOMAIN es -> EntryRecord]
    BY <1>1, <1>2, <1>3
  <2> QED
    BY <2>1, MappedSeq
<1>4. \A t \in Targets : t \in Heading
  BY EntriesAssumption
<1>5. CASE \E i \in DOMAIN es : b = RemoveAt(es, i)
  <2>1. PICK i \in 1..n : b = RemoveAt(es, i)
    BY <1>1, <1>5
  <2>2. SubSeq(es, 1, i - 1) \in Seq(EntryRecord)
    <3>1. \A j \in 1..(i - 1) : es[j] \in EntryRecord
      BY <1>2
    <3> QED
      BY <3>1, SubSeqProperties
  <2>3. SubSeq(es, i + 1, n) \in Seq(EntryRecord)
    <3>1. \A j \in (i + 1)..n : es[j] \in EntryRecord
      BY <1>2
    <3> QED
      BY <3>1, SubSeqProperties
  <2>4. b = SubSeq(es, 1, i - 1) \o SubSeq(es, i + 1, n)
    BY <1>1, <2>1 DEF RemoveAt
  <2> QED
    BY <2>2, <2>3, <2>4, ConcatProperties
<1>6. CASE \E i \in DOMAIN es, t \in Targets : b = [es EXCEPT ![i].see = t]
  <2>1. PICK i \in 1..n, t \in Targets : b = [es EXCEPT ![i].see = t]
    BY <1>1, <1>6
  <2>2. PICK e : e = [es[i] EXCEPT !.see = t]
    OBVIOUS
  <2>3. e \in EntryRecord
    BY <1>2, <1>4, <2>2 DEF EntryRecord
  <2>4. b = [es EXCEPT ![i] = e]
    BY <2>1, <2>2
  <2> QED
    BY <1>3, <2>3, <2>4
<1>7. CASE \E i \in DOMAIN es, t \in Targets : b = [es EXCEPT ![i].head = t]
  <2>1. PICK i \in 1..n, t \in Targets : b = [es EXCEPT ![i].head = t]
    BY <1>1, <1>7
  <2>2. PICK e : e = [es[i] EXCEPT !.head = t]
    OBVIOUS
  <2>3. e \in EntryRecord
    BY <1>2, <1>4, <2>2 DEF EntryRecord
  <2>4. b = [es EXCEPT ![i] = e]
    BY <2>1, <2>2
  <2> QED
    BY <1>3, <2>3, <2>4
<1>8. CASE \E i \in DOMAIN es, t \in Targets : b = [es EXCEPT ![i].also = Append(@, t)]
  <2>1. PICK i \in 1..n, t \in Targets : b = [es EXCEPT ![i].also = Append(@, t)]
    BY <1>1, <1>8
  <2>2. es[i].also \in Seq(Heading)
    BY <1>2 DEF EntryRecord
  <2>3. PICK v \in Seq(Heading) : v = Append(es[i].also, t)
    BY <1>4, <2>2, AppendProperties
  <2>4. PICK e : e = [es[i] EXCEPT !.also = v]
    OBVIOUS
  <2>5. e \in EntryRecord
    BY <1>2, <2>4 DEF EntryRecord
  <2>6. b = [es EXCEPT ![i] = e]
    BY <2>1, <2>3, <2>4
  <2> QED
    BY <1>3, <2>5, <2>6
<1> QED
  BY <1>5, <1>6, <1>7, <1>8 DEF Edits

LEMMA EntriesInitHolds == EntriesInit => EntriesInv
<1> SUFFICES ASSUME EntriesInit PROVE EntriesInv
  OBVIOUS
<1>1. raw = <<>> /\ entries = <<>> /\ chapter = 0 /\ saves = 0 /\ owed = {} /\ lookups = {}
  BY DEF EntriesInit
<1>2. <<>> \in Seq(EntryRecord) /\ DOMAIN <<>> = {}
  BY EmptySeq
<1>3. EntriesTypeOK
  BY <1>1, <1>2, EntriesAssumption DEF EntriesTypeOK
<1>4. RefsProper
  BY <1>1, <1>2 DEF RefsProper
<1>5. AnchorsKept /\ LookupsKept
  BY <1>1 DEF AnchorsKept, LookupsKept
<1> QED
  BY <1>1, <1>2, <1>3, <1>4, <1>5 DEF EntriesInv, EntriesSafe

LEMMA EntriesStep == EntriesInv /\ [EntriesNext]_entryVars => EntriesInv'
<1> SUFFICES ASSUME EntriesInv, [EntriesNext]_entryVars PROVE EntriesInv'
  OBVIOUS
<1>1. raw \in Seq(EntryRecord) /\ EntriesSafe
  BY DEF EntriesInv
<1>2. chapter \in 0..Chapters /\ saves \in 0..MaxSaves /\ entries \in Seq(EntryRecord)
  BY <1>1 DEF EntriesSafe, EntriesTypeOK
<1>3. Chapters \in Nat /\ MaxSaves \in Nat
  BY EntriesAssumption
<1>4. ASSUME NEW reply \in Replies, DraftChapter(reply) PROVE EntriesInv'
  <2>1. UNCHANGED <<entries, owed, lookups, chained, saves>> /\ chapter' \in 0..Chapters
    BY <1>2, <1>3, <1>4 DEF DraftChapter
  <2>2. raw' \in Seq(EntryRecord)
    <3>1. reply \in Seq(EntryRecord)
      BY EntriesAssumption
    <3>2. raw' = raw \o reply
      BY <1>4 DEF DraftChapter
    <3> QED
      BY <1>1, <3>1, <3>2, ConcatProperties
  <2>3. EntriesTypeOK' /\ RefsProper' /\ AnchorsKept'
    BY <1>1, <2>1 DEF EntriesSafe, EntriesTypeOK, RefsProper, AnchorsKept
  <2>4. LookupsKept'
    BY <1>1, <2>1 DEF EntriesSafe, LookupsKept, Found
  <2> QED
    BY <2>2, <2>3, <2>4 DEF EntriesInv, EntriesSafe
<1>5. ASSUME NEW rep \in Merges, FinishDraft(rep) PROVE EntriesInv'
  <2>1. rep \in MergeReply
    BY EntriesAssumption
  <2>2. PICK es : es = MergeIdentical(raw)
    OBVIOUS
  <2>3. es \in Seq(EntryRecord) /\ Heads(es) = Heads(raw) /\ AnchorsOf(es) = AnchorsOf(raw)
    BY <1>1, <2>2, MergedIs DEF Merged
  <2>4. raw' = <<>> /\ raw' \in Seq(EntryRecord)
    BY <1>5, EmptySeq DEF FinishDraft
  <2>5. UNCHANGED <<chapter, saves>>
    BY <1>5 DEF FinishDraft
  <2>6. CASE rep.failed \/ Chapters = 1
    <3>1. entries' \in Tidy(es) /\ owed' = AnchorsOf(raw) /\ lookups' = Heads(raw)
      BY <1>5, <2>2, <2>6 DEF FinishDraft
    <3>2. TidyIndex(es, entries')
      BY <2>3, <3>1, TidyIs
    <3>3. \A h \in lookups' : h \in Heads(entries')
      BY <2>3, <3>1, <3>2 DEF TidyIndex
    <3>4. \A h \in (lookups \ chained)' : Found(h)'
      BY <3>3 DEF Found
    <3>5. EntriesSafe'
      BY <1>2, <2>3, <2>5, <3>1, <3>2, <3>4, TidyIsSafe
    <3> QED
      BY <2>4, <3>5 DEF EntriesInv
  <2>7. CASE ~ (rep.failed \/ Chapters = 1)
    <3>1. PICK c : c = Consolidated(es, rep)
      OBVIOUS
    <3>2. Consolidates(rep, es, c)
      BY <2>1, <2>3, <3>1, ConsolidatedIs
    <3>3. c \in Seq(EntryRecord)
      BY <3>2 DEF Consolidates
    <3>4. /\ entries' \in Tidy(c)
          /\ owed' = IF rep.drop = {} THEN AnchorsOf(raw) ELSE {}
          /\ lookups' = {h \in Heads(raw) : rep.drop = {} /\ LookedUp(rep, es, h)}
          /\ chained' = {h \in lookups' : Chained(rep, es, h)}
      BY <1>5, <2>2, <2>7, <3>1 DEF FinishDraft
    <3>5. TidyIndex(c, entries')
      BY <3>3, <3>4, TidyIs
    <3>6. owed' \subseteq AnchorsOf(c)
      BY <2>3, <3>2, <3>4 DEF Consolidates
    <3>7. \A h \in (lookups \ chained)' : Found(h)'
      <4> SUFFICES ASSUME NEW h \in (lookups \ chained)' PROVE Found(h)'
        OBVIOUS
      <4>1. h \in Heads(es) /\ rep.drop = {} /\ LookedUp(rep, es, h) /\ ~ Chained(rep, es, h)
        BY <2>3, <3>4
      <4>2. \E g \in Heads(c) : g = h \/ SharesWord(h, g)
        BY <2>1, <2>3, <3>2, <4>1, FoundAgain
      <4>3. Heads(entries') = Heads(c)
        BY <3>5 DEF TidyIndex
      <4> QED
        BY <4>2, <4>3 DEF Found
    <3>8. EntriesSafe'
      BY <1>2, <2>5, <3>3, <3>5, <3>6, <3>7, TidyIsSafe
    <3> QED
      BY <2>4, <3>8 DEF EntriesInv
  <2> QED
    BY <2>6, <2>7
<1>6. ASSUME NEW body \in Edits(entries), PutBookIndex(body) PROVE EntriesInv'
  <2>1. body \in Seq(EntryRecord)
    BY <1>2, EditedIs
  <2>2. /\ entries' \in Tidy(body) /\ owed' = AnchorsOf(body) /\ lookups' = {}
        /\ saves' \in 0..MaxSaves /\ UNCHANGED <<raw, chapter>>
    BY <1>2, <1>3, <1>6 DEF PutBookIndex
  <2>3. TidyIndex(body, entries')
    BY <2>1, <2>2, TidyIs
  <2>4. EntriesSafe'
    BY <1>2, <2>1, <2>2, <2>3, TidyIsSafe
  <2> QED
    BY <1>1, <2>2, <2>4 DEF EntriesInv
<1>7. CASE UNCHANGED entryVars
  <2>1. UNCHANGED <<raw, chapter, entries, owed, lookups, chained, saves>>
    BY <1>7 DEF entryVars
  <2>2. EntriesTypeOK' /\ RefsProper' /\ AnchorsKept'
    BY <1>1, <2>1 DEF EntriesSafe, EntriesTypeOK, RefsProper, AnchorsKept
  <2>3. LookupsKept'
    BY <1>1, <2>1 DEF EntriesSafe, LookupsKept, Found
  <2> QED
    BY <1>1, <2>1, <2>2, <2>3 DEF EntriesInv, EntriesSafe
<1> QED
  BY <1>4, <1>5, <1>6, <1>7 DEF EntriesNext

LEMMA EntriesInvInductive == EntriesSpec => []EntriesInv
<1>1. EntriesInit => EntriesInv
  BY EntriesInitHolds
<1>2. EntriesInv /\ [EntriesNext]_entryVars => EntriesInv'
  BY EntriesStep
<1> QED
  BY <1>1, <1>2, PTL DEF EntriesSpec

\* The stored index is one a reader can follow, for every draft, every answer to
\* the consolidation call and every edit: its references lead to other headings
\* of it, no locator nobody dropped is missing, and a heading merged away in one
\* step is found under its wording or one that shares a word with it
\* (indexer.Tidy, consolidate; indexer/draft.go).
THEOREM EntriesAreSafe == EntriesSpec => []EntriesSafe
<1>1. EntriesInv => EntriesSafe
  BY DEF EntriesInv
<1> QED
  BY <1>1, EntriesInvInductive, PTL
=============================================================================
