------------------------- MODULE FactoryBuildProofs -------------------------
(***************************************************************************)
(* What TLAPS proves of FactoryBuild, for any number of books, projects    *)
(* and requests, and for every choice of events.                           *)
(***************************************************************************)
EXTENDS FactoryBuild, FiniteSetTheorems, TLAPS

-----------------------------------------------------------------------------
(* Type correctness.                                                       *)

\* The initial rows, locals and histories are well typed.
LEMMA TypeInit == Init => TypeOK
  BY FactoryAssumption
  DEF Init, TypeOK, Statuses, BuildKinds, Links, Steps, HandlerSteps, ClaimedSteps,
      BuildSteps, RefundSteps, EndSteps

\* Every statement, event and fault keeps the types.
LEMMA TypeStep == TypeOK /\ [Next]_vars => TypeOK'
<1> SUFFICES ASSUME TypeOK, [Next]_vars PROVE TypeOK'
  OBVIOUS
<1> USE FactoryAssumption
    DEF TypeOK, Job, Links, Statuses, BuildKinds, Steps, HandlerSteps,
        ClaimedSteps, BuildSteps, RefundSteps, EndSteps, Goto, Set,
        bookVars, passVars, history, audit, locals
<1>1. ASSUME NEW r \in Requests, NEW b \in Books, NEW k \in Kinds, NEW who \in Callers,
             GetBook(r, b, k, who)
      PROVE  TypeOK'
  BY <1>1 DEF GetBook, Present
<1>2. ASSUME NEW r \in Requests, Handler(r)
      PROVE  TypeOK'
  <2>1. CASE CheckAccess(r)
    <3>1. HasPass(job[r].proj) \in BOOLEAN
      BY Zenon DEF HasPass
    <3> QED
      BY <2>1, <3>1 DEF CheckAccess
  <2>2. CASE CheckInFlight(r)
    BY <2>2 DEF CheckInFlight
  <2>3. CASE Refuse(r)
    BY <2>3 DEF Refuse
  <2>4. CASE UpdateBookBuildKind(r)
    BY <2>4 DEF UpdateBookBuildKind
  <2>5. CASE ClaimBookForBuild(r)
    BY <2>5 DEF ClaimBookForBuild, AfterClaim
  <2>6. CASE ReserveBuildCredit(r)
    <3>1. CASE MayCharge(r)
      <4> DEFINE p == job[r].proj
      <4>1. p \in Links
        BY <2>6 DEF ReserveBuildCredit
      <4>2. used' \in [Projects -> Nat]
        BY <2>6, <3>1, <4>1 DEF ReserveBuildCredit
      <4>3. waived' \in [Projects -> Nat]
        BY <2>6, <3>1, <4>1 DEF ReserveBuildCredit
      <4>4. charged' \in [Requests -> Links]
        BY <2>6, <3>1, <4>1 DEF ReserveBuildCredit
      <4>5. pc' = [pc EXCEPT ![r] = "debitrow"]
        BY <2>6, <3>1 DEF ReserveBuildCredit
      <4> QED
        BY <2>6, <4>2, <4>3, <4>4, <4>5 DEF ReserveBuildCredit
    <3>2. CASE ~MayCharge(r)
      BY <2>6, <3>2 DEF ReserveBuildCredit
    <3> QED
      BY <3>1, <3>2
  <2>7. CASE DebitRow(r)
    BY <2>7 DEF DebitRow
  <2>8. CASE Unclaim(r)
    BY <2>8 DEF Unclaim
  <2> QED
    BY <1>2, <2>1, <2>2, <2>3, <2>4, <2>5, <2>6, <2>7, <2>8 DEF Handler
<1>3. ASSUME NEW r \in Requests, Build(r)
      PROVE  TypeOK'
  <2>1. CASE StoreOutput(r)
    BY <2>1 DEF StoreOutput
  <2>2. CASE ToolFails(r)
    BY <2>2 DEF ToolFails
  <2>3. CASE MarkReady(r)
    BY <2>3 DEF MarkReady
  <2>4. CASE MarkError(r)
    BY <2>4 DEF MarkError
  <2>5. CASE RereadBook(r)
    BY <2>5 DEF RereadBook
  <2>6. CASE LookupPass(r)
    BY <2>6 DEF LookupPass, HasPass
  <2>7. CASE RefundBuildCredit(r)
    BY <2>7 DEF RefundBuildCredit
  <2>8. CASE RefundRow(r)
    BY <2>8 DEF RefundRow
  <2> QED
    BY <1>3, <2>1, <2>2, <2>3, <2>4, <2>5, <2>6, <2>7, <2>8 DEF Build
<1>4. ASSUME NEW r \in Requests, AcquireBuildSlot(r) \/ Disconnect(r) \/ DBError(r)
      PROVE  TypeOK'
  BY <1>4 DEF AcquireBuildSlot, Disconnect, DBError
<1>5. CASE Environment
  <2>1. ASSUME NEW b \in Books, NEW p \in Links, UploadBook(b, p) \/ LinkBookProject(b, p)
        PROVE  TypeOK'
    BY <2>1 DEF UploadBook, LinkBookProject
  <2>2. ASSUME NEW b \in Books, DeleteBook(b)
        PROVE  TypeOK'
    BY <2>2 DEF DeleteBook
  <2>3. ASSUME NEW p \in Projects, AttachPass(p) \/ SetPassStatus(p)
        PROVE  TypeOK'
    BY <2>3 DEF AttachPass, SetPassStatus
  <2>4. ASSUME NEW p \in Projects, NEW n \in 1..MaxExtra, GrantPassBuilds(p, n) \/ AddPassExtras(p, n)
        PROVE  TypeOK'
    BY <2>4 DEF GrantPassBuilds, AddPassExtras
  <2>5. CASE SetFinalsGate
    BY <2>5 DEF SetFinalsGate
  <2>6. CASE Crash
    BY <2>6 DEF Crash
  <2> QED
    BY <1>5, <2>1, <2>2, <2>3, <2>4, <2>5, <2>6 DEF Environment
<1>6. CASE UNCHANGED vars
  BY <1>6 DEF vars
<1> QED
  BY <1>1, <1>2, <1>3, <1>4, <1>5, <1>6 DEF Next

\* Every column, local and history of the build keeps to its values.
THEOREM TypeCorrect == Spec => []TypeOK
  BY TypeInit, TypeStep, PTL DEF Spec

-----------------------------------------------------------------------------
(* The claim.  OneBuildPerBook is not inductive by itself: a second claim  *)
(* is refused because of the status, so the invariant must say that the    *)
(* status of a held book is still "converting".                            *)

Claimed == \A r \in Requests : Owns(r) => status[job[r].book] = "converting"

ClaimInv == Claimed /\ OneBuildPerBook

\* A step that starts no ownership and leaves the status of the books that
\* are still held keeps the invariant.
LEMMA ClaimFrame ==
  ASSUME TypeOK, ClaimInv,
         \A r \in Requests : Owns(r)' => Owns(r) /\ job'[r] = job[r],
         \A r \in Requests : Owns(r)' => status'[job[r].book] = status[job[r].book]
  PROVE  ClaimInv'
  BY DEF ClaimInv, Claimed, OneBuildPerBook

\* Releasing a book: its holder r writes any status and stops holding it.
LEMMA ClaimRelease ==
  ASSUME TypeOK, ClaimInv, NEW r \in Requests, NEW v, NEW step \in Steps,
         Owns(r), status' = Set(status, job[r].book, v), Goto(r, step),
         step \notin ClaimedSteps \cup {"queued"} \cup BuildSteps, job' = job
  PROVE  ClaimInv'
<1>1. \A s \in Requests : Owns(s)' => Owns(s) /\ s # r
  BY DEF Owns, Goto, TypeOK
<1>2. \A s \in Requests : Owns(s)' => job[s].book # job[r].book /\ job[s] \in Job
  BY <1>1 DEF ClaimInv, OneBuildPerBook, TypeOK, Owns, ClaimedSteps, BuildSteps
<1>3. \A s \in Requests : Owns(s)' => status'[job[s].book] = status[job[s].book]
  BY <1>2 DEF Set, TypeOK, Job
<1> QED
  BY <1>1, <1>3, ClaimFrame

\* Every statement, event and fault keeps the claim exclusive.
LEMMA ClaimStep == TypeOK /\ ClaimInv /\ [Next]_vars => ClaimInv'
<1> SUFFICES ASSUME TypeOK, ClaimInv, [Next]_vars PROVE ClaimInv'
  OBVIOUS
<1> USE DEF HandlerSteps, ClaimedSteps, BuildSteps, RefundSteps, EndSteps, Steps
<1>1. ASSUME NEW r \in Requests, NEW b \in Books, NEW k \in Kinds, NEW who \in Callers,
             GetBook(r, b, k, who)
      PROVE  ClaimInv'
  BY <1>1, ClaimFrame DEF GetBook, Goto, Owns, TypeOK, bookVars
<1>2. ASSUME NEW r \in Requests, Handler(r)
      PROVE  ClaimInv'
  <2>1. CASE CheckAccess(r) \/ CheckInFlight(r) \/ Refuse(r) \/ UpdateBookBuildKind(r)
    BY <2>1, ClaimFrame
    DEF CheckAccess, CheckInFlight, Refuse, UpdateBookBuildKind, Goto, Owns, TypeOK,
        bookVars, locals
  <2>2. CASE ClaimBookForBuild(r)
    <3>1. CASE Claimable(job[r].book)
      <4> DEFINE b == job[r].book
      <4>1. b \in Books /\ status[b] # "converting"
        BY <2>2, <3>1 DEF ClaimBookForBuild, Claimable, TypeOK, Job
      <4>2. /\ status' = [status EXCEPT ![b] = "converting"]
            /\ pc' = [pc EXCEPT ![r] = AfterClaim(r)]
            /\ job' = job
        BY <2>2, <3>1 DEF ClaimBookForBuild, Goto, locals
      <4>3. \A s \in Requests : s # r /\ Owns(s)' => Owns(s) /\ job[s].book # b /\ job[s].book \in Books
        BY <4>1, <4>2 DEF Owns, ClaimInv, Claimed, TypeOK, Job
      <4> QED
        BY <4>1, <4>2, <4>3 DEF ClaimInv, Claimed, OneBuildPerBook, TypeOK
    <3>2. CASE ~Claimable(job[r].book)
      BY <2>2, <3>2, ClaimFrame DEF ClaimBookForBuild, Goto, Owns, TypeOK, locals
    <3> QED
      BY <3>1, <3>2
  <2>3. CASE ReserveBuildCredit(r) \/ DebitRow(r)
    BY <2>3, ClaimFrame DEF ReserveBuildCredit, DebitRow, Goto, Owns, TypeOK, bookVars, locals
  <2>4. CASE Unclaim(r)
    BY <2>4, ClaimRelease DEF Unclaim, Owns, locals
  <2> QED
    BY <1>2, <2>1, <2>2, <2>3, <2>4 DEF Handler
<1>3. ASSUME NEW r \in Requests, Build(r)
      PROVE  ClaimInv'
  <2>1. CASE MarkReady(r)
    BY <2>1, ClaimRelease DEF MarkReady, Owns, locals
  <2>2. CASE MarkError(r)
    BY <2>2, ClaimRelease DEF MarkError, Owns, locals
  <2>3. CASE StoreOutput(r) \/ ToolFails(r)
    BY <2>3, ClaimFrame DEF StoreOutput, ToolFails, Goto, Owns, TypeOK, bookVars, locals
  <2>4. CASE RereadBook(r) \/ LookupPass(r) \/ RefundBuildCredit(r) \/ RefundRow(r)
    BY <2>4, ClaimFrame
    DEF RereadBook, LookupPass, RefundBuildCredit, RefundRow, Goto, Owns, TypeOK, bookVars, locals
  <2> QED
    BY <1>3, <2>1, <2>2, <2>3, <2>4 DEF Build
<1>4. ASSUME NEW r \in Requests, AcquireBuildSlot(r) \/ Disconnect(r) \/ DBError(r)
      PROVE  ClaimInv'
  BY <1>4, ClaimFrame DEF AcquireBuildSlot, Disconnect, DBError, Goto, Owns, TypeOK, bookVars, locals
<1>5. CASE Environment
  BY <1>5, ClaimFrame
  DEF Environment, UploadBook, LinkBookProject, DeleteBook, AttachPass, GrantPassBuilds,
      AddPassExtras, SetPassStatus, SetFinalsGate, Crash, Owns, TypeOK, bookVars, locals
<1>6. CASE UNCHANGED vars
  BY <1>6, ClaimFrame DEF vars, Owns, bookVars, locals
<1> QED
  BY <1>1, <1>2, <1>3, <1>4, <1>5, <1>6 DEF Next

\* Two POSTs never build the same book at the same time, for any number of
\* requests and whatever is administered, deleted, lost or restarted.
THEOREM BookExclusion == Spec => []OneBuildPerBook
<1>1. Init => ClaimInv
  BY DEF Init, ClaimInv, Claimed, OneBuildPerBook, Owns, ClaimedSteps, BuildSteps
<1>2. ClaimInv => OneBuildPerBook
  BY DEF ClaimInv
<1> QED
  BY <1>1, <1>2, ClaimStep, TypeCorrect, PTL DEF Spec

-----------------------------------------------------------------------------
(* Who ends a build.                                                       *)

\* Only the statements that give a book up change a "converting" status.
LEMMA ReleaseStepHolds == TypeOK /\ [Next]_vars => [ReleaseStep]_vars
<1> SUFFICES ASSUME TypeOK, Next PROVE ReleaseStep
  OBVIOUS
<1> USE DEF HandlerSteps, ClaimedSteps, BuildSteps, RefundSteps, EndSteps, Steps
<1>1. ASSUME NEW r \in Requests, NEW v, NEW step \in {"refused", "delivered", "reread"},
             Owns(r), status' = Set(status, job[r].book, v), Goto(r, step)
      PROVE  ReleaseStep
  <2>1. ~Owns(r)' /\ job[r].book \in Books
    BY <1>1 DEF Owns, Goto, TypeOK, Job
  <2>2. \A b \in Books : b # job[r].book => status'[b] = status[b]
    BY <1>1, <2>1 DEF Set, TypeOK
  <2> QED
    BY <1>1, <2>1, <2>2 DEF ReleaseStep
<1>2. ASSUME NEW r \in Requests, Unclaim(r) \/ MarkReady(r) \/ MarkError(r)
      PROVE  ReleaseStep
  BY <1>1, <1>2 DEF Unclaim, MarkReady, MarkError, Owns
<1>3. ASSUME NEW r \in Requests, ClaimBookForBuild(r)
      PROVE  ReleaseStep
  BY <1>3 DEF ClaimBookForBuild, ReleaseStep, TypeOK
<1>4. CASE status' = status
  BY <1>4 DEF ReleaseStep
<1>5. ASSUME NEW r \in Requests, NEW b \in Books, NEW k \in Kinds, NEW who \in Callers,
             GetBook(r, b, k, who)
      PROVE  status' = status
  BY <1>5 DEF GetBook, bookVars
<1>6. ASSUME NEW r \in Requests,
             \/ CheckAccess(r) \/ CheckInFlight(r) \/ Refuse(r) \/ UpdateBookBuildKind(r)
             \/ ReserveBuildCredit(r) \/ DebitRow(r)
      PROVE  status' = status
  BY <1>6 DEF CheckAccess, CheckInFlight, Refuse, UpdateBookBuildKind, ReserveBuildCredit,
              DebitRow, bookVars
<1>7. ASSUME NEW r \in Requests,
             \/ AcquireBuildSlot(r) \/ Disconnect(r) \/ DBError(r)
             \/ StoreOutput(r) \/ ToolFails(r) \/ RereadBook(r)
             \/ LookupPass(r) \/ RefundBuildCredit(r) \/ RefundRow(r)
      PROVE  status' = status
  BY <1>7 DEF AcquireBuildSlot, Disconnect, DBError, StoreOutput, ToolFails, RereadBook,
              LookupPass, RefundBuildCredit, RefundRow, bookVars
<1>8. CASE Environment
  BY <1>8, <1>4 DEF Environment, UploadBook, LinkBookProject, DeleteBook, AttachPass,
      GrantPassBuilds, AddPassExtras, SetPassStatus, SetFinalsGate, Crash, bookVars
<1> QED
  BY <1>2, <1>3, <1>4, <1>5, <1>6, <1>7, <1>8 DEF Next, Handler, Build

\* No late write of another request, of an administrator or of a fault ends
\* the build of a book: only the request that claimed it does.
THEOREM OwnerReleases == Spec => ReleasedByOwner
  BY ReleaseStepHolds, TypeCorrect, PTL DEF Spec, ReleasedByOwner

-----------------------------------------------------------------------------
(* One build per project, when no book is moved to another project.  The   *)
(* claim looks at the rows, not at the requests, so the invariant is about *)
(* rows: two converting books never share a project.                       *)

ConvertingAlone ==
  \A b, c \in Books :
    b # c /\ Present(b) /\ Present(c) /\ status[b] = "converting" /\ status[c] = "converting"
      => proj[b] # proj[c] \/ proj[b] = NoProject

AbsentIdle == \A b \in Books : row[b] = "absent" => status[b] # "converting"

ProjectInv == ConvertingAlone /\ AbsentIdle

\* A step that adds no row, moves no book and starts no conversion.
LEMMA ProjectFrame ==
  ASSUME TypeOK, ProjectInv, proj' = proj,
         \A b \in Books : row'[b] = "present" => row[b] = "present",
         \A b \in Books : row'[b] = "absent" => row[b] = "absent" /\ status'[b] = status[b],
         \A b \in Books : status'[b] = "converting" => status[b] = "converting"
  PROVE  ProjectInv'
  BY DEF ProjectInv, ConvertingAlone, AbsentIdle, Present

\* Writing a status through a claim that is held starts no conversion.
LEMMA ProjectRelease ==
  ASSUME TypeOK, ProjectInv, Claimed, NEW r \in Requests, NEW v, Owns(r),
         status' = Set(status, job[r].book, v), proj' = proj, row' = row
  PROVE  ProjectInv'
<1>1. job[r].book \in Books /\ status[job[r].book] = "converting"
  BY DEF Claimed, TypeOK, Job, Owns, ClaimedSteps, BuildSteps
<1>2. \A b \in Books : /\ status'[b] = "converting" => status[b] = "converting"
                       /\ row[b] = "absent" => status'[b] = status[b]
  BY <1>1 DEF Set, TypeOK, Present
<1> QED
  BY <1>2, ProjectFrame

\* Every step but a link keeps the projects exclusive.
LEMMA ProjectStep ==
  ASSUME "link" \notin Events
  PROVE  TypeOK /\ Claimed /\ ProjectInv /\ [Next]_vars => ProjectInv'
<1> SUFFICES ASSUME TypeOK, Claimed, ProjectInv, [Next]_vars PROVE ProjectInv'
  OBVIOUS
<1>1. ASSUME row' = row, status' = status, proj' = proj
      PROVE  ProjectInv'
  BY <1>1, ProjectFrame
<1>2. ASSUME NEW r \in Requests, Unclaim(r) \/ MarkReady(r) \/ MarkError(r)
      PROVE  ProjectInv'
  BY <1>2, ProjectRelease DEF Unclaim, MarkReady, MarkError, Owns, ClaimedSteps, BuildSteps
<1>3. ASSUME NEW r \in Requests, ClaimBookForBuild(r)
      PROVE  ProjectInv'
  <2>1. CASE Claimable(job[r].book)
    <3> DEFINE b == job[r].book
    <3>1. /\ b \in Books
          /\ status' = [status EXCEPT ![b] = "converting"]
          /\ row' = row /\ proj' = proj
      BY <1>3, <2>1 DEF ClaimBookForBuild, TypeOK, Job
    <3>2. \A c \in Books : c # b => status'[c] = status[c]
      BY <3>1 DEF TypeOK
    <3>3. \A c \in Books : Present(c) /\ c # b /\ status[c] = "converting"
            => proj[c] # proj[b] \/ proj[c] = NoProject
      BY <2>1 DEF Claimable
    <3>4. ConvertingAlone'
      BY <3>1, <3>2, <3>3 DEF ProjectInv, ConvertingAlone, Present
    <3>5. AbsentIdle'
      BY <2>1, <3>1, <3>2 DEF ProjectInv, AbsentIdle, Claimable, Present
    <3> QED
      BY <3>4, <3>5 DEF ProjectInv
  <2>2. CASE ~Claimable(job[r].book)
    BY <1>1, <1>3, <2>2 DEF ClaimBookForBuild
  <2> QED
    BY <2>1, <2>2
<1>4. ASSUME NEW b \in Books, NEW p \in Links, UploadBook(b, p)
      PROVE  ProjectInv'
  <2>1. status' = status /\ status[b] # "converting"
    BY <1>4 DEF UploadBook, ProjectInv, AbsentIdle
  <2>2. \A c \in Books : c # b => row'[c] = row[c] /\ proj'[c] = proj[c]
    BY <1>4 DEF UploadBook, TypeOK
  <2>3. row'[b] = "present"
    BY <1>4 DEF UploadBook, TypeOK
  <2> QED
    BY <2>1, <2>2, <2>3 DEF ProjectInv, ConvertingAlone, AbsentIdle, Present
<1>5. ASSUME NEW b \in Books, DeleteBook(b)
      PROVE  ProjectInv'
  BY <1>5, ProjectFrame DEF DeleteBook, TypeOK
<1>6. ASSUME NEW r \in Requests,
             \/ Refuse(r) \/ CheckAccess(r) \/ CheckInFlight(r) \/ UpdateBookBuildKind(r)
             \/ ReserveBuildCredit(r) \/ DebitRow(r)
             \/ AcquireBuildSlot(r) \/ Disconnect(r) \/ DBError(r)
             \/ StoreOutput(r) \/ ToolFails(r) \/ RereadBook(r)
             \/ LookupPass(r) \/ RefundBuildCredit(r) \/ RefundRow(r)
      PROVE  ProjectInv'
  BY <1>1, <1>6
  DEF Refuse, CheckAccess, CheckInFlight, UpdateBookBuildKind, ReserveBuildCredit, DebitRow,
      AcquireBuildSlot, Disconnect, DBError, StoreOutput, ToolFails, RereadBook, LookupPass,
      RefundBuildCredit, RefundRow, bookVars
<1>7. CASE \/ \E r \in Requests, b \in Books, k \in Kinds, who \in Callers : GetBook(r, b, k, who)
           \/ \E p \in Projects : AttachPass(p) \/ SetPassStatus(p)
           \/ \E p \in Projects, n \in 1..MaxExtra : GrantPassBuilds(p, n) \/ AddPassExtras(p, n)
           \/ SetFinalsGate \/ Crash
  BY <1>1, <1>7 DEF GetBook, AttachPass, SetPassStatus, GrantPassBuilds, AddPassExtras,
      SetFinalsGate, Crash, bookVars
<1>8. \A b \in Books, p \in Links : ~LinkBookProject(b, p)
  BY DEF LinkBookProject
<1>9. CASE UNCHANGED vars
  BY <1>1, <1>9 DEF vars, bookVars
<1> QED
  BY <1>2, <1>3, <1>4, <1>5, <1>6, <1>7, <1>8, <1>9 DEF Next, Handler, Build, Environment

\* As long as no book is linked to another project, a project has at most one
\* build in flight, whoever asks and whatever fails.
THEOREM ProjectExclusion ==
  ASSUME "link" \notin Events
  PROVE  Spec => []OneBuildPerProject
<1>1. Init => ProjectInv /\ ClaimInv
  BY DEF Init, ProjectInv, ConvertingAlone, AbsentIdle, Present, ClaimInv, Claimed,
         OneBuildPerBook, Owns, ClaimedSteps, BuildSteps
<1>2. TypeOK /\ ClaimInv /\ ProjectInv => OneBuildPerProject
  BY DEF ProjectInv, ConvertingAlone, ClaimInv, Claimed, OneBuildPerBook, OneBuildPerProject,
         TypeOK, Job, Owns, ClaimedSteps, BuildSteps
<1>3. TypeOK /\ ClaimInv /\ ProjectInv /\ [Next]_vars => ProjectInv'
  BY ProjectStep DEF ClaimInv
<1> QED
  BY <1>1, <1>2, <1>3, ClaimStep, TypeCorrect, PTL DEF Spec

-----------------------------------------------------------------------------
(* The balance.                                                            *)

\* Reservations, refunds and grants, the three statements that move the
\* balance, keep it within the allowance.
LEMMA SpendStep == TypeOK /\ NoOverspend /\ [Next]_vars => NoOverspend'
<1> SUFFICES ASSUME TypeOK, NoOverspend, [Next]_vars PROVE NoOverspend'
  OBVIOUS
<1> USE FactoryAssumption DEF NoOverspend, Allowance, TypeOK
<1>1. ASSUME used' = used, extra' = extra, waived' = waived
      PROVE  NoOverspend'
  BY <1>1
<1>2. ASSUME NEW r \in Requests, ReserveBuildCredit(r)
      PROVE  NoOverspend'
  <2>1. CASE MayCharge(r)
    <3> DEFINE p == job[r].proj
    <3>1. /\ used' = [used EXCEPT ![p] = @ + 1]
          /\ waived' = [waived EXCEPT ![p] = IF BalanceChecked(r) THEN @ ELSE @ + 1]
          /\ extra' = extra
      BY <1>2, <2>1 DEF ReserveBuildCredit
    <3>2. CASE BalanceChecked(r)
      <4>1. used[p] < BuildsIncluded + extra[p]
        BY <2>1, <3>2 DEF MayCharge, HasCredits
      <4>2. waived' = waived
        BY <3>1, <3>2
      <4> QED
        BY <3>1, <4>1, <4>2
    <3>3. CASE ~BalanceChecked(r)
      <4>1. waived' = [waived EXCEPT ![p] = @ + 1]
        BY <3>1, <3>3
      <4> QED
        BY <3>1, <4>1
    <3> QED
      BY <3>2, <3>3
  <2>2. CASE ~MayCharge(r)
    BY <1>1, <1>2, <2>2 DEF ReserveBuildCredit
  <2> QED
    BY <2>1, <2>2
<1>3. ASSUME NEW r \in Requests, RefundBuildCredit(r)
      PROVE  NoOverspend'
  BY <1>3 DEF RefundBuildCredit
<1>4. ASSUME NEW p \in Projects, NEW n \in 1..MaxExtra, GrantPassBuilds(p, n) \/ AddPassExtras(p, n)
      PROVE  NoOverspend'
  BY <1>4 DEF GrantPassBuilds, AddPassExtras
<1>5. ASSUME NEW r \in Requests,
             \/ CheckAccess(r) \/ CheckInFlight(r) \/ Refuse(r) \/ UpdateBookBuildKind(r)
             \/ ClaimBookForBuild(r) \/ DebitRow(r) \/ Unclaim(r)
             \/ AcquireBuildSlot(r) \/ Disconnect(r) \/ DBError(r)
             \/ StoreOutput(r) \/ ToolFails(r) \/ MarkReady(r) \/ MarkError(r)
             \/ RereadBook(r) \/ LookupPass(r) \/ RefundRow(r)
      PROVE  NoOverspend'
  BY <1>1, <1>5
  DEF CheckAccess, CheckInFlight, Refuse, UpdateBookBuildKind, ClaimBookForBuild, DebitRow,
      Unclaim, AcquireBuildSlot, Disconnect, DBError, StoreOutput, ToolFails, MarkReady,
      MarkError, RereadBook, LookupPass, RefundRow, passVars, history
<1>6. CASE \/ \E r \in Requests, b \in Books, k \in Kinds, who \in Callers : GetBook(r, b, k, who)
           \/ \E b \in Books, p \in Links : UploadBook(b, p) \/ LinkBookProject(b, p)
           \/ \E b \in Books : DeleteBook(b)
           \/ \E p \in Projects : AttachPass(p) \/ SetPassStatus(p)
           \/ SetFinalsGate \/ Crash
  BY <1>1, <1>6
  DEF GetBook, UploadBook, LinkBookProject, DeleteBook, AttachPass, SetPassStatus,
      SetFinalsGate, Crash, passVars, history
<1>7. CASE UNCHANGED vars
  BY <1>1, <1>7 DEF vars, passVars, history
<1> QED
  BY <1>2, <1>3, <1>4, <1>5, <1>6, <1>7 DEF Next, Handler, Build, Environment

\* Whatever interleaves, no pass is charged beyond its allowance by a build
\* that had to have a credit.
THEOREM BalanceKept == Spec => []NoOverspend
<1>1. Init => NoOverspend
  BY FactoryAssumption DEF Init, NoOverspend, Allowance
<1> QED
  BY <1>1, SpendStep, TypeCorrect, PTL DEF Spec

-----------------------------------------------------------------------------
(* Refunds.  failConversionAt reads the books row again and refunds what it *)
(* says then.  RowsInv says how long the row agrees with what the handler  *)
(* charged for: until the book moves or gets a pass, and until a POST of   *)
(* the other kind rewrites build_kind.                                     *)

\* From the access check on, the handler knows whether there is a pass.
Checked(r) == pc[r] \notin {"new", "access", "refused", "lost"}

\* build_kind has been written by this request.
Recorded(r) == Checked(r) /\ pc[r] \notin {"inflight", "record"}

\* The charge is behind us and was not given up.
Started(r) == pc[r] \in {"queued", "delivered", "failed"} \cup BuildSteps \cup RefundSteps

Settled(r) == job[r].book \notin moved

RowOf(r) ==
  pc[r] # "new" =>
    /\ row[job[r].book] # "absent"
    /\ Settled(r) => proj[job[r].book] = job[r].proj
    /\ Settled(r) /\ Checked(r) => (paying[r] <=> HasPass(job[r].proj))
    /\ ~OtherKindAsked(r) /\ Recorded(r) /\ Present(job[r].book) => kind[job[r].book] = job[r].kind

RowsInv == \A r \in Requests : RowOf(r)

\* What a request was charged and repaid, and what became of its rows.
ChargeOf(r) ==
  /\ pc[r] \in {"new", "access"} => ~paying[r]
  /\ paying[r] => job[r].proj \in Projects
  /\ pc[r] \in {"new", "reserve"} \cup HandlerSteps => charged[r] = NoProject
  /\ pc[r] \in {"reserve", "debitrow"} => paying[r] /\ job[r].kind = "final"
  /\ pc[r] = "debitrow" => charged[r] = job[r].proj
  /\ charged[r] # NoProject => charged[r] = job[r].proj /\ job[r].kind = "final"
  /\ charged[r] # NoProject => paying[r]
  /\ Started(r) /\ paying[r] /\ job[r].kind = "final" => charged[r] = job[r].proj
  /\ repaid[r] # NoProject => pc[r] \in {"refundrow", "failed", "lost"}
  /\ pc[r] = "refundrow" => repaid[r] = refund[r] /\ repaid[r] \in Projects
  /\ pc[r] = "lookup" /\ ~OtherKindAsked(r) /\ Settled(r)
       => refund[r] = job[r].proj /\ job[r].kind = "final"
  /\ pc[r] = "refund" /\ ~OtherKindAsked(r) /\ Settled(r) => refund[r] = charged[r]
  /\ r \in stored => /\ pc[r] \in BuildSteps \cup RefundSteps \cup {"delivered", "failed", "lost"}
                     /\ paying[r] /\ job[r].kind = "final" => charged[r] = job[r].proj
  /\ r \in unposted => \/ repaid[r] # NoProject /\ pc[r] \in {"failed", "lost"}
                       \/ repaid[r] = NoProject /\ charged[r] # NoProject
                            /\ pc[r] \in {"unclaim", "refused", "lost"}
  /\ repaid[r] # NoProject /\ repaid[r] # charged[r] => OtherKindAsked(r) \/ ~Settled(r)

ChargeInv == \A r \in Requests : ChargeOf(r)

\* A request once asked, and a book once moved, stay so.
LEMMA CausesStay ==
  ASSUME TypeOK, [Next]_vars
  PROVE  /\ moved \subseteq moved'
         /\ \A r \in Requests : pc[r] # "new" => pc'[r] # "new" /\ job'[r] = job[r]
<1> USE FactoryAssumption
    DEF TypeOK, Goto, HandlerSteps, ClaimedSteps, BuildSteps, RefundSteps,
        EndSteps, Steps, locals, history, audit
<1>1. ASSUME NEW r \in Requests, NEW b \in Books, NEW k \in Kinds, NEW who \in Callers,
             GetBook(r, b, k, who)
      PROVE  /\ moved \subseteq moved'
             /\ \A s \in Requests : pc[s] # "new" => pc'[s] # "new" /\ job'[s] = job[s]
  BY <1>1 DEF GetBook
<1>2. ASSUME NEW r \in Requests, Handler(r)
      PROVE  /\ moved \subseteq moved'
             /\ \A s \in Requests : pc[s] # "new" => pc'[s] # "new" /\ job'[s] = job[s]
  <2>1. CASE ClaimBookForBuild(r)
    BY <2>1 DEF ClaimBookForBuild, AfterClaim
  <2>2. CASE ~ClaimBookForBuild(r)
    BY <1>2, <2>2 DEF Handler, CheckAccess, CheckInFlight, Refuse, UpdateBookBuildKind,
              ReserveBuildCredit, DebitRow, Unclaim
  <2> QED
    BY <2>1, <2>2
<1>3. ASSUME NEW r \in Requests, Build(r)
      PROVE  /\ moved \subseteq moved'
             /\ \A s \in Requests : pc[s] # "new" => pc'[s] # "new" /\ job'[s] = job[s]
  BY <1>3 DEF Build, StoreOutput, ToolFails, MarkReady, MarkError, RereadBook, LookupPass,
              RefundBuildCredit, RefundRow
<1>4. ASSUME NEW r \in Requests, AcquireBuildSlot(r) \/ Disconnect(r) \/ DBError(r)
      PROVE  /\ moved \subseteq moved'
             /\ \A s \in Requests : pc[s] # "new" => pc'[s] # "new" /\ job'[s] = job[s]
  BY <1>4 DEF AcquireBuildSlot, Disconnect, DBError
<1>5. CASE Environment
  BY <1>5 DEF Environment, UploadBook, LinkBookProject, DeleteBook, AttachPass, SetPassStatus,
              GrantPassBuilds, AddPassExtras, SetFinalsGate, Crash
<1>6. CASE UNCHANGED vars
  BY <1>6 DEF vars
<1> QED
  BY <1>1, <1>2, <1>3, <1>4, <1>5, <1>6 DEF Next

\* What excuses a refund excuses it for good.
LEMMA ExcusesStay ==
  ASSUME TypeOK, [Next]_vars, NEW r \in Requests, pc[r] # "new"
  PROVE  (~OtherKindAsked(r)' => ~OtherKindAsked(r)) /\ (Settled(r)' => Settled(r))
BY CausesStay DEF OtherKindAsked, Settled

\* The row and the pass agree with the locals as long as RowsInv says.
LEMMA RowsStep == TypeOK /\ RowsInv /\ ChargeInv /\ [Next]_vars => RowsInv'
<1> SUFFICES ASSUME TypeOK, RowsInv, ChargeInv, [Next]_vars PROVE RowsInv'
  OBVIOUS
<1> USE FactoryAssumption
    DEF Job, Links, Goto, HandlerSteps, ClaimedSteps, BuildSteps, RefundSteps,
        EndSteps, Steps, bookVars, passVars, locals, history, audit
<1>a. ASSUME NEW r \in Requests, pc[r] # "new", pc'[r] # "new", job'[r] = job[r], paying'[r] = paying[r],
             Checked(r)' => Checked(r), Recorded(r)' => Recorded(r),
             job[r].book \in Books, job[r].proj \in Links,
             row'[job[r].book] # "absent", Present(job[r].book)' => Present(job[r].book),
             Settled(r)' => proj'[job[r].book] = proj[job[r].book]
                              /\ (HasPass(job[r].proj)' <=> HasPass(job[r].proj)),
             Recorded(r) /\ Present(job[r].book) /\ ~OtherKindAsked(r) /\ kind[job[r].book] = job[r].kind
               => kind'[job[r].book] = job[r].kind
      PROVE  RowOf(r)'
  <2>1. (~OtherKindAsked(r)' => ~OtherKindAsked(r)) /\ (Settled(r)' => Settled(r))
    BY <1>a, ExcusesStay
  <2>2. RowOf(r)
    BY DEF RowsInv
  <2> QED
    BY <1>a, <2>1, <2>2 DEF RowOf
<1>b. \A r \in Requests : pc[r] # "new" => job[r].book \in Books /\ job[r].proj \in Links
                                             /\ row[job[r].book] # "absent"
  BY DEF TypeOK, RowsInv, RowOf
<1>c. ASSUME row' = row, proj' = proj, kind' = kind, job' = job, paying' = paying, pass' = pass,
             \A s \in Requests : /\ Checked(s)' => Checked(s)
                                 /\ Recorded(s)' => Recorded(s)
                                 /\ pc'[s] # "new" => pc[s] # "new"
      PROVE  RowsInv'
  <2> SUFFICES ASSUME NEW s \in Requests, pc'[s] # "new" PROVE RowOf(s)'
    BY DEF RowsInv, RowOf
  <2>1. pc[s] # "new"
    BY <1>c
  <2> QED
    BY <1>a, <1>b, <1>c, <2>1 DEF Present, HasPass
<1>1. ASSUME NEW r \in Requests, NEW b \in Books, NEW k \in Kinds, NEW who \in Callers,
             GetBook(r, b, k, who)
      PROVE  RowsInv'
  <2>1. /\ job'[r].book = b /\ job'[r].proj = proj[b]
        /\ row[b] = "present" /\ pc'[r] = "access" /\ pc[r] = "new"
    BY <1>1 DEF GetBook, Present, TypeOK
  <2>2. \A s \in Requests : s # r => job'[s] = job[s] /\ pc'[s] = pc[s]
    BY <1>1 DEF GetBook, TypeOK
  <2>3. row' = row /\ proj' = proj /\ pass' = pass /\ paying' = paying /\ kind' = kind
    BY <1>1 DEF GetBook
  <2>4. RowOf(r)'
    BY <2>1, <2>3 DEF RowOf, Checked, Recorded, Settled
  <2>5. ASSUME NEW s \in Requests, s # r PROVE RowOf(s)'
    <3>1. CASE pc[s] = "new"
      BY <2>2, <2>5, <3>1 DEF RowOf
    <3>2. CASE pc[s] # "new"
      BY <1>a, <1>b, <2>2, <2>3, <2>5, <3>2 DEF Present, HasPass, Checked, Recorded
    <3> QED
      BY <3>1, <3>2
  <2> QED
    BY <2>4, <2>5 DEF RowsInv
<1>2. ASSUME NEW r \in Requests, CheckAccess(r)
      PROVE  RowsInv'
  <2>1. CASE MayBuild(job[r])
    <3>1. /\ pc' = [pc EXCEPT ![r] = "inflight"] /\ job' = job /\ pc[r] = "access"
          /\ row' = row /\ proj' = proj /\ pass' = pass /\ kind' = kind /\ moved' = moved
          /\ paying' = [paying EXCEPT ![r] = HasPass(job[r].proj)]
      BY <1>2, <2>1 DEF CheckAccess
    <3>2. paying'[r] <=> HasPass(job[r].proj)'
      BY <3>1 DEF TypeOK, HasPass
    <3>3. \A s \in Requests : s # r => paying'[s] = paying[s] /\ pc'[s] = pc[s]
      BY <3>1 DEF TypeOK
    <3>4. RowOf(r)'
      <4>1. RowOf(r)
        BY DEF RowsInv
      <4>2. pc'[r] = "inflight"
        BY <3>1 DEF TypeOK
      <4>3. ~Recorded(r)'
        BY <4>2 DEF Recorded
      <4> QED
        BY <3>1, <3>2, <4>1, <4>2, <4>3 DEF RowOf, Settled
    <3>5. ASSUME NEW s \in Requests, s # r PROVE RowOf(s)'
      <4>1. CASE pc[s] = "new"
        BY <3>3, <3>5, <4>1 DEF RowOf
      <4>2. CASE pc[s] # "new"
        BY <1>a, <1>b, <3>1, <3>3, <3>5, <4>2 DEF Present, HasPass, Checked, Recorded
      <4> QED
        BY <4>1, <4>2
    <3> QED
      BY <3>4, <3>5 DEF RowsInv
  <2>2. CASE ~MayBuild(job[r])
    BY <1>c, <1>2, <2>2 DEF CheckAccess, Checked, Recorded, TypeOK
  <2> QED
    BY <2>1, <2>2
<1>3. ASSUME NEW r \in Requests,
             \/ CheckInFlight(r) \/ Refuse(r)
             \/ ReserveBuildCredit(r) \/ DebitRow(r) \/ Unclaim(r)
      PROVE  RowsInv'
  BY <1>c, <1>3 DEF CheckInFlight, Refuse, ReserveBuildCredit, DebitRow,
      Unclaim, Checked, Recorded, TypeOK
<1>4. ASSUME NEW r \in Requests, ClaimBookForBuild(r)
      PROVE  RowsInv'
  BY <1>c, <1>4 DEF ClaimBookForBuild, AfterClaim, Checked, Recorded, TypeOK
<1>5. ASSUME NEW r \in Requests, UpdateBookBuildKind(r)
      PROVE  RowsInv'
  <2> DEFINE b == job[r].book
  <2>1. /\ pc[r] = "record" /\ pc'[r] = "claim" /\ b \in Books
        /\ kind' = Set(kind, b, job[r].kind)
        /\ row' = row /\ proj' = proj /\ pass' = pass /\ job' = job /\ paying' = paying
        /\ moved' = moved
    BY <1>5, <1>b DEF UpdateBookBuildKind, TypeOK
  <2>2. \A s \in Requests : s # r => pc'[s] = pc[s]
    BY <1>5 DEF UpdateBookBuildKind, TypeOK
  <2>3. /\ Present(b) => kind'[b] = job[r].kind
        /\ \A c \in Books : c # b => kind'[c] = kind[c]
    BY <2>1 DEF Set, TypeOK
  <2>4. RowOf(r)'
    <3>1. RowOf(r) /\ Checked(r) /\ pc'[r] # "new"
      BY <2>1 DEF RowsInv, Checked
    <3> QED
      BY <2>1, <2>3, <3>1 DEF RowOf, Settled, Present, HasPass
  <2>5. ASSUME NEW s \in Requests, s # r PROVE RowOf(s)'
    <3>1. CASE pc[s] = "new"
      BY <2>2, <2>5, <3>1 DEF RowOf
    <3>2. CASE pc[s] # "new"
      <4>1. job[s].book = b /\ ~OtherKindAsked(s) => job[r].kind = job[s].kind
        BY <2>1 DEF OtherKindAsked
      <4>2. Present(job[s].book) /\ ~OtherKindAsked(s) /\ kind[job[s].book] = job[s].kind
              => kind'[job[s].book] = job[s].kind
        BY <1>b, <2>3, <3>2, <4>1
      <4> QED
        BY <1>a, <1>b, <2>1, <2>2, <2>5, <3>2, <4>2 DEF Present, HasPass, Checked, Recorded
    <3> QED
      BY <3>1, <3>2
  <2> QED
    BY <2>4, <2>5 DEF RowsInv
<1>6. ASSUME NEW r \in Requests,
             \/ StoreOutput(r) \/ ToolFails(r) \/ MarkReady(r) \/ MarkError(r)
             \/ RereadBook(r) \/ LookupPass(r) \/ RefundBuildCredit(r) \/ RefundRow(r)
      PROVE  RowsInv'
  BY <1>c, <1>6 DEF StoreOutput, ToolFails, MarkReady, MarkError, RereadBook, LookupPass,
      RefundBuildCredit, RefundRow, Checked, Recorded, TypeOK
<1>7. ASSUME NEW r \in Requests, AcquireBuildSlot(r) \/ Disconnect(r) \/ DBError(r)
      PROVE  RowsInv'
  BY <1>c, <1>7 DEF AcquireBuildSlot, Disconnect, DBError, Checked, Recorded, TypeOK
<1>8. ASSUME pc' = pc, job' = job, paying' = paying, kind' = kind,
             \A s \in Requests : pc[s] # "new" =>
               /\ row'[job[s].book] # "absent"
               /\ row'[job[s].book] = "present" => row[job[s].book] = "present"
               /\ Settled(s)' => proj'[job[s].book] = proj[job[s].book]
                                   /\ (HasPass(job[s].proj)' <=> HasPass(job[s].proj))
      PROVE  RowsInv'
  <2> SUFFICES ASSUME NEW s \in Requests, pc[s] # "new" PROVE RowOf(s)'
    BY <1>8 DEF RowsInv, RowOf
  <2> QED
    BY <1>a, <1>b, <1>8 DEF Present, Checked, Recorded
<1>9. ASSUME NEW b \in Books, NEW p \in Links, UploadBook(b, p)
      PROVE  RowsInv'
  <2>1. \A s \in Requests : pc[s] # "new" => job[s].book # b /\ job[s].book \in Books
    BY <1>9, <1>b DEF UploadBook
  <2>2. \A c \in Books : c # b => row'[c] = row[c] /\ proj'[c] = proj[c]
    BY <1>9 DEF UploadBook, TypeOK
  <2>3. pc' = pc /\ job' = job /\ paying' = paying /\ kind' = kind /\ pass' = pass
    BY <1>9 DEF UploadBook
  <2> QED
    BY <1>8, <1>b, <2>1, <2>2, <2>3 DEF HasPass
<1>10. ASSUME NEW b \in Books, DeleteBook(b)
      PROVE  RowsInv'
  <2>1. \A c \in Books : row'[c] = row[c] \/ row'[c] = "deleted"
    BY <1>10 DEF DeleteBook, TypeOK
  <2>2. pc' = pc /\ job' = job /\ paying' = paying /\ kind' = kind /\ pass' = pass /\ proj' = proj
    BY <1>10 DEF DeleteBook
  <2> QED
    BY <1>8, <1>b, <2>1, <2>2 DEF HasPass
<1>11. ASSUME NEW b \in Books, NEW p \in Links, LinkBookProject(b, p)
      PROVE  RowsInv'
  <2>1. \A c \in Books : c \notin moved' => proj'[c] = proj[c]
    BY <1>11 DEF LinkBookProject, TypeOK
  <2>2. pc' = pc /\ job' = job /\ paying' = paying /\ kind' = kind /\ pass' = pass /\ row' = row
    BY <1>11 DEF LinkBookProject
  <2> QED
    BY <1>8, <1>b, <2>1, <2>2 DEF HasPass, Settled
<1>12. ASSUME NEW p \in Projects, AttachPass(p)
      PROVE  RowsInv'
  <2>1. /\ pc' = pc /\ job' = job /\ paying' = paying /\ kind' = kind /\ row' = row /\ proj' = proj
        /\ moved' = moved \cup {b \in Books : proj[b] = p}
        /\ \A q \in Projects : q # p => pass'[q] = pass[q]
    BY <1>12 DEF AttachPass, TypeOK
  <2>2. ASSUME NEW s \in Requests, pc[s] # "new", Settled(s)'
        PROVE  HasPass(job[s].proj)' <=> HasPass(job[s].proj)
    <3>1. proj[job[s].book] # p
      BY <1>b, <2>1, <2>2 DEF Settled
    <3>2. proj[job[s].book] = job[s].proj
      BY <2>1, <2>2 DEF RowsInv, RowOf, Settled
    <3>3. job[s].proj # p /\ job[s].proj \in Links
      BY <1>b, <2>2, <3>1, <3>2
    <3> QED
      BY <2>1, <3>3 DEF HasPass
  <2> QED
    BY <1>8, <1>b, <2>1, <2>2
<1>13. ASSUME NEW p \in Projects, SetPassStatus(p)
      PROVE  RowsInv'
  <2>1. \A q \in Projects : pass'[q] = "none" <=> pass[q] = "none"
    BY <1>13 DEF SetPassStatus, TypeOK
  <2>2. pc' = pc /\ job' = job /\ paying' = paying /\ kind' = kind /\ row' = row /\ proj' = proj
    BY <1>13 DEF SetPassStatus
  <2>3. \A q \in Links : HasPass(q)' <=> HasPass(q)
    BY <2>1 DEF HasPass
  <2> QED
    BY <1>8, <1>b, <2>2, <2>3
<1>14. CASE \/ \E p \in Projects, n \in 1..MaxExtra : GrantPassBuilds(p, n) \/ AddPassExtras(p, n)
            \/ SetFinalsGate
  BY <1>c, <1>14 DEF GrantPassBuilds, AddPassExtras, SetFinalsGate, Checked, Recorded
<1>15. CASE Crash
  BY <1>c, <1>15 DEF Crash, Checked, Recorded, TypeOK
<1>16. CASE UNCHANGED vars
  BY <1>c, <1>16 DEF vars, Checked, Recorded
<1> QED
  BY <1>1, <1>2, <1>3, <1>4, <1>5, <1>6, <1>7, <1>9, <1>10, <1>11, <1>12, <1>13, <1>14, <1>15, <1>16
  DEF Next, Handler, Build, Environment

\* Charges, refunds and their rows stay in step with the control points.
LEMMA ChargeStep == TypeOK /\ RowsInv /\ ChargeInv /\ [Next]_vars => ChargeInv'
<1> SUFFICES ASSUME TypeOK, RowsInv, ChargeInv, [Next]_vars PROVE ChargeInv'
  OBVIOUS
<1> DEFINE Same(r) == /\ pc'[r] = pc[r] /\ job'[r] = job[r] /\ paying'[r] = paying[r]
                      /\ refund'[r] = refund[r] /\ charged'[r] = charged[r]
                      /\ repaid'[r] = repaid[r]
                      /\ (r \in stored' <=> r \in stored) /\ (r \in unposted' <=> r \in unposted)
<1> USE FactoryAssumption
    DEF Job, Links, Goto, HandlerSteps, ClaimedSteps, BuildSteps, RefundSteps,
        EndSteps, Steps, BuildKinds, bookVars, passVars, locals, history, audit, Started
<1>0. \A r \in Requests : ChargeOf(r)
  BY DEF ChargeInv
<1>t. /\ \A r \in Requests : /\ pc[r] \in Steps /\ paying[r] \in BOOLEAN
                             /\ pc[r] # "new" => job[r] \in Job
                             /\ refund[r] \in Links /\ charged[r] \in Links /\ repaid[r] \in Links
      /\ pc \in [Requests -> Steps] /\ charged \in [Requests -> Links]
      /\ repaid \in [Requests -> Links] /\ refund \in [Requests -> Links]
      /\ paying \in [Requests -> BOOLEAN]
  BY DEF TypeOK
<1>e. \A r \in Requests : pc[r] # "new" =>
        (~OtherKindAsked(r)' => ~OtherKindAsked(r)) /\ (Settled(r)' => Settled(r))
  BY ExcusesStay
<1> HIDE DEF Job, Steps
<1>n. ASSUME NEW r \in Requests, Same(r), pc[r] = "new"
      PROVE  ChargeOf(r)'
  BY <1>0, <1>n DEF ChargeOf
<1>b. ASSUME NEW r \in Requests, Same(r)
      PROVE  ChargeOf(r)'
  <2>1. CASE pc[r] = "new"
    BY <1>b, <1>n, <2>1
  <2>2. CASE pc[r] # "new"
    BY <1>0, <1>b, <1>e, <2>2 DEF ChargeOf
  <2> QED
    BY <2>1, <2>2
<1>c. ASSUME NEW r \in Requests, ChargeOf(r)', \A s \in Requests \ {r} : Same(s)
      PROVE  ChargeInv'
  BY <1>b, <1>c DEF ChargeInv
<1>1. ASSUME NEW r \in Requests, NEW b \in Books, NEW k \in Kinds, NEW who \in Callers,
             GetBook(r, b, k, who)
      PROVE  ChargeInv'
  <2>1. ChargeOf(r)'
    BY <1>0, <1>1, <1>t DEF GetBook, ChargeOf
  <2>2. \A s \in Requests \ {r} : Same(s)
    BY <1>1, <1>t DEF GetBook, TypeOK
  <2> QED
    BY <1>c, <2>1, <2>2
<1>2. ASSUME NEW r \in Requests, Handler(r)
      PROVE  ChargeInv'
  <2>1. \A s \in Requests \ {r} : Same(s)
    BY <1>2, <1>t DEF Handler, CheckAccess, CheckInFlight, Refuse, UpdateBookBuildKind,
                ClaimBookForBuild, ReserveBuildCredit, DebitRow, Unclaim
  <2>2. CASE CheckAccess(r)
    <3>1. CASE MayBuild(job[r])
      <4>1. /\ pc[r] = "access" /\ pc'[r] = "inflight" /\ job' = job /\ refund' = refund
            /\ charged' = charged /\ repaid' = repaid /\ stored' = stored /\ unposted' = unposted
            /\ paying'[r] = HasPass(job[r].proj) /\ job[r].proj \in Links
        BY <1>t, <2>2, <3>1 DEF CheckAccess, TypeOK, Job
      <4>2. paying'[r] => job[r].proj \in Projects
        BY <4>1 DEF HasPass
      <4>3. ChargeOf(r)'
        BY <1>0, <1>t, <4>1, <4>2 DEF ChargeOf
      <4> QED
        BY <1>c, <2>1, <4>3
    <3>2. CASE ~MayBuild(job[r])
      <4>1. ChargeOf(r)'
        BY <1>0, <1>t, <2>2, <3>2 DEF CheckAccess, ChargeOf
      <4> QED
        BY <1>c, <2>1, <4>1
    <3> QED
      BY <3>1, <3>2
  <2>3. CASE CheckInFlight(r) \/ Refuse(r) \/ UpdateBookBuildKind(r)
    <3>1. ChargeOf(r)'
      BY <1>0, <1>t, <2>3 DEF CheckInFlight, Refuse, UpdateBookBuildKind, ChargeOf
    <3> QED
      BY <1>c, <2>1, <3>1
  <2>4. CASE ClaimBookForBuild(r)
    <3>1. job[r].kind \in BuildKinds
      BY <1>t, <2>4 DEF ClaimBookForBuild, Job
    <3>2. ChargeOf(r)'
      BY <1>0, <1>t, <2>4, <3>1 DEF ClaimBookForBuild, AfterClaim, ChargeOf
    <3> QED
      BY <1>c, <2>1, <3>2
  <2>5. CASE ReserveBuildCredit(r)
    <3>1. CASE MayCharge(r)
      <4>1. /\ pc[r] = "reserve" /\ pc'[r] = "debitrow" /\ charged'[r] = job[r].proj
            /\ job' = job /\ paying' = paying /\ refund' = refund /\ repaid' = repaid
            /\ stored' = stored /\ unposted' = unposted
        BY <1>t, <2>5, <3>1 DEF ReserveBuildCredit
      <4>2. ChargeOf(r)'
        BY <1>0, <1>t, <4>1 DEF ChargeOf
      <4> QED
        BY <1>c, <2>1, <4>2
    <3>2. CASE ~MayCharge(r)
      <4>1. ChargeOf(r)'
        BY <1>0, <1>t, <2>5, <3>2 DEF ReserveBuildCredit, ChargeOf
      <4> QED
        BY <1>c, <2>1, <4>1
    <3> QED
      BY <3>1, <3>2
  <2>6. CASE DebitRow(r)
    <3>1. charged[r] # NoProject /\ repaid[r] = NoProject
      BY <1>0, <2>6 DEF DebitRow, ChargeOf
    <3>2. ChargeOf(r)'
      BY <1>0, <1>t, <2>6, <3>1 DEF DebitRow, ChargeOf
    <3> QED
      BY <1>c, <2>1, <3>2
  <2>7. CASE Unclaim(r)
    <3>1. ChargeOf(r)'
      BY <1>0, <1>t, <2>7 DEF Unclaim, ChargeOf
    <3> QED
      BY <1>c, <2>1, <3>1
  <2> QED
    BY <1>2, <2>2, <2>3, <2>4, <2>5, <2>6, <2>7 DEF Handler
<1>3. ASSUME NEW r \in Requests, Build(r)
      PROVE  ChargeInv'
  <2>1. \A s \in Requests \ {r} : Same(s)
    BY <1>3, <1>t DEF Build, StoreOutput, ToolFails, MarkReady, MarkError, RereadBook, LookupPass,
                RefundBuildCredit, RefundRow
  <2>2. CASE StoreOutput(r) \/ ToolFails(r) \/ MarkReady(r) \/ MarkError(r)
    <3>1. ChargeOf(r)'
      BY <1>0, <1>t, <2>2 DEF StoreOutput, ToolFails, MarkReady, MarkError, ChargeOf
    <3> QED
      BY <1>c, <2>1, <3>1
  <2>3. CASE RereadBook(r)
    <3>1. /\ pc[r] = "reread" /\ job' = job /\ paying' = paying /\ charged' = charged
          /\ repaid' = repaid /\ stored' = stored /\ unposted' = unposted
          /\ \/ pc'[r] = "failed"
             \/ pc'[r] = "lookup" /\ RefundDue(r) /\ refund'[r] = proj[job[r].book]
      BY <1>t, <2>3 DEF RereadBook
    <3>2. RefundDue(r) /\ ~OtherKindAsked(r) /\ Settled(r)
            => proj[job[r].book] = job[r].proj /\ job[r].kind = "final"
      <4>1. RowOf(r) /\ Recorded(r) /\ job[r].kind \in BuildKinds
        BY <1>t, <3>1 DEF RowsInv, Recorded, Checked, Job
      <4> QED
        BY <3>1, <4>1 DEF RefundDue, RowOf
    <3>3. ChargeOf(r)'
      BY <1>0, <1>t, <1>e, <3>1, <3>2 DEF ChargeOf
    <3> QED
      BY <1>c, <2>1, <3>3
  <2>4. CASE LookupPass(r)
    <3>1. /\ pc[r] = "lookup" /\ job' = job /\ paying' = paying /\ charged' = charged
          /\ repaid' = repaid /\ stored' = stored /\ unposted' = unposted /\ refund' = refund
          /\ \/ pc'[r] = "failed"
             \/ pc'[r] = "refund" /\ HasPass(refund[r])
      BY <1>t, <2>4 DEF LookupPass
    <3>2. HasPass(refund[r]) /\ ~OtherKindAsked(r) /\ Settled(r) => refund[r] = charged[r]
      <4>1. RowOf(r) /\ Checked(r) /\ ChargeOf(r)
        BY <1>0, <3>1 DEF RowsInv, Checked
      <4> QED
        BY <3>1, <4>1 DEF RowOf, ChargeOf
    <3>3. ChargeOf(r)'
      BY <1>0, <1>t, <1>e, <3>1, <3>2 DEF ChargeOf
    <3> QED
      BY <1>c, <2>1, <3>3
  <2>5. CASE RefundBuildCredit(r)
    <3>1. /\ pc[r] = "refund" /\ pc'[r] = "refundrow" /\ repaid'[r] = refund[r]
          /\ job' = job /\ paying' = paying /\ charged' = charged /\ refund' = refund
          /\ stored' = stored /\ unposted' = unposted /\ refund[r] \in Projects
      BY <1>t, <2>5 DEF RefundBuildCredit, TypeOK
    <3>2. ChargeOf(r)'
      BY <1>0, <1>t, <1>e, <3>1 DEF ChargeOf
    <3> QED
      BY <1>c, <2>1, <3>2
  <2>6. CASE RefundRow(r)
    <3>1. ChargeOf(r)'
      BY <1>0, <1>t, <1>e, <2>6 DEF RefundRow, ChargeOf
    <3> QED
      BY <1>c, <2>1, <3>1
  <2> QED
    BY <1>3, <2>2, <2>3, <2>4, <2>5, <2>6 DEF Build
<1>4. ASSUME NEW r \in Requests, AcquireBuildSlot(r) \/ Disconnect(r) \/ DBError(r)
      PROVE  ChargeInv'
  <2>1. \A s \in Requests \ {r} : Same(s)
    BY <1>4, <1>t DEF AcquireBuildSlot, Disconnect, DBError
  <2>2. pc[r] = "debitrow" => charged[r] # NoProject /\ repaid[r] = NoProject
    BY <1>0 DEF ChargeOf
  <2>3. ChargeOf(r)'
    BY <1>0, <1>e, <1>t, <1>4, <2>2 DEF AcquireBuildSlot, Disconnect, DBError, ChargeOf
  <2> QED
    BY <1>c, <2>1, <2>3
<1>5. CASE Crash
  <2>1. ASSUME NEW r \in Requests PROVE ChargeOf(r)'
    <3>1. /\ job' = job /\ paying' = paying /\ refund' = refund /\ charged' = charged
          /\ repaid' = repaid /\ stored' = stored
          /\ pc'[r] = IF pc[r] \in EndSteps \cup {"new"} THEN pc[r] ELSE "lost"
          /\ (r \in unposted' <=> r \in unposted \/ pc[r] \in {"debitrow", "refundrow"})
      BY <1>5, <1>t DEF Crash
    <3>2. CASE pc[r] = "new"
      BY <1>n, <3>1, <3>2
    <3>3. CASE pc[r] # "new"
      <4>1. pc[r] = "debitrow" => charged[r] # NoProject /\ repaid[r] = NoProject
        BY <1>0 DEF ChargeOf
      <4>2. pc[r] = "refundrow" => repaid[r] # NoProject
        BY <1>0 DEF ChargeOf
      <4> QED
        BY <1>0, <1>e, <1>t, <3>1, <3>3, <4>1, <4>2 DEF ChargeOf
    <3> QED
      BY <3>2, <3>3
  <2> QED
    BY <2>1 DEF ChargeInv
<1>6. CASE \/ \E b \in Books, p \in Links : UploadBook(b, p) \/ LinkBookProject(b, p)
           \/ \E b \in Books : DeleteBook(b)
           \/ \E p \in Projects : AttachPass(p) \/ SetPassStatus(p)
           \/ \E p \in Projects, n \in 1..MaxExtra : GrantPassBuilds(p, n) \/ AddPassExtras(p, n)
           \/ SetFinalsGate
  <2>1. \A s \in Requests : Same(s)
    BY <1>6 DEF UploadBook, LinkBookProject, DeleteBook, AttachPass, SetPassStatus,
                GrantPassBuilds, AddPassExtras, SetFinalsGate
  <2> QED
    BY <1>b, <2>1 DEF ChargeInv
<1>7. CASE UNCHANGED vars
  BY <1>b, <1>7 DEF vars, ChargeInv
<1> QED
  BY <1>1, <1>2, <1>3, <1>4, <1>5, <1>6, <1>7 DEF Next, Environment

AccountInv == RowsInv /\ ChargeInv

\* The account is well defined at the start and after every step.
LEMMA AccountInit == Init => AccountInv
BY DEF Init, AccountInv, RowsInv, RowOf, ChargeInv, ChargeOf, Started,
       HandlerSteps, BuildSteps, RefundSteps

LEMMA AccountStep == TypeOK /\ AccountInv /\ [Next]_vars => AccountInv'
BY RowsStep, ChargeStep DEF AccountInv

\* Whatever fails, moves or is deleted: a refund that is not of a charge of the
\* same build to the same pass has one of the two causes the property names.
THEOREM RefundsMatchCharges == Spec => []RefundOnlyCharged
<1>1. AccountInv => RefundOnlyCharged
  BY DEF AccountInv, ChargeInv, ChargeOf, RefundOnlyCharged, Settled
<1> QED
  BY <1>1, AccountInit, AccountStep, TypeCorrect, PTL DEF Spec

-----------------------------------------------------------------------------
(* The balance as a count.  builds_used is the charges less the refunds,   *)
(* plus the refunds that the clamp at 0 swallowed; and a refund meets the  *)
(* clamp only when others have strayed here, since the refunds of charges  *)
(* alone never outnumber the charges.                                      *)

ChargedTo(p) == {r \in Requests : charged[r] = p}
RepaidTo(p) == {r \in Requests : repaid[r] = p}

CountInv ==
  \A p \in Projects :
    /\ used[p] + Cardinality(RepaidTo(p)) = Cardinality(ChargedTo(p)) + clamped[p]
    /\ clamped[p] <= Cardinality(Strayed(p))

\* The sets that are counted are finite.
LEMMA CountsFinite ==
  ASSUME IsFiniteSet(Requests), NEW S \in SUBSET Requests
  PROVE  IsFiniteSet(S) /\ Cardinality(S) \in Nat
BY FS_Subset, FS_CardinalityType

\* Refunds are of charges or strayed.
LEMMA RefundsCovered ==
  ASSUME IsFiniteSet(Requests), NEW R \in SUBSET Requests, NEW C \in SUBSET Requests,
         NEW S \in SUBSET Requests, R \subseteq C \cup S
  PROVE  Cardinality(R) <= Cardinality(C) + Cardinality(S)
<1>1. /\ IsFiniteSet(R) /\ IsFiniteSet(C) /\ IsFiniteSet(S) /\ IsFiniteSet(C \cup S)
      /\ Cardinality(C) \in Nat /\ Cardinality(S) \in Nat /\ Cardinality(R) \in Nat
      /\ Cardinality(C \cup S) \in Nat /\ Cardinality(C \cap S) \in Nat
  BY CountsFinite
<1>2. Cardinality(C \cup S) = Cardinality(C) + Cardinality(S) - Cardinality(C \cap S)
  BY <1>1, FS_Union
<1>3. Cardinality(R) <= Cardinality(C \cup S)
  BY <1>1, FS_Subset
<1> QED
  BY <1>1, <1>2, <1>3

\* A charge adds one to both sides, a refund takes one from builds_used or
\* adds one to the clamped.
LEMMA CountStep ==
  ASSUME IsFiniteSet(Requests)
  PROVE  TypeOK /\ ChargeInv /\ CountInv /\ [Next]_vars => CountInv'
<1> SUFFICES ASSUME TypeOK, ChargeInv, CountInv, [Next]_vars PROVE CountInv'
  OBVIOUS
<1>t. /\ used \in [Projects -> Nat] /\ clamped \in [Projects -> Nat]
      /\ charged \in [Requests -> Links] /\ repaid \in [Requests -> Links]
  BY DEF TypeOK
<1>f. \A p : /\ ChargedTo(p) \in SUBSET Requests /\ RepaidTo(p) \in SUBSET Requests
             /\ Strayed(p) \in SUBSET Requests
             /\ IsFiniteSet(ChargedTo(p)) /\ IsFiniteSet(RepaidTo(p)) /\ IsFiniteSet(Strayed(p))
             /\ Cardinality(ChargedTo(p)) \in Nat /\ Cardinality(RepaidTo(p)) \in Nat
             /\ Cardinality(Strayed(p)) \in Nat
  BY CountsFinite DEF ChargedTo, RepaidTo, Strayed
<1>1. ASSUME used' = used, charged' = charged, repaid' = repaid, clamped' = clamped
      PROVE  CountInv'
  BY <1>1 DEF CountInv, ChargedTo, RepaidTo, Strayed
<1>2. ASSUME NEW r \in Requests, ReserveBuildCredit(r)
      PROVE  CountInv'
  <2>1. CASE MayCharge(r)
    <3>0. charged[r] = NoProject /\ job[r].proj \in Projects /\ repaid[r] = NoProject
      BY <1>2 DEF ReserveBuildCredit, ChargeInv, ChargeOf
    <3>1. PICK p \in Projects : p = job[r].proj
      BY <3>0
    <3>2. /\ used' = [used EXCEPT ![p] = @ + 1] /\ charged' = [charged EXCEPT ![r] = p]
          /\ repaid' = repaid /\ clamped' = clamped
      BY <1>2, <2>1, <3>1 DEF ReserveBuildCredit, audit
    <3>3. SUFFICES ASSUME NEW q \in Projects
                   PROVE  /\ used'[q] + Cardinality(RepaidTo(q)') = Cardinality(ChargedTo(q)') + clamped'[q]
                          /\ clamped'[q] <= Cardinality(Strayed(q)')
      BY DEF CountInv
    <3>4. RepaidTo(q)' = RepaidTo(q)
      BY <3>2 DEF RepaidTo
    <3>5. Strayed(q)' = Strayed(q)
      BY <1>t, <3>0, <3>1, <3>2, FactoryAssumption DEF Strayed
    <3>6. CASE q = p
      <4>1. r \notin ChargedTo(q) /\ ChargedTo(q)' = ChargedTo(q) \cup {r}
        BY <1>t, <3>0, <3>2, <3>6, FactoryAssumption DEF ChargedTo
      <4>2. Cardinality(ChargedTo(q)') = Cardinality(ChargedTo(q)) + 1
        BY <1>f, <4>1, FS_AddElement
      <4>3. used'[q] = used[q] + 1
        BY <1>t, <3>2, <3>6
      <4> QED
        BY <1>f, <1>t, <3>2, <3>4, <3>5, <4>2, <4>3 DEF CountInv
    <3>7. CASE q # p
      <4>1. ChargedTo(q)' = ChargedTo(q) /\ used'[q] = used[q]
        BY <1>t, <3>0, <3>2, <3>7, FactoryAssumption DEF ChargedTo
      <4> QED
        BY <3>2, <3>4, <3>5, <4>1 DEF CountInv
    <3> QED
      BY <3>6, <3>7
  <2>2. CASE ~MayCharge(r)
    BY <1>1, <1>2, <2>2 DEF ReserveBuildCredit, audit
  <2> QED
    BY <2>1, <2>2
<1>3. ASSUME NEW r \in Requests, RefundBuildCredit(r)
      PROVE  CountInv'
  <2>0. refund[r] \in Projects /\ repaid[r] = NoProject
    BY <1>3 DEF RefundBuildCredit, ChargeInv, ChargeOf, TypeOK
  <2>1. PICK p \in Projects : p = refund[r]
    BY <2>0
  <2>2. /\ \/ used[p] > 0 /\ used' = [used EXCEPT ![p] = @ - 1] /\ clamped' = clamped
           \/ ~(used[p] > 0) /\ clamped' = [clamped EXCEPT ![p] = @ + 1] /\ used' = used
        /\ repaid' = [repaid EXCEPT ![r] = p] /\ charged' = charged
    BY <1>3, <2>1 DEF RefundBuildCredit
  <2>3. SUFFICES ASSUME NEW q \in Projects
                 PROVE  /\ used'[q] + Cardinality(RepaidTo(q)') = Cardinality(ChargedTo(q)') + clamped'[q]
                        /\ clamped'[q] <= Cardinality(Strayed(q)')
    BY DEF CountInv
  <2>4. ChargedTo(q)' = ChargedTo(q)
    BY <2>2 DEF ChargedTo
  <2>5. CASE q = p
    <3>1. r \notin RepaidTo(q) /\ RepaidTo(q)' = RepaidTo(q) \cup {r}
      BY <1>t, <2>0, <2>2, <2>5, FactoryAssumption DEF RepaidTo
    <3>2. Cardinality(RepaidTo(q)') = Cardinality(RepaidTo(q)) + 1
      BY <1>f, <3>1, FS_AddElement
    <3>3. Strayed(q) \subseteq Strayed(q)' /\ Strayed(q)' \in SUBSET Requests
      BY <1>t, <2>0, <2>2, FactoryAssumption DEF Strayed
    <3>4. IsFiniteSet(Strayed(q)') /\ Cardinality(Strayed(q)') \in Nat
      BY <3>3, CountsFinite
    <3>5. Cardinality(Strayed(q)) <= Cardinality(Strayed(q)')
      BY <3>3, <3>4, FS_Subset
    <3>6. CASE used[p] > 0
      <4>1. used'[q] = used[q] - 1 /\ clamped'[q] = clamped[q]
        BY <1>t, <2>2, <2>5, <3>6
      <4> QED
        BY <1>f, <1>t, <2>4, <3>2, <3>4, <3>5, <4>1 DEF CountInv
    <3>7. CASE ~(used[p] > 0)
      <4>1. used'[q] = 0 /\ used[q] = 0 /\ clamped'[q] = clamped[q] + 1
        BY <1>t, <2>2, <2>5, <3>7
      <4>2. RepaidTo(q)' \subseteq ChargedTo(q) \cup Strayed(q)' /\ RepaidTo(q)' \in SUBSET Requests
        BY <2>2 DEF RepaidTo, ChargedTo, Strayed
      <4>3. Cardinality(RepaidTo(q)') <= Cardinality(ChargedTo(q)) + Cardinality(Strayed(q)')
        BY <1>f, <3>3, <4>2, RefundsCovered
      <4>4. used[q] + Cardinality(RepaidTo(q)) = Cardinality(ChargedTo(q)) + clamped[q]
        BY DEF CountInv
      <4> QED
        BY <1>f, <1>t, <2>4, <3>2, <3>4, <4>1, <4>3, <4>4
    <3> QED
      BY <3>6, <3>7
  <2>6. CASE q # p
    <3>1. RepaidTo(q)' = RepaidTo(q) /\ Strayed(q)' = Strayed(q)
      BY <1>t, <2>0, <2>2, <2>6, FactoryAssumption DEF RepaidTo, Strayed
    <3>2. used'[q] = used[q] /\ clamped'[q] = clamped[q]
      BY <1>t, <2>2, <2>6
    <3> QED
      BY <2>4, <3>1, <3>2 DEF CountInv
  <2> QED
    BY <2>5, <2>6
<1>4. ASSUME NEW r \in Requests,
             \/ CheckAccess(r) \/ CheckInFlight(r) \/ Refuse(r) \/ UpdateBookBuildKind(r)
             \/ ClaimBookForBuild(r) \/ DebitRow(r) \/ Unclaim(r)
             \/ AcquireBuildSlot(r) \/ Disconnect(r) \/ DBError(r)
             \/ StoreOutput(r) \/ ToolFails(r) \/ MarkReady(r) \/ MarkError(r)
             \/ RereadBook(r) \/ LookupPass(r) \/ RefundRow(r)
      PROVE  CountInv'
  BY <1>1, <1>4
  DEF CheckAccess, CheckInFlight, Refuse, UpdateBookBuildKind, ClaimBookForBuild, DebitRow,
      Unclaim, AcquireBuildSlot, Disconnect, DBError, StoreOutput, ToolFails, MarkReady,
      MarkError, RereadBook, LookupPass, RefundRow, passVars, history, audit
<1>5. CASE \/ \E r \in Requests, b \in Books, k \in Kinds, who \in Callers : GetBook(r, b, k, who)
           \/ Environment
  BY <1>1, <1>5
  DEF Environment, GetBook, UploadBook, LinkBookProject, DeleteBook, AttachPass, SetPassStatus,
      GrantPassBuilds, AddPassExtras, SetFinalsGate, Crash, passVars, history, audit
<1>6. CASE UNCHANGED vars
  BY <1>1, <1>6 DEF vars, passVars, history, audit
<1> QED
  BY <1>2, <1>3, <1>4, <1>5, <1>6 DEF Next, Handler, Build

\* Nothing has been charged at the start.
LEMMA CountInit == Init => CountInv
<1> SUFFICES ASSUME Init, NEW p \in Projects
             PROVE  /\ used[p] + Cardinality(RepaidTo(p)) = Cardinality(ChargedTo(p)) + clamped[p]
                    /\ clamped[p] <= Cardinality(Strayed(p))
  BY DEF CountInv
<1>1. RepaidTo(p) = {} /\ ChargedTo(p) = {} /\ Strayed(p) = {}
  BY FactoryAssumption DEF Init, RepaidTo, ChargedTo, Strayed
<1> QED
  BY <1>1, FS_EmptySet DEF Init

\* With any kinds of build and under every event and fault, the downloadable
\* finals of a pass beyond its allowance are no more than the refunds that
\* undid no charge of a build that came to nothing.
THEOREM FinalsWithinAllowance ==
  ASSUME IsFiniteSet(Requests)
  PROVE  Spec => []DeliveredWithinAllowance
<1>1. TypeOK /\ AccountInv /\ CountInv /\ [Next]_vars => CountInv'
  BY CountStep DEF AccountInv
<1>2. TypeOK /\ AccountInv /\ CountInv /\ NoOverspend => DeliveredWithinAllowance
  <2> SUFFICES ASSUME TypeOK, AccountInv, CountInv, NoOverspend, NEW p \in Projects
               PROVE  Cardinality(StoredFinals(p))
                        <= Allowance(p) + waived[p] + Cardinality(Unearned(p))
    BY DEF DeliveredWithinAllowance
  <2> DEFINE S == StoredFinals(p)
             C == ChargedTo(p)
             R == RepaidTo(p)
             U == Unearned(p)
             E == R \ U
  <2>1. S \subseteq C /\ E \subseteq C /\ S \cap E = {} /\ U \subseteq R /\ R = E \cup U /\ E \cap U = {}
    <3>1. \A r \in S : r \in Requests /\ r \in stored /\ charged[r] = p
      <4> SUFFICES ASSUME NEW r \in S PROVE r \in Requests /\ r \in stored /\ charged[r] = p
        OBVIOUS
      <4>1. r \in Requests /\ r \in stored /\ job[r].kind = "final" /\ paying[r] /\ job[r].proj = p
        BY DEF StoredFinals, TypeOK
      <4>2. ChargeOf(r)
        BY <4>1 DEF AccountInv, ChargeInv
      <4> QED
        BY <4>1, <4>2 DEF ChargeOf
    <3>2. \A r \in E : r \in Requests /\ charged[r] = p /\ r \notin stored
      BY DEF RepaidTo, Unearned
    <3>3. U \subseteq R
      BY DEF RepaidTo, Unearned
    <3>4. S \subseteq C /\ E \subseteq C
      BY <3>1, <3>2 DEF ChargedTo
    <3> HIDE DEF S, C, R, U
    <3> QED
      BY <3>1, <3>2, <3>3, <3>4
  <2>2. /\ IsFiniteSet(S) /\ IsFiniteSet(C) /\ IsFiniteSet(R) /\ IsFiniteSet(U) /\ IsFiniteSet(E)
        /\ IsFiniteSet(S \cup E)
        /\ Cardinality(S) \in Nat /\ Cardinality(C) \in Nat /\ Cardinality(R) \in Nat
        /\ Cardinality(U) \in Nat /\ Cardinality(E) \in Nat /\ Cardinality(S \cup E) \in Nat
    <3>1. /\ S \in SUBSET Requests /\ C \in SUBSET Requests /\ R \in SUBSET Requests
          /\ U \in SUBSET Requests /\ E \in SUBSET Requests /\ S \cup E \in SUBSET Requests
      BY <2>1 DEF ChargedTo, RepaidTo
    <3> HIDE DEF S, C, R, U, E
    <3> QED
      BY <3>1, CountsFinite
  <2>3. /\ used[p] + Cardinality(R) = Cardinality(C) + clamped[p]
        /\ used[p] <= BuildsIncluded + extra[p] + waived[p]
        /\ used[p] \in Nat /\ clamped[p] \in Nat /\ extra[p] \in Nat /\ waived[p] \in Nat
    BY FactoryAssumption DEF CountInv, NoOverspend, Allowance, TypeOK
  <2> HIDE DEF S, C, R, U, E
  <2>4. Cardinality(S \cup E) = Cardinality(S) + Cardinality(E) - Cardinality(S \cap E)
    BY <2>2, FS_Union
  <2>5. Cardinality(E \cup U) = Cardinality(E) + Cardinality(U) - Cardinality(E \cap U)
    BY <2>2, FS_Union
  <2>6. /\ Cardinality(S \cap E) = 0 /\ Cardinality(E \cap U) = 0
        /\ Cardinality(R) = Cardinality(E \cup U)
    BY <2>1, FS_EmptySet
  <2>7. Cardinality(S \cup E) <= Cardinality(C)
    <3>1. S \cup E \subseteq C
      BY <2>1
    <3> QED
      BY <2>2, <3>1, FS_Subset
  <2>8. Cardinality(S) <= BuildsIncluded + extra[p] + waived[p] + Cardinality(U)
    BY <2>2, <2>3, <2>4, <2>5, <2>6, <2>7, FactoryAssumption
  <2> QED
    BY <2>8 DEF S, U, Allowance
<1> QED
  BY <1>1, <1>2, AccountInit, AccountStep, CountInit, BalanceKept, TypeCorrect, PTL DEF Spec

-----------------------------------------------------------------------------
(* The other direction: what a failed final was charged comes back.  That  *)
(* needs finals only, every book where it was and every statement of the   *)
(* refund to run; clients that go away and crashes are allowed.  RepaidInv *)
(* says, at each statement of failConversionAt, what is still to be handed *)
(* back.                                                                   *)

\* Nothing rewrites the row the refund is read from.
FinalsUnmoved == Kinds = {"final"} /\ "attach" \notin Events /\ "link" \notin Events

\* The statements of a refund find their rows and are carried out.
RefundsRun == "delete" \notin Events /\ "dberror" \notin Events

RepaidInv ==
  /\ moved = {}
  /\ \A b \in Books : kind[b] = "final"
  /\ \A r \in Requests :
       /\ pc[r] # "new" => row[job[r].book] = "present" /\ job[r].kind = "final"
       /\ charged[r] # NoProject /\ pc[r] \in {"refundrow", "failed"} => repaid[r] = charged[r]

\* Every statement keeps a failed final's credit on its way back.
LEMMA RepaidStep ==
  ASSUME FinalsUnmoved, RefundsRun
  PROVE  TypeOK /\ AccountInv /\ RepaidInv /\ [Next]_vars => RepaidInv'
<1> SUFFICES ASSUME TypeOK, AccountInv, RepaidInv, [Next]_vars PROVE RepaidInv'
  OBVIOUS
<1> DEFINE Kept(r) ==
      /\ pc[r] # "new" => row[job[r].book] = "present" /\ job[r].kind = "final"
      /\ charged[r] # NoProject /\ pc[r] \in {"refundrow", "failed"} => repaid[r] = charged[r]
<1> DEFINE Same(r) == /\ pc'[r] = pc[r] /\ job'[r] = job[r]
                      /\ charged'[r] = charged[r] /\ repaid'[r] = repaid[r]
<1> USE FactoryAssumption
    DEF TypeOK, Job, Links, Goto, HandlerSteps, ClaimedSteps, BuildSteps, RefundSteps,
        EndSteps, Steps, bookVars, passVars, locals, history, audit
<1>0. \A r \in Requests : Kept(r)
  BY DEF RepaidInv
<1>s. \A r \in Requests : pc[r] # "new" => Settled(r) /\ ~OtherKindAsked(r)
  BY DEF RepaidInv, Settled, OtherKindAsked
<1>h. \A r \in Requests : ChargeOf(r) /\ RowOf(r)
  BY DEF AccountInv, ChargeInv, RowsInv
<1>b. ASSUME NEW r \in Requests, Same(r), row' = row
      PROVE  Kept(r)'
  BY <1>0, <1>b
<1>c. ASSUME kind' = kind, row' = row, moved' = moved, NEW r \in Requests, Kept(r)',
             \A s \in Requests \ {r} : Same(s)
      PROVE  RepaidInv'
  BY <1>b, <1>c DEF RepaidInv
<1>1. ASSUME NEW r \in Requests, NEW b \in Books, NEW k \in Kinds, NEW who \in Callers,
             GetBook(r, b, k, who)
      PROVE  RepaidInv'
  <2>1. k = "final"
    BY FinalsUnmoved DEF FinalsUnmoved
  <2>2. Kept(r)'
    BY <1>0, <1>1, <2>1 DEF GetBook, Present
  <2>3. \A s \in Requests \ {r} : Same(s)
    BY <1>1 DEF GetBook
  <2> QED
    BY <1>1, <1>c, <2>2, <2>3 DEF GetBook
<1>2. ASSUME NEW r \in Requests, Handler(r)
      PROVE  RepaidInv'
  <2>1. \A s \in Requests \ {r} : Same(s)
    BY <1>2 DEF Handler, CheckAccess, CheckInFlight, Refuse, UpdateBookBuildKind,
                ClaimBookForBuild, ReserveBuildCredit, DebitRow, Unclaim
  <2>2. CASE CheckAccess(r)
    BY <1>0, <1>c, <2>1, <2>2 DEF CheckAccess
  <2>3. CASE CheckInFlight(r) \/ Refuse(r)
    BY <1>0, <1>c, <2>1, <2>3 DEF CheckInFlight, Refuse
  <2>4. CASE UpdateBookBuildKind(r)
    <3>1. job[r].kind = "final"
      BY <1>0, <2>4 DEF UpdateBookBuildKind
    <3>2. \A b \in Books : kind'[b] = "final"
      BY <2>4, <3>1 DEF UpdateBookBuildKind, Set, RepaidInv
    <3>3. Kept(r)' /\ row' = row /\ moved' = moved
      BY <1>0, <2>4 DEF UpdateBookBuildKind
    <3> QED
      BY <1>b, <2>1, <3>2, <3>3 DEF RepaidInv
  <2>5. CASE ClaimBookForBuild(r)
    BY <1>0, <1>c, <2>1, <2>5 DEF ClaimBookForBuild, AfterClaim
  <2>6. CASE ReserveBuildCredit(r)
    BY <1>0, <1>c, <2>1, <2>6 DEF ReserveBuildCredit
  <2>7. CASE DebitRow(r)
    BY <1>0, <1>c, <2>1, <2>7 DEF DebitRow
  <2>8. CASE Unclaim(r)
    BY <1>0, <1>c, <2>1, <2>8 DEF Unclaim
  <2> QED
    BY <1>2, <2>2, <2>3, <2>4, <2>5, <2>6, <2>7, <2>8 DEF Handler
<1>3. ASSUME NEW r \in Requests, Build(r)
      PROVE  RepaidInv'
  <2>1. \A s \in Requests \ {r} : Same(s)
    BY <1>3 DEF Build, StoreOutput, ToolFails, MarkReady, MarkError, RereadBook, LookupPass,
                RefundBuildCredit, RefundRow
  <2>2. CASE StoreOutput(r) \/ ToolFails(r) \/ MarkReady(r) \/ MarkError(r)
    BY <1>0, <1>c, <2>1, <2>2 DEF StoreOutput, ToolFails, MarkReady, MarkError
  <2>3. CASE RereadBook(r)
    <3>1. job[r].book \in Books /\ proj[job[r].book] = job[r].proj
      BY <1>h, <1>s, <2>3 DEF RereadBook, RowOf
    <3>2. charged[r] # NoProject => RefundDue(r)
      BY <1>0, <1>h, <2>3, <3>1 DEF RereadBook, RefundDue, Present, RepaidInv, ChargeOf
    <3> QED
      BY <1>0, <1>c, <2>1, <2>3, <3>2 DEF RereadBook
  <2>4. CASE LookupPass(r)
    <3>1. Checked(r) /\ refund[r] = job[r].proj
      BY <1>h, <1>s, <2>4 DEF LookupPass, Checked, ChargeOf
    <3>2. charged[r] # NoProject => HasPass(refund[r])
      BY <1>h, <1>s, <2>4, <3>1 DEF LookupPass, ChargeOf, RowOf
    <3> QED
      BY <1>0, <1>c, <2>1, <2>4, <3>2 DEF LookupPass
  <2>5. CASE RefundBuildCredit(r)
    <3>1. refund[r] = charged[r]
      BY <1>h, <1>s, <2>5 DEF RefundBuildCredit, ChargeOf
    <3>2. Kept(r)'
      BY <1>0, <2>5, <3>1 DEF RefundBuildCredit
    <3> QED
      BY <1>c, <2>1, <2>5, <3>2 DEF RefundBuildCredit
  <2>6. CASE RefundRow(r)
    BY <1>0, <1>c, <2>1, <2>6 DEF RefundRow
  <2> QED
    BY <1>3, <2>2, <2>3, <2>4, <2>5, <2>6 DEF Build
<1>4. ASSUME NEW r \in Requests, AcquireBuildSlot(r) \/ Disconnect(r)
      PROVE  RepaidInv'
  <2>1. \A s \in Requests \ {r} : Same(s)
    BY <1>4 DEF AcquireBuildSlot, Disconnect
  <2> QED
    BY <1>0, <1>c, <1>4, <2>1 DEF AcquireBuildSlot, Disconnect
<1>5. CASE Crash
  BY <1>0, <1>5 DEF Crash, RepaidInv
<1>6. ASSUME NEW b \in Books, NEW p \in Links, UploadBook(b, p)
      PROVE  RepaidInv'
  <2>1. \A c \in Books : row[c] = "present" => row'[c] = "present"
    BY <1>6 DEF UploadBook
  <2>2. kind' = kind /\ moved' = moved /\ (\A s \in Requests : Same(s))
    BY <1>6 DEF UploadBook
  <2>3. \A s \in Requests : pc[s] # "new" => job[s].book \in Books
    OBVIOUS
  <2> QED
    BY <1>0, <2>1, <2>2, <2>3 DEF RepaidInv
<1>7. CASE \/ \E p \in Projects : SetPassStatus(p)
           \/ \E p \in Projects, n \in 1..MaxExtra : GrantPassBuilds(p, n) \/ AddPassExtras(p, n)
           \/ SetFinalsGate
  <2>1. kind' = kind /\ row' = row /\ moved' = moved /\ (\A s \in Requests : Same(s))
    BY <1>7 DEF SetPassStatus, GrantPassBuilds, AddPassExtras, SetFinalsGate
  <2> QED
    BY <1>b, <2>1 DEF RepaidInv
<1>8. /\ \A b \in Books, p \in Links : ~LinkBookProject(b, p)
      /\ \A b \in Books : ~DeleteBook(b)
      /\ \A p \in Projects : ~AttachPass(p)
      /\ \A r \in Requests : ~DBError(r)
  BY FinalsUnmoved, RefundsRun
  DEF LinkBookProject, DeleteBook, AttachPass, DBError, FinalsUnmoved, RefundsRun
<1>9. CASE UNCHANGED vars
  BY <1>b, <1>9 DEF vars, RepaidInv
<1> QED
  BY <1>1, <1>2, <1>3, <1>4, <1>5, <1>6, <1>7, <1>8, <1>9 DEF Next, Environment

\* A final that fails is handed its credit back before its build is over,
\* whatever disconnects or crashes on the way: finals only, nothing moved or
\* deleted, and no failing statement.
THEOREM FailedFinalsRepaid ==
  ASSUME FinalsUnmoved, RefundsRun
  PROVE  Spec => []FailedFinalRepaid
<1>1. Init => RepaidInv
  BY DEF Init, RepaidInv
<1>2. RepaidInv => FailedFinalRepaid
  BY DEF RepaidInv, FailedFinalRepaid
<1> QED
  BY <1>1, <1>2, RepaidStep, AccountInit, AccountStep, TypeCorrect, PTL DEF Spec

-----------------------------------------------------------------------------
(* The ledger.  Each statement that moves the account changes one side of  *)
(* the equation, and the statement of its row, or the fault that loses it, *)
(* moves the request between the sets of rows that are missing.            *)

\* The equation of LedgerMatches for one project.
Balanced(p) ==
  ledger[p] - Cardinality(Owed(p)) + Cardinality(Due(p))
    = extra[p] - unlisted[p] - used[p] + clamped[p]

BalanceInv == \A p \in Projects : Balanced(p)

\* Every statement and every fault keeps the account explained by the ledger.
LEMMA LedgerStep ==
  ASSUME IsFiniteSet(Requests)
  PROVE  TypeOK /\ ChargeInv /\ BalanceInv /\ [Next]_vars => BalanceInv'
<1> SUFFICES ASSUME TypeOK, ChargeInv, BalanceInv, [Next]_vars
             PROVE  BalanceInv'
  OBVIOUS
<1> USE FactoryAssumption DEF Goto, bookVars, passVars, locals, history, audit
<1> DEFINE Same(r) == /\ pc'[r] = pc[r] /\ charged'[r] = charged[r]
                      /\ repaid'[r] = repaid[r] /\ (r \in unposted' <=> r \in unposted)
<1> DEFINE SameSums == /\ ledger' = ledger /\ extra' = extra /\ used' = used
                       /\ unlisted' = unlisted /\ clamped' = clamped
<1>t. /\ ledger \in [Projects -> Int] /\ used \in [Projects -> Nat] /\ unlisted \in [Projects -> Nat]
      /\ clamped \in [Projects -> Nat] /\ extra \in [Projects -> 0..MaxExtra]
      /\ charged \in [Requests -> Links] /\ repaid \in [Requests -> Links]
      /\ pc \in [Requests -> Steps] /\ unposted \subseteq Requests
  BY DEF TypeOK
<1>f. \A p : /\ IsFiniteSet(Owed(p)) /\ Cardinality(Owed(p)) \in Nat
             /\ IsFiniteSet(Due(p)) /\ Cardinality(Due(p)) \in Nat
  <2>1. \A p : Owed(p) \in SUBSET Requests /\ Due(p) \in SUBSET Requests
    BY DEF Owed, Due
  <2> QED
    BY <2>1, CountsFinite
<1>0. \A p \in Projects : Balanced(p)
  BY DEF BalanceInv
<1>h. \A r \in Requests : /\ ChargeOf(r)
                          /\ pc[r] \in {"new", "reserve", "debitrow"} \cup HandlerSteps
                               => repaid[r] = NoProject
                          /\ pc[r] = "debitrow" => charged[r] = job[r].proj /\ job[r].proj \in Projects
  BY DEF ChargeInv, ChargeOf, HandlerSteps
<1>b. ASSUME NEW p \in Projects, ledger'[p] = ledger[p], extra'[p] = extra[p], used'[p] = used[p],
             unlisted'[p] = unlisted[p], clamped'[p] = clamped[p],
             Owed(p)' = Owed(p), Due(p)' = Due(p)
      PROVE  Balanced(p)'
  BY <1>0, <1>b DEF Balanced
<1>d. ASSUME SameSums, \A p \in Projects : Owed(p)' = Owed(p) /\ Due(p)' = Due(p)
      PROVE  BalanceInv'
  BY <1>b, <1>d DEF BalanceInv
<1>c. ASSUME SameSums, NEW r \in Requests, charged'[r] = charged[r], repaid'[r] = repaid[r],
             r \in unposted' <=> r \in unposted,
             pc[r] \notin {"debitrow", "refundrow"}, pc'[r] \notin {"debitrow", "refundrow"},
             \A s \in Requests \ {r} : Same(s)
      PROVE  BalanceInv'
  <2>1. \A p \in Projects : Owed(p)' = Owed(p) /\ Due(p)' = Due(p)
    BY <1>c DEF Owed, Due
  <2> QED
    BY <1>c, <1>d, <2>1
<1>e. ASSUME SameSums, \A s \in Requests : Same(s)
      PROVE  BalanceInv'
  <2>1. \A p \in Projects : Owed(p)' = Owed(p) /\ Due(p)' = Due(p)
    BY <1>e DEF Owed, Due
  <2> QED
    BY <1>d, <1>e, <2>1
<1>l. ASSUME SameSums, charged' = charged, repaid' = repaid, NEW r \in Requests,
             pc[r] \in {"debitrow", "refundrow"}, pc'[r] \notin {"debitrow", "refundrow"},
             unposted' = unposted \cup {r}, \A s \in Requests \ {r} : pc'[s] = pc[s]
      PROVE  BalanceInv'
  <2>1. pc[r] = "debitrow" => repaid[r] = NoProject
    BY <1>h
  <2>2. pc[r] = "refundrow" => repaid[r] # NoProject
    BY <1>h DEF ChargeOf
  <2>3. \A p \in Projects : p # NoProject
    BY FactoryAssumption
  <2>4. \A p \in Projects : Owed(p)' = Owed(p)
    BY <1>l, <2>1, <2>2 DEF Owed
  <2>5. \A p \in Projects : Due(p)' = Due(p)
    BY <1>l, <2>1, <2>2, <2>3 DEF Due
  <2> QED
    BY <1>d, <1>l, <2>4, <2>5
<1>1. ASSUME NEW r \in Requests, NEW b \in Books, NEW k \in Kinds, NEW who \in Callers,
             GetBook(r, b, k, who)
      PROVE  BalanceInv'
  <2>1. SameSums /\ charged' = charged /\ repaid' = repaid /\ unposted' = unposted
        /\ pc[r] = "new" /\ pc' = [pc EXCEPT ![r] = "access"]
    BY <1>1 DEF GetBook
  <2> QED
    BY <1>c, <1>t, <2>1
<1>2. ASSUME NEW r \in Requests,
             \/ CheckAccess(r) \/ CheckInFlight(r) \/ Refuse(r) \/ UpdateBookBuildKind(r)
             \/ ClaimBookForBuild(r) \/ Unclaim(r) \/ AcquireBuildSlot(r)
             \/ StoreOutput(r) \/ ToolFails(r) \/ MarkReady(r) \/ MarkError(r)
             \/ RereadBook(r) \/ LookupPass(r)
      PROVE  BalanceInv'
  <2>1. SameSums /\ charged' = charged /\ repaid' = repaid /\ unposted' = unposted
    BY <1>2 DEF CheckAccess, CheckInFlight, Refuse, UpdateBookBuildKind, ClaimBookForBuild,
        Unclaim, AcquireBuildSlot, StoreOutput, ToolFails, MarkReady, MarkError, RereadBook,
        LookupPass
  <2>2. /\ pc[r] \notin {"debitrow", "refundrow"} /\ pc'[r] \notin {"debitrow", "refundrow"}
        /\ \A s \in Requests \ {r} : pc'[s] = pc[s]
    BY <1>2, <1>t DEF CheckAccess, CheckInFlight, Refuse, UpdateBookBuildKind, ClaimBookForBuild,
        AfterClaim, Unclaim, AcquireBuildSlot, StoreOutput, ToolFails, MarkReady, MarkError,
        RereadBook, LookupPass, HandlerSteps
  <2> QED
    BY <1>c, <2>1, <2>2
<1>3. ASSUME NEW r \in Requests, ReserveBuildCredit(r)
      PROVE  BalanceInv'
  <2>1. CASE MayCharge(r)
    <3>1. pc[r] = "reserve" /\ charged[r] = NoProject /\ repaid[r] = NoProject /\ r \notin unposted
          /\ job[r].proj \in Projects
      BY <1>3, <1>h DEF ReserveBuildCredit, ChargeOf
    <3>2. PICK p \in Projects : p = job[r].proj
      BY <3>1
    <3>3. /\ used' = [used EXCEPT ![p] = @ + 1] /\ charged' = [charged EXCEPT ![r] = p]
          /\ pc' = [pc EXCEPT ![r] = "debitrow"] /\ repaid' = repaid /\ unposted' = unposted
          /\ ledger' = ledger /\ extra' = extra /\ unlisted' = unlisted /\ clamped' = clamped
      BY <1>3, <2>1, <3>2 DEF ReserveBuildCredit
    <3>4. r \notin Owed(p) /\ Owed(p)' = Owed(p) \cup {r}
      BY <1>t, <3>1, <3>3 DEF Owed
    <3>5. Cardinality(Owed(p)') = Cardinality(Owed(p)) + 1
      BY <1>f, <3>4, FS_AddElement
    <3>6. \A q \in Projects : Due(q)' = Due(q)
      BY <1>t, <3>1, <3>3 DEF Due
    <3>7. \A q \in Projects : q # p => Owed(q)' = Owed(q) /\ used'[q] = used[q]
      BY <1>t, <3>1, <3>3 DEF Owed
    <3>8. used'[p] = used[p] + 1
      BY <1>t, <3>3
    <3>9. Balanced(p)'
      <4>1. Due(p)' = Due(p) /\ Balanced(p)
        BY <1>0, <3>6
      <4> QED
        BY <1>f, <1>t, <3>3, <3>5, <3>8, <4>1 DEF Balanced
    <3>10. \A q \in Projects : q # p => Balanced(q)'
      BY <1>b, <3>3, <3>6, <3>7
    <3> QED
      BY <3>9, <3>10 DEF BalanceInv
  <2>2. CASE ~MayCharge(r)
    <3>1. SameSums /\ charged' = charged /\ repaid' = repaid /\ unposted' = unposted
          /\ pc[r] = "reserve" /\ pc' = [pc EXCEPT ![r] = "unclaim"]
      BY <1>3, <2>2 DEF ReserveBuildCredit
    <3> QED
      BY <1>c, <1>t, <3>1
  <2> QED
    BY <2>1, <2>2
<1>4. ASSUME NEW r \in Requests, DebitRow(r)
      PROVE  BalanceInv'
  <2>1. CASE Present(job[r].book)
    <3>1. pc[r] = "debitrow" /\ charged[r] = job[r].proj /\ job[r].proj \in Projects
          /\ repaid[r] = NoProject /\ r \notin unposted
      BY <1>4, <1>h DEF DebitRow, ChargeOf
    <3>2. PICK p \in Projects : p = job[r].proj
      BY <3>1
    <3>3. /\ ledger' = [ledger EXCEPT ![p] = @ - 1] /\ pc' = [pc EXCEPT ![r] = "queued"]
          /\ used' = used /\ extra' = extra /\ unlisted' = unlisted /\ clamped' = clamped
          /\ charged' = charged /\ repaid' = repaid /\ unposted' = unposted
      BY <1>4, <2>1, <3>2 DEF DebitRow
    <3>4. r \in Owed(p) /\ Owed(p)' = Owed(p) \ {r}
      BY <1>t, <3>1, <3>2, <3>3 DEF Owed
    <3>5. Cardinality(Owed(p)') = Cardinality(Owed(p)) - 1
      BY <1>f, <3>4, FS_RemoveElement, ZenonT(30)
    <3>6. \A q \in Projects : Due(q)' = Due(q)
      BY <1>t, <3>1, <3>3 DEF Due
    <3>7. \A q \in Projects : q # p => Owed(q)' = Owed(q) /\ ledger'[q] = ledger[q]
      BY <1>t, <3>1, <3>2, <3>3 DEF Owed
    <3>8. ledger'[p] = ledger[p] - 1
      BY <1>t, <3>3
    <3>9. Balanced(p)'
      <4>1. Due(p)' = Due(p) /\ Balanced(p)
        BY <1>0, <3>6
      <4> QED
        BY <1>f, <1>t, <3>3, <3>5, <3>8, <4>1 DEF Balanced
    <3>10. \A q \in Projects : q # p => Balanced(q)'
      BY <1>b, <3>3, <3>6, <3>7
    <3> QED
      BY <3>9, <3>10 DEF BalanceInv
  <2>2. CASE ~Present(job[r].book)
    <3>1. SameSums /\ charged' = charged /\ repaid' = repaid /\ unposted' = unposted \cup {r}
          /\ pc[r] = "debitrow" /\ pc' = [pc EXCEPT ![r] = "unclaim"]
      BY <1>4, <2>2 DEF DebitRow
    <3> QED
      BY <1>l, <1>t, <3>1
  <2> QED
    BY <2>1, <2>2
<1>5. ASSUME NEW r \in Requests, RefundBuildCredit(r)
      PROVE  BalanceInv'
  <2>0. refund[r] \in Projects /\ repaid[r] = NoProject /\ r \notin unposted /\ pc[r] = "refund"
    BY <1>5, <1>h DEF RefundBuildCredit, ChargeOf, TypeOK
  <2>1. PICK p \in Projects : p = refund[r]
    BY <2>0
  <2>2. /\ \/ used[p] > 0 /\ used' = [used EXCEPT ![p] = @ - 1] /\ clamped' = clamped
           \/ clamped' = [clamped EXCEPT ![p] = @ + 1] /\ used' = used
        /\ repaid' = [repaid EXCEPT ![r] = p]
        /\ pc' = [pc EXCEPT ![r] = "refundrow"]
        /\ ledger' = ledger /\ extra' = extra /\ charged' = charged /\ unlisted' = unlisted
        /\ unposted' = unposted
    BY <1>5, <2>1 DEF RefundBuildCredit
  <2>3. clamped'[p] - used'[p] = clamped[p] - used[p] + 1 /\ clamped'[p] \in Nat /\ used'[p] \in Nat
    BY <1>t, <2>2
  <2>4. r \notin Due(p) /\ Due(p)' = Due(p) \cup {r}
    BY <1>t, <2>0, <2>2 DEF Due
  <2>5. Cardinality(Due(p)') = Cardinality(Due(p)) + 1
    BY <1>f, <2>4, FS_AddElement
  <2>6. \A q \in Projects : Owed(q)' = Owed(q)
    BY <1>t, <2>0, <2>2 DEF Owed
  <2>7. \A q \in Projects : q # p => Due(q)' = Due(q) /\ used'[q] = used[q] /\ clamped'[q] = clamped[q]
    BY <1>t, <2>0, <2>2 DEF Due
  <2>8. Balanced(p)'
    <3>1. Owed(p)' = Owed(p) /\ Balanced(p)
      BY <1>0, <2>6
    <3> QED
      BY <1>f, <1>t, <2>2, <2>3, <2>5, <3>1 DEF Balanced
  <2>9. \A q \in Projects : q # p => Balanced(q)'
    BY <1>b, <2>2, <2>6, <2>7
  <2> QED
    BY <2>8, <2>9 DEF BalanceInv
<1>6. ASSUME NEW r \in Requests, RefundRow(r)
      PROVE  BalanceInv'
  <2>1. CASE Present(job[r].book)
    <3>1. pc[r] = "refundrow" /\ repaid[r] = refund[r] /\ refund[r] \in Projects /\ r \notin unposted
      BY <1>6, <1>h DEF RefundRow, ChargeOf
    <3>2. PICK p \in Projects : p = refund[r]
      BY <3>1
    <3>3. /\ ledger' = [ledger EXCEPT ![p] = @ + 1] /\ pc' = [pc EXCEPT ![r] = "failed"]
          /\ used' = used /\ extra' = extra /\ unlisted' = unlisted /\ clamped' = clamped
          /\ charged' = charged /\ repaid' = repaid /\ unposted' = unposted
      BY <1>6, <2>1, <3>2 DEF RefundRow
    <3>4. r \in Due(p) /\ Due(p)' = Due(p) \ {r}
      BY <1>t, <3>1, <3>2, <3>3 DEF Due
    <3>5. Cardinality(Due(p)') = Cardinality(Due(p)) - 1
      BY <1>f, <3>4, FS_RemoveElement, ZenonT(30)
    <3>6. \A q \in Projects : Owed(q)' = Owed(q)
      BY <1>t, <3>1, <3>3 DEF Owed
    <3>7. \A q \in Projects : q # p => Due(q)' = Due(q) /\ ledger'[q] = ledger[q]
      BY <1>t, <3>1, <3>2, <3>3 DEF Due
    <3>8. ledger'[p] = ledger[p] + 1
      BY <1>t, <3>3
    <3>9. Balanced(p)'
      <4>1. Owed(p)' = Owed(p) /\ Balanced(p)
        BY <1>0, <3>6
      <4> QED
        BY <1>f, <1>t, <3>3, <3>5, <3>8, <4>1 DEF Balanced
    <3>10. \A q \in Projects : q # p => Balanced(q)'
      BY <1>b, <3>3, <3>6, <3>7
    <3> QED
      BY <3>9, <3>10 DEF BalanceInv
  <2>2. CASE ~Present(job[r].book)
    <3>1. SameSums /\ charged' = charged /\ repaid' = repaid /\ unposted' = unposted \cup {r}
          /\ pc[r] = "refundrow" /\ pc' = [pc EXCEPT ![r] = "failed"]
      BY <1>6, <2>2 DEF RefundRow
    <3> QED
      BY <1>l, <1>t, <3>1
  <2> QED
    BY <2>1, <2>2
<1>7. ASSUME NEW q \in Projects, NEW n \in 1..MaxExtra, GrantPassBuilds(q, n) \/ AddPassExtras(q, n)
      PROVE  BalanceInv'
  <2>1. /\ extra' = [extra EXCEPT ![q] = @ + n] /\ used' = used /\ clamped' = clamped
        /\ \/ ledger' = [ledger EXCEPT ![q] = @ + n] /\ unlisted' = unlisted
           \/ unlisted' = [unlisted EXCEPT ![q] = @ + n] /\ ledger' = ledger
        /\ \A s \in Requests : Same(s)
    BY <1>7 DEF GrantPassBuilds, AddPassExtras
  <2>2. \A p \in Projects : Owed(p)' = Owed(p) /\ Due(p)' = Due(p)
    BY <2>1 DEF Owed, Due
  <2>3. Balanced(q)'
    <3>1. extra'[q] = extra[q] + n /\ ledger'[q] - (-unlisted'[q]) = ledger[q] + unlisted[q] + n
          /\ ledger'[q] \in Int /\ unlisted'[q] \in Nat
      BY <1>t, <2>1
    <3>2. Balanced(q) /\ Owed(q)' = Owed(q) /\ Due(q)' = Due(q)
      BY <1>0, <2>2
    <3> QED
      BY <1>f, <1>t, <2>1, <3>1, <3>2 DEF Balanced
  <2>4. \A p \in Projects : p # q => /\ extra'[p] = extra[p] /\ ledger'[p] = ledger[p]
                                     /\ unlisted'[p] = unlisted[p]
    BY <1>t, <2>1
  <2>5. \A p \in Projects : p # q => Balanced(p)'
    BY <1>b, <2>1, <2>2, <2>4
  <2> QED
    BY <2>3, <2>5 DEF BalanceInv
<1>8. ASSUME NEW r \in Requests, Disconnect(r) \/ DBError(r)
      PROVE  BalanceInv'
  <2>1. SameSums /\ charged' = charged /\ repaid' = repaid
        /\ pc'[r] \notin {"debitrow", "refundrow"} /\ \A s \in Requests \ {r} : pc'[s] = pc[s]
    BY <1>8, <1>t DEF Disconnect, DBError, RefundSteps
  <2>2. CASE pc[r] \in {"debitrow", "refundrow"}
    <3>1. unposted' = unposted \cup {r}
      BY <1>8, <2>2 DEF Disconnect, DBError, HandlerSteps, RefundSteps
    <3> QED
      BY <1>l, <2>1, <2>2, <3>1
  <2>3. CASE pc[r] \notin {"debitrow", "refundrow"}
    <3>1. unposted' = unposted
      BY <1>8, <2>3 DEF Disconnect, DBError
    <3> QED
      BY <1>c, <2>1, <2>3, <3>1
  <2> QED
    BY <2>2, <2>3
<1>9. CASE Crash
  <2>1. /\ SameSums /\ charged' = charged /\ repaid' = repaid
        /\ unposted' = unposted \cup {r \in Requests : pc[r] \in {"debitrow", "refundrow"}}
        /\ \A r \in Requests : pc'[r] \notin {"debitrow", "refundrow"}
    BY <1>9, <1>t DEF Crash, EndSteps
  <2>2. ASSUME NEW r \in Requests
        PROVE  /\ pc[r] = "debitrow" => repaid[r] = NoProject
               /\ pc[r] = "refundrow" => repaid[r] # NoProject
    BY <1>h DEF ChargeOf
  <2>3. \A p \in Projects : Owed(p)' = Owed(p)
    BY <2>1, <2>2 DEF Owed
  <2>4. \A p \in Projects : Due(p)' = Due(p)
    BY <2>1, <2>2, FactoryAssumption DEF Due
  <2> QED
    BY <1>d, <2>1, <2>3, <2>4
<1>10. CASE \/ \E b \in Books, p \in Links : UploadBook(b, p) \/ LinkBookProject(b, p)
            \/ \E b \in Books : DeleteBook(b)
            \/ \E p \in Projects : AttachPass(p) \/ SetPassStatus(p)
            \/ SetFinalsGate
  BY <1>10, <1>e DEF UploadBook, LinkBookProject, DeleteBook, AttachPass, SetPassStatus, SetFinalsGate
<1>11. CASE UNCHANGED vars
  BY <1>11, <1>e DEF vars
<1> QED
  BY <1>1, <1>2, <1>3, <1>4, <1>5, <1>6, <1>7, <1>8, <1>9, <1>10, <1>11
  DEF Next, Handler, Build, Environment

\* For any finite number of requests, under every event and fault: pass_ledger
\* sums to the account but for the builds bought in the store and the rows a
\* fault has kept out, the clamp swallows at most what strayed refunds took,
\* and no build runs whose debit has no row.
THEOREM LedgerExplains ==
  ASSUME IsFiniteSet(Requests)
  PROVE  Spec => []LedgerMatches
<1>1. TypeOK /\ AccountInv /\ CountInv /\ [Next]_vars => CountInv'
  BY CountStep DEF AccountInv
<1>2. TypeOK /\ AccountInv /\ BalanceInv /\ [Next]_vars => BalanceInv'
  BY LedgerStep DEF AccountInv
<1>3. Init => BalanceInv
  <2> SUFFICES ASSUME Init, NEW p \in Projects PROVE Balanced(p)
    BY DEF BalanceInv
  <2>1. Owed(p) = {} /\ Due(p) = {}
    BY FactoryAssumption DEF Init, Owed, Due
  <2> QED
    BY <2>1, FS_EmptySet DEF Init, Balanced
<1>4. TypeOK /\ AccountInv /\ CountInv /\ BalanceInv => LedgerMatches
  <2> SUFFICES ASSUME TypeOK, AccountInv, CountInv, BalanceInv PROVE LedgerMatches
    OBVIOUS
  <2>1. \A r \in unposted : repaid[r] # NoProject \/ pc[r] \in {"unclaim", "refused", "lost"}
    BY DEF TypeOK, AccountInv, ChargeInv, ChargeOf
  <2> QED
    BY <2>1 DEF BalanceInv, Balanced, CountInv, LedgerMatches
<1> QED
  BY <1>1, <1>2, <1>3, <1>4, AccountInit, AccountStep, CountInit, TypeCorrect, PTL DEF Spec

=============================================================================
