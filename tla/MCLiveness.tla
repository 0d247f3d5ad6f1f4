----------------------------- MODULE MCLiveness -----------------------------
(***************************************************************************)
(* What must happen in the end, at two desks that share no row: the store  *)
(* that fulfils what was paid, and the drafting of an index. A behaviour   *)
(* picks one, and each desk has the fairness its own module states.        *)
(***************************************************************************)
EXTENDS StoreFulfilment, IndexDraft

CONSTANT LiveDesks
VARIABLE desk

liveVars == <<vars, indexVars, desk>>

LiveInit == desk \in LiveDesks /\ Init /\ IndexInit

StoreDesk(A) == desk = "store" /\ A /\ UNCHANGED <<indexVars, desk>>
IndexDesk(A) == desk = "index" /\ A /\ UNCHANGED <<vars, desk>>

\* Fairness and IndexFairness, each at its desk.
DeskFairness ==
  /\ \A p \in Callers : WF_liveVars(StoreDesk(Fulfil(p))) /\ SF_liveVars(StoreDesk(Lock(p)))
  /\ \A s \in Sessions : WF_liveVars(StoreDesk(DeliverMail(s)))
  /\ WF_liveVars(StoreDesk(StorePoller))
  /\ \A d \in Drafts : WF_liveVars(IndexDesk(DraftStep(d))) /\ WF_liveVars(IndexDesk(RunStep(d)))

LiveSpec == LiveInit /\ [][StoreDesk(Next) \/ IndexDesk(IndexNext)]_liveVars /\ DeskFairness
=============================================================================
