------------------------------ MODULE Delivery ------------------------------
(***************************************************************************)
(* What the store promises of each Checkout Session, whoever works on it:  *)
(* it is paid, its goods are delivered once, and the delivery is recorded. *)
(* StoreFulfilment implements it (OnceOnly).                               *)
(***************************************************************************)
EXTENDS Naturals

CONSTANTS
  Sessions,  \* Checkout Sessions
  Atomic     \* those whose delivery and record are one commit

VARIABLES
  paid,      \* the sessions that are paid
  delivered, \* delivered[s]: times the goods of s were delivered
  recorded   \* the sessions with an order

Init ==
  /\ paid = {}
  /\ delivered = [s \in Sessions |-> 0]
  /\ recorded = {}

Pay(s) ==
  /\ s \notin paid
  /\ paid' = paid \cup {s}
  /\ UNCHANGED <<delivered, recorded>>

Deliver(s) ==
  /\ s \in paid /\ delivered[s] = 0
  /\ delivered' = [delivered EXCEPT ![s] = 1]
  /\ recorded' = IF s \in Atomic THEN recorded \cup {s} ELSE recorded
  /\ UNCHANGED paid

\* May never come, when the call ends first.
Record(s) ==
  /\ delivered[s] = 1
  /\ recorded' = recorded \cup {s}
  /\ UNCHANGED <<paid, delivered>>

Next == \E s \in Sessions : Pay(s) \/ Deliver(s) \/ Record(s)

Spec == Init /\ [][Next]_<<paid, delivered, recorded>>
=============================================================================
