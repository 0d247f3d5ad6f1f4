------------------------------ MODULE Positions ------------------------------
(***************************************************************************)
(* Loops of the code that collect places in a sequence and that add up     *)
(* lengths, without a state of their own: used where a manuscript is cut   *)
(* (BookMap, IndexPlaces) and where entries are collected (IndexEntries).  *)
(***************************************************************************)
EXTENDS Integers, Sequences, FiniteSets

\* How many of the set come before i.
Rank(S, i) == Cardinality({j \in S : j < i})

\* A set of places, in the order of the text.
Ascending(S) == [k \in 1..Cardinality(S) |-> CHOOSE i \in S : Rank(S, i) = k - 1]

\* What stands at some places of a sequence, in its order.
Picked(s, S) == LET at == Ascending(S) IN [k \in DOMAIN at |-> s[at[k]]]

First(S) == CHOOSE i \in S : \A j \in S : i <= j

\* A sequence of numbers, added up.
SumOf(s) ==
    LET sum[n \in 0..Len(s)] == IF n = 0 THEN 0 ELSE sum[n - 1] + s[n]
    IN sum[Len(s)]
=============================================================================
