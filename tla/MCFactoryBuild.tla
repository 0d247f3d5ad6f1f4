--------------------------- MODULE MCFactoryBuild ---------------------------
(***************************************************************************)
(* FactoryBuild on small instances.                                        *)
(***************************************************************************)
EXTENDS FactoryBuild, TLC

\* Ids are interchangeable: no action or property tells two of them apart.
Symmetry == Permutations(Books) \cup Permutations(Projects) \cup Permutations(Requests)

=============================================================================
