------------------------- MODULE MCExploreOperation -------------------------
(***************************************************************************)
(* Small measurement spaces for TLC: two independent experiments a and b,  *)
(* and an experiment d that a's result enables.                            *)
(***************************************************************************)
EXTENDS ExploreOperation

CONSTANTS a, b, d, operator

AB == <<a, b>>
A == <<a>>
DependsOnA == [e \in Experiments |-> IF e = a THEN <<d>> ELSE <<>>]
NoDependents == [e \in Experiments |-> <<>>]

=============================================================================
