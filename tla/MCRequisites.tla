---------------------------- MODULE MCRequisites ----------------------------
(***************************************************************************)
(* Instances of Requisites for TLC.                                        *)
(***************************************************************************)
EXTENDS Requisites, TLC

CONSTANTS g1, r1, r2, n1, p1, p2

OneGroup == {g1}
TwoRequisites == {r1, r2}
TwoHandlers == {p1, p2}
SameGroup == [r \in Requisites |-> g1]
OneNumber == [r \in Requisites |-> n1]

Symmetry == Permutations(Requisites) \cup Permutations(Handlers)
=============================================================================
