--------------------------- MODULE MCPayinOrders ---------------------------
(***************************************************************************)
(* Instances of PayinOrders for TLC.                                       *)
(***************************************************************************)
EXTENDS PayinOrders, TLC

CONSTANTS o1, o2, o3, r1, t1, a1, p1, p2

OneRequest  == {o1}
TwoRequests == {o1, o2}
ThreeRequests == {o1, o2, o3}
OneRequisite  == {r1}
OneTrader == {t1}
OneOwner == (r1 :> t1)
OneAppeal  == {a1}
OneHandler  == {p1}
TwoHandlers == {p1, p2}

\* The caps: one operation, two operations; amounts 2 and 3.
OneOp  == (r1 :> 1)
TwoOps == (r1 :> 2)
AmountTwo   == (r1 :> 2)
AmountThree == (r1 :> 3)

Symmetry == Permutations(Requests) \cup Permutations(Appeals) \cup Permutations(Handlers)
=============================================================================
