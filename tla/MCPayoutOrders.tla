--------------------------- MODULE MCPayoutOrders ---------------------------
(***************************************************************************)
(* Instances of PayoutOrders for TLC.                                      *)
(***************************************************************************)
EXTENDS PayoutOrders, TLC

CONSTANTS o1, o2, t1, t2, s1, p1, p2

OneRequest  == {o1}
TwoRequests == {o1, o2}
OneTrader  == {t1}
TwoTraders == {t1, t2}
OneSpecialist == {s1}
OneHandler  == {p1}
TwoHandlers == {p1, p2}
UnitDebit == [o \in Requests |-> 1]

Symmetry == Permutations(Requests) \cup Permutations(Traders) \cup Permutations(Handlers)
=============================================================================
