------------------------------ MODULE MCCascade ------------------------------
(***************************************************************************)
(* An instance of Cascade for TLC: two requisites of a FORK trader, so     *)
(* that each upload whose primary level is CARD lands on the other level.  *)
(***************************************************************************)
EXTENDS Cascade, TLC

CONSTANTS u1, u2, r1, r2, t1, x1

TwoUploads == {u1, u2}
TwoRequisites == {r1, r2}
OneTrader == {t1}
OneAmount == {x1}
Owners == (r1 :> t1) @@ (r2 :> t1)
Methods == t1 :> "FORK"
=============================================================================
