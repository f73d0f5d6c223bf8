---------------------------- MODULE MCWalletSweep ----------------------------
(***************************************************************************)
(* Instances of WalletSweep for TLC.                                       *)
(***************************************************************************)
EXTENDS WalletSweep, TLC

CONSTANTS a, t1, s1, s2

NoTransfer == {}
OneTron == {a}
OneTrader  == {t1}
OwnerIsFirst == [t \in Transfers |-> t1]
NoScan   == {}
TwoScans == {s1, s2}

Symmetry == Permutations(TronScans)
=============================================================================
