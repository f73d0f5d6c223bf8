--------------------------- MODULE MCWalletDeposits ---------------------------
(***************************************************************************)
(* Instances of WalletDeposits for TLC.                                    *)
(***************************************************************************)
EXTENDS WalletDeposits

CONSTANTS a, e, t1, t2, s1, g1

NoTransfer == {}
OneTron == {a}
OneEth  == {e}
OneTrader  == {t1}
TwoTraders == {t1, t2}
OwnerIsFirst == [t \in Transfers |-> t1]
OneScan  == {s1}
OneEthScan == {g1}
=============================================================================
