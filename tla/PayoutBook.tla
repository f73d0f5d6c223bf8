----------------------------- MODULE PayoutBook -----------------------------
(***************************************************************************)
(* What the platform promises about the money of Pay-Out orders, whatever  *)
(* happens to their status: the reserve of an order is held until it is    *)
(* paid out or returned to the merchant, all of it, once.                  *)
(***************************************************************************)
EXTENDS Integers

CONSTANTS Requests, Debit

VARIABLES held, paid, returned

bookVars == <<held, paid, returned>>

BookInit ==
    /\ held = [o \in Requests |-> 0]
    /\ paid = [o \in Requests |-> 0]
    /\ returned = [o \in Requests |-> 0]

\* Only a reserve that was never spent is taken.
Hold(o) ==
    /\ held[o] = 0 /\ paid[o] = 0 /\ returned[o] = 0
    /\ held' = [held EXCEPT ![o] = Debit[o]]
    /\ UNCHANGED <<paid, returned>>

PayOut(o) ==
    /\ held[o] = Debit[o]
    /\ held' = [held EXCEPT ![o] = 0]
    /\ paid' = [paid EXCEPT ![o] = Debit[o]]
    /\ UNCHANGED returned

GiveBack(o) ==
    /\ held[o] = Debit[o]
    /\ held' = [held EXCEPT ![o] = 0]
    /\ returned' = [returned EXCEPT ![o] = Debit[o]]
    /\ UNCHANGED paid

BookNext == \E o \in Requests : Hold(o) \/ PayOut(o) \/ GiveBack(o)

BookSpec == BookInit /\ [][BookNext]_bookVars
=============================================================================
