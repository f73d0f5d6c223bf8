---------------------------- MODULE PaymentBook ----------------------------
(***************************************************************************)
(* What the Pay-In API promises about money, without statuses, handlers or *)
(* retries: every order has one entry in the books.  A payment fills it, a *)
(* correction replaces it and nothing ever empties it or adds to it; and   *)
(* an order that counts as paid is paid exactly what the books charge.     *)
(***************************************************************************)
EXTENDS Integers

CONSTANTS Requests,     \* one order per merchant request id
          Amounts       \* what a payer may be reported to have paid

VARIABLES charged,      \* charged[o]: what the books moved for order o
          owed          \* owed[o]: what order o counts as paid, 0 if unpaid

bookVars == <<charged, owed>>

BookInit ==
    /\ charged = [o \in Requests |-> 0]
    /\ owed = [o \in Requests |-> 0]

\* A paid outcome: the entry is filled or corrected to the amount paid.
Charge(o, x) ==
    /\ charged' = [charged EXCEPT ![o] = x]
    /\ owed' = [owed EXCEPT ![o] = x]

\* Orders stop counting as paid (dispute, cancellation); the books keep what
\* they charged until a decision corrects it.
Suspend(S) ==
    /\ owed' = [o \in Requests |-> IF o \in S THEN 0 ELSE owed[o]]
    /\ UNCHANGED charged

BookNext ==
    \/ \E o \in Requests, x \in Amounts : Charge(o, x)
    \/ \E S \in SUBSET Requests : Suspend(S)

BookSpec == BookInit /\ [][BookNext]_bookVars
=============================================================================
