---------------------------- MODULE PayinStates ----------------------------
(***************************************************************************)
(* The Pay-In status graph of packages/shared/src/state-machines.ts and    *)
(* the status groups that the API derives from it (payin-volume.ts,        *)
(* constants.ts).  Constant-level only: PayinOrders walks this graph.      *)
(***************************************************************************)
EXTENDS Integers

\* "NONE" stands for a request id no order row exists for yet.
PayInOrderStatus ==
    {"NONE", "PENDING", "NEW", "VERIFIED", "PAID", "UNDERPAID", "OVERPAID",
     "CANCELED", "APPEAL", "UPLOAD_FAILED", "NO_REQUISITE"}

PaidOutcomes == {"PAID", "UNDERPAID", "OVERPAID"}

\* The edges of the graph: the statuses an order may move to from each status.
PayinTransitions ==
    [s \in PayInOrderStatus |->
        CASE s = "PENDING"      -> PaidOutcomes \cup {"NEW", "UPLOAD_FAILED", "CANCELED"}
          [] s = "NEW"          -> PaidOutcomes \cup {"VERIFIED", "CANCELED", "APPEAL"}
          [] s = "VERIFIED"     -> PaidOutcomes \cup {"CANCELED"}
          [] s \in PaidOutcomes -> {"APPEAL"}
          [] s = "CANCELED"     -> PaidOutcomes \cup {"APPEAL"}
          [] s = "APPEAL"       -> PaidOutcomes \cup {"CANCELED"}
          [] s = "NO_REQUISITE" -> {"CANCELED"}
          [] OTHER              -> {}]

ValidPayInTransition(from, to) == to \in PayinTransitions[from]

\* Statuses in which an order keeps its amount to itself on its requisite.
SameAmountBlocking == {"NEW", "VERIFIED"}

\* Statuses of an assigned order that was not settled yet.
PreSettlement == {"PENDING", "NEW", "VERIFIED"}

\* Statuses of an order that gave its slot on the requisite back.
ReleasedStatuses == {"NONE", "CANCELED"}

\* The paid outcome a reported amount leads to for an order of some amount.
PaidOutcome(reported, amount) ==
    IF reported = amount THEN "PAID"
    ELSE IF reported < amount THEN "UNDERPAID" ELSE "OVERPAID"
=============================================================================
