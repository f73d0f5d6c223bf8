------------------------- MODULE RequisiteCounters -------------------------
(***************************************************************************)
(* The arithmetic of one row of table requisites, as the statements of     *)
(* requisites.service.ts compute it.  A row is a record                    *)
(*   [ops, amount, confirmed, limitOps, limitAmount, active, reason]       *)
(* (used_ops, used_amount, confirmed_payin_amount, the two caps, is_active *)
(* and disabled_reason).  Constant-level: every operator maps a row to the *)
(* row the statement leaves behind.                                        *)
(***************************************************************************)
EXTENDS Integers

LimitReasons == {"LIMIT_AMOUNT", "LIMIT_TX"}

RequisiteRow ==
    [ops: Nat, amount: Nat, confirmed: Nat, limitOps: Nat, limitAmount: Nat,
     active: BOOLEAN, reason: LimitReasons \cup {"NONE", "MANUAL"}]

AtLeastZero(n) == IF n < 0 THEN 0 ELSE n

\* One of the two caps is reached.
Full(row) == row.amount >= row.limitAmount \/ row.ops >= row.limitOps

\* Mutant: a requisite at its operation cap takes one more order.
CanReserveOneMore(row, x) ==
    /\ row.amount + x <= row.limitAmount
    /\ row.ops <= row.limitOps

\* The condition of the conditional UPDATE: one more order of this amount fits.
CanReserve(row, x) ==
    /\ row.amount + x <= row.limitAmount
    /\ row.ops + 1 <= row.limitOps

\* The UPDATE itself and the auto-disable that follows it; the amount cap names
\* the reason when both are reached.
Reserve(row, x) ==
    LET used == [row EXCEPT !.ops = @ + 1, !.amount = @ + x]
    IN  IF Full(used)
        THEN [used EXCEPT !.active = FALSE,
                          !.reason = IF used.amount >= used.limitAmount
                                     THEN "LIMIT_AMOUNT" ELSE "LIMIT_TX"]
        ELSE used

\* Mutant: the confirmed volume is not clamped.
AdjustUnclamped(row, delta) == [row EXCEPT !.confirmed = @ + delta]

\* GREATEST(0, confirmed + delta).
AdjustConfirmed(row, delta) == [row EXCEPT !.confirmed = AtLeastZero(@ + delta)]

\* Mutant: a release never turns a requisite on again.
ReenabledNever(row) == row

\* A row turned off by a cap, and only by a cap, is turned on again once both
\* caps have headroom.
Reenabled(row) ==
    IF ~row.active /\ row.reason \in LimitReasons /\ ~Full(row)
    THEN [row EXCEPT !.active = TRUE, !.reason = "NONE"]
    ELSE row

\* The release of one order: the counters are computed from values read
\* earlier (seen) and written as absolute values, clamped at zero.
Release(row, seen, x) ==
    Reenabled([row EXCEPT !.ops    = AtLeastZero(seen.ops - 1),
                          !.amount = AtLeastZero(seen.amount - x)])
=============================================================================
