---------------------------- MODULE PayinOrders ----------------------------
(***************************************************************************)
(* Pay-In orders: every handler of payin.service.ts that writes an order,  *)
(* with the rows it touches in the same transaction or after it -- the     *)
(* appeal, the requisite's counters, the platform income, the merchant and *)
(* trader ledgers and the webhook outbox.                                  *)
(*                                                                         *)
(* A handler reads the order, validates the transition and only then opens *)
(* the transaction that writes; PostgreSQL runs it at Read Committed.  So  *)
(* a call is a Begin action, which stores what it read in job[p], and a    *)
(* Commit action, which writes from that snapshot.  Commits are atomic:    *)
(* each locks the rows it changes with its first writes and reads nothing  *)
(* it decides on from an unlocked row afterwards.  Closing an appeal reads *)
(* inside its transaction and has a third step; releasing a requisite's    *)
(* slot is a transaction of its own after the commit, a read and a write.  *)
(*                                                                         *)
(* All orders are in UAH, the only currency that settles.  Amounts booked  *)
(* are kept in the order's fiat: the merchant's and the trader's sides are *)
(* that amount times rates fixed on the order row.                         *)
(***************************************************************************)
EXTENDS Integers, FiniteSets, Functions, PayinStates, RequisiteCounters

CONSTANTS
    Requests,         \* request ids merchants may upload; each names one order
    Requisites,       \* traders' bank cards
    Traders,
    Owner,            \* Owner[r]: the trader of requisite r
    LimitOps,         \* LimitOps[r]: limit_total_ops
    LimitAmount,      \* LimitAmount[r]: limit_total_amount
    OrderAmounts,     \* order amounts merchants ask for
    ReportedAmounts,  \* amounts traders and support report as received
    Appeals,          \* ids of appeal rows, a bound on how many are filed
    Handlers,         \* concurrent requests, a bound on how many run at once
    Operations,       \* the operations callers use in this instance
    ProviderTier,     \* an external provider takes what no requisite can
    MayFail,          \* a process may die, or the database fail, mid-call
    MaxConfirmed,     \* bound on confirmed_payin_amount, which races inflate
    None

AllOperations ==
    {"upload", "merchant", "page", "confirm", "cancel", "admin", "appeal",
     "close", "provider", "deactivate"}

ASSUME ConstantsAssumption ==
    /\ IsFiniteSet(Requests)
    /\ Owner \in [Requisites -> Traders]
    /\ LimitOps \in [Requisites -> Nat \ {0}]
    /\ LimitAmount \in [Requisites -> Nat \ {0}]
    /\ OrderAmounts \subseteq Nat \ {0}
    /\ ReportedAmounts \subseteq Nat \ {0}
    /\ Operations \subseteq AllOperations
    /\ ProviderTier \in BOOLEAN
    /\ MayFail \in BOOLEAN
    /\ MaxConfirmed \in Nat
    /\ None \notin Requisites \cup Requests

VARIABLES
    order,      \* payin_orders, by request id
    appeal,     \* appeals
    requisite,  \* requisites
    enabled,    \* trader_profiles.is_active
    income,     \* platform_income.order_amount_local, 0: no row (unique per order)
    merchant,   \* sum of the PAYIN_CREDIT rows that reference the order
    trader,     \* sum of what the trader's balance was debited for the order
    notified,   \* status in the order's newest webhook_outbox row
    job         \* the call each handler is in the middle of

ledgers == <<income, merchant, trader>>
tables == <<order, appeal, requisite, enabled, income, merchant, trader, notified>>
vars == <<order, appeal, requisite, enabled, income, merchant, trader, notified, job>>

-----------------------------------------------------------------------------
(* Rows and jobs *)

PaidAmounts == OrderAmounts \cup ReportedAmounts

\* received = 0 is a NULL received_fiat_amount; provider tells an order with a
\* provider_external_ref; an order without requisite has no trader either.
OrderRow ==
    [status: PayInOrderStatus, amount: OrderAmounts \cup {0},
     req: Requisites \cup {None}, provider: BOOLEAN, received: PaidAmounts \cup {0}]

AppealRow ==
    [order: Requests \cup {None}, status: {"NONE", "OPEN", "RESOLVED", "REJECTED"},
     paid: ReportedAmounts \cup {0}]

NewOrder(status, amount, req, provider) ==
    [status |-> status, amount |-> amount, req |-> req, provider |-> provider,
     received |-> 0]
NoOrder == NewOrder("NONE", 0, None, FALSE)
NoAppeal == [order |-> None, status |-> "NONE", paid |-> 0]

Idle == [op |-> "idle"]

\* What a handler keeps between two of its database accesses.
UploadJob  == [op: {"upload"}, o: Requests, amount: OrderAmounts,
               picks: SUBSET Requisites]
StatusJob  == [op: {"status"}, o: Requests, snap: OrderRow,
               target: {"VERIFIED", "CANCELED"}]
PaidJob    == [op: {"paid"}, o: Requests, snap: OrderRow,
               target: PayInOrderStatus \ {"NONE"}, paid: PaidAmounts]
AppealJob  == [op: {"appeal"}, o: Requests, snap: OrderRow, paid: ReportedAmounts]
CloseJob   == [op: {"close"}, a: Appeals, decision: {"RESOLVED", "REJECTED"},
               paid: ReportedAmounts, actual: BOOLEAN]
ClosingJob == [op: {"closing"}, a: Appeals, o: Requests, snap: OrderRow,
               decision: {"RESOLVED", "REJECTED"}, paid: ReportedAmounts,
               actual: BOOLEAN]
ProviderJob   == [op: {"provider"}, o: Requests, target: {"PAID", "CANCELED"},
                  settled: BOOLEAN]
DeactivateJob == [op: {"deactivate"}, t: Traders]
CancelAllJob  == [op: {"cancelAll"}, orders: SUBSET Requests]
ReleaseJob    == [op: {"release"}, orders: SUBSET Requests]
ReleasingJob  == [op: {"releasing"}, o: Requests, orders: SUBSET Requests,
                  seen: [ops: Nat, amount: Nat]]

Job == {Idle} \cup UploadJob \cup StatusJob \cup PaidJob \cup AppealJob
         \cup CloseJob \cup ClosingJob \cup ProviderJob \cup DeactivateJob
         \cup CancelAllJob \cup ReleaseJob \cup ReleasingJob

TypeOK ==
    /\ order \in [Requests -> OrderRow]
    /\ appeal \in [Appeals -> AppealRow]
    /\ requisite \in [Requisites -> RequisiteRow]
    /\ enabled \in [Traders -> BOOLEAN]
    /\ income \in [Requests -> PaidAmounts \cup {0}]
    /\ merchant \in [Requests -> Int]
    /\ trader \in [Requests -> Int]
    /\ notified \in [Requests -> PayInOrderStatus]
    /\ job \in [Handlers -> Job]

Init ==
    /\ order = [o \in Requests |-> NoOrder]
    /\ appeal = [a \in Appeals |-> NoAppeal]
    /\ requisite = [r \in Requisites |->
           [ops |-> 0, amount |-> 0, confirmed |-> 0, limitOps |-> LimitOps[r],
            limitAmount |-> LimitAmount[r], active |-> TRUE, reason |-> "NONE"]]
    /\ enabled = [t \in Traders |-> TRUE]
    /\ income = [o \in Requests |-> 0]
    /\ merchant = [o \in Requests |-> 0]
    /\ trader = [o \in Requests |-> 0]
    /\ notified = [o \in Requests |-> "NONE"]
    /\ job = [p \in Handlers |-> Idle]

-----------------------------------------------------------------------------
(* Helpers *)

Uploaded(o) == order[o].status # "NONE"

\* Another order of the same amount still waits for its payment on r.
SameAmountHeld(r, x) ==
    \E o \in Requests : /\ order[o].req = r
                        /\ order[o].amount = x
                        /\ order[o].status \in SameAmountBlocking

\* What the cascade's snapshot lets a new order choose from.
Eligible(x) ==
    {r \in Requisites : /\ requisite[r].active
                        /\ enabled[Owner[r]]
                        /\ CanReserve(requisite[r], x)
                        /\ ~SameAmountHeld(r, x)}

\* A row lock or a cascade lock that another request may hold right now.
MayBeContended(p) == \E q \in Handlers \ {p} : job[q] # Idle

Begin(p, operation, j) ==
    /\ operation \in Operations
    /\ job[p] = Idle
    /\ job' = [job EXCEPT ![p] = j]
    /\ UNCHANGED tables

Continue(p, j) == job' = [job EXCEPT ![p] = j]

Finish(p) == Continue(p, Idle)

\* The order update of a handler and the outbox row it always comes with.
WriteOrder(o, row) ==
    /\ order' = [order EXCEPT ![o] = row]
    /\ notified' = [notified EXCEPT ![o] = row.status]

\* After a commit that canceled an order on a requisite, its slot is released.
ReleaseAfter(p, o, canceled) ==
    IF canceled /\ order[o].req # None
    THEN Continue(p, [op |-> "release", orders |-> {o}])
    ELSE Finish(p)

-----------------------------------------------------------------------------
(* Upload (upload_order and h2h_init) *)

BeginUpload(p) ==
    \E o \in Requests, x \in OrderAmounts :
        \E picks \in SUBSET Eligible(x) :
            Begin(p, "upload",
                  [op |-> "upload", o |-> o, amount |-> x, picks |-> picks])

\* The candidate passes the checks repeated under its row lock.
PassesUnderLock(r, x) == CanReserve(requisite[r], x) /\ ~SameAmountHeld(r, x)

AssignRequisite(p) ==
    /\ job[p].op = "upload"
    /\ \E r \in job[p].picks :
        LET o == job[p].o
            x == job[p].amount
        IN  /\ ~Uploaded(o)
            /\ PassesUnderLock(r, x)
            /\ WriteOrder(o, NewOrder("NEW", x, r, FALSE))
            /\ requisite' = [requisite EXCEPT ![r] = Reserve(@, x)]
    /\ Finish(p)
    /\ UNCHANGED <<appeal, enabled, ledgers>>

\* Every candidate failed a check or was skipped as locked by someone else.
NoRequisiteLeft(p) ==
    \A r \in job[p].picks : ~PassesUnderLock(r, job[p].amount) \/ MayBeContended(p)

UploadElsewhere(p) ==
    /\ job[p].op = "upload"
    /\ ~Uploaded(job[p].o)
    /\ NoRequisiteLeft(p)
    /\ \E provider \in {FALSE, ProviderTier} :
        WriteOrder(job[p].o, NewOrder(IF provider THEN "PENDING" ELSE "NO_REQUISITE",
                                      job[p].amount, None, provider))
    /\ Finish(p)
    /\ UNCHANGED <<appeal, requisite, enabled, ledgers>>

-----------------------------------------------------------------------------
(* Status updates without money: merchant, payment page, trader's cancel *)

\* Mutant: the transition is not validated.
BeginStatusUnchecked(p, operation, o, target) ==
    /\ Uploaded(o)
    /\ Begin(p, operation,
             [op |-> "status", o |-> o, snap |-> order[o], target |-> target])

BeginStatus(p, operation, o, target) ==
    /\ ValidPayInTransition(order[o].status, target)
    /\ Begin(p, operation,
             [op |-> "status", o |-> o, snap |-> order[o], target |-> target])

MerchantUpdate(p) ==
    \E o \in Requests, target \in {"VERIFIED", "CANCELED"} :
        BeginStatus(p, "merchant", o, target)

ConfirmFromPaymentPage(p) ==
    \E o \in Requests : BeginStatus(p, "page", o, "VERIFIED")

TraderCancelOrder(p) ==
    \E o \in Requests : /\ order[o].req # None
                        /\ BeginStatus(p, "cancel", o, "CANCELED")

\* Writes the status whatever it is by now, and nothing else of the row.
CommitStatus(p) ==
    /\ job[p].op = "status"
    /\ LET o == job[p].o
       IN  /\ WriteOrder(o, [order[o] EXCEPT !.status = job[p].target])
           /\ ReleaseAfter(p, o, job[p].target = "CANCELED")
    /\ UNCHANGED <<appeal, requisite, enabled, ledgers>>

-----------------------------------------------------------------------------
(* Paid transitions: trader's confirmation, admin override, appeal decision *)

\* Mutant: no unique income row stands in the way of a second credit.
CreditAgain(o, paid) ==
    /\ order[o].req # None
    /\ income' = [income EXCEPT ![o] = paid]
    /\ merchant' = [merchant EXCEPT ![o] = @ + paid]
    /\ trader' = [trader EXCEPT ![o] = @ + paid]

\* First credit of an order: needs its trader, and the income row is unique.
CreditOnPaid(o, paid) ==
    /\ order[o].req # None
    /\ income[o] = 0
    /\ income' = [income EXCEPT ![o] = paid]
    /\ merchant' = [merchant EXCEPT ![o] = @ + paid]
    /\ trader' = [trader EXCEPT ![o] = @ + paid]

\* Mutant: a settled order keeps the books it had before the appeal.
IgnoreCorrection(o, paid) == UNCHANGED ledgers

\* Mutant: the whole amount is credited on top, not the difference.
CorrectInFull(o, paid) ==
    /\ order[o].req # None
    /\ income' = [income EXCEPT ![o] = paid]
    /\ merchant' = [merchant EXCEPT ![o] = @ + paid]
    /\ trader' = [trader EXCEPT ![o] = @ + paid]

\* Correction after an appeal: both sides move by the difference to what was
\* settled before, the income becomes what was paid in the end.
AdjustOnAppeal(o, paid) ==
    LET delta == paid - income[o]
    IN  IF delta = 0
        THEN UNCHANGED ledgers
        ELSE /\ order[o].req # None
             /\ income' = [income EXCEPT ![o] = paid]
             /\ merchant' = [merchant EXCEPT ![o] = @ + delta]
             /\ trader' = [trader EXCEPT ![o] = @ + delta]

SettleBalances(o, from, paid) ==
    IF from = "APPEAL" /\ income[o] # 0
    THEN AdjustOnAppeal(o, paid)
    ELSE CreditOnPaid(o, paid)

\* Mutant: leaving a paid outcome does not take the volume back.
ConfirmedDeltaUp(snap, target, paid) ==
    IF snap.status \notin PaidOutcomes /\ target \in PaidOutcomes THEN paid ELSE 0

\* The change of the requisite's confirmed volume, judged on the snapshot.
ConfirmedDelta(snap, target, paid) ==
    CASE snap.status \in PaidOutcomes /\ target \notin PaidOutcomes -> - snap.received
      [] snap.status \notin PaidOutcomes /\ target \in PaidOutcomes -> paid
      [] OTHER -> 0

\* Mutant: a canceled order that turns out paid takes no slot.
ReclaimsNever(snap, target) == FALSE

\* A canceled order that turns out paid takes its slot again, within the caps.
Reclaims(snap, target) == snap.status = "CANCELED" /\ target \in PaidOutcomes

RequisiteAfterPaid(row, snap, target, paid) ==
    LET confirmed == AdjustConfirmed(row, ConfirmedDelta(snap, target, paid))
    IN  IF Reclaims(snap, target) THEN Reserve(confirmed, snap.amount) ELSE confirmed

ApplyPaidTransition(o, snap, target, paid) ==
    /\ Reclaims(snap, target) /\ snap.req # None
           => CanReserve(requisite[snap.req], snap.amount)
    /\ requisite' = [r \in Requisites |->
           IF r = snap.req THEN RequisiteAfterPaid(requisite[r], snap, target, paid)
                           ELSE requisite[r]]
    /\ \A r \in Requisites : requisite'[r].confirmed <= MaxConfirmed  \* the bound
    /\ WriteOrder(o, [order[o] EXCEPT
           !.status = target,
           !.received = IF target \in PaidOutcomes THEN paid ELSE 0])
    /\ IF target \in PaidOutcomes
       THEN SettleBalances(o, snap.status, paid)
       ELSE UNCHANGED ledgers

BeginPaid(p, operation, o, target, paid) ==
    /\ ValidPayInTransition(order[o].status, target)
    /\ Begin(p, operation, [op |-> "paid", o |-> o, snap |-> order[o],
                            target |-> target, paid |-> paid])

\* The trader confirms the order's amount or reports another one.
TraderConfirmPaid(p) ==
    \E o \in Requests, paid \in PaidAmounts :
        /\ order[o].req # None
        /\ paid \in ReportedAmounts \cup {order[o].amount}
        /\ BeginPaid(p, "confirm", o, PaidOutcome(paid, order[o].amount), paid)

\* An administrator may take any edge of the graph; paid means the full amount.
AdminUpdateStatus(p) ==
    \E o \in Requests, target \in PayInOrderStatus :
        /\ Uploaded(o)
        /\ BeginPaid(p, "admin", o, target, order[o].amount)

CommitPaid(p) ==
    /\ job[p].op = "paid"
    /\ ApplyPaidTransition(job[p].o, job[p].snap, job[p].target, job[p].paid)
    /\ Finish(p)
    /\ UNCHANGED <<appeal, enabled>>

-----------------------------------------------------------------------------
(* Appeals *)

BeginAppeal(p) ==
    \E o \in Requests, paid \in ReportedAmounts :
        /\ ValidPayInTransition(order[o].status, "APPEAL")
        /\ \E a \in Appeals : appeal[a].status = "NONE"    \* bound: an unused id
        /\ Begin(p, "appeal",
                 [op |-> "appeal", o |-> o, snap |-> order[o], paid |-> paid])

\* Files an OPEN appeal; an order that was paid leaves the confirmed volume.
CommitAppeal(p) ==
    /\ job[p].op = "appeal"
    /\ LET o == job[p].o
           snap == job[p].snap
       IN  /\ \E a \in Appeals :
                 /\ appeal[a].status = "NONE"
                 /\ appeal' = [appeal EXCEPT ![a] =
                        [order |-> o, status |-> "OPEN", paid |-> job[p].paid]]
           /\ requisite' = [r \in Requisites |->
                 IF r = snap.req /\ snap.status \in PaidOutcomes
                 THEN AdjustConfirmed(requisite[r], - snap.received)
                 ELSE requisite[r]]
           /\ WriteOrder(o, [order[o] EXCEPT !.status = "APPEAL", !.received = 0])
    /\ Finish(p)
    /\ UNCHANGED <<enabled, ledgers>>

\* Mutant: any filed appeal can be decided.
IsFiled(a) == appeal[a].status # "NONE"

IsOpen(a) == appeal[a].status = "OPEN"

\* The decision starts from an appeal that is OPEN when it is read; support may
\* overrule the amount the merchant reported.
BeginCloseAppeal(p) ==
    \E a \in Appeals, decision \in {"RESOLVED", "REJECTED"}, paid \in ReportedAmounts,
       actual \in BOOLEAN :
        /\ IsOpen(a)
        /\ actual => decision = "RESOLVED"
        /\ ~actual => paid = appeal[a].paid
        /\ Begin(p, "close", [op |-> "close", a |-> a, decision |-> decision,
                              paid |-> paid, actual |-> actual])

AppealLocked(a) == \E q \in Handlers : job[q].op = "closing" /\ job[q].a = a

\* Updates the appeal row, which waits for whoever holds it, and then reads the
\* order, which has to be in APPEAL.
LockAppeal(p) ==
    /\ job[p].op = "close"
    /\ ~AppealLocked(job[p].a)
    /\ LET o == appeal[job[p].a].order
       IN  /\ order[o].status = "APPEAL"
           /\ Continue(p, [op |-> "closing", a |-> job[p].a, o |-> o,
                           snap |-> order[o], decision |-> job[p].decision,
                           paid |-> job[p].paid, actual |-> job[p].actual])
    /\ UNCHANGED tables

CloseAppealRow(a, decision, actual, paid) ==
    appeal' = [appeal EXCEPT ![a].status = decision,
                             ![a].paid = IF actual THEN paid ELSE @]

\* A rejected appeal cancels the order and releases its slot afterwards.
CommitReject(p) ==
    /\ job[p].op = "closing"
    /\ job[p].decision = "REJECTED"
    /\ CloseAppealRow(job[p].a, "REJECTED", FALSE, 0)
    /\ LET o == job[p].o
       IN  /\ WriteOrder(o, [order[o] EXCEPT !.status = "CANCELED", !.received = 0])
           /\ ReleaseAfter(p, o, TRUE)
    /\ UNCHANGED <<requisite, enabled, ledgers>>

CommitResolve(p) ==
    /\ job[p].op = "closing"
    /\ job[p].decision = "RESOLVED"
    /\ CloseAppealRow(job[p].a, "RESOLVED", job[p].actual, job[p].paid)
    /\ LET snap == job[p].snap
       IN  ApplyPaidTransition(job[p].o, snap, PaidOutcome(job[p].paid, snap.amount),
                               job[p].paid)
    /\ Finish(p)
    /\ UNCHANGED enabled

-----------------------------------------------------------------------------
(* The external provider's callback *)

\* Inside the transaction the order is read again and then the income row;
\* neither row is locked until the writes that follow.
BeginProviderCallback(p) ==
    \E o \in Requests, target \in {"PAID", "CANCELED"} :
        /\ order[o].provider
        /\ ValidPayInTransition(order[o].status, target)
        /\ Begin(p, "provider", [op |-> "provider", o |-> o, target |-> target,
                                 settled |-> income[o] # 0])

\* Credits the merchant alone, once per order.
CreditMerchantOnly(o, paid) ==
    /\ income[o] = 0
    /\ income' = [income EXCEPT ![o] = paid]
    /\ merchant' = [merchant EXCEPT ![o] = @ + paid]
    /\ UNCHANGED trader

CommitProvider(p) ==
    /\ job[p].op = "provider"
    /\ LET o == job[p].o
           paid == job[p].target = "PAID"
       IN  /\ WriteOrder(o, [order[o] EXCEPT
                  !.status = job[p].target,
                  !.received = IF paid THEN order[o].amount ELSE @])
           /\ IF paid /\ ~job[p].settled
              THEN CreditMerchantOnly(o, order[o].amount)
              ELSE UNCHANGED ledgers
    /\ Finish(p)
    /\ UNCHANGED <<appeal, requisite, enabled>>

-----------------------------------------------------------------------------
(* Deactivating a trader *)

ActivateTrader(t) ==
    /\ "deactivate" \in Operations
    /\ ~enabled[t]
    /\ enabled' = [enabled EXCEPT ![t] = TRUE]
    /\ UNCHANGED <<order, appeal, requisite, ledgers, notified, job>>

DeactivateTrader(p) ==
    /\ "deactivate" \in Operations
    /\ job[p] = Idle
    /\ \E t \in Traders :
        /\ enabled[t]
        /\ enabled' = [enabled EXCEPT ![t] = FALSE]
        /\ Continue(p, [op |-> "deactivate", t |-> t])
    /\ UNCHANGED <<order, appeal, requisite, ledgers, notified>>

\* Mutant: orders the payer confirmed already are overlooked.
NewOrdersOf(t) ==
    {o \in Requests : /\ order[o].req # None
                      /\ Owner[order[o].req] = t
                      /\ order[o].status \in {"PENDING", "NEW"}}

\* Open orders that were assigned to one of the trader's requisites.
OpenOrdersOf(t) ==
    {o \in Requests : /\ order[o].req # None
                      /\ Owner[order[o].req] = t
                      /\ order[o].status \in PreSettlement}

ReadOpenOrders(p) ==
    /\ job[p].op = "deactivate"
    /\ LET orders == OpenOrdersOf(job[p].t)
       IN  IF orders = {} THEN Finish(p)
           ELSE Continue(p, [op |-> "cancelAll", orders |-> orders])
    /\ UNCHANGED tables

\* One transaction cancels what was read; the slots are released one by one.
CommitCancelAll(p) ==
    /\ job[p].op = "cancelAll"
    /\ order' = [o \in Requests |->
           IF o \in job[p].orders THEN [order[o] EXCEPT !.status = "CANCELED"]
                                  ELSE order[o]]
    /\ notified' = [o \in Requests |->
           IF o \in job[p].orders THEN "CANCELED" ELSE notified[o]]
    /\ Continue(p, [op |-> "release", orders |-> job[p].orders])
    /\ UNCHANGED <<appeal, requisite, enabled, ledgers>>

-----------------------------------------------------------------------------
(* Releasing a requisite's slot: read the counters, write them back *)

ReadUsage(p) ==
    /\ job[p].op = "release"
    /\ \E o \in job[p].orders :
        LET row == requisite[order[o].req]
        IN  Continue(p, [op |-> "releasing", o |-> o, orders |-> job[p].orders \ {o},
                         seen |-> [ops |-> row.ops, amount |-> row.amount]])
    /\ UNCHANGED tables

WriteUsage(p) ==
    /\ job[p].op = "releasing"
    /\ LET o == job[p].o
       IN  requisite' = [requisite EXCEPT ![order[o].req] =
               Release(@, job[p].seen, order[o].amount)]
    /\ IF job[p].orders = {} THEN Finish(p)
       ELSE Continue(p, [op |-> "release", orders |-> job[p].orders])
    /\ UNCHANGED <<order, appeal, enabled, ledgers, notified>>

-----------------------------------------------------------------------------

\* Calls that the code itself may still refuse after their first read: request
\* id taken, caps reached, overdraft exceeded, income row already there, order
\* not in APPEAL, transition not valid on the second read.
Refusable == {"upload", "paid", "close", "closing", "provider"}

\* The call ends with an error and its open transaction is rolled back.
Fail(p) ==
    /\ job[p] # Idle
    /\ job[p].op \in Refusable \/ MayFail
    /\ Finish(p)
    /\ UNCHANGED tables

Handler(p) ==
    \/ BeginUpload(p)      \/ AssignRequisite(p)   \/ UploadElsewhere(p)
    \/ MerchantUpdate(p)   \/ ConfirmFromPaymentPage(p)
    \/ TraderCancelOrder(p) \/ CommitStatus(p)
    \/ TraderConfirmPaid(p) \/ AdminUpdateStatus(p) \/ CommitPaid(p)
    \/ BeginAppeal(p)      \/ CommitAppeal(p)
    \/ BeginCloseAppeal(p) \/ LockAppeal(p)
    \/ CommitReject(p)     \/ CommitResolve(p)
    \/ BeginProviderCallback(p) \/ CommitProvider(p)
    \/ DeactivateTrader(p) \/ ReadOpenOrders(p)    \/ CommitCancelAll(p)
    \/ ReadUsage(p)        \/ WriteUsage(p)        \/ Fail(p)

Next == (\E p \in Handlers : Handler(p)) \/ (\E t \in Traders : ActivateTrader(t))

Spec == Init /\ [][Next]_vars

-----------------------------------------------------------------------------
(* Properties *)

IsPaid(o) == order[o].status \in PaidOutcomes

\* The books of an order stay in step whatever calls race: the merchant was
\* credited what the income row says and nothing twice, and the trader, when
\* the order has one, was debited the same (creditBalancesOnPaid,
\* adjustBalancesOnPaidAppealDelta, creditMerchantOnlyOnProviderPaid).
LedgersMatchIncome ==
    \A o \in Requests :
        /\ merchant[o] = income[o]
        /\ trader[o] = IF order[o].req # None THEN income[o] ELSE 0

\* An order that shows a paid outcome was settled for exactly the amount it
\* shows, even when a decision overtakes another one.
PaidIsSettled ==
    \A o \in Requests : IsPaid(o) => /\ order[o].received > 0
                                     /\ income[o] = order[o].received

\* The money side refines PaymentBook: an order is charged for what it counts
\* as paid, corrections replace the charge and nothing takes it back.
Book == INSTANCE PaymentBook
            WITH Amounts <- PaidAmounts,
                 charged <- merchant,
                 owed <- [o \in Requests |-> IF IsPaid(o) THEN order[o].received ELSE 0]

Settlement == Book!BookSpec

\* An upload, or a payment of an order that had been canceled, takes a slot while
\* releases write back counters they have read before, and while calls die between
\* a cancellation and its release: the counters never pass the caps.
UsageWithinLimits ==
    \A r \in Requisites : /\ requisite[r].ops <= LimitOps[r]
                          /\ requisite[r].amount <= LimitAmount[r]

\* A requisite is switched off exactly while one of its caps is reached: no
\* race of a reservation with a release leaves it on when full or strands it
\* off with headroom (nothing but the caps switches requisites here).
ActiveIffHeadroom ==
    \A r \in Requisites : requisite[r].active <=> ~Full(requisite[r])

\* The newest outbox row of an order tells the merchant the status it has.
NewestWebhookIsStatus == \A o \in Requests : notified[o] = order[o].status

\* Orders an order row keeps on a requisite, and orders whose slot a handler is
\* still about to release.
Holders(r) == {o \in Requests : order[o].req = r
                                /\ order[o].status \notin ReleasedStatuses}

Releasing(r) ==
    {o \in Requests :
        /\ order[o].req = r
        /\ \E p \in Handlers : \/ job[p].op \in {"release", "releasing"} /\ o \in job[p].orders
                               \/ job[p].op = "releasing" /\ o = job[p].o}

\* used_ops counts the orders that hold a slot, no more (a leaked slot) and no
\* fewer (a slot given away twice).
UsageMatchesHolders ==
    \A r \in Requisites :
        requisite[r].ops = Cardinality(Holders(r)) + Cardinality(Releasing(r))

\* Never more orders on a requisite than its operation cap admits.
HoldersWithinLimit ==
    \A r \in Requisites : Cardinality(Holders(r)) <= LimitOps[r]

\* confirmed_payin_amount is the sum of what the requisite's paid orders
\* received, through disputes, corrections and recoveries.
PaidShares(r) ==
    [o \in Requests |-> IF order[o].req = r /\ IsPaid(o) THEN order[o].received ELSE 0]

ReceivedOn(r) == SumFunctionOnSet(PaidShares(r), Requests)

ConfirmedMatchesPaid ==
    \A r \in Requisites : requisite[r].confirmed = ReceivedOn(r)

\* No money moved yet for an order that still waits for its payment.
WaitingIsUnsettled ==
    \A o \in Requests : order[o].status \in PreSettlement => income[o] = 0

\* At most one waiting order per requisite and amount, so that an incoming
\* transfer names its order.
SameAmountUnique ==
    \A o1, o2 \in Requests :
        /\ o1 # o2
        /\ order[o1].req # None
        /\ order[o1].req = order[o2].req
        /\ order[o1].amount = order[o2].amount
        => ~({order[o1].status, order[o2].status} \subseteq SameAmountBlocking)

\* Once the deactivation of a trader is through, no waiting order is left on
\* one of the trader's requisites.
DisabledHasNoOpenOrders ==
    (\A p \in Handlers : job[p].op \notin {"deactivate", "cancelAll"})
        => \A o \in Requests :
               order[o].req # None /\ order[o].status \in PreSettlement
                   => enabled[Owner[order[o].req]]

\* Every status change follows an edge of the graph.
FollowsGraph ==
    \A o \in Requests :
        Uploaded(o) /\ order'[o].status # order[o].status
            => ValidPayInTransition(order[o].status, order'[o].status)

StatusFollowsGraph == [][FollowsGraph]_vars

\* A decided appeal keeps its decision.
KeepsDecision ==
    \A a \in Appeals :
        appeal[a].status \in {"RESOLVED", "REJECTED"}
            => appeal'[a].status = appeal[a].status

DecisionIsFinal == [][KeepsDecision]_vars
=============================================================================
