---------------------------- MODULE PayoutOrders ----------------------------
(***************************************************************************)
(* Pay-Out orders: the handlers of payout.service.ts that write an order,  *)
(* the administrative override and the job that promotes stale orders, for *)
(* one merchant and one currency; and the merchant settlements of          *)
(* settlements.service.ts, which draw on the same balance.                 *)
(*                                                                         *)
(* A claim reads the order under FOR UPDATE, with its conditions in the    *)
(* query, and is atomic.  Everything an assignee does afterwards reads the *)
(* order, validates, and then opens the transaction that updates it by id: *)
(* a Begin action that stores what was read in job[p], and a Commit.  The  *)
(* promotion job is a read and an update by id as well.                    *)
(***************************************************************************)
EXTENDS Integers, FiniteSets, Functions

CONSTANTS
    Requests,       \* request ids the merchant may upload; each names one order
    Traders,        \* traders: pool STANDARD
    Specialists,    \* Pay-Out specialists: pool PAYOUT_SPECIALIST
    Debit,          \* Debit[o]: merchantDebitLocal, the amount reserved for o
    Deposit,        \* the merchant's balance at the start
    Handlers,       \* concurrent requests, a bound on how many run at once
    Operations,     \* the operations callers use in this instance
    PoolTimeout,    \* poolTimeoutEnabled
    MayFail,        \* a process may die, or the database fail, mid-call
    MaxRefunds,     \* bound on the refunds of one order, which races repeat
    Withdrawals,    \* amounts of merchant settlements
    MaxWithdrawn,   \* bound on their total
    None

AllOperations ==
    {"upload", "take", "assign", "start", "complete", "fail", "return", "admin",
     "deactivate", "settle"}

ASSUME ConstantsAssumption ==
    /\ IsFiniteSet(Requests)
    /\ IsFiniteSet(Handlers)
    /\ Debit \in [Requests -> Nat \ {0}]
    /\ Deposit \in Nat
    /\ Operations \subseteq AllOperations
    /\ PoolTimeout \in BOOLEAN
    /\ MayFail \in BOOLEAN
    /\ MaxRefunds \in Nat
    /\ Withdrawals \subseteq Nat \ {0}
    /\ MaxWithdrawn \in Nat
    /\ Traders \cap Specialists = {}
    /\ None \notin Traders \cup Specialists

VARIABLES
    order,      \* payout_orders, by request id
    balance,    \* merchant_balances.amount
    withdrawn,  \* sum of the merchant's settlements
    refunds,    \* number of PAYOUT_REFUND rows that reference the order
    income,     \* whom the platform_income row of the order credited
    notified,   \* status in the order's newest webhook_outbox row
    enabled,    \* trader_profiles.is_active
    aged,       \* orders created before the pool timeout's cutoff
    batch,      \* ids the promotion job has read and not updated yet
    job         \* the call each handler is in the middle of

money == <<balance, withdrawn, refunds, income>>
cron == <<aged, batch>>
vars == <<order, money, notified, enabled, cron, job>>

-----------------------------------------------------------------------------
(* The status graph *)

PayOutOrderStatus ==
    {"NONE", "PENDING", "NEW", "PROCESSING", "COMPLETED", "FAILED", "UPLOAD_FAILED"}

\* Mutant: a completed order may be put back into the pool.
ReopeningTransitions ==
    [s \in PayOutOrderStatus |->
        CASE s = "PENDING"    -> {"NEW", "UPLOAD_FAILED", "PROCESSING"}
          [] s = "NEW"        -> {"PROCESSING", "PENDING"}
          [] s = "PROCESSING" -> {"COMPLETED", "FAILED", "PENDING"}
          [] s = "COMPLETED"  -> {"PENDING"}
          [] OTHER            -> {}]

\* The edges of the graph: the statuses an order may move to from each status.
PayoutTransitions ==
    [s \in PayOutOrderStatus |->
        CASE s = "PENDING"    -> {"NEW", "UPLOAD_FAILED", "PROCESSING"}
          [] s = "NEW"        -> {"PROCESSING", "PENDING"}
          [] s = "PROCESSING" -> {"COMPLETED", "FAILED", "PENDING"}
          [] OTHER            -> {}]

ValidPayOutTransition(from, to) == to \in PayoutTransitions[from]

-----------------------------------------------------------------------------
(* Rows and jobs *)

Assignees == Traders \cup Specialists

OrderRow ==
    [status: PayOutOrderStatus, pool: {"STANDARD", "PAYOUT_SPECIALIST"},
     trader: Traders \cup {None}, specialist: Specialists \cup {None}]

NoOrder == [status |-> "NONE", pool |-> "STANDARD", trader |-> None, specialist |-> None]

Idle == [op |-> "idle"]

UploadJob     == [op: {"upload"}, o: Requests]
ClaimJob      == [op: {"take", "assign"}, o: Requests, who: Assignees]
AssigneeJob   == [op: {"start", "complete", "fail", "return"}, o: Requests, who: Assignees]
AdminJob      == [op: {"admin"}, o: Requests, target: PayOutOrderStatus \ {"NONE"}]
DeactivateJob == [op: {"deactivate"}, t: Traders]
ReturnAllJob  == [op: {"returnAll"}, orders: SUBSET Requests]
SettleJob     == [op: {"settle"}, amount: Withdrawals]

Job == {Idle} \cup UploadJob \cup ClaimJob \cup AssigneeJob \cup AdminJob
         \cup DeactivateJob \cup ReturnAllJob \cup SettleJob

TypeOK ==
    /\ order \in [Requests -> OrderRow]
    /\ balance \in Int
    /\ withdrawn \in Nat
    /\ refunds \in [Requests -> Nat]
    /\ income \in [Requests -> Assignees \cup {None}]
    /\ notified \in [Requests -> PayOutOrderStatus]
    /\ enabled \in [Traders -> BOOLEAN]
    /\ aged \subseteq Requests
    /\ batch \subseteq Requests
    /\ job \in [Handlers -> Job]

Init ==
    /\ order = [o \in Requests |-> NoOrder]
    /\ balance = Deposit
    /\ withdrawn = 0
    /\ refunds = [o \in Requests |-> 0]
    /\ income = [o \in Requests |-> None]
    /\ notified = [o \in Requests |-> "NONE"]
    /\ enabled = [t \in Traders |-> TRUE]
    /\ aged = {}
    /\ batch = {}
    /\ job = [p \in Handlers |-> Idle]

-----------------------------------------------------------------------------
(* Helpers *)

Uploaded(o) == order[o].status # "NONE"

Continue(p, j) == job' = [job EXCEPT ![p] = j]

Finish(p) == Continue(p, Idle)

Begin(p, operation, j) ==
    /\ operation \in Operations
    /\ job[p] = Idle
    /\ Continue(p, j)
    /\ UNCHANGED <<order, money, notified, enabled, cron>>

\* The order update of a handler and the outbox row it always comes with.
WriteOrder(o, row) ==
    /\ order' = [order EXCEPT ![o] = row]
    /\ notified' = [notified EXCEPT ![o] = row.status]

AssignedTo(o, who) == who \in {order[o].trader, order[o].specialist} \ {None}

-----------------------------------------------------------------------------
(* Upload: the balance is read, then decremented by the order's debit *)

\* Mutant: the balance is not looked at.
CoversAnything(o) == TRUE

BalanceCovers(o) == balance >= Debit[o]

BeginUpload(p) ==
    \E o \in Requests : /\ BalanceCovers(o)
                        /\ Begin(p, "upload", [op |-> "upload", o |-> o])

CommitUpload(p) ==
    /\ job[p].op = "upload"
    /\ LET o == job[p].o
       IN  /\ ~Uploaded(o)
           /\ balance' = balance - Debit[o]
           /\ \E pool \in {"STANDARD", "PAYOUT_SPECIALIST"} :
                WriteOrder(o, [status |-> "PENDING", pool |-> pool,
                               trader |-> None, specialist |-> None])
    /\ Finish(p)
    /\ UNCHANGED <<withdrawn, refunds, income, enabled, cron>>

-----------------------------------------------------------------------------
(* Claims: the profile is checked first, the order under its row lock *)

PoolOf(who) == IF who \in Traders THEN "STANDARD" ELSE "PAYOUT_SPECIALIST"

\* Taken from the pool, or assigned by an operator.  The profiles of specialists
\* do not change here.
BeginClaim(p) ==
    \E o \in Requests, who \in Assignees, operation \in {"take", "assign"} :
        /\ who \in Traders => enabled[who]
        /\ Begin(p, operation, [op |-> operation, o |-> o, who |-> who])

\* Mutant: the query looks for the order in the pool, whoever has it.
PoolOnly(o, pool, looksForSpecialist) == Uploaded(o) /\ order[o].pool = pool

\* What the locking query asks for.
InPool(o, pool, looksForSpecialist) ==
    /\ order[o].status = "PENDING"
    /\ order[o].pool = pool
    /\ order[o].trader = None
    /\ looksForSpecialist => order[o].specialist = None

ClaimedBy(row, who) ==
    [row EXCEPT !.status = "PROCESSING",
                !.trader = IF who \in Traders THEN who ELSE @,
                !.specialist = IF who \in Traders THEN @ ELSE who]

\* Only a trader who takes an order does not look for a specialist on it.
CommitClaim(p) ==
    /\ job[p].op \in {"take", "assign"}
    /\ LET o == job[p].o
           who == job[p].who
       IN  /\ InPool(o, PoolOf(who), job[p].op = "assign" \/ who \in Specialists)
           /\ WriteOrder(o, ClaimedBy(order[o], who))
    /\ Finish(p)
    /\ UNCHANGED <<money, enabled, cron>>

-----------------------------------------------------------------------------
(* What an assignee does with a claimed order *)

BeginByAssignee(p, operation, o, who) ==
    /\ AssignedTo(o, who)
    /\ Begin(p, operation, [op |-> operation, o |-> o, who |-> who])

BeginStart(p) ==
    \E o \in Requests, who \in Assignees :
        /\ order[o].status = "NEW"
        /\ BeginByAssignee(p, "start", o, who)

BeginComplete(p) ==
    \E o \in Requests, who \in Assignees :
        /\ ValidPayOutTransition(order[o].status, "COMPLETED")
        /\ BeginByAssignee(p, "complete", o, who)

BeginFail(p) ==
    \E o \in Requests, who \in Assignees :
        /\ ValidPayOutTransition(order[o].status, "FAILED")
        /\ BeginByAssignee(p, "fail", o, who)

\* Back to the pool: the order has to be in the assignee's own pool.
BeginReturn(p) ==
    \E o \in Requests, who \in Assignees :
        /\ order[o].status \in {"NEW", "PROCESSING"}
        /\ order[o].pool = PoolOf(who)
        /\ BeginByAssignee(p, "return", o, who)

CommitStart(p) ==
    /\ job[p].op = "start"
    /\ LET o == job[p].o
       IN  WriteOrder(o, [order[o] EXCEPT !.status = "PROCESSING"])
    /\ Finish(p)
    /\ UNCHANGED <<money, enabled, cron>>

\* Mutant: completion leaves the settlement out.
SettleNothing(o, who) == UNCHANGED income

\* Credits the assignee that was read; the platform_income row is unique.
Settle(o, who) ==
    /\ income[o] = None
    /\ income' = [income EXCEPT ![o] = who]

CommitComplete(p) ==
    /\ job[p].op = "complete"
    /\ LET o == job[p].o
       IN  /\ WriteOrder(o, [order[o] EXCEPT !.status = "COMPLETED"])
           /\ Settle(o, job[p].who)
    /\ Finish(p)
    /\ UNCHANGED <<balance, withdrawn, refunds, enabled, cron>>

\* Mutant: the refund is booked but the balance is not.
RefundRowOnly(o) ==
    /\ UNCHANGED balance
    /\ refunds' = [refunds EXCEPT ![o] = @ + 1]

\* Mutant: a failed order is not refunded.
RefundNothing(o) == UNCHANGED <<balance, refunds>>

RefundMerchant(o) ==
    /\ balance' = balance + Debit[o]
    /\ refunds' = [refunds EXCEPT ![o] = @ + 1]

CommitFail(p) ==
    /\ job[p].op = "fail"
    /\ LET o == job[p].o
       IN  /\ refunds[o] < MaxRefunds                      \* the bound
           /\ WriteOrder(o, [order[o] EXCEPT !.status = "FAILED"])
           /\ RefundMerchant(o)
    /\ Finish(p)
    /\ UNCHANGED <<withdrawn, income, enabled, cron>>

\* A trader clears only trader_id, a specialist both columns.
ReturnedBy(row, who) ==
    [row EXCEPT !.status = "PENDING", !.trader = None,
                !.specialist = IF who \in Specialists THEN None ELSE @]

CommitReturn(p) ==
    /\ job[p].op = "return"
    /\ LET o == job[p].o
       IN  WriteOrder(o, ReturnedBy(order[o], job[p].who))
    /\ Finish(p)
    /\ UNCHANGED <<money, enabled, cron>>

-----------------------------------------------------------------------------
(* Merchant settlements: a withdrawal agreed off-platform *)

\* The transaction reads the balance first, and locks nothing.
BeginSettlement(p) ==
    \E amount \in Withdrawals :
        /\ balance >= amount
        /\ Begin(p, "settle", [op |-> "settle", amount |-> amount])

CommitSettlement(p) ==
    /\ job[p].op = "settle"
    /\ withdrawn + job[p].amount <= MaxWithdrawn          \* the bound
    /\ balance' = balance - job[p].amount
    /\ withdrawn' = withdrawn + job[p].amount
    /\ Finish(p)
    /\ UNCHANGED <<order, refunds, income, notified, enabled, cron>>

-----------------------------------------------------------------------------
(* Administrative override: any edge of the graph, and nothing but the status *)

\* Mutant: the transition is not validated.
BeginAdminUnchecked(p) ==
    \E o \in Requests, target \in PayOutOrderStatus \ {"NONE"} :
        /\ Uploaded(o)
        /\ Begin(p, "admin", [op |-> "admin", o |-> o, target |-> target])

BeginAdmin(p) ==
    \E o \in Requests, target \in PayOutOrderStatus :
        /\ ValidPayOutTransition(order[o].status, target)
        /\ Begin(p, "admin", [op |-> "admin", o |-> o, target |-> target])

CommitAdmin(p) ==
    /\ job[p].op = "admin"
    /\ LET o == job[p].o
       IN  WriteOrder(o, [order[o] EXCEPT !.status = job[p].target])
    /\ Finish(p)
    /\ UNCHANGED <<money, enabled, cron>>

-----------------------------------------------------------------------------
(* Deactivating a trader *)

ActivateTrader(t) ==
    /\ "deactivate" \in Operations
    /\ ~enabled[t]
    /\ enabled' = [enabled EXCEPT ![t] = TRUE]
    /\ UNCHANGED <<order, money, notified, cron, job>>

DeactivateTrader(p) ==
    /\ "deactivate" \in Operations
    /\ job[p] = Idle
    /\ \E t \in Traders :
        /\ enabled[t]
        /\ enabled' = [enabled EXCEPT ![t] = FALSE]
        /\ Continue(p, [op |-> "deactivate", t |-> t])
    /\ UNCHANGED <<order, money, notified, cron>>

WorkOf(t) ==
    {o \in Requests : /\ order[o].trader = t
                      /\ order[o].pool = "STANDARD"
                      /\ order[o].status \in {"NEW", "PROCESSING"}}

ReadWork(p) ==
    /\ job[p].op = "deactivate"
    /\ LET orders == WorkOf(job[p].t)
       IN  IF orders = {} THEN Finish(p)
           ELSE Continue(p, [op |-> "returnAll", orders |-> orders])
    /\ UNCHANGED <<order, money, notified, enabled, cron>>

\* One transaction per order of the list.
ReturnOne(p) ==
    /\ job[p].op = "returnAll"
    /\ \E o \in job[p].orders :
        /\ WriteOrder(o, [order[o] EXCEPT !.status = "PENDING", !.trader = None])
        /\ LET rest == job[p].orders \ {o}
           IN  IF rest = {} THEN Finish(p)
               ELSE Continue(p, [op |-> "returnAll", orders |-> rest])
    /\ UNCHANGED <<money, enabled, cron>>

-----------------------------------------------------------------------------
(* Promotion of stale orders, a periodic job *)

Age(o) ==
    /\ PoolTimeout
    /\ Uploaded(o)
    /\ o \notin aged
    /\ aged' = aged \cup {o}
    /\ UNCHANGED <<order, money, notified, enabled, batch, job>>

WaitsInStandardPool(o) ==
    /\ order[o].status = "PENDING"
    /\ order[o].pool = "STANDARD"
    /\ order[o].trader = None
    /\ order[o].specialist = None

StaleOrders == {o \in aged : WaitsInStandardPool(o)}

ReadStale ==
    /\ batch = {}
    /\ StaleOrders # {}
    /\ batch' = StaleOrders
    /\ UNCHANGED <<order, money, notified, enabled, aged, job>>

\* Mutant: the batch is dropped.
PromoteNothing == UNCHANGED order

\* Moves what was read, whatever became of it; no status changes.
PromoteBatch ==
    order' = [o \in Requests |->
        IF o \in batch THEN [order[o] EXCEPT !.pool = "PAYOUT_SPECIALIST"] ELSE order[o]]

PromoteStale ==
    /\ batch # {}
    /\ PromoteBatch
    /\ batch' = {}
    /\ UNCHANGED <<money, notified, enabled, aged, job>>

\* Any run of the job may die between its two statements.
PromotionDies ==
    /\ batch # {}
    /\ batch' = {}
    /\ UNCHANGED <<order, money, notified, enabled, aged, job>>

-----------------------------------------------------------------------------

\* Calls that the code itself may still refuse after their first read: request
\* id taken, order not in the pool, income row already there.
Refusable == {"upload", "take", "assign", "complete"}

\* The call ends with an error and its open transaction is rolled back; so do
\* the calls that a bound stops.
Fail(p) ==
    /\ job[p] # Idle
    /\ \/ job[p].op \in Refusable \/ MayFail
       \/ job[p].op = "fail" /\ refunds[job[p].o] >= MaxRefunds
       \/ job[p].op = "settle" /\ withdrawn + job[p].amount > MaxWithdrawn
    /\ Finish(p)
    /\ UNCHANGED <<order, money, notified, enabled, cron>>

Handler(p) ==
    \/ BeginUpload(p)      \/ CommitUpload(p)
    \/ BeginClaim(p)       \/ CommitClaim(p)
    \/ BeginStart(p)       \/ CommitStart(p)
    \/ BeginComplete(p)    \/ CommitComplete(p)
    \/ BeginFail(p)        \/ CommitFail(p)
    \/ BeginReturn(p)      \/ CommitReturn(p)
    \/ BeginAdmin(p)       \/ CommitAdmin(p)
    \/ BeginSettlement(p) \/ CommitSettlement(p)
    \/ DeactivateTrader(p) \/ ReadWork(p)     \/ ReturnOne(p)
    \/ Fail(p)

Next ==
    \/ \E p \in Handlers : Handler(p)
    \/ \E t \in Traders : ActivateTrader(t)
    \/ \E o \in Requests : Age(o)
    \/ ReadStale
    \/ PromoteStale
    \/ PromotionDies

Spec == Init /\ [][Next]_vars

\* Time passes, the scheduler keeps starting the promotion job, and not every
\* run of it dies between its two statements.
FairSpec ==
    /\ Spec
    /\ \A o \in Requests : WF_vars(Age(o))
    /\ WF_vars(ReadStale)
    /\ SF_vars(PromoteStale)

-----------------------------------------------------------------------------
(* Properties *)

\* No race of claims, promotions and returns leaves an order with a trader and a
\* specialist at once, each entitled to complete it.
AtMostOneAssignee ==
    \A o \in Requests : order[o].trader = None \/ order[o].specialist = None

\* A claim never takes an order from somebody: an assignee gives way to the next
\* one only through the pool.
TakesFromNobody ==
    \A o \in Requests :
        LET before == {order[o].trader, order[o].specialist} \ {None}
            after  == {order'[o].trader, order'[o].specialist} \ {None}
        IN  before # {} => after \subseteq before

NeverTaken == [][TakesFromNobody]_vars

\* What was given back to the merchant for each order.
Refunded == [o \in Requests |-> Debit[o] * refunds[o]]

\* The merchant's balance is what was deposited less the reserves and the
\* settlements, plus every refund booked: concurrent uploads, settlements and
\* refunds lose no update.
BalanceMatchesBookings ==
    balance = Deposit - withdrawn
                      - SumFunctionOnSet(Debit, {o \in Requests : Uploaded(o)})
                      + SumFunctionOnSet(Refunded, Requests)

\* An order shown as COMPLETED was credited to somebody (unless an
\* administrator completed it).
CompletedIsCredited ==
    \A o \in Requests : order[o].status = "COMPLETED" => income[o] # None

\* An order shown as FAILED gave the merchant the reserve back.
FailedIsRefunded ==
    \A o \in Requests : order[o].status = "FAILED" => refunds[o] > 0

\* The newest outbox row of an order tells the merchant the status it has.
NewestWebhookIsStatus == \A o \in Requests : notified[o] = order[o].status

\* A reserve is spent once: credited, or refunded, and not refunded twice.
SettledOneWay ==
    \A o \in Requests : refunds[o] + (IF income[o] = None THEN 0 ELSE 1) <= 1

\* Who completed an order and who is credited for it are the same.
CreditGoesToAssignee ==
    \A o \in Requests :
        order[o].status = "COMPLETED" /\ income[o] # None => AssignedTo(o, income[o])

\* Uploads and settlements never take more than the merchant has.
NeverOverdrawn == balance >= 0

\* Traders hold orders of pool STANDARD, specialists those of theirs; an order in
\* the other pool could not be returned by its holder.
PoolMatchesAssignee ==
    \A o \in Requests :
        /\ order[o].trader # None => order[o].pool = "STANDARD"
        /\ order[o].specialist # None => order[o].pool = "PAYOUT_SPECIALIST"

\* Once the deactivation of a trader is through, the trader has no work left.
DisabledHasNoWork ==
    (\A p \in Handlers : job[p].op \notin {"deactivate", "returnAll"})
        => \A o \in Requests :
               order[o].trader # None
               /\ order[o].pool = "STANDARD"
               /\ order[o].status \in {"NEW", "PROCESSING"}
                   => enabled[order[o].trader]

\* Every status change follows an edge of the graph.
StatusFollowsGraph ==
    [][\A o \in Requests :
          Uploaded(o) /\ order'[o].status # order[o].status
              => ValidPayOutTransition(order[o].status, order'[o].status)]_vars

\* What an order paid out, and what of its reserve is still held.
PaidOut == [o \in Requests |-> IF income[o] = None THEN 0 ELSE Debit[o]]

Held ==
    [o \in Requests |-> IF Uploaded(o) THEN Debit[o] - Refunded[o] - PaidOut[o] ELSE 0]

\* The money side refines PayoutBook.
Book == INSTANCE PayoutBook WITH held <- Held, paid <- PaidOut, returned <- Refunded

Settlement == Book!BookSpec

\* Nobody has to take an order from pool STANDARD: it is taken, or promoted.
StandardPoolDrains ==
    \A o \in Requests : WaitsInStandardPool(o) ~> ~WaitsInStandardPool(o)
=============================================================================
