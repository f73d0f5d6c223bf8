------------------------- MODULE PayoutOrdersProofs -------------------------
(***************************************************************************)
(* Theorems about PayoutOrders for any number of orders, assignees and     *)
(* concurrent handlers.  The inductive invariant says of every order that  *)
(* a specialist works on it only in the specialists' pool and without a    *)
(* trader, and that a final status comes with its money, except after an   *)
(* administrative override.                                                *)
(***************************************************************************)
EXTENDS PayoutOrders, SetSums

-----------------------------------------------------------------------------
(* The inductive invariant *)

\* A specialist's order is in the specialists' pool and has no trader.  The pool
\* is what keeps traders from it, whose own claim does not look for a specialist.
AssigneesOK(row) ==
    row.specialist # None => row.pool = "PAYOUT_SPECIALIST" /\ row.trader = None

\* A final status comes with its money, unless an override may have set it.
OutcomeOK(status, who, refunded) ==
    \/ "admin" \in Operations
    \/ /\ status = "COMPLETED" => who # None
       /\ status = "FAILED" => refunded > 0

IInv ==
    /\ TypeOK
    /\ \A o \in Requests : AssigneesOK(order[o])
    /\ \A o \in Requests : OutcomeOK(order[o].status, income[o], refunds[o])
    /\ \A p \in Handlers : job[p].op = "admin" => "admin" \in Operations
    /\ NewestWebhookIsStatus

-----------------------------------------------------------------------------
(* Facts about jobs and rows *)

\* The kind of job a handler is in the middle of is told by its op.
LEMMA JobKinds ==
    ASSUME NEW j \in Job
    PROVE  /\ j.op = "upload" => j \in UploadJob
           /\ j.op \in {"take", "assign"} => j \in ClaimJob
           /\ j.op \in {"start", "complete", "fail", "return"} => j \in AssigneeJob
           /\ j.op = "admin" => j \in AdminJob
           /\ j.op = "deactivate" => j \in DeactivateJob
           /\ j.op = "returnAll" => j \in ReturnAllJob
           /\ j.op = "settle" => j \in SettleJob
  BY DEF Job, Idle, UploadJob, ClaimJob, AssigneeJob, AdminJob, DeactivateJob,
         ReturnAllJob, SettleJob

\* A handler that goes on to a well-typed job other than an override.
LEMMA ContinueStep ==
    ASSUME IInv, NEW p \in Handlers, NEW j \in Job,
           j.op = "admin" => "admin" \in Operations, Continue(p, j)
    PROVE  /\ job' \in [Handlers -> Job]
           /\ \A q \in Handlers : job'[q].op = "admin" => "admin" \in Operations
  BY DEF IInv, TypeOK, Continue

LEMMA FinishStep ==
    ASSUME IInv, NEW p \in Handlers, Finish(p)
    PROVE  /\ job' \in [Handlers -> Job]
           /\ \A q \in Handlers : job'[q].op = "admin" => "admin" \in Operations
<1>1. Idle \in Job /\ Idle.op # "admin"
  BY DEF Job, Idle
<1> QED BY <1>1, ContinueStep DEF Finish

\* A step that only moves a handler on.
LEMMA BeginStep ==
    ASSUME IInv, NEW p \in Handlers, NEW operation, NEW j \in Job,
           Begin(p, operation, j), j.op = operation
    PROVE  IInv' /\ UNCHANGED order
<1>1. operation \in Operations /\ Continue(p, j)
  BY DEF Begin
<1>2. /\ job' \in [Handlers -> Job]
      /\ \A q \in Handlers : job'[q].op = "admin" => "admin" \in Operations
  BY <1>1, ContinueStep
<1> QED BY <1>2 DEF IInv, TypeOK, Begin, money, cron, NewestWebhookIsStatus

\* An update of one order keeps the tables well-typed and the outbox in step.
LEMMA WriteOrderStep ==
    ASSUME IInv, NEW o \in Requests, NEW row \in OrderRow, AssigneesOK(row),
           WriteOrder(o, row)
    PROVE  /\ order' \in [Requests -> OrderRow]
           /\ notified' \in [Requests -> PayOutOrderStatus]
           /\ \A x \in Requests : AssigneesOK(order'[x])
           /\ order'[o] = row
           /\ \A x \in Requests \ {o} : order'[x] = order[x]
           /\ NewestWebhookIsStatus'
<1>1. order' = [order EXCEPT ![o] = row] /\ notified' = [notified EXCEPT ![o] = row.status]
  BY DEF WriteOrder
<1>2. row.status \in PayOutOrderStatus
  BY DEF OrderRow
<1>3. order' \in [Requests -> OrderRow] /\ notified' \in [Requests -> PayOutOrderStatus]
  BY <1>1, <1>2 DEF IInv, TypeOK
<1>4. order'[o] = row /\ \A x \in Requests \ {o} : order'[x] = order[x]
  BY <1>1 DEF IInv, TypeOK
<1>5. notified'[o] = row.status /\ \A x \in Requests \ {o} : notified'[x] = notified[x]
  BY <1>1 DEF IInv, TypeOK
<1>6. \A x \in Requests : AssigneesOK(order'[x])
  BY <1>4 DEF IInv
<1>7. NewestWebhookIsStatus'
  BY <1>4, <1>5 DEF IInv, NewestWebhookIsStatus
<1> QED BY <1>3, <1>4, <1>6, <1>7

\* What most commits do: update one order, move the handler on, and leave the
\* money alone or spend the reserve of that order.
LEMMA CommitKeeps ==
    ASSUME IInv, NEW p \in Handlers, NEW o \in Requests, NEW row \in OrderRow,
           AssigneesOK(row), WriteOrder(o, row),
           job' \in [Handlers -> Job],
           \A q \in Handlers : job'[q].op = "admin" => "admin" \in Operations,
           balance' \in Int,
           withdrawn' \in Nat,
           income' \in [Requests -> Assignees \cup {None}],
           refunds' \in [Requests -> Nat],
           \A x \in Requests \ {o} : income'[x] = income[x] /\ refunds'[x] = refunds[x],
           OutcomeOK(row.status, income'[o], refunds'[o]),
           UNCHANGED <<enabled, cron>>
    PROVE  IInv'
<1>1. /\ order' \in [Requests -> OrderRow]
      /\ notified' \in [Requests -> PayOutOrderStatus]
      /\ \A x \in Requests : AssigneesOK(order'[x])
      /\ order'[o] = row
      /\ \A x \in Requests \ {o} : order'[x] = order[x]
      /\ NewestWebhookIsStatus'
  BY WriteOrderStep
<1>2. TypeOK'
  BY <1>1 DEF IInv, TypeOK, cron
<1>3. \A x \in Requests : OutcomeOK(order'[x].status, income'[x], refunds'[x])
  BY <1>1 DEF IInv
<1> QED BY <1>1, <1>2, <1>3 DEF IInv

\* The money stays as it is and the new status is not final.
LEMMA UnpaidCommitKeeps ==
    ASSUME IInv, NEW p \in Handlers, NEW o \in Requests, NEW row \in OrderRow,
           AssigneesOK(row), WriteOrder(o, row),
           job' \in [Handlers -> Job],
           \A q \in Handlers : job'[q].op = "admin" => "admin" \in Operations,
           row.status \notin {"COMPLETED", "FAILED"} \/ "admin" \in Operations,
           UNCHANGED <<money, enabled, cron>>
    PROVE  IInv'
<1>1. OutcomeOK(row.status, income'[o], refunds'[o])
  BY DEF OutcomeOK
<1> QED BY <1>1, CommitKeeps DEF IInv, TypeOK, money

-----------------------------------------------------------------------------
(* One lemma per commit *)

LEMMA CommitUploadStep ==
    ASSUME IInv, NEW p \in Handlers, CommitUpload(p)
    PROVE  IInv'
<1>1. job[p].op = "upload" /\ job[p] \in UploadJob
  BY JobKinds DEF CommitUpload, IInv, TypeOK
<1> DEFINE o == job[p].o
<1>2. PICK pool \in {"STANDARD", "PAYOUT_SPECIALIST"} :
          WriteOrder(o, [status |-> "PENDING", pool |-> pool,
                         trader |-> None, specialist |-> None])
  BY DEF CommitUpload
<1> DEFINE row == [status |-> "PENDING", pool |-> pool, trader |-> None, specialist |-> None]
<1>3. o \in Requests /\ row \in OrderRow /\ AssigneesOK(row)
  BY <1>1 DEF UploadJob, OrderRow, PayOutOrderStatus, AssigneesOK
<1>4. balance' \in Int
  BY <1>3, ConstantsAssumption DEF CommitUpload, IInv, TypeOK
<1>5. OutcomeOK(row.status, income'[o], refunds'[o])
  BY DEF OutcomeOK
<1>6. Finish(p) /\ UNCHANGED <<withdrawn, refunds, income, enabled, cron>>
  BY DEF CommitUpload
<1> HIDE DEF o, row
<1>7. WriteOrder(o, row)
  BY <1>2 DEF row
<1> QED BY <1>3, <1>4, <1>5, <1>6, <1>7, CommitKeeps, FinishStep DEF IInv, TypeOK

LEMMA CommitClaimStep ==
    ASSUME IInv, NEW p \in Handlers, CommitClaim(p)
    PROVE  IInv' /\ TakesFromNobody
<1>1. job[p].op \in {"take", "assign"} /\ job[p] \in ClaimJob
  BY JobKinds DEF CommitClaim, IInv, TypeOK
<1> DEFINE o == job[p].o
           who == job[p].who
           row == ClaimedBy(order[o], who)
<1>2. /\ InPool(o, PoolOf(who), job[p].op = "assign" \/ who \in Specialists)
      /\ WriteOrder(o, row)
      /\ Finish(p)
      /\ UNCHANGED <<money, enabled, cron>>
  BY DEF CommitClaim
<1>3. o \in Requests /\ who \in Assignees /\ order[o] \in OrderRow
  BY <1>1 DEF ClaimJob, IInv, TypeOK
<1>4. AssigneesOK(order[o])
  BY <1>3 DEF IInv
<1>5. order[o].trader = None /\ order[o].specialist = None
  BY <1>2, <1>3, <1>4 DEF InPool, PoolOf, AssigneesOK, Assignees
<1>6. row \in OrderRow /\ AssigneesOK(row)
  <2>0. "PROCESSING" \in PayOutOrderStatus
    BY DEF PayOutOrderStatus
  <2>1. CASE who \in Traders
    BY <1>3, <1>5, <2>0, <2>1 DEF ClaimedBy, OrderRow, AssigneesOK
  <2>2. CASE who \in Specialists /\ who \notin Traders
    <3>1. order[o].pool = "PAYOUT_SPECIALIST"
      BY <1>2, <2>2 DEF InPool, PoolOf
    <3> QED BY <1>3, <1>5, <2>0, <2>2, <3>1 DEF ClaimedBy, OrderRow, AssigneesOK
  <2> QED BY <1>3, <2>1, <2>2 DEF Assignees
<1>7. row.status = "PROCESSING"
  BY <1>3 DEF ClaimedBy, OrderRow
<1> HIDE DEF o, who, row
<1>8. IInv'
  BY <1>2, <1>3, <1>6, <1>7, UnpaidCommitKeeps, FinishStep
<1>9. \A x \in Requests \ {o} : order'[x] = order[x]
  BY <1>2, <1>3, <1>6, WriteOrderStep
<1>10. TakesFromNobody
  BY <1>5, <1>9 DEF TakesFromNobody
<1> QED BY <1>8, <1>10

\* Of the updates by an assignee or an operator only the status changes, or
\* assignees leave.
LEMMA FewerAssignees ==
    ASSUME IInv, NEW o \in Requests, NEW status \in PayOutOrderStatus
    PROVE  /\ [order[o] EXCEPT !.status = status] \in OrderRow
           /\ [order[o] EXCEPT !.status = status].status = status
           /\ AssigneesOK([order[o] EXCEPT !.status = status])
           /\ [order[o] EXCEPT !.status = status, !.trader = None] \in OrderRow
           /\ [order[o] EXCEPT !.status = status, !.trader = None].status = status
           /\ AssigneesOK([order[o] EXCEPT !.status = status, !.trader = None])
  BY DEF IInv, TypeOK, OrderRow, AssigneesOK

LEMMA CommitStartStep ==
    ASSUME IInv, NEW p \in Handlers, CommitStart(p)
    PROVE  IInv'
<1>1. job[p].op = "start" /\ job[p] \in AssigneeJob
  BY JobKinds DEF CommitStart, IInv, TypeOK
<1>2. job[p].o \in Requests
  BY <1>1 DEF AssigneeJob
<1>3. "PROCESSING" \in PayOutOrderStatus
  BY DEF PayOutOrderStatus
<1> QED BY <1>2, <1>3, FewerAssignees, UnpaidCommitKeeps, FinishStep DEF CommitStart

LEMMA CommitCompleteStep ==
    ASSUME IInv, NEW p \in Handlers, CommitComplete(p)
    PROVE  IInv'
<1>1. job[p].op = "complete" /\ job[p] \in AssigneeJob
  BY JobKinds DEF CommitComplete, IInv, TypeOK
<1> DEFINE o == job[p].o
           row == [order[o] EXCEPT !.status = "COMPLETED"]
<1>2. o \in Requests /\ job[p].who \in Assignees /\ "COMPLETED" \in PayOutOrderStatus
  BY <1>1 DEF AssigneeJob, PayOutOrderStatus
<1>3. row \in OrderRow /\ row.status = "COMPLETED" /\ AssigneesOK(row)
  BY <1>2, FewerAssignees
<1>4. /\ WriteOrder(o, row)
      /\ income' = [income EXCEPT ![o] = job[p].who]
      /\ Finish(p)
      /\ UNCHANGED <<balance, withdrawn, refunds, enabled, cron>>
  BY DEF CommitComplete, Settle
<1>5. /\ income' \in [Requests -> Assignees \cup {None}]
      /\ income'[o] = job[p].who
      /\ \A x \in Requests \ {o} : income'[x] = income[x]
  BY <1>2, <1>4 DEF IInv, TypeOK
<1>6. OutcomeOK(row.status, income'[o], refunds'[o])
  BY <1>2, <1>3, <1>5, ConstantsAssumption DEF OutcomeOK, Assignees
<1> HIDE DEF o, row
<1> QED BY <1>2, <1>3, <1>4, <1>5, <1>6, CommitKeeps, FinishStep DEF IInv, TypeOK

LEMMA CommitFailStep ==
    ASSUME IInv, NEW p \in Handlers, CommitFail(p)
    PROVE  IInv'
<1>1. job[p].op = "fail" /\ job[p] \in AssigneeJob
  BY JobKinds DEF CommitFail, IInv, TypeOK
<1> DEFINE o == job[p].o
           row == [order[o] EXCEPT !.status = "FAILED"]
<1>2. o \in Requests /\ "FAILED" \in PayOutOrderStatus
  BY <1>1 DEF AssigneeJob, PayOutOrderStatus
<1>3. row \in OrderRow /\ row.status = "FAILED" /\ AssigneesOK(row)
  BY <1>2, FewerAssignees
<1>4. /\ WriteOrder(o, row)
      /\ balance' = balance + Debit[o]
      /\ refunds' = [refunds EXCEPT ![o] = @ + 1]
      /\ Finish(p)
      /\ UNCHANGED <<withdrawn, income, enabled, cron>>
  BY DEF CommitFail, RefundMerchant
<1>5. /\ refunds' \in [Requests -> Nat]
      /\ refunds'[o] > 0
      /\ \A x \in Requests \ {o} : refunds'[x] = refunds[x]
      /\ balance' \in Int
  <2>1. Debit[o] \in Nat /\ balance \in Int
    BY <1>2, ConstantsAssumption DEF IInv, TypeOK
  <2>2. refunds \in [Requests -> Nat] /\ refunds[o] \in Nat
    BY <1>2 DEF IInv, TypeOK
  <2> HIDE DEF o
  <2> QED BY <1>2, <1>4, <2>1, <2>2
<1>6. OutcomeOK(row.status, income'[o], refunds'[o])
  BY <1>3, <1>5 DEF OutcomeOK
<1> HIDE DEF o, row
<1> QED BY <1>2, <1>3, <1>4, <1>5, <1>6, CommitKeeps, FinishStep DEF IInv, TypeOK

LEMMA CommitReturnStep ==
    ASSUME IInv, NEW p \in Handlers, CommitReturn(p)
    PROVE  IInv'
<1>1. job[p].op = "return" /\ job[p] \in AssigneeJob
  BY JobKinds DEF CommitReturn, IInv, TypeOK
<1> DEFINE o == job[p].o
           row == ReturnedBy(order[o], job[p].who)
<1>2. o \in Requests /\ order[o] \in OrderRow /\ AssigneesOK(order[o])
  BY <1>1 DEF AssigneeJob, IInv, TypeOK
<1>3. row \in OrderRow /\ row.status = "PENDING" /\ AssigneesOK(row)
  BY <1>2 DEF ReturnedBy, OrderRow, PayOutOrderStatus, AssigneesOK
<1>4. WriteOrder(o, row) /\ Finish(p) /\ UNCHANGED <<money, enabled, cron>>
  BY DEF CommitReturn
<1> HIDE DEF o, row
<1> QED BY <1>2, <1>3, <1>4, UnpaidCommitKeeps, FinishStep

LEMMA CommitAdminStep ==
    ASSUME IInv, NEW p \in Handlers, CommitAdmin(p)
    PROVE  IInv'
<1>1. job[p].op = "admin" /\ job[p] \in AdminJob /\ "admin" \in Operations
  BY JobKinds DEF CommitAdmin, IInv, TypeOK
<1>2. job[p].o \in Requests /\ job[p].target \in PayOutOrderStatus
  BY <1>1 DEF AdminJob
<1> QED BY <1>1, <1>2, FewerAssignees, UnpaidCommitKeeps, FinishStep DEF CommitAdmin

\* A settlement touches the balance and no order.
LEMMA CommitSettlementStep ==
    ASSUME IInv, NEW p \in Handlers, CommitSettlement(p)
    PROVE  IInv' /\ UNCHANGED order
<1>1. job[p].op = "settle" /\ job[p] \in SettleJob
  BY JobKinds DEF CommitSettlement, IInv, TypeOK
<1>2. job[p].amount \in Nat
  BY <1>1, ConstantsAssumption DEF SettleJob
<1>3. balance' \in Int /\ withdrawn' \in Nat
  BY <1>2 DEF CommitSettlement, IInv, TypeOK
<1>4. Finish(p) /\ UNCHANGED <<order, refunds, income, notified, enabled, cron>>
  BY DEF CommitSettlement
<1> QED BY <1>3, <1>4, FinishStep DEF IInv, TypeOK, cron, NewestWebhookIsStatus

LEMMA ReturnOneStep ==
    ASSUME IInv, NEW p \in Handlers, ReturnOne(p)
    PROVE  IInv'
<1>1. job[p].op = "returnAll" /\ job[p] \in ReturnAllJob
  BY JobKinds DEF ReturnOne, IInv, TypeOK
<1>2. PICK o \in job[p].orders :
          /\ WriteOrder(o, [order[o] EXCEPT !.status = "PENDING", !.trader = None])
          /\ LET rest == job[p].orders \ {o}
             IN  IF rest = {} THEN Finish(p)
                 ELSE Continue(p, [op |-> "returnAll", orders |-> rest])
  BY DEF ReturnOne
<1>3. o \in Requests /\ "PENDING" \in PayOutOrderStatus
  BY <1>1 DEF ReturnAllJob, PayOutOrderStatus
<1> DEFINE j == [op |-> "returnAll", orders |-> job[p].orders \ {o}]
<1>4. j \in Job /\ j.op # "admin"
  BY <1>1 DEF ReturnAllJob, Job
<1>5. Finish(p) \/ Continue(p, j)
  BY <1>2
<1> HIDE DEF j
<1>6. /\ job' \in [Handlers -> Job]
      /\ \A q \in Handlers : job'[q].op = "admin" => "admin" \in Operations
  BY <1>4, <1>5, ContinueStep, FinishStep
<1>7. UNCHANGED <<money, enabled, cron>>
  BY DEF ReturnOne
<1> QED BY <1>2, <1>3, <1>6, <1>7, FewerAssignees, UnpaidCommitKeeps

-----------------------------------------------------------------------------
(* Steps that leave the orders alone, the promotion, and the whole relation *)

LEMMA BeginsStep ==
    ASSUME IInv, NEW p \in Handlers,
           \/ BeginUpload(p) \/ BeginClaim(p) \/ BeginStart(p) \/ BeginComplete(p)
           \/ BeginFail(p) \/ BeginReturn(p) \/ BeginAdmin(p) \/ BeginSettlement(p)
    PROVE  IInv' /\ UNCHANGED order
<1>1. CASE BeginUpload(p)
  <2>1. PICK o \in Requests : Begin(p, "upload", [op |-> "upload", o |-> o])
    BY <1>1 DEF BeginUpload
  <2>2. [op |-> "upload", o |-> o] \in Job
    BY DEF Job, UploadJob
  <2> QED BY <2>1, <2>2, BeginStep
<1>2. CASE BeginClaim(p)
  <2>1. PICK o \in Requests, who \in Assignees, operation \in {"take", "assign"} :
            Begin(p, operation, [op |-> operation, o |-> o, who |-> who])
    BY <1>2 DEF BeginClaim
  <2>2. [op |-> operation, o |-> o, who |-> who] \in Job
    BY DEF Job, ClaimJob
  <2> QED BY <2>1, <2>2, BeginStep
<1>3. CASE BeginStart(p) \/ BeginComplete(p) \/ BeginFail(p) \/ BeginReturn(p)
  <2>1. PICK o \in Requests, who \in Assignees,
             operation \in {"start", "complete", "fail", "return"} :
            Begin(p, operation, [op |-> operation, o |-> o, who |-> who])
    BY <1>3 DEF BeginStart, BeginComplete, BeginFail, BeginReturn, BeginByAssignee
  <2>2. [op |-> operation, o |-> o, who |-> who] \in Job
    BY DEF Job, AssigneeJob
  <2> QED BY <2>1, <2>2, BeginStep
<1>4. CASE BeginAdmin(p)
  <2>1. PICK o \in Requests, target \in PayOutOrderStatus :
            /\ ValidPayOutTransition(order[o].status, target)
            /\ Begin(p, "admin", [op |-> "admin", o |-> o, target |-> target])
    BY <1>4 DEF BeginAdmin
  <2>2. order[o].status \in PayOutOrderStatus
    BY DEF IInv, TypeOK, OrderRow
  <2>3. target # "NONE"
    BY <2>1, <2>2 DEF ValidPayOutTransition, PayoutTransitions, PayOutOrderStatus
  <2>4. [op |-> "admin", o |-> o, target |-> target] \in Job
    BY <2>3 DEF Job, AdminJob
  <2> QED BY <2>1, <2>4, BeginStep
<1>5. CASE BeginSettlement(p)
  <2>1. PICK amount \in Withdrawals : Begin(p, "settle", [op |-> "settle", amount |-> amount])
    BY <1>5 DEF BeginSettlement
  <2>2. [op |-> "settle", amount |-> amount] \in Job
    BY DEF Job, SettleJob
  <2> QED BY <2>1, <2>2, BeginStep
<1> QED BY <1>1, <1>2, <1>3, <1>4, <1>5

LEMMA QuietStep ==
    ASSUME IInv, NEW p \in Handlers,
           DeactivateTrader(p) \/ ReadWork(p) \/ Fail(p)
    PROVE  IInv' /\ UNCHANGED order
<1>1. /\ UNCHANGED <<order, money, notified, cron>>
      /\ enabled' \in [Traders -> BOOLEAN]
  BY DEF DeactivateTrader, ReadWork, Fail, IInv, TypeOK
<1>2. PICK j \in Job : j.op # "admin" /\ Continue(p, j)
  <2>1. CASE DeactivateTrader(p)
    <3>1. PICK t \in Traders : Continue(p, [op |-> "deactivate", t |-> t])
      BY <2>1 DEF DeactivateTrader
    <3>2. [op |-> "deactivate", t |-> t] \in Job
      BY DEF Job, DeactivateJob
    <3> QED BY <3>1, <3>2
  <2>2. CASE ReadWork(p)
    <3> DEFINE orders == WorkOf(job[p].t)
    <3>1. Finish(p) \/ Continue(p, [op |-> "returnAll", orders |-> orders])
      BY <2>2 DEF ReadWork
    <3>2. [op |-> "returnAll", orders |-> orders] \in Job
      BY DEF Job, ReturnAllJob, WorkOf
    <3>3. Idle \in Job /\ Idle.op # "admin"
      BY DEF Job, Idle
    <3> HIDE DEF orders
    <3> QED BY <3>1, <3>2, <3>3 DEF Finish
  <2>3. CASE Fail(p)
    BY <2>3 DEF Fail, Finish, Idle, Job
  <2> QED BY <2>1, <2>2, <2>3
<1>3. /\ job' \in [Handlers -> Job]
      /\ \A q \in Handlers : job'[q].op = "admin" => "admin" \in Operations
  BY <1>2, ContinueStep
<1> QED BY <1>1, <1>3 DEF IInv, TypeOK, money, cron, NewestWebhookIsStatus

LEMMA PromoteStaleStep ==
    ASSUME IInv, PromoteStale
    PROVE  /\ IInv'
           /\ \A o \in Requests : /\ order'[o].trader = order[o].trader
                                  /\ order'[o].specialist = order[o].specialist
<1>1. \A o \in Requests : order[o] \in OrderRow
  BY DEF IInv, TypeOK
<1>2. \A o \in Requests :
          order'[o] \in {order[o], [order[o] EXCEPT !.pool = "PAYOUT_SPECIALIST"]}
  BY DEF PromoteStale, PromoteBatch
<1>3. \A o \in Requests :
          /\ order'[o] \in OrderRow
          /\ order'[o].status = order[o].status
          /\ order'[o].trader = order[o].trader
          /\ order'[o].specialist = order[o].specialist
          /\ order'[o].pool \in {order[o].pool, "PAYOUT_SPECIALIST"}
  BY <1>1, <1>2 DEF OrderRow
<1>4. order' \in [Requests -> OrderRow]
  BY <1>3 DEF PromoteStale, PromoteBatch
<1>5. \A o \in Requests : AssigneesOK(order'[o])
  BY <1>3 DEF IInv, AssigneesOK
<1>6. UNCHANGED <<money, notified, enabled, aged, job>> /\ batch' = {}
  BY DEF PromoteStale
<1>7. TypeOK'
  BY <1>4, <1>6 DEF IInv, TypeOK, money
<1>8. \A o \in Requests : OutcomeOK(order'[o].status, income'[o], refunds'[o])
  BY <1>3, <1>6 DEF IInv, money
<1>9. NewestWebhookIsStatus'
  BY <1>3, <1>6 DEF IInv, NewestWebhookIsStatus
<1> QED BY <1>3, <1>5, <1>6, <1>7, <1>8, <1>9 DEF IInv

LEMMA EnvironmentStep ==
    ASSUME IInv,
           \/ \E t \in Traders : ActivateTrader(t)
           \/ \E o \in Requests : Age(o)
           \/ ReadStale \/ PromotionDies
           \/ UNCHANGED vars
    PROVE  IInv' /\ UNCHANGED order
<1>1. /\ UNCHANGED <<order, money, notified, job>>
      /\ enabled' \in [Traders -> BOOLEAN]
      /\ aged' \subseteq Requests
      /\ batch' \subseteq Requests
  BY DEF ActivateTrader, Age, ReadStale, StaleOrders, PromotionDies, vars, IInv, TypeOK,
         money, cron
<1> QED BY <1>1 DEF IInv, TypeOK, money, NewestWebhookIsStatus

\* An update by id may drop assignees, and never adds one.
LEMMA CommitsTakeFromNobody ==
    ASSUME IInv, NEW p \in Handlers,
           \/ CommitStart(p) \/ CommitComplete(p) \/ CommitFail(p) \/ CommitReturn(p)
           \/ CommitAdmin(p) \/ ReturnOne(p) \/ CommitUpload(p)
    PROVE  TakesFromNobody
<1>1. \A o \in Requests : order[o] \in OrderRow
  BY DEF IInv, TypeOK
<1>2. SUFFICES ASSUME NEW o \in Requests
               PROVE  /\ order'[o].trader \in {order[o].trader, None}
                      /\ order'[o].specialist \in {order[o].specialist, None}
  BY DEF TakesFromNobody
<1> DEFINE Fewer(x, row) == /\ WriteOrder(x, row)
                            /\ row.trader \in {order[x].trader, None}
                            /\ row.specialist \in {order[x].specialist, None}
<1>3. CASE CommitUpload(p)
  <2>1. PICK pool : WriteOrder(job[p].o, [status |-> "PENDING", pool |-> pool,
                                          trader |-> None, specialist |-> None])
    BY <1>3 DEF CommitUpload
  <2> QED BY <1>1, <2>1 DEF WriteOrder, IInv, TypeOK
<1>4. CASE \/ CommitStart(p) \/ CommitComplete(p) \/ CommitFail(p) \/ CommitReturn(p)
           \/ CommitAdmin(p)
  <2>1. job[p].o \in Requests
    BY <1>4, JobKinds DEF CommitStart, CommitComplete, CommitFail, CommitReturn, CommitAdmin,
                          AssigneeJob, AdminJob, IInv, TypeOK
  <2> DEFINE x == job[p].o
  <2>2. ASSUME NEW status, WriteOrder(x, [order[x] EXCEPT !.status = status])
        PROVE  \E row : Fewer(x, row)
    <3>1. Fewer(x, [order[x] EXCEPT !.status = status])
      BY <1>1, <2>1, <2>2 DEF OrderRow
    <3> QED BY <3>1
  <2>3. ASSUME WriteOrder(x, ReturnedBy(order[x], job[p].who))
        PROVE  \E row : Fewer(x, row)
    <3>1. Fewer(x, ReturnedBy(order[x], job[p].who))
      BY <1>1, <2>1, <2>3 DEF ReturnedBy, OrderRow
    <3> QED BY <3>1
  <2>4. \/ \E status : WriteOrder(x, [order[x] EXCEPT !.status = status])
        \/ WriteOrder(x, ReturnedBy(order[x], job[p].who))
    BY <1>4 DEF CommitStart, CommitComplete, CommitFail, CommitReturn, CommitAdmin
  <2>5. \E row : Fewer(x, row)
    <3> HIDE DEF Fewer, x
    <3> QED BY <2>2, <2>3, <2>4
  <2> QED BY <1>1, <2>1, <2>5 DEF WriteOrder, IInv, TypeOK
<1>5. CASE ReturnOne(p)
  <2>1. job[p] \in ReturnAllJob
    BY <1>5, JobKinds DEF ReturnOne, IInv, TypeOK
  <2>2. PICK x \in Requests : WriteOrder(x, [order[x] EXCEPT !.status = "PENDING",
                                                             !.trader = None])
    BY <1>5, <2>1 DEF ReturnOne, ReturnAllJob
  <2>3. Fewer(x, [order[x] EXCEPT !.status = "PENDING", !.trader = None])
    BY <1>1, <2>2 DEF OrderRow
  <2> QED BY <1>1, <2>2, <2>3 DEF WriteOrder, IInv, TypeOK, OrderRow
<1> QED BY <1>3, <1>4, <1>5

LEMMA NextInv ==
    ASSUME IInv, [Next]_vars
    PROVE  IInv' /\ TakesFromNobody
<1>1. ASSUME UNCHANGED order PROVE TakesFromNobody
  BY <1>1 DEF TakesFromNobody
<1>2. ASSUME NEW p \in Handlers, Handler(p) PROVE IInv' /\ TakesFromNobody
  <2>1. CASE \/ BeginUpload(p) \/ BeginClaim(p) \/ BeginStart(p) \/ BeginComplete(p)
             \/ BeginFail(p) \/ BeginReturn(p) \/ BeginAdmin(p) \/ BeginSettlement(p)
    BY <2>1, <1>1, BeginsStep
  <2>2. CASE DeactivateTrader(p) \/ ReadWork(p) \/ Fail(p)
    BY <2>2, <1>1, QuietStep
  <2>3. CASE CommitClaim(p)
    BY <2>3, CommitClaimStep
  <2>5. CASE CommitSettlement(p)
    BY <2>5, <1>1, CommitSettlementStep
  <2>4. CASE \/ CommitStart(p) \/ CommitComplete(p) \/ CommitFail(p) \/ CommitReturn(p)
             \/ CommitAdmin(p) \/ ReturnOne(p) \/ CommitUpload(p)
    BY <2>4, CommitsTakeFromNobody, CommitStartStep, CommitCompleteStep, CommitFailStep,
       CommitReturnStep, CommitAdminStep, ReturnOneStep, CommitUploadStep
  <2> QED BY <1>2, <2>1, <2>2, <2>3, <2>4, <2>5 DEF Handler
<1>3. CASE PromoteStale
  BY <1>3, PromoteStaleStep DEF TakesFromNobody
<1>4. CASE \/ \E t \in Traders : ActivateTrader(t)
           \/ \E o \in Requests : Age(o)
           \/ ReadStale \/ PromotionDies
           \/ UNCHANGED vars
  BY <1>1, <1>4, EnvironmentStep
<1> QED BY <1>2, <1>3, <1>4 DEF Next

LEMMA InitInv == Init => IInv
<1> SUFFICES ASSUME Init PROVE IInv
  OBVIOUS
<1>1. NoOrder \in OrderRow /\ NoOrder.status = "NONE" /\ AssigneesOK(NoOrder)
  BY DEF NoOrder, OrderRow, PayOutOrderStatus, AssigneesOK
<1>2. "NONE" \in PayOutOrderStatus
  BY DEF PayOutOrderStatus
<1>3. Idle \in Job /\ Idle.op # "admin"
  BY DEF Idle, Job
<1>4. TypeOK
  BY <1>1, <1>2, <1>3, ConstantsAssumption DEF Init, TypeOK
<1>5. \A o \in Requests : /\ AssigneesOK(order[o])
                          /\ OutcomeOK(order[o].status, income[o], refunds[o])
                          /\ notified[o] = order[o].status
  BY <1>1 DEF Init, OutcomeOK
<1> QED BY <1>3, <1>4, <1>5 DEF Init, IInv, NewestWebhookIsStatus

-----------------------------------------------------------------------------
(* The theorems *)

\* The inductive invariant holds in every reachable state.
THEOREM Invariance == Spec => []IInv
<1>1. IInv /\ [Next]_vars => IInv'
  BY NextInv
<1> QED BY <1>1, InitInv, PTL DEF Spec

\* Every table row and every call in progress keeps its type.
THEOREM TypeCorrect == Spec => []TypeOK
<1>1. IInv => TypeOK
  BY DEF IInv
<1> QED BY <1>1, Invariance, PTL

\* No order is ever assigned to a trader and a specialist at once, whatever
\* claims, promotions, returns and overrides race.
THEOREM OneAssignee == Spec => []AtMostOneAssignee
<1>1. IInv => AtMostOneAssignee
  BY DEF IInv, AssigneesOK, AtMostOneAssignee
<1> QED BY <1>1, Invariance, PTL

\* No claim takes an order away from its assignee.
THEOREM ClaimsTakeFromNobody == Spec => NeverTaken
<1>1. IInv /\ [Next]_vars => [TakesFromNobody]_vars
  BY NextInv
<1> QED BY <1>1, Invariance, PTL DEF Spec, NeverTaken

\* The newest outbox row of an order carries its status.
THEOREM OutboxInStep == Spec => []NewestWebhookIsStatus
<1>1. IInv => NewestWebhookIsStatus
  BY DEF IInv
<1> QED BY <1>1, Invariance, PTL

\* Where no administrator overrides statuses, every COMPLETED order was credited.
THEOREM CompletedCredited ==
    ASSUME "admin" \notin Operations
    PROVE  Spec => []CompletedIsCredited
<1>1. IInv => CompletedIsCredited
  BY DEF IInv, OutcomeOK, CompletedIsCredited
<1> QED BY <1>1, Invariance, PTL

\* Where no administrator overrides statuses, every FAILED order was refunded.
THEOREM FailedRefunded ==
    ASSUME "admin" \notin Operations
    PROVE  Spec => []FailedIsRefunded
<1>1. IInv => FailedIsRefunded
  BY DEF IInv, OutcomeOK, FailedIsRefunded
<1> QED BY <1>1, Invariance, PTL
-----------------------------------------------------------------------------
(* Four kinds of steps: what every step does to the orders and the money *)

\* The orders a call has read and will update by id.
Rewrites(j) ==
    IF j.op \in {"start", "complete", "fail", "return", "admin"} THEN {j.o}
    ELSE IF j.op = "returnAll" THEN j.orders
    ELSE {}

\* What a call is going to take from the merchant's balance.
Outlay(j) ==
    IF j.op = "upload" THEN Debit[j.o]
    ELSE IF j.op = "settle" THEN j.amount
    ELSE 0

\* The orders are as the call has to find them for what it is going to do.
Fits(rows, j) ==
    /\ j.op \in {"start", "complete", "fail", "return"}
           => j.who \in {rows[j.o].trader, rows[j.o].specialist} \ {None}
    /\ j.op = "start" => rows[j.o].status = "NEW"
    /\ j.op \in {"complete", "fail"} => rows[j.o].status = "PROCESSING"
    /\ j.op = "return" => rows[j.o].status \in {"NEW", "PROCESSING"}
    /\ j.op = "admin" => ValidPayOutTransition(rows[j.o].status, j.target)
    /\ j.op = "returnAll" => \A o \in j.orders : rows[o].status \in {"NEW", "PROCESSING"}

\* A handler reads, and goes on to what the orders and the balance allow.
Reads(p, j) ==
    /\ j \in Job
    /\ Continue(p, j)
    /\ UNCHANGED <<order, money>>
    /\ Fits(order, j)
    /\ Outlay(j) = 0 \/ Outlay(j) <= balance

\* A settlement with the merchant is booked.
Settles(p) ==
    /\ job[p].op = "settle"
    /\ balance' = balance - job[p].amount
    /\ withdrawn' = withdrawn + job[p].amount
    /\ Finish(p)
    /\ UNCHANGED <<order, refunds, income>>

\* What a call makes of the order it updates.
RowFits(j, o, row) ==
    /\ j.op = "upload" => ~Uploaded(o) /\ row.status = "PENDING"
    /\ j.op \in {"take", "assign"} => order[o].status = "PENDING" /\ row.status = "PROCESSING"
    /\ j.op = "start" => row = [order[o] EXCEPT !.status = "PROCESSING"]
    /\ j.op = "complete" => row = [order[o] EXCEPT !.status = "COMPLETED"]
    /\ j.op = "fail" => row = [order[o] EXCEPT !.status = "FAILED"]
    /\ j.op \in {"return", "returnAll"} => row.status = "PENDING"
    /\ j.op = "admin" => row = [order[o] EXCEPT !.status = j.target]

\* What the call does to the money beside it.
Books(j, o) ==
    /\ j.op = "upload" => /\ balance' = balance - Debit[o]
                          /\ UNCHANGED <<withdrawn, refunds, income>>
    /\ j.op = "complete" => /\ income[o] = None
                            /\ income' = [income EXCEPT ![o] = j.who]
                            /\ UNCHANGED <<balance, withdrawn, refunds>>
    /\ j.op = "fail" => /\ balance' = balance + Debit[o]
                        /\ refunds' = [refunds EXCEPT ![o] = @ + 1]
                        /\ UNCHANGED <<withdrawn, income>>
    /\ j.op \notin {"upload", "complete", "fail"} => UNCHANGED money

\* One order is updated; the handler is through, or has the rest of its list.
Updates(p, o, row, j) ==
    /\ job[p].op \in {"upload", "take", "assign", "start", "complete", "fail", "return",
                      "admin", "returnAll"}
    /\ job[p].op # "returnAll" => o = job[p].o /\ j = Idle
    /\ job[p].op = "returnAll" => /\ o \in job[p].orders
                                  /\ j = Idle \/ j = [op |-> "returnAll",
                                                      orders |-> job[p].orders \ {o}]
    /\ order' = [order EXCEPT ![o] = row]
    /\ Continue(p, j)
    /\ RowFits(job[p], o, row)
    /\ Books(job[p], o)

\* Activations and the promotion touch neither the money nor who works on what.
Background ==
    /\ UNCHANGED <<money, job>>
    /\ \A o \in Requests : /\ order'[o].status = order[o].status
                           /\ order'[o].trader = order[o].trader
                           /\ order'[o].specialist = order[o].specialist

\* Calls that only read first.
LEMMA ReadingSteps ==
    ASSUME IInv, NEW p \in Handlers,
           \/ BeginUpload(p) \/ BeginClaim(p) \/ BeginStart(p) \/ BeginComplete(p)
           \/ BeginFail(p) \/ BeginReturn(p) \/ BeginAdmin(p) \/ BeginSettlement(p)
           \/ DeactivateTrader(p) \/ ReadWork(p) \/ Fail(p)
    PROVE  \E j : Reads(p, j)
<1>0. \A o \in Requests : order[o].status \in PayOutOrderStatus
  BY DEF IInv, TypeOK, OrderRow
<1>1. CASE BeginUpload(p)
  <2>1. PICK o \in Requests : /\ balance >= Debit[o]
                              /\ Begin(p, "upload", [op |-> "upload", o |-> o])
    BY <1>1 DEF BeginUpload, BalanceCovers
  <2>2. Reads(p, [op |-> "upload", o |-> o])
    <3>1. Debit[o] \in Nat /\ balance \in Int
      BY ConstantsAssumption DEF IInv, TypeOK
    <3> QED BY <2>1, <3>1 DEF Reads, Job, UploadJob, Fits, Outlay, Begin
  <2> QED BY <2>2
<1>2. CASE BeginClaim(p)
  <2>1. PICK o \in Requests, who \in Assignees, operation \in {"take", "assign"} :
            Begin(p, operation, [op |-> operation, o |-> o, who |-> who])
    BY <1>2 DEF BeginClaim
  <2>2. Reads(p, [op |-> operation, o |-> o, who |-> who])
    BY <2>1 DEF Reads, Job, ClaimJob, Fits, Outlay, Begin
  <2> QED BY <2>2
<1>3. CASE BeginStart(p) \/ BeginComplete(p) \/ BeginFail(p) \/ BeginReturn(p)
  <2>1. PICK o \in Requests, who \in Assignees,
             operation \in {"start", "complete", "fail", "return"} :
            /\ operation = "start" => order[o].status = "NEW"
            /\ operation = "complete" => ValidPayOutTransition(order[o].status, "COMPLETED")
            /\ operation = "fail" => ValidPayOutTransition(order[o].status, "FAILED")
            /\ operation = "return" => order[o].status \in {"NEW", "PROCESSING"}
            /\ AssignedTo(o, who)
            /\ Begin(p, operation, [op |-> operation, o |-> o, who |-> who])
    BY <1>3 DEF BeginStart, BeginComplete, BeginFail, BeginReturn, BeginByAssignee
  <2>2. operation \in {"complete", "fail"} => order[o].status = "PROCESSING"
    BY <1>0, <2>1 DEF ValidPayOutTransition, PayoutTransitions, PayOutOrderStatus
  <2>3. Fits(order, [op |-> operation, o |-> o, who |-> who])
    BY <2>1, <2>2 DEF Fits, AssignedTo
  <2>4. Reads(p, [op |-> operation, o |-> o, who |-> who])
    BY <2>1, <2>3 DEF Reads, Job, AssigneeJob, Outlay, Begin
  <2> QED BY <2>4
<1>4. CASE BeginAdmin(p)
  <2>1. PICK o \in Requests, target \in PayOutOrderStatus :
            /\ ValidPayOutTransition(order[o].status, target)
            /\ Begin(p, "admin", [op |-> "admin", o |-> o, target |-> target])
    BY <1>4 DEF BeginAdmin
  <2>2. target # "NONE"
    BY <1>0, <2>1 DEF ValidPayOutTransition, PayoutTransitions, PayOutOrderStatus
  <2>3. Fits(order, [op |-> "admin", o |-> o, target |-> target])
    BY <2>1 DEF Fits
  <2>4. Reads(p, [op |-> "admin", o |-> o, target |-> target])
    BY <2>1, <2>2, <2>3 DEF Reads, Job, AdminJob, Outlay, Begin
  <2> QED BY <2>4
<1>5. CASE BeginSettlement(p)
  <2>1. PICK amount \in Withdrawals :
            /\ balance >= amount
            /\ Begin(p, "settle", [op |-> "settle", amount |-> amount])
    BY <1>5 DEF BeginSettlement
  <2>2. Reads(p, [op |-> "settle", amount |-> amount])
    <3>1. amount \in Nat /\ balance \in Int
      BY ConstantsAssumption DEF IInv, TypeOK
    <3> QED BY <2>1, <3>1 DEF Reads, Job, SettleJob, Fits, Outlay, Begin
  <2> QED BY <2>2
<1>6. CASE DeactivateTrader(p)
  <2>1. PICK t \in Traders : Continue(p, [op |-> "deactivate", t |-> t])
    BY <1>6 DEF DeactivateTrader
  <2>2. Reads(p, [op |-> "deactivate", t |-> t])
    BY <1>6, <2>1 DEF DeactivateTrader, Reads, Job, DeactivateJob, Fits, Outlay
  <2> QED BY <2>2
<1>7. ASSUME Finish(p), UNCHANGED <<order, money>> PROVE Reads(p, Idle)
  BY <1>7 DEF Finish, Reads, Job, Idle, Fits, Outlay
<1>8. CASE ReadWork(p)
  <2> DEFINE orders == WorkOf(job[p].t)
             j == [op |-> "returnAll", orders |-> orders]
  <2>1. Finish(p) \/ Continue(p, j)
    BY <1>8 DEF ReadWork
  <2>2. UNCHANGED <<order, money>>
    BY <1>8 DEF ReadWork
  <2>3. Fits(order, j)
    BY DEF Fits, WorkOf
  <2>4. j \in Job /\ Outlay(j) = 0
    BY DEF Job, ReturnAllJob, WorkOf, Outlay
  <2> HIDE DEF j
  <2>5. Continue(p, j) => Reads(p, j)
    BY <2>2, <2>3, <2>4 DEF Reads
  <2> QED BY <1>7, <2>1, <2>2, <2>5
<1>9. CASE Fail(p)
  BY <1>7, <1>9 DEF Fail
<1> QED BY <1>1, <1>2, <1>3, <1>4, <1>5, <1>6, <1>8, <1>9

\* Calls that update an order.
LEMMA UpdatingSteps ==
    ASSUME IInv, NEW p \in Handlers,
           \/ CommitUpload(p) \/ CommitClaim(p) \/ CommitStart(p) \/ CommitComplete(p)
           \/ CommitFail(p) \/ CommitReturn(p) \/ CommitAdmin(p) \/ ReturnOne(p)
    PROVE  \E o \in Requests, j \in Job : \E row : Updates(p, o, row, j)
<1>0. Idle \in Job
  BY DEF Job
<1>1. CASE CommitUpload(p)
  <2>1. job[p].o \in Requests
    BY <1>1, JobKinds DEF CommitUpload, UploadJob, IInv, TypeOK
  <2>2. PICK pool \in {"STANDARD", "PAYOUT_SPECIALIST"} :
            WriteOrder(job[p].o, [status |-> "PENDING", pool |-> pool,
                                  trader |-> None, specialist |-> None])
    BY <1>1 DEF CommitUpload
  <2> DEFINE row == [status |-> "PENDING", pool |-> pool, trader |-> None, specialist |-> None]
  <2>3. row.status = "PENDING"
    OBVIOUS
  <2> HIDE DEF row
  <2>4. Updates(p, job[p].o, row, Idle)
    BY <1>1, <2>2, <2>3 DEF row, CommitUpload, Updates, WriteOrder, RowFits, Books, Finish
  <2> QED BY <1>0, <2>1, <2>4
<1>2. CASE CommitClaim(p)
  <2> DEFINE o == job[p].o
             row == ClaimedBy(order[o], job[p].who)
  <2>1. o \in Requests
    BY <1>2, JobKinds DEF CommitClaim, ClaimJob, IInv, TypeOK
  <2>2. row.status = "PROCESSING"
    BY <2>1 DEF ClaimedBy, IInv, TypeOK, OrderRow
  <2>3. /\ job[p].op \in {"take", "assign"}
        /\ order[o].status = "PENDING"
        /\ WriteOrder(o, row)
        /\ Finish(p)
        /\ UNCHANGED money
    BY <1>2 DEF CommitClaim, InPool
  <2> HIDE DEF row
  <2>4. Updates(p, o, row, Idle)
    BY <2>2, <2>3 DEF Updates, WriteOrder, RowFits, Books, Finish
  <2> QED BY <1>0, <2>1, <2>4
<1>3. CASE CommitStart(p)
  <2>1. job[p].o \in Requests
    BY <1>3, JobKinds DEF CommitStart, AssigneeJob, IInv, TypeOK
  <2>2. Updates(p, job[p].o, [order[job[p].o] EXCEPT !.status = "PROCESSING"], Idle)
    BY <1>3 DEF CommitStart, Updates, WriteOrder, RowFits, Books, Finish
  <2> QED BY <1>0, <2>1, <2>2
<1>4. CASE CommitComplete(p)
  <2>1. job[p].o \in Requests
    BY <1>4, JobKinds DEF CommitComplete, AssigneeJob, IInv, TypeOK
  <2>2. Updates(p, job[p].o, [order[job[p].o] EXCEPT !.status = "COMPLETED"], Idle)
    BY <1>4 DEF CommitComplete, Settle, Updates, WriteOrder, RowFits, Books, Finish
  <2> QED BY <1>0, <2>1, <2>2
<1>5. CASE CommitFail(p)
  <2>1. job[p].o \in Requests
    BY <1>5, JobKinds DEF CommitFail, AssigneeJob, IInv, TypeOK
  <2>2. Updates(p, job[p].o, [order[job[p].o] EXCEPT !.status = "FAILED"], Idle)
    BY <1>5 DEF CommitFail, RefundMerchant, Updates, WriteOrder, RowFits, Books, Finish
  <2> QED BY <1>0, <2>1, <2>2
<1>6. CASE CommitReturn(p)
  <2> DEFINE o == job[p].o
             row == ReturnedBy(order[o], job[p].who)
  <2>1. o \in Requests
    BY <1>6, JobKinds DEF CommitReturn, AssigneeJob, IInv, TypeOK
  <2>2. row.status = "PENDING"
    BY <2>1 DEF ReturnedBy, IInv, TypeOK, OrderRow
  <2>3. job[p].op = "return" /\ WriteOrder(o, row) /\ Finish(p) /\ UNCHANGED money
    BY <1>6 DEF CommitReturn
  <2> HIDE DEF row
  <2>4. Updates(p, o, row, Idle)
    BY <2>2, <2>3 DEF Updates, WriteOrder, RowFits, Books, Finish
  <2> QED BY <1>0, <2>1, <2>4
<1>7. CASE CommitAdmin(p)
  <2>1. job[p].o \in Requests
    BY <1>7, JobKinds DEF CommitAdmin, AdminJob, IInv, TypeOK
  <2>2. Updates(p, job[p].o, [order[job[p].o] EXCEPT !.status = job[p].target], Idle)
    BY <1>7 DEF CommitAdmin, Updates, WriteOrder, RowFits, Books, Finish
  <2> QED BY <1>0, <2>1, <2>2
<1>8. CASE ReturnOne(p)
  <2>1. job[p].orders \subseteq Requests
    <3>1. job[p] \in ReturnAllJob
      BY <1>8, JobKinds DEF ReturnOne, IInv, TypeOK
    <3> QED BY <3>1 DEF ReturnAllJob
  <2>2. PICK o \in job[p].orders :
            /\ WriteOrder(o, [order[o] EXCEPT !.status = "PENDING", !.trader = None])
            /\ LET rest == job[p].orders \ {o}
               IN  IF rest = {} THEN Finish(p)
                   ELSE Continue(p, [op |-> "returnAll", orders |-> rest])
    BY <1>8 DEF ReturnOne
  <2> DEFINE row == [order[o] EXCEPT !.status = "PENDING", !.trader = None]
             j == [op |-> "returnAll", orders |-> job[p].orders \ {o}]
  <2>3. row.status = "PENDING" /\ j \in Job
    BY <2>1, <2>2 DEF IInv, TypeOK, OrderRow, Job, ReturnAllJob
  <2>4. Continue(p, Idle) \/ Continue(p, j)
    BY <2>2 DEF Finish
  <2>5. job[p].op = "returnAll" /\ UNCHANGED money
    BY <1>8 DEF ReturnOne
  <2> HIDE DEF row
  <2>6. ASSUME NEW k \in {Idle, j}, Continue(p, k) PROVE Updates(p, o, row, k)
    BY <2>2, <2>3, <2>5, <2>6 DEF row, Updates, WriteOrder, RowFits, Books
  <2> HIDE DEF j
  <2> QED BY <1>0, <2>1, <2>3, <2>4, <2>6
<1> QED BY <1>1, <1>2, <1>3, <1>4, <1>5, <1>6, <1>7, <1>8

LEMMA StepKinds ==
    ASSUME IInv, [Next]_vars
    PROVE  \/ \E p \in Handlers : \E j : Reads(p, j)
           \/ \E p \in Handlers : Settles(p)
           \/ \E p \in Handlers, o \in Requests, j \in Job : \E row : Updates(p, o, row, j)
           \/ Background
<1>1. ASSUME NEW p \in Handlers, Handler(p)
      PROVE  \/ \E j : Reads(p, j)
             \/ Settles(p)
             \/ \E o \in Requests, j \in Job : \E row : Updates(p, o, row, j)
  <2>1. CASE \/ BeginUpload(p) \/ BeginClaim(p) \/ BeginStart(p) \/ BeginComplete(p)
             \/ BeginFail(p) \/ BeginReturn(p) \/ BeginAdmin(p) \/ BeginSettlement(p)
             \/ DeactivateTrader(p) \/ ReadWork(p) \/ Fail(p)
    BY <2>1, ReadingSteps
  <2>2. CASE \/ CommitUpload(p) \/ CommitClaim(p) \/ CommitStart(p) \/ CommitComplete(p)
             \/ CommitFail(p) \/ CommitReturn(p) \/ CommitAdmin(p) \/ ReturnOne(p)
    BY <2>2, UpdatingSteps
  <2>3. CASE CommitSettlement(p)
    BY <2>3 DEF CommitSettlement, Settles
  <2> QED BY <1>1, <2>1, <2>2, <2>3 DEF Handler
<1>2. CASE PromoteStale
  <2>1. UNCHANGED <<money, job>>
    BY <1>2 DEF PromoteStale
  <2>2. \A o \in Requests :
            order'[o] \in {order[o], [order[o] EXCEPT !.pool = "PAYOUT_SPECIALIST"]}
    BY <1>2 DEF PromoteStale, PromoteBatch
  <2>3. \A o \in Requests : order[o] \in OrderRow
    BY DEF IInv, TypeOK
  <2> QED BY <2>1, <2>2, <2>3 DEF Background, OrderRow
<1>3. CASE \/ \E t \in Traders : ActivateTrader(t)
           \/ \E o \in Requests : Age(o)
           \/ ReadStale \/ PromotionDies
           \/ UNCHANGED vars
  <2>1. UNCHANGED <<order, money, job>>
    BY <1>3 DEF ActivateTrader, Age, ReadStale, PromotionDies, vars
  <2> QED BY <2>1 DEF Background
<1> QED BY <1>1, <1>2, <1>3 DEF Next

\* What an update leaves behind.
LEMMA UpdateFacts ==
    ASSUME IInv, NEW p \in Handlers, NEW o \in Requests, NEW j \in Job, NEW row,
           Updates(p, o, row, j)
    PROVE  /\ order'[o] = row
           /\ \A x \in Requests \ {o} : order'[x] = order[x]
           /\ row.status # "NONE"
           /\ job'[p] = j
           /\ \A q \in Handlers \ {p} : job'[q] = job[q]
           /\ Rewrites(j) \subseteq Rewrites(job[p]) \ {o}
           /\ job[p].op \notin {"upload", "take", "assign"} => o \in Rewrites(job[p])
           /\ job[p].op \in {"upload", "take", "assign"} => Rewrites(job[p]) = {}
<1>1. order'[o] = row /\ \A x \in Requests \ {o} : order'[x] = order[x]
  BY DEF Updates, IInv, TypeOK
<1>2. job'[p] = j /\ \A q \in Handlers \ {p} : job'[q] = job[q]
  BY DEF Updates, Continue, IInv, TypeOK
<1>3. row.status # "NONE"
  <2>1. job[p].op = "admin" => job[p].target # "NONE"
    BY JobKinds DEF AdminJob, IInv, TypeOK
  <2>2. \A status : [order[o] EXCEPT !.status = status].status = status
    BY DEF IInv, TypeOK, OrderRow
  <2> QED BY <2>1, <2>2 DEF Updates, RowFits
<1>4. Rewrites(j) \subseteq Rewrites(job[p]) \ {o}
  <2>1. CASE j = Idle
    BY <2>1 DEF Rewrites, Idle
  <2>2. CASE j # Idle
    BY <2>2 DEF Updates, Rewrites
  <2> QED BY <2>1, <2>2
<1>5. /\ job[p].op \notin {"upload", "take", "assign"} => o \in Rewrites(job[p])
      /\ job[p].op \in {"upload", "take", "assign"} => Rewrites(job[p]) = {}
  BY DEF Updates, Rewrites
<1> QED BY <1>1, <1>2, <1>3, <1>4, <1>5

\* Who is moved on by a read.
LEMMA ReadFacts ==
    ASSUME IInv, NEW p \in Handlers, NEW j, Reads(p, j)
    PROVE  /\ job'[p] = j
           /\ \A q \in Handlers \ {p} : job'[q] = job[q]
  BY DEF Reads, Continue, IInv, TypeOK

\* Who is through after a settlement.
LEMMA SettleFacts ==
    ASSUME IInv, NEW p \in Handlers, Settles(p)
    PROVE  /\ job'[p] = Idle
           /\ \A q \in Handlers \ {p} : job'[q] = job[q]
  BY DEF Settles, Finish, Continue, IInv, TypeOK

-----------------------------------------------------------------------------
(* The balance, whatever calls race *)

\* What a call has read is there: no update by id makes an order.
JobsOnUploaded == \A p \in Handlers : \A o \in Rewrites(job[p]) : Uploaded(o)

LEMMA FittingIsUploaded ==
    ASSUME IInv, NEW j \in Job, Fits(order, j)
    PROVE  \A o \in Rewrites(j) : Uploaded(o)
<1>1. CASE j.op \in {"start", "complete", "fail", "return"}
  BY <1>1 DEF Fits, Rewrites, Uploaded
<1>2. CASE j.op = "admin"
  <2>1. j.o \in Requests
    BY <1>2, JobKinds DEF AdminJob
  <2>2. order[j.o].status \in PayOutOrderStatus
    BY <2>1 DEF IInv, TypeOK, OrderRow
  <2>3. order[j.o].status # "NONE"
    BY <1>2, <2>2 DEF Fits, ValidPayOutTransition, PayoutTransitions, PayOutOrderStatus
  <2> QED BY <1>2, <2>3 DEF Rewrites, Uploaded
<1>3. CASE j.op = "returnAll"
  BY <1>3 DEF Fits, Rewrites, Uploaded
<1> QED BY <1>1, <1>2, <1>3 DEF Rewrites

\* An order row stays, and only an upload makes one.
LEMMA UploadedStep ==
    ASSUME IInv, JobsOnUploaded, [Next]_vars
    PROVE  /\ JobsOnUploaded'
           /\ \A o \in Requests : Uploaded(o) => Uploaded(o)'
<1>1. ASSUME NEW p \in Handlers, NEW j, Reads(p, j)
      PROVE  JobsOnUploaded' /\ \A o \in Requests : Uploaded(o) => Uploaded(o)'
  <2>1. UNCHANGED order
    BY <1>1 DEF Reads
  <2>2. \A o \in Rewrites(j) : Uploaded(o)
    BY <1>1, FittingIsUploaded DEF Reads
  <2>3. job'[p] = j /\ \A q \in Handlers \ {p} : job'[q] = job[q]
    BY <1>1, ReadFacts
  <2> QED BY <2>1, <2>2, <2>3 DEF JobsOnUploaded, Uploaded
<1>2. ASSUME NEW p \in Handlers, Settles(p)
      PROVE  JobsOnUploaded' /\ \A o \in Requests : Uploaded(o) => Uploaded(o)'
  <2>1. UNCHANGED order
    BY <1>2 DEF Settles
  <2>2. Rewrites(Idle) = {}
    BY DEF Rewrites, Idle
  <2>3. job'[p] = Idle /\ \A q \in Handlers \ {p} : job'[q] = job[q]
    BY <1>2, SettleFacts
  <2> QED BY <2>1, <2>2, <2>3 DEF JobsOnUploaded, Uploaded
<1>3. ASSUME NEW p \in Handlers, NEW o \in Requests, NEW j \in Job, NEW row,
             Updates(p, o, row, j)
      PROVE  JobsOnUploaded' /\ \A x \in Requests : Uploaded(x) => Uploaded(x)'
  <2>1. /\ order'[o] = row
        /\ \A x \in Requests \ {o} : order'[x] = order[x]
        /\ row.status # "NONE"
        /\ job'[p] = j
        /\ \A q \in Handlers \ {p} : job'[q] = job[q]
        /\ Rewrites(j) \subseteq Rewrites(job[p])
    BY <1>3, UpdateFacts
  <2>2. \A q \in Handlers : Rewrites(job'[q]) \subseteq Rewrites(job[q])
    BY <2>1
  <2>3. \A q \in Handlers : Rewrites(job[q]) \subseteq Requests
    BY JobKinds DEF Rewrites, AssigneeJob, AdminJob, ReturnAllJob, IInv, TypeOK
  <2>4. \A x \in Requests : Uploaded(x) => Uploaded(x)'
    BY <2>1 DEF Uploaded
  <2> QED BY <2>2, <2>3, <2>4 DEF JobsOnUploaded
<1>4. CASE Background
  <2>1. \A q \in Handlers : Rewrites(job[q]) \subseteq Requests
    BY JobKinds DEF Rewrites, AssigneeJob, AdminJob, ReturnAllJob, IInv, TypeOK
  <2> QED BY <1>4, <2>1 DEF Background, JobsOnUploaded, Uploaded
<1> QED BY <1>1, <1>2, <1>3, <1>4, StepKinds

Uploads == {o \in Requests : Uploaded(o)}

\* The two sums of BalanceMatchesBookings are integers.
LEMMA SumsAreIntegers ==
    ASSUME IInv
    PROVE  /\ IsFiniteSet(Uploads) /\ Uploads \subseteq Requests
           /\ \A o \in Requests : Debit[o] \in Int /\ Refunded[o] \in Int
           /\ SumFunctionOnSet(Debit, Uploads) \in Int
           /\ SumFunctionOnSet(Refunded, Requests) \in Int
<1>1. IsFiniteSet(Uploads) /\ Uploads \subseteq Requests
  BY ConstantsAssumption, FS_Subset DEF Uploads
<1>2. \A o \in Requests : Debit[o] \in Int /\ Refunded[o] \in Int
  <2> TAKE o \in Requests
  <2>1. Debit[o] \in Int /\ refunds[o] \in Int
    BY ConstantsAssumption DEF IInv, TypeOK
  <2>2. Refunded[o] = Debit[o] * refunds[o]
    BY DEF Refunded
  <2> QED BY <2>1, <2>2
<1>3. IsFiniteSet(Requests)
  BY ConstantsAssumption
<1> QED BY <1>1, <1>2, <1>3, SumType

\* Nothing is settled for a negative amount.
LEMMA SettlementsArePositive == \A j \in SettleJob : j.amount \in Nat
  BY ConstantsAssumption DEF SettleJob

LEMMA BalanceStep ==
    ASSUME IInv, BalanceMatchesBookings, JobsOnUploaded, [Next]_vars
    PROVE  BalanceMatchesBookings'
<1> DEFINE D == SumFunctionOnSet(Debit, Uploads)
           R == SumFunctionOnSet(Refunded, Requests)
<1>1. D \in Int /\ R \in Int /\ Deposit \in Int /\ balance \in Int /\ withdrawn \in Int
  BY SumsAreIntegers, ConstantsAssumption DEF IInv, TypeOK
<1>2. balance = Deposit - withdrawn - D + R
  BY DEF BalanceMatchesBookings, Uploads
<1>3. BalanceMatchesBookings' <=> balance' = Deposit - withdrawn' - D' + R'
  BY DEF BalanceMatchesBookings, Uploads
<1>4. ASSUME UNCHANGED refunds PROVE R' = R
  <2>1. Refunded' = Refunded
    BY <1>4 DEF Refunded
  <2> QED BY <2>1
<1>5. ASSUME Uploads' = Uploads PROVE D' = D
  BY <1>5
<1>6. ASSUME NEW p \in Handlers, NEW j, Reads(p, j) PROVE BalanceMatchesBookings'
  <2>1. UNCHANGED <<order, balance, withdrawn, refunds>>
    BY <1>6 DEF Reads, money
  <2>2. Uploads' = Uploads
    BY <2>1 DEF Uploads, Uploaded
  <2> QED BY <1>2, <1>3, <1>4, <1>5, <2>1, <2>2
<1>7. ASSUME NEW p \in Handlers, Settles(p) PROVE BalanceMatchesBookings'
  <2>1. UNCHANGED <<order, refunds>>
    BY <1>7 DEF Settles
  <2>2. Uploads' = Uploads
    BY <2>1 DEF Uploads, Uploaded
  <2>3. job[p].amount \in Int
    <3>1. job[p] \in SettleJob
      BY <1>7, JobKinds DEF Settles, IInv, TypeOK
    <3> QED BY <3>1, SettlementsArePositive
  <2>4. balance' = balance - job[p].amount /\ withdrawn' = withdrawn + job[p].amount
    BY <1>7 DEF Settles
  <2>5. D' = D /\ R' = R
    BY <1>4, <1>5, <2>1, <2>2
  <2> HIDE DEF D, R
  <2> QED BY <1>1, <1>2, <1>3, <2>3, <2>4, <2>5
<1>8. ASSUME NEW p \in Handlers, NEW o \in Requests, NEW j \in Job, NEW row,
             Updates(p, o, row, j)
      PROVE  BalanceMatchesBookings'
  <2>1. /\ order'[o] = row
        /\ \A x \in Requests \ {o} : order'[x] = order[x]
        /\ row.status # "NONE"
        /\ job[p].op \notin {"upload", "take", "assign"} => o \in Rewrites(job[p])
    BY <1>8, UpdateFacts
  <2>2. RowFits(job[p], o, row) /\ Books(job[p], o)
    BY <1>8 DEF Updates
  <2>3. job[p].op # "upload" => Uploaded(o)
    BY <2>1, <2>2 DEF RowFits, JobsOnUploaded, Uploaded
  <2>4. ASSUME job[p].op # "upload" PROVE D' = D
    <3>1. Uploads' = Uploads
      BY <2>1, <2>3, <2>4 DEF Uploads, Uploaded
    <3> QED BY <1>5, <3>1
  <2>5. CASE job[p].op = "upload"
    <3>1. /\ balance' = balance - Debit[o]
          /\ UNCHANGED <<withdrawn, refunds>>
          /\ ~Uploaded(o)
      BY <2>2, <2>5 DEF Books, RowFits
    <3>2. Uploads' = Uploads \cup {o} /\ o \notin Uploads
      BY <2>1, <3>1 DEF Uploads, Uploaded
    <3>3. D' = D + Debit[o]
      <4>1. IsFiniteSet(Uploads) /\ \A x \in Uploads \cup {o} : Debit[x] \in Int
        BY SumsAreIntegers
      <4>2. SumFunctionOnSet(Debit, Uploads \cup {o}) = D + Debit[o]
        BY <3>2, <4>1, SumAdd
      <4>3. D' = SumFunctionOnSet(Debit, Uploads')
        OBVIOUS
      <4> QED BY <3>2, <4>2, <4>3
    <3>4. Debit[o] \in Int
      BY SumsAreIntegers
    <3>5. R' = R
      BY <1>4, <3>1
    <3> HIDE DEF D, R
    <3> QED BY <1>1, <1>2, <1>3, <3>1, <3>3, <3>4, <3>5
  <2>6. CASE job[p].op = "fail"
    <3>1. /\ balance' = balance + Debit[o]
          /\ refunds' = [refunds EXCEPT ![o] = @ + 1]
          /\ UNCHANGED withdrawn
      BY <2>2, <2>6 DEF Books
    <3>2. /\ Debit[o] \in Int /\ refunds[o] \in Int
          /\ refunds'[o] = refunds[o] + 1
          /\ \A x \in Requests \ {o} : refunds'[x] = refunds[x]
      <4>1. Debit[o] \in Int
        BY SumsAreIntegers
      <4>2. refunds \in [Requests -> Nat]
        BY DEF IInv, TypeOK
      <4> QED BY <3>1, <4>1, <4>2
    <3>3. \A x \in Requests \ {o} : Refunded'[x] = Refunded[x]
      BY <3>2 DEF Refunded
    <3>4. Refunded'[o] = Refunded[o] + Debit[o] /\ Refunded'[o] \in Int
      <4>1. Refunded[o] = Debit[o] * refunds[o] /\ Refunded'[o] = Debit[o] * (refunds[o] + 1)
        BY <3>2 DEF Refunded
      <4> DEFINE d == Debit[o]
                 n == refunds[o]
      <4>2. d \in Int /\ n \in Int
        BY <3>2
      <4> HIDE DEF d, n
      <4>3. d * (n + 1) = d * n + d /\ d * n \in Int
        BY <4>2
      <4>4. d * (n + 1) \in Int
        BY <4>2
      <4> QED BY <4>1, <4>3, <4>4 DEF d, n
    <3>5. R' = R - Refunded[o] + Refunded'[o]
      <4> DEFINE f == Refunded
                 g == Refunded'
      <4>1. /\ IsFiniteSet(Requests)
            /\ \A x \in Requests : f[x] \in Int
            /\ g[o] \in Int
            /\ \A x \in Requests \ {o} : g[x] = f[x]
        BY <3>3, <3>4, ConstantsAssumption, SumsAreIntegers
      <4>2. R = SumFunctionOnSet(f, Requests) /\ R' = SumFunctionOnSet(g, Requests)
        OBVIOUS
      <4> HIDE DEF f, g, R
      <4>3. SumFunctionOnSet(g, Requests) = SumFunctionOnSet(f, Requests) - f[o] + g[o]
        BY <4>1, SumUpdate
      <4>4. R' = R - f[o] + g[o]
        BY <4>2, <4>3
      <4> QED BY <4>4 DEF f, g
    <3>6. Refunded[o] \in Int
      BY SumsAreIntegers
    <3>7. D' = D
      BY <2>4, <2>6
    <3> HIDE DEF D, R
    <3>8. R' = R + Debit[o]
      BY <1>1, <3>2, <3>4, <3>5, <3>6
    <3> QED BY <1>1, <1>2, <1>3, <3>1, <3>2, <3>7, <3>8
  <2>7. CASE job[p].op \notin {"upload", "fail"}
    <3>1. UNCHANGED <<balance, withdrawn, refunds>>
      BY <2>2, <2>7 DEF Books, money
    <3>2. D' = D /\ R' = R
      BY <1>4, <2>4, <2>7, <3>1
    <3> HIDE DEF D, R
    <3> QED BY <1>2, <1>3, <3>1, <3>2
  <2> QED BY <2>5, <2>6, <2>7
<1>9. CASE Background
  <2>1. UNCHANGED <<balance, withdrawn, refunds>>
    BY <1>9 DEF Background, money
  <2>2. Uploads' = Uploads
    BY <1>9 DEF Background, Uploads, Uploaded
  <2> QED BY <1>2, <1>3, <1>4, <1>5, <2>1, <2>2
<1> QED BY <1>6, <1>7, <1>8, <1>9, StepKinds

\* The merchant's balance is always the deposit less reserves and settlements
\* plus refunds, whatever uploads, settlements and refunds race.
THEOREM BalanceIsBooked == Spec => []BalanceMatchesBookings
<1>1. Init => BalanceMatchesBookings /\ JobsOnUploaded
  <2> SUFFICES ASSUME Init PROVE BalanceMatchesBookings /\ JobsOnUploaded
    OBVIOUS
  <2>1. Uploads = {}
    BY DEF Init, Uploads, Uploaded, NoOrder
  <2>2. SumFunctionOnSet(Debit, Uploads) = 0
    BY <2>1, SumEmpty
  <2>3. \A o \in Requests : Refunded[o] = 0
    BY ConstantsAssumption DEF Init, Refunded
  <2>4. SumFunctionOnSet(Refunded, Requests) = 0
    <3>1. SumFunctionOnSet(Refunded, Requests) \in Nat
          /\ SumFunctionOnSet(Refunded, Requests) <= 0 * Cardinality(Requests)
      BY <2>3, ConstantsAssumption, SumBounds
    <3>2. Cardinality(Requests) \in Nat
      BY ConstantsAssumption, FS_CardinalityType
    <3> QED BY <3>1, <3>2
  <2>5. balance = Deposit /\ withdrawn = 0 /\ Deposit \in Nat
    BY ConstantsAssumption DEF Init
  <2>6. BalanceMatchesBookings
    BY <2>2, <2>4, <2>5 DEF BalanceMatchesBookings, Uploads
  <2> QED BY <2>6 DEF Init, JobsOnUploaded, Rewrites, Idle
<1>2. IInv /\ BalanceMatchesBookings /\ JobsOnUploaded /\ [Next]_vars
          => BalanceMatchesBookings' /\ JobsOnUploaded'
  BY BalanceStep, UploadedStep
<1> QED BY <1>1, <1>2, Invariance, PTL DEF Spec
-----------------------------------------------------------------------------
(* How far the merchant can be overdrawn *)

\* What the handlers are going to take, between their check and their commit.
Outlays == [p \in Handlers |-> Outlay(job[p])]

\* No two calls are between their look at the balance and their withdrawal.
OneSpender ==
    \A p, q \in Handlers :
        p # q => ~ {job[p].op, job[q].op} \subseteq {"upload", "settle"}

LEMMA OutlayType ==
    ASSUME NEW j \in Job
    PROVE  /\ Outlay(j) \in Nat
           /\ j.op \notin {"upload", "settle"} => Outlay(j) = 0
<1>1. CASE j.op = "upload"
  <2>1. j.o \in Requests
    BY <1>1, JobKinds DEF UploadJob
  <2> QED BY <1>1, <2>1, ConstantsAssumption DEF Outlay
<1>2. CASE j.op = "settle"
  <2>1. j.amount \in Nat
    BY <1>2, JobKinds, SettlementsArePositive
  <2> QED BY <1>2, <2>1 DEF Outlay
<1> QED BY <1>1, <1>2 DEF Outlay

\* What each step does to the balance and to what p is going to take.
LEMMA SpendingStep ==
    ASSUME IInv, [Next]_vars
    PROVE  \/ UNCHANGED <<balance, job>>
           \/ \E p \in Handlers :
                 /\ job' \in [Handlers -> Job]
                 /\ \A q \in Handlers \ {p} : job'[q] = job[q]
                 /\ \/ /\ balance' = balance
                       /\ Outlay(job'[p]) = 0 \/ Outlay(job'[p]) <= balance
                    \/ /\ Outlay(job'[p]) = 0
                       /\ balance' = balance - Outlay(job[p])
                       /\ job[p].op \in {"upload", "settle"}
                    \/ Outlay(job'[p]) = 0 /\ balance' >= balance
<1>0. IInv' /\ balance \in Int
  BY NextInv DEF IInv, TypeOK
<1>1. job' \in [Handlers -> Job]
  BY <1>0 DEF IInv, TypeOK
<1>2. ASSUME NEW p \in Handlers, NEW j, Reads(p, j)
      PROVE  /\ \A q \in Handlers \ {p} : job'[q] = job[q]
             /\ balance' = balance
             /\ Outlay(job'[p]) = 0 \/ Outlay(job'[p]) <= balance
  <2>1. job'[p] = j /\ \A q \in Handlers \ {p} : job'[q] = job[q]
    BY <1>2, ReadFacts
  <2> QED BY <1>2, <2>1 DEF Reads, money
<1>3. Outlay(Idle) = 0
  BY DEF Outlay, Idle
<1>4. ASSUME NEW p \in Handlers, Settles(p)
      PROVE  /\ \A q \in Handlers \ {p} : job'[q] = job[q]
             /\ Outlay(job'[p]) = 0
             /\ balance' = balance - Outlay(job[p])
             /\ job[p].op \in {"upload", "settle"}
  <2>1. job'[p] = Idle /\ \A q \in Handlers \ {p} : job'[q] = job[q]
    BY <1>4, SettleFacts
  <2> QED BY <1>3, <1>4, <2>1 DEF Settles, Outlay
<1>5. ASSUME NEW p \in Handlers, NEW o \in Requests, NEW j \in Job, NEW row,
             Updates(p, o, row, j)
      PROVE  /\ \A q \in Handlers \ {p} : job'[q] = job[q]
             /\ Outlay(job'[p]) = 0
             /\ \/ /\ balance' = balance - Outlay(job[p])
                   /\ job[p].op \in {"upload", "settle"}
                \/ balance' >= balance
  <2>1. job'[p] = j /\ \A q \in Handlers \ {p} : job'[q] = job[q]
    BY <1>5, UpdateFacts
  <2>2. Outlay(j) = 0
    BY <1>3, <1>5 DEF Updates, Outlay
  <2>3. Books(job[p], o) /\ (job[p].op = "upload" => o = job[p].o)
    BY <1>5 DEF Updates
  <2>4. CASE job[p].op = "upload"
    BY <2>1, <2>2, <2>3, <2>4 DEF Books, Outlay
  <2>5. CASE job[p].op = "fail"
    <3>1. Debit[o] \in Nat
      BY ConstantsAssumption
    <3>2. balance' = balance + Debit[o]
      BY <2>3, <2>5 DEF Books
    <3>3. balance' >= balance
      BY <1>0, <3>1, <3>2
    <3> QED BY <2>1, <2>2, <3>3
  <2>6. CASE job[p].op \notin {"upload", "fail"}
    <3>1. balance' = balance
      BY <2>3, <2>6 DEF Books, money
    <3>2. balance' >= balance
      BY <1>0, <3>1
    <3> QED BY <2>1, <2>2, <3>2
  <2> QED BY <2>4, <2>5, <2>6
<1>6. CASE Background
  BY <1>6 DEF Background, money
<1> QED BY <1>1, <1>2, <1>4, <1>5, <1>6, StepKinds

\* While no two calls spend at once, the merchant is never overdrawn.
THEOREM OneSpenderNeverOverdraws == Spec /\ []OneSpender => []NeverOverdrawn
<1> DEFINE Covered == \A p \in Handlers : Outlay(job[p]) <= balance
<1>1. Init => NeverOverdrawn /\ Covered
  BY ConstantsAssumption DEF Init, NeverOverdrawn, Outlay, Idle
<1>2. ASSUME IInv, NeverOverdrawn, Covered, OneSpender, [Next]_vars
      PROVE  NeverOverdrawn' /\ Covered'
  <2>1. balance \in Int /\ balance >= 0 /\ balance' \in Int /\ job \in [Handlers -> Job]
    BY <1>2, NextInv DEF IInv, TypeOK, NeverOverdrawn
  <2>2. \A q \in Handlers : Outlay(job[q]) \in Nat
    BY <2>1, OutlayType
  <2>3. CASE UNCHANGED <<balance, job>>
    BY <1>2, <2>3 DEF NeverOverdrawn
  <2>4. CASE ~ UNCHANGED <<balance, job>>
    <3>1. PICK p \in Handlers :
              /\ job' \in [Handlers -> Job]
              /\ \A q \in Handlers \ {p} : job'[q] = job[q]
              /\ \/ /\ balance' = balance
                    /\ Outlay(job'[p]) = 0 \/ Outlay(job'[p]) <= balance
                 \/ /\ Outlay(job'[p]) = 0
                    /\ balance' = balance - Outlay(job[p])
                    /\ job[p].op \in {"upload", "settle"}
                 \/ Outlay(job'[p]) = 0 /\ balance' >= balance
      BY <1>2, <2>4, SpendingStep
    <3>2. \A q \in Handlers \ {p} : Outlay(job'[q]) = Outlay(job[q])
      BY <3>1
    <3>3. job[p].op \in {"upload", "settle"} => \A q \in Handlers \ {p} : Outlay(job[q]) = 0
      BY <1>2, <2>1, OutlayType DEF OneSpender
    <3>4. Outlay(job[p]) <= balance /\ \A q \in Handlers : Outlay(job[q]) <= balance
      BY <1>2
    <3>5. balance' >= 0
      BY <2>1, <2>2, <3>1, <3>4
    <3>6. \A q \in Handlers : Outlay(job'[q]) <= balance'
      <4> TAKE q \in Handlers
      <4>1. CASE q = p
        BY <2>1, <3>1, <3>5, <4>1
      <4>2. CASE q # p
        BY <2>1, <2>2, <3>1, <3>2, <3>3, <3>4, <3>5, <4>2
      <4> QED BY <4>1, <4>2
    <3> QED BY <3>5, <3>6 DEF NeverOverdrawn
  <2> QED BY <2>3, <2>4
<1> HIDE DEF Covered
<1> QED BY <1>1, <1>2, Invariance, PTL DEF Spec

\* The balance covers what the handlers are going to take, up to what all but one
\* of them may take together: each saw enough for itself.
WithinMargin(M) ==
    balance - SumFunctionOnSet(Outlays, Handlers) >= - (M * (Cardinality(Handlers) - 1))

\* The sum of outlays, and what it becomes when p moves on.
LEMMA OutlaysMove ==
    ASSUME IInv, IInv', NEW p \in Handlers, NEW M \in Nat,
           \A o \in Requests : Debit[o] <= M, \A x \in Withdrawals : x <= M,
           \A q \in Handlers \ {p} : job'[q] = job[q]
    PROVE  \E rest \in Nat :
              /\ rest <= M * (Cardinality(Handlers) - 1)
              /\ SumFunctionOnSet(Outlays, Handlers) = Outlay(job[p]) + rest
              /\ SumFunctionOnSet(Outlays', Handlers) = Outlay(job'[p]) + rest
<1> DEFINE f == Outlays
           g == Outlays'
           rest == SumFunctionOnSet(f, Handlers \ {p})
<1>1. \A j \in Job : Outlay(j) <= M
  <2> TAKE j \in Job
  <2>1. CASE j.op = "upload"
    BY <2>1, JobKinds DEF UploadJob, Outlay
  <2>2. CASE j.op = "settle"
    BY <2>2, JobKinds DEF SettleJob, Outlay
  <2> QED BY <2>1, <2>2 DEF Outlay
<1>2. job \in [Handlers -> Job] /\ job' \in [Handlers -> Job]
  BY DEF IInv, TypeOK
<1>3. /\ \A q \in Handlers : f[q] \in Nat /\ f[q] <= M /\ g[q] \in Nat
      /\ \A q \in Handlers \ {p} : g[q] = f[q]
      /\ f[p] = Outlay(job[p]) /\ g[p] = Outlay(job'[p])
  BY <1>1, <1>2, OutlayType DEF Outlays
<1> HIDE DEF f, g
<1>4. /\ IsFiniteSet(Handlers) /\ IsFiniteSet(Handlers \ {p})
      /\ Cardinality(Handlers \ {p}) = Cardinality(Handlers) - 1
  BY ConstantsAssumption, FS_RemoveElement
<1>5. /\ SumFunctionOnSet(f, Handlers) = f[p] + rest
      /\ SumFunctionOnSet(g, Handlers) = g[p] + SumFunctionOnSet(g, Handlers \ {p})
  BY <1>3, <1>4, SumRemove
<1>6. SumFunctionOnSet(g, Handlers \ {p}) = rest
  BY <1>3, <1>4, SumSame
<1>7. rest \in Nat /\ rest <= M * Cardinality(Handlers \ {p})
  BY <1>3, <1>4, SumBounds
<1>8. SumFunctionOnSet(Outlays', Handlers) = Outlay(job'[p]) + rest
  BY <1>3, <1>5, <1>6 DEF g
<1>9. SumFunctionOnSet(Outlays, Handlers) = Outlay(job[p]) + rest
  BY <1>3, <1>5 DEF f
<1> HIDE DEF rest
<1> QED BY <1>4, <1>7, <1>8, <1>9

LEMMA MarginStep ==
    ASSUME NEW M \in Nat, \A o \in Requests : Debit[o] <= M, \A x \in Withdrawals : x <= M,
           IInv, WithinMargin(M), [Next]_vars
    PROVE  WithinMargin(M)'
<1>1. IInv' /\ balance \in Int /\ balance' \in Int /\ job \in [Handlers -> Job]
  BY NextInv DEF IInv, TypeOK
<1>2. CASE UNCHANGED <<balance, job>>
  BY <1>2 DEF WithinMargin, Outlays
<1>3. CASE ~ UNCHANGED <<balance, job>>
  <2>1. PICK p \in Handlers :
            /\ job' \in [Handlers -> Job]
            /\ \A q \in Handlers \ {p} : job'[q] = job[q]
            /\ \/ /\ balance' = balance
                  /\ Outlay(job'[p]) = 0 \/ Outlay(job'[p]) <= balance
               \/ /\ Outlay(job'[p]) = 0
                  /\ balance' = balance - Outlay(job[p])
                  /\ job[p].op \in {"upload", "settle"}
               \/ Outlay(job'[p]) = 0 /\ balance' >= balance
    BY <1>3, SpendingStep
  <2>2. PICK rest \in Nat :
            /\ rest <= M * (Cardinality(Handlers) - 1)
            /\ SumFunctionOnSet(Outlays, Handlers) = Outlay(job[p]) + rest
            /\ SumFunctionOnSet(Outlays', Handlers) = Outlay(job'[p]) + rest
    BY <1>1, <2>1, OutlaysMove
  <2> DEFINE margin == M * (Cardinality(Handlers) - 1)
             before == Outlay(job[p])
             after == Outlay(job'[p])
             b == balance
             c == balance'
  <2>3. before \in Nat /\ after \in Nat
    BY <1>1, <2>1, OutlayType
  <2>4. margin \in Int
    <3>1. Cardinality(Handlers) \in Nat
      BY ConstantsAssumption, FS_CardinalityType
    <3> QED BY <3>1
  <2>5. b - (before + rest) >= - margin
    BY <2>2 DEF WithinMargin
  <2>6. \/ c = b /\ (after = 0 \/ after <= b)
        \/ after = 0 /\ c = b - before
        \/ after = 0 /\ c >= b
    BY <2>1
  <2>7. b \in Int /\ c \in Int /\ rest <= margin
    BY <1>1, <2>2
  <2> HIDE DEF margin, before, after, b, c
  <2>8. c - (after + rest) >= - margin
    BY <2>3, <2>4, <2>5, <2>6, <2>7
  <2>9. balance' - SumFunctionOnSet(Outlays', Handlers) >= - margin
    BY <2>2, <2>8 DEF c, after
  <2> QED BY <2>9 DEF WithinMargin, margin
<1> QED BY <1>2, <1>3

\* Whatever calls race, the merchant's balance falls below zero by at most what all
\* handlers but one can take at once: n calls that read the same balance overdraw
\* it n - 1 times.
THEOREM OverdraftBounded ==
    ASSUME NEW M \in Nat, \A o \in Requests : Debit[o] <= M, \A x \in Withdrawals : x <= M,
           Handlers # {}
    PROVE  Spec => [](balance >= - (M * (Cardinality(Handlers) - 1)))
<1> DEFINE margin == M * (Cardinality(Handlers) - 1)
<1>1. Cardinality(Handlers) \in Nat /\ Cardinality(Handlers) - 1 \in Nat /\ margin \in Nat
  <2>1. Cardinality(Handlers) \in Nat /\ Cardinality(Handlers) # 0
    BY ConstantsAssumption, FS_CardinalityType, FS_EmptySet
  <2>2. Cardinality(Handlers) - 1 \in Nat
    BY <2>1
  <2> DEFINE n == Cardinality(Handlers) - 1
  <2> HIDE DEF n
  <2>3. n \in Nat => M * n \in Nat
    OBVIOUS
  <2> QED BY <2>1, <2>2, <2>3 DEF n
<1> HIDE DEF margin
<1>2. Init => WithinMargin(M)
  <2> SUFFICES ASSUME Init PROVE WithinMargin(M)
    OBVIOUS
  <2>1. \A p \in Handlers : Outlays[p] = 0
    BY DEF Init, Outlays, Outlay, Idle
  <2>2. /\ SumFunctionOnSet(Outlays, Handlers) \in Nat
        /\ SumFunctionOnSet(Outlays, Handlers) <= 0 * Cardinality(Handlers)
    BY <2>1, ConstantsAssumption, SumBounds
  <2>3. balance \in Nat
    BY ConstantsAssumption DEF Init
  <2>4. WithinMargin(M) <=> balance - SumFunctionOnSet(Outlays, Handlers) >= - margin
    BY DEF WithinMargin, margin
  <2> QED BY <1>1, <2>2, <2>3, <2>4
<1>3. IInv /\ WithinMargin(M) /\ [Next]_vars => WithinMargin(M)'
  BY MarginStep
<1>4. IInv /\ WithinMargin(M) => balance >= - margin
  <2> SUFFICES ASSUME IInv, WithinMargin(M) PROVE balance >= - margin
    OBVIOUS
  <2>1. \A p \in Handlers : Outlays[p] \in Nat
    BY OutlayType DEF Outlays, IInv, TypeOK
  <2>2. PICK N \in Nat : \A p \in Handlers : Outlays[p] <= N
    <3>1. \A j \in Job : Outlay(j) <= M
      <4> TAKE j \in Job
      <4>1. CASE j.op = "upload"
        BY <4>1, JobKinds DEF UploadJob, Outlay
      <4>2. CASE j.op = "settle"
        BY <4>2, JobKinds DEF SettleJob, Outlay
      <4> QED BY <4>1, <4>2 DEF Outlay
    <3> QED BY <3>1 DEF Outlays, IInv, TypeOK
  <2>3. SumFunctionOnSet(Outlays, Handlers) \in Nat
    BY <2>1, <2>2, ConstantsAssumption, SumBounds
  <2>4. balance - SumFunctionOnSet(Outlays, Handlers) >= - margin /\ balance \in Int
    BY DEF WithinMargin, margin, IInv, TypeOK
  <2> DEFINE sum == SumFunctionOnSet(Outlays, Handlers)
  <2>5. sum \in Nat /\ balance - sum >= - margin
    BY <2>3, <2>4
  <2> HIDE DEF sum
  <2> QED BY <1>1, <2>4, <2>5
<1>5. Spec => [](balance >= - margin)
  BY <1>2, <1>3, <1>4, Invariance, PTL DEF Spec
<1> QED BY <1>5 DEF margin
-----------------------------------------------------------------------------
(* While the updates of an order do not overlap *)

\* No order is in the hands of two calls that will update it by id, and no
\* override of an order runs beside a claim of it.
UpdatesApart ==
    \A p, q \in Handlers :
        p # q => /\ Rewrites(job[p]) \cap Rewrites(job[q]) = {}
                 /\ job[p].op = "admin" /\ job[q].op \in {"take", "assign"}
                        => job[p].o # job[q].o

\* An order's money is as its status says, and settled for its assignee.
MoneyFits(o) ==
    /\ order[o].status # "COMPLETED" => income[o] = None
    /\ order[o].status # "FAILED" => refunds[o] = 0
    /\ refunds[o] <= 1
    /\ order[o].status = "COMPLETED" /\ income[o] # None => AssignedTo(o, income[o])

\* Every call still finds the orders as it has read them.
SerialInv ==
    /\ \A p \in Handlers : Fits(order, job[p])
    /\ \A o \in Requests : MoneyFits(o)

\* Fits looks at nothing but the orders the call is going to rewrite.
LEMMA FitsKept ==
    ASSUME NEW rows, NEW after, NEW j, Fits(rows, j),
           \A x \in Rewrites(j) : /\ after[x].status = rows[x].status
                                  /\ after[x].trader = rows[x].trader
                                  /\ after[x].specialist = rows[x].specialist
    PROVE  Fits(after, j)
<1>1. CASE j.op \in {"start", "complete", "fail", "return", "admin"}
  <2>1. j.o \in Rewrites(j)
    BY <1>1 DEF Rewrites
  <2> QED BY <1>1, <2>1 DEF Fits
<1>2. CASE j.op = "returnAll"
  BY <1>2 DEF Fits, Rewrites
<1> QED BY <1>1, <1>2 DEF Fits

\* Nobody else is about to rewrite the order that is updated.
LEMMA NobodyElse ==
    ASSUME IInv, SerialInv, UpdatesApart,
           NEW p \in Handlers, NEW o \in Requests, NEW j \in Job, NEW row,
           Updates(p, o, row, j), NEW q \in Handlers, q # p
    PROVE  o \notin Rewrites(job[q])
<1>1. Fits(order, job[q]) /\ job[q] \in Job
  BY DEF SerialInv, IInv, TypeOK
<1>2. RowFits(job[p], o, row)
  BY DEF Updates
<1>3. CASE job[p].op = "upload"
  <2>1. ~Uploaded(o)
    BY <1>2, <1>3 DEF RowFits
  <2> QED BY <1>1, <2>1, FittingIsUploaded
<1>4. CASE job[p].op \in {"take", "assign"}
  <2>1. order[o].status = "PENDING" /\ o = job[p].o
    BY <1>2, <1>4 DEF RowFits, Updates
  <2>2. job[q].op = "admin" => job[q].o # o
    BY <1>4, <2>1 DEF UpdatesApart
  <2> QED BY <1>1, <2>1, <2>2 DEF Fits, Rewrites
<1>5. CASE job[p].op \notin {"upload", "take", "assign"}
  BY <1>5, UpdateFacts DEF UpdatesApart
<1> QED BY <1>3, <1>4, <1>5

\* Where an update starts from and leads to.
LEMMA UpdateFollows ==
    ASSUME IInv, SerialInv,
           NEW p \in Handlers, NEW o \in Requests, NEW j \in Job, NEW row,
           Updates(p, o, row, j)
    PROVE  /\ job[p].op = "upload" => order[o].status = "NONE" /\ row.status = "PENDING"
           /\ job[p].op # "upload" => /\ ValidPayOutTransition(order[o].status, row.status)
                                      /\ order[o].status \in {"PENDING", "NEW", "PROCESSING"}
           /\ job[p].op = "complete" => /\ order[o].status = "PROCESSING"
                                        /\ row.status = "COMPLETED"
                                        /\ job[p].who \in {row.trader, row.specialist} \ {None}
           /\ job[p].op = "fail" => order[o].status = "PROCESSING" /\ row.status = "FAILED"
           /\ job[p].op \notin {"complete", "admin"} => row.status # "COMPLETED"
<1>1. RowFits(job[p], o, row) /\ Fits(order, job[p])
  BY DEF Updates, SerialInv
<1>2. /\ job[p].op # "returnAll" => o = job[p].o
      /\ job[p].op = "returnAll" => o \in job[p].orders
  BY DEF Updates
<1>3. \A status : /\ [order[o] EXCEPT !.status = status].status = status
                  /\ [order[o] EXCEPT !.status = status].trader = order[o].trader
                  /\ [order[o] EXCEPT !.status = status].specialist = order[o].specialist
  BY DEF IInv, TypeOK, OrderRow
<1>4. order[o].status \in PayOutOrderStatus
  BY DEF IInv, TypeOK, OrderRow
<1>5. /\ ValidPayOutTransition("PENDING", "PROCESSING")
      /\ ValidPayOutTransition("NEW", "PROCESSING")
      /\ ValidPayOutTransition("NEW", "PENDING")
      /\ ValidPayOutTransition("PROCESSING", "PENDING")
      /\ ValidPayOutTransition("PROCESSING", "COMPLETED")
      /\ ValidPayOutTransition("PROCESSING", "FAILED")
  BY DEF ValidPayOutTransition, PayoutTransitions, PayOutOrderStatus
<1>6. \A status \in PayOutOrderStatus : \A to :
          ValidPayOutTransition(status, to) => status \in {"PENDING", "NEW", "PROCESSING"}
  BY DEF ValidPayOutTransition, PayoutTransitions
<1>7. CASE job[p].op = "upload"
  BY <1>1, <1>7 DEF RowFits, Uploaded
<1>8. CASE job[p].op \in {"take", "assign", "return", "returnAll"}
  BY <1>1, <1>2, <1>5, <1>8 DEF RowFits, Fits
<1>9. CASE job[p].op \in {"start", "complete", "fail"}
  <2>1. /\ job[p].op = "start" => row.status = "PROCESSING"
        /\ job[p].op = "complete" => row.status = "COMPLETED"
        /\ job[p].op = "fail" => row.status = "FAILED"
        /\ row.trader = order[o].trader /\ row.specialist = order[o].specialist
    <3>1. PICK status : /\ row = [order[o] EXCEPT !.status = status]
                        /\ job[p].op = "start" => status = "PROCESSING"
                        /\ job[p].op = "complete" => status = "COMPLETED"
                        /\ job[p].op = "fail" => status = "FAILED"
      BY <1>1, <1>9 DEF RowFits
    <3>2. row.status = status /\ row.trader = order[o].trader
                             /\ row.specialist = order[o].specialist
      BY <1>3, <3>1
    <3> QED BY <3>1, <3>2
  <2>2. /\ job[p].op = "start" => order[o].status = "NEW"
        /\ job[p].op \in {"complete", "fail"} => order[o].status = "PROCESSING"
        /\ job[p].who \in {order[o].trader, order[o].specialist} \ {None}
    BY <1>1, <1>2, <1>9 DEF Fits
  <2> QED BY <1>5, <1>9, <2>1, <2>2
<1>10. CASE job[p].op = "admin"
  <2>1. /\ row.status = job[p].target
        /\ ValidPayOutTransition(order[o].status, job[p].target)
    BY <1>1, <1>2, <1>3, <1>10 DEF RowFits, Fits
  <2>2. order[o].status \in {"PENDING", "NEW", "PROCESSING"}
    BY <1>4, <1>6, <2>1 DEF ValidPayOutTransition
  <2> QED BY <1>10, <2>1, <2>2
<1> QED BY <1>7, <1>8, <1>9, <1>10 DEF Updates

LEMMA SerialStep ==
    ASSUME IInv, SerialInv, UpdatesApart, [Next]_vars
    PROVE  SerialInv'
<1>0. Fits(order', Idle)
  BY DEF Fits, Idle
<1>1. ASSUME NEW p \in Handlers, NEW j, Reads(p, j) PROVE SerialInv'
  <2>1. order' = order /\ UNCHANGED <<income, refunds>> /\ Fits(order, j)
    BY <1>1 DEF Reads, money
  <2>2. job'[p] = j /\ \A q \in Handlers \ {p} : job'[q] = job[q]
    BY <1>1, ReadFacts
  <2>3. \A q \in Handlers : Fits(order', job'[q])
    BY <2>1, <2>2 DEF SerialInv
  <2>4. \A o \in Requests : MoneyFits(o)'
    BY <2>1 DEF SerialInv, MoneyFits, AssignedTo
  <2> QED BY <2>3, <2>4 DEF SerialInv
<1>2. ASSUME NEW p \in Handlers, Settles(p) PROVE SerialInv'
  <2>1. order' = order /\ UNCHANGED <<income, refunds>>
    BY <1>2 DEF Settles
  <2>2. job'[p] = Idle /\ \A q \in Handlers \ {p} : job'[q] = job[q]
    BY <1>2, SettleFacts
  <2>3. \A q \in Handlers : Fits(order', job'[q])
    BY <1>0, <2>1, <2>2 DEF SerialInv
  <2>4. \A o \in Requests : MoneyFits(o)'
    BY <2>1 DEF SerialInv, MoneyFits, AssignedTo
  <2> QED BY <2>3, <2>4 DEF SerialInv
<1>3. ASSUME NEW p \in Handlers, NEW o \in Requests, NEW j \in Job, NEW row,
             Updates(p, o, row, j)
      PROVE  SerialInv'
  <2>1. /\ order'[o] = row
        /\ \A x \in Requests \ {o} : order'[x] = order[x]
        /\ job'[p] = j
        /\ \A q \in Handlers \ {p} : job'[q] = job[q]
    BY <1>3, UpdateFacts
  <2>2. \A q \in Handlers : Rewrites(job[q]) \subseteq Requests
    BY JobKinds DEF Rewrites, AssigneeJob, AdminJob, ReturnAllJob, IInv, TypeOK
  <2>3. ASSUME NEW q \in Handlers, q # p PROVE Fits(order', job'[q])
    <3>1. o \notin Rewrites(job[q])
      BY <1>3, <2>3, NobodyElse
    <3>2. \A x \in Rewrites(job[q]) : order'[x] = order[x]
      BY <2>1, <2>2, <3>1
    <3>3. Fits(order, job[q])
      BY DEF SerialInv
    <3>4. Fits(order', job[q])
      BY <3>2, <3>3, FitsKept
    <3> QED BY <2>1, <2>3, <3>4
  <2>4. Fits(order', job'[p])
    <3>1. CASE j = Idle
      BY <1>0, <2>1, <3>1
    <3>2. CASE j # Idle
      <4>1. /\ job[p].op = "returnAll"
            /\ j = [op |-> "returnAll", orders |-> job[p].orders \ {o}]
        BY <1>3, <3>2 DEF Updates
      <4>2. /\ \A x \in job[p].orders : order[x].status \in {"NEW", "PROCESSING"}
            /\ job[p].orders \subseteq Requests
        BY <2>2, <4>1 DEF SerialInv, Fits, Rewrites
      <4>3. Fits(order', j)
        BY <2>1, <4>1, <4>2 DEF Fits
      <4> QED BY <2>1, <4>3
    <3> QED BY <3>1, <3>2
  <2>5. Books(job[p], o)
    BY <1>3 DEF Updates
  <2>6. MoneyFits(o)
    BY DEF SerialInv
  <2>7. /\ income' \in [Requests -> Assignees \cup {None}]
        /\ refunds' \in [Requests -> Nat]
        /\ \A x \in Requests \ {o} : income'[x] = income[x] /\ refunds'[x] = refunds[x]
        /\ job[p].op = "complete" => income'[o] = job[p].who /\ refunds'[o] = refunds[o]
        /\ job[p].op = "fail" => income'[o] = income[o] /\ refunds'[o] = refunds[o] + 1
        /\ job[p].op \notin {"complete", "fail"} => income'[o] = income[o]
                                                    /\ refunds'[o] = refunds[o]
    <3>1. /\ income \in [Requests -> Assignees \cup {None}]
          /\ refunds \in [Requests -> Nat]
      BY DEF IInv, TypeOK
    <3>2. IInv'
      BY NextInv
    <3>3. /\ income' \in [Requests -> Assignees \cup {None}]
          /\ refunds' \in [Requests -> Nat]
      BY <3>2 DEF IInv, TypeOK
    <3>4. CASE job[p].op = "complete"
      BY <2>5, <3>1, <3>3, <3>4 DEF Books
    <3>5. CASE job[p].op = "fail"
      BY <2>5, <3>1, <3>3, <3>5 DEF Books
    <3>6. CASE job[p].op \notin {"complete", "fail"}
      BY <2>5, <3>3, <3>6 DEF Books, money
    <3> QED BY <3>4, <3>5, <3>6
  <2>8. MoneyFits(o)'
    <3>1. refunds[o] \in Nat
      BY DEF IInv, TypeOK
    <3>2. /\ order[o].status \notin {"COMPLETED", "FAILED"}
          /\ income[o] = None /\ refunds[o] = 0
      BY <1>3, <2>6, UpdateFollows DEF MoneyFits
    <3>3. CASE job[p].op = "complete"
      BY <1>3, <2>1, <2>7, <3>2, <3>3, UpdateFollows DEF MoneyFits, AssignedTo
    <3>4. CASE job[p].op = "fail"
      BY <1>3, <2>1, <2>7, <3>2, <3>4, UpdateFollows DEF MoneyFits, AssignedTo
    <3>5. CASE job[p].op \notin {"complete", "fail"}
      BY <2>7, <3>2, <3>5 DEF MoneyFits
    <3> QED BY <3>3, <3>4, <3>5
  <2>9. \A x \in Requests \ {o} : MoneyFits(x)'
    BY <2>1, <2>7 DEF SerialInv, MoneyFits, AssignedTo
  <2> QED BY <2>3, <2>4, <2>8, <2>9 DEF SerialInv
<1>4. CASE Background
  <2>1. \A q \in Handlers : Fits(order', job'[q])
    <3> TAKE q \in Handlers
    <3>1. Rewrites(job[q]) \subseteq Requests
      BY JobKinds DEF Rewrites, AssigneeJob, AdminJob, ReturnAllJob, IInv, TypeOK
    <3>2. Fits(order, job[q])
      BY DEF SerialInv
    <3>3. Fits(order', job[q])
      BY <1>4, <3>1, <3>2, FitsKept DEF Background
    <3> QED BY <1>4, <3>3 DEF Background
  <2>2. \A o \in Requests : MoneyFits(o)'
    BY <1>4 DEF Background, money, SerialInv, MoneyFits, AssignedTo
  <2> QED BY <2>1, <2>2 DEF SerialInv
<1> QED BY <1>1, <1>2, <1>3, <1>4, StepKinds

\* The invariant of non-overlapping updates holds as long as they do not overlap.
THEOREM SerialInvariance == Spec /\ []UpdatesApart => []SerialInv
<1>1. Init => SerialInv
  <2> SUFFICES ASSUME Init PROVE SerialInv
    OBVIOUS
  <2>1. \A p \in Handlers : Fits(order, job[p])
    BY DEF Init, Fits, Idle
  <2>2. \A o \in Requests : order[o].status = "NONE" /\ income[o] = None /\ refunds[o] = 0
    BY DEF Init, NoOrder
  <2>3. \A o \in Requests : MoneyFits(o)
    BY <2>2 DEF MoneyFits
  <2> QED BY <2>1, <2>3 DEF SerialInv
<1>2. IInv /\ SerialInv /\ UpdatesApart /\ [Next]_vars => SerialInv'
  BY SerialStep
<1> QED BY <1>1, <1>2, Invariance, PTL DEF Spec

\* While updates do not overlap, every status change follows the graph.
THEOREM GraphFollowed == Spec /\ []UpdatesApart => StatusFollowsGraph
<1> DEFINE Follows ==
        \A o \in Requests :
            Uploaded(o) /\ order'[o].status # order[o].status
                => ValidPayOutTransition(order[o].status, order'[o].status)
<1>1. ASSUME IInv, SerialInv, [Next]_vars PROVE Follows
  <2>1. ASSUME UNCHANGED order PROVE Follows
    BY <2>1
  <2>2. ASSUME NEW p \in Handlers, NEW o \in Requests, NEW j \in Job, NEW row,
               Updates(p, o, row, j)
        PROVE  Follows
    <3>1. order'[o] = row /\ \A x \in Requests \ {o} : order'[x] = order[x]
      BY <1>1, <2>2, UpdateFacts
    <3>2. Uploaded(o) => ValidPayOutTransition(order[o].status, row.status)
      BY <1>1, <2>2, UpdateFollows DEF Uploaded
    <3> QED BY <3>1, <3>2
  <2>3. CASE Background
    BY <2>3 DEF Background
  <2> QED BY <1>1, <2>1, <2>2, <2>3, StepKinds DEF Reads, Settles
<1>2. IInv /\ SerialInv /\ [Next]_vars => [Follows]_vars
  BY <1>1
<1> QED BY <1>2, Invariance, SerialInvariance, PTL DEF Spec, StatusFollowsGraph

\* While updates do not overlap, a completed order credits whoever completed it.
THEOREM CreditFollowsWork == Spec /\ []UpdatesApart => []CreditGoesToAssignee
<1>1. SerialInv => CreditGoesToAssignee
  BY DEF SerialInv, MoneyFits, CreditGoesToAssignee
<1> QED BY <1>1, SerialInvariance, PTL

\* While updates do not overlap, a reserve is spent once.
THEOREM SpentOnce == Spec /\ []UpdatesApart => []SettledOneWay
<1>1. IInv /\ SerialInv => SettledOneWay
  BY DEF IInv, TypeOK, SerialInv, MoneyFits, SettledOneWay
<1> QED BY <1>1, Invariance, SerialInvariance, PTL

-----------------------------------------------------------------------------
(* Refinement of PayoutBook *)

\* A step that leaves statuses, credits and refunds alone leaves the book alone.
LEMMA BookKept ==
    ASSUME \A x \in Requests : order'[x].status = order[x].status, UNCHANGED <<income, refunds>>
    PROVE  UNCHANGED Book!bookVars
<1>1. Refunded' = Refunded /\ PaidOut' = PaidOut
  BY DEF Refunded, PaidOut
<1>2. Held' = Held
  BY <1>1 DEF Held, Uploaded
<1> QED BY <1>1, <1>2 DEF Book!bookVars

\* An update takes, pays out or returns the reserve of its order, or leaves it.
LEMMA UpdateIsBooked ==
    ASSUME IInv, SerialInv,
           NEW p \in Handlers, NEW o \in Requests, NEW j \in Job, NEW row,
           Updates(p, o, row, j)
    PROVE  [Book!BookNext]_(Book!bookVars)
<1>1. /\ order'[o] = row
      /\ \A x \in Requests \ {o} : order'[x] = order[x]
      /\ row.status # "NONE"
  BY UpdateFacts
<1>2. Books(job[p], o)
  BY DEF Updates
<1>3. /\ income \in [Requests -> Assignees \cup {None}]
      /\ refunds \in [Requests -> Nat]
      /\ Debit[o] \in Nat
  BY ConstantsAssumption DEF IInv, TypeOK
<1>4. income[o] = None /\ refunds[o] = 0
  <2>1. MoneyFits(o) /\ order[o].status \notin {"COMPLETED", "FAILED"}
    BY UpdateFollows DEF SerialInv
  <2> QED BY <2>1 DEF MoneyFits
<1>5. PaidOut[o] = 0 /\ Refunded[o] = 0 /\ Held[o] = IF Uploaded(o) THEN Debit[o] ELSE 0
  BY <1>3, <1>4 DEF PaidOut, Refunded, Held
<1>6. CASE job[p].op = "upload"
  <2>1. UNCHANGED <<income, refunds>> /\ ~Uploaded(o) /\ Uploaded(o)'
    BY <1>1, <1>2, <1>6, UpdateFollows DEF Books, Uploaded
  <2>2. Refunded' = Refunded /\ PaidOut' = PaidOut
    BY <2>1 DEF Refunded, PaidOut
  <2>3. Held' = [Held EXCEPT ![o] = Debit[o]]
    <3>1. \A x \in Requests \ {o} : (Uploaded(x)' <=> Uploaded(x))
      BY <1>1 DEF Uploaded
    <3>2. Debit[o] - Refunded[o] - PaidOut[o] = Debit[o]
      BY <1>3, <1>5
    <3>3. Held'[o] = Debit[o] /\ \A x \in Requests \ {o} : Held'[x] = Held[x]
      BY <2>1, <2>2, <3>1, <3>2 DEF Held
    <3> QED BY <3>3 DEF Held
  <2>4. Book!Hold(o)
    BY <1>5, <2>1, <2>2, <2>3 DEF Book!Hold
  <2> QED BY <2>4 DEF Book!BookNext
<1>7. ASSUME job[p].op # "upload" 
      PROVE  Uploaded(o) /\ Uploaded(o)' /\ \A x \in Requests \ {o} : (Uploaded(x)' <=> Uploaded(x))
  BY <1>1, <1>7, UpdateFollows DEF Uploaded
<1>8. CASE job[p].op = "complete"
  <2>1. /\ UNCHANGED refunds
        /\ income' = [income EXCEPT ![o] = job[p].who]
        /\ job[p].who # None
    BY <1>2, <1>8, UpdateFollows DEF Books
  <2>2. Refunded' = Refunded
    BY <2>1 DEF Refunded
  <2>3. PaidOut' = [PaidOut EXCEPT ![o] = Debit[o]]
    BY <1>3, <2>1 DEF PaidOut
  <2>4. Held' = [Held EXCEPT ![o] = 0]
    <3>1. PaidOut'[o] = Debit[o] /\ \A x \in Requests \ {o} : PaidOut'[x] = PaidOut[x]
      BY <2>3 DEF PaidOut
    <3>2. Uploaded(o)' /\ \A x \in Requests \ {o} : (Uploaded(x)' <=> Uploaded(x))
      BY <1>7, <1>8
    <3>3. Debit[o] - Refunded[o] - PaidOut'[o] = 0
      BY <1>3, <1>5, <3>1
    <3>4. Held'[o] = 0 /\ \A x \in Requests \ {o} : Held'[x] = Held[x]
      BY <2>2, <3>1, <3>2, <3>3 DEF Held
    <3> QED BY <3>4 DEF Held
  <2>5. Held[o] = Debit[o]
    BY <1>5, <1>7, <1>8
  <2>6. Book!PayOut(o)
    BY <2>2, <2>3, <2>4, <2>5 DEF Book!PayOut
  <2> QED BY <2>6 DEF Book!BookNext
<1>9. CASE job[p].op = "fail"
  <2>1. UNCHANGED income /\ refunds' = [refunds EXCEPT ![o] = @ + 1]
    BY <1>2, <1>9 DEF Books
  <2>2. PaidOut' = PaidOut
    BY <2>1 DEF PaidOut
  <2>3. Refunded'[o] = Debit[o] /\ \A x \in Requests \ {o} : Refunded'[x] = Refunded[x]
    BY <1>3, <1>4, <2>1 DEF Refunded
  <2>4. Refunded' = [Refunded EXCEPT ![o] = Debit[o]]
    BY <2>3 DEF Refunded
  <2>5. Held' = [Held EXCEPT ![o] = 0]
    <3>2. Uploaded(o)' /\ \A x \in Requests \ {o} : (Uploaded(x)' <=> Uploaded(x))
      BY <1>7, <1>9
    <3>3. Debit[o] - Refunded'[o] - PaidOut[o] = 0
      BY <1>3, <1>5, <2>3
    <3>4. Held'[o] = 0 /\ \A x \in Requests \ {o} : Held'[x] = Held[x]
      BY <2>2, <2>3, <3>2, <3>3 DEF Held
    <3> QED BY <3>4 DEF Held
  <2>6. Held[o] = Debit[o]
    BY <1>5, <1>7, <1>9
  <2>7. Book!GiveBack(o)
    BY <2>2, <2>4, <2>5, <2>6 DEF Book!GiveBack
  <2> QED BY <2>7 DEF Book!BookNext
<1>10. CASE job[p].op \notin {"upload", "complete", "fail"}
  <2>1. UNCHANGED <<income, refunds>>
    BY <1>2, <1>10 DEF Books, money
  <2>2. Refunded' = Refunded /\ PaidOut' = PaidOut
    BY <2>1 DEF Refunded, PaidOut
  <2>3. \A x \in Requests : (Uploaded(x)' <=> Uploaded(x))
    BY <1>7, <1>10
  <2>4. Held' = Held
    BY <2>2, <2>3 DEF Held
  <2> QED BY <2>2, <2>4 DEF Book!bookVars
<1> QED BY <1>6, <1>8, <1>9, <1>10

\* While updates do not overlap, PayoutOrders implements PayoutBook: the reserve
\* of an order is taken once, and then paid out or returned once, whole.
THEOREM ImplementsPayoutBook == Spec /\ []UpdatesApart => Settlement
<1>1. Init => Book!BookInit
  <2> SUFFICES ASSUME Init PROVE Book!BookInit
    OBVIOUS
  <2>1. \A o \in Requests : ~Uploaded(o) /\ income[o] = None /\ refunds[o] = 0
    BY DEF Init, Uploaded, NoOrder
  <2>2. \A o \in Requests : Debit[o] * 0 = 0
    BY ConstantsAssumption
  <2> QED BY <2>1, <2>2 DEF Book!BookInit, Held, PaidOut, Refunded
<1>2. ASSUME IInv, SerialInv, [Next]_vars PROVE [Book!BookNext]_(Book!bookVars)
  <2>1. CASE \E p \in Handlers : \E j : Reads(p, j)
    BY <2>1, BookKept DEF Reads, money
  <2>2. CASE \E p \in Handlers : Settles(p)
    BY <2>2, BookKept DEF Settles
  <2>3. CASE Background
    BY <2>3, BookKept DEF Background, money
  <2>4. CASE \E p \in Handlers, o \in Requests, j \in Job : \E row : Updates(p, o, row, j)
    BY <1>2, <2>4, UpdateIsBooked
  <2> QED BY <1>2, <2>1, <2>2, <2>3, <2>4, StepKinds
<1>3. IInv /\ SerialInv /\ [Next]_vars => [Book!BookNext]_(Book!bookVars)
  BY <1>2
<1> QED BY <1>1, <1>3, Invariance, SerialInvariance, PTL DEF Spec, Settlement, Book!BookSpec

\* With one handler no two calls spend and no two update at once, so that all of
\* the above holds outright: everything those theorems exclude is a race.
THEOREM OneCallAtATime ==
    ASSUME \A p, q \in Handlers : p = q
    PROVE  Spec => /\ []NeverOverdrawn /\ []CreditGoesToAssignee /\ []SettledOneWay
                   /\ StatusFollowsGraph /\ Settlement
<1>1. UpdatesApart /\ OneSpender
  BY DEF UpdatesApart, OneSpender
<1>2. Spec => []UpdatesApart /\ []OneSpender
  BY <1>1, PTL
<1> QED BY <1>2, OneSpenderNeverOverdraws, CreditFollowsWork, SpentOnce, GraphFollowed,
           ImplementsPayoutBook, PTL
=============================================================================
