------------------------- MODULE PayinOrdersProofs -------------------------
(***************************************************************************)
(* Theorems about PayinOrders for any number of requests, requisites and   *)
(* concurrent handlers: the types, the books, the requisite caps and the   *)
(* refinement of PaymentBook.  The inductive invariant adds to those what  *)
(* the commits rely on: rows are written once and keep their requisite and *)
(* amount, and a handler only works on rows that exist.                    *)
(*                                                                         *)
(* What a race breaks holds as long as certain calls do not overlap.  The  *)
(* second half states, for each such property, which ones: UpdatesApart,   *)
(* DecisionsApart, SeenIsCurrent and CandidatesEnabled.                    *)
(***************************************************************************)
EXTENDS PayinOrders, SetSums

-----------------------------------------------------------------------------
(* The inductive invariant *)

OnRequisite(o) == Uploaded(o) /\ order[o].req # None

\* A row that was never inserted is blank; a row that was has a positive
\* amount; what the provider settles without a trader is the order's amount.
RowInv ==
    \A o \in Requests :
        /\ ~Uploaded(o) => order[o] = NoOrder /\ income[o] = 0
        /\ Uploaded(o) => order[o].amount \in OrderAmounts
        /\ order[o].provider => Uploaded(o) /\ order[o].req = None
        /\ order[o].req = None => income[o] \in {0, order[o].amount}

AppealInv ==
    \A a \in Appeals :
        appeal[a].status # "NONE" =>
            /\ appeal[a].order \in Requests
            /\ Uploaded(appeal[a].order)
            /\ appeal[a].paid \in ReportedAmounts

\* What a handler in the middle of a call may rely on.
JobOK(j) ==
    /\ j.op \in {"status", "paid", "appeal", "closing"} => Uploaded(j.o)
    /\ j.op \in {"close", "closing"} => appeal[j.a].status # "NONE"
    /\ j.op = "provider" => order[j.o].provider /\ (j.settled => income[j.o] # 0)
    /\ j.op \in {"cancelAll", "release", "releasing"}
           => \A o \in j.orders : OnRequisite(o)
    /\ j.op = "releasing" =>
           /\ OnRequisite(j.o)
           /\ j.seen.ops <= LimitOps[order[j.o].req]
           /\ j.seen.amount <= LimitAmount[order[j.o].req]

JobInv == \A p \in Handlers : JobOK(job[p])

CapInv ==
    /\ \A r \in Requisites : /\ requisite[r].limitOps = LimitOps[r]
                             /\ requisite[r].limitAmount = LimitAmount[r]
                             /\ ~requisite[r].active => requisite[r].reason \in LimitReasons
    /\ UsageWithinLimits
    /\ ActiveIffHeadroom

IInv ==
    /\ TypeOK
    /\ RowInv
    /\ AppealInv
    /\ JobInv
    /\ CapInv
    /\ LedgersMatchIncome
    /\ PaidIsSettled

-----------------------------------------------------------------------------
(* Facts about the operators *)

\* The kind of job a handler is in the middle of is told by its op.
LEMMA JobKinds ==
    ASSUME NEW j \in Job
    PROVE  /\ j.op = "upload" => j \in UploadJob
           /\ j.op = "status" => j \in StatusJob
           /\ j.op = "paid" => j \in PaidJob
           /\ j.op = "appeal" => j \in AppealJob
           /\ j.op = "close" => j \in CloseJob
           /\ j.op = "closing" => j \in ClosingJob
           /\ j.op = "provider" => j \in ProviderJob
           /\ j.op = "deactivate" => j \in DeactivateJob
           /\ j.op = "cancelAll" => j \in CancelAllJob
           /\ j.op = "release" => j \in ReleaseJob
           /\ j.op = "releasing" => j \in ReleasingJob
  BY DEF Job, Idle, UploadJob, StatusJob, PaidJob, AppealJob, CloseJob, ClosingJob,
         ProviderJob, DeactivateJob, CancelAllJob, ReleaseJob, ReleasingJob

\* A transition starts from a row that exists and never leads back to none.
LEMMA TransitionsKeepRows ==
    ASSUME NEW from \in PayInOrderStatus, NEW to, ValidPayInTransition(from, to)
    PROVE  /\ from # "NONE"
           /\ to \in PayInOrderStatus \ {"NONE"}
  BY DEF ValidPayInTransition, PayinTransitions, PayInOrderStatus, PaidOutcomes

\* The outcome of a payment is one of the paid statuses.
LEMMA PaidOutcomeIsPaid ==
    ASSUME NEW x, NEW y
    PROVE  /\ PaidOutcome(x, y) \in PaidOutcomes
           /\ PaidOutcome(x, y) \in PayInOrderStatus
           /\ PaidOutcome(x, y) # "NONE"
  BY DEF PaidOutcome, PaidOutcomes, PayInOrderStatus

\* Amounts are natural numbers, and those paid are positive.
LEMMA AmountsAreNatural ==
    /\ OrderAmounts \subseteq Nat \ {0}
    /\ PaidAmounts \subseteq Nat \ {0}
    /\ \A row \in OrderRow : row.amount \in Nat /\ row.received \in Nat
<1>1. OrderAmounts \subseteq Nat \ {0} /\ PaidAmounts \subseteq Nat \ {0}
  BY ConstantsAssumption DEF PaidAmounts
<1>2. ASSUME NEW row \in OrderRow PROVE row.amount \in Nat /\ row.received \in Nat
  <2>1. row.amount \in OrderAmounts \cup {0} /\ row.received \in PaidAmounts \cup {0}
    BY DEF OrderRow
  <2>2. OrderAmounts \cup {0} \subseteq Nat /\ PaidAmounts \cup {0} \subseteq Nat
    BY <1>1
  <2>3. row.amount \in Nat
    BY <2>1, <2>2, Zenon
  <2>4. row.received \in Nat
    BY <2>1, <2>2, Zenon
  <2> QED BY <2>3, <2>4
<1> QED BY <1>1, <1>2

\* One requisite row respects its caps.
CapRowOK(r, row) ==
    /\ row \in RequisiteRow
    /\ row.limitOps = LimitOps[r] /\ row.limitAmount = LimitAmount[r]
    /\ row.ops <= LimitOps[r] /\ row.amount <= LimitAmount[r]
    /\ row.active <=> ~Full(row)
    /\ ~row.active => row.reason \in LimitReasons

\* A reservation that fits keeps the row within its caps and switches it off
\* exactly when one of them is reached.
LEMMA ReserveKeepsCaps ==
    ASSUME NEW row \in RequisiteRow, NEW x \in Nat, CanReserve(row, x),
           row.active <=> ~Full(row),
           ~row.active => row.reason \in LimitReasons
    PROVE  /\ Reserve(row, x) \in RequisiteRow
           /\ Reserve(row, x).ops <= row.limitOps
           /\ Reserve(row, x).amount <= row.limitAmount
           /\ Reserve(row, x).limitOps = row.limitOps
           /\ Reserve(row, x).limitAmount = row.limitAmount
           /\ Reserve(row, x).active <=> ~Full(Reserve(row, x))
           /\ ~Reserve(row, x).active => Reserve(row, x).reason \in LimitReasons
<1> DEFINE used == [row EXCEPT !.ops = @ + 1, !.amount = @ + x]
<1>1. /\ used \in RequisiteRow
      /\ used.ops = row.ops + 1 /\ used.amount = row.amount + x
      /\ used.limitOps = row.limitOps /\ used.limitAmount = row.limitAmount
      /\ used.active = row.active /\ used.reason = row.reason
  <2>1. row.ops + 1 \in Nat /\ row.amount + x \in Nat
    BY DEF RequisiteRow
  <2>2. used \in RequisiteRow
    BY <2>1 DEF RequisiteRow
  <2>3. used.ops = row.ops + 1 /\ used.amount = row.amount + x
    BY DEF RequisiteRow
  <2>4. used.limitOps = row.limitOps /\ used.limitAmount = row.limitAmount
    BY DEF RequisiteRow
  <2>5. used.active = row.active /\ used.reason = row.reason
    BY DEF RequisiteRow
  <2> QED BY <2>2, <2>3, <2>4, <2>5
<1>2. used.ops <= used.limitOps /\ used.amount <= used.limitAmount
  BY <1>1 DEF CanReserve
<1>3. CASE Full(used)
  <2>1. Reserve(row, x) = [used EXCEPT !.active = FALSE,
                                       !.reason = IF used.amount >= used.limitAmount
                                                  THEN "LIMIT_AMOUNT" ELSE "LIMIT_TX"]
    BY <1>3 DEF Reserve
  <2> HIDE DEF used
  <2>2. /\ Reserve(row, x) \in RequisiteRow
        /\ Reserve(row, x).ops = used.ops /\ Reserve(row, x).amount = used.amount
        /\ Reserve(row, x).limitOps = used.limitOps
        /\ Reserve(row, x).limitAmount = used.limitAmount
        /\ Reserve(row, x).active = FALSE
        /\ Reserve(row, x).reason \in LimitReasons
    BY <2>1, <1>1 DEF RequisiteRow, LimitReasons
  <2> QED BY <2>2, <1>1, <1>2, <1>3 DEF Full
<1>4. CASE ~Full(used)
  <2>1. Reserve(row, x) = used
    BY <1>4 DEF Reserve
  <2>2. row.active
    <3> SUFFICES ASSUME Full(row) PROVE FALSE
      OBVIOUS
    <3> QED BY <1>1, <1>4 DEF Full, RequisiteRow
  <2> HIDE DEF used
  <2> QED BY <2>1, <2>2, <1>1, <1>2, <1>4
<1> QED BY <1>3, <1>4

LEMMA ReservedRowOK ==
    ASSUME NEW r, NEW row, CapRowOK(r, row), NEW x \in Nat, CanReserve(row, x)
    PROVE  CapRowOK(r, Reserve(row, x))
<1>1. /\ row \in RequisiteRow
      /\ row.active <=> ~Full(row)
      /\ ~row.active => row.reason \in LimitReasons
      /\ row.limitOps = LimitOps[r] /\ row.limitAmount = LimitAmount[r]
  BY DEF CapRowOK
<1> QED BY <1>1, ReserveKeepsCaps DEF CapRowOK

\* Adjusting the confirmed volume leaves the caps and the switch alone.
LEMMA AdjustKeepsCaps ==
    ASSUME NEW row \in RequisiteRow, NEW d \in Int
    PROVE  /\ AdjustConfirmed(row, d) \in RequisiteRow
           /\ AdjustConfirmed(row, d).ops = row.ops
           /\ AdjustConfirmed(row, d).amount = row.amount
           /\ AdjustConfirmed(row, d).limitOps = row.limitOps
           /\ AdjustConfirmed(row, d).limitAmount = row.limitAmount
           /\ AdjustConfirmed(row, d).active = row.active
           /\ AdjustConfirmed(row, d).reason = row.reason
  BY DEF RequisiteRow, AdjustConfirmed, AtLeastZero

\* Whatever was read before, a release of a positive amount leaves headroom
\* under both caps, so a row a cap switched off is on again.
LEMMA ReleaseLeavesHeadroom ==
    ASSUME NEW row \in RequisiteRow, NEW seen \in [ops: Nat, amount: Nat],
           NEW x \in Nat \ {0},
           row.limitOps > 0, row.limitAmount > 0,
           seen.ops <= row.limitOps, seen.amount <= row.limitAmount,
           ~row.active => row.reason \in LimitReasons
    PROVE  /\ Release(row, seen, x) \in RequisiteRow
           /\ Release(row, seen, x).ops < row.limitOps
           /\ Release(row, seen, x).amount < row.limitAmount
           /\ Release(row, seen, x).limitOps = row.limitOps
           /\ Release(row, seen, x).limitAmount = row.limitAmount
           /\ Release(row, seen, x).active
<1> DEFINE freed == [row EXCEPT !.ops    = AtLeastZero(seen.ops - 1),
                               !.amount = AtLeastZero(seen.amount - x)]
<1>1. /\ AtLeastZero(seen.ops - 1) \in Nat
      /\ AtLeastZero(seen.ops - 1) < row.limitOps
      /\ AtLeastZero(seen.amount - x) \in Nat
      /\ AtLeastZero(seen.amount - x) < row.limitAmount
  BY DEF AtLeastZero, RequisiteRow
<1>2. /\ freed \in RequisiteRow
      /\ freed.ops < row.limitOps /\ freed.amount < row.limitAmount
  BY <1>1 DEF RequisiteRow
<1>3. freed.limitOps = row.limitOps /\ freed.limitAmount = row.limitAmount
  BY DEF RequisiteRow
<1>4. freed.active = row.active /\ freed.reason = row.reason
  BY DEF RequisiteRow
<1>5. Release(row, seen, x) = Reenabled(freed)
  BY DEF Release
<1> HIDE DEF freed
<1>6. ~Full(freed)
  BY <1>2, <1>3 DEF Full, RequisiteRow
<1>7. CASE row.active
  BY <1>2, <1>3, <1>4, <1>5, <1>7 DEF Reenabled
<1>8. CASE ~row.active
  <2>1. Release(row, seen, x) = [freed EXCEPT !.active = TRUE, !.reason = "NONE"]
    BY <1>4, <1>5, <1>6, <1>8 DEF Reenabled
  <2> QED BY <2>1, <1>2, <1>3 DEF RequisiteRow
<1> QED BY <1>7, <1>8

-----------------------------------------------------------------------------
(* What every step respects *)

\* Rows are never deleted and keep what other rows and handlers refer to.
Frame ==
    /\ \A o \in Requests : Uploaded(o) =>
          /\ Uploaded(o)'
          /\ order'[o].req = order[o].req
          /\ order'[o].provider = order[o].provider
    /\ \A o \in Requests : income[o] # 0 => income'[o] # 0
    /\ \A a \in Appeals : appeal[a].status # "NONE" => appeal'[a].status # "NONE"

\* What a handler relies on stays true under the steps of the others.
LEMMA FrameKeepsJobs ==
    ASSUME NEW j \in Job, JobOK(j), Frame,
           j.op = "provider" => Uploaded(j.o)
    PROVE  JobOK(j)'
<1>1. j.op \in {"status", "paid", "appeal", "closing"} => Uploaded(j.o)'
  BY JobKinds DEF JobOK, Frame, StatusJob, PaidJob, AppealJob, ClosingJob
<1>2. j.op \in {"close", "closing"} => appeal'[j.a].status # "NONE"
  BY JobKinds DEF JobOK, Frame, CloseJob, ClosingJob
<1>3. j.op = "provider" => order'[j.o].provider /\ (j.settled => income'[j.o] # 0)
  BY JobKinds DEF JobOK, Frame, ProviderJob
<1>4. \A o \in Requests : OnRequisite(o) => OnRequisite(o)' /\ order'[o].req = order[o].req
  BY DEF OnRequisite, Frame
<1>5. j.op \in {"cancelAll", "release", "releasing"} => \A o \in j.orders : OnRequisite(o)'
  BY <1>4, JobKinds DEF JobOK, CancelAllJob, ReleaseJob, ReleasingJob
<1>6. j.op = "releasing" =>
        /\ OnRequisite(j.o)'
        /\ j.seen.ops <= LimitOps[order'[j.o].req]
        /\ j.seen.amount <= LimitAmount[order'[j.o].req]
  BY <1>4, JobKinds DEF JobOK, ReleasingJob
<1> QED BY <1>1, <1>2, <1>3, <1>5, <1>6 DEF JobOK, OnRequisite, Uploaded

\* The job part of the invariant survives a step that gives p a new job which
\* is in order on the new tables.
LEMMA JobStep ==
    ASSUME TypeOK, RowInv, JobInv, Frame,
           NEW p \in Handlers, NEW j \in Job, Continue(p, j), JobOK(j)'
    PROVE  JobInv' /\ job' \in [Handlers -> Job]
<1>1. job' = [job EXCEPT ![p] = j] /\ job \in [Handlers -> Job]
  BY DEF Continue, TypeOK
<1>2. ASSUME NEW q \in Handlers PROVE JobOK(job[q])'
  <2>1. CASE q = p
    BY <1>1, <2>1 DEF JobOK
  <2>2. CASE q # p
    <3>1. job'[q] = job[q] /\ job[q] \in Job
      BY <1>1, <2>2
    <3>2. JobOK(job[q])
      BY DEF JobInv
    <3>3. job[q].op = "provider" => Uploaded(job[q].o)
      BY <3>1, <3>2, JobKinds DEF JobOK, RowInv, ProviderJob
    <3> QED BY <3>1, <3>2, <3>3, FrameKeepsJobs DEF JobOK
  <2> QED BY <2>1, <2>2
<1> QED BY <1>1, <1>2 DEF JobInv

\* A step that only touches jobs.
LEMMA BeginStep ==
    ASSUME IInv, NEW p \in Handlers, NEW j \in Job, Continue(p, j), JobOK(j)',
           UNCHANGED tables
    PROVE  IInv'
<1>1. Frame
  BY DEF Frame, tables, Uploaded
<1>2. JobInv' /\ job' \in [Handlers -> Job]
  BY <1>1, JobStep DEF IInv
<1> QED BY <1>2 DEF IInv, TypeOK, RowInv, AppealInv, CapInv, UsageWithinLimits,
              ActiveIffHeadroom, Full, LedgersMatchIncome, PaidIsSettled, IsPaid,
              Uploaded, tables

-----------------------------------------------------------------------------
(* The steps that read *)

LEMMA BeginUploadStep ==
    ASSUME IInv, NEW p \in Handlers, BeginUpload(p)
    PROVE  IInv'
<1>1. PICK o \in Requests, x \in OrderAmounts : \E picks \in SUBSET Eligible(x) :
         Begin(p, "upload", [op |-> "upload", o |-> o, amount |-> x, picks |-> picks])
  BY DEF BeginUpload
<1>2. PICK picks \in SUBSET Eligible(x) :
         Begin(p, "upload", [op |-> "upload", o |-> o, amount |-> x, picks |-> picks])
  BY <1>1
<1>3. PICK j \in Job : j = [op |-> "upload", o |-> o, amount |-> x, picks |-> picks]
  BY DEF Job, UploadJob, Eligible
<1>4. JobOK(j)'
  BY <1>3 DEF JobOK
<1>5. Continue(p, j) /\ UNCHANGED tables
  BY <1>2, <1>3 DEF Begin, Continue
<1> QED BY <1>4, <1>5, BeginStep

LEMMA BeginStatusStep ==
    ASSUME IInv, NEW p \in Handlers, NEW operation, NEW o \in Requests,
           NEW target \in {"VERIFIED", "CANCELED"}, BeginStatus(p, operation, o, target)
    PROVE  IInv'
<1>1. order[o] \in OrderRow /\ Uploaded(o)
  BY TransitionsKeepRows DEF IInv, TypeOK, OrderRow, BeginStatus, Uploaded
<1>2. PICK j \in Job :
         j = [op |-> "status", o |-> o, snap |-> order[o], target |-> target]
  BY <1>1 DEF Job, StatusJob
<1>3. Continue(p, j) /\ UNCHANGED tables
  BY <1>2 DEF BeginStatus, Begin, Continue
<1>4. JobOK(j)'
  BY <1>1, <1>2, <1>3 DEF JobOK, Uploaded, tables
<1> QED BY <1>3, <1>4, BeginStep

LEMMA BeginPaidStep ==
    ASSUME IInv, NEW p \in Handlers, NEW operation, NEW o \in Requests, NEW target,
           NEW paid \in PaidAmounts, BeginPaid(p, operation, o, target, paid)
    PROVE  IInv'
<1>1. order[o] \in OrderRow /\ Uploaded(o) /\ target \in PayInOrderStatus \ {"NONE"}
  BY TransitionsKeepRows DEF IInv, TypeOK, OrderRow, BeginPaid, Uploaded
<1>2. PICK j \in Job : j = [op |-> "paid", o |-> o, snap |-> order[o],
                            target |-> target, paid |-> paid]
  BY <1>1 DEF Job, PaidJob
<1>3. Continue(p, j) /\ UNCHANGED tables
  BY <1>2 DEF BeginPaid, Begin, Continue
<1>4. JobOK(j)'
  BY <1>1, <1>2, <1>3 DEF JobOK, Uploaded, tables
<1> QED BY <1>3, <1>4, BeginStep

LEMMA BeginAppealStep ==
    ASSUME IInv, NEW p \in Handlers, BeginAppeal(p)
    PROVE  IInv'
<1>1. PICK o \in Requests, paid \in ReportedAmounts :
         /\ ValidPayInTransition(order[o].status, "APPEAL")
         /\ Begin(p, "appeal",
                  [op |-> "appeal", o |-> o, snap |-> order[o], paid |-> paid])
  BY DEF BeginAppeal
<1>2. order[o] \in OrderRow /\ Uploaded(o)
  BY <1>1, TransitionsKeepRows DEF IInv, TypeOK, OrderRow, Uploaded
<1>3. PICK j \in Job : j = [op |-> "appeal", o |-> o, snap |-> order[o], paid |-> paid]
  BY <1>2 DEF Job, AppealJob
<1>4. Continue(p, j) /\ UNCHANGED tables
  BY <1>1, <1>3 DEF Begin, Continue
<1>5. JobOK(j)'
  BY <1>2, <1>3, <1>4 DEF JobOK, Uploaded, tables
<1> QED BY <1>4, <1>5, BeginStep

LEMMA BeginCloseAppealStep ==
    ASSUME IInv, NEW p \in Handlers, BeginCloseAppeal(p)
    PROVE  IInv'
<1>1. PICK a \in Appeals, decision \in {"RESOLVED", "REJECTED"}, paid \in ReportedAmounts,
           actual \in BOOLEAN :
         /\ IsOpen(a)
         /\ Begin(p, "close", [op |-> "close", a |-> a, decision |-> decision,
                               paid |-> paid, actual |-> actual])
  BY DEF BeginCloseAppeal
<1>2. PICK j \in Job : j = [op |-> "close", a |-> a, decision |-> decision,
                            paid |-> paid, actual |-> actual]
  BY DEF Job, CloseJob
<1>3. Continue(p, j) /\ UNCHANGED tables
  BY <1>1, <1>2 DEF Begin, Continue
<1>4. JobOK(j)'
  BY <1>1, <1>2, <1>3 DEF JobOK, IsOpen, tables
<1> QED BY <1>3, <1>4, BeginStep

LEMMA LockAppealStep ==
    ASSUME IInv, NEW p \in Handlers, LockAppeal(p)
    PROVE  IInv'
<1> DEFINE a == job[p].a
           o == appeal[a].order
<1>1. job[p] \in CloseJob /\ JobOK(job[p])
  BY JobKinds DEF LockAppeal, IInv, TypeOK, JobInv
<1>2. a \in Appeals /\ appeal[a].status # "NONE"
  BY <1>1 DEF CloseJob, JobOK
<1>3. o \in Requests /\ Uploaded(o) /\ order[o] \in OrderRow
  BY <1>2 DEF IInv, AppealInv, TypeOK
<1>4. PICK j \in Job :
         j = [op |-> "closing", a |-> a, o |-> o, snap |-> order[o],
              decision |-> job[p].decision, paid |-> job[p].paid,
              actual |-> job[p].actual]
  BY <1>1, <1>2, <1>3 DEF Job, ClosingJob, CloseJob
<1>5. Continue(p, j) /\ UNCHANGED tables
  BY <1>4 DEF LockAppeal
<1>6. JobOK(j)'
  BY <1>2, <1>3, <1>4, <1>5 DEF JobOK, Uploaded, tables
<1> QED BY <1>5, <1>6, BeginStep

LEMMA BeginProviderCallbackStep ==
    ASSUME IInv, NEW p \in Handlers, BeginProviderCallback(p)
    PROVE  IInv'
<1>1. PICK o \in Requests, target \in {"PAID", "CANCELED"} :
         /\ order[o].provider
         /\ Begin(p, "provider", [op |-> "provider", o |-> o, target |-> target,
                                  settled |-> income[o] # 0])
  BY DEF BeginProviderCallback
<1>2. PICK j \in Job : j = [op |-> "provider", o |-> o, target |-> target,
                            settled |-> income[o] # 0]
  BY DEF Job, ProviderJob
<1>3. Continue(p, j) /\ UNCHANGED tables
  BY <1>1, <1>2 DEF Begin, Continue
<1>4. JobOK(j)'
  BY <1>1, <1>2, <1>3 DEF JobOK, tables
<1> QED BY <1>3, <1>4, BeginStep

LEMMA ReadOpenOrdersStep ==
    ASSUME IInv, NEW p \in Handlers, ReadOpenOrders(p)
    PROVE  IInv'
<1> DEFINE orders == OpenOrdersOf(job[p].t)
<1>1. CASE orders = {}
  <2>1. PICK j \in Job : j = Idle
    BY DEF Job
  <2>2. Continue(p, j) /\ UNCHANGED tables
    BY <1>1, <2>1 DEF ReadOpenOrders, Finish
  <2>3. JobOK(j)'
    BY <2>1 DEF JobOK, Idle
  <2> QED BY <2>2, <2>3, BeginStep
<1>2. CASE orders # {}
  <2>1. PICK j \in Job : j = [op |-> "cancelAll", orders |-> orders]
    BY DEF Job, CancelAllJob, OpenOrdersOf
  <2>2. Continue(p, j) /\ UNCHANGED tables
    BY <1>2, <2>1 DEF ReadOpenOrders
  <2>3. \A o \in orders : OnRequisite(o)
    BY DEF OpenOrdersOf, OnRequisite, Uploaded, PreSettlement
  <2>4. JobOK(j)'
    BY <2>1, <2>2, <2>3 DEF JobOK, OnRequisite, Uploaded, tables
  <2> QED BY <2>2, <2>4, BeginStep
<1> QED BY <1>1, <1>2

LEMMA ReadUsageStep ==
    ASSUME IInv, NEW p \in Handlers, ReadUsage(p)
    PROVE  IInv'
<1>1. job[p] \in ReleaseJob /\ JobOK(job[p])
  BY JobKinds DEF ReadUsage, IInv, TypeOK, JobInv
<1>2. PICK o \in job[p].orders :
         Continue(p, [op |-> "releasing", o |-> o, orders |-> job[p].orders \ {o},
                      seen |-> [ops |-> requisite[order[o].req].ops,
                                amount |-> requisite[order[o].req].amount]])
  BY DEF ReadUsage
<1> DEFINE r == order[o].req
<1>3. o \in Requests /\ OnRequisite(o) /\ \A oo \in job[p].orders : OnRequisite(oo)
  BY <1>1 DEF ReleaseJob, JobOK
<1>4. r \in Requisites
  BY <1>3 DEF OnRequisite, IInv, TypeOK, OrderRow
<1>5. requisite[r] \in RequisiteRow /\ requisite[r].ops <= LimitOps[r]
        /\ requisite[r].amount <= LimitAmount[r]
  BY <1>4 DEF IInv, TypeOK, CapInv, UsageWithinLimits
<1>6. PICK j \in Job :
         j = [op |-> "releasing", o |-> o, orders |-> job[p].orders \ {o},
              seen |-> [ops |-> requisite[r].ops, amount |-> requisite[r].amount]]
  BY <1>1, <1>3, <1>5 DEF Job, ReleasingJob, ReleaseJob, RequisiteRow
<1>7. Continue(p, j) /\ UNCHANGED tables
  BY <1>2, <1>6 DEF ReadUsage
<1>8. JobOK(j)'
  BY <1>3, <1>5, <1>6, <1>7 DEF JobOK, OnRequisite, Uploaded, tables
<1> QED BY <1>7, <1>8, BeginStep

LEMMA FailStep ==
    ASSUME IInv, NEW p \in Handlers, Fail(p)
    PROVE  IInv'
<1>1. PICK j \in Job : j = Idle
  BY DEF Job
<1>2. Continue(p, j) /\ UNCHANGED tables
  BY <1>1 DEF Fail, Finish
<1>3. JobOK(j)'
  BY <1>1 DEF JobOK, Idle
<1> QED BY <1>2, <1>3, BeginStep

-----------------------------------------------------------------------------
(* The steps that write *)

\* The books of one order on new tables: what the ledgers and the row must show.
BooksOK(o, row) ==
    /\ income' \in [Requests -> PaidAmounts \cup {0}]
    /\ merchant' \in [Requests -> Int]
    /\ trader' \in [Requests -> Int]
    /\ \A q \in Requests \ {o} : /\ income'[q] = income[q]
                                 /\ merchant'[q] = merchant[q]
                                 /\ trader'[q] = trader[q]
    /\ income[o] # 0 => income'[o] # 0
    /\ row.req = None => income'[o] \in {0, row.amount}
    /\ merchant'[o] = income'[o]
    /\ trader'[o] = IF row.req # None THEN income'[o] ELSE 0
    /\ row.status \in PaidOutcomes => row.received > 0 /\ income'[o] = row.received

\* A row that may replace the row of an order, or be its first.
RowFits(o, row) ==
    /\ row \in OrderRow
    /\ row.status # "NONE"
    /\ row.amount \in OrderAmounts
    /\ row.provider => row.req = None
    /\ Uploaded(o) => /\ row.req = order[o].req
                      /\ row.provider = order[o].provider

\* The step writes one order and books what the row shows: an order that is not
\* paid leaves the ledgers alone.
Writes(o, row) ==
    /\ RowFits(o, row)
    /\ WriteOrder(o, row)
    /\ BooksOK(o, row)
    /\ row.status \notin PaidOutcomes => UNCHANGED ledgers

WritesOne == \E o \in Requests, row \in OrderRow : Writes(o, row)

LEMMA WriteOrderStep ==
    ASSUME IInv, NEW o \in Requests, NEW row, RowFits(o, row), WriteOrder(o, row),
           BooksOK(o, row),
           \A a \in Appeals : appeal[a].status # "NONE" => appeal'[a].status # "NONE"
    PROVE  /\ order' \in [Requests -> OrderRow]
           /\ notified' \in [Requests -> PayInOrderStatus]
           /\ \A q \in Requests : order'[q] = IF q = o THEN row ELSE order[q]
           /\ RowInv' /\ LedgersMatchIncome' /\ PaidIsSettled'
           /\ Frame
<1>1. /\ order \in [Requests -> OrderRow]
      /\ notified \in [Requests -> PayInOrderStatus]
      /\ order' = [order EXCEPT ![o] = row]
      /\ notified' = [notified EXCEPT ![o] = row.status]
  BY DEF IInv, TypeOK, WriteOrder
<1>2. order' \in [Requests -> OrderRow] /\ notified' \in [Requests -> PayInOrderStatus]
  BY <1>1 DEF RowFits, OrderRow
<1>3. \A q \in Requests : order'[q] = IF q = o THEN row ELSE order[q]
  BY <1>1
<1>4. RowInv'
  BY <1>3 DEF IInv, RowInv, RowFits, BooksOK, Uploaded
<1>5. LedgersMatchIncome'
  BY <1>3 DEF IInv, LedgersMatchIncome, BooksOK
<1>6. PaidIsSettled'
  BY <1>3 DEF IInv, PaidIsSettled, IsPaid, BooksOK
<1>7. Frame
  BY <1>3 DEF Frame, RowFits, BooksOK, Uploaded
<1> QED BY <1>2, <1>3, <1>4, <1>5, <1>6, <1>7

\* A step that leaves the ledgers alone and does not show the order as paid.
LEMMA UnpaidBooks ==
    ASSUME IInv, NEW o \in Requests, NEW row, RowFits(o, row),
           ~Uploaded(o) \/ row.amount = order[o].amount,
           row.status \notin PaidOutcomes, UNCHANGED ledgers
    PROVE  BooksOK(o, row)
<1>1. /\ income' = income /\ merchant' = merchant /\ trader' = trader
      /\ income[o] = 0 \/ Uploaded(o)
      /\ merchant[o] = income[o]
      /\ trader[o] = IF order[o].req # None THEN income[o] ELSE 0
      /\ order[o].req = None => income[o] \in {0, order[o].amount}
  BY DEF ledgers, IInv, RowInv, LedgersMatchIncome
<1> QED BY <1>1 DEF BooksOK, RowFits, IInv, TypeOK

\* The row an update of status and received amount leaves behind.
LEMMA UpdatedRowFits ==
    ASSUME IInv, NEW o \in Requests, Uploaded(o),
           NEW s \in PayInOrderStatus \ {"NONE"}, NEW x \in PaidAmounts \cup {0}
    PROVE  /\ RowFits(o, [order[o] EXCEPT !.status = s])
           /\ RowFits(o, [order[o] EXCEPT !.status = s, !.received = x])
<1> DEFINE row1 == [order[o] EXCEPT !.status = s]
           row2 == [order[o] EXCEPT !.status = s, !.received = x]
<1>1. /\ order[o] \in OrderRow
      /\ order[o].amount \in OrderAmounts
      /\ order[o].provider => order[o].req = None
  BY DEF IInv, TypeOK, RowInv
<1>2. /\ row1 \in OrderRow
      /\ row1.status = s /\ row1.amount = order[o].amount
      /\ row1.req = order[o].req /\ row1.provider = order[o].provider
  BY <1>1 DEF OrderRow
<1>3. row2 \in OrderRow
  BY <1>1 DEF OrderRow
<1>4. /\ row2.status = s /\ row2.amount = order[o].amount
      /\ row2.req = order[o].req /\ row2.provider = order[o].provider
  BY <1>1 DEF OrderRow
<1> HIDE DEF row1, row2
<1>5. RowFits(o, row1) /\ RowFits(o, row2)
  BY <1>1, <1>2, <1>3, <1>4 DEF RowFits
<1> QED BY <1>5 DEF row1, row2

\* One requisite row is replaced by one that respects its caps.
LEMMA CapStep ==
    ASSUME IInv, NEW r, NEW row, r \in Requisites => CapRowOK(r, row),
           requisite' = [q \in Requisites |-> IF q = r THEN row ELSE requisite[q]]
    PROVE  CapInv' /\ requisite' \in [Requisites -> RequisiteRow]
<1>1. ASSUME NEW q \in Requisites PROVE CapRowOK(q, requisite'[q])
  BY DEF IInv, TypeOK, CapInv, UsageWithinLimits, ActiveIffHeadroom, CapRowOK
<1>2. requisite' \in [Requisites -> RequisiteRow]
  BY <1>1 DEF CapRowOK
<1> QED BY <1>1, <1>2 DEF CapRowOK, CapInv, UsageWithinLimits, ActiveIffHeadroom, Full

LEMMA CapsKept ==
    ASSUME IInv, UNCHANGED requisite
    PROVE  CapInv' /\ requisite' \in [Requisites -> RequisiteRow]
  BY DEF IInv, TypeOK, CapInv, UsageWithinLimits, ActiveIffHeadroom, Full

\* The parts of a step put together again.
LEMMA Assemble ==
    ASSUME IInv, NEW p \in Handlers, NEW j \in Job, Continue(p, j), JobOK(j)', Frame,
           order' \in [Requests -> OrderRow],
           notified' \in [Requests -> PayInOrderStatus],
           appeal' \in [Appeals -> AppealRow], AppealInv',
           requisite' \in [Requisites -> RequisiteRow], CapInv',
           enabled' \in [Traders -> BOOLEAN],
           income' \in [Requests -> PaidAmounts \cup {0}],
           merchant' \in [Requests -> Int], trader' \in [Requests -> Int],
           RowInv', LedgersMatchIncome', PaidIsSettled'
    PROVE  IInv'
<1>1. JobInv' /\ job' \in [Handlers -> Job]
  BY JobStep DEF IInv
<1> QED BY <1>1 DEF IInv, TypeOK

\* Appeals keep their invariant when their table is left alone.
LEMMA AppealsKept ==
    ASSUME IInv, Frame, UNCHANGED appeal
    PROVE  AppealInv' /\ appeal' \in [Appeals -> AppealRow]
  BY DEF IInv, TypeOK, AppealInv, Frame, Uploaded

LEMMA ReleaseAfterStep ==
    ASSUME IInv, NEW p \in Handlers, NEW o \in Requests, Uploaded(o), NEW canceled,
           ReleaseAfter(p, o, canceled), Frame
    PROVE  \E j \in Job : Continue(p, j) /\ JobOK(j)'
<1>1. CASE canceled /\ order[o].req # None
  <2>1. PICK j \in Job : j = [op |-> "release", orders |-> {o}]
    BY DEF Job, ReleaseJob
  <2>2. Continue(p, j)
    BY <1>1, <2>1 DEF ReleaseAfter
  <2>3. OnRequisite(o)'
    BY <1>1 DEF OnRequisite, Frame
  <2>4. JobOK(j)'
    BY <2>1, <2>3 DEF JobOK, OnRequisite, Uploaded
  <2> QED BY <2>2, <2>4
<1>2. CASE ~(canceled /\ order[o].req # None)
  <2>1. PICK j \in Job : j = Idle
    BY DEF Job
  <2>2. Continue(p, j) /\ JobOK(j)'
    BY <1>2, <2>1 DEF ReleaseAfter, Finish, JobOK, Idle
  <2> QED BY <2>2
<1> QED BY <1>1, <1>2

LEMMA FinishStep ==
    ASSUME NEW p \in Handlers, Finish(p)
    PROVE  \E j \in Job : Continue(p, j) /\ JobOK(j)'
<1>1. PICK j \in Job : j = Idle
  BY DEF Job
<1> QED BY <1>1 DEF Finish, JobOK, Idle

LEMMA CommitStatusStep ==
    ASSUME IInv, NEW p \in Handlers, CommitStatus(p)
    PROVE  IInv' /\ WritesOne
<1> DEFINE o == job[p].o
           row == [order[o] EXCEPT !.status = job[p].target]
<1>1. job[p] \in StatusJob /\ JobOK(job[p])
  BY JobKinds DEF CommitStatus, IInv, TypeOK, JobInv
<1>2. /\ o \in Requests /\ Uploaded(o)
      /\ job[p].target \in (PayInOrderStatus \ {"NONE"}) \ PaidOutcomes
  BY <1>1 DEF StatusJob, JobOK, PayInOrderStatus, PaidOutcomes
<1>3. RowFits(o, row)
  BY <1>2, UpdatedRowFits
<1>4. order[o] \in OrderRow
  BY <1>2 DEF IInv, TypeOK
<1>5. row.status \notin PaidOutcomes /\ row.amount = order[o].amount
  BY <1>2, <1>4 DEF OrderRow
<1>6. /\ WriteOrder(o, row) /\ ReleaseAfter(p, o, job[p].target = "CANCELED")
      /\ UNCHANGED ledgers
      /\ UNCHANGED <<appeal, requisite, enabled>>
  BY DEF CommitStatus
<1> HIDE DEF row
<1>7. BooksOK(o, row)
  BY <1>2, <1>3, <1>5, <1>6, UnpaidBooks
<1>8. /\ order' \in [Requests -> OrderRow] /\ notified' \in [Requests -> PayInOrderStatus]
      /\ RowInv' /\ LedgersMatchIncome' /\ PaidIsSettled' /\ Frame
  BY <1>2, <1>3, <1>6, <1>7, WriteOrderStep
<1>9. PICK j \in Job : Continue(p, j) /\ JobOK(j)'
  BY <1>2, <1>6, <1>8, ReleaseAfterStep
<1>10. AppealInv' /\ appeal' \in [Appeals -> AppealRow]
  BY <1>6, <1>8, AppealsKept
<1>11. CapInv' /\ requisite' \in [Requisites -> RequisiteRow]
  BY <1>6, CapsKept
<1>12. IInv'
  BY <1>6, <1>7, <1>8, <1>9, <1>10, <1>11, Assemble DEF IInv, TypeOK, BooksOK
<1>13. WritesOne
  BY <1>2, <1>3, <1>6, <1>7 DEF WritesOne, Writes, RowFits
<1> QED BY <1>12, <1>13

LEMMA AssignRequisiteStep ==
    ASSUME IInv, NEW p \in Handlers, AssignRequisite(p)
    PROVE  IInv' /\ WritesOne
<1> DEFINE o == job[p].o
           x == job[p].amount
<1>1. job[p] \in UploadJob
  BY JobKinds DEF AssignRequisite, IInv, TypeOK
<1>2. o \in Requests /\ x \in OrderAmounts /\ job[p].picks \subseteq Requisites
  BY <1>1 DEF UploadJob
<1>3. PICK r \in Requisites :
         /\ ~Uploaded(o)
         /\ PassesUnderLock(r, x)
         /\ WriteOrder(o, NewOrder("NEW", x, r, FALSE))
         /\ requisite' = [requisite EXCEPT ![r] = Reserve(@, x)]
  BY <1>2 DEF AssignRequisite
<1>4. PICK row : row = NewOrder("NEW", x, r, FALSE)
  OBVIOUS
<1>5. WriteOrder(o, row)
  BY <1>3, <1>4
<1>6. RowFits(o, row) /\ row.status \notin PaidOutcomes
  BY <1>2, <1>3, <1>4 DEF RowFits, OrderRow, NewOrder, PayInOrderStatus, PaidOutcomes
<1>7. UNCHANGED <<appeal, enabled, ledgers>> /\ Finish(p)
  BY DEF AssignRequisite
<1>8. BooksOK(o, row)
  BY <1>2, <1>3, <1>6, <1>7, UnpaidBooks
<1>9. /\ order' \in [Requests -> OrderRow] /\ notified' \in [Requests -> PayInOrderStatus]
      /\ RowInv' /\ LedgersMatchIncome' /\ PaidIsSettled' /\ Frame
  BY <1>2, <1>5, <1>6, <1>7, <1>8, WriteOrderStep
<1>10. PICK j \in Job : Continue(p, j) /\ JobOK(j)'
  BY <1>7, FinishStep
<1>11. AppealInv' /\ appeal' \in [Appeals -> AppealRow]
  BY <1>7, <1>9, AppealsKept
<1>12. /\ requisite[r] \in RequisiteRow /\ x \in Nat
       /\ requisite[r].active <=> ~Full(requisite[r])
       /\ ~requisite[r].active => requisite[r].reason \in LimitReasons
       /\ requisite[r].limitOps = LimitOps[r] /\ requisite[r].limitAmount = LimitAmount[r]
       /\ CanReserve(requisite[r], x)
  BY <1>2, <1>3, ConstantsAssumption
     DEF IInv, TypeOK, CapInv, ActiveIffHeadroom, PassesUnderLock
<1>13. CapRowOK(r, Reserve(requisite[r], x))
  BY <1>12, ReserveKeepsCaps DEF CapRowOK
<1>14. requisite' = [q \in Requisites |-> IF q = r THEN Reserve(requisite[r], x)
                                                   ELSE requisite[q]]
  BY <1>3 DEF IInv, TypeOK
<1>15. CapInv' /\ requisite' \in [Requisites -> RequisiteRow]
  BY <1>13, <1>14, CapStep
<1>16. IInv'
  BY <1>7, <1>8, <1>9, <1>10, <1>11, <1>15, Assemble DEF IInv, TypeOK, BooksOK
<1>17. WritesOne
  BY <1>2, <1>5, <1>6, <1>7, <1>8 DEF WritesOne, Writes, RowFits
<1> QED BY <1>16, <1>17

LEMMA UploadElsewhereStep ==
    ASSUME IInv, NEW p \in Handlers, UploadElsewhere(p)
    PROVE  IInv' /\ WritesOne
<1> DEFINE o == job[p].o
           x == job[p].amount
<1>1. job[p] \in UploadJob
  BY JobKinds DEF UploadElsewhere, IInv, TypeOK
<1>2. o \in Requests /\ x \in OrderAmounts /\ ~Uploaded(o)
  BY <1>1 DEF UploadJob, UploadElsewhere
<1>3. PICK provider \in BOOLEAN :
         WriteOrder(o, NewOrder(IF provider THEN "PENDING" ELSE "NO_REQUISITE",
                                x, None, provider))
  BY ConstantsAssumption DEF UploadElsewhere
<1>4. PICK row : row = NewOrder(IF provider THEN "PENDING" ELSE "NO_REQUISITE",
                                x, None, provider)
  OBVIOUS
<1>5. WriteOrder(o, row)
  BY <1>3, <1>4
<1>6. RowFits(o, row) /\ row.status \notin PaidOutcomes
  BY <1>2, <1>4 DEF RowFits, OrderRow, NewOrder, PayInOrderStatus, PaidOutcomes
<1>7. UNCHANGED <<appeal, requisite, enabled, ledgers>> /\ Finish(p)
  BY DEF UploadElsewhere
<1>8. BooksOK(o, row)
  BY <1>2, <1>6, <1>7, UnpaidBooks
<1>9. /\ order' \in [Requests -> OrderRow] /\ notified' \in [Requests -> PayInOrderStatus]
      /\ RowInv' /\ LedgersMatchIncome' /\ PaidIsSettled' /\ Frame
  BY <1>2, <1>5, <1>6, <1>7, <1>8, WriteOrderStep
<1>10. PICK j \in Job : Continue(p, j) /\ JobOK(j)'
  BY <1>7, FinishStep
<1>11. AppealInv' /\ appeal' \in [Appeals -> AppealRow]
  BY <1>7, <1>9, AppealsKept
<1>12. CapInv' /\ requisite' \in [Requisites -> RequisiteRow]
  BY <1>7, CapsKept
<1>13. IInv'
  BY <1>7, <1>8, <1>9, <1>10, <1>11, <1>12, Assemble DEF IInv, TypeOK, BooksOK
<1>14. WritesOne
  BY <1>2, <1>5, <1>6, <1>7, <1>8 DEF WritesOne, Writes, RowFits
<1> QED BY <1>13, <1>14

\* The kernel of every paid transition: the books of the order it writes.
LEMMA PaidBooks ==
    ASSUME IInv, NEW o \in Requests, Uploaded(o), NEW snap \in OrderRow,
           NEW target \in PayInOrderStatus \ {"NONE"}, NEW paid \in PaidAmounts,
           ApplyPaidTransition(o, snap, target, paid),
           NEW row, row = [order[o] EXCEPT
               !.status = target,
               !.received = IF target \in PaidOutcomes THEN paid ELSE 0]
    PROVE  Writes(o, row)
<1>1. order[o] \in OrderRow /\ paid \in Nat \ {0} /\ paid \in PaidAmounts
  BY ConstantsAssumption DEF IInv, TypeOK, PaidAmounts
<1>2. RowFits(o, row)
  BY UpdatedRowFits
<1>3. WriteOrder(o, row)
  BY DEF ApplyPaidTransition
<1>4. /\ row.status = target /\ row.amount = order[o].amount /\ row.req = order[o].req
      /\ row.received = IF target \in PaidOutcomes THEN paid ELSE 0
  BY <1>1 DEF OrderRow
<1>5. CASE target \notin PaidOutcomes
  <2>1. UNCHANGED ledgers
    BY <1>5 DEF ApplyPaidTransition
  <2> QED BY <1>2, <1>3, <1>4, <1>5, <2>1, UnpaidBooks DEF Writes
<1>6. CASE target \in PaidOutcomes
  <2>1. SettleBalances(o, snap.status, paid)
    BY <1>6 DEF ApplyPaidTransition
  <2>2. /\ income \in [Requests -> PaidAmounts \cup {0}]
        /\ merchant \in [Requests -> Int] /\ trader \in [Requests -> Int]
        /\ income[o] \in Nat
        /\ merchant[o] = income[o]
        /\ trader[o] = IF order[o].req # None THEN income[o] ELSE 0
        /\ order[o].req = None => income[o] \in {0, order[o].amount}
    BY ConstantsAssumption DEF IInv, TypeOK, LedgersMatchIncome, RowInv, PaidAmounts
  <2>3. CASE CreditOnPaid(o, paid)
    <3>1. /\ order[o].req # None /\ income[o] = 0
          /\ income' = [income EXCEPT ![o] = paid]
          /\ merchant' = [merchant EXCEPT ![o] = @ + paid]
          /\ trader' = [trader EXCEPT ![o] = @ + paid]
      BY <2>3 DEF CreditOnPaid
    <3> QED BY <1>1, <1>2, <1>3, <1>4, <1>6, <2>2, <3>1 DEF BooksOK, Writes
  <2>4. CASE AdjustOnAppeal(o, paid)
    <3>1. CASE paid - income[o] = 0
      <4>1. income' = income /\ merchant' = merchant /\ trader' = trader /\ income[o] = paid
        BY <2>2, <2>4, <3>1, <1>1 DEF AdjustOnAppeal, ledgers
      <4> QED BY <1>1, <1>2, <1>3, <1>4, <1>6, <2>2, <4>1 DEF BooksOK, Writes
    <3>2. CASE paid - income[o] # 0
      <4>1. /\ order[o].req # None
            /\ income' = [income EXCEPT ![o] = paid]
            /\ merchant' = [merchant EXCEPT ![o] = @ + (paid - income[o])]
            /\ trader' = [trader EXCEPT ![o] = @ + (paid - income[o])]
        BY <2>4, <3>2 DEF AdjustOnAppeal
      <4> QED BY <1>1, <1>2, <1>3, <1>4, <1>6, <2>2, <4>1 DEF BooksOK, Writes
    <3> QED BY <3>1, <3>2
  <2> QED BY <2>1, <2>3, <2>4 DEF SettleBalances
<1> QED BY <1>5, <1>6

\* ... and the requisite it counts on.
LEMMA PaidCaps ==
    ASSUME IInv, NEW o, NEW snap \in OrderRow, NEW target, NEW paid \in PaidAmounts,
           ApplyPaidTransition(o, snap, target, paid)
    PROVE  CapInv' /\ requisite' \in [Requisites -> RequisiteRow]
<1> DEFINE r == snap.req
           old == requisite[r]
           adjusted == AdjustConfirmed(old, ConfirmedDelta(snap, target, paid))
           new == RequisiteAfterPaid(old, snap, target, paid)
<1>1. requisite' = [q \in Requisites |-> IF q = r THEN new ELSE requisite[q]]
  BY DEF ApplyPaidTransition
<1>2. ASSUME r \in Requisites PROVE CapRowOK(r, new)
  <2>1. /\ old \in RequisiteRow /\ CapRowOK(r, old)
        /\ r # None /\ snap.amount \in Nat /\ snap.received \in Int /\ paid \in Int
    <3>1. old \in RequisiteRow /\ CapRowOK(r, old)
      BY <1>2 DEF IInv, TypeOK, CapInv, UsageWithinLimits, ActiveIffHeadroom, CapRowOK
    <3>2. r # None
      BY <1>2, ConstantsAssumption
    <3>3. snap.amount \in Nat /\ snap.received \in Int /\ paid \in Int
      BY AmountsAreNatural
    <3> QED BY <3>1, <3>2, <3>3
  <2>2. ConfirmedDelta(snap, target, paid) \in Int
    BY <2>1 DEF ConfirmedDelta
  <2>3. CapRowOK(r, adjusted) /\ adjusted.ops = old.ops /\ adjusted.amount = old.amount
        /\ adjusted.limitOps = old.limitOps /\ adjusted.limitAmount = old.limitAmount
    <3>1. /\ adjusted \in RequisiteRow
          /\ adjusted.ops = old.ops /\ adjusted.amount = old.amount
          /\ adjusted.limitOps = old.limitOps /\ adjusted.limitAmount = old.limitAmount
          /\ adjusted.active = old.active /\ adjusted.reason = old.reason
      BY <2>1, <2>2, AdjustKeepsCaps
    <3> HIDE DEF adjusted, old
    <3> QED BY <2>1, <3>1 DEF CapRowOK, Full
  <2>4. CASE Reclaims(snap, target)
    <3>1. CanReserve(old, snap.amount)
      BY <2>1, <2>4 DEF ApplyPaidTransition
    <3>2. CanReserve(adjusted, snap.amount) /\ new = Reserve(adjusted, snap.amount)
      BY <2>3, <2>4, <3>1 DEF CanReserve, RequisiteAfterPaid
    <3>3. PICK row : row = adjusted
      OBVIOUS
    <3>4. CapRowOK(r, row) /\ CanReserve(row, snap.amount) /\ new = Reserve(row, snap.amount)
      BY <2>3, <3>2, <3>3
    <3> HIDE DEF adjusted, old, new
    <3> QED BY <2>1, <3>4, ReservedRowOK
  <2>5. CASE ~Reclaims(snap, target)
    BY <2>3, <2>5 DEF RequisiteAfterPaid
  <2> QED BY <2>4, <2>5
<1> HIDE DEF new, r
<1> QED BY <1>1, <1>2, CapStep

LEMMA CommitPaidStep ==
    ASSUME IInv, NEW p \in Handlers, CommitPaid(p)
    PROVE  IInv' /\ WritesOne
<1> DEFINE o == job[p].o
           target == job[p].target
           paid == job[p].paid
<1>1. job[p] \in PaidJob /\ JobOK(job[p])
  BY JobKinds DEF CommitPaid, IInv, TypeOK, JobInv
<1>2. o \in Requests /\ Uploaded(o) /\ job[p].snap \in OrderRow /\ paid \in PaidAmounts
      /\ target \in PayInOrderStatus \ {"NONE"}
  BY <1>1 DEF PaidJob, JobOK
<1>3. /\ ApplyPaidTransition(o, job[p].snap, target, paid)
      /\ Finish(p) /\ UNCHANGED <<appeal, enabled>>
  BY DEF CommitPaid
<1>4. PICK row : row = [order[o] EXCEPT
          !.status = target, !.received = IF target \in PaidOutcomes THEN paid ELSE 0]
  OBVIOUS
<1>5. Writes(o, row)
  BY <1>2, <1>3, <1>4, PaidBooks
<1>6. /\ order' \in [Requests -> OrderRow] /\ notified' \in [Requests -> PayInOrderStatus]
      /\ RowInv' /\ LedgersMatchIncome' /\ PaidIsSettled' /\ Frame
  BY <1>2, <1>3, <1>5, WriteOrderStep DEF Writes
<1>7. PICK j \in Job : Continue(p, j) /\ JobOK(j)'
  BY <1>3, FinishStep
<1>8. AppealInv' /\ appeal' \in [Appeals -> AppealRow]
  BY <1>3, <1>6, AppealsKept
<1>9. CapInv' /\ requisite' \in [Requisites -> RequisiteRow]
  BY <1>2, <1>3, PaidCaps
<1>10. IInv'
  BY <1>3, <1>5, <1>6, <1>7, <1>8, <1>9, Assemble DEF IInv, TypeOK, BooksOK, Writes
<1>11. WritesOne
  BY <1>2, <1>5 DEF WritesOne, Writes, RowFits
<1> QED BY <1>10, <1>11

\* The decision of an appeal keeps the appeals in order.
LEMMA CloseAppealRowStep ==
    ASSUME IInv, NEW a \in Appeals, appeal[a].status # "NONE",
           NEW decision \in {"RESOLVED", "REJECTED"}, NEW actual \in BOOLEAN, NEW paid,
           actual => paid \in ReportedAmounts, CloseAppealRow(a, decision, actual, paid)
    PROVE  /\ appeal' \in [Appeals -> AppealRow]
           /\ \A b \in Appeals : appeal[b].status # "NONE" => appeal'[b].status # "NONE"
           /\ Frame => AppealInv'
<1>1. PICK row : row = [appeal[a] EXCEPT !.status = decision,
                                        !.paid = IF actual THEN paid ELSE @]
  OBVIOUS
<1>2. appeal[a] \in AppealRow /\ appeal[a].paid \in ReportedAmounts
  BY DEF IInv, TypeOK, AppealInv
<1>3. /\ row \in AppealRow /\ row.status = decision /\ row.order = appeal[a].order
      /\ row.paid \in ReportedAmounts
  BY <1>1, <1>2 DEF AppealRow
<1>4. appeal' = [appeal EXCEPT ![a] = row]
  BY <1>1 DEF CloseAppealRow, IInv, TypeOK
<1>5. /\ appeal' \in [Appeals -> AppealRow]
      /\ \A b \in Appeals : appeal'[b] = IF b = a THEN row ELSE appeal[b]
  BY <1>3, <1>4 DEF IInv, TypeOK
<1>6. \A b \in Appeals : appeal[b].status # "NONE" => appeal'[b].status # "NONE"
  BY <1>3, <1>5
<1>7. Frame => AppealInv'
  BY <1>3, <1>5 DEF Frame, IInv, AppealInv, Uploaded
<1> QED BY <1>5, <1>6, <1>7

LEMMA CommitResolveStep ==
    ASSUME IInv, NEW p \in Handlers, CommitResolve(p)
    PROVE  IInv' /\ WritesOne
<1> DEFINE o == job[p].o
           paid == job[p].paid
           target == PaidOutcome(paid, job[p].snap.amount)
<1>1. job[p] \in ClosingJob /\ JobOK(job[p])
  BY JobKinds DEF CommitResolve, IInv, TypeOK, JobInv
<1>2. /\ o \in Requests /\ Uploaded(o) /\ job[p].snap \in OrderRow
      /\ paid \in PaidAmounts /\ paid \in ReportedAmounts
      /\ job[p].a \in Appeals /\ appeal[job[p].a].status # "NONE"
      /\ job[p].actual \in BOOLEAN
  BY <1>1 DEF ClosingJob, JobOK, PaidAmounts
<1>3. target \in PayInOrderStatus \ {"NONE"}
  BY PaidOutcomeIsPaid
<1>4. /\ ApplyPaidTransition(o, job[p].snap, target, paid)
      /\ Finish(p) /\ UNCHANGED enabled
      /\ CloseAppealRow(job[p].a, "RESOLVED", job[p].actual, paid)
  BY DEF CommitResolve
<1> HIDE DEF target
<1>5. PICK row : row = [order[o] EXCEPT
          !.status = target, !.received = IF target \in PaidOutcomes THEN paid ELSE 0]
  OBVIOUS
<1>6. Writes(o, row)
  BY <1>2, <1>3, <1>4, <1>5, PaidBooks
<1>7. /\ appeal' \in [Appeals -> AppealRow] /\ (Frame => AppealInv')
      /\ \A b \in Appeals : appeal[b].status # "NONE" => appeal'[b].status # "NONE"
  BY <1>2, <1>4, CloseAppealRowStep
<1>8. /\ order' \in [Requests -> OrderRow] /\ notified' \in [Requests -> PayInOrderStatus]
      /\ RowInv' /\ LedgersMatchIncome' /\ PaidIsSettled' /\ Frame
  BY <1>2, <1>6, <1>7, WriteOrderStep DEF Writes
<1>9. PICK j \in Job : Continue(p, j) /\ JobOK(j)'
  BY <1>4, FinishStep
<1>10. CapInv' /\ requisite' \in [Requisites -> RequisiteRow]
  BY <1>2, <1>4, PaidCaps
<1>11. IInv'
  BY <1>4, <1>6, <1>7, <1>8, <1>9, <1>10, Assemble DEF IInv, TypeOK, BooksOK, Writes
<1>12. WritesOne
  BY <1>2, <1>6 DEF WritesOne, Writes, RowFits
<1> QED BY <1>11, <1>12

LEMMA CommitRejectStep ==
    ASSUME IInv, NEW p \in Handlers, CommitReject(p)
    PROVE  IInv' /\ WritesOne
<1> DEFINE o == job[p].o
<1>1. job[p] \in ClosingJob /\ JobOK(job[p])
  BY JobKinds DEF CommitReject, IInv, TypeOK, JobInv
<1>2. /\ o \in Requests /\ Uploaded(o)
      /\ job[p].a \in Appeals /\ appeal[job[p].a].status # "NONE"
  BY <1>1 DEF ClosingJob, JobOK
<1>3. /\ WriteOrder(o, [order[o] EXCEPT !.status = "CANCELED", !.received = 0])
      /\ ReleaseAfter(p, o, TRUE)
      /\ UNCHANGED <<requisite, enabled, ledgers>>
      /\ CloseAppealRow(job[p].a, "REJECTED", FALSE, 0)
  BY DEF CommitReject
<1>4. PICK row : row = [order[o] EXCEPT !.status = "CANCELED", !.received = 0]
  OBVIOUS
<1>5. WriteOrder(o, row)
  BY <1>3, <1>4
<1>6. RowFits(o, row)
  BY <1>2, <1>4, UpdatedRowFits DEF PayInOrderStatus
<1>7. order[o] \in OrderRow
  BY <1>2 DEF IInv, TypeOK
<1>8. row.status \notin PaidOutcomes /\ row.amount = order[o].amount
  BY <1>4, <1>7 DEF OrderRow, PaidOutcomes
<1>9. BooksOK(o, row)
  BY <1>2, <1>3, <1>6, <1>8, UnpaidBooks
<1>10. /\ appeal' \in [Appeals -> AppealRow] /\ (Frame => AppealInv')
       /\ \A b \in Appeals : appeal[b].status # "NONE" => appeal'[b].status # "NONE"
  BY <1>2, <1>3, CloseAppealRowStep
<1>11. /\ order' \in [Requests -> OrderRow] /\ notified' \in [Requests -> PayInOrderStatus]
       /\ RowInv' /\ LedgersMatchIncome' /\ PaidIsSettled' /\ Frame
  BY <1>2, <1>5, <1>6, <1>9, <1>10, WriteOrderStep
<1>12. PICK j \in Job : Continue(p, j) /\ JobOK(j)'
  BY <1>2, <1>3, <1>11, ReleaseAfterStep
<1>13. CapInv' /\ requisite' \in [Requisites -> RequisiteRow]
  BY <1>3, CapsKept
<1>14. IInv'
  BY <1>3, <1>9, <1>10, <1>11, <1>12, <1>13, Assemble DEF IInv, TypeOK, BooksOK
<1>15. WritesOne
  BY <1>2, <1>3, <1>5, <1>6, <1>9 DEF WritesOne, Writes, RowFits
<1> QED BY <1>14, <1>15

LEMMA CommitAppealStep ==
    ASSUME IInv, NEW p \in Handlers, CommitAppeal(p)
    PROVE  IInv' /\ WritesOne
<1> DEFINE o == job[p].o
           snap == job[p].snap
           r == snap.req
           new == IF snap.status \in PaidOutcomes
                  THEN AdjustConfirmed(requisite[r], - snap.received)
                  ELSE requisite[r]
<1>1. job[p] \in AppealJob /\ JobOK(job[p])
  BY JobKinds DEF CommitAppeal, IInv, TypeOK, JobInv
<1>2. /\ o \in Requests /\ Uploaded(o) /\ snap \in OrderRow
      /\ job[p].paid \in ReportedAmounts
  BY <1>1 DEF AppealJob, JobOK
<1>3. PICK a \in Appeals :
         /\ appeal[a].status = "NONE"
         /\ appeal' = [appeal EXCEPT ![a] =
                [order |-> o, status |-> "OPEN", paid |-> job[p].paid]]
  BY DEF CommitAppeal
<1>4. /\ requisite' = [q \in Requisites |->
             IF q = r /\ snap.status \in PaidOutcomes
             THEN AdjustConfirmed(requisite[q], - snap.received) ELSE requisite[q]]
      /\ WriteOrder(o, [order[o] EXCEPT !.status = "APPEAL", !.received = 0])
      /\ Finish(p) /\ UNCHANGED <<enabled, ledgers>>
  BY DEF CommitAppeal
<1>5. PICK row : row = [order[o] EXCEPT !.status = "APPEAL", !.received = 0]
  OBVIOUS
<1>6. WriteOrder(o, row)
  BY <1>4, <1>5
<1>7. RowFits(o, row)
  BY <1>2, <1>5, UpdatedRowFits DEF PayInOrderStatus
<1>8. order[o] \in OrderRow
  BY <1>2 DEF IInv, TypeOK
<1>9. row.status \notin PaidOutcomes /\ row.amount = order[o].amount
  BY <1>5, <1>8 DEF OrderRow, PaidOutcomes
<1>10. BooksOK(o, row)
  BY <1>2, <1>4, <1>7, <1>9, UnpaidBooks
<1>11. /\ appeal' \in [Appeals -> AppealRow]
       /\ \A b \in Appeals : appeal'[b] = IF b = a
                THEN [order |-> o, status |-> "OPEN", paid |-> job[p].paid] ELSE appeal[b]
  BY <1>2, <1>3 DEF IInv, TypeOK, AppealRow
<1>12. \A b \in Appeals : appeal[b].status # "NONE" => appeal'[b].status # "NONE"
  BY <1>11
<1>13. /\ order' \in [Requests -> OrderRow] /\ notified' \in [Requests -> PayInOrderStatus]
       /\ RowInv' /\ LedgersMatchIncome' /\ PaidIsSettled' /\ Frame
  BY <1>2, <1>6, <1>7, <1>10, <1>12, WriteOrderStep
<1>14. AppealInv'
  BY <1>2, <1>11, <1>13 DEF Frame, IInv, AppealInv, Uploaded
<1>15. PICK j \in Job : Continue(p, j) /\ JobOK(j)'
  BY <1>4, FinishStep
<1>16. requisite' = [q \in Requisites |-> IF q = r THEN new ELSE requisite[q]]
  BY <1>4
<1>17. ASSUME r \in Requisites PROVE CapRowOK(r, new)
  <2>1. /\ requisite[r] \in RequisiteRow /\ CapRowOK(r, requisite[r])
    BY <1>17 DEF IInv, TypeOK, CapInv, UsageWithinLimits, ActiveIffHeadroom, CapRowOK
  <2>2. - snap.received \in Int
    <3>1. snap.received \in Nat
      BY <1>2, AmountsAreNatural
    <3> QED BY <3>1
  <2> DEFINE adjusted == AdjustConfirmed(requisite[r], - snap.received)
  <2>3. /\ adjusted \in RequisiteRow
        /\ adjusted.ops = requisite[r].ops /\ adjusted.amount = requisite[r].amount
        /\ adjusted.limitOps = requisite[r].limitOps
        /\ adjusted.limitAmount = requisite[r].limitAmount
        /\ adjusted.active = requisite[r].active /\ adjusted.reason = requisite[r].reason
    BY <2>1, <2>2, AdjustKeepsCaps
  <2> HIDE DEF adjusted
  <2>4. CapRowOK(r, adjusted)
    BY <2>1, <2>3 DEF CapRowOK, Full
  <2> QED BY <2>1, <2>4 DEF adjusted
<1> HIDE DEF new, r
<1>18. CapInv' /\ requisite' \in [Requisites -> RequisiteRow]
  BY <1>16, <1>17, CapStep
<1>19. IInv'
  BY <1>4, <1>10, <1>11, <1>13, <1>14, <1>15, <1>18, Assemble
        DEF IInv, TypeOK, BooksOK
<1>20. WritesOne
  BY <1>2, <1>4, <1>6, <1>7, <1>10 DEF WritesOne, Writes, RowFits
<1> QED BY <1>19, <1>20

LEMMA CommitProviderStep ==
    ASSUME IInv, NEW p \in Handlers, CommitProvider(p)
    PROVE  IInv' /\ WritesOne
<1> DEFINE o == job[p].o
           paid == job[p].target = "PAID"
<1>1. job[p] \in ProviderJob /\ JobOK(job[p])
  BY JobKinds DEF CommitProvider, IInv, TypeOK, JobInv
<1>2. /\ o \in Requests /\ order[o].provider
      /\ job[p].settled => income[o] # 0
      /\ job[p].target \in {"PAID", "CANCELED"}
  BY <1>1, JobKinds DEF ProviderJob, JobOK, CommitProvider
<1>3. Uploaded(o) /\ order[o].req = None /\ order[o].amount \in OrderAmounts
  BY <1>2 DEF IInv, RowInv
<1>4. /\ order[o] \in OrderRow
      /\ order[o].amount \in PaidAmounts \cup {0}
      /\ order[o].received \in PaidAmounts \cup {0}
      /\ order[o].amount \in Nat \ {0} /\ order[o].amount \in PaidAmounts
  BY <1>2, <1>3, AmountsAreNatural DEF IInv, TypeOK, OrderRow, PaidAmounts
<1>5. /\ WriteOrder(o, [order[o] EXCEPT
             !.status = job[p].target,
             !.received = IF paid THEN order[o].amount ELSE @])
      /\ IF paid /\ ~job[p].settled
         THEN CreditMerchantOnly(o, order[o].amount) ELSE UNCHANGED ledgers
      /\ Finish(p) /\ UNCHANGED <<appeal, requisite, enabled>>
  BY DEF CommitProvider
<1>6. PICK received \in PaidAmounts \cup {0} :
         received = IF paid THEN order[o].amount ELSE order[o].received
  BY <1>4
<1>7. PICK row : row = [order[o] EXCEPT !.status = job[p].target, !.received = received]
  OBVIOUS
<1>8. WriteOrder(o, row)
  BY <1>4, <1>5, <1>6, <1>7
<1>9. RowFits(o, row)
  BY <1>2, <1>3, <1>7, UpdatedRowFits DEF PayInOrderStatus
<1>10. /\ row.status = job[p].target /\ row.amount = order[o].amount
       /\ row.req = None /\ row.received = received
  BY <1>3, <1>4, <1>7 DEF OrderRow
<1>11. /\ income \in [Requests -> PaidAmounts \cup {0}]
       /\ merchant \in [Requests -> Int] /\ trader \in [Requests -> Int]
       /\ merchant[o] = income[o] /\ trader[o] = 0
       /\ income[o] \in {0, order[o].amount}
  BY <1>2, <1>3 DEF IInv, TypeOK, LedgersMatchIncome, RowInv
<1>12. BooksOK(o, row)
  <2>1. CASE ~paid
    <3>1. UNCHANGED ledgers /\ row.status \notin PaidOutcomes
      BY <1>2, <1>5, <1>10, <2>1 DEF PaidOutcomes
    <3> QED BY <1>2, <1>9, <1>10, <3>1, UnpaidBooks
  <2>2. CASE paid /\ job[p].settled
    <3>1. income' = income /\ merchant' = merchant /\ trader' = trader
      BY <1>5, <2>2 DEF ledgers
    <3>2. income[o] = order[o].amount
      BY <1>2, <1>11, <2>2
    <3> QED BY <1>4, <1>6, <1>10, <1>11, <2>2, <3>1, <3>2 DEF BooksOK
  <2>3. CASE paid /\ ~job[p].settled
    <3>1. /\ income[o] = 0
          /\ income' = [income EXCEPT ![o] = order[o].amount]
          /\ merchant' = [merchant EXCEPT ![o] = @ + order[o].amount]
          /\ trader' = trader
      BY <1>5, <2>3 DEF CreditMerchantOnly
    <3> QED BY <1>2, <1>4, <1>6, <1>10, <1>11, <2>3, <3>1 DEF BooksOK
  <2> QED BY <2>1, <2>2, <2>3
<1>13. /\ order' \in [Requests -> OrderRow] /\ notified' \in [Requests -> PayInOrderStatus]
       /\ RowInv' /\ LedgersMatchIncome' /\ PaidIsSettled' /\ Frame
  BY <1>2, <1>5, <1>8, <1>9, <1>12, WriteOrderStep
<1>14. PICK j \in Job : Continue(p, j) /\ JobOK(j)'
  BY <1>5, FinishStep
<1>15. AppealInv' /\ appeal' \in [Appeals -> AppealRow]
  BY <1>5, <1>13, AppealsKept
<1>16. CapInv' /\ requisite' \in [Requisites -> RequisiteRow]
  BY <1>5, CapsKept
<1>17. IInv'
  BY <1>5, <1>12, <1>13, <1>14, <1>15, <1>16, Assemble DEF IInv, TypeOK, BooksOK
<1>18. WritesOne
  BY <1>2, <1>5, <1>8, <1>9, <1>10, <1>12 DEF WritesOne, Writes, RowFits, PaidOutcomes
<1> QED BY <1>17, <1>18

\* Switching a trader on or off leaves every row that the invariant relates.
LEMMA ActivateTraderStep ==
    ASSUME IInv, NEW t \in Traders, ActivateTrader(t)
    PROVE  IInv'
<1>1. /\ enabled' = [enabled EXCEPT ![t] = TRUE]
      /\ UNCHANGED <<order, appeal, requisite, ledgers, notified, job>>
  BY DEF ActivateTrader
<1>2. order' = order /\ appeal' = appeal /\ requisite' = requisite /\ income' = income
      /\ merchant' = merchant /\ trader' = trader /\ notified' = notified /\ job' = job
      /\ enabled' \in [Traders -> BOOLEAN]
  BY <1>1 DEF ledgers, IInv, TypeOK
<1>3. JobInv'
  BY <1>2 DEF IInv, JobInv, JobOK, OnRequisite, Uploaded
<1> QED BY <1>2, <1>3 DEF IInv, TypeOK, RowInv, AppealInv, CapInv, UsageWithinLimits,
              ActiveIffHeadroom, Full, LedgersMatchIncome, PaidIsSettled, IsPaid, Uploaded

LEMMA DeactivateTraderStep ==
    ASSUME IInv, NEW p \in Handlers, DeactivateTrader(p)
    PROVE  IInv'
<1>1. PICK t \in Traders :
         /\ enabled' = [enabled EXCEPT ![t] = FALSE]
         /\ Continue(p, [op |-> "deactivate", t |-> t])
  BY DEF DeactivateTrader
<1>2. /\ order' = order /\ appeal' = appeal /\ requisite' = requisite /\ income' = income
      /\ merchant' = merchant /\ trader' = trader /\ notified' = notified
      /\ enabled' \in [Traders -> BOOLEAN]
  BY <1>1 DEF DeactivateTrader, ledgers, IInv, TypeOK
<1>3. PICK j \in Job : j = [op |-> "deactivate", t |-> t]
  BY DEF Job, DeactivateJob
<1>4. Continue(p, j) /\ JobOK(j)'
  BY <1>1, <1>3 DEF JobOK
<1>5. Frame
  BY <1>2 DEF Frame, Uploaded
<1>6. JobInv' /\ job' \in [Handlers -> Job]
  BY <1>4, <1>5, JobStep DEF IInv
<1> QED BY <1>2, <1>6 DEF IInv, TypeOK, RowInv, AppealInv, CapInv, UsageWithinLimits,
              ActiveIffHeadroom, Full, LedgersMatchIncome, PaidIsSettled, IsPaid, Uploaded

\* Canceling several orders in one transaction moves no money.
LEMMA CommitCancelAllStep ==
    ASSUME IInv, NEW p \in Handlers, CommitCancelAll(p)
    PROVE  IInv'
<1> DEFINE S == job[p].orders
           canceled(o) == [order[o] EXCEPT !.status = "CANCELED"]
<1>1. job[p] \in CancelAllJob /\ JobOK(job[p]) /\ job[p].op = "cancelAll"
  BY JobKinds DEF CommitCancelAll, IInv, TypeOK, JobInv
<1>2. S \subseteq Requests /\ \A o \in S : OnRequisite(o)
  BY <1>1 DEF CancelAllJob, JobOK
<1>3. /\ order' = [o \in Requests |-> IF o \in S THEN canceled(o) ELSE order[o]]
      /\ notified' = [o \in Requests |-> IF o \in S THEN "CANCELED" ELSE notified[o]]
      /\ Continue(p, [op |-> "release", orders |-> S])
      /\ UNCHANGED <<appeal, requisite, enabled, ledgers>>
  BY DEF CommitCancelAll
<1>4. ASSUME NEW o \in Requests
      PROVE  /\ canceled(o) \in OrderRow /\ canceled(o).status = "CANCELED"
             /\ canceled(o).amount = order[o].amount /\ canceled(o).req = order[o].req
             /\ canceled(o).provider = order[o].provider
  <2>1. order[o] \in OrderRow
    BY DEF IInv, TypeOK
  <2>2. canceled(o) \in OrderRow
    BY <2>1 DEF OrderRow, PayInOrderStatus
  <2>3. canceled(o).status = "CANCELED"
    BY <2>1 DEF OrderRow
  <2>4. /\ canceled(o).amount = order[o].amount /\ canceled(o).req = order[o].req
        /\ canceled(o).provider = order[o].provider
    BY <2>1 DEF OrderRow
  <2> QED BY <2>2, <2>3, <2>4
<1> HIDE DEF canceled
<1>5. order' \in [Requests -> OrderRow] /\ notified' \in [Requests -> PayInOrderStatus]
  BY <1>3, <1>4 DEF IInv, TypeOK, PayInOrderStatus
<1>6. income' = income /\ merchant' = merchant /\ trader' = trader
      /\ appeal' = appeal /\ requisite' = requisite /\ enabled' = enabled
  BY <1>3 DEF ledgers
<1>7. ASSUME NEW o \in Requests
      PROVE  /\ order'[o].amount = order[o].amount /\ order'[o].req = order[o].req
             /\ order'[o].provider = order[o].provider
             /\ order'[o] = order[o] \/ (OnRequisite(o) /\ order'[o].status = "CANCELED")
  BY <1>2, <1>3, <1>4
<1>8. RowInv'
  BY <1>6, <1>7 DEF IInv, RowInv, OnRequisite, Uploaded
<1>9. LedgersMatchIncome'
  BY <1>6, <1>7 DEF IInv, LedgersMatchIncome
<1>10. PaidIsSettled'
  BY <1>6, <1>7 DEF IInv, PaidIsSettled, IsPaid, PaidOutcomes
<1>11. Frame
  BY <1>6, <1>7 DEF Frame, Uploaded
<1>12. PICK j \in Job : j = [op |-> "release", orders |-> S]
  BY <1>2 DEF Job, ReleaseJob
<1>13. \A o \in S : OnRequisite(o)'
  BY <1>2, <1>11 DEF Frame, OnRequisite
<1>14. Continue(p, j) /\ JobOK(j)'
  BY <1>3, <1>12, <1>13 DEF JobOK, OnRequisite, Uploaded
<1>15. AppealInv' /\ appeal' \in [Appeals -> AppealRow]
  BY <1>6, <1>11, AppealsKept
<1>16. CapInv' /\ requisite' \in [Requisites -> RequisiteRow]
  BY <1>6, CapsKept
<1> QED BY <1>5, <1>6, <1>8, <1>9, <1>10, <1>11, <1>14, <1>15, <1>16, Assemble
        DEF IInv, TypeOK

LEMMA WriteUsageStep ==
    ASSUME IInv, NEW p \in Handlers, WriteUsage(p)
    PROVE  IInv'
<1> DEFINE o == job[p].o
           r == order[o].req
           x == order[o].amount
           seen == job[p].seen
           S == job[p].orders
<1>1. job[p] \in ReleasingJob /\ JobOK(job[p]) /\ job[p].op = "releasing"
  BY JobKinds DEF WriteUsage, IInv, TypeOK, JobInv
<1>2. /\ o \in Requests /\ S \subseteq Requests /\ seen \in [ops: Nat, amount: Nat]
      /\ OnRequisite(o) /\ \A q \in S : OnRequisite(q)
      /\ seen.ops <= LimitOps[r] /\ seen.amount <= LimitAmount[r]
  BY <1>1 DEF ReleasingJob, JobOK
<1>3. r \in Requisites /\ x \in Nat \ {0}
  BY <1>2, AmountsAreNatural DEF OnRequisite, IInv, TypeOK, OrderRow, RowInv
<1>4. /\ requisite[r] \in RequisiteRow /\ CapRowOK(r, requisite[r])
      /\ LimitOps[r] > 0 /\ LimitAmount[r] > 0
  BY <1>3, ConstantsAssumption
     DEF IInv, TypeOK, CapInv, UsageWithinLimits, ActiveIffHeadroom, CapRowOK
<1>5. PICK row : row = requisite[r]
  OBVIOUS
<1>6. PICK new : new = Release(row, seen, x)
  OBVIOUS
<1>7. /\ row \in RequisiteRow
      /\ row.limitOps = LimitOps[r] /\ row.limitAmount = LimitAmount[r]
      /\ row.limitOps > 0 /\ row.limitAmount > 0
      /\ seen.ops <= row.limitOps /\ seen.amount <= row.limitAmount
      /\ ~row.active => row.reason \in LimitReasons
  BY <1>2, <1>4, <1>5 DEF CapRowOK
<1>8. requisite' = [q \in Requisites |-> IF q = r THEN new ELSE requisite[q]]
  BY <1>5, <1>6 DEF WriteUsage, IInv, TypeOK
<1>9. /\ UNCHANGED <<order, appeal, enabled, ledgers, notified>>
      /\ IF S = {} THEN Finish(p) ELSE Continue(p, [op |-> "release", orders |-> S])
  BY DEF WriteUsage
<1> HIDE DEF o, r, x, seen, S
<1>10. /\ new \in RequisiteRow
       /\ new.ops < row.limitOps /\ new.amount < row.limitAmount
       /\ new.limitOps = row.limitOps /\ new.limitAmount = row.limitAmount
       /\ new.active
  BY <1>2, <1>3, <1>6, <1>7, ReleaseLeavesHeadroom
<1>11. CapRowOK(r, new)
  <2>1. ~Full(new)
    BY <1>10 DEF Full, RequisiteRow
  <2>2. new.ops <= LimitOps[r] /\ new.amount <= LimitAmount[r]
    BY <1>7, <1>10 DEF RequisiteRow
  <2> QED BY <1>7, <1>10, <2>1, <2>2 DEF CapRowOK
<1>12. CapInv' /\ requisite' \in [Requisites -> RequisiteRow]
  BY <1>8, <1>11, CapStep
<1>13. /\ order' = order /\ appeal' = appeal /\ enabled' = enabled /\ income' = income
       /\ merchant' = merchant /\ trader' = trader /\ notified' = notified
  BY <1>9 DEF ledgers
<1>14. Frame
  BY <1>13 DEF Frame, Uploaded
<1>15. \E j \in Job : Continue(p, j) /\ JobOK(j)'
  <2>1. CASE S = {}
    BY <1>9, <2>1, FinishStep
  <2>2. CASE S # {}
    <3>1. PICK j \in Job : j = [op |-> "release", orders |-> S]
      BY <1>2 DEF Job, ReleaseJob
    <3>2. \A q \in S : OnRequisite(q)'
      BY <1>2, <1>13 DEF OnRequisite, Uploaded
    <3>3. Continue(p, j) /\ JobOK(j)'
      BY <1>9, <2>2, <3>1, <3>2 DEF JobOK, OnRequisite, Uploaded
    <3> QED BY <3>3
  <2> QED BY <2>1, <2>2
<1>16. PICK j \in Job : Continue(p, j) /\ JobOK(j)'
  BY <1>15
<1>17. RowInv' /\ LedgersMatchIncome' /\ PaidIsSettled'
  BY <1>13 DEF IInv, RowInv, LedgersMatchIncome, PaidIsSettled, IsPaid, Uploaded
<1>18. AppealInv' /\ appeal' \in [Appeals -> AppealRow]
  BY <1>13, <1>14, AppealsKept
<1> QED BY <1>12, <1>13, <1>14, <1>16, <1>17, <1>18, Assemble DEF IInv, TypeOK

-----------------------------------------------------------------------------
(* The theorems *)

LEMMA InitInv == Init => IInv
<1> SUFFICES ASSUME Init PROVE IInv
  OBVIOUS
<1>1. /\ NoOrder \in OrderRow /\ NoAppeal \in AppealRow /\ Idle \in Job
      /\ NoOrder.status = "NONE" /\ NoOrder.provider = FALSE /\ NoOrder.req = None
      /\ NoAppeal.status = "NONE" /\ Idle.op = "idle"
  BY DEF NoOrder, NewOrder, NoAppeal, Idle, OrderRow, AppealRow, Job, PayInOrderStatus
<1>2. ASSUME NEW r \in Requisites
      PROVE  /\ requisite[r] \in RequisiteRow /\ requisite[r].ops = 0
             /\ requisite[r].amount = 0 /\ requisite[r].limitOps = LimitOps[r]
             /\ requisite[r].limitAmount = LimitAmount[r] /\ requisite[r].active
             /\ LimitOps[r] \in Nat \ {0} /\ LimitAmount[r] \in Nat \ {0}
  BY ConstantsAssumption DEF Init, RequisiteRow
<1>3. requisite \in [Requisites -> RequisiteRow] /\ CapInv
  BY <1>2 DEF Init, CapInv, UsageWithinLimits, ActiveIffHeadroom, Full
<1>4. TypeOK
  BY <1>1, <1>3 DEF Init, TypeOK, PayInOrderStatus
<1>5. RowInv /\ AppealInv
  BY <1>1 DEF Init, RowInv, AppealInv, Uploaded
<1>6. JobInv
  BY <1>1 DEF Init, JobInv, JobOK
<1>7. LedgersMatchIncome /\ PaidIsSettled
  BY <1>1 DEF Init, LedgersMatchIncome, PaidIsSettled, IsPaid, PaidOutcomes
<1> QED BY <1>3, <1>4, <1>5, <1>6, <1>7 DEF IInv

LEMMA StutterInv ==
    ASSUME IInv, UNCHANGED vars
    PROVE  IInv'
<1>1. JobInv'
  BY DEF vars, IInv, JobInv, JobOK, OnRequisite, Uploaded
<1> QED BY <1>1 DEF vars, IInv, TypeOK, RowInv, AppealInv, CapInv, UsageWithinLimits,
              ActiveIffHeadroom, Full, LedgersMatchIncome, PaidIsSettled, IsPaid, Uploaded

LEMMA NextInv ==
    ASSUME IInv, [Next]_vars
    PROVE  IInv'
<1>1. ASSUME NEW p \in Handlers, Handler(p) PROVE IInv'
  <2>1. CASE BeginUpload(p)
    BY <2>1, BeginUploadStep
  <2>2. CASE AssignRequisite(p)
    BY <2>2, AssignRequisiteStep
  <2>3. CASE UploadElsewhere(p)
    BY <2>3, UploadElsewhereStep
  <2>4. CASE MerchantUpdate(p)
    BY <2>4, BeginStatusStep DEF MerchantUpdate
  <2>5. CASE ConfirmFromPaymentPage(p)
    BY <2>5, BeginStatusStep DEF ConfirmFromPaymentPage
  <2>6. CASE TraderCancelOrder(p)
    BY <2>6, BeginStatusStep DEF TraderCancelOrder
  <2>7. CASE CommitStatus(p)
    BY <2>7, CommitStatusStep
  <2>8. CASE TraderConfirmPaid(p)
    BY <2>8, BeginPaidStep DEF TraderConfirmPaid
  <2>9. CASE AdminUpdateStatus(p)
    <3>1. PICK o \in Requests, target \in PayInOrderStatus :
             Uploaded(o) /\ BeginPaid(p, "admin", o, target, order[o].amount)
      BY <2>9 DEF AdminUpdateStatus
    <3>2. order[o].amount \in PaidAmounts
      BY <3>1 DEF IInv, RowInv, PaidAmounts
    <3> QED BY <3>1, <3>2, BeginPaidStep
  <2>10. CASE CommitPaid(p)
    BY <2>10, CommitPaidStep
  <2>11. CASE BeginAppeal(p)
    BY <2>11, BeginAppealStep
  <2>12. CASE CommitAppeal(p)
    BY <2>12, CommitAppealStep
  <2>13. CASE BeginCloseAppeal(p)
    BY <2>13, BeginCloseAppealStep
  <2>14. CASE LockAppeal(p)
    BY <2>14, LockAppealStep
  <2>15. CASE CommitReject(p)
    BY <2>15, CommitRejectStep
  <2>16. CASE CommitResolve(p)
    BY <2>16, CommitResolveStep
  <2>17. CASE BeginProviderCallback(p)
    BY <2>17, BeginProviderCallbackStep
  <2>18. CASE CommitProvider(p)
    BY <2>18, CommitProviderStep
  <2>19. CASE DeactivateTrader(p)
    BY <2>19, DeactivateTraderStep
  <2>20. CASE ReadOpenOrders(p)
    BY <2>20, ReadOpenOrdersStep
  <2>21. CASE CommitCancelAll(p)
    BY <2>21, CommitCancelAllStep
  <2>22. CASE ReadUsage(p)
    BY <2>22, ReadUsageStep
  <2>23. CASE WriteUsage(p)
    BY <2>23, WriteUsageStep
  <2>24. CASE Fail(p)
    BY <2>24, FailStep
  <2> QED BY <1>1, <2>1, <2>2, <2>3, <2>4, <2>5, <2>6, <2>7, <2>8, <2>9, <2>10,
             <2>11, <2>12, <2>13, <2>14, <2>15, <2>16, <2>17, <2>18, <2>19, <2>20,
             <2>21, <2>22, <2>23, <2>24 DEF Handler
<1>2. ASSUME NEW t \in Traders, ActivateTrader(t) PROVE IInv'
  BY <1>2, ActivateTraderStep
<1>3. CASE UNCHANGED vars
  BY <1>3, StutterInv
<1> QED BY <1>1, <1>2, <1>3 DEF Next

\* The inductive invariant holds in every reachable state.
THEOREM Invariance == Spec => []IInv
<1>1. Init => IInv
  BY InitInv
<1>2. IInv /\ [Next]_vars => IInv'
  BY NextInv
<1> QED BY <1>1, <1>2, PTL DEF Spec

\* Whatever calls race, every row and every call in progress of payin.service.ts
\* keeps its shape: in particular no counter of a requisite goes negative.
THEOREM TypeCorrect == Spec => []TypeOK
<1>1. IInv => TypeOK
  BY DEF IInv
<1> QED BY <1>1, Invariance, PTL

\* The books of every order stay in step: merchant credit, trader debit and
\* platform income record the same amount, whatever handlers race on the order.
THEOREM BooksInStep == Spec => []LedgersMatchIncome
<1>1. IInv => LedgersMatchIncome
  BY DEF IInv
<1> QED BY <1>1, Invariance, PTL

\* An order that shows a paid outcome was settled for what it shows, after any
\* number of disputes, corrections and provider callbacks.
THEOREM PaidSettled == Spec => []PaidIsSettled
<1>1. IInv => PaidIsSettled
  BY DEF IInv
<1> QED BY <1>1, Invariance, PTL

\* No interleaving of reservations, recoveries and releases takes the counters
\* of a requisite over its caps.
THEOREM CapsHold == Spec => []UsageWithinLimits
<1>1. IInv => UsageWithinLimits
  BY DEF IInv, CapInv
<1> QED BY <1>1, Invariance, PTL

\* The auto-disable and the re-enable of a requisite never disagree with its
\* counters, although a release writes counters it read in an earlier step.
THEOREM SwitchFollowsCaps == Spec => []ActiveIffHeadroom
<1>1. IInv => ActiveIffHeadroom
  BY DEF IInv, CapInv
<1> QED BY <1>1, Invariance, PTL

-----------------------------------------------------------------------------
(* PaymentBook is implemented *)

OwedFor(row) == IF row.status \in PaidOutcomes THEN row.received ELSE 0

\* Writing one order is a charge of what it shows, or it stops counting as paid.
LEMMA OneOrderBooked ==
    ASSUME IInv, IInv', WritesOne
    PROVE  Book!BookNext
<1>1. PICK o \in Requests, row \in OrderRow : Writes(o, row)
  BY DEF WritesOne
<1> DEFINE owed == [q \in Requests |-> IF IsPaid(q) THEN order[q].received ELSE 0]
<1>2. \A q \in Requests : order'[q] = IF q = o THEN row ELSE order[q]
  BY <1>1 DEF Writes, WriteOrder, IInv, TypeOK
<1>3. owed' = [owed EXCEPT ![o] = OwedFor(row)]
  BY <1>2 DEF IsPaid, OwedFor
<1>4. CASE row.status \in PaidOutcomes
  <2>1. /\ row.received > 0 /\ merchant'[o] = row.received
        /\ merchant \in [Requests -> Int] /\ merchant' \in [Requests -> Int]
        /\ \A q \in Requests \ {o} : merchant'[q] = merchant[q]
    BY <1>1, <1>4 DEF Writes, BooksOK, IInv, TypeOK
  <2>2. merchant' = [merchant EXCEPT ![o] = row.received]
    BY <2>1
  <2>3. row.received \in PaidAmounts
    BY <2>1 DEF OrderRow
  <2>4. owed' = [owed EXCEPT ![o] = row.received]
    BY <1>3, <1>4 DEF OwedFor
  <2>5. Book!Charge(o, row.received)
    BY <2>2, <2>4 DEF Book!Charge
  <2> QED BY <2>3, <2>5 DEF Book!BookNext
<1>5. CASE row.status \notin PaidOutcomes
  <2>1. owed' = [q \in Requests |-> IF q \in {o} THEN 0 ELSE owed[q]]
    BY <1>3, <1>5 DEF OwedFor
  <2>2. merchant' = merchant
    BY <1>1, <1>5 DEF Writes, ledgers
  <2>3. Book!Suspend({o})
    BY <2>1, <2>2 DEF Book!Suspend
  <2> QED BY <2>3 DEF Book!BookNext
<1> QED BY <1>4, <1>5

\* Canceling several orders suspends them together.
LEMMA CancelAllBooked ==
    ASSUME IInv, NEW p \in Handlers, CommitCancelAll(p)
    PROVE  Book!BookNext
<1> DEFINE S == job[p].orders \cap Requests
           owed == [q \in Requests |-> IF IsPaid(q) THEN order[q].received ELSE 0]
<1>1. \A q \in Requests : order'[q] = IF q \in S THEN [order[q] EXCEPT !.status = "CANCELED"]
                                                ELSE order[q]
  BY DEF CommitCancelAll
<1>2. \A q \in S : order'[q].status = "CANCELED"
  BY <1>1 DEF IInv, TypeOK, OrderRow
<1>3. owed' = [q \in Requests |-> IF q \in S THEN 0 ELSE owed[q]]
  BY <1>1, <1>2 DEF IsPaid, PaidOutcomes
<1>4. merchant' = merchant
  BY DEF CommitCancelAll, ledgers
<1>5. PICK T \in SUBSET Requests : T = S
  OBVIOUS
<1>6. Book!Suspend(T)
  BY <1>3, <1>4, <1>5 DEF Book!Suspend
<1> HIDE DEF S, owed
<1> QED BY <1>6 DEF Book!BookNext

\* Every other step leaves orders and merchant balances alone.
LEMMA OthersStutter ==
    ASSUME NEW p \in Handlers,
           \/ BeginUpload(p) \/ MerchantUpdate(p) \/ ConfirmFromPaymentPage(p)
           \/ TraderCancelOrder(p) \/ TraderConfirmPaid(p) \/ AdminUpdateStatus(p)
           \/ BeginAppeal(p) \/ BeginCloseAppeal(p) \/ LockAppeal(p)
           \/ BeginProviderCallback(p) \/ DeactivateTrader(p) \/ ReadOpenOrders(p)
           \/ ReadUsage(p) \/ WriteUsage(p) \/ Fail(p)
    PROVE  order' = order /\ merchant' = merchant
  BY DEF BeginUpload, MerchantUpdate, ConfirmFromPaymentPage, TraderCancelOrder,
         TraderConfirmPaid, AdminUpdateStatus, BeginStatus, BeginPaid, BeginAppeal,
         BeginCloseAppeal, LockAppeal, BeginProviderCallback, DeactivateTrader,
         ReadOpenOrders, ReadUsage, WriteUsage, Fail, Begin, tables, ledgers

LEMMA StepBooked ==
    ASSUME IInv, [Next]_vars
    PROVE  [Book!BookNext]_(Book!bookVars)
<1>1. IInv'
  BY NextInv
<1> DEFINE Stutter == order' = order /\ merchant' = merchant
<1>2. Stutter => UNCHANGED Book!bookVars
  BY DEF Book!bookVars, IsPaid
<1>3. ASSUME NEW p \in Handlers, Handler(p)
      PROVE  WritesOne \/ CommitCancelAll(p) \/ Stutter
  <2>1. CASE AssignRequisite(p) \/ UploadElsewhere(p) \/ CommitStatus(p)
    BY <2>1, AssignRequisiteStep, UploadElsewhereStep, CommitStatusStep
  <2>2. CASE CommitPaid(p) \/ CommitAppeal(p) \/ CommitReject(p)
    BY <2>2, CommitPaidStep, CommitAppealStep, CommitRejectStep
  <2>3. CASE CommitResolve(p) \/ CommitProvider(p)
    BY <2>3, CommitResolveStep, CommitProviderStep
  <2>4. CASE CommitCancelAll(p)
    BY <2>4
  <2> QED BY <1>3, <2>1, <2>2, <2>3, <2>4, OthersStutter DEF Handler
<1>4. ASSUME NEW t \in Traders, ActivateTrader(t) PROVE Stutter
  BY <1>4 DEF ActivateTrader, ledgers
<1>5. UNCHANGED vars => Stutter
  BY DEF vars
<1>6. WritesOne => Book!BookNext
  BY <1>1, OneOrderBooked
<1>7. ASSUME NEW p \in Handlers, CommitCancelAll(p) PROVE Book!BookNext
  BY <1>7, CancelAllBooked
<1> HIDE DEF Stutter
<1> QED BY <1>2, <1>3, <1>4, <1>5, <1>6, <1>7 DEF Next

\* The Pay-In API implements PaymentBook: whatever calls race and fail, an order
\* is charged exactly what it shows as paid, a correction replaces the charge and
\* nothing ever takes it back or adds to it.
THEOREM ImplementsPaymentBook == Spec => Settlement
<1>1. Init => Book!BookInit
  BY DEF Init, Book!BookInit, NoOrder, NewOrder, IsPaid, PaidOutcomes
<1>2. IInv /\ [Next]_vars => [Book!BookNext]_(Book!bookVars)
  BY StepBooked
<1> QED BY <1>1, <1>2, Invariance, PTL DEF Spec, Settlement, Book!BookSpec

-----------------------------------------------------------------------------
(* The kinds of steps, as the order they touch sees them *)

\* The orders a call is going to rewrite by id, whatever they are by then.
Rewrites(j) ==
    CASE j.op \in {"status", "paid", "appeal", "closing", "provider"} -> {j.o}
      [] j.op = "cancelAll" -> j.orders
      [] OTHER -> {}

\* The call finds the orders as it has read them: the transition it is going
\* to write is an edge of the graph.
Fits(rows, j) ==
    /\ j.op \in {"status", "paid"} =>
           j.snap = rows[j.o] /\ ValidPayInTransition(rows[j.o].status, j.target)
    /\ j.op = "appeal" =>
           j.snap = rows[j.o] /\ ValidPayInTransition(rows[j.o].status, "APPEAL")
    /\ j.op = "closing" => j.snap = rows[j.o] /\ rows[j.o].status = "APPEAL"
    /\ j.op = "provider" => ValidPayInTransition(rows[j.o].status, j.target)
    /\ j.op = "cancelAll" => \A o \in j.orders : rows[o].status \in PreSettlement

\* Every call still finds the orders as it has read them.
SerialInv == \A p \in Handlers : Fits(order, job[p])

\* What a row adds to the confirmed volume of a requisite.
Share(row, r) ==
    IF row.req = r /\ row.status \in PaidOutcomes THEN row.received ELSE 0

\* The slots of a requisite that go when one row of an order follows another.
Taken(old, new, r) ==
    IF new.req = r /\ old.status \in ReleasedStatuses
                   /\ new.status \notin ReleasedStatuses \cup {"APPEAL"}
    THEN 1 ELSE 0

\* The counters of every requisite follow an order from one row to another.
Counts(old, new) ==
    \A r \in Requisites :
        /\ requisite'[r].confirmed =
               AtLeastZero(requisite[r].confirmed + Share(new, r) - Share(old, r))
        /\ requisite'[r].ops = requisite[r].ops + Taken(old, new, r)

\* A call that starts with a read.
Starts(p, j) ==
    /\ UNCHANGED tables
    /\ job[p] = Idle
    /\ j.op \in {"upload", "status", "paid", "appeal", "close", "provider"}
    /\ j.op = "paid" => j.target \in PaidOutcomes \/ "admin" \in Operations
    /\ j.op = "appeal" => "appeal" \in Operations
    /\ j.op = "close" => "close" \in Operations
    /\ j.op = "upload" => \A r \in j.picks : enabled[Owner[r]]

\* A step after which the handler has the job j and no order is another one.
Reads(p, j) ==
    /\ j \in Job
    /\ order' = order
    /\ \A r \in Requisites : requisite'[r].confirmed = requisite[r].confirmed
    /\ Continue(p, j)
    /\ Fits(order, j)
    /\ \/ Starts(p, j) \/ LockAppeal(p) \/ DeactivateTrader(p) \/ ReadOpenOrders(p)
       \/ ReadUsage(p) \/ WriteUsage(p) \/ Fail(p)

\* The row an upload inserts.
FirstRow(j, o, row) ==
    /\ order[o] = NoOrder
    /\ row.status \in {"NEW", "PENDING", "NO_REQUISITE"}
    /\ row.received = 0
    /\ row.req = None => row.status # "NEW"
    /\ row.req # None => row.req \in j.picks /\ row.req \in Requisites

\* The row an update leaves behind; what it canceled it is going to release.
NextRow(j, o, row) ==
    /\ Uploaded(o)
    /\ ValidPayInTransition(order[o].status, row.status)
    /\ row.req = order[o].req
    /\ j.op = "provider" => row.req = None
    /\ j.op \in {"status", "paid"} => row.status = j.target

Releases(j, o, row, next) ==
    IF j.op \in {"status", "closing"} /\ row.status = "CANCELED" /\ row.req # None
    THEN next = [op |-> "release", orders |-> {o}]
    ELSE next = Idle

\* A step that replaces the row of one order.
Updates(p, o, row, j) ==
    /\ job[p].op \in {"upload", "status", "paid", "appeal", "closing", "provider"}
    /\ o = job[p].o
    /\ row \in OrderRow
    /\ order' = [order EXCEPT ![o] = row]
    /\ enabled' = enabled
    /\ Continue(p, j)
    /\ Counts(order[o], row)
    /\ job[p].op = "upload" => FirstRow(job[p], o, row)
    /\ job[p].op # "upload" => NextRow(job[p], o, row)
    /\ Releases(job[p], o, row, j)

\* The calls that start with a read find what they have read.
LEMMA StartingSteps ==
    ASSUME IInv, NEW p \in Handlers,
           \/ BeginUpload(p) \/ MerchantUpdate(p) \/ ConfirmFromPaymentPage(p)
           \/ TraderCancelOrder(p) \/ TraderConfirmPaid(p) \/ AdminUpdateStatus(p)
           \/ BeginAppeal(p) \/ BeginCloseAppeal(p) \/ BeginProviderCallback(p)
    PROVE  \E j \in Job : Reads(p, j)
<1>1. ASSUME NEW j \in Job, NEW operation, Begin(p, operation, j), Fits(order, j),
             j.op \in {"upload", "status", "paid", "appeal", "close", "provider"},
             j.op = "paid" => j.target \in PaidOutcomes \/ operation = "admin",
             j.op = "appeal" => operation = "appeal",
             j.op = "close" => operation = "close",
             j.op = "upload" => \A r \in j.picks : enabled[Owner[r]]
      PROVE  \E x \in Job : Reads(p, x)
  <2>1. Starts(p, j)
    BY <1>1 DEF Starts, Begin
  <2>2. Continue(p, j) /\ order' = order /\ requisite' = requisite
    BY <1>1 DEF Begin, Continue, tables
  <2>3. Reads(p, j)
    BY <1>1, <2>1, <2>2 DEF Reads
  <2> QED BY <2>3
<1>2. ASSUME NEW o \in Requests PROVE order[o] \in OrderRow
  BY DEF IInv, TypeOK
<1>3. CASE BeginUpload(p)
  <2>1. PICK o \in Requests, x \in OrderAmounts : \E picks \in SUBSET Eligible(x) :
           Begin(p, "upload", [op |-> "upload", o |-> o, amount |-> x, picks |-> picks])
    BY <1>3 DEF BeginUpload
  <2>2. PICK picks \in SUBSET Eligible(x) :
           Begin(p, "upload", [op |-> "upload", o |-> o, amount |-> x, picks |-> picks])
    BY <2>1
  <2>3. PICK j \in Job : j = [op |-> "upload", o |-> o, amount |-> x, picks |-> picks]
    BY DEF Job, UploadJob, Eligible
  <2>4. /\ j.op = "upload" /\ Begin(p, "upload", j)
        /\ \A r \in j.picks : enabled[Owner[r]]
    BY <2>2, <2>3 DEF Eligible
  <2>5. Fits(order, j)
    BY <2>4 DEF Fits
  <2> QED BY <1>1, <2>4, <2>5
<1>4. ASSUME NEW operation, NEW o \in Requests, NEW target \in {"VERIFIED", "CANCELED"},
             BeginStatus(p, operation, o, target)
      PROVE  \E x \in Job : Reads(p, x)
  <2>1. PICK j \in Job :
           j = [op |-> "status", o |-> o, snap |-> order[o], target |-> target]
    BY <1>2 DEF Job, StatusJob
  <2>2. /\ j.op = "status" /\ j.o = o /\ j.snap = order[o] /\ j.target = target
        /\ Begin(p, operation, j) /\ ValidPayInTransition(order[o].status, target)
    BY <1>4, <2>1 DEF BeginStatus
  <2>3. Fits(order, j)
    BY <2>2 DEF Fits
  <2> QED BY <1>1, <2>2, <2>3
<1>5. CASE MerchantUpdate(p) \/ ConfirmFromPaymentPage(p) \/ TraderCancelOrder(p)
  BY <1>4, <1>5 DEF MerchantUpdate, ConfirmFromPaymentPage, TraderCancelOrder
<1>6. ASSUME NEW operation, NEW o \in Requests, NEW target, NEW paid \in PaidAmounts,
             BeginPaid(p, operation, o, target, paid),
             target \in PaidOutcomes \/ operation = "admin"
      PROVE  \E x \in Job : Reads(p, x)
  <2>1. /\ ValidPayInTransition(order[o].status, target)
        /\ Begin(p, operation, [op |-> "paid", o |-> o, snap |-> order[o],
                                target |-> target, paid |-> paid])
    BY <1>6 DEF BeginPaid
  <2>2. target \in PayInOrderStatus \ {"NONE"}
    BY <1>2, <2>1, TransitionsKeepRows DEF OrderRow
  <2>3. PICK j \in Job : j = [op |-> "paid", o |-> o, snap |-> order[o],
                              target |-> target, paid |-> paid]
    BY <1>2, <2>2 DEF Job, PaidJob
  <2>4. /\ j.op = "paid" /\ j.o = o /\ j.snap = order[o] /\ j.target = target
        /\ Begin(p, operation, j)
    BY <2>1, <2>3
  <2>5. Fits(order, j)
    BY <2>1, <2>4 DEF Fits
  <2> QED BY <1>1, <1>6, <2>4, <2>5
<1>7. CASE TraderConfirmPaid(p)
  <2>1. PICK o \in Requests, paid \in PaidAmounts :
           BeginPaid(p, "confirm", o, PaidOutcome(paid, order[o].amount), paid)
    BY <1>7 DEF TraderConfirmPaid
  <2>2. PaidOutcome(paid, order[o].amount) \in PaidOutcomes
    BY PaidOutcomeIsPaid
  <2> QED BY <1>6, <2>1, <2>2
<1>8. CASE AdminUpdateStatus(p)
  <2>1. PICK o \in Requests, target \in PayInOrderStatus :
           Uploaded(o) /\ BeginPaid(p, "admin", o, target, order[o].amount)
    BY <1>8 DEF AdminUpdateStatus
  <2>2. order[o].amount \in PaidAmounts
    BY <2>1 DEF IInv, RowInv, PaidAmounts
  <2> QED BY <1>6, <2>1, <2>2
<1>9. CASE BeginAppeal(p)
  <2>1. PICK o \in Requests, paid \in ReportedAmounts :
           /\ ValidPayInTransition(order[o].status, "APPEAL")
           /\ Begin(p, "appeal",
                    [op |-> "appeal", o |-> o, snap |-> order[o], paid |-> paid])
    BY <1>9 DEF BeginAppeal
  <2>2. PICK j \in Job : j = [op |-> "appeal", o |-> o, snap |-> order[o], paid |-> paid]
    BY <1>2 DEF Job, AppealJob
  <2>3. j.op = "appeal" /\ j.o = o /\ j.snap = order[o] /\ Begin(p, "appeal", j)
    BY <2>1, <2>2
  <2>4. Fits(order, j)
    BY <2>1, <2>3 DEF Fits
  <2> QED BY <1>1, <2>3, <2>4
<1>10. CASE BeginCloseAppeal(p)
  <2>1. PICK a \in Appeals, decision \in {"RESOLVED", "REJECTED"},
             paid \in ReportedAmounts, actual \in BOOLEAN :
           Begin(p, "close", [op |-> "close", a |-> a, decision |-> decision,
                              paid |-> paid, actual |-> actual])
    BY <1>10 DEF BeginCloseAppeal
  <2>2. PICK j \in Job : j = [op |-> "close", a |-> a, decision |-> decision,
                              paid |-> paid, actual |-> actual]
    BY DEF Job, CloseJob
  <2>3. j.op = "close" /\ Begin(p, "close", j)
    BY <2>1, <2>2
  <2>4. Fits(order, j)
    BY <2>3 DEF Fits
  <2> QED BY <1>1, <2>3, <2>4
<1>11. CASE BeginProviderCallback(p)
  <2>1. PICK o \in Requests, target \in {"PAID", "CANCELED"} :
           /\ ValidPayInTransition(order[o].status, target)
           /\ Begin(p, "provider", [op |-> "provider", o |-> o, target |-> target,
                                    settled |-> income[o] # 0])
    BY <1>11 DEF BeginProviderCallback
  <2>2. PICK j \in Job : j = [op |-> "provider", o |-> o, target |-> target,
                              settled |-> income[o] # 0]
    BY DEF Job, ProviderJob
  <2>3. j.op = "provider" /\ j.o = o /\ j.target = target /\ Begin(p, "provider", j)
    BY <2>1, <2>2
  <2>4. Fits(order, j)
    BY <2>1, <2>3 DEF Fits
  <2> QED BY <1>1, <2>3, <2>4
<1> QED BY <1>3, <1>5, <1>7, <1>8, <1>9, <1>10, <1>11

\* The steps in the middle of a call that write no order.
LEMMA ReadingSteps ==
    ASSUME IInv, NEW p \in Handlers,
           \/ LockAppeal(p) \/ DeactivateTrader(p) \/ ReadOpenOrders(p)
           \/ ReadUsage(p) \/ Fail(p)
    PROVE  \E j \in Job : Reads(p, j)
<1>1. order' = order /\ requisite' = requisite
  BY DEF LockAppeal, DeactivateTrader, ReadOpenOrders, ReadUsage, Fail, tables
<1>2. CASE LockAppeal(p)
  <2> DEFINE a == job[p].a
             o == appeal[a].order
  <2>1. job[p] \in CloseJob /\ JobOK(job[p])
    BY <1>2, JobKinds DEF LockAppeal, IInv, TypeOK, JobInv
  <2>2. a \in Appeals /\ o \in Requests /\ order[o] \in OrderRow
    BY <2>1 DEF CloseJob, JobOK, IInv, AppealInv, TypeOK
  <2>3. PICK j \in Job :
           j = [op |-> "closing", a |-> a, o |-> o, snap |-> order[o],
                decision |-> job[p].decision, paid |-> job[p].paid,
                actual |-> job[p].actual]
    BY <2>1, <2>2 DEF Job, ClosingJob, CloseJob
  <2>4. Continue(p, j) /\ order[o].status = "APPEAL"
    BY <1>2, <2>3 DEF LockAppeal
  <2>5. j.op = "closing" /\ j.o = o /\ j.snap = order[o]
    BY <2>3
  <2> HIDE DEF a, o
  <2>6. Fits(order, j)
    BY <2>4, <2>5 DEF Fits
  <2> QED BY <1>1, <1>2, <2>4, <2>6 DEF Reads
<1>3. CASE DeactivateTrader(p)
  <2>1. PICK t \in Traders : Continue(p, [op |-> "deactivate", t |-> t])
    BY <1>3 DEF DeactivateTrader
  <2>2. PICK j \in Job : j = [op |-> "deactivate", t |-> t]
    BY DEF Job, DeactivateJob
  <2>3. Continue(p, j) /\ Fits(order, j)
    BY <2>1, <2>2 DEF Fits
  <2> QED BY <1>1, <1>3, <2>3 DEF Reads
<1>4. CASE ReadOpenOrders(p)
  <2> DEFINE orders == OpenOrdersOf(job[p].t)
  <2>1. CASE orders = {}
    <3>1. PICK j \in Job : j = Idle
      BY DEF Job
    <3>2. Continue(p, j) /\ Fits(order, j)
      BY <1>4, <2>1, <3>1 DEF ReadOpenOrders, Finish, Fits, Idle
    <3> QED BY <1>1, <1>4, <3>2 DEF Reads
  <2>2. CASE orders # {}
    <3>1. PICK j \in Job : j = [op |-> "cancelAll", orders |-> orders]
      BY DEF Job, CancelAllJob, OpenOrdersOf
    <3>2. Continue(p, j)
      BY <1>4, <2>2, <3>1 DEF ReadOpenOrders
    <3>3. \A o \in orders : order[o].status \in PreSettlement
      BY DEF OpenOrdersOf
    <3>4. Fits(order, j)
      BY <3>1, <3>3 DEF Fits
    <3> QED BY <1>1, <1>4, <3>2, <3>4 DEF Reads
  <2> QED BY <2>1, <2>2
<1>5. CASE ReadUsage(p)
  <2>1. job[p] \in ReleaseJob /\ JobOK(job[p])
    BY <1>5, JobKinds DEF ReadUsage, IInv, TypeOK, JobInv
  <2>2. PICK o \in job[p].orders :
           Continue(p, [op |-> "releasing", o |-> o, orders |-> job[p].orders \ {o},
                        seen |-> [ops |-> requisite[order[o].req].ops,
                                  amount |-> requisite[order[o].req].amount]])
    BY <1>5 DEF ReadUsage
  <2> DEFINE r == order[o].req
  <2>3. o \in Requests /\ OnRequisite(o)
    BY <2>1 DEF ReleaseJob, JobOK
  <2>4. r \in Requisites
    BY <2>3 DEF OnRequisite, IInv, TypeOK, OrderRow
  <2>5. requisite[r].ops \in Nat /\ requisite[r].amount \in Nat
    BY <2>4 DEF IInv, TypeOK, RequisiteRow
  <2>6. PICK j \in Job :
           j = [op |-> "releasing", o |-> o, orders |-> job[p].orders \ {o},
                seen |-> [ops |-> requisite[r].ops, amount |-> requisite[r].amount]]
    BY <2>1, <2>3, <2>5 DEF Job, ReleasingJob, ReleaseJob
  <2>7. Continue(p, j) /\ j.op = "releasing"
    BY <2>2, <2>6
  <2>8. Fits(order, j)
    BY <2>7 DEF Fits
  <2> QED BY <1>1, <1>5, <2>7, <2>8 DEF Reads
<1>6. CASE Fail(p)
  <2>1. PICK j \in Job : j = Idle
    BY DEF Job
  <2>2. Continue(p, j) /\ Fits(order, j)
    BY <1>6, <2>1 DEF Fail, Finish, Fits, Idle
  <2> QED BY <1>1, <1>6, <2>2 DEF Reads
<1> QED BY <1>2, <1>3, <1>4, <1>5, <1>6

\* Writing the counters of a released slot back leaves the volume alone.
LEMMA ReleaseKeepsConfirmed ==
    ASSUME NEW row \in RequisiteRow, NEW seen, NEW x
    PROVE  /\ Release(row, seen, x).confirmed = row.confirmed
           /\ Release(row, seen, x).ops = AtLeastZero(seen.ops - 1)
<1> DEFINE freed == [row EXCEPT !.ops    = AtLeastZero(seen.ops - 1),
                               !.amount = AtLeastZero(seen.amount - x)]
<1>1. /\ DOMAIN freed = DOMAIN row
      /\ freed.confirmed = row.confirmed
      /\ freed.ops = AtLeastZero(seen.ops - 1)
      /\ "active" \in DOMAIN row /\ "reason" \in DOMAIN row
  BY DEF RequisiteRow
<1>2. Release(row, seen, x) = Reenabled(freed)
  BY DEF Release
<1> HIDE DEF freed
<1>3. Reenabled(freed) \in {freed, [freed EXCEPT !.active = TRUE, !.reason = "NONE"]}
  BY DEF Reenabled
<1>4. /\ [freed EXCEPT !.active = TRUE, !.reason = "NONE"].confirmed = freed.confirmed
      /\ [freed EXCEPT !.active = TRUE, !.reason = "NONE"].ops = freed.ops
  <2>1. DOMAIN freed = {"ops", "amount", "confirmed", "limitOps", "limitAmount",
                        "active", "reason"}
    BY <1>1 DEF RequisiteRow
  <2> QED BY <2>1
<1> QED BY <1>1, <1>2, <1>3, <1>4

\* What a release writes back.
LEMMA ReleasedRow ==
    ASSUME IInv, NEW p \in Handlers, WriteUsage(p)
    PROVE  /\ job[p] \in ReleasingJob
           /\ job[p].o \in Requests /\ order[job[p].o].req \in Requisites
           /\ \A r \in Requisites :
                 /\ requisite'[r].confirmed = requisite[r].confirmed
                 /\ requisite'[r].ops =
                        IF r = order[job[p].o].req THEN AtLeastZero(job[p].seen.ops - 1)
                                                   ELSE requisite[r].ops
           /\ Continue(p, IF job[p].orders = {} THEN Idle
                          ELSE [op |-> "release", orders |-> job[p].orders])
<1> DEFINE o == job[p].o
           q == order[o].req
<1>1. job[p] \in ReleasingJob /\ JobOK(job[p]) /\ job[p].op = "releasing"
  BY JobKinds DEF WriteUsage, IInv, TypeOK, JobInv
<1>2. o \in Requests /\ OnRequisite(o)
  BY <1>1 DEF ReleasingJob, JobOK
<1>3. q \in Requisites
  BY <1>2 DEF OnRequisite, IInv, TypeOK, OrderRow
<1>4. requisite' = [requisite EXCEPT ![q] = Release(@, job[p].seen, order[o].amount)]
  BY DEF WriteUsage
<1>5. requisite \in [Requisites -> RequisiteRow]
  BY DEF IInv, TypeOK
<1>6. Continue(p, IF job[p].orders = {} THEN Idle
                  ELSE [op |-> "release", orders |-> job[p].orders])
  BY DEF WriteUsage, Finish
<1> HIDE DEF o, q
<1>7. ASSUME NEW r \in Requisites
      PROVE  /\ requisite'[r].confirmed = requisite[r].confirmed
             /\ requisite'[r].ops = IF r = q THEN AtLeastZero(job[p].seen.ops - 1)
                                             ELSE requisite[r].ops
  <2>1. CASE r = q
    <3>1. requisite'[r] = Release(requisite[r], job[p].seen, order[o].amount)
      BY <1>4, <1>5, <2>1
    <3> QED BY <1>5, <2>1, <3>1, ReleaseKeepsConfirmed
  <2>2. CASE r # q
    BY <1>4, <1>5, <2>2
  <2> QED BY <2>1, <2>2
<1> QED BY <1>1, <1>2, <1>3, <1>6, <1>7 DEF o, q

LEMMA WritingUsage ==
    ASSUME IInv, NEW p \in Handlers, WriteUsage(p)
    PROVE  \E j \in Job : Reads(p, j)
<1>1. job[p] \in ReleasingJob
  BY ReleasedRow
<1>2. PICK j \in Job : j = IF job[p].orders = {} THEN Idle
                           ELSE [op |-> "release", orders |-> job[p].orders]
  BY <1>1 DEF Job, ReleaseJob, ReleasingJob
<1>3. j.op \in {"idle", "release"}
  BY <1>2 DEF Idle
<1>4. Continue(p, j) /\ order' = order
      /\ \A r \in Requisites : requisite'[r].confirmed = requisite[r].confirmed
  BY <1>2, ReleasedRow DEF WriteUsage
<1>5. Fits(order, j)
  BY <1>3 DEF Fits
<1> QED BY <1>4, <1>5 DEF Reads

\* A reservation takes one slot and leaves the volume alone.
LEMMA ReserveCounts ==
    ASSUME NEW row \in RequisiteRow, NEW x \in Nat
    PROVE  /\ Reserve(row, x).confirmed = row.confirmed
           /\ Reserve(row, x).ops = row.ops + 1
<1> DEFINE used == [row EXCEPT !.ops = @ + 1, !.amount = @ + x]
           off == [used EXCEPT !.active = FALSE,
                               !.reason = IF used.amount >= used.limitAmount
                                          THEN "LIMIT_AMOUNT" ELSE "LIMIT_TX"]
<1>1. used.confirmed = row.confirmed /\ used.ops = row.ops + 1
  BY DEF RequisiteRow
<1>2. DOMAIN used = {"ops", "amount", "confirmed", "limitOps", "limitAmount",
                     "active", "reason"}
  BY DEF RequisiteRow
<1>3. Reserve(row, x) \in {used, off}
  BY DEF Reserve
<1> HIDE DEF used
<1>4. off.confirmed = used.confirmed /\ off.ops = used.ops
  BY <1>2
<1> QED BY <1>1, <1>3, <1>4

\* The row an update of the status leaves behind.
LEMMA UpdatedRow ==
    ASSUME NEW old \in OrderRow, NEW s
    PROVE  /\ [old EXCEPT !.status = s].status = s
           /\ [old EXCEPT !.status = s].req = old.req
           /\ [old EXCEPT !.status = s].received = old.received
  BY DEF OrderRow

\* Requisite rows in numbers.
LEMMA CountersAreNatural ==
    ASSUME IInv, NEW r \in Requisites
    PROVE  /\ requisite[r] \in RequisiteRow
           /\ requisite[r].confirmed \in Nat /\ requisite[r].ops \in Nat
  BY DEF IInv, TypeOK, RequisiteRow

\* No requisite counts an order that it is not on, or that neither was paid nor
\* takes or gives back a slot.
LEMMA NothingCounted ==
    ASSUME IInv, NEW old, NEW new, UNCHANGED requisite,
           \A r \in Requisites :
               Share(old, r) = 0 /\ Share(new, r) = 0 /\ Taken(old, new, r) = 0
    PROVE  Counts(old, new)
<1>1. ASSUME NEW r \in Requisites
      PROVE  /\ requisite'[r].confirmed =
                   AtLeastZero(requisite[r].confirmed + Share(new, r) - Share(old, r))
             /\ requisite'[r].ops = requisite[r].ops + Taken(old, new, r)
  <2>1. /\ requisite[r].confirmed \in Nat /\ requisite[r].ops \in Nat
        /\ requisite' = requisite
    BY CountersAreNatural
  <2>2. Share(old, r) = 0 /\ Share(new, r) = 0 /\ Taken(old, new, r) = 0
    OBVIOUS
  <2> QED BY <2>1, <2>2 DEF AtLeastZero
<1> QED BY <1>1 DEF Counts

\* The edges of the graph that the counters tell apart.
LEMMA EdgeFacts ==
    ASSUME NEW from \in PayInOrderStatus, NEW to, ValidPayInTransition(from, to)
    PROVE  /\ from \in PaidOutcomes => to = "APPEAL"
           /\ from = "CANCELED" => to \in PaidOutcomes \cup {"APPEAL"}
           /\ from \notin ReleasedStatuses \/ to \in PaidOutcomes \cup {"APPEAL"}
           /\ to \in PreSettlement => from \in PreSettlement
           /\ to = "CANCELED" => from \notin {"CANCELED"} \cup PaidOutcomes
           /\ to # "NONE"
  BY DEF ValidPayInTransition, PayinTransitions, PayInOrderStatus, PaidOutcomes,
         ReleasedStatuses, PreSettlement

\* The row of a request nobody uploaded.
LEMMA BlankRow ==
    ASSUME IInv, NEW o \in Requests, ~Uploaded(o)
    PROVE  order[o] = NoOrder /\ order[o].status = "NONE" /\ order[o].received = 0
<1>1. order[o] = NoOrder
  BY DEF IInv, RowInv
<1>2. NoOrder.status = "NONE" /\ NoOrder.received = 0
  BY DEF NoOrder, NewOrder
<1> QED BY <1>1, <1>2

LEMMA AssignUpdates ==
    ASSUME IInv, NEW p \in Handlers, AssignRequisite(p)
    PROVE  \E o \in Requests, j \in Job : \E row : Updates(p, o, row, j)
<1> DEFINE o == job[p].o
           x == job[p].amount
<1>1. job[p] \in UploadJob /\ job[p].op = "upload"
  BY JobKinds DEF AssignRequisite, IInv, TypeOK
<1>2. o \in Requests /\ x \in OrderAmounts /\ job[p].picks \subseteq Requisites
  BY <1>1 DEF UploadJob
<1>3. PICK r \in job[p].picks :
         /\ ~Uploaded(o)
         /\ WriteOrder(o, NewOrder("NEW", x, r, FALSE))
         /\ requisite' = [requisite EXCEPT ![r] = Reserve(@, x)]
  BY DEF AssignRequisite
<1>4. PICK row : row = NewOrder("NEW", x, r, FALSE)
  OBVIOUS
<1>5. PICK j \in Job : j = Idle
  BY DEF Job
<1>6. /\ row \in OrderRow /\ row.status = "NEW" /\ row.received = 0 /\ row.req = r
      /\ r \in Requisites /\ r # None
  BY <1>2, <1>4, ConstantsAssumption DEF NewOrder, OrderRow, PayInOrderStatus
<1>7. /\ order' = [order EXCEPT ![o] = row] /\ enabled' = enabled /\ Continue(p, j)
  BY <1>3, <1>4, <1>5 DEF WriteOrder, AssignRequisite, Finish
<1>8. order[o] = NoOrder /\ order[o].status = "NONE" /\ order[o].received = 0
  BY <1>2, <1>3, BlankRow
<1>9. FirstRow(job[p], o, row)
  BY <1>6, <1>8 DEF FirstRow
<1>10. Releases(job[p], o, row, j)
  BY <1>1, <1>5 DEF Releases
<1>11. ASSUME NEW q \in Requisites
       PROVE  /\ requisite'[q].confirmed =
                    AtLeastZero(requisite[q].confirmed + Share(row, q) - Share(order[o], q))
              /\ requisite'[q].ops = requisite[q].ops + Taken(order[o], row, q)
  <2>1. /\ requisite[q] \in RequisiteRow /\ requisite[q].confirmed \in Nat
        /\ requisite[q].ops \in Nat /\ x \in Nat
        /\ requisite \in [Requisites -> RequisiteRow]
    BY <1>2, CountersAreNatural, AmountsAreNatural DEF IInv, TypeOK
  <2>2. /\ Share(row, q) = 0 /\ Share(order[o], q) = 0
        /\ Taken(order[o], row, q) = IF q = r THEN 1 ELSE 0
    BY <1>6, <1>8 DEF Share, Taken, PaidOutcomes, ReleasedStatuses
  <2>3. CASE q = r
    <3>1. requisite'[q] = Reserve(requisite[q], x)
      BY <1>3, <2>1, <2>3
    <3>2. /\ requisite'[q].confirmed = requisite[q].confirmed
          /\ requisite'[q].ops = requisite[q].ops + 1
      BY <2>1, <3>1, ReserveCounts
    <3> QED BY <2>1, <2>2, <2>3, <3>2 DEF AtLeastZero
  <2>4. CASE q # r
    <3>1. requisite'[q] = requisite[q]
      BY <1>3, <2>1, <2>4
    <3> QED BY <2>1, <2>2, <2>4, <3>1 DEF AtLeastZero
  <2> QED BY <2>3, <2>4
<1>12. Counts(order[o], row)
  BY <1>11 DEF Counts
<1>13. Updates(p, o, row, j)
  BY <1>1, <1>6, <1>7, <1>9, <1>10, <1>12 DEF Updates
<1> QED BY <1>2, <1>13

LEMMA ElsewhereUpdates ==
    ASSUME IInv, NEW p \in Handlers, UploadElsewhere(p)
    PROVE  \E o \in Requests, j \in Job : \E row : Updates(p, o, row, j)
<1> DEFINE o == job[p].o
           x == job[p].amount
<1>1. job[p] \in UploadJob /\ job[p].op = "upload"
  BY JobKinds DEF UploadElsewhere, IInv, TypeOK
<1>2. o \in Requests /\ x \in OrderAmounts /\ ~Uploaded(o)
  BY <1>1 DEF UploadJob, UploadElsewhere
<1>3. PICK provider \in BOOLEAN :
         WriteOrder(o, NewOrder(IF provider THEN "PENDING" ELSE "NO_REQUISITE",
                                x, None, provider))
  BY ConstantsAssumption DEF UploadElsewhere
<1>4. PICK row : row = NewOrder(IF provider THEN "PENDING" ELSE "NO_REQUISITE",
                                x, None, provider)
  OBVIOUS
<1>5. PICK j \in Job : j = Idle
  BY DEF Job
<1>6. /\ row \in OrderRow /\ row.status \in {"PENDING", "NO_REQUISITE"}
      /\ row.received = 0 /\ row.req = None /\ None \notin Requisites
  BY <1>2, <1>4, ConstantsAssumption DEF NewOrder, OrderRow, PayInOrderStatus
<1>7. /\ order' = [order EXCEPT ![o] = row] /\ enabled' = enabled /\ Continue(p, j)
      /\ UNCHANGED requisite
  BY <1>3, <1>4, <1>5 DEF WriteOrder, UploadElsewhere, Finish
<1>8. order[o] = NoOrder /\ order[o].status = "NONE" /\ order[o].received = 0
  BY <1>2, BlankRow
<1>9. FirstRow(job[p], o, row)
  BY <1>6, <1>8 DEF FirstRow
<1>10. Releases(job[p], o, row, j)
  BY <1>1, <1>5 DEF Releases
<1>11. \A q \in Requisites : /\ Share(order[o], q) = 0 /\ Share(row, q) = 0
                             /\ Taken(order[o], row, q) = 0
  BY <1>6, <1>8 DEF Share, Taken, PaidOutcomes
<1>12. Counts(order[o], row)
  BY <1>7, <1>11, NothingCounted
<1>13. Updates(p, o, row, j)
  BY <1>1, <1>6, <1>7, <1>9, <1>10, <1>12 DEF Updates
<1> QED BY <1>2, <1>13

\* The status of an order without a payment, and the release that may follow.
LEMMA StatusUpdates ==
    ASSUME IInv, SerialInv, NEW p \in Handlers, CommitStatus(p)
    PROVE  \E o \in Requests, j \in Job : \E row : Updates(p, o, row, j)
<1> DEFINE o == job[p].o
           target == job[p].target
<1>1. job[p] \in StatusJob /\ JobOK(job[p]) /\ job[p].op = "status"
  BY JobKinds DEF CommitStatus, IInv, TypeOK, JobInv
<1>2. o \in Requests /\ Uploaded(o) /\ target \in {"VERIFIED", "CANCELED"}
  BY <1>1 DEF StatusJob, JobOK
<1>3. order[o] \in OrderRow /\ ValidPayInTransition(order[o].status, target)
  BY <1>1, <1>2 DEF SerialInv, Fits, IInv, TypeOK
<1>4. PICK row : row = [order[o] EXCEPT !.status = target]
  OBVIOUS
<1>5. /\ row \in OrderRow
      /\ row.status = target /\ row.req = order[o].req /\ row.received = order[o].received
  BY <1>2, <1>3, <1>4, UpdatedRow, UpdatedRowFits DEF RowFits, PayInOrderStatus
<1>6. /\ order' = [order EXCEPT ![o] = row] /\ enabled' = enabled
      /\ UNCHANGED requisite /\ ReleaseAfter(p, o, target = "CANCELED")
  BY <1>4 DEF WriteOrder, CommitStatus
<1>7. PICK j \in Job : Continue(p, j) /\ Releases(job[p], o, row, j)
  <2>1. CASE target = "CANCELED" /\ order[o].req # None
    <3>1. PICK j \in Job : j = [op |-> "release", orders |-> {o}]
      BY <1>2 DEF Job, ReleaseJob
    <3> QED BY <1>1, <1>5, <1>6, <2>1, <3>1 DEF ReleaseAfter, Releases
  <2>2. CASE ~(target = "CANCELED" /\ order[o].req # None)
    <3>1. PICK j \in Job : j = Idle
      BY DEF Job
    <3> QED BY <1>1, <1>5, <1>6, <2>2, <3>1 DEF ReleaseAfter, Finish, Releases
  <2> QED BY <2>1, <2>2
<1>8. NextRow(job[p], o, row)
  BY <1>1, <1>2, <1>3, <1>5 DEF NextRow
<1>9. /\ order[o].status \notin PaidOutcomes /\ row.status \notin PaidOutcomes
      /\ order[o].status \notin ReleasedStatuses
  <2>1. order[o].status \in PayInOrderStatus
    BY <1>3 DEF OrderRow
  <2> QED BY <1>2, <1>3, <1>5, <2>1, EdgeFacts DEF PaidOutcomes
<1>10. \A q \in Requisites : /\ Share(order[o], q) = 0 /\ Share(row, q) = 0
                             /\ Taken(order[o], row, q) = 0
  BY <1>9 DEF Share, Taken
<1>11. Counts(order[o], row)
  BY <1>6, <1>10, NothingCounted
<1>12. Updates(p, o, row, j)
  BY <1>1, <1>5, <1>6, <1>7, <1>8, <1>11 DEF Updates
<1> QED BY <1>2, <1>12

\* The kernel of every paid transition: the counters of the order's requisite,
\* when the order still is as it was read.
LEMMA PaidCounts ==
    ASSUME IInv, NEW o \in Requests, Uploaded(o),
           NEW target \in PayInOrderStatus \ {"NONE"}, NEW paid \in PaidAmounts,
           ValidPayInTransition(order[o].status, target),
           ApplyPaidTransition(o, order[o], target, paid),
           NEW row, row.req = order[o].req, row.status = target,
           row.received = IF target \in PaidOutcomes THEN paid ELSE 0
    PROVE  Counts(order[o], row)
<1> DEFINE old == order[o]
           d == ConfirmedDelta(old, target, paid)
<1>1. old \in OrderRow /\ old.status \in PayInOrderStatus
  BY DEF IInv, TypeOK, OrderRow
<1>2. old.amount \in Nat /\ old.received \in Nat /\ paid \in Nat /\ row.received \in Nat
  BY <1>1, AmountsAreNatural
<1>3. old.status \in PaidOutcomes => target \notin PaidOutcomes
  BY <1>1, EdgeFacts DEF PaidOutcomes
<1>4. ASSUME NEW q \in Requisites
      PROVE  /\ requisite'[q].confirmed =
                   AtLeastZero(requisite[q].confirmed + Share(row, q) - Share(old, q))
             /\ requisite'[q].ops = requisite[q].ops + Taken(old, row, q)
  <2>1. /\ requisite[q] \in RequisiteRow /\ requisite[q].confirmed \in Nat
        /\ requisite[q].ops \in Nat
    BY CountersAreNatural
  <2>2. CASE q = old.req
    <3>1. requisite'[q] = RequisiteAfterPaid(requisite[q], old, target, paid)
      BY <2>2 DEF ApplyPaidTransition
    <3>2. d = Share(row, q) - Share(old, q) /\ d \in Int
      <4>1. CASE old.status \in PaidOutcomes
        <5>1. d = - old.received
          BY <1>3, <4>1 DEF ConfirmedDelta
        <5>2. Share(row, q) = 0 /\ Share(old, q) = old.received
          BY <1>3, <2>2, <4>1 DEF Share
        <5> HIDE DEF d
        <5> QED BY <1>2, <5>1, <5>2
      <4>2. CASE old.status \notin PaidOutcomes /\ target \in PaidOutcomes
        <5>1. d = paid
          BY <4>2 DEF ConfirmedDelta
        <5>2. Share(row, q) = paid /\ Share(old, q) = 0
          BY <2>2, <4>2 DEF Share
        <5> HIDE DEF d
        <5> QED BY <1>2, <5>1, <5>2
      <4>3. CASE old.status \notin PaidOutcomes /\ target \notin PaidOutcomes
        <5>1. d = 0
          BY <4>3 DEF ConfirmedDelta
        <5>2. Share(row, q) = 0 /\ Share(old, q) = 0
          BY <4>3 DEF Share
        <5> HIDE DEF d
        <5> QED BY <5>1, <5>2
      <4> QED BY <4>1, <4>2, <4>3
    <3> DEFINE adjusted == AdjustConfirmed(requisite[q], d)
    <3>3. /\ adjusted \in RequisiteRow /\ adjusted.ops = requisite[q].ops
          /\ adjusted.confirmed = AtLeastZero(requisite[q].confirmed + d)
      <4>1. adjusted \in RequisiteRow /\ adjusted.ops = requisite[q].ops
        BY <2>1, <3>2, AdjustKeepsCaps
      <4>2. adjusted.confirmed = AtLeastZero(requisite[q].confirmed + d)
        BY <2>1 DEF AdjustConfirmed, RequisiteRow
      <4> QED BY <4>1, <4>2
    <3>4. requisite'[q] = IF Reclaims(old, target) THEN Reserve(adjusted, old.amount)
                                                   ELSE adjusted
      BY <3>1 DEF RequisiteAfterPaid
    <3>5. Taken(old, row, q) = IF Reclaims(old, target) THEN 1 ELSE 0
      <4>1. old.status # "NONE"
        BY DEF Uploaded
      <4>2. old.status = "CANCELED" => target \in PaidOutcomes \cup {"APPEAL"}
        BY <1>1, EdgeFacts
      <4> QED BY <2>2, <4>1, <4>2 DEF Taken, Reclaims, ReleasedStatuses, PaidOutcomes
    <3>6. requisite'[q].confirmed = adjusted.confirmed
      <4> HIDE DEF adjusted, old
      <4> QED BY <1>2, <3>3, <3>4, ReserveCounts
    <3>7. requisite'[q].ops = adjusted.ops + (IF Reclaims(old, target) THEN 1 ELSE 0)
      <4>1. adjusted.ops \in Nat
        BY <2>1, <3>3
      <4> HIDE DEF adjusted, old
      <4> QED BY <1>2, <3>3, <3>4, <4>1, ReserveCounts
    <3>8. requisite[q].confirmed + d = requisite[q].confirmed + Share(row, q) - Share(old, q)
      <4>1. Share(row, q) \in Nat /\ Share(old, q) \in Nat
        BY <1>2 DEF Share
      <4> HIDE DEF d, old
      <4> QED BY <2>1, <3>2, <4>1
    <3> HIDE DEF adjusted, d, old
    <3> QED BY <3>3, <3>5, <3>6, <3>7, <3>8
  <2>3. CASE q # old.req
    <3>1. requisite'[q] = requisite[q]
      BY <2>3 DEF ApplyPaidTransition
    <3>2. Share(row, q) = 0 /\ Share(old, q) = 0 /\ Taken(old, row, q) = 0
      BY <2>3 DEF Share, Taken
    <3> HIDE DEF old
    <3> QED BY <2>1, <3>1, <3>2 DEF AtLeastZero
  <2> QED BY <2>2, <2>3
<1> QED BY <1>4 DEF Counts

LEMMA PaidUpdates ==
    ASSUME IInv, SerialInv, NEW p \in Handlers, CommitPaid(p)
    PROVE  \E o \in Requests, j \in Job : \E row : Updates(p, o, row, j)
<1> DEFINE o == job[p].o
           target == job[p].target
           paid == job[p].paid
<1>1. job[p] \in PaidJob /\ JobOK(job[p]) /\ job[p].op = "paid"
  BY JobKinds DEF CommitPaid, IInv, TypeOK, JobInv
<1>2. /\ o \in Requests /\ Uploaded(o) /\ paid \in PaidAmounts
      /\ target \in PayInOrderStatus \ {"NONE"}
  BY <1>1 DEF PaidJob, JobOK
<1>3. /\ order[o] \in OrderRow /\ ValidPayInTransition(order[o].status, target)
      /\ job[p].snap = order[o]
  BY <1>1, <1>2 DEF SerialInv, Fits, IInv, TypeOK
<1>4. PICK received \in PaidAmounts \cup {0} :
         received = IF target \in PaidOutcomes THEN paid ELSE 0
  BY <1>2
<1>5. PICK row : row = [order[o] EXCEPT !.status = target, !.received = received]
  OBVIOUS
<1>6. PICK j \in Job : j = Idle
  BY DEF Job
<1>7. /\ row \in OrderRow
      /\ row.status = target /\ row.req = order[o].req /\ row.received = received
  <2>1. RowFits(o, row)
    BY <1>2, <1>5, UpdatedRowFits
  <2>2. row.status = target /\ row.req = order[o].req /\ row.received = received
    BY <1>3, <1>5 DEF OrderRow
  <2> QED BY <2>1, <2>2 DEF RowFits
<1>8. ApplyPaidTransition(o, order[o], target, paid)
  BY <1>3 DEF CommitPaid
<1>9. order' = [order EXCEPT ![o] = row] /\ enabled' = enabled /\ Continue(p, j)
  BY <1>4, <1>5, <1>6, <1>8 DEF ApplyPaidTransition, WriteOrder, CommitPaid, Finish
<1>10. Counts(order[o], row)
  BY <1>2, <1>3, <1>4, <1>7, <1>8, PaidCounts
<1>11. NextRow(job[p], o, row) /\ Releases(job[p], o, row, j)
  BY <1>1, <1>2, <1>3, <1>6, <1>7 DEF NextRow, Releases
<1>12. Updates(p, o, row, j)
  BY <1>1, <1>7, <1>9, <1>10, <1>11 DEF Updates
<1> QED BY <1>2, <1>12

LEMMA ResolveUpdates ==
    ASSUME IInv, SerialInv, NEW p \in Handlers, CommitResolve(p)
    PROVE  \E o \in Requests, j \in Job : \E row : Updates(p, o, row, j)
<1> DEFINE o == job[p].o
           paid == job[p].paid
           target == PaidOutcome(paid, order[o].amount)
<1>1. job[p] \in ClosingJob /\ JobOK(job[p]) /\ job[p].op = "closing"
  BY JobKinds DEF CommitResolve, IInv, TypeOK, JobInv
<1>2. o \in Requests /\ Uploaded(o) /\ paid \in PaidAmounts
  BY <1>1 DEF ClosingJob, JobOK, PaidAmounts
<1>3. /\ order[o] \in OrderRow /\ order[o].status = "APPEAL"
      /\ job[p].snap = order[o]
  BY <1>1, <1>2 DEF SerialInv, Fits, IInv, TypeOK
<1>4. target \in PaidOutcomes /\ target \in PayInOrderStatus \ {"NONE"}
  BY PaidOutcomeIsPaid
<1>5. ApplyPaidTransition(o, order[o], target, paid)
  BY <1>3 DEF CommitResolve
<1>6. ValidPayInTransition(order[o].status, target) /\ target # "CANCELED"
  BY <1>3, <1>4 DEF ValidPayInTransition, PayinTransitions, PayInOrderStatus, PaidOutcomes
<1> HIDE DEF target
<1>7. PICK row : row = [order[o] EXCEPT !.status = target, !.received = paid]
  OBVIOUS
<1>8. PICK j \in Job : j = Idle
  BY DEF Job
<1>9. /\ row \in OrderRow
      /\ row.status = target /\ row.req = order[o].req /\ row.received = paid
  <2>1. RowFits(o, row)
    BY <1>2, <1>4, <1>7, UpdatedRowFits
  <2>2. row.status = target /\ row.req = order[o].req /\ row.received = paid
    BY <1>3, <1>7 DEF OrderRow
  <2> QED BY <2>1, <2>2 DEF RowFits
<1>10. order' = [order EXCEPT ![o] = row] /\ enabled' = enabled /\ Continue(p, j)
  BY <1>4, <1>5, <1>7, <1>8 DEF ApplyPaidTransition, WriteOrder, CommitResolve, Finish
<1>11. Counts(order[o], row)
  BY <1>2, <1>4, <1>5, <1>6, <1>9, PaidCounts
<1>12. NextRow(job[p], o, row) /\ Releases(job[p], o, row, j)
  BY <1>1, <1>2, <1>6, <1>8, <1>9 DEF NextRow, Releases
<1>13. Updates(p, o, row, j)
  BY <1>1, <1>9, <1>10, <1>11, <1>12 DEF Updates
<1> QED BY <1>2, <1>13

LEMMA RejectUpdates ==
    ASSUME IInv, SerialInv, NEW p \in Handlers, CommitReject(p)
    PROVE  \E o \in Requests, j \in Job : \E row : Updates(p, o, row, j)
<1> DEFINE o == job[p].o
<1>1. job[p] \in ClosingJob /\ JobOK(job[p]) /\ job[p].op = "closing"
  BY JobKinds DEF CommitReject, IInv, TypeOK, JobInv
<1>2. o \in Requests /\ Uploaded(o)
  BY <1>1 DEF ClosingJob, JobOK
<1>3. order[o] \in OrderRow /\ order[o].status = "APPEAL"
  BY <1>1, <1>2 DEF SerialInv, Fits, IInv, TypeOK
<1>4. ValidPayInTransition(order[o].status, "CANCELED")
  BY <1>3 DEF ValidPayInTransition, PayinTransitions, PayInOrderStatus, PaidOutcomes
<1>5. PICK row : row = [order[o] EXCEPT !.status = "CANCELED", !.received = 0]
  OBVIOUS
<1>6. /\ row \in OrderRow
      /\ row.status = "CANCELED" /\ row.req = order[o].req
  <2>1. RowFits(o, row)
    BY <1>2, <1>3, <1>5, UpdatedRowFits DEF PayInOrderStatus
  <2>2. row.status = "CANCELED" /\ row.req = order[o].req
    BY <1>3, <1>5 DEF OrderRow
  <2> QED BY <2>1, <2>2 DEF RowFits
<1>7. /\ order' = [order EXCEPT ![o] = row] /\ enabled' = enabled
      /\ UNCHANGED requisite /\ ReleaseAfter(p, o, TRUE)
  BY <1>5 DEF WriteOrder, CommitReject
<1>8. PICK j \in Job : Continue(p, j) /\ Releases(job[p], o, row, j)
  <2>1. CASE order[o].req # None
    <3>1. PICK j \in Job : j = [op |-> "release", orders |-> {o}]
      BY <1>2 DEF Job, ReleaseJob
    <3> QED BY <1>1, <1>6, <1>7, <2>1, <3>1 DEF ReleaseAfter, Releases
  <2>2. CASE order[o].req = None
    <3>1. PICK j \in Job : j = Idle
      BY DEF Job
    <3> QED BY <1>1, <1>6, <1>7, <2>2, <3>1 DEF ReleaseAfter, Finish, Releases
  <2> QED BY <2>1, <2>2
<1>9. NextRow(job[p], o, row)
  BY <1>1, <1>2, <1>4, <1>6 DEF NextRow
<1>10. \A q \in Requisites : /\ Share(order[o], q) = 0 /\ Share(row, q) = 0
                             /\ Taken(order[o], row, q) = 0
  BY <1>3, <1>6 DEF Share, Taken, PaidOutcomes, ReleasedStatuses
<1>11. Counts(order[o], row)
  BY <1>7, <1>10, NothingCounted
<1>12. Updates(p, o, row, j)
  BY <1>1, <1>6, <1>7, <1>8, <1>9, <1>11 DEF Updates
<1> QED BY <1>2, <1>12

LEMMA AppealUpdates ==
    ASSUME IInv, SerialInv, NEW p \in Handlers, CommitAppeal(p)
    PROVE  \E o \in Requests, j \in Job : \E row : Updates(p, o, row, j)
<1> DEFINE o == job[p].o
           old == order[o]
<1>1. job[p] \in AppealJob /\ JobOK(job[p]) /\ job[p].op = "appeal"
  BY JobKinds DEF CommitAppeal, IInv, TypeOK, JobInv
<1>2. o \in Requests /\ Uploaded(o)
  BY <1>1 DEF AppealJob, JobOK
<1>3. /\ old \in OrderRow /\ ValidPayInTransition(old.status, "APPEAL")
      /\ job[p].snap = old
  BY <1>1, <1>2 DEF SerialInv, Fits, IInv, TypeOK
<1>4. PICK row : row = [old EXCEPT !.status = "APPEAL", !.received = 0]
  OBVIOUS
<1>5. PICK j \in Job : j = Idle
  BY DEF Job
<1>6. /\ row \in OrderRow
      /\ row.status = "APPEAL" /\ row.req = old.req
  <2>1. RowFits(o, row)
    BY <1>2, <1>4, UpdatedRowFits DEF PayInOrderStatus
  <2>2. row.status = "APPEAL" /\ row.req = old.req
    BY <1>3, <1>4 DEF OrderRow
  <2> QED BY <2>1, <2>2 DEF RowFits
<1>7. /\ order' = [order EXCEPT ![o] = row] /\ enabled' = enabled /\ Continue(p, j)
      /\ requisite' = [r \in Requisites |->
             IF r = old.req /\ old.status \in PaidOutcomes
             THEN AdjustConfirmed(requisite[r], - old.received) ELSE requisite[r]]
  BY <1>3, <1>4, <1>5 DEF WriteOrder, CommitAppeal, Finish
<1>8. NextRow(job[p], o, row) /\ Releases(job[p], o, row, j)
  BY <1>1, <1>2, <1>3, <1>5, <1>6 DEF NextRow, Releases
<1>9. old.received \in Nat
  BY <1>3, AmountsAreNatural
<1>10. ASSUME NEW q \in Requisites
       PROVE  /\ requisite'[q].confirmed =
                    AtLeastZero(requisite[q].confirmed + Share(row, q) - Share(old, q))
              /\ requisite'[q].ops = requisite[q].ops + Taken(old, row, q)
  <2>1. /\ requisite[q] \in RequisiteRow /\ requisite[q].confirmed \in Nat
        /\ requisite[q].ops \in Nat
    BY CountersAreNatural
  <2>2. Share(row, q) = 0 /\ Taken(old, row, q) = 0
    BY <1>6 DEF Share, Taken, PaidOutcomes
  <2>3. CASE q = old.req /\ old.status \in PaidOutcomes
    <3>1. requisite'[q] = AdjustConfirmed(requisite[q], - old.received)
      BY <1>7, <2>3
    <3>2. - old.received \in Int
      BY <1>9
    <3>3. requisite'[q].ops = requisite[q].ops
      BY <2>1, <3>1, <3>2, AdjustKeepsCaps
    <3>4. requisite'[q].confirmed = AtLeastZero(requisite[q].confirmed - old.received)
      <4>1. requisite'[q].confirmed = AtLeastZero(requisite[q].confirmed + (- old.received))
        BY <2>1, <3>1 DEF AdjustConfirmed, RequisiteRow
      <4> HIDE DEF old
      <4> QED BY <1>9, <2>1, <4>1
    <3>5. Share(old, q) = old.received
      BY <2>3 DEF Share
    <3> HIDE DEF old
    <3> QED BY <1>9, <2>1, <2>2, <3>3, <3>4, <3>5
  <2>4. CASE ~(q = old.req /\ old.status \in PaidOutcomes)
    <3>1. requisite'[q] = requisite[q]
      BY <1>7, <2>4
    <3>2. Share(old, q) = 0
      BY <2>4 DEF Share
    <3> HIDE DEF old
    <3> QED BY <2>1, <2>2, <3>1, <3>2 DEF AtLeastZero
  <2> QED BY <2>3, <2>4
<1>11. Counts(old, row)
  BY <1>10 DEF Counts
<1>12. Updates(p, o, row, j)
  BY <1>1, <1>6, <1>7, <1>8, <1>11 DEF Updates
<1> QED BY <1>2, <1>12

LEMMA ProviderUpdates ==
    ASSUME IInv, SerialInv, NEW p \in Handlers, CommitProvider(p)
    PROVE  \E o \in Requests, j \in Job : \E row : Updates(p, o, row, j)
<1> DEFINE o == job[p].o
           target == job[p].target
<1>1. job[p] \in ProviderJob /\ JobOK(job[p]) /\ job[p].op = "provider"
  BY JobKinds DEF CommitProvider, IInv, TypeOK, JobInv
<1>2. o \in Requests /\ order[o].provider /\ target \in {"PAID", "CANCELED"}
  BY <1>1 DEF ProviderJob, JobOK
<1>3. /\ order[o] \in OrderRow /\ ValidPayInTransition(order[o].status, target)
      /\ Uploaded(o) /\ order[o].req = None /\ order[o].amount \in PaidAmounts
  BY <1>1, <1>2 DEF SerialInv, Fits, IInv, TypeOK, RowInv, PaidAmounts
<1>4. PICK received \in PaidAmounts \cup {0} :
         received = IF target = "PAID" THEN order[o].amount ELSE order[o].received
  BY <1>3 DEF OrderRow
<1>5. PICK row : row = [order[o] EXCEPT !.status = target, !.received = received]
  OBVIOUS
<1>6. PICK j \in Job : j = Idle
  BY DEF Job
<1>7. row \in OrderRow /\ row.status = target /\ row.req = None
  <2>1. RowFits(o, row)
    BY <1>2, <1>3, <1>5, UpdatedRowFits DEF PayInOrderStatus
  <2>2. row.status = target /\ row.req = None
    BY <1>3, <1>5 DEF OrderRow
  <2> QED BY <2>1, <2>2 DEF RowFits
<1>8. /\ order' = [order EXCEPT ![o] = row] /\ enabled' = enabled /\ Continue(p, j)
      /\ UNCHANGED requisite
  BY <1>3, <1>4, <1>5, <1>6 DEF CommitProvider, WriteOrder, Finish, OrderRow
<1>9. NextRow(job[p], o, row) /\ Releases(job[p], o, row, j)
  BY <1>1, <1>2, <1>3, <1>6, <1>7 DEF NextRow, Releases
<1>10. \A q \in Requisites : /\ Share(order[o], q) = 0 /\ Share(row, q) = 0
                             /\ Taken(order[o], row, q) = 0
  <2>1. None \notin Requisites
    BY ConstantsAssumption
  <2> QED BY <1>3, <1>7, <2>1 DEF Share, Taken
<1>11. Counts(order[o], row)
  BY <1>8, <1>10, NothingCounted
<1>12. Updates(p, o, row, j)
  BY <1>1, <1>7, <1>8, <1>9, <1>11 DEF Updates
<1> QED BY <1>2, <1>12

\* Every step reads, updates one order, cancels a trader's orders, or touches
\* no order, requisite or call.
LEMMA StepKinds ==
    ASSUME IInv, SerialInv, [Next]_vars
    PROVE  \/ \E p \in Handlers, j \in Job : Reads(p, j)
           \/ \E p \in Handlers, o \in Requests, j \in Job : \E row : Updates(p, o, row, j)
           \/ \E p \in Handlers : CommitCancelAll(p)
           \/ \E t \in Traders : ActivateTrader(t)
           \/ UNCHANGED vars
<1>1. ASSUME NEW p \in Handlers, Handler(p)
      PROVE  \/ \E j \in Job : Reads(p, j)
             \/ \E o \in Requests, j \in Job : \E row : Updates(p, o, row, j)
             \/ CommitCancelAll(p)
  <2>1. CASE \/ BeginUpload(p) \/ MerchantUpdate(p) \/ ConfirmFromPaymentPage(p)
             \/ TraderCancelOrder(p) \/ TraderConfirmPaid(p) \/ AdminUpdateStatus(p)
             \/ BeginAppeal(p) \/ BeginCloseAppeal(p) \/ BeginProviderCallback(p)
    BY <2>1, StartingSteps
  <2>2. CASE \/ LockAppeal(p) \/ DeactivateTrader(p) \/ ReadOpenOrders(p)
             \/ ReadUsage(p) \/ Fail(p)
    BY <2>2, ReadingSteps
  <2>3. CASE WriteUsage(p)
    BY <2>3, WritingUsage
  <2>4. CASE AssignRequisite(p) \/ UploadElsewhere(p)
    BY <2>4, AssignUpdates, ElsewhereUpdates
  <2>5. CASE CommitStatus(p) \/ CommitPaid(p) \/ CommitAppeal(p)
    BY <2>5, StatusUpdates, PaidUpdates, AppealUpdates
  <2>6. CASE CommitReject(p) \/ CommitResolve(p) \/ CommitProvider(p)
    BY <2>6, RejectUpdates, ResolveUpdates, ProviderUpdates
  <2>7. CASE CommitCancelAll(p)
    BY <2>7
  <2> QED BY <1>1, <2>1, <2>2, <2>3, <2>4, <2>5, <2>6, <2>7 DEF Handler
<1> QED BY <1>1 DEF Next

-----------------------------------------------------------------------------
(* While the updates of an order do not overlap *)

\* No order is in the hands of two calls that will rewrite it by id.
UpdatesApart ==
    \A p, q \in Handlers : p # q => Rewrites(job[p]) \cap Rewrites(job[q]) = {}

LEMMA ReadFacts ==
    ASSUME IInv, NEW p \in Handlers, NEW j, Continue(p, j)
    PROVE  job'[p] = j /\ \A q \in Handlers \ {p} : job'[q] = job[q]
  BY DEF IInv, TypeOK, Continue

LEMMA UpdateFacts ==
    ASSUME IInv, NEW p \in Handlers, NEW o \in Requests, NEW j \in Job, NEW row,
           Updates(p, o, row, j)
    PROVE  /\ order'[o] = row
           /\ \A x \in Requests \ {o} : order'[x] = order[x]
           /\ job'[p] = j
           /\ \A q \in Handlers \ {p} : job'[q] = job[q]
  BY ReadFacts DEF IInv, TypeOK, Updates

\* The orders a trader's deactivation cancels.
LEMMA CancelFacts ==
    ASSUME IInv, NEW p \in Handlers, CommitCancelAll(p)
    PROVE  /\ job[p].op = "cancelAll"
           /\ job[p].orders \subseteq Requests
           /\ \A o \in job[p].orders : OnRequisite(o)
           /\ \A o \in Requests \ job[p].orders : order'[o] = order[o]
           /\ \A o \in job[p].orders : /\ order'[o].status = "CANCELED"
                                       /\ order'[o].req = order[o].req
           /\ job'[p] = [op |-> "release", orders |-> job[p].orders]
           /\ \A q \in Handlers \ {p} : job'[q] = job[q]
           /\ UNCHANGED <<requisite, enabled>>
<1> DEFINE S == job[p].orders
<1>1. job[p] \in CancelAllJob /\ JobOK(job[p]) /\ job[p].op = "cancelAll"
  BY JobKinds DEF CommitCancelAll, IInv, TypeOK, JobInv
<1>2. S \subseteq Requests /\ \A o \in S : OnRequisite(o)
  BY <1>1 DEF CancelAllJob, JobOK
<1>3. /\ order' = [o \in Requests |->
             IF o \in S THEN [order[o] EXCEPT !.status = "CANCELED"] ELSE order[o]]
      /\ Continue(p, [op |-> "release", orders |-> S])
      /\ UNCHANGED <<requisite, enabled>>
  BY DEF CommitCancelAll
<1>4. \A o \in S : order'[o].status = "CANCELED" /\ order'[o].req = order[o].req
  <2> TAKE o \in S
  <2>1. order[o] \in OrderRow /\ order'[o] = [order[o] EXCEPT !.status = "CANCELED"]
    BY <1>2, <1>3 DEF IInv, TypeOK
  <2> QED BY <2>1, UpdatedRow
<1>5. \A o \in Requests \ S : order'[o] = order[o]
  BY <1>3
<1> QED BY <1>1, <1>2, <1>3, <1>4, <1>5, ReadFacts

LEMMA RewritesExist ==
    ASSUME IInv, NEW q \in Handlers
    PROVE  Rewrites(job[q]) \subseteq {o \in Requests : Uploaded(o)}
<1>1. job[q] \in Job /\ JobOK(job[q])
  BY DEF IInv, TypeOK, JobInv
<1>2. CASE job[q].op \in {"status", "paid", "appeal", "closing"}
  <2>1. job[q].o \in Requests
    BY <1>1, <1>2, JobKinds DEF StatusJob, PaidJob, AppealJob, ClosingJob
  <2> QED BY <1>1, <1>2, <2>1 DEF Rewrites, JobOK
<1>3. CASE job[q].op = "provider"
  <2>1. job[q].o \in Requests
    BY <1>1, <1>3, JobKinds DEF ProviderJob
  <2> QED BY <1>1, <1>3, <2>1 DEF Rewrites, JobOK, IInv, RowInv
<1>4. CASE job[q].op = "cancelAll"
  <2>1. job[q].orders \subseteq Requests
    BY <1>1, <1>4, JobKinds DEF CancelAllJob
  <2> QED BY <1>1, <1>4, <2>1 DEF Rewrites, JobOK, OnRequisite
<1> QED BY <1>2, <1>3, <1>4 DEF Rewrites

\* Fits looks at nothing but the orders the call is going to rewrite.
LEMMA FitsKept ==
    ASSUME NEW rows, NEW after, NEW j, Fits(rows, j),
           \A x \in Rewrites(j) : after[x] = rows[x]
    PROVE  Fits(after, j)
<1>1. CASE j.op \in {"status", "paid", "appeal", "closing", "provider"}
  <2>1. after[j.o] = rows[j.o]
    BY <1>1 DEF Rewrites
  <2> QED BY <1>1, <2>1 DEF Fits
<1>2. CASE j.op = "cancelAll"
  BY <1>2 DEF Fits, Rewrites
<1> QED BY <1>1, <1>2 DEF Fits

LEMMA SerialStep ==
    ASSUME IInv, SerialInv, UpdatesApart, [Next]_vars
    PROVE  SerialInv'
<1>1. ASSUME NEW p \in Handlers, NEW j, Reads(p, j) PROVE SerialInv'
  <2>1. order' = order /\ Fits(order, j) /\ Continue(p, j)
    BY <1>1 DEF Reads
  <2>2. job'[p] = j /\ \A q \in Handlers \ {p} : job'[q] = job[q]
    BY <2>1, ReadFacts
  <2> QED BY <2>1, <2>2 DEF SerialInv
<1>2. ASSUME NEW p \in Handlers, NEW o \in Requests, NEW j \in Job, NEW row,
             Updates(p, o, row, j)
      PROVE  SerialInv'
  <2>1. /\ \A x \in Requests \ {o} : order'[x] = order[x]
        /\ job'[p] = j
        /\ \A q \in Handlers \ {p} : job'[q] = job[q]
    BY <1>2, UpdateFacts
  <2>2. ASSUME NEW q \in Handlers, q # p PROVE Fits(order', job'[q])
    <3>1. Rewrites(job[q]) \subseteq {x \in Requests : Uploaded(x)}
      BY RewritesExist
    <3>2. o \notin Rewrites(job[q])
      <4>1. CASE job[p].op = "upload"
        <5>1. ~Uploaded(o)
          BY <1>2, <4>1 DEF Updates, FirstRow, NoOrder, NewOrder, Uploaded
        <5> QED BY <3>1, <5>1
      <4>2. CASE job[p].op # "upload"
        <5>1. o \in Rewrites(job[p])
          BY <1>2, <4>2 DEF Updates, Rewrites
        <5> QED BY <2>2, <5>1 DEF UpdatesApart
      <4> QED BY <4>1, <4>2
    <3>3. \A x \in Rewrites(job[q]) : order'[x] = order[x]
      BY <2>1, <3>1, <3>2
    <3>4. Fits(order', job[q])
      BY <3>3, FitsKept DEF SerialInv
    <3> QED BY <2>1, <2>2, <3>4
  <2>3. j.op \in {"idle", "release"}
    BY <1>2 DEF Updates, Releases, Idle
  <2>4. Fits(order', j)
    BY <2>3 DEF Fits
  <2> QED BY <2>1, <2>2, <2>4 DEF SerialInv
<1>3. ASSUME NEW p \in Handlers, CommitCancelAll(p) PROVE SerialInv'
  <2>1. ASSUME NEW q \in Handlers, q # p PROVE Fits(order', job'[q])
    <3>1. Rewrites(job[q]) \subseteq Requests
      BY RewritesExist
    <3>2. Rewrites(job[p]) = job[p].orders
      BY <1>3, CancelFacts DEF Rewrites
    <3>3. Rewrites(job[q]) \cap job[p].orders = {}
      BY <2>1, <3>2 DEF UpdatesApart
    <3>4. \A x \in Rewrites(job[q]) : order'[x] = order[x]
      BY <1>3, <3>1, <3>3, CancelFacts
    <3>5. Fits(order', job[q])
      BY <3>4, FitsKept DEF SerialInv
    <3> QED BY <1>3, <2>1, <3>5, CancelFacts
  <2>2. job'[p] = [op |-> "release", orders |-> job[p].orders]
    BY <1>3, CancelFacts
  <2>3. Fits(order', job'[p])
    BY <2>2 DEF Fits
  <2> QED BY <2>1, <2>3 DEF SerialInv
<1>4. ASSUME NEW t \in Traders, ActivateTrader(t) PROVE SerialInv'
  BY <1>4 DEF ActivateTrader, SerialInv
<1>5. CASE UNCHANGED vars
  BY <1>5 DEF vars, SerialInv
<1> QED BY <1>1, <1>2, <1>3, <1>4, <1>5, StepKinds

\* As long as the updates of an order do not overlap, every call finds it as it
\* has read it.
THEOREM SerialInvariance == Spec /\ []UpdatesApart => []SerialInv
<1>1. Init => SerialInv
  BY DEF Init, SerialInv, Fits, Idle
<1>2. IInv /\ SerialInv /\ UpdatesApart /\ [Next]_vars => SerialInv'
  BY SerialStep
<1> QED BY <1>1, <1>2, Invariance, PTL DEF Spec

\* While updates do not overlap, every status change is an edge of the graph:
\* only a race takes an order off it.
THEOREM GraphFollowed == Spec /\ []UpdatesApart => StatusFollowsGraph
<1>1. ASSUME IInv, SerialInv, [Next]_vars PROVE FollowsGraph
  <2>1. ASSUME UNCHANGED order PROVE FollowsGraph
    BY <2>1 DEF FollowsGraph
  <2>2. ASSUME NEW p \in Handlers, NEW o \in Requests, NEW j \in Job, NEW row,
               Updates(p, o, row, j)
        PROVE  FollowsGraph
    <3>1. order'[o] = row /\ \A x \in Requests \ {o} : order'[x] = order[x]
      BY <1>1, <2>2, UpdateFacts
    <3>2. Uploaded(o) => ValidPayInTransition(order[o].status, row.status)
      BY <2>2 DEF Updates, FirstRow, NextRow, NoOrder, NewOrder, Uploaded
    <3> QED BY <3>1, <3>2 DEF FollowsGraph
  <2>3. ASSUME NEW p \in Handlers, CommitCancelAll(p) PROVE FollowsGraph
    <3>1. \A o \in job[p].orders : order[o].status \in PreSettlement
      BY <1>1, <2>3, CancelFacts DEF SerialInv, Fits
    <3>2. \A s \in PreSettlement : ValidPayInTransition(s, "CANCELED")
      BY DEF PreSettlement, ValidPayInTransition, PayinTransitions, PayInOrderStatus,
             PaidOutcomes
    <3>3. /\ \A o \in Requests \ job[p].orders : order'[o] = order[o]
          /\ \A o \in job[p].orders : order'[o].status = "CANCELED"
      BY <1>1, <2>3, CancelFacts
    <3> QED BY <3>1, <3>2, <3>3 DEF FollowsGraph
  <2>4. (\E t \in Traders : ActivateTrader(t)) \/ UNCHANGED vars => UNCHANGED order
    BY DEF ActivateTrader, vars
  <2> QED BY <1>1, <2>1, <2>2, <2>3, <2>4, StepKinds DEF Reads
<1>2. IInv /\ SerialInv /\ [Next]_vars => [FollowsGraph]_vars
  BY <1>1
<1> QED BY <1>2, Invariance, SerialInvariance, PTL DEF Spec, StatusFollowsGraph

\* A sum of shares follows one share that changes; the clamp never bites.
LEMMA SumFollows ==
    ASSUME NEW f, NEW g, NEW o \in Requests,
           \A x \in Requests : f[x] \in Nat /\ g[x] \in Nat,
           \A x \in Requests \ {o} : g[x] = f[x]
    PROVE  SumFunctionOnSet(g, Requests) =
               AtLeastZero(SumFunctionOnSet(f, Requests) + g[o] - f[o])
<1>1. IsFiniteSet(Requests)
  BY ConstantsAssumption
<1>2. /\ SumFunctionOnSet(f, Requests) \in Nat
      /\ SumFunctionOnSet(g, Requests) \in Nat
  BY <1>1, SumIsNatural
<1>3. f[o] \in Int /\ g[o] \in Int /\ \A x \in Requests : f[x] \in Int
  OBVIOUS
<1>4. SumFunctionOnSet(g, Requests) = SumFunctionOnSet(f, Requests) - f[o] + g[o]
  BY <1>1, <1>3, SumUpdate
<1> DEFINE a == SumFunctionOnSet(f, Requests)
           b == SumFunctionOnSet(g, Requests)
           u == f[o]
           v == g[o]
<1>5. a \in Nat /\ b \in Nat /\ u \in Int /\ v \in Int /\ b = a - u + v
  BY <1>2, <1>3, <1>4
<1> HIDE DEF a, b, u, v
<1>6. b = AtLeastZero(a + v - u)
  BY <1>5 DEF AtLeastZero
<1> QED BY <1>6 DEF a, b, u, v

\* The shares of a requisite are those of its orders' rows.
LEMMA SharesOfRows ==
    ASSUME NEW r
    PROVE  /\ \A x \in Requests : PaidShares(r)[x] = Share(order[x], r)
           /\ \A x \in Requests : PaidShares(r)'[x] = Share(order'[x], r)
  BY DEF PaidShares, Share, IsPaid

LEMMA SharesAreNatural ==
    ASSUME IInv, NEW r, NEW x \in Requests
    PROVE  Share(order[x], r) \in Nat
<1>1. order[x] \in OrderRow
  BY DEF IInv, TypeOK
<1>2. order[x].received \in Nat
  BY <1>1, AmountsAreNatural
<1> QED BY <1>2 DEF Share

LEMMA ConfirmedStep ==
    ASSUME IInv, SerialInv, ConfirmedMatchesPaid, [Next]_vars
    PROVE  ConfirmedMatchesPaid'
<1> SUFFICES ASSUME NEW r \in Requisites
             PROVE  requisite'[r].confirmed = ReceivedOn(r)'
  BY DEF ConfirmedMatchesPaid
<1> DEFINE f == PaidShares(r)
           g == PaidShares(r)'
<1>1. /\ requisite[r].confirmed = SumFunctionOnSet(f, Requests)
      /\ ReceivedOn(r)' = SumFunctionOnSet(g, Requests)
  BY DEF ConfirmedMatchesPaid, ReceivedOn
<1>2. /\ \A x \in Requests : f[x] = Share(order[x], r) /\ f[x] \in Nat
      /\ \A x \in Requests : g[x] = Share(order'[x], r)
  BY SharesOfRows, SharesAreNatural
<1>3. IsFiniteSet(Requests)
  BY ConstantsAssumption
<1> HIDE DEF f, g
<1>4. ASSUME \A x \in Requests : g[x] = f[x], requisite'[r].confirmed = requisite[r].confirmed
      PROVE  requisite'[r].confirmed = ReceivedOn(r)'
  BY <1>1, <1>3, <1>4, SumSame
<1>5. ASSUME NEW p \in Handlers, NEW j, Reads(p, j)
      PROVE  requisite'[r].confirmed = ReceivedOn(r)'
  BY <1>2, <1>4, <1>5 DEF Reads
<1>6. ASSUME NEW p \in Handlers, NEW o \in Requests, NEW j \in Job, NEW row,
             Updates(p, o, row, j)
      PROVE  requisite'[r].confirmed = ReceivedOn(r)'
  <2>1. /\ order'[o] = row /\ \A x \in Requests \ {o} : order'[x] = order[x]
        /\ row \in OrderRow
    <3>1. order'[o] = row /\ \A x \in Requests \ {o} : order'[x] = order[x]
      BY <1>6, UpdateFacts
    <3>2. row \in OrderRow
      BY <1>6 DEF Updates
    <3> QED BY <3>1, <3>2
  <2>2. requisite'[r].confirmed =
            AtLeastZero(requisite[r].confirmed + Share(row, r) - Share(order[o], r))
    BY <1>6 DEF Updates, Counts
  <2>3. Share(row, r) \in Nat
    <3>1. row.received \in Nat
      BY <2>1, AmountsAreNatural
    <3> QED BY <3>1 DEF Share
  <2>4. /\ \A x \in Requests : g[x] \in Nat
        /\ \A x \in Requests \ {o} : g[x] = f[x]
        /\ g[o] = Share(row, r) /\ f[o] = Share(order[o], r)
    BY <1>2, <2>1, <2>3
  <2>5. SumFunctionOnSet(g, Requests) =
            AtLeastZero(SumFunctionOnSet(f, Requests) + g[o] - f[o])
    BY <1>2, <2>4, SumFollows
  <2> QED BY <1>1, <2>2, <2>4, <2>5
<1>7. ASSUME NEW p \in Handlers, CommitCancelAll(p)
      PROVE  requisite'[r].confirmed = ReceivedOn(r)'
  <2>1. /\ \A o \in job[p].orders : order'[o].status = "CANCELED"
        /\ \A o \in Requests \ job[p].orders : order'[o] = order[o]
        /\ job[p].op = "cancelAll" /\ requisite' = requisite
    BY <1>7, CancelFacts
  <2>2. \A o \in job[p].orders : order[o].status \in PreSettlement
    BY <2>1 DEF SerialInv, Fits
  <2>3. \A o \in Requests : Share(order'[o], r) = Share(order[o], r)
    BY <2>1, <2>2 DEF Share, PaidOutcomes, PreSettlement
  <2> QED BY <1>2, <1>4, <2>1, <2>3
<1>8. ASSUME \/ \E t \in Traders : ActivateTrader(t)
             \/ UNCHANGED vars
      PROVE  requisite'[r].confirmed = ReceivedOn(r)'
  <2>1. order' = order /\ requisite' = requisite
    BY <1>8 DEF ActivateTrader, vars
  <2> QED BY <1>2, <1>4, <2>1
<1> QED BY <1>5, <1>6, <1>7, <1>8, StepKinds

\* While updates do not overlap, the confirmed volume of a requisite is the sum
\* of what its paid orders received, through disputes, corrections and
\* recoveries; the clamp at zero of the UPDATE never bites.
THEOREM ConfirmedIsSum == Spec /\ []UpdatesApart => []ConfirmedMatchesPaid
<1>1. Init => ConfirmedMatchesPaid
  <2> SUFFICES ASSUME Init, NEW r \in Requisites
               PROVE  requisite[r].confirmed = ReceivedOn(r)
    BY DEF ConfirmedMatchesPaid
  <2> DEFINE f == PaidShares(r)
  <2>1. requisite[r].confirmed = 0
    BY DEF Init
  <2>2. \A o \in Requests : f[o] = 0
    <3>1. NoOrder.status = "NONE"
      BY DEF NoOrder, NewOrder
    <3>2. \A o \in Requests : Share(order[o], r) = 0
      BY <3>1 DEF Init, Share, PaidOutcomes
    <3> QED BY <3>2, SharesOfRows
  <2>3. SumFunctionOnSet(f, Requests) = 0
    <3>1. IsFiniteSet(Requests) /\ 0 \in Nat
      BY ConstantsAssumption
    <3>2. \A o \in Requests : f[o] \in Int /\ f[o] >= 0 /\ f[o] <= 0
      BY <2>2
    <3> DEFINE n == SumFunctionOnSet(f, Requests)
               c == Cardinality(Requests)
    <3> HIDE DEF f
    <3>3. n \in Nat /\ n <= 0 * c
      BY <3>1, <3>2, SumBounds
    <3>4. c \in Nat
      BY <3>1, FS_CardinalityType
    <3> HIDE DEF n, c
    <3>5. n = 0
      BY <3>3, <3>4
    <3> QED BY <3>5 DEF n
  <2> QED BY <2>1, <2>3 DEF ReceivedOn
<1>2. IInv /\ SerialInv /\ ConfirmedMatchesPaid /\ [Next]_vars => ConfirmedMatchesPaid'
  BY ConfirmedStep
<1> QED BY <1>1, <1>2, Invariance, SerialInvariance, PTL DEF Spec

-----------------------------------------------------------------------------
(* While no two calls decide the same appeal *)

Decides(j) == j.op \in {"close", "closing"}

\* No appeal is in the hands of two calls that are going to decide it.
DecisionsApart ==
    \A p, q \in Handlers :
        p # q /\ Decides(job[p]) /\ Decides(job[q]) => job[p].a # job[q].a

\* Whoever is going to decide an appeal has found it open, and it still is.
DecidesOpen == \A p \in Handlers : Decides(job[p]) => IsOpen(job[p].a)

\* A step that decides an appeal is the last of a call that was to decide it;
\* the other steps decide none and only file new ones.
LEMMA DecidingSteps ==
    ASSUME IInv, [Next]_vars
    PROVE  \/ \E p \in Handlers :
                 /\ Decides(job[p]) /\ job[p].a \in Appeals
                 /\ \A a \in Appeals \ {job[p].a} : appeal'[a] = appeal[a]
                 /\ ~Decides(job'[p])
                 /\ \A q \in Handlers \ {p} : job'[q] = job[q]
           \/ /\ \A a \in Appeals : appeal[a].status = "NONE" \/ appeal'[a] = appeal[a]
              /\ \A q \in Handlers :
                    Decides(job'[q]) =>
                        \/ Decides(job[q]) /\ job'[q].a = job[q].a
                        \/ job'[q].a \in Appeals /\ IsOpen(job'[q].a)
<1> DEFINE Decided(p) ==
               /\ Decides(job[p]) /\ job[p].a \in Appeals
               /\ \A a \in Appeals \ {job[p].a} : appeal'[a] = appeal[a]
               /\ ~Decides(job'[p])
               /\ \A q \in Handlers \ {p} : job'[q] = job[q]
           Others ==
               /\ \A a \in Appeals : appeal[a].status = "NONE" \/ appeal'[a] = appeal[a]
               /\ \A q \in Handlers :
                     Decides(job'[q]) =>
                         \/ Decides(job[q]) /\ job'[q].a = job[q].a
                         \/ job'[q].a \in Appeals /\ IsOpen(job'[q].a)
<1>0. job \in [Handlers -> Job]
  BY DEF IInv, TypeOK
<1>1. ASSUME NEW p \in Handlers, ~Decides(job'[p]),
             \A q \in Handlers \ {p} : job'[q] = job[q],
             \A a \in Appeals : appeal[a].status = "NONE" \/ appeal'[a] = appeal[a]
      PROVE  Others
  BY <1>1
<1>2. ASSUME NEW p \in Handlers, CommitReject(p) \/ CommitResolve(p) PROVE Decided(p)
  <2>1. job[p] \in ClosingJob
    BY <1>2, JobKinds DEF CommitReject, CommitResolve, IInv, TypeOK
  <2>2. Decides(job[p]) /\ job[p].a \in Appeals
    BY <2>1 DEF ClosingJob, Decides
  <2>3. \A a \in Appeals \ {job[p].a} : appeal'[a] = appeal[a]
    <3>1. PICK decision, actual, paid : CloseAppealRow(job[p].a, decision, actual, paid)
      BY <1>2 DEF CommitReject, CommitResolve
    <3> QED BY <2>2, <3>1 DEF CloseAppealRow, IInv, TypeOK
  <2>4. /\ job'[p].op \in {"idle", "release"}
        /\ \A q \in Handlers \ {p} : job'[q] = job[q]
    <3>1. CASE CommitReject(p)
      <4>1. ReleaseAfter(p, job[p].o, TRUE)
        BY <3>1 DEF CommitReject
      <4> QED BY <1>0, <4>1 DEF ReleaseAfter, Finish, Continue, Idle
    <3>2. CASE CommitResolve(p)
      BY <1>0, <3>2 DEF CommitResolve, Finish, Continue, Idle
    <3> QED BY <1>2, <3>1, <3>2
  <2>5. ~Decides(job'[p])
    BY <2>4 DEF Decides
  <2> QED BY <2>2, <2>3, <2>4, <2>5
<1>3. ASSUME NEW p \in Handlers,
             CommitAppeal(p)
      PROVE  Others
  <2>1. PICK a \in Appeals : /\ appeal[a].status = "NONE"
                             /\ appeal' = [appeal EXCEPT ![a] =
                                    [order |-> job[p].o, status |-> "OPEN",
                                     paid |-> job[p].paid]]
    BY <1>3 DEF CommitAppeal
  <2>2. \A b \in Appeals : appeal[b].status = "NONE" \/ appeal'[b] = appeal[b]
    BY <2>1 DEF IInv, TypeOK
  <2>3. ~Decides(job'[p]) /\ \A q \in Handlers \ {p} : job'[q] = job[q]
    BY <1>0, <1>3 DEF CommitAppeal, Finish, Continue, Decides, Idle
  <2> QED BY <1>1, <2>2, <2>3
<1>4. ASSUME NEW p \in Handlers, BeginCloseAppeal(p) PROVE Others
  <2>1. PICK a \in Appeals, decision \in {"RESOLVED", "REJECTED"},
             paid \in ReportedAmounts, actual \in BOOLEAN :
           /\ IsOpen(a)
           /\ Begin(p, "close", [op |-> "close", a |-> a, decision |-> decision,
                                 paid |-> paid, actual |-> actual])
    BY <1>4 DEF BeginCloseAppeal
  <2>2. /\ Continue(p, [op |-> "close", a |-> a, decision |-> decision,
                        paid |-> paid, actual |-> actual])
        /\ appeal' = appeal
    BY <2>1 DEF Begin, Continue, tables
  <2>3. job'[p].a = a /\ \A q \in Handlers \ {p} : job'[q] = job[q]
    BY <2>2, ReadFacts
  <2> QED BY <2>1, <2>2, <2>3
<1>5. ASSUME NEW p \in Handlers, LockAppeal(p) PROVE Others
  <2>1. Decides(job[p]) /\ appeal' = appeal
    BY <1>5 DEF LockAppeal, Decides, tables
  <2>2. PICK j : Continue(p, j) /\ j.a = job[p].a
    BY <1>5 DEF LockAppeal
  <2>3. job'[p] = j /\ \A q \in Handlers \ {p} : job'[q] = job[q]
    BY <2>2, ReadFacts
  <2> QED BY <2>1, <2>2, <2>3
<1>6. ASSUME NEW p \in Handlers,
             \/ BeginUpload(p) \/ MerchantUpdate(p) \/ ConfirmFromPaymentPage(p)
             \/ TraderCancelOrder(p) \/ TraderConfirmPaid(p) \/ AdminUpdateStatus(p)
             \/ BeginAppeal(p) \/ BeginProviderCallback(p)
      PROVE  Others
  <2>1. /\ job'[p].op \in {"upload", "status", "paid", "appeal", "provider"}
        /\ \A q \in Handlers \ {p} : job'[q] = job[q]
    <3>1. CASE BeginUpload(p) \/ BeginAppeal(p) \/ BeginProviderCallback(p)
      BY <1>0, <3>1 DEF BeginUpload, BeginAppeal, BeginProviderCallback, Begin, Continue
    <3>2. CASE MerchantUpdate(p) \/ ConfirmFromPaymentPage(p) \/ TraderCancelOrder(p)
      BY <1>0, <3>2 DEF MerchantUpdate, ConfirmFromPaymentPage, TraderCancelOrder,
                  BeginStatus, Begin, Continue
    <3>3. CASE TraderConfirmPaid(p) \/ AdminUpdateStatus(p)
      BY <1>0, <3>3 DEF TraderConfirmPaid, AdminUpdateStatus, BeginPaid, Begin, Continue
    <3> QED BY <1>6, <3>1, <3>2, <3>3
  <2>2. appeal' = appeal
    BY <1>6 DEF BeginUpload, MerchantUpdate, ConfirmFromPaymentPage, TraderCancelOrder,
                BeginStatus, TraderConfirmPaid, AdminUpdateStatus, BeginPaid,
                BeginAppeal, BeginProviderCallback, Begin, tables
  <2>3. ~Decides(job'[p])
    BY <2>1 DEF Decides
  <2> QED BY <1>1, <2>1, <2>2, <2>3
<1>7. ASSUME NEW p \in Handlers,
             \/ AssignRequisite(p) \/ UploadElsewhere(p) \/ CommitStatus(p)
             \/ CommitPaid(p) \/ CommitProvider(p) \/ CommitCancelAll(p)
             \/ DeactivateTrader(p) \/ ReadOpenOrders(p) \/ ReadUsage(p)
             \/ WriteUsage(p) \/ Fail(p)
      PROVE  Others
  <2>1. /\ job'[p].op \in {"idle", "release", "releasing", "deactivate", "cancelAll"}
        /\ \A q \in Handlers \ {p} : job'[q] = job[q]
    <3>1. CASE \/ AssignRequisite(p) \/ UploadElsewhere(p) \/ CommitPaid(p)
               \/ CommitProvider(p) \/ Fail(p)
      <4>1. Finish(p)
        BY <3>1 DEF AssignRequisite, UploadElsewhere, CommitPaid, CommitProvider, Fail
      <4> QED BY <1>0, <4>1 DEF Finish, Continue, Idle
    <3>2. CASE CommitStatus(p)
      <4>1. ReleaseAfter(p, job[p].o, job[p].target = "CANCELED")
        BY <3>2 DEF CommitStatus
      <4> QED BY <1>0, <4>1 DEF ReleaseAfter, Finish, Continue, Idle
    <3>4. CASE CommitCancelAll(p)
      <4>1. Continue(p, [op |-> "release", orders |-> job[p].orders])
        BY <3>4 DEF CommitCancelAll
      <4> QED BY <1>0, <4>1 DEF Continue
    <3>5. CASE DeactivateTrader(p)
      <4>1. PICK t \in Traders : Continue(p, [op |-> "deactivate", t |-> t])
        BY <3>5 DEF DeactivateTrader
      <4> QED BY <1>0, <4>1 DEF Continue
    <3>3. CASE ReadOpenOrders(p) \/ ReadUsage(p) \/ WriteUsage(p)
      BY <1>0, <3>3 DEF ReadOpenOrders, ReadUsage, WriteUsage, Finish, Continue, Idle
    <3> QED BY <1>7, <3>1, <3>2, <3>3, <3>4, <3>5
  <2>2. appeal' = appeal
    BY <1>7 DEF AssignRequisite, UploadElsewhere, CommitStatus, CommitPaid,
                CommitProvider, CommitCancelAll, DeactivateTrader, ReadOpenOrders,
                ReadUsage, WriteUsage, Fail, tables
  <2>3. ~Decides(job'[p])
    BY <2>1 DEF Decides
  <2> QED BY <1>1, <2>1, <2>2, <2>3
<1>8. ASSUME \/ \E t \in Traders : ActivateTrader(t)
             \/ UNCHANGED vars
      PROVE  Others
  <2>1. appeal' = appeal /\ job' = job
    BY <1>8 DEF ActivateTrader, vars
  <2> QED BY <2>1
<1> HIDE DEF Decided, Others
<1>9. (\E p \in Handlers : Decided(p)) \/ Others
  BY <1>2, <1>3, <1>4, <1>5, <1>6, <1>7, <1>8 DEF Next, Handler
<1> QED BY <1>9 DEF Decided, Others

\* While DecisionsApart holds, an appeal in the hands of a call stays open.
LEMMA DecidesOpenStep ==
    ASSUME IInv, DecidesOpen, DecisionsApart, [Next]_vars
    PROVE  DecidesOpen'
<1>1. ASSUME NEW p \in Handlers,
             Decides(job[p]), job[p].a \in Appeals,
             \A a \in Appeals \ {job[p].a} : appeal'[a] = appeal[a],
             ~Decides(job'[p]),
             \A q \in Handlers \ {p} : job'[q] = job[q]
      PROVE  DecidesOpen'
  <2> SUFFICES ASSUME NEW q \in Handlers, Decides(job'[q])
               PROVE  appeal'[job'[q].a].status = "OPEN"
    BY DEF DecidesOpen, IsOpen, Decides
  <2>1. q # p /\ job'[q] = job[q]
    BY <1>1
  <2>2. Decides(job[q]) /\ appeal[job[q].a].status = "OPEN"
    BY <2>1 DEF DecidesOpen, IsOpen
  <2>3. job[q].a # job[p].a
    BY <1>1, <2>1, <2>2 DEF DecisionsApart
  <2>4. job[q].a \in Appeals
    <3>1. job[q] \in CloseJob \cup ClosingJob
      BY <2>2, JobKinds DEF Decides, IInv, TypeOK
    <3> QED BY <3>1 DEF CloseJob, ClosingJob
  <2> QED BY <1>1, <2>1, <2>2, <2>3, <2>4
<1>2. ASSUME \A a \in Appeals : appeal[a].status = "NONE" \/ appeal'[a] = appeal[a],
             \A q \in Handlers :
                 Decides(job'[q]) =>
                     \/ Decides(job[q]) /\ job'[q].a = job[q].a
                     \/ job'[q].a \in Appeals /\ IsOpen(job'[q].a)
      PROVE  DecidesOpen'
  <2> SUFFICES ASSUME NEW q \in Handlers, Decides(job'[q])
               PROVE  appeal'[job'[q].a].status = "OPEN"
    BY DEF DecidesOpen, IsOpen, Decides
  <2>1. appeal[job'[q].a].status = "OPEN" /\ job'[q].a \in Appeals
    <3>1. CASE Decides(job[q]) /\ job'[q].a = job[q].a
      <4>1. job[q] \in CloseJob \cup ClosingJob
        BY <3>1, JobKinds DEF Decides, IInv, TypeOK
      <4>2. job[q].a \in Appeals
        BY <4>1 DEF CloseJob, ClosingJob
      <4> QED BY <3>1, <4>2 DEF DecidesOpen, IsOpen
    <3> QED BY <1>2, <3>1 DEF IsOpen
  <2> QED BY <1>2, <2>1
<1> QED BY <1>1, <1>2, DecidingSteps

\* As long as no two calls are deciding the same appeal, a decided appeal keeps
\* its decision (closeAppealInternal).  The code asks for more than it enforces:
\* the status is read before the transaction, and the update in it does not
\* repeat the condition, so that a second decision, should it overlap, is stopped
\* only by the order that is no longer in APPEAL.
THEOREM DecisionsStand == Spec /\ []DecisionsApart => DecisionIsFinal
<1>1. Init => DecidesOpen
  BY DEF Init, DecidesOpen, Decides, Idle
<1>2. IInv /\ DecidesOpen /\ DecisionsApart /\ [Next]_vars => DecidesOpen'
  BY DecidesOpenStep
<1>3. IInv /\ DecidesOpen /\ [Next]_vars => [KeepsDecision]_vars
  <2> SUFFICES ASSUME IInv, DecidesOpen, [Next]_vars, NEW a \in Appeals,
                      appeal[a].status \in {"RESOLVED", "REJECTED"}
               PROVE  appeal'[a].status = appeal[a].status
    BY DEF KeepsDecision
  <2>1. ASSUME NEW p \in Handlers, Decides(job[p]),
               \A b \in Appeals \ {job[p].a} : appeal'[b] = appeal[b]
        PROVE  appeal'[a].status = appeal[a].status
    <3>1. a # job[p].a
      BY <2>1 DEF DecidesOpen, IsOpen
    <3> QED BY <2>1, <3>1
  <2>2. ASSUME appeal[a].status = "NONE" \/ appeal'[a] = appeal[a]
        PROVE  appeal'[a].status = appeal[a].status
    BY <2>2
  <2> QED BY <2>1, <2>2, DecidingSteps
<1> QED BY <1>1, <1>2, <1>3, Invariance, PTL DEF Spec, DecisionIsFinal

-----------------------------------------------------------------------------
(* While releases do not overlap with other writes of their requisite *)

\* Nobody disputes or overrides an order, and no process dies in the middle of
\* a call: an appeal does not give a released slot back to its order, and an
\* override cancels without releasing.
Undisputed == MayFail = FALSE /\ Operations \cap {"admin", "appeal", "close"} = {}

\* What a release has read is what the requisite still says.
SeenIsCurrent ==
    \A p \in Handlers :
        job[p].op = "releasing"
            => job[p].seen.ops = requisite[order[job[p].o].req].ops

\* The orders whose slot a call is going to release.
Frees(j) ==
    CASE j.op = "release" -> j.orders
      [] j.op = "releasing" -> j.orders \cup {j.o}
      [] OTHER -> {}

\* What is released was canceled before, whatever was paid since, and once.
FreeOK(rows, j) ==
    /\ j.op \notin {"appeal", "close", "closing"}
    /\ j.op = "paid" => j.target \in PaidOutcomes
    /\ j.op = "releasing" => j.o \notin j.orders
    /\ \A o \in Frees(j) : rows[o].status \in {"CANCELED"} \cup PaidOutcomes

FreesInv ==
    /\ \A p \in Handlers : FreeOK(order, job[p])
    /\ \A p, q \in Handlers : p # q => Frees(job[p]) \cap Frees(job[q]) = {}

LEMMA FreesExist ==
    ASSUME IInv, NEW p \in Handlers
    PROVE  Frees(job[p]) \subseteq {o \in Requests : OnRequisite(o)}
<1>1. job[p] \in Job /\ JobOK(job[p])
  BY DEF IInv, TypeOK, JobInv
<1>2. CASE job[p].op = "release"
  <2>1. job[p].orders \subseteq Requests
    BY <1>1, <1>2, JobKinds DEF ReleaseJob
  <2> QED BY <1>1, <1>2, <2>1 DEF Frees, JobOK
<1>3. CASE job[p].op = "releasing"
  <2>1. job[p].orders \subseteq Requests /\ job[p].o \in Requests
    BY <1>1, <1>3, JobKinds DEF ReleasingJob
  <2> QED BY <1>1, <1>3, <2>1 DEF Frees, JobOK
<1> QED BY <1>2, <1>3 DEF Frees

\* A call in progress that frees nothing and is not about a dispute is fine.
LEMMA FreesNothing ==
    ASSUME NEW rows, NEW j,
           j.op \in {"idle", "upload", "status", "provider", "deactivate", "cancelAll"}
    PROVE  Frees(j) = {} /\ FreeOK(rows, j)
  BY DEF Frees, FreeOK

\* A step that changes no order frees one slot, writing its requisite, or none.
LEMMA ReadFrees ==
    ASSUME IInv, FreesInv, Undisputed, NEW p \in Handlers, NEW j, Reads(p, j)
    PROVE  /\ FreeOK(order, j)
           /\ \/ Frees(j) = Frees(job[p]) /\ requisite' = requisite
              \/ Frees(j) = Frees(job[p]) \ {job[p].o} /\ WriteUsage(p)
<1>1. /\ job'[p] = j /\ Continue(p, j)
      /\ FreeOK(order, job[p])
      /\ job[p] \in Job /\ JobOK(job[p])
  BY ReadFacts DEF Reads, FreesInv, IInv, TypeOK, JobInv
<1>2. CASE Starts(p, j)
  <2>1. Frees(job[p]) = {} /\ requisite' = requisite
    BY <1>2 DEF Starts, Frees, Idle, tables
  <2>2. CASE j.op \in {"upload", "status", "provider"}
    BY <2>1, <2>2, FreesNothing
  <2>3. CASE j.op = "paid"
    <3>1. j.target \in PaidOutcomes
      BY <1>2, <2>3 DEF Starts, Undisputed
    <3> QED BY <2>1, <2>3, <3>1 DEF Frees, FreeOK
  <2>4. j.op \notin {"appeal", "close"}
    BY <1>2 DEF Starts, Undisputed
  <2> QED BY <1>2, <2>2, <2>3, <2>4 DEF Starts
<1>3. CASE LockAppeal(p)
  BY <1>1, <1>3 DEF LockAppeal, FreeOK
<1>4. CASE DeactivateTrader(p)
  <2>1. PICK t \in Traders : Continue(p, [op |-> "deactivate", t |-> t])
    BY <1>4 DEF DeactivateTrader
  <2>2. job[p] = Idle /\ requisite' = requisite
    BY <1>4 DEF DeactivateTrader
  <2>3. j = [op |-> "deactivate", t |-> t]
    BY <1>1, <2>1, ReadFacts
  <2>4. Frees(job[p]) = {}
    BY <2>2, FreesNothing DEF Idle
  <2> QED BY <2>2, <2>3, <2>4, FreesNothing
<1>5. CASE ReadOpenOrders(p)
  <2>1. /\ job[p].op = "deactivate" /\ requisite' = requisite
        /\ \/ Finish(p)
           \/ Continue(p, [op |-> "cancelAll", orders |-> OpenOrdersOf(job[p].t)])
    BY <1>5 DEF ReadOpenOrders, tables
  <2>2. j.op \in {"idle", "cancelAll"}
    BY <1>1, <2>1, ReadFacts DEF Finish, Idle
  <2> QED BY <2>1, <2>2, FreesNothing
<1>6. CASE ReadUsage(p)
  <2>1. job[p].op = "release" /\ requisite' = requisite
    BY <1>6 DEF ReadUsage, tables
  <2>2. PICK o \in job[p].orders :
           Continue(p, [op |-> "releasing", o |-> o, orders |-> job[p].orders \ {o},
                        seen |-> [ops |-> requisite[order[o].req].ops,
                                  amount |-> requisite[order[o].req].amount]])
    BY <1>6 DEF ReadUsage
  <2>3. j.op = "releasing" /\ j.o = o /\ j.orders = job[p].orders \ {o}
    BY <1>1, <2>2, ReadFacts
  <2>4. Frees(j) = Frees(job[p])
    BY <2>1, <2>2, <2>3 DEF Frees
  <2>5. FreeOK(order, j)
    BY <1>1, <2>3, <2>4 DEF FreeOK
  <2> QED BY <2>1, <2>4, <2>5
<1>7. CASE WriteUsage(p)
  <2>1. /\ job[p].op = "releasing"
        /\ Continue(p, IF job[p].orders = {} THEN Idle
                       ELSE [op |-> "release", orders |-> job[p].orders])
    BY <1>7, ReleasedRow DEF WriteUsage
  <2>2. j = IF job[p].orders = {} THEN Idle
            ELSE [op |-> "release", orders |-> job[p].orders]
    BY <1>1, <2>1, ReadFacts
  <2>3. Frees(j) = job[p].orders /\ Frees(job[p]) = job[p].orders \cup {job[p].o}
    BY <2>1, <2>2 DEF Frees, Idle
  <2>4. job[p].o \notin job[p].orders
    BY <1>1, <2>1 DEF FreeOK
  <2>5. FreeOK(order, j)
    BY <1>1, <2>2, <2>3 DEF FreeOK, Idle
  <2> QED BY <1>7, <2>3, <2>4, <2>5
<1>8. CASE Fail(p)
  <2>1. job[p].op \in Refusable /\ Finish(p) /\ requisite' = requisite
    BY <1>8 DEF Fail, Undisputed, tables
  <2>2. j = Idle
    BY <1>1, <2>1, ReadFacts DEF Finish
  <2>3. Frees(job[p]) = {}
    BY <2>1 DEF Refusable, Frees
  <2> QED BY <2>1, <2>2, <2>3, FreesNothing DEF Idle
<1> QED BY <1>2, <1>3, <1>4, <1>5, <1>6, <1>7, <1>8 DEF Reads

\* The updates of an order on a requisite that nobody disputes.
LEMMA UndisputedUpdate ==
    ASSUME IInv, FreesInv, NEW p \in Handlers, NEW o \in Requests, NEW j \in Job,
           NEW row, Updates(p, o, row, j), job[p].op # "upload", row.req # None
    PROVE  /\ Uploaded(o) /\ row.req = order[o].req
           /\ row.status \in {"VERIFIED", "CANCELED"} \cup PaidOutcomes
           /\ order[o].status \notin PaidOutcomes
           /\ order[o].status = "CANCELED" => row.status \in PaidOutcomes
           /\ order[o].status # "CANCELED" => order[o].status \notin ReleasedStatuses
           /\ row.status = "CANCELED" => j = [op |-> "release", orders |-> {o}]
           /\ row.status # "CANCELED" => j = Idle
<1>1. /\ job[p].op \in {"status", "paid", "appeal", "closing", "provider"}
      /\ NextRow(job[p], o, row) /\ Releases(job[p], o, row, j)
  BY DEF Updates
<1>2. job[p].op \in {"status", "paid"} /\ row.status = job[p].target
  <2>1. FreeOK(order, job[p])
    BY DEF FreesInv
  <2> QED BY <1>1, <2>1 DEF FreeOK, NextRow
<1>3. row.status \in {"VERIFIED", "CANCELED"} \cup PaidOutcomes
  <2>1. job[p].op = "paid" => job[p].target \in PaidOutcomes
    BY DEF FreesInv, FreeOK
  <2>2. job[p].op = "status" => job[p].target \in {"VERIFIED", "CANCELED"}
    BY JobKinds DEF StatusJob, IInv, TypeOK
  <2> QED BY <1>2, <2>1, <2>2
<1>4. job[p].op = "paid" => row.status \in PaidOutcomes
  BY <1>2 DEF FreesInv, FreeOK
<1>5. /\ Uploaded(o) /\ ValidPayInTransition(order[o].status, row.status)
      /\ row.req = order[o].req
  BY <1>1 DEF NextRow
<1>6. order[o].status \in PayInOrderStatus /\ order[o].status # "NONE"
  BY <1>5 DEF IInv, TypeOK, OrderRow, Uploaded
<1>7. /\ order[o].status \in PaidOutcomes => row.status = "APPEAL"
      /\ order[o].status = "CANCELED" => row.status \in PaidOutcomes \cup {"APPEAL"}
  BY <1>5, <1>6, EdgeFacts
<1>8. /\ order[o].status \notin PaidOutcomes
      /\ order[o].status = "CANCELED" => row.status \in PaidOutcomes
      /\ order[o].status # "CANCELED" => order[o].status \notin ReleasedStatuses
  BY <1>3, <1>6, <1>7 DEF PaidOutcomes, ReleasedStatuses
<1>9. /\ row.status = "CANCELED" => j = [op |-> "release", orders |-> {o}]
      /\ row.status # "CANCELED" => j = Idle
  BY <1>1, <1>2, <1>4 DEF Releases, PaidOutcomes
<1> QED BY <1>3, <1>5, <1>8, <1>9

\* An update frees no slot that another call is going to free.
LEMMA UpdateFrees ==
    ASSUME IInv, FreesInv, NEW p \in Handlers, NEW o \in Requests, NEW j \in Job,
           NEW row, Updates(p, o, row, j)
    PROVE  /\ Frees(job[p]) = {}
           /\ FreeOK(order', j)
           /\ \/ Frees(j) = {}
              \/ /\ Frees(j) = {o} /\ Uploaded(o)
                 /\ row.status = "CANCELED" /\ row.req = order[o].req
                 /\ order[o].status \notin ReleasedStatuses \cup PaidOutcomes
           /\ \A q \in Handlers :
                 o \in Frees(job[q]) => row.status \in {"CANCELED"} \cup PaidOutcomes
<1>1. /\ job[p].op \in {"upload", "status", "paid", "appeal", "closing", "provider"}
      /\ Releases(job[p], o, row, j)
  BY DEF Updates
<1>2. order'[o] = row
  BY UpdateFacts
<1>3. Frees(job[p]) = {}
  BY <1>1 DEF Frees
<1>4. /\ FreeOK(order', j)
      /\ \/ Frees(j) = {}
         \/ /\ Frees(j) = {o} /\ Uploaded(o)
            /\ row.status = "CANCELED" /\ row.req = order[o].req
            /\ order[o].status \notin ReleasedStatuses \cup PaidOutcomes
  <2>1. CASE j = Idle
    BY <2>1, FreesNothing DEF Idle
  <2>2. CASE j # Idle
    <3>1. /\ job[p].op # "upload" /\ row.req # None /\ row.status = "CANCELED"
          /\ j = [op |-> "release", orders |-> {o}]
      BY <1>1, <2>2 DEF Releases
    <3>2. /\ order[o].status \notin ReleasedStatuses \cup PaidOutcomes
          /\ Uploaded(o) /\ row.req = order[o].req
      BY <3>1, UndisputedUpdate DEF PaidOutcomes
    <3>3. Frees(j) = {o}
      BY <3>1 DEF Frees
    <3>4. FreeOK(order', j)
      BY <1>2, <3>1, <3>3 DEF FreeOK
    <3> QED BY <3>1, <3>2, <3>3, <3>4
  <2> QED BY <2>1, <2>2
<1>5. ASSUME NEW q \in Handlers, o \in Frees(job[q])
      PROVE  row.status \in {"CANCELED"} \cup PaidOutcomes
  <2>1. Uploaded(o) /\ order[o].req # None
    BY <1>5, FreesExist DEF OnRequisite
  <2>2. order[o].status \in {"CANCELED"} \cup PaidOutcomes
    BY <1>5 DEF FreesInv, FreeOK
  <2>3. job[p].op # "upload"
    BY <2>1 DEF Updates, FirstRow, NoOrder, NewOrder, Uploaded
  <2>4. row.req = order[o].req
    BY <2>3 DEF Updates, NextRow
  <2>5. /\ order[o].status \notin PaidOutcomes
        /\ order[o].status = "CANCELED" => row.status \in PaidOutcomes
    BY <2>1, <2>3, <2>4, UndisputedUpdate
  <2> QED BY <2>2, <2>5
<1> QED BY <1>3, <1>4, <1>5

LEMMA FreesStep ==
    ASSUME IInv, SerialInv, FreesInv, Undisputed, [Next]_vars
    PROVE  FreesInv'
<1>1. ASSUME NEW p \in Handlers, NEW j \in Job, Reads(p, j) PROVE FreesInv'
  <2>1. FreeOK(order, j) /\ Frees(j) \subseteq Frees(job[p]) /\ order' = order
    BY <1>1, ReadFrees DEF Reads
  <2>2. job'[p] = j /\ \A q \in Handlers \ {p} : job'[q] = job[q]
    BY <1>1, ReadFacts DEF Reads
  <2>3. \A q \in Handlers : FreeOK(order', job'[q]) /\ Frees(job'[q]) \subseteq Frees(job[q])
    BY <2>1, <2>2 DEF FreesInv
  <2>4. \A q, s \in Handlers : q # s => Frees(job'[q]) \cap Frees(job'[s]) = {}
    BY <2>3 DEF FreesInv
  <2> QED BY <2>3, <2>4 DEF FreesInv
<1>2. ASSUME NEW p \in Handlers, NEW o \in Requests, NEW j \in Job, NEW row,
             Updates(p, o, row, j)
      PROVE  FreesInv'
  <2>1. /\ order'[o] = row /\ \A x \in Requests \ {o} : order'[x] = order[x]
        /\ job'[p] = j /\ \A q \in Handlers \ {p} : job'[q] = job[q]
    BY <1>2, UpdateFacts
  <2>2. /\ FreeOK(order', j)
        /\ \/ Frees(j) = {}
           \/ Frees(j) = {o} /\ order[o].status \notin ReleasedStatuses \cup PaidOutcomes
        /\ \A q \in Handlers :
              o \in Frees(job[q]) => row.status \in {"CANCELED"} \cup PaidOutcomes
    BY <1>2, UpdateFrees
  <2>3. ASSUME NEW q \in Handlers PROVE FreeOK(order', job'[q])
    <3>1. CASE q = p
      BY <2>1, <2>2, <3>1
    <3>2. CASE q # p
      <4>1. job'[q] = job[q] /\ FreeOK(order, job[q])
        BY <2>1, <3>2 DEF FreesInv
      <4>2. Frees(job[q]) \subseteq Requests
        BY FreesExist
      <4>3. \A x \in Frees(job[q]) : order'[x].status \in {"CANCELED"} \cup PaidOutcomes
        BY <2>1, <2>2, <4>1, <4>2 DEF FreeOK
      <4> QED BY <4>1, <4>3 DEF FreeOK
    <3> QED BY <3>1, <3>2
  <2>4. \A q \in Handlers : Frees(j) \cap Frees(job[q]) = {}
    BY <2>2 DEF FreesInv, FreeOK, ReleasedStatuses
  <2>5. \A q, s \in Handlers : q # s => Frees(job'[q]) \cap Frees(job'[s]) = {}
    BY <2>1, <2>4 DEF FreesInv
  <2> QED BY <2>3, <2>5 DEF FreesInv
<1>3. ASSUME NEW p \in Handlers, CommitCancelAll(p) PROVE FreesInv'
  <2>1. /\ job[p].op = "cancelAll" /\ job[p].orders \subseteq Requests
        /\ \A o \in Requests \ job[p].orders : order'[o] = order[o]
        /\ \A o \in job[p].orders : order'[o].status = "CANCELED"
        /\ job'[p] = [op |-> "release", orders |-> job[p].orders]
        /\ \A q \in Handlers \ {p} : job'[q] = job[q]
    BY <1>3, CancelFacts
  <2>2. \A o \in job[p].orders : order[o].status \in PreSettlement
    BY <2>1 DEF SerialInv, Fits
  <2>3. Frees(job'[p]) = job[p].orders
    BY <2>1 DEF Frees
  <2>4. ASSUME NEW q \in Handlers
        PROVE  Frees(job[q]) \cap job[p].orders = {} /\ Frees(job[q]) \subseteq Requests
    <3>1. \A o \in Frees(job[q]) : order[o].status \in {"CANCELED"} \cup PaidOutcomes
      BY DEF FreesInv, FreeOK
    <3>2. ({"CANCELED"} \cup PaidOutcomes) \cap PreSettlement = {}
      BY DEF PaidOutcomes, PreSettlement
    <3> QED BY <2>2, <3>1, <3>2, FreesExist
  <2>5. ASSUME NEW q \in Handlers PROVE FreeOK(order', job'[q])
    <3>1. CASE q = p
      BY <2>1, <2>3, <3>1 DEF FreeOK
    <3>2. CASE q # p
      <4>1. job'[q] = job[q] /\ FreeOK(order, job[q])
        BY <2>1, <3>2 DEF FreesInv
      <4>2. \A x \in Frees(job[q]) : order'[x].status = order[x].status
        BY <2>1, <2>4
      <4> QED BY <4>1, <4>2 DEF FreeOK
    <3> QED BY <3>1, <3>2
  <2>6. \A q, s \in Handlers : q # s => Frees(job'[q]) \cap Frees(job'[s]) = {}
    BY <2>1, <2>3, <2>4 DEF FreesInv
  <2> QED BY <2>5, <2>6 DEF FreesInv
<1>4. ASSUME \/ \E t \in Traders : ActivateTrader(t)
             \/ UNCHANGED vars
      PROVE  FreesInv'
  <2>1. order' = order /\ job' = job
    BY <1>4 DEF ActivateTrader, vars
  <2> QED BY <2>1 DEF FreesInv, FreeOK
<1> QED BY <1>1, <1>2, <1>3, <1>4, StepKinds

\* Slots in numbers: a slot that is taken, given up for release, or released.
LEMMA SlotTaken ==
    ASSUME NEW H \in SUBSET Requests, NEW o \in Requests, o \notin H
    PROVE  Cardinality(H \cup {o}) = Cardinality(H) + 1
  BY ConstantsAssumption, FS_Subset, FS_AddElement

LEMMA SlotsMoved ==
    ASSUME NEW H \in SUBSET Requests, NEW R \in SUBSET Requests, NEW T \in SUBSET H,
           T \cap R = {}
    PROVE  Cardinality(H \ T) + Cardinality(R \cup T) = Cardinality(H) + Cardinality(R)
<1>1. IsFiniteSet(H) /\ IsFiniteSet(R) /\ IsFiniteSet(T) /\ IsFiniteSet(H \ T)
  BY ConstantsAssumption, FS_Subset
<1>2. /\ Cardinality(H \ T) = Cardinality(H) - Cardinality(H \cap T)
      /\ Cardinality(R \cup T) = Cardinality(R) + Cardinality(T) - Cardinality(R \cap T)
  BY <1>1, FS_Difference, FS_Union
<1>3. H \cap T = T /\ R \cap T = {}
  OBVIOUS
<1>4. Cardinality(R \cap T) = 0
  BY <1>3, FS_EmptySet
<1> DEFINE h == Cardinality(H)
           s == Cardinality(R)
           t == Cardinality(T)
<1>5. h \in Nat /\ s \in Nat /\ t \in Nat
  BY <1>1, FS_CardinalityType
<1>6. Cardinality(H \ T) = h - t /\ Cardinality(R \cup T) = s + t - 0
  BY <1>2, <1>3, <1>4
<1> HIDE DEF h, s, t
<1>7. (h - t) + (s + t - 0) = h + s
  BY <1>5
<1> QED BY <1>6, <1>7 DEF h, s

LEMMA SlotReleased ==
    ASSUME NEW R \in SUBSET Requests, NEW o \in R
    PROVE  /\ Cardinality(R \ {o}) = Cardinality(R) - 1
           /\ Cardinality(R) > 0
<1>1. IsFiniteSet(R)
  BY ConstantsAssumption, FS_Subset
<1>2. Cardinality(R \ {o}) = Cardinality(R) - 1
  BY <1>1, FS_RemoveElement
<1>3. Cardinality(R) \in Nat /\ Cardinality(R \ {o}) \in Nat
  BY <1>1, FS_CardinalityType, FS_Subset
<1> QED BY <1>2, <1>3

LEMMA SlotsAreNatural ==
    ASSUME NEW H \in SUBSET Requests
    PROVE  Cardinality(H) \in Nat
  BY ConstantsAssumption, FS_Subset, FS_CardinalityType

\* An order sits on a requisite while it holds a slot there.
Sits(row, r) == row.req = r /\ row.status \notin ReleasedStatuses

LEMMA SlotsOfRows ==
    ASSUME NEW r
    PROVE  /\ Holders(r) = {o \in Requests : Sits(order[o], r)}
           /\ Holders(r)' = {o \in Requests : Sits(order'[o], r)}
           /\ Releasing(r) = {o \in Requests : order[o].req = r
                                               /\ \E p \in Handlers : o \in Frees(job[p])}
           /\ Releasing(r)' = {o \in Requests : order'[o].req = r
                                               /\ \E p \in Handlers : o \in Frees(job'[p])}
<1>1. \A j, o : o \in Frees(j) <=> \/ j.op \in {"release", "releasing"} /\ o \in j.orders
                                   \/ j.op = "releasing" /\ o = j.o
  BY DEF Frees
<1> QED BY <1>1 DEF Holders, Releasing, Sits

\* What an update does to the slots of a requisite.
LEMMA UpdateSits ==
    ASSUME IInv, FreesInv, NEW p \in Handlers, NEW o \in Requests, NEW j \in Job,
           NEW row, Updates(p, o, row, j), NEW r \in Requisites
    PROVE  \/ /\ Sits(row, r) <=> Sits(order[o], r)
              /\ Taken(order[o], row, r) = 0
              /\ Frees(j) = {} \/ row.req # r
           \/ /\ ~Sits(order[o], r) /\ Sits(row, r)
              /\ Taken(order[o], row, r) = 1
              /\ Frees(j) = {}
           \/ /\ Sits(order[o], r) /\ ~Sits(row, r) /\ row.req = r
              /\ Taken(order[o], row, r) = 0
              /\ Frees(j) = {o}
<1>1. r # None
  BY ConstantsAssumption
<1>2. CASE job[p].op = "upload"
  <2>1. /\ order[o].status = "NONE" /\ row.status \in {"NEW", "PENDING", "NO_REQUISITE"}
        /\ j = Idle
    BY <1>2 DEF Updates, FirstRow, NoOrder, NewOrder, Releases
  <2>2. Frees(j) = {}
    BY <2>1 DEF Frees, Idle
  <2> QED BY <2>1, <2>2 DEF Sits, Taken, ReleasedStatuses
<1>3. CASE job[p].op # "upload" /\ row.req # r
  <2>1. row.req = order[o].req
    BY <1>3 DEF Updates, NextRow
  <2> QED BY <1>3, <2>1 DEF Sits, Taken
<1>4. CASE job[p].op # "upload" /\ row.req = r
  <2>1. /\ row.req = order[o].req
        /\ row.status \in {"VERIFIED", "CANCELED"} \cup PaidOutcomes
        /\ order[o].status = "CANCELED" => row.status \in PaidOutcomes
        /\ order[o].status # "CANCELED" => order[o].status \notin ReleasedStatuses
        /\ row.status = "CANCELED" => j = [op |-> "release", orders |-> {o}]
        /\ row.status # "CANCELED" => j = Idle
    BY <1>1, <1>4, UndisputedUpdate
  <2>2. CASE row.status = "CANCELED"
    <3>1. Frees(j) = {o}
      BY <2>1, <2>2 DEF Frees
    <3>2. order[o].status \notin ReleasedStatuses
      BY <2>1, <2>2 DEF PaidOutcomes
    <3> QED BY <1>4, <2>1, <2>2, <3>1, <3>2 DEF Sits, Taken, ReleasedStatuses
  <2>3. CASE row.status # "CANCELED"
    <3>1. Frees(j) = {}
      BY <2>1, <2>3 DEF Frees, Idle
    <3>2. row.status \notin ReleasedStatuses \cup {"APPEAL"}
      BY <2>1, <2>3 DEF PaidOutcomes, ReleasedStatuses
    <3>3. CASE order[o].status \in ReleasedStatuses
      BY <1>4, <2>1, <3>1, <3>2, <3>3 DEF Sits, Taken
    <3>4. CASE order[o].status \notin ReleasedStatuses
      BY <1>4, <2>1, <3>1, <3>2, <3>4 DEF Sits, Taken
    <3> QED BY <3>3, <3>4
  <2> QED BY <2>2, <2>3
<1> QED BY <1>2, <1>3, <1>4

LEMMA UsageStep ==
    ASSUME IInv, SerialInv, FreesInv, Undisputed, SeenIsCurrent, UsageMatchesHolders,
           [Next]_vars
    PROVE  UsageMatchesHolders'
<1> SUFFICES ASSUME NEW r \in Requisites
             PROVE  requisite'[r].ops = Cardinality(Holders(r)') + Cardinality(Releasing(r)')
  BY DEF UsageMatchesHolders
<1> DEFINE H  == Holders(r)
           R  == Releasing(r)
           H1 == Holders(r)'
           R1 == Releasing(r)'
           n  == requisite[r].ops
           n1 == requisite'[r].ops
<1>1. /\ H = {o \in Requests : Sits(order[o], r)}
      /\ H1 = {o \in Requests : Sits(order'[o], r)}
      /\ R = {o \in Requests : order[o].req = r /\ \E p \in Handlers : o \in Frees(job[p])}
      /\ R1 = {o \in Requests : order'[o].req = r /\ \E p \in Handlers : o \in Frees(job'[p])}
  BY SlotsOfRows
<1>2. H \in SUBSET Requests /\ R \in SUBSET Requests
  BY <1>1
<1>3. n = Cardinality(H) + Cardinality(R)
  BY DEF UsageMatchesHolders
<1>4. Cardinality(H) \in Nat /\ Cardinality(R) \in Nat
  BY <1>2, SlotsAreNatural
<1> HIDE DEF H, R, H1, R1, n, n1
<1>5. ASSUME H1 = H, R1 = R, n1 = n
      PROVE  n1 = Cardinality(H1) + Cardinality(R1)
  BY <1>3, <1>5
<1>6. ASSUME NEW p \in Handlers, NEW j \in Job, Reads(p, j)
      PROVE  n1 = Cardinality(H1) + Cardinality(R1)
  <2>1. order' = order /\ job'[p] = j /\ \A q \in Handlers \ {p} : job'[q] = job[q]
    BY <1>6, ReadFacts DEF Reads
  <2>2. H1 = H
    BY <1>1, <2>1
  <2>3. CASE Frees(j) = Frees(job[p]) /\ requisite' = requisite
    <3>1. \A q \in Handlers : Frees(job'[q]) = Frees(job[q])
      BY <2>1, <2>3
    <3>2. R1 = R
      BY <1>1, <2>1, <3>1
    <3>3. n1 = n
      BY <2>3 DEF n, n1
    <3> QED BY <1>5, <2>2, <3>2, <3>3
  <2>4. CASE Frees(j) = Frees(job[p]) \ {job[p].o} /\ WriteUsage(p)
    <3> DEFINE o == job[p].o
    <3>1. /\ o \in Requests /\ job[p].op = "releasing"
          /\ n1 = IF r = order[o].req THEN AtLeastZero(job[p].seen.ops - 1) ELSE n
      BY <2>4, ReleasedRow DEF n, n1, WriteUsage
    <3>2. o \in Frees(job[p])
      BY <3>1 DEF Frees
    <3>3. \A q \in Handlers \ {p} : o \notin Frees(job[q])
      BY <3>2 DEF FreesInv
    <3>4. \A q \in Handlers : Frees(job'[q]) = Frees(job[q]) \ {o}
      BY <2>1, <2>4, <3>3
    <3>5. job[p].seen.ops = requisite[order[o].req].ops
      BY <3>1 DEF SeenIsCurrent
    <3> HIDE DEF o
    <3>6. CASE order[o].req = r
      <4>1. o \in R /\ R1 = R \ {o}
        BY <1>1, <2>1, <3>1, <3>2, <3>4, <3>6
      <4>2. /\ Cardinality(R1) = Cardinality(R) - 1 /\ Cardinality(R) > 0
        BY <1>2, <4>1, SlotReleased
      <4>3. n1 = AtLeastZero(n - 1)
        BY <3>1, <3>5, <3>6 DEF n
      <4> DEFINE h == Cardinality(H)
                 s == Cardinality(R)
      <4>4. h \in Nat /\ s \in Nat /\ s > 0 /\ n = h + s
        BY <1>3, <1>4, <4>2
      <4> HIDE DEF h, s
      <4>5. AtLeastZero(n - 1) = h + (s - 1)
        BY <4>4 DEF AtLeastZero
      <4> QED BY <2>2, <4>2, <4>3, <4>5 DEF h, s
    <3>7. CASE order[o].req # r
      <4>1. R1 = R
        BY <1>1, <2>1, <3>4, <3>7
      <4> QED BY <1>5, <2>2, <3>1, <3>7, <4>1
    <3> QED BY <3>6, <3>7
  <2> QED BY <1>6, <2>3, <2>4, ReadFrees
<1>7. ASSUME NEW p \in Handlers, NEW o \in Requests, NEW j \in Job, NEW row,
             Updates(p, o, row, j)
      PROVE  n1 = Cardinality(H1) + Cardinality(R1)
  <2>1. /\ order'[o] = row /\ \A x \in Requests \ {o} : order'[x] = order[x]
        /\ job'[p] = j /\ \A q \in Handlers \ {p} : job'[q] = job[q]
    BY <1>7, UpdateFacts
  <2>2. /\ Frees(job[p]) = {}
        /\ \/ Frees(j) = {}
           \/ Frees(j) = {o} /\ order[o].status \notin ReleasedStatuses \cup PaidOutcomes
    BY <1>7, UpdateFrees
  <2>3. n1 = n + Taken(order[o], row, r)
    BY <1>7 DEF Updates, Counts, n, n1
  <2>4. \A x \in Requests \ {o} : x \in H1 <=> x \in H
    BY <1>1, <2>1
  <2>5. (o \in H <=> Sits(order[o], r)) /\ (o \in H1 <=> Sits(row, r))
    BY <1>1, <2>1
  <2>6. H1 \subseteq Requests /\ R1 \subseteq Requests
    BY <1>1
  <2>7. R1 = R \cup {x \in Frees(j) : row.req = r}
    <3>1. \A q \in Handlers : o \in Frees(job[q]) => row.req = order[o].req
      <4> SUFFICES ASSUME NEW q \in Handlers, o \in Frees(job[q])
                   PROVE  row.req = order[o].req
        OBVIOUS
      <4>1. Uploaded(o)
        BY FreesExist DEF OnRequisite
      <4>2. job[p].op # "upload"
        BY <1>7, <4>1 DEF Updates, FirstRow, NoOrder, NewOrder, Uploaded
      <4> QED BY <1>7, <4>2 DEF Updates, NextRow
    <3>2. \A x \in Requests \ {o} : x \in R1 <=> x \in R
      <4> SUFFICES ASSUME NEW x \in Requests, x # o PROVE x \in R1 <=> x \in R
        OBVIOUS
      <4>1. order'[x] = order[x]
        BY <2>1
      <4>2. \A q \in Handlers : x \in Frees(job'[q]) <=> x \in Frees(job[q])
        BY <2>1, <2>2
      <4> QED BY <1>1, <4>1, <4>2
    <3>3. o \in R1 <=> row.req = r /\ \E q \in Handlers : o \in Frees(job'[q])
      BY <1>1, <2>1
    <3>4. (\E q \in Handlers : o \in Frees(job'[q]))
             <=> o \in Frees(j) \/ \E q \in Handlers : o \in Frees(job[q])
      BY <2>1, <2>2
    <3>5. o \in R <=> order[o].req = r /\ \E q \in Handlers : o \in Frees(job[q])
      BY <1>1
    <3>6. o \in R1 <=> o \in R \/ (row.req = r /\ o \in Frees(j))
      BY <3>1, <3>3, <3>4, <3>5
    <3> QED BY <1>2, <2>2, <2>6, <3>2, <3>6
  <2>8. CASE /\ Sits(row, r) <=> Sits(order[o], r)
             /\ Taken(order[o], row, r) = 0
             /\ Frees(j) = {} \/ row.req # r
    <3>1. H1 = H
      BY <1>2, <2>4, <2>5, <2>6, <2>8
    <3>2. R1 = R
      BY <2>7, <2>8
    <3>3. n \in Nat
      BY <1>3, <1>4
    <3>4. n1 = n
      BY <2>3, <2>8, <3>3
    <3> QED BY <1>5, <3>1, <3>2, <3>4
  <2>9. CASE /\ ~Sits(order[o], r) /\ Sits(row, r)
             /\ Taken(order[o], row, r) = 1
             /\ Frees(j) = {}
    <3>1. H1 = H \cup {o} /\ o \notin H
      BY <1>2, <2>4, <2>5, <2>6, <2>9
    <3>2. R1 = R
      BY <2>7, <2>9
    <3>3. Cardinality(H1) = Cardinality(H) + 1
      BY <1>2, <3>1, SlotTaken
    <3> DEFINE h == Cardinality(H)
               s == Cardinality(R)
    <3>4. h \in Nat /\ s \in Nat /\ n = h + s /\ n1 = n + 1
      BY <1>3, <1>4, <2>3, <2>9
    <3> HIDE DEF h, s
    <3>5. n1 = (h + 1) + s
      BY <3>4
    <3> QED BY <3>2, <3>3, <3>5 DEF h, s
  <2>10. CASE /\ Sits(order[o], r) /\ ~Sits(row, r) /\ row.req = r
              /\ Taken(order[o], row, r) = 0
              /\ Frees(j) = {o}
    <3>1. H1 = H \ {o} /\ o \in H
      BY <1>2, <2>4, <2>5, <2>6, <2>10
    <3>2. R1 = R \cup {o}
      BY <2>7, <2>10
    <3>3. o \notin R
      <4>1. order[o].status \notin {"CANCELED"} \cup PaidOutcomes
        BY <2>2, <2>10 DEF ReleasedStatuses
      <4>2. \A q \in Handlers : o \notin Frees(job[q])
        BY <4>1 DEF FreesInv, FreeOK
      <4> QED BY <1>1, <4>2
    <3>4. Cardinality(H1) + Cardinality(R1) = Cardinality(H) + Cardinality(R)
      <4>1. {o} \in SUBSET H /\ {o} \cap R = {}
        BY <3>1, <3>3
      <4> QED BY <1>2, <3>1, <3>2, <4>1, SlotsMoved
    <3>5. n \in Nat
      BY <1>3, <1>4
    <3>6. n1 = n
      BY <2>3, <2>10, <3>5
    <3> QED BY <1>3, <3>4, <3>6
  <2> QED BY <1>7, <2>8, <2>9, <2>10, UpdateSits
<1>8. ASSUME NEW p \in Handlers, CommitCancelAll(p)
      PROVE  n1 = Cardinality(H1) + Cardinality(R1)
  <2> DEFINE S == job[p].orders
             T == {x \in S : order[x].req = r}
  <2>1. /\ job[p].op = "cancelAll" /\ S \subseteq Requests
        /\ \A x \in Requests \ S : order'[x] = order[x]
        /\ \A x \in S : order'[x].status = "CANCELED" /\ order'[x].req = order[x].req
        /\ job'[p] = [op |-> "release", orders |-> S]
        /\ \A q \in Handlers \ {p} : job'[q] = job[q]
        /\ requisite' = requisite
    BY <1>8, CancelFacts
  <2>2. \A x \in S : order[x].status \in PreSettlement
    BY <2>1 DEF SerialInv, Fits
  <2>3. Frees(job[p]) = {} /\ Frees(job'[p]) = S
    BY <2>1 DEF Frees
  <2> HIDE DEF S
  <2>4. PreSettlement \cap (ReleasedStatuses \cup {"CANCELED"} \cup PaidOutcomes) = {}
    BY DEF PreSettlement, ReleasedStatuses, PaidOutcomes
  <2>5. T \in SUBSET H
    BY <1>1, <2>1, <2>2, <2>4 DEF Sits
  <2>6. H1 = H \ T
    <3>1. \A x \in S : ~Sits(order'[x], r)
      BY <2>1 DEF Sits, ReleasedStatuses
    <3>2. \A x \in S : x \in H => x \in T
      BY <1>1 DEF Sits
    <3> QED BY <1>1, <2>1, <3>1, <3>2
  <2>7. \A q \in Handlers : Frees(job[q]) \cap S = {}
    BY <2>2, <2>4 DEF FreesInv, FreeOK
  <2>8. T \cap R = {}
    BY <1>1, <2>7
  <2>9. R1 = R \cup T
    <3>1. \A x \in Requests : order'[x].req = order[x].req
      BY <2>1
    <3>2. \A x \in Requests : (\E q \in Handlers : x \in Frees(job'[q]))
                                 <=> x \in S \/ \E q \in Handlers : x \in Frees(job[q])
      BY <2>1, <2>3
    <3> QED BY <1>1, <2>1, <3>1, <3>2
  <2>10. n1 = n
    BY <2>1 DEF n, n1
  <2> HIDE DEF T
  <2>11. Cardinality(H \ T) + Cardinality(R \cup T) = Cardinality(H) + Cardinality(R)
    BY <1>2, <2>5, <2>8, SlotsMoved
  <2> QED BY <1>3, <2>6, <2>9, <2>10, <2>11
<1>9. ASSUME \/ \E t \in Traders : ActivateTrader(t)
             \/ UNCHANGED vars
      PROVE  n1 = Cardinality(H1) + Cardinality(R1)
  <2>1. order' = order /\ job' = job /\ requisite' = requisite
    BY <1>9 DEF ActivateTrader, vars
  <2>2. H1 = H /\ R1 = R /\ n1 = n
    BY <1>1, <2>1 DEF n, n1
  <2> QED BY <1>5, <2>2
<1> QED BY <1>6, <1>7, <1>8, <1>9, StepKinds DEF H1, R1, n1

\* While nobody disputes orders, updates of an order do not overlap and no
\* release overlaps with another write of its requisite, used_ops is the number
\* of orders that hold a slot: none leaks and none is given away twice, however
\* uploads, cancellations, recoveries and deactivations follow each other.
THEOREM UsageIsHolders ==
    ASSUME Undisputed
    PROVE  Spec /\ []UpdatesApart /\ []SeenIsCurrent => []UsageMatchesHolders
<1>1. Init => FreesInv /\ UsageMatchesHolders
  <2> SUFFICES ASSUME Init PROVE FreesInv /\ UsageMatchesHolders
    OBVIOUS
  <2>1. \A p \in Handlers : FreeOK(order, job[p]) /\ Frees(job[p]) = {}
    BY FreesNothing DEF Init, Idle
  <2>2. ASSUME NEW r \in Requisites
        PROVE  requisite[r].ops = Cardinality(Holders(r)) + Cardinality(Releasing(r))
    <3>1. NoOrder.status = "NONE"
      BY DEF NoOrder, NewOrder
    <3>2. Holders(r) = {} /\ Releasing(r) = {}
      BY <2>1, <3>1, SlotsOfRows DEF Init, Sits, ReleasedStatuses
    <3>3. requisite[r].ops = 0
      BY DEF Init
    <3> QED BY <3>2, <3>3, FS_EmptySet
  <2> QED BY <2>1, <2>2 DEF FreesInv, UsageMatchesHolders
<1>2. IInv /\ SerialInv /\ FreesInv /\ [Next]_vars => FreesInv'
  BY FreesStep
<1>3. IInv /\ SerialInv /\ FreesInv /\ SeenIsCurrent /\ UsageMatchesHolders /\ [Next]_vars
        => UsageMatchesHolders'
  BY UsageStep
<1> QED BY <1>1, <1>2, <1>3, Invariance, SerialInvariance, PTL DEF Spec

\* Under the same conditions a requisite never carries more orders than its
\* operation cap admits.
THEOREM HoldersFitLimit ==
    ASSUME Undisputed
    PROVE  Spec /\ []UpdatesApart /\ []SeenIsCurrent => []HoldersWithinLimit
<1>1. IInv /\ UsageMatchesHolders => HoldersWithinLimit
  <2> SUFFICES ASSUME IInv, UsageMatchesHolders, NEW r \in Requisites
               PROVE  Cardinality(Holders(r)) <= LimitOps[r]
    BY DEF HoldersWithinLimit
  <2>1. /\ requisite[r].ops = Cardinality(Holders(r)) + Cardinality(Releasing(r))
        /\ requisite[r].ops <= LimitOps[r]
    BY DEF UsageMatchesHolders, IInv, CapInv, UsageWithinLimits
  <2>2. Holders(r) \in SUBSET Requests /\ Releasing(r) \in SUBSET Requests
    BY SlotsOfRows
  <2>3. Cardinality(Holders(r)) \in Nat /\ Cardinality(Releasing(r)) \in Nat
    BY <2>2, SlotsAreNatural
  <2>4. LimitOps[r] \in Nat
    BY ConstantsAssumption
  <2> QED BY <2>1, <2>3, <2>4
<1> QED BY <1>1, Invariance, UsageIsHolders, PTL

-----------------------------------------------------------------------------
(* While no upload overlaps with the deactivation of its candidate's trader *)

\* The traders of the requisites an upload has to choose from still are enabled.
CandidatesEnabled ==
    \A p \in Handlers :
        job[p].op = "upload" => \A r \in job[p].picks : enabled[Owner[r]]

Waits(row) == row.req # None /\ row.status \in PreSettlement

\* A deactivation is going to cancel the order.
Covers(j, o, row) ==
    \/ j.op = "deactivate" /\ j.t = Owner[row.req]
    \/ j.op = "cancelAll" /\ o \in j.orders

\* The waiting orders of a disabled trader are about to be canceled.
CoveredInv ==
    \A o \in Requests :
        Waits(order[o]) /\ ~enabled[Owner[order[o].req]]
            => \E p \in Handlers : Covers(job[p], o, order[o])

LEMMA CoveredStep ==
    ASSUME MayFail = FALSE, IInv, SerialInv, CoveredInv, CandidatesEnabled, [Next]_vars
    PROVE  CoveredInv'
<1> SUFFICES ASSUME NEW o \in Requests, Waits(order'[o]), ~enabled'[Owner[order'[o].req]]
             PROVE  \E q \in Handlers : Covers(job'[q], o, order'[o])
  BY DEF CoveredInv
<1>1. ASSUME NEW p \in Handlers,
             \A q \in Handlers \ {p} : job'[q] = job[q],
             order'[o] = order[o], enabled' = enabled,
             Covers(job[p], o, order[o]) => Covers(job'[p], o, order[o])
      PROVE  \E q \in Handlers : Covers(job'[q], o, order'[o])
  <2>1. PICK q \in Handlers : Covers(job[q], o, order[o])
    BY <1>1 DEF CoveredInv
  <2>2. Covers(job'[q], o, order[o])
    BY <1>1, <2>1
  <2> QED BY <1>1, <2>2
<1>2. ASSUME NEW p \in Handlers, NEW j \in Job, Reads(p, j)
      PROVE  \E q \in Handlers : Covers(job'[q], o, order'[o])
  <2>1. order' = order /\ job'[p] = j /\ \A q \in Handlers \ {p} : job'[q] = job[q]
    BY <1>2, ReadFacts DEF Reads
  <2>2. CASE Starts(p, j)
    <3>1. enabled' = enabled /\ ~Covers(job[p], o, order[o])
      BY <2>2 DEF Starts, Covers, Idle, tables
    <3> QED BY <1>1, <2>1, <3>1
  <2>3. CASE LockAppeal(p) \/ ReadUsage(p) \/ WriteUsage(p)
    <3>1. enabled' = enabled /\ ~Covers(job[p], o, order[o])
      BY <2>3 DEF LockAppeal, ReadUsage, WriteUsage, Covers, tables
    <3> QED BY <1>1, <2>1, <3>1
  <2>4. CASE Fail(p)
    <3>1. enabled' = enabled /\ job[p].op \in Refusable
      BY <2>4 DEF Fail, tables
    <3>2. ~Covers(job[p], o, order[o])
      BY <3>1 DEF Refusable, Covers
    <3> QED BY <1>1, <2>1, <3>1, <3>2
  <2>5. CASE DeactivateTrader(p)
    <3>1. PICK t \in Traders : /\ enabled' = [enabled EXCEPT ![t] = FALSE]
                               /\ Continue(p, [op |-> "deactivate", t |-> t])
      BY <2>5 DEF DeactivateTrader
    <3>2. job[p] = Idle /\ job'[p] = [op |-> "deactivate", t |-> t]
      BY <2>5, <3>1, ReadFacts DEF DeactivateTrader
    <3>3. CASE Owner[order[o].req] = t
      <4>1. Covers(job'[p], o, order'[o])
        BY <2>1, <3>2, <3>3 DEF Covers
      <4> QED BY <4>1
    <3>4. CASE Owner[order[o].req] # t
      <4>1. Owner[order[o].req] \in Traders
        <5>1. order[o].req \in Requisites
          BY <2>1 DEF Waits, IInv, TypeOK, OrderRow
        <5> QED BY <5>1, ConstantsAssumption
      <4>2. ~enabled[Owner[order[o].req]] /\ Waits(order[o])
        BY <2>1, <3>1, <3>4, <4>1 DEF IInv, TypeOK
      <4>3. PICK q \in Handlers : Covers(job[q], o, order[o])
        BY <4>2 DEF CoveredInv
      <4>4. q # p
        BY <3>2, <4>3 DEF Covers, Idle
      <4> QED BY <2>1, <4>3, <4>4
    <3> QED BY <3>3, <3>4
  <2>6. CASE ReadOpenOrders(p)
    <3>1. /\ job[p].op = "deactivate" /\ enabled' = enabled
          /\ IF OpenOrdersOf(job[p].t) = {} THEN Finish(p)
             ELSE Continue(p, [op |-> "cancelAll", orders |-> OpenOrdersOf(job[p].t)])
      BY <2>6 DEF ReadOpenOrders, tables
    <3>2. Covers(job[p], o, order[o]) => Covers(job'[p], o, order[o])
      <4> SUFFICES ASSUME Covers(job[p], o, order[o])
                   PROVE  Covers(job'[p], o, order[o])
        OBVIOUS
      <4>1. o \in OpenOrdersOf(job[p].t)
        BY <2>1, <3>1 DEF Covers, Waits, OpenOrdersOf
      <4>2. job'[p] = [op |-> "cancelAll", orders |-> OpenOrdersOf(job[p].t)]
        BY <3>1, <4>1, ReadFacts
      <4> QED BY <4>1, <4>2 DEF Covers
    <3> QED BY <1>1, <2>1, <3>1, <3>2
  <2> QED BY <1>2, <2>2, <2>3, <2>4, <2>5, <2>6 DEF Reads
<1>3. ASSUME NEW p \in Handlers, NEW x \in Requests, NEW j \in Job, NEW row,
             Updates(p, x, row, j)
      PROVE  \E q \in Handlers : Covers(job'[q], o, order'[o])
  <2>1. /\ order'[x] = row /\ \A y \in Requests \ {x} : order'[y] = order[y]
        /\ job'[p] = j /\ \A q \in Handlers \ {p} : job'[q] = job[q]
    BY <1>3, UpdateFacts
  <2>2. /\ enabled' = enabled
        /\ job[p].op \in {"upload", "status", "paid", "appeal", "closing", "provider"}
        /\ job[p].op = "upload" => FirstRow(job[p], x, row)
        /\ job[p].op # "upload" => NextRow(job[p], x, row)
    BY <1>3 DEF Updates
  <2>3. \A y, r : ~Covers(job[p], y, r)
    BY <2>2 DEF Covers
  <2>4. CASE o # x
    BY <1>1, <2>1, <2>2, <2>3, <2>4
  <2>5. CASE o = x
    <3>1. order'[o] = row /\ Waits(row) /\ ~enabled[Owner[row.req]]
      BY <2>1, <2>2, <2>5
    <3>2. job[p].op # "upload"
      <4> SUFFICES ASSUME job[p].op = "upload" PROVE FALSE
        OBVIOUS
      <4>1. row.req \in job[p].picks
        BY <2>2, <3>1 DEF FirstRow, Waits
      <4> QED BY <3>1, <4>1 DEF CandidatesEnabled
    <3>3. /\ ValidPayInTransition(order[o].status, row.status)
          /\ row.req = order[o].req
      BY <2>2, <2>5, <3>2 DEF NextRow
    <3>4. order[o].status \in PreSettlement
      <4>1. order[o].status \in PayInOrderStatus /\ row.status \in PreSettlement
        BY <3>1 DEF IInv, TypeOK, OrderRow, Waits
      <4> QED BY <3>3, <4>1, EdgeFacts
    <3>5. PICK q \in Handlers : Covers(job[q], o, order[o])
      BY <3>1, <3>3, <3>4 DEF CoveredInv, Waits
    <3>6. q # p
      BY <2>3, <3>5
    <3>7. Covers(job'[q], o, order'[o])
      BY <2>1, <3>1, <3>3, <3>5, <3>6 DEF Covers
    <3> QED BY <3>7
  <2> QED BY <2>4, <2>5
<1>4. ASSUME NEW p \in Handlers, CommitCancelAll(p)
      PROVE  \E q \in Handlers : Covers(job'[q], o, order'[o])
  <2>1. /\ job[p].op = "cancelAll"
        /\ \A y \in Requests \ job[p].orders : order'[y] = order[y]
        /\ \A y \in job[p].orders : order'[y].status = "CANCELED"
        /\ \A q \in Handlers \ {p} : job'[q] = job[q]
        /\ enabled' = enabled
    BY <1>4, CancelFacts
  <2>2. o \notin job[p].orders
    BY <2>1 DEF Waits, PreSettlement
  <2>3. ~Covers(job[p], o, order[o])
    BY <2>1, <2>2 DEF Covers
  <2> QED BY <1>1, <2>1, <2>2, <2>3
<1>5. ASSUME NEW t \in Traders, ActivateTrader(t)
      PROVE  \E q \in Handlers : Covers(job'[q], o, order'[o])
  <2>1. order' = order /\ job' = job /\ enabled' = [enabled EXCEPT ![t] = TRUE]
    BY <1>5 DEF ActivateTrader
  <2>2. Owner[order[o].req] \in Traders
    <3>1. order[o].req \in Requisites
      BY <2>1 DEF Waits, IInv, TypeOK, OrderRow
    <3> QED BY <3>1, ConstantsAssumption
  <2>3. ~enabled[Owner[order[o].req]]
    BY <2>1, <2>2 DEF IInv, TypeOK
  <2> QED BY <2>1, <2>3 DEF CoveredInv
<1>6. ASSUME UNCHANGED vars
      PROVE  \E q \in Handlers : Covers(job'[q], o, order'[o])
  <2>1. order' = order /\ job' = job /\ enabled' = enabled
    BY <1>6 DEF vars
  <2> QED BY <2>1 DEF CoveredInv
<1> QED BY <1>2, <1>3, <1>4, <1>5, <1>6, StepKinds

\* When no process dies in the middle of a deactivation, updates of an order do
\* not overlap and no upload is under way to a requisite of the trader, a trader
\* whose deactivation is through has no waiting order left
\* (cancelOpenAssignmentsForDeactivatedTrader).
THEOREM DeactivationCancelsAll ==
    ASSUME MayFail = FALSE
    PROVE  Spec /\ []UpdatesApart /\ []CandidatesEnabled => []DisabledHasNoOpenOrders
<1>1. Init => CoveredInv
  BY DEF Init, CoveredInv, Waits, NoOrder, NewOrder
<1>2. IInv /\ SerialInv /\ CoveredInv /\ CandidatesEnabled /\ [Next]_vars => CoveredInv'
  BY CoveredStep
<1>3. CoveredInv => DisabledHasNoOpenOrders
  BY DEF CoveredInv, Covers, Waits, DisabledHasNoOpenOrders
<1> QED BY <1>1, <1>2, <1>3, Invariance, SerialInvariance, PTL DEF Spec

-----------------------------------------------------------------------------
(* The outbox and the orders that wait *)

\* Orders and their newest webhooks are written together.
LEMMA WebhookStep ==
    ASSUME IInv, NewestWebhookIsStatus, [Next]_vars
    PROVE  NewestWebhookIsStatus'
<1>1. CASE WritesOne
  <2>1. PICK o \in Requests, row \in OrderRow : WriteOrder(o, row)
    BY <1>1 DEF WritesOne, Writes
  <2> QED BY <2>1 DEF WriteOrder, NewestWebhookIsStatus, IInv, TypeOK
<1>2. ASSUME NEW p \in Handlers, CommitCancelAll(p) PROVE NewestWebhookIsStatus'
  <2>1. /\ \A o \in Requests \ job[p].orders : order'[o] = order[o]
        /\ \A o \in job[p].orders : order'[o].status = "CANCELED"
    BY <1>2, CancelFacts
  <2>2. \A o \in Requests : notified'[o] = IF o \in job[p].orders THEN "CANCELED" ELSE notified[o]
    BY <1>2 DEF CommitCancelAll
  <2> QED BY <2>1, <2>2 DEF NewestWebhookIsStatus
<1>3. CASE order' = order /\ notified' = notified
  BY <1>3 DEF NewestWebhookIsStatus
<1>4. ASSUME NEW p \in Handlers, Handler(p)
      PROVE  WritesOne \/ CommitCancelAll(p) \/ (order' = order /\ notified' = notified)
  <2>1. CASE \/ AssignRequisite(p) \/ UploadElsewhere(p) \/ CommitStatus(p) \/ CommitPaid(p)
             \/ CommitAppeal(p) \/ CommitReject(p) \/ CommitResolve(p) \/ CommitProvider(p)
    BY <2>1, AssignRequisiteStep, UploadElsewhereStep, CommitStatusStep, CommitPaidStep,
       CommitAppealStep, CommitRejectStep, CommitResolveStep, CommitProviderStep
  <2>2. CASE \/ BeginUpload(p) \/ MerchantUpdate(p) \/ ConfirmFromPaymentPage(p)
             \/ TraderCancelOrder(p) \/ TraderConfirmPaid(p) \/ AdminUpdateStatus(p)
             \/ BeginAppeal(p) \/ BeginCloseAppeal(p) \/ LockAppeal(p)
             \/ BeginProviderCallback(p) \/ DeactivateTrader(p) \/ ReadOpenOrders(p)
             \/ ReadUsage(p) \/ WriteUsage(p) \/ Fail(p)
    BY <2>2 DEF BeginUpload, MerchantUpdate, ConfirmFromPaymentPage,
         TraderCancelOrder, TraderConfirmPaid, AdminUpdateStatus, BeginStatus, BeginPaid,
         BeginAppeal, BeginCloseAppeal, LockAppeal, BeginProviderCallback, DeactivateTrader,
         ReadOpenOrders, ReadUsage, WriteUsage, Fail, Begin, tables
  <2> QED BY <1>4, <2>1, <2>2 DEF Handler
<1>5. ASSUME (\E t \in Traders : ActivateTrader(t)) \/ UNCHANGED vars
      PROVE  order' = order /\ notified' = notified
  BY <1>5 DEF ActivateTrader, vars
<1> QED BY <1>1, <1>2, <1>3, <1>4, <1>5 DEF Next

\* Whatever calls race, the newest webhook of an order tells the merchant the
\* status the order has: no handler forgets one or reports another status.
THEOREM OutboxInStep == Spec => []NewestWebhookIsStatus
<1>1. Init => NewestWebhookIsStatus
  BY DEF Init, NewestWebhookIsStatus, NoOrder, NewOrder
<1>2. IInv /\ NewestWebhookIsStatus /\ [Next]_vars => NewestWebhookIsStatus'
  BY WebhookStep
<1> QED BY <1>1, <1>2, Invariance, PTL DEF Spec

\* Money moves only for an order that the same step shows as paid.
LEMMA IncomeFollowsStatus ==
    ASSUME IInv, [Next]_vars, NEW o \in Requests
    PROVE  income'[o] = income[o] \/ order'[o].status \in PaidOutcomes
<1>1. ASSUME WritesOne PROVE income'[o] = income[o] \/ order'[o].status \in PaidOutcomes
  <2>1. PICK x \in Requests, row \in OrderRow : Writes(x, row)
    BY <1>1 DEF WritesOne
  <2>2. CASE x # o
    BY <2>1, <2>2 DEF Writes, BooksOK
  <2>3. CASE x = o
    BY <2>1, <2>3 DEF Writes, WriteOrder, ledgers, IInv, TypeOK
  <2> QED BY <2>2, <2>3
<1>2. ASSUME NEW p \in Handlers, CommitCancelAll(p) PROVE income' = income
  BY <1>2 DEF CommitCancelAll, ledgers
<1>3. ASSUME NEW p \in Handlers, Handler(p)
      PROVE  WritesOne \/ CommitCancelAll(p) \/ income' = income
  <2>1. CASE \/ AssignRequisite(p) \/ UploadElsewhere(p) \/ CommitStatus(p) \/ CommitPaid(p)
             \/ CommitAppeal(p) \/ CommitReject(p) \/ CommitResolve(p) \/ CommitProvider(p)
    BY <2>1, AssignRequisiteStep, UploadElsewhereStep, CommitStatusStep, CommitPaidStep,
       CommitAppealStep, CommitRejectStep, CommitResolveStep, CommitProviderStep
  <2>2. CASE \/ BeginUpload(p) \/ MerchantUpdate(p) \/ ConfirmFromPaymentPage(p)
             \/ TraderCancelOrder(p) \/ TraderConfirmPaid(p) \/ AdminUpdateStatus(p)
             \/ BeginAppeal(p) \/ BeginCloseAppeal(p) \/ LockAppeal(p)
             \/ BeginProviderCallback(p) \/ DeactivateTrader(p) \/ ReadOpenOrders(p)
             \/ ReadUsage(p) \/ WriteUsage(p) \/ Fail(p)
    BY <2>2 DEF BeginUpload, MerchantUpdate, ConfirmFromPaymentPage,
         TraderCancelOrder, TraderConfirmPaid, AdminUpdateStatus, BeginStatus, BeginPaid,
         BeginAppeal, BeginCloseAppeal, LockAppeal, BeginProviderCallback, DeactivateTrader,
         ReadOpenOrders, ReadUsage, WriteUsage, Fail, Begin, tables, ledgers
  <2> QED BY <1>3, <2>1, <2>2 DEF Handler
<1>4. ASSUME (\E t \in Traders : ActivateTrader(t)) \/ UNCHANGED vars
      PROVE  income' = income
  BY <1>4 DEF ActivateTrader, vars, ledgers
<1> QED BY <1>1, <1>2, <1>3, <1>4 DEF Next

\* While updates of an order do not overlap, no money has moved for an order that
\* still waits for its payment: there is no way back from a settlement to waiting.
THEOREM WaitingUnsettled == Spec /\ []UpdatesApart => []WaitingIsUnsettled
<1>1. Init => WaitingIsUnsettled
  BY DEF Init, WaitingIsUnsettled
<1>2. ASSUME IInv, IInv', WaitingIsUnsettled, FollowsGraph, [Next]_vars
      PROVE  WaitingIsUnsettled'
  <2> SUFFICES ASSUME NEW o \in Requests, order'[o].status \in PreSettlement
               PROVE  income'[o] = 0
    BY DEF WaitingIsUnsettled
  <2>1. income'[o] = income[o]
    BY <1>2, IncomeFollowsStatus DEF PreSettlement, PaidOutcomes
  <2>2. CASE ~Uploaded(o)
    BY <1>2, <2>1, <2>2 DEF IInv, RowInv
  <2>3. CASE Uploaded(o)
    <3>1. order[o].status \in PreSettlement
      <4>1. order[o].status \in PayInOrderStatus
        BY <1>2 DEF IInv, TypeOK, OrderRow
      <4> QED BY <1>2, <2>3, <4>1, EdgeFacts DEF FollowsGraph
    <3> QED BY <1>2, <2>1, <3>1 DEF WaitingIsUnsettled
  <2> QED BY <2>2, <2>3
<1>3. WaitingIsUnsettled /\ UNCHANGED vars => WaitingIsUnsettled'
  BY DEF vars, WaitingIsUnsettled
<1>4. IInv /\ IInv' /\ WaitingIsUnsettled /\ [FollowsGraph]_vars /\ [Next]_vars
        => WaitingIsUnsettled'
  BY <1>2, <1>3
<1> QED BY <1>1, <1>4, Invariance, GraphFollowed, PTL DEF Spec, StatusFollowsGraph

-----------------------------------------------------------------------------
(* One call at a time *)

OneHandler == \A p, q \in Handlers : p = q

\* The kind of call that a step leaves behind when it neither starts an upload
\* nor reads the counters of a requisite.
LEMMA ReadOps ==
    ASSUME IInv, NEW p \in Handlers, NEW j, Reads(p, j), ~Starts(p, j), ~ReadUsage(p)
    PROVE  j.op \notin {"upload", "releasing"}
<1>1. job'[p] = j
  BY ReadFacts DEF Reads
<1>2. CASE LockAppeal(p)
  <2>1. PICK k : Continue(p, k) /\ k.op = "closing"
    BY <1>2 DEF LockAppeal
  <2> QED BY <1>1, <2>1, ReadFacts
<1>3. CASE DeactivateTrader(p)
  <2>1. PICK t \in Traders : Continue(p, [op |-> "deactivate", t |-> t])
    BY <1>3 DEF DeactivateTrader
  <2> QED BY <1>1, <2>1, ReadFacts
<1>4. CASE ReadOpenOrders(p)
  <2>1. \/ Finish(p)
        \/ Continue(p, [op |-> "cancelAll", orders |-> OpenOrdersOf(job[p].t)])
    BY <1>4 DEF ReadOpenOrders
  <2> QED BY <1>1, <2>1, ReadFacts DEF Finish, Idle
<1>5. CASE WriteUsage(p)
  <2>1. \/ Finish(p)
        \/ Continue(p, [op |-> "release", orders |-> job[p].orders])
    BY <1>5 DEF WriteUsage
  <2> QED BY <1>1, <2>1, ReadFacts DEF Finish, Idle
<1>6. CASE Fail(p)
  <2>1. Finish(p)
    BY <1>6 DEF Fail
  <2> QED BY <1>1, <2>1, ReadFacts DEF Finish, Idle
<1> QED BY <1>2, <1>3, <1>4, <1>5, <1>6 DEF Reads

\* With one handler nothing happens between a read and the write it is for, except
\* that a trader is switched on.
LEMMA OneHandlerStep ==
    ASSUME OneHandler, IInv, SerialInv, CandidatesEnabled, SeenIsCurrent, [Next]_vars
    PROVE  CandidatesEnabled' /\ SeenIsCurrent'
<1>1. ASSUME NEW p \in Handlers, NEW j \in Job, Reads(p, j)
      PROVE  CandidatesEnabled' /\ SeenIsCurrent'
  <2>1. job'[p] = j /\ order' = order
    BY <1>1, ReadFacts DEF Reads
  <2>2. \A q \in Handlers : q = p
    BY DEF OneHandler
  <2>3. CASE j.op \notin {"upload", "releasing"}
    BY <2>1, <2>2, <2>3 DEF CandidatesEnabled, SeenIsCurrent
  <2>4. CASE Starts(p, j)
    <3>1. /\ enabled' = enabled /\ j.op # "releasing"
          /\ j.op = "upload" => \A r \in j.picks : enabled[Owner[r]]
      BY <2>4 DEF Starts, tables
    <3> QED BY <2>1, <2>2, <3>1 DEF CandidatesEnabled, SeenIsCurrent
  <2>5. CASE ReadUsage(p)
    <3>1. PICK o \in job[p].orders :
             Continue(p, [op |-> "releasing", o |-> o, orders |-> job[p].orders \ {o},
                          seen |-> [ops |-> requisite[order[o].req].ops,
                                    amount |-> requisite[order[o].req].amount]])
      BY <2>5 DEF ReadUsage
    <3>2. j.op = "releasing" /\ j.o = o /\ j.seen.ops = requisite[order[o].req].ops
      BY <2>1, <3>1, ReadFacts
    <3>3. requisite' = requisite
      BY <2>5 DEF ReadUsage, tables
    <3> QED BY <2>1, <2>2, <3>2, <3>3 DEF CandidatesEnabled, SeenIsCurrent
  <2> QED BY <1>1, <2>3, <2>4, <2>5, ReadOps
<1>2. ASSUME NEW p \in Handlers, job'[p].op \in {"idle", "release"}
      PROVE  CandidatesEnabled' /\ SeenIsCurrent'
  <2>1. \A q \in Handlers : q = p
    BY DEF OneHandler
  <2> QED BY <1>2, <2>1 DEF CandidatesEnabled, SeenIsCurrent
<1>3. ASSUME NEW p \in Handlers, NEW o \in Requests, NEW j \in Job, NEW row,
             Updates(p, o, row, j)
      PROVE  CandidatesEnabled' /\ SeenIsCurrent'
  <2>1. job'[p] = j
    BY <1>3, UpdateFacts
  <2>2. j.op \in {"idle", "release"}
    BY <1>3 DEF Updates, Releases, Idle
  <2> QED BY <1>2, <2>1, <2>2
<1>4. ASSUME NEW p \in Handlers, CommitCancelAll(p)
      PROVE  CandidatesEnabled' /\ SeenIsCurrent'
  <2>1. job'[p] = [op |-> "release", orders |-> job[p].orders]
    BY <1>4, CancelFacts
  <2>2. job'[p].op = "release"
    BY <2>1
  <2> QED BY <1>2, <2>2
<1>5. ASSUME NEW t \in Traders, ActivateTrader(t)
      PROVE  CandidatesEnabled' /\ SeenIsCurrent'
  <2>1. /\ order' = order /\ job' = job /\ requisite' = requisite
        /\ enabled' = [enabled EXCEPT ![t] = TRUE]
    BY <1>5 DEF ActivateTrader
  <2>2. ASSUME NEW s \in Traders, enabled[s] PROVE enabled'[s]
    BY <2>1, <2>2 DEF IInv, TypeOK
  <2>3. ASSUME NEW p \in Handlers, job[p].op = "upload", NEW r \in job[p].picks
        PROVE  enabled'[Owner[r]]
    <3>1. job[p] \in UploadJob
      BY <2>3, JobKinds DEF IInv, TypeOK
    <3>2. r \in Requisites
      BY <3>1 DEF UploadJob
    <3>3. Owner[r] \in Traders
      BY <3>2, ConstantsAssumption
    <3> QED BY <2>2, <2>3, <3>3 DEF CandidatesEnabled
  <2> QED BY <2>1, <2>3 DEF CandidatesEnabled, SeenIsCurrent
<1>6. ASSUME UNCHANGED vars
      PROVE  CandidatesEnabled' /\ SeenIsCurrent'
  BY <1>6 DEF vars, CandidatesEnabled, SeenIsCurrent
<1> QED BY <1>1, <1>3, <1>4, <1>5, <1>6, StepKinds

\* What the theorems above ask of a schedule holds of every schedule in which one
\* call follows another, so that then their conclusions hold outright: the
\* requisite's counters are the orders', the graph and the decisions stand, and a
\* deactivation leaves nothing behind.  Everything those theorems exclude is a race.
THEOREM OneCallAtATime ==
    ASSUME OneHandler
    PROVE  Spec => /\ []ConfirmedMatchesPaid /\ []WaitingIsUnsettled
                   /\ StatusFollowsGraph /\ DecisionIsFinal
                   /\ Undisputed => []UsageMatchesHolders /\ []HoldersWithinLimit
                   /\ (MayFail = FALSE) => []DisabledHasNoOpenOrders
<1>1. UpdatesApart /\ DecisionsApart
  BY DEF OneHandler, UpdatesApart, DecisionsApart
<1>2. Init => CandidatesEnabled /\ SeenIsCurrent
  BY DEF Init, CandidatesEnabled, SeenIsCurrent, Idle
<1>3. IInv /\ SerialInv /\ CandidatesEnabled /\ SeenIsCurrent /\ [Next]_vars
        => CandidatesEnabled' /\ SeenIsCurrent'
  BY OneHandlerStep
<1>4. Spec => []UpdatesApart /\ []DecisionsApart
  BY <1>1, PTL
<1>5. Spec => []CandidatesEnabled /\ []SeenIsCurrent
  BY <1>2, <1>3, <1>4, Invariance, SerialInvariance, PTL DEF Spec
<1>6. Undisputed => (Spec => []UsageMatchesHolders /\ []HoldersWithinLimit)
  <2>1. ASSUME Undisputed
        PROVE  Spec => []UsageMatchesHolders /\ []HoldersWithinLimit
    <3>1. Spec /\ []UpdatesApart /\ []SeenIsCurrent => []UsageMatchesHolders
      BY <2>1, UsageIsHolders
    <3>2. Spec /\ []UpdatesApart /\ []SeenIsCurrent => []HoldersWithinLimit
      BY <2>1, HoldersFitLimit
    <3> QED BY <1>4, <1>5, <3>1, <3>2, PTL
  <2> QED BY <2>1
<1>7. (MayFail = FALSE) => (Spec => []DisabledHasNoOpenOrders)
  <2>1. ASSUME MayFail = FALSE PROVE Spec => []DisabledHasNoOpenOrders
    <3>1. Spec /\ []UpdatesApart /\ []CandidatesEnabled => []DisabledHasNoOpenOrders
      BY <2>1, DeactivationCancelsAll
    <3> QED BY <1>4, <1>5, <3>1, PTL
  <2> QED BY <2>1
<1> QED BY <1>4, <1>6, <1>7, ConfirmedIsSum, WaitingUnsettled, GraphFollowed,
           DecisionsStand, PTL
=============================================================================
