-------------------------- MODULE WalletSweepProofs --------------------------
(***************************************************************************)
(* Proofs about WalletSweep: sweeps keep to what WalletDeposits allows,    *)
(* the lock keeps them apart until it expires, and what a sweep knew of is *)
(* credited before it reads the balance.                                   *)
(***************************************************************************)
EXTENDS WalletSweep, WalletDepositsProofs

USE SweepAssumption

-----------------------------------------------------------------------------
(* Refinement *)

\* The steps of a sweep that leave deposits and scans alone.
LEMMA OtherSweepSteps ==
    ASSUME \/ \E s \in TronScans :
                 \/ CheckUncredited(s) \/ ReconcileThrew(s) \/ ReadBalance(s)
                 \/ CreateLog(s) \/ Broadcast(s) \/ MarkBroadcast(s) \/ SweepThrows(s)
           \/ \E i \in DOMAIN log : Include(i) \/ Confirm(i) \/ ReceiptFails(i)
           \/ LockExpires
    PROVE  UNCHANGED depositVars
<1>1. ASSUME NEW s \in TronScans,
             \/ CheckUncredited(s) \/ ReconcileThrew(s) \/ ReadBalance(s)
             \/ CreateLog(s) \/ Broadcast(s) \/ MarkBroadcast(s) \/ SweepThrows(s)
      PROVE  UNCHANGED depositVars
  BY <1>1 DEF CheckUncredited, ReconcileThrew, ReadBalance, CreateLog, Broadcast,
              MarkBroadcast, SweepThrows
<1>2. ASSUME NEW i \in DOMAIN log, Include(i) \/ Confirm(i) \/ ReceiptFails(i)
      PROVE  UNCHANGED depositVars
  BY <1>2 DEF Include, Confirm, ReceiptFails
<1>3. CASE LockExpires
  BY <1>3 DEF LockExpires
<1>4. QED
  BY <1>1, <1>2, <1>3

\* The scan of a sweep is a scan like a poll's.
LEMMA SweepScanSteps ==
    ASSUME TypeOK, NEW s \in TronScans
    PROVE  /\ StartSweep(s) => ListTrc20(s)
           /\ StartSweepUnanswered(s) => TrongridSilent(s)
           /\ SweeperDies(s) => ScanDies(s) \/ UNCHANGED depositVars
<1>1. StartSweep(s) => ListTrc20(s)
  BY DEF StartSweep, ListTrc20
<1>2. StartSweepUnanswered(s) => TrongridSilent(s)
  BY DEF StartSweepUnanswered, TrongridSilent
<1>3. ASSUME SweeperDies(s) PROVE ScanDies(s) \/ UNCHANGED depositVars
  <2>1. CASE scan[s] = Idle
    <3>1. [scan EXCEPT ![s] = Idle] = scan
      BY <2>1 DEF TypeOK
    <3>2. QED
      BY <1>3, <3>1 DEF SweeperDies, depositVars
  <2>2. CASE scan[s] # Idle
    BY <1>3, <2>2 DEF SweeperDies, ScanDies
  <2>3. QED
    BY <2>1, <2>2
<1>4. QED
  BY <1>1, <1>2, <1>3

LEMMA DepositSteps == DepositStep => Next
<1>1. TronScans \subseteq Scans /\ Trc20 \subseteq Transfers
  BY DEF Scans, Transfers
<1>2. QED
  BY <1>1 DEF DepositStep, Next

LEMMA StepRefines ==
    ASSUME TypeOK, [SweepNext]_vars
    PROVE  [Next]_depositVars
<1>1. TronScans \subseteq Scans /\ Trc20 \subseteq Transfers
  BY DEF Scans, Transfers
<1>2. CASE UNCHANGED vars
  BY <1>2 DEF vars
<1>3. CASE DepositStep
  BY <1>3, DepositSteps
<1>4. ASSUME NEW s \in TronScans,
             StartSweep(s) \/ StartSweepUnanswered(s) \/ SweeperDies(s)
      PROVE  [Next]_depositVars
  BY <1>1, <1>4, SweepScanSteps DEF Next
<1>5. ASSUME NEW s \in TronScans, NEW t \in Trc20, SweepSkips(s, t)
      PROVE  [Next]_depositVars
  <2>1. SkipUnanswered(s, t)
    BY <1>5 DEF SweepSkips
  <2>2. QED
    BY <1>1, <2>1 DEF Next
<1>6. QED
  BY <1>2, <1>3, <1>4, <1>5, OtherSweepSteps DEF SweepNext, SweepStep

\* Whatever sweeps do, the deposits go through a behaviour that polls and the
\* administrator could have produced.
THEOREM SweepRefines == SweepSpec => SweepsKeepDeposits
<1>1. SweepInit => DepositInit
  BY DEF SweepInit
<1>2. SweepInit => Inv
  BY <1>1, InvInit
<1>3. Inv /\ [SweepNext]_vars => [Next]_depositVars
  BY StepRefines DEF Inv
<1>4. Inv /\ [SweepNext]_vars => Inv'
  BY <1>3, InvStep
<1>5. SweepSpec => []Inv
  BY <1>2, <1>4, PTL DEF SweepSpec
<1>6. QED
  BY <1>1, <1>3, <1>5, PTL DEF SweepSpec, SweepsKeepDeposits, Spec

\* So balances are right with sweeps running.
THEOREM SweepBalanceCorrect == SweepSpec => []BalanceMatchesSettlements
BY SweepRefines, BalanceCorrect DEF SweepsKeepDeposits

-----------------------------------------------------------------------------
(* Types *)

\* What has arrived on the deposit address.
Arrived == Mined(Trc20 \ rejected)

SweepInv ==
    /\ Inv
    /\ locked \in BOOLEAN
    /\ lapsed \in BOOLEAN
    /\ sweep \in [TronScans -> Sweep]
    /\ log \in Seq(SweepLog)
    /\ Len(log) <= MaxSweeps
    /\ moved \in Nat
    /\ moved <= Cardinality(Arrived)

LEMMA TransfersFinite == IsFiniteSet(Trc20) /\ \A S \in SUBSET Trc20 : IsFiniteSet(S)
<1>1. IsFiniteSet(Transfers) /\ Trc20 \in SUBSET Transfers
  BY ConstantsAssumption DEF Transfers
<1>2. IsFiniteSet(Trc20)
  BY <1>1, FS_Subset
<1>3. QED
  BY <1>2, FS_Subset

\* What has arrived does not go.
LEMMA ArrivedGrows ==
    ASSUME Inv, [Next]_depositVars
    PROVE  /\ Arrived \subseteq Arrived' /\ Arrived' \subseteq Trc20
           /\ Cardinality(Arrived) \in Nat /\ Cardinality(Arrived') \in Nat
           /\ Cardinality(Arrived) <= Cardinality(Arrived')
           /\ Cardinality(Arrived') <= Cardinality(Trc20)
<1>1. Arrived \subseteq Trc20 /\ Arrived' \subseteq Trc20
  BY DEF Arrived, Mined
<1>2. Arrived \subseteq Arrived'
  <2>1. CASE UNCHANGED chain
    BY <2>1 DEF Arrived, Mined, Unmined, chain
  <2>2. CASE NewBlock("TRC20", Trc20) \/ NewBlock("ERC20", Erc20)
    BY <2>2 DEF NewBlock, Arrived, Mined, Unmined, Inv, TypeOK, Transfers
  <2>3. QED
    BY <2>1, <2>2, ChainSteps
<1>3. IsFiniteSet(Arrived) /\ IsFiniteSet(Arrived') /\ IsFiniteSet(Trc20)
  BY <1>1, TransfersFinite
<1>4. QED
  BY <1>1, <1>2, <1>3, FS_Subset, FS_CardinalityType

\* A field of a row is written.
LEMMA LogWrite ==
    ASSUME log \in Seq(SweepLog), NEW i,
           \/ \E st \in WalletSweepStatus : log' = [log EXCEPT ![i].status = st]
           \/ \E tx \in {"none", "sent", "success", "reverted"} : log' = [log EXCEPT ![i].tx = tx]
    PROVE  log' \in Seq(SweepLog) /\ Len(log') = Len(log)
<1>1. DOMAIN log = 1..Len(log) /\ \A j \in 1..Len(log) : log[j] \in SweepLog
  OBVIOUS
<1>2. DOMAIN log' = DOMAIN log /\ \A j \in DOMAIN log : log'[j] \in SweepLog
  <2>1. CASE \E st \in WalletSweepStatus : log' = [log EXCEPT ![i].status = st]
    BY <1>1, <2>1 DEF SweepLog
  <2>2. CASE \E tx \in {"none", "sent", "success", "reverted"} : log' = [log EXCEPT ![i].tx = tx]
    BY <1>1, <2>2 DEF SweepLog
  <2>3. QED
    BY <2>1, <2>2
<1>3. log' = [j \in 1..Len(log) |-> log'[j]]
  <2>1. CASE \E st \in WalletSweepStatus : log' = [log EXCEPT ![i].status = st]
    BY <1>1, <2>1
  <2>2. CASE \E tx \in {"none", "sent", "success", "reverted"} : log' = [log EXCEPT ![i].tx = tx]
    BY <1>1, <2>2
  <2>3. QED
    BY <2>1, <2>2
<1>4. Len(log) \in Nat
  OBVIOUS
<1>5. QED
  BY <1>1, <1>2, <1>3, <1>4

LEMMA ArrivedFinite == Cardinality(Arrived) \in Nat
<1>1. Arrived \in SUBSET Trc20
  BY DEF Arrived, Mined
<1>2. QED
  BY <1>1, TransfersFinite, FS_CardinalityType

LEMMA SweepInitInv == SweepInit => SweepInv
<1> SUFFICES ASSUME SweepInit PROVE SweepInv
  OBVIOUS
<1>1. Inv
  BY InvInit DEF SweepInit
<1>2. sweep \in [TronScans -> Sweep]
  BY DEF SweepInit, NoSweep, Sweep
<1>3. log \in Seq(SweepLog) /\ Len(log) = 0
  BY DEF SweepInit
<1>4. moved = 0 /\ 0 <= Cardinality(Arrived) /\ locked = FALSE /\ lapsed = FALSE
  BY ArrivedFinite DEF SweepInit
<1>5. 0 <= MaxSweeps
  OBVIOUS
<1>6. QED
  BY <1>1, <1>2, <1>3, <1>4, <1>5 DEF SweepInv

\* The record of a sweep after a step.
LEMMA SweeperType ==
    ASSUME SweepInv, NEW s \in TronScans, SweepStep(s)
    PROVE  /\ sweep' \in [TronScans -> Sweep]
           /\ locked' \in BOOLEAN /\ lapsed' \in BOOLEAN
<1>1. sweep \in [TronScans -> Sweep] /\ locked \in BOOLEAN /\ lapsed \in BOOLEAN
  BY DEF SweepInv
<1>2. NoSweep \in Sweep
  BY DEF NoSweep, Sweep
<1>3. CASE StartSweep(s) \/ StartSweepUnanswered(s)
  <2>1. Recorded \subseteq Trc20 /\ Mined(Trc20) \subseteq Trc20
    BY DEF Recorded, Mined
  <2>2. PICK known \in SUBSET Trc20 :
            sweep' = [sweep EXCEPT ![s].phase = "reconcile", ![s].known = known]
    BY <1>3, <2>1 DEF StartSweep, StartSweepUnanswered
  <2>3. locked' = TRUE /\ lapsed' = lapsed
    BY <1>3 DEF StartSweep, StartSweepUnanswered
  <2>4. QED
    BY <1>1, <2>2, <2>3 DEF Sweep
<1>4. CASE \E t \in Trc20 : SweepSkips(s, t)
  BY <1>1, <1>4 DEF SweepSkips, Sweep
<1>5. CASE SweeperDies(s) \/ Release(s)
  BY <1>1, <1>2, <1>5 DEF SweeperDies, Release
<1>6. CASE ReadBalance(s) /\ ~Release(s)
  <2>1. OnAddress \in Nat
    <3>1. Cardinality(Arrived) \in Nat /\ moved \in Nat
      BY ArrivedFinite DEF SweepInv
    <3>2. QED
      BY <1>6, <3>1 DEF ReadBalance, OnAddress, Arrived
  <2>2. QED
    BY <1>1, <1>6, <2>1 DEF ReadBalance, Sweep
<1>7. CASE CheckUncredited(s) /\ ~Release(s)
  BY <1>1, <1>7 DEF CheckUncredited, Sweep
<1>8. CASE CreateLog(s)
  <2>1. Len(log) + 1 \in 0..MaxSweeps
    BY <1>8 DEF CreateLog, SweepInv
  <2>2. QED
    BY <1>1, <1>8, <2>1 DEF CreateLog, Sweep
<1>9. CASE Broadcast(s)
  BY <1>1, <1>9 DEF Broadcast, Sweep
<1>10. QED
  BY <1>3, <1>4, <1>5, <1>6, <1>7, <1>8, <1>9
     DEF SweepStep, ReconcileThrew, MarkBroadcast, SweepThrows

LEMMA LogType ==
    ASSUME SweepInv, [SweepNext]_vars
    PROVE  /\ log' \in Seq(SweepLog) /\ Len(log') <= MaxSweeps
<1>1. log \in Seq(SweepLog) /\ Len(log) <= MaxSweeps
  BY DEF SweepInv
<1>2. CASE log' = log
  BY <1>1, <1>2
<1>3. ASSUME NEW s \in TronScans, CreateLog(s)
      PROVE  log' \in Seq(SweepLog) /\ Len(log') <= MaxSweeps
  <2>1. [status |-> "PENDING", amount |-> sweep[s].amount, tx |-> "none"] \in SweepLog
    BY DEF SweepInv, Sweep, SweepLog, WalletSweepStatus
  <2>2. QED
    BY <1>1, <1>3, <2>1 DEF CreateLog
<1>4. ASSUME NEW s \in TronScans, Broadcast(s) \/ MarkBroadcast(s) \/ (SweepThrows(s) /\ log' # log)
      PROVE  log' \in Seq(SweepLog) /\ Len(log') <= MaxSweeps
  BY <1>1, <1>4, LogWrite DEF Broadcast, MarkBroadcast, SweepThrows, WalletSweepStatus
<1>5. ASSUME NEW i \in DOMAIN log, Include(i) \/ Confirm(i) \/ ReceiptFails(i)
      PROVE  log' \in Seq(SweepLog) /\ Len(log') <= MaxSweeps
  BY <1>1, <1>5, LogWrite DEF Include, Confirm, ReceiptFails, WalletSweepStatus
<1>6. ASSUME NEW s \in TronScans,
             \/ StartSweep(s) \/ StartSweepUnanswered(s) \/ SweeperDies(s)
             \/ \E t \in Trc20 : SweepSkips(s, t)
             \/ CheckUncredited(s) \/ ReconcileThrew(s) \/ ReadBalance(s)
      PROVE  log' = log
  BY <1>6 DEF StartSweep, StartSweepUnanswered, SweeperDies, SweepSkips, CheckUncredited,
              ReconcileThrew, ReadBalance
<1>7. QED
  BY <1>2, <1>3, <1>4, <1>5, <1>6
     DEF SweepNext, SweepStep, LockExpires, sweepVars, vars

\* Funds leave the address only if they are there when the transaction is mined.
LEMMA MovedType ==
    ASSUME SweepInv, [SweepNext]_vars
    PROVE  moved' \in Nat /\ moved' <= Cardinality(Arrived')
<1>1. [Next]_depositVars
  BY StepRefines DEF SweepInv, Inv
<1>2. /\ moved \in Nat /\ moved <= Cardinality(Arrived)
      /\ Cardinality(Arrived) \in Nat /\ Cardinality(Arrived') \in Nat
      /\ Cardinality(Arrived) <= Cardinality(Arrived')
  BY <1>1, ArrivedGrows DEF SweepInv
<1>3. CASE moved' = moved
  BY <1>2, <1>3
<1>4. ASSUME NEW i \in DOMAIN log, Include(i) \/ Confirm(i) \/ ReceiptFails(i)
      PROVE  moved' \in Nat /\ moved' <= Cardinality(Arrived')
  <2>1. log[i].amount \in Nat
    <3>1. log[i] \in SweepLog
      BY <1>4 DEF SweepInv
    <3>2. QED
      BY <3>1 DEF SweepLog
  <2>2. CASE moved' = moved + log[i].amount /\ OnAddress >= log[i].amount
    BY <1>2, <2>1, <2>2 DEF OnAddress, Arrived
  <2>3. QED
    BY <1>3, <1>4, <2>2 DEF Include, Confirm, ReceiptFails
<1>5. ASSUME NEW s \in TronScans, SweepStep(s)
      PROVE  moved' = moved
  BY <1>5 DEF SweepStep, StartSweep, StartSweepUnanswered, SweeperDies, SweepSkips,
              CheckUncredited, ReconcileThrew, ReadBalance, CreateLog, Broadcast,
              MarkBroadcast, SweepThrows
<1>6. QED
  BY <1>3, <1>4, <1>5 DEF SweepNext, LockExpires, sweepVars, vars

LEMMA SweepInvStep == ASSUME SweepInv, [SweepNext]_vars PROVE SweepInv'
<1>1. Inv' /\ [Next]_depositVars
  BY StepRefines, InvStep DEF SweepInv, Inv
<1>2. sweep' \in [TronScans -> Sweep] /\ locked' \in BOOLEAN /\ lapsed' \in BOOLEAN
  <2>1. CASE \E s \in TronScans : SweepStep(s)
    BY <2>1, SweeperType
  <2>2. CASE UNCHANGED sweepVars
    BY <2>2 DEF sweepVars, SweepInv
  <2>3. CASE LockExpires
    BY <2>3 DEF LockExpires, SweepInv
  <2>4. CASE \E i \in DOMAIN log : Include(i) \/ Confirm(i) \/ ReceiptFails(i)
    BY <2>4 DEF Include, Confirm, ReceiptFails, SweepInv
  <2>5. QED
    BY <2>1, <2>2, <2>3, <2>4 DEF SweepNext, vars
<1>3. QED
  BY <1>1, <1>2, LogType, MovedType DEF SweepInv

\* The inductive invariant of a sweep holds in every reachable state.
THEOREM SweepInvHolds == SweepSpec => []SweepInv
BY SweepInitInv, SweepInvStep, PTL DEF SweepSpec

\* Every reachable state of a sweep is of its type: no sweep moves more than has
\* arrived.
THEOREM SweepTypeCorrect == SweepSpec => []SweepTypeOK
<1>1. SweepInv => SweepTypeOK
  <2> SUFFICES ASSUME SweepInv PROVE SweepTypeOK
    OBVIOUS
  <2>1. /\ Cardinality(Arrived) <= Cardinality(Trc20)
        /\ Cardinality(Arrived) \in Nat /\ Cardinality(Trc20) \in Nat
    <3>1. Arrived \subseteq Trc20
      BY DEF Arrived, Mined
    <3>2. QED
      BY <3>1, TransfersFinite, FS_Subset, FS_CardinalityType
  <2>2. QED
    BY <2>1 DEF SweepInv, SweepTypeOK
<1>2. QED
  BY <1>1, SweepInvHolds, PTL

-----------------------------------------------------------------------------
(* The lock *)

\* Until the lock has expired under a sweep, a sweep that is not over has it.
LockInv ==
    ~lapsed => /\ \A s, u \in TronScans : Busy(s) /\ Busy(u) => s = u
               /\ \A s \in TronScans : Busy(s) => locked

LEMMA LockStep ==
    ASSUME SweepInv, LockInv, [SweepNext]_vars
    PROVE  LockInv'
<1>1. sweep \in [TronScans -> Sweep]
  BY DEF SweepInv
<1>2. ASSUME NEW s \in TronScans, StartSweep(s) \/ StartSweepUnanswered(s)
      PROVE  LockInv'
  <2>1. /\ ~locked /\ locked' = TRUE /\ lapsed' = lapsed
        /\ \A u \in TronScans \ {s} : sweep'[u] = sweep[u]
    BY <1>1, <1>2 DEF StartSweep, StartSweepUnanswered
  <2>2. QED
    BY <2>1 DEF LockInv, Busy
<1>3. ASSUME NEW s \in TronScans, Release(s), Busy(s)
      PROVE  LockInv'
  <2>1. /\ lapsed' = lapsed /\ sweep'[s].phase = "idle"
        /\ \A u \in TronScans \ {s} : sweep'[u] = sweep[u]
    BY <1>1, <1>3 DEF Release, NoSweep
  <2>2. QED
    BY <1>3, <2>1 DEF LockInv, Busy
<1>4. ASSUME NEW s \in TronScans, Busy(s), UNCHANGED <<locked, lapsed>>,
             \A u \in TronScans \ {s} : sweep'[u] = sweep[u]
      PROVE  LockInv'
  BY <1>4 DEF LockInv, Busy
<1>5. ASSUME NEW s \in TronScans,
             \/ \E t \in Trc20 : SweepSkips(s, t)
             \/ CheckUncredited(s) \/ ReconcileThrew(s) \/ ReadBalance(s)
             \/ CreateLog(s) \/ Broadcast(s) \/ MarkBroadcast(s)
             \/ SweepThrows(s) \/ SweeperDies(s)
      PROVE  LockInv'
  <2>1. Busy(s)
    BY <1>5 DEF Busy, SweepSkips, CheckUncredited, ReconcileThrew, ReadBalance, CreateLog,
                Broadcast, MarkBroadcast, SweepThrows, SweeperDies
  <2>2. CASE Release(s)
    BY <1>3, <2>1, <2>2
  <2>3. CASE ~Release(s)
    <3>1. \A u \in TronScans \ {s} : sweep'[u] = sweep[u]
      BY <1>1, <1>5, <2>3 DEF SweepSkips, CheckUncredited, ReconcileThrew, ReadBalance,
              CreateLog, Broadcast, MarkBroadcast, SweepThrows, SweeperDies
    <3>2. UNCHANGED <<locked, lapsed>>
      BY <1>5, <2>3 DEF SweepSkips, CheckUncredited, ReconcileThrew, ReadBalance,
              CreateLog, Broadcast, MarkBroadcast, SweepThrows, SweeperDies
    <3>3. QED
      BY <1>4, <2>1, <3>1, <3>2
  <2>4. QED
    BY <2>2, <2>3
<1>6. CASE LockExpires
  <2>1. sweep' = sweep /\ lapsed' = (lapsed \/ \E s \in TronScans : Busy(s))
    BY <1>6 DEF LockExpires
  <2>2. QED
    BY <2>1 DEF LockInv, Busy
<1>7. CASE UNCHANGED <<locked, lapsed, sweep>>
  BY <1>7 DEF LockInv, Busy
<1>8. ASSUME NEW i \in DOMAIN log, Include(i) \/ Confirm(i) \/ ReceiptFails(i)
      PROVE  UNCHANGED <<locked, lapsed, sweep>>
  BY <1>8 DEF Include, Confirm, ReceiptFails
<1>9. QED
  BY <1>2, <1>5, <1>6, <1>7, <1>8 DEF SweepNext, SweepStep, sweepVars, vars

\* Two sweeps of an address at once need a lock that expired under one of them.
THEOREM LockCorrect == SweepSpec => []OneSweepAtATime
<1>1. SweepInit => LockInv
  BY DEF SweepInit, LockInv, Busy, NoSweep
<1>2. LockInv => OneSweepAtATime
  BY DEF LockInv, OneSweepAtATime
<1>3. QED
  BY <1>1, <1>2, LockStep, SweepInvHolds, PTL DEF SweepSpec

-----------------------------------------------------------------------------
(* What a sweep knows of *)

\* While a sweep's scan lasts, each deposit it knows of has a row or is in hand;
\* once the sweep has looked for uncredited rows, each is credited or rejected.
KnownInv(s) ==
    /\ sweep[s].phase = "reconcile" /\ scan[s] # Idle =>
           \A t \in sweep[s].known :
               row[t].status # "NONE" \/ (scan[s].phase # "done" /\ InHand(s, t))
    /\ sweep[s].phase \notin {"idle", "reconcile"} =>
           \A t \in sweep[s].known : t \in rejected \/ settled[t] # None

\* Settlements and rejections stay.
LEMMA SettledStays ==
    ASSUME Inv, [Next]_depositVars
    PROVE  \A t \in Transfers : /\ t \in rejected => t \in rejected'
                                /\ settled[t] # None => settled'[t] # None
<1>1. None \notin Traders /\ settled \in [Transfers -> Traders \cup {None}]
  BY ConstantsAssumption DEF Inv, TypeOK
<1>2. \A t \in Transfers : settled[t] # None => settled'[t] # None
  BY <1>1, Bookings DEF Book
<1>3. rejected \subseteq rejected'
  BY ChainSteps DEF NewBlock, chain
<1>4. QED
  BY <1>2, <1>3

\* A step that leaves a sweep and its scan alone, or is one of its scan.
LEMMA KnownStays ==
    ASSUME SweepInv, [Next]_depositVars, NEW s \in TronScans, KnownInv(s),
           sweep'[s].known \subseteq sweep[s].known, sweep'[s].known \subseteq Trc20,
           \/ sweep'[s].phase = sweep[s].phase
           \/ sweep[s].phase \notin {"idle", "reconcile"} /\ sweep'[s].phase # "reconcile",
           sweep'[s].phase # "reconcile" \/ scan'[s] = scan[s] \/ scan'[s] = Idle \/ Work(s)
    PROVE  KnownInv(s)'
<1>1. s \in Scans /\ Trc20 \subseteq Transfers /\ Inv
  BY DEF Scans, Transfers, SweepInv
<1>2. \A t \in Transfers : /\ row[t].status # "NONE" => row'[t].status # "NONE"
                           /\ t \in rejected => t \in rejected'
                           /\ settled[t] # None => settled'[t] # None
  BY <1>1, RowsStay, SettledStays
<1>3. ASSUME sweep'[s].phase = "reconcile", scan'[s] # Idle, NEW t \in sweep'[s].known
      PROVE  row'[t].status # "NONE" \/ (scan'[s].phase # "done" /\ InHand(s, t)')
  <2>1. sweep[s].phase = "reconcile" /\ t \in sweep[s].known /\ t \in Transfers
    BY <1>1, <1>3
  <2>2. CASE scan'[s] = scan[s]
    BY <1>2, <1>3, <2>1, <2>2 DEF KnownInv, InHand
  <2>3. CASE Work(s)
    <3>1. scan[s].phase \in {"next", "row"}
      BY <2>3 DEF Work, ProcessRow, CreditThrows, AlreadyCredited, SkipFinal, ReadRow,
                  MarkFailed, Observe, Credit, EnoughConfirmations
    <3>2. scan[s] # Idle
      BY <3>1 DEF Idle
    <3>3. InHand(s, t)
      BY <2>1, <3>2 DEF KnownInv, InHand
    <3>4. QED
      BY <1>1, <1>3, <2>1, <2>3, <3>3, WorkInHand
  <2>4. QED
    BY <1>3, <2>2, <2>3
<1>4. ASSUME sweep'[s].phase \notin {"idle", "reconcile"}, NEW t \in sweep'[s].known
      PROVE  t \in rejected' \/ settled'[t] # None
  <2>1. t \in Transfers /\ t \in sweep[s].known /\ sweep[s].phase \notin {"idle", "reconcile"}
    BY <1>1, <1>4
  <2>2. QED
    BY <1>2, <2>1 DEF KnownInv
<1>5. QED
  BY <1>3, <1>4 DEF KnownInv

\* The look for uncredited rows.
LEMMA CheckKnown ==
    ASSUME SweepInv, NEW s \in TronScans, KnownInv(s), CheckUncredited(s), ~Release(s)
    PROVE  KnownInv(s)'
<1>1. sweep' = [sweep EXCEPT ![s].phase = "clear"] /\ sweep \in [TronScans -> Sweep]
  BY DEF CheckUncredited, SweepInv
<1>2. sweep'[s].phase = "clear" /\ sweep'[s].known = sweep[s].known /\ sweep[s].known \subseteq Trc20
  BY <1>1 DEF Sweep
<1>3. UNCHANGED <<row, settled, rejected>>
  BY DEF CheckUncredited, depositVars, book, chain
<1>4. scan[s].phase = "done" /\ scan[s] # Idle /\ sweep[s].phase = "reconcile"
  BY DEF CheckUncredited, Idle
<1>5. ASSUME NEW t \in sweep[s].known
      PROVE  t \in rejected \/ settled[t] # None
  <2>1. row[t].status # "NONE" /\ t \in Trc20 /\ t \in Transfers
    BY <1>2, <1>4, <1>5 DEF KnownInv, Transfers
  <2>2. row[t].status \notin {"PENDING", "CONFIRMED"}
    BY <2>1 DEF CheckUncredited, NothingUncredited, Release
  <2>3. row[t] \in DepositRow /\ RowInv
    BY <2>1 DEF SweepInv, Inv, TypeOK
  <2>4. QED
    BY <2>1, <2>2, <2>3 DEF RowInv, DepositRow, WalletDepositStatus
<1>6. QED
  BY <1>2, <1>3, <1>5 DEF KnownInv

\* A sweep begins.
LEMMA StartKnown ==
    ASSUME SweepInv, NEW s \in TronScans, StartSweep(s) \/ StartSweepUnanswered(s)
    PROVE  KnownInv(s)'
<1>1. sweep \in [TronScans -> Sweep] /\ scan \in [Scans -> Scan \cup {Idle}] /\ s \in Scans
  BY DEF SweepInv, Inv, TypeOK, Scans
<1>2. row' = row /\ sweep'[s].phase = "reconcile"
  BY <1>1 DEF StartSweep, StartSweepUnanswered, book, Sweep
<1>3. CASE StartSweep(s)
  <2>1. /\ sweep'[s].known = Recorded \cup Mined(Trc20)
        /\ scan'[s] = NewScan(head["TRC20"], 0, Mined(Trc20))
    BY <1>1, <1>3 DEF StartSweep, Sweep
  <2>2. QED
    BY <1>2, <2>1 DEF KnownInv, InHand, NewScan, Recorded
<1>4. CASE StartSweepUnanswered(s)
  <2>1. sweep'[s].known = Recorded
    BY <1>1, <1>4 DEF StartSweepUnanswered, Sweep
  <2>2. QED
    BY <1>2, <2>1 DEF KnownInv, Recorded
<1>5. QED
  BY <1>3, <1>4

\* What the steps of s do to its own record, when it is neither starting nor
\* looking for uncredited rows.
LEMMA OwnSteps ==
    ASSUME SweepInv, NEW s \in TronScans,
           \/ \E t \in Trc20 : SweepSkips(s, t)
           \/ Release(s)
           \/ ReadBalance(s) \/ CreateLog(s) \/ Broadcast(s) \/ SweeperDies(s)
    PROVE  \/ sweep'[s] = NoSweep
           \/ /\ sweep[s].phase \notin {"idle", "reconcile"}
              /\ sweep'[s].phase \notin {"idle", "reconcile"}
              /\ sweep'[s].known = sweep[s].known
           \/ \E t \in Trc20 : /\ SkipUnanswered(s, t)
                               /\ sweep'[s].phase = sweep[s].phase
                               /\ sweep'[s].known = sweep[s].known \ {t}
<1>1. sweep \in [TronScans -> Sweep] /\ sweep[s] \in Sweep
  BY DEF SweepInv
<1>2. CASE Release(s) \/ SweeperDies(s)
  BY <1>1, <1>2 DEF Release, SweeperDies
<1>3. CASE ReadBalance(s)
  BY <1>1, <1>2, <1>3 DEF ReadBalance, Sweep
<1>4. CASE CreateLog(s) \/ Broadcast(s)
  BY <1>1, <1>4 DEF CreateLog, Broadcast, Sweep
<1>5. ASSUME NEW t \in Trc20, SweepSkips(s, t)
      PROVE  /\ SkipUnanswered(s, t)
             /\ sweep'[s].phase = sweep[s].phase
             /\ sweep'[s].known = sweep[s].known \ {t}
  BY <1>1, <1>5 DEF SweepSkips, Sweep
<1>6. QED
  BY <1>2, <1>3, <1>4, <1>5

\* A transfer that the scan drops is no longer known.
LEMMA SkipKnown ==
    ASSUME SweepInv, NEW s \in TronScans, KnownInv(s), NEW t \in Trc20, SkipUnanswered(s, t),
           sweep'[s].phase = sweep[s].phase, sweep'[s].known = sweep[s].known \ {t}
    PROVE  KnownInv(s)'
<1>1. scan \in [Scans -> Scan \cup {Idle}] /\ s \in Scans /\ scan[s] \in Scan /\ scan[s] # Idle
  <2>1. s \in Scans /\ scan[s].phase # "idle"
    BY DEF SkipUnanswered, Scans
  <2>2. QED
    BY <2>1, RunningType DEF SweepInv, Inv, TypeOK, Idle
<1>2. /\ scan' = [scan EXCEPT ![s].todo = @ \ {t}]
      /\ UNCHANGED <<row, settled, rejected>> /\ scan[s].phase = "next"
  BY DEF SkipUnanswered, book, chain
<1>3. scan'[s].phase = "next" /\ scan'[s].todo = scan[s].todo \ {t}
  BY <1>1, <1>2 DEF Scan
<1>4. QED
  BY <1>1, <1>2, <1>3 DEF KnownInv, InHand

\* The scan of a sweep comes to its end.
LEMMA EndKnown ==
    ASSUME SweepInv, NEW s \in TronScans, KnownInv(s), EndTrc20(s), sweep' = sweep
    PROVE  KnownInv(s)'
<1>1. UNCHANGED <<row, settled, rejected>> /\ scan[s].phase = "next" /\ scan[s].todo = {}
  BY DEF EndTrc20, book, chain
<1>2. scan[s] # Idle
  BY <1>1 DEF Idle
<1>3. QED
  BY <1>1, <1>2 DEF KnownInv, InHand

LEMMA KnownStep ==
    ASSUME SweepInv, [SweepNext]_vars, NEW s \in TronScans, KnownInv(s)
    PROVE  KnownInv(s)'
<1>1. [Next]_depositVars
  BY StepRefines DEF SweepInv, Inv
<1>2. /\ sweep \in [TronScans -> Sweep] /\ scan \in [Scans -> Scan \cup {Idle}]
      /\ s \in Scans /\ sweep[s].known \subseteq Trc20
  BY DEF SweepInv, Inv, TypeOK, Sweep, Scans
<1>3. CASE sweep'[s] = sweep[s] /\ (scan'[s] = scan[s] \/ scan'[s] = Idle \/ Work(s))
  BY <1>1, <1>2, <1>3, KnownStays
<1>4. CASE sweep'[s] = NoSweep
  BY <1>4 DEF KnownInv, NoSweep
<1>5. CASE SweepStep(s)
  <2>1. CASE StartSweep(s) \/ StartSweepUnanswered(s)
    BY <2>1, StartKnown
  <2>2. CASE CheckUncredited(s) /\ ~Release(s)
    BY <2>2, CheckKnown
  <2>3. CASE \/ \E t \in Trc20 : SweepSkips(s, t)
             \/ Release(s)
             \/ ReadBalance(s) \/ CreateLog(s) \/ Broadcast(s) \/ SweeperDies(s)
    <3>1. CASE /\ sweep[s].phase \notin {"idle", "reconcile"}
               /\ sweep'[s].phase \notin {"idle", "reconcile"}
               /\ sweep'[s].known = sweep[s].known
      BY <1>1, <1>2, <3>1, KnownStays
    <3>2. ASSUME NEW t \in Trc20, SkipUnanswered(s, t), sweep'[s].phase = sweep[s].phase,
                 sweep'[s].known = sweep[s].known \ {t}
          PROVE  KnownInv(s)'
      BY <3>2, SkipKnown
    <3>3. QED
      BY <1>4, <2>3, <3>1, <3>2, OwnSteps
  <2>4. QED
    BY <1>5, <2>1, <2>2, <2>3 DEF SweepStep, ReconcileThrew, MarkBroadcast, SweepThrows
<1>6. ASSUME NEW u \in TronScans, u # s, SweepStep(u)
      PROVE  sweep'[s] = sweep[s] /\ scan'[s] = scan[s]
  <2>1. u \in Scans
    BY DEF Scans
  <2>2. sweep'[s] = sweep[s]
    BY <1>2, <1>6 DEF SweepStep, StartSweep, StartSweepUnanswered, SweepSkips, CheckUncredited,
            ReconcileThrew, ReadBalance, CreateLog, Broadcast, MarkBroadcast, SweepThrows,
            SweeperDies, Release
  <2>3. CASE StartSweep(u) \/ StartSweepUnanswered(u) \/ SweeperDies(u)
             \/ \E t \in Trc20 : SweepSkips(u, t)
    BY <1>2, <1>6, <2>1, <2>3
       DEF StartSweep, StartSweepUnanswered, SweeperDies, SweepSkips, SkipUnanswered
  <2>4. CASE \/ CheckUncredited(u) \/ ReconcileThrew(u) \/ ReadBalance(u)
             \/ CreateLog(u) \/ Broadcast(u) \/ MarkBroadcast(u) \/ SweepThrows(u)
    <3>1. UNCHANGED depositVars
      BY <2>4, OtherSweepSteps
    <3>2. QED
      BY <2>2, <3>1 DEF depositVars
  <2>5. QED
    BY <1>6, <2>2, <2>3, <2>4 DEF SweepStep
<1>7. CASE DepositStep /\ UNCHANGED sweepVars
  <2>1. sweep' = sweep
    BY <1>7 DEF sweepVars
  <2>2. CASE EndTrc20(s)
    BY <2>1, <2>2, EndKnown
  <2>3. CASE ~Busy(s)
    BY <2>1, <2>3 DEF KnownInv, Busy
  <2>4. CASE Busy(s) /\ ~EndTrc20(s)
    <3>1. CASE NewBlock("TRC20", Trc20) \/ \E t \in Trc20, trader \in Traders : ConfirmManual(t, trader)
      BY <1>3, <2>1, <3>1 DEF NewBlock, ConfirmManual
    <3>2. CASE Work(s) \/ ScanDies(s)
      BY <1>2, <1>3, <2>1, <3>2 DEF ScanDies
    <3>3. ASSUME NEW u \in TronScans, u # s, u \in Scans,
                 \/ Work(u) \/ EndTrc20(u) \/ ListTrc20(u) \/ TrongridSilent(u)
                 \/ \E t \in Trc20 : SkipUnanswered(u, t)
                 \/ ScanDies(u)
          PROVE  scan'[s] = scan[s]
      <4>1. CASE Work(u)
        BY <1>2, <3>3, <4>1, WorkOfOne DEF SweepInv
      <4>2. CASE ~Work(u)
        BY <1>2, <3>3, <4>2 DEF EndTrc20, ListTrc20, TrongridSilent, SkipUnanswered, ScanDies
      <4>3. QED
        BY <4>1, <4>2
    <3>4. TronScans \subseteq Scans
      BY DEF Scans
    <3>5. QED
      BY <1>3, <1>7, <2>1, <2>4, <3>1, <3>2, <3>3, <3>4 DEF DepositStep
  <2>5. QED
    BY <2>2, <2>3, <2>4
<1>8. CASE LockExpires \/ (\E i \in DOMAIN log : Include(i) \/ Confirm(i) \/ ReceiptFails(i))
           \/ UNCHANGED vars
  <2>1. sweep' = sweep /\ UNCHANGED depositVars
    BY <1>8 DEF LockExpires, Include, Confirm, ReceiptFails, vars, sweepVars
  <2>2. QED
    BY <1>3, <2>1 DEF depositVars
<1>9. QED
  BY <1>3, <1>5, <1>6, <1>7, <1>8 DEF SweepNext

\* Before it reads the balance, a sweep has seen each deposit it knew of credited,
\* whoever credited it and however many scans went over the row meanwhile.
THEOREM KnownCorrect == SweepSpec => []CreditedBeforeSwept
<1> DEFINE Known == \A s \in TronScans : KnownInv(s)
<1>1. SweepInit => Known
  BY DEF SweepInit, KnownInv, NoSweep
<1>2. SweepInv /\ Known /\ [SweepNext]_vars => Known'
  BY KnownStep
<1>3. SweepInv /\ Known => CreditedBeforeSwept
  BY DEF KnownInv, CreditedBeforeSwept
<1>4. QED
  BY <1>1, <1>2, <1>3, SweepInvHolds, PTL DEF SweepSpec
=============================================================================
