----------------------------- MODULE WalletSweep -----------------------------
(***************************************************************************)
(* The sweep of wallet-sweep.service.ts, over the TRC-20 deposits of       *)
(* WalletDeposits: the funds of a deposit address move to the cold wallet  *)
(* once its deposits are credited.                                         *)
(*                                                                         *)
(* A sweep holds a Redis lock that expires, and deletes the key when it    *)
(* ends, whoever has it by then.  It scans the deposits first, looks for   *)
(* uncredited rows, and reads the balance of the address last.             *)
(***************************************************************************)
EXTENDS WalletDeposits, Sequences

CONSTANTS
    Threshold,      \* sweep.thresholdUsdt, in transfers
    MaxSweeps       \* bound on the rows of wallet_sweep_logs

ASSUME SweepAssumption ==
    /\ Threshold \in Nat \ {0}
    /\ MaxSweeps \in Nat

VARIABLES
    locked,         \* the sweep_lock key exists
    lapsed,         \* it has expired once under a sweep that was not over
    sweep,          \* what each sweeper is in the middle of
    log,            \* wallet_sweep_logs, each row with the transaction it is about
    moved           \* USDT on the cold wallet

sweepVars == <<locked, lapsed, sweep, log, moved>>
vars == <<depositVars, sweepVars>>

-----------------------------------------------------------------------------
WalletSweepStatus == {"PENDING", "BROADCAST", "CONFIRMED", "FAILED"}

SweepLog == [status: WalletSweepStatus, amount: Nat,
             tx: {"none", "sent", "success", "reverted"}]

\* known: what a deposit row existed for when the sweep began, or its scan read.
NoSweep == [phase |-> "idle", known |-> {}, amount |-> 0, row |-> 0]

Sweep == [phase: {"idle", "reconcile", "clear", "funded", "logged", "sent"},
          known: SUBSET Trc20, amount: Nat, row: 0..MaxSweeps]

SweepTypeOK ==
    /\ locked \in BOOLEAN
    /\ lapsed \in BOOLEAN
    /\ sweep \in [TronScans -> Sweep]
    /\ log \in Seq(SweepLog)
    /\ Len(log) <= MaxSweeps
    /\ moved \in 0..Cardinality(Trc20)

SweepInit ==
    /\ DepositInit
    /\ locked = FALSE
    /\ lapsed = FALSE
    /\ sweep = [s \in TronScans |-> NoSweep]
    /\ log = <<>>
    /\ moved = 0

-----------------------------------------------------------------------------
(* The lock *)

Busy(s) == sweep[s].phase # "idle"

Recorded == {t \in Trc20 : row[t].status # "NONE"}

\* Mutant: the key is deleted even by a call that did not get it.
LockOrDelete(s) ==
    /\ ~Busy(s)
    /\ Resting(s)
    /\ locked' = ~locked
    /\ IF locked THEN UNCHANGED <<sweep, scan>>
       ELSE /\ sweep' = [sweep EXCEPT ![s].phase = "reconcile",
                                      ![s].known = Recorded \cup Mined(Trc20)]
            /\ scan' = [scan EXCEPT ![s] = NewScan(head["TRC20"], 0, Mined(Trc20))]
    /\ UNCHANGED <<chain, book, cursor, lapsed, log, moved>>

\* Mutant: the block after the current one is taken for it.
StartSweepAhead(s) ==
    /\ ~Busy(s)
    /\ Resting(s)
    /\ ~locked
    /\ locked' = TRUE
    /\ sweep' = [sweep EXCEPT ![s].phase = "reconcile",
                              ![s].known = Recorded \cup Mined(Trc20)]
    /\ scan' = [scan EXCEPT ![s] = NewScan(head["TRC20"] + 1, 0, Mined(Trc20))]
    /\ UNCHANGED <<chain, book, cursor, lapsed, log, moved>>

\* The timer or a credited deposit starts a sweep, whose scan lists transfers;
\* without the lock the call returns.
StartSweep(s) ==
    /\ ~Busy(s)
    /\ Resting(s)
    /\ ~locked
    /\ locked' = TRUE
    /\ sweep' = [sweep EXCEPT ![s].phase = "reconcile",
                              ![s].known = Recorded \cup Mined(Trc20)]
    /\ scan' = [scan EXCEPT ![s] = NewScan(head["TRC20"], 0, Mined(Trc20))]
    /\ UNCHANGED <<chain, book, cursor, lapsed, log, moved>>

\* TronGrid does not answer the scan, and the sweep goes on.
StartSweepUnanswered(s) ==
    /\ MayFail
    /\ ~Busy(s)
    /\ Resting(s)
    /\ ~locked
    /\ locked' = TRUE
    /\ sweep' = [sweep EXCEPT ![s].phase = "reconcile", ![s].known = Recorded]
    /\ scan' = [scan EXCEPT ![s] = Done(FALSE)]
    /\ UNCHANGED <<chain, book, cursor, lapsed, log, moved>>

\* A transfer of the list that TronGrid does not tell the block of.
SweepSkips(s, t) ==
    /\ Busy(s)
    /\ SkipUnanswered(s, t)
    /\ sweep' = [sweep EXCEPT ![s].known = @ \ {t}]
    /\ UNCHANGED <<locked, lapsed, log, moved>>

LockExpires ==
    /\ locked
    /\ locked' = FALSE
    /\ lapsed' = (lapsed \/ \E s \in TronScans : Busy(s))
    /\ UNCHANGED <<depositVars, sweep, log, moved>>

\* The finally block.
Release(s) ==
    /\ sweep' = [sweep EXCEPT ![s] = NoSweep]
    /\ locked' = FALSE
    /\ UNCHANGED lapsed

-----------------------------------------------------------------------------
(* Up to the balance *)

\* Mutant: only the sweep's own scan is asked, not the table.
NothingPending(s) == ~scan[s].pending

NothingUncredited(s) ==
    /\ ~scan[s].pending
    /\ \A t \in Trc20 : row[t].status \notin {"PENDING", "CONFIRMED"}

CheckUncredited(s) ==
    /\ sweep[s].phase = "reconcile"
    /\ scan[s].phase = "done"
    /\ IF NothingUncredited(s)
       THEN /\ sweep' = [sweep EXCEPT ![s].phase = "clear"]
            /\ UNCHANGED <<locked, lapsed>>
       ELSE Release(s)
    /\ UNCHANGED <<depositVars, log, moved>>

\* The scan has thrown.
ReconcileThrew(s) ==
    /\ sweep[s].phase = "reconcile"
    /\ scan[s] = Idle
    /\ Release(s)
    /\ UNCHANGED <<depositVars, log, moved>>

\* USDT on the address: a rejected transfer has not moved any.
OnAddress == Cardinality(Mined(Trc20 \ rejected)) - moved

\* Below the threshold, or without TRX for the fee, or without an answer, the
\* call returns.
ReadBalance(s) ==
    /\ sweep[s].phase = "clear"
    /\ \/ /\ OnAddress >= Threshold
          /\ sweep' = [sweep EXCEPT ![s].phase = "funded", ![s].amount = OnAddress]
          /\ UNCHANGED <<locked, lapsed>>
       \/ /\ OnAddress < Threshold \/ MayFail
          /\ Release(s)
    /\ UNCHANGED <<depositVars, log, moved>>

-----------------------------------------------------------------------------
(* The transaction and its row *)

CreateLog(s) ==
    /\ sweep[s].phase = "funded"
    /\ Len(log) < MaxSweeps
    /\ log' = Append(log, [status |-> "PENDING", amount |-> sweep[s].amount, tx |-> "none"])
    /\ sweep' = [sweep EXCEPT ![s].phase = "logged", ![s].row = Len(log) + 1]
    /\ UNCHANGED <<depositVars, locked, lapsed, moved>>

Broadcast(s) ==
    /\ sweep[s].phase = "logged"
    /\ log' = [log EXCEPT ![sweep[s].row].tx = "sent"]
    /\ sweep' = [sweep EXCEPT ![s].phase = "sent"]
    /\ UNCHANGED <<depositVars, locked, lapsed, moved>>

\* The row is BROADCAST and the lock goes, though the transaction is in no block
\* yet.
MarkBroadcast(s) ==
    /\ sweep[s].phase = "sent"
    /\ log' = [log EXCEPT ![sweep[s].row].status = "BROADCAST"]
    /\ Release(s)
    /\ UNCHANGED <<depositVars, moved>>

\* A call throws.  After the broadcast the row is FAILED all the same.
SweepThrows(s) ==
    /\ MayFail
    /\ sweep[s].phase \in {"clear", "funded", "logged", "sent"}
    /\ log' = IF sweep[s].row = 0 THEN log
              ELSE [log EXCEPT ![sweep[s].row].status = "FAILED"]
    /\ Release(s)
    /\ UNCHANGED <<depositVars, moved>>

\* The process dies: the lock stays until it expires, the row as it is.
SweeperDies(s) ==
    /\ MayFail
    /\ Busy(s)
    /\ sweep' = [sweep EXCEPT ![s] = NoSweep]
    /\ scan' = [scan EXCEPT ![s] = Idle]
    /\ UNCHANGED <<chain, book, cursor, locked, lapsed, log, moved>>

\* The transaction is mined: it reverts if the address holds less by now.
Include(i) ==
    /\ log[i].tx = "sent"
    /\ IF OnAddress >= log[i].amount
       THEN /\ log' = [log EXCEPT ![i].tx = "success"]
            /\ moved' = moved + log[i].amount
       ELSE /\ log' = [log EXCEPT ![i].tx = "reverted"]
            /\ UNCHANGED moved
    /\ UNCHANGED <<depositVars, locked, lapsed, sweep>>

\* awaitSweepChainConfirmation.  When it gives up, or its process dies, the row
\* stays BROADCAST.
Confirm(i) ==
    /\ log[i].status = "BROADCAST"
    /\ log[i].tx = "success"
    /\ log' = [log EXCEPT ![i].status = "CONFIRMED"]
    /\ UNCHANGED <<depositVars, locked, lapsed, sweep, moved>>

ReceiptFails(i) ==
    /\ log[i].status = "BROADCAST"
    /\ log[i].tx = "reverted"
    /\ log' = [log EXCEPT ![i].status = "FAILED"]
    /\ UNCHANGED <<depositVars, locked, lapsed, sweep, moved>>

-----------------------------------------------------------------------------
\* What the pollers, the administrator and the scans of sweeps do to deposits.
DepositStep ==
    \/ NewBlock("TRC20", Trc20)
    \/ \E t \in Trc20, trader \in Traders : ConfirmManual(t, trader)
    \/ \E s \in TronScans : Work(s) \/ EndTrc20(s)
    \/ \E s \in TronScans :
          /\ ~Busy(s)
          /\ \/ ListTrc20(s) \/ TrongridSilent(s)
             \/ \E t \in Trc20 : SkipUnanswered(s, t)
    \* A poll dies, or a transaction fails under the scan of a sweep.
    \/ \E s \in TronScans : sweep[s].phase \in {"idle", "reconcile"} /\ ScanDies(s)

SweepStep(s) ==
    \/ StartSweep(s) \/ StartSweepUnanswered(s)
    \/ \E t \in Trc20 : SweepSkips(s, t)
    \/ CheckUncredited(s) \/ ReconcileThrew(s) \/ ReadBalance(s)
    \/ CreateLog(s) \/ Broadcast(s) \/ MarkBroadcast(s)
    \/ SweepThrows(s) \/ SweeperDies(s)

SweepNext ==
    \/ DepositStep /\ UNCHANGED sweepVars
    \/ \E s \in TronScans : SweepStep(s)
    \/ \E i \in DOMAIN log : Include(i) \/ Confirm(i) \/ ReceiptFails(i)
    \/ LockExpires

SweepSpec == SweepInit /\ [][SweepNext]_vars

-----------------------------------------------------------------------------
(* Properties *)

\* Two sweeps of an address run at once only if the lock has expired under one:
\* a call that did not get the lock, or ended, never opens it to a third.
OneSweepAtATime ==
    \A s, u \in TronScans : s # u /\ Busy(s) /\ Busy(u) => lapsed

\* From the balance on, a sweep has seen to it that each deposit its scan read,
\* or that had a row when it began, is credited: whichever scan did it.
CreditedBeforeSwept ==
    \A s \in TronScans :
        sweep[s].phase \notin {"idle", "reconcile"} =>
            \A t \in sweep[s].known \ rejected : settled[t] # None

\* Sweeps do to deposits what polls do, and nothing else: all that holds of
\* WalletDeposits holds with sweeps running.
SweepsKeepDeposits == Spec

\* Funds move to the cold wallet only once they are credited.
SweptIsCredited == moved <= Cardinality({t \in Trc20 : settled[t] # None})
=============================================================================
