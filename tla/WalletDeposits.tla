---------------------------- MODULE WalletDeposits ----------------------------
(***************************************************************************)
(* USDT deposits of traders: the TRC-20 scan of wallet-deposits.service.ts *)
(* that the Tron poller and the sweep run, the ERC-20 poller with its      *)
(* block cursor, and the administrator's manual confirmation.              *)
(*                                                                         *)
(* A scan lists transfers once and then works through them, reading the    *)
(* deposit row of each and writing it in separate steps.  Scans overlap:   *)
(* a timer starts one whether or not the last is over, and each sweep runs *)
(* its own.  Only the credit is one serializable transaction.              *)
(***************************************************************************)
EXTENDS Integers, FiniteSets

CONSTANTS
    Traders,
    Trc20, Erc20,   \* transfers to deposit addresses, by their tx hash
    Owner,          \* the trader whose address a transfer goes to
    TronScans,      \* scans of TRC-20 transfers that may overlap
    EthScans,       \* scans of ERC-20 logs that may overlap
    MinConf,        \* minConfirmations of both networks
    Chunk,          \* maxLogsBlockRange
    MaxBlock,       \* bound on the height of the chains
    MayFail,        \* a process may die, the database or a node not answer
    LogsMayFail,    \* eth_getLogs may fail
    None

Transfers == Trc20 \cup Erc20

Scans == TronScans \cup EthScans

ASSUME ConstantsAssumption ==
    /\ Trc20 \cap Erc20 = {}
    /\ IsFiniteSet(Transfers)
    /\ TronScans \cap EthScans = {}
    /\ Owner \in [Transfers -> Traders]
    /\ MinConf \in Nat \ {0}
    /\ Chunk \in Nat \ {0}
    /\ MaxBlock \in Nat
    /\ MayFail \in BOOLEAN
    /\ LogsMayFail \in BOOLEAN
    /\ None \notin Traders \cup Transfers

VARIABLES
    head,           \* height of each chain
    block,          \* block of a transfer, 0 before it is mined
    rejected,       \* mined TRC-20 transactions whose receipt is not SUCCESS
    row,            \* deposits, by tx hash
    settled,        \* trader of the settlement linked to a deposit row
    balance,        \* USDT credited to each trader, in transfers
    scan,           \* what each scan is in the middle of
    cursor,         \* last processed block of the ERC-20 poller
    excused         \* transfers credited on an administrator's word, or while
                    \* TronGrid did not tell their receipt

chain == <<head, block, rejected>>
book == <<row, settled, balance, excused>>
depositVars == <<chain, book, scan, cursor>>

-----------------------------------------------------------------------------
(* Rows and scans *)

WalletDepositStatus == {"PENDING", "CONFIRMED", "CREDITED", "FAILED"}

DepositRow == [status: WalletDepositStatus \cup {"NONE"}, traderId: Traders \cup {None}]

NoRow == [status |-> "NONE", traderId |-> None]

Idle == [phase |-> "idle"]

\* existing is the trader of the row as it was read, None when there was none.
Scan == [phase: {"next", "row", "done"}, head: 0..MaxBlock, toBlock: 0..MaxBlock,
         todo: SUBSET Transfers, tx: Transfers \cup {None},
         existing: Traders \cup {None}, pending: BOOLEAN]

NewScan(height, toBlock, listed) ==
    [phase |-> "next", head |-> height, toBlock |-> toBlock, todo |-> listed,
     tx |-> None, existing |-> None, pending |-> FALSE]

\* A scan that is over: pending says whether it left deposits unconfirmed.
Done(pending) ==
    [phase |-> "done", head |-> 0, toBlock |-> 0, todo |-> {},
     tx |-> None, existing |-> None, pending |-> pending]

TypeOK ==
    /\ head \in [{"TRC20", "ERC20"} -> 0..MaxBlock]
    /\ block \in [Transfers -> 0..MaxBlock]
    /\ rejected \subseteq Trc20
    /\ row \in [Transfers -> DepositRow]
    /\ settled \in [Transfers -> Traders \cup {None}]
    /\ balance \in [Traders -> Nat]
    /\ scan \in [Scans -> Scan \cup {Idle}]
    /\ cursor \in 0..MaxBlock
    /\ excused \subseteq Transfers

DepositInit ==
    /\ head = [n \in {"TRC20", "ERC20"} |-> 0]
    /\ block = [t \in Transfers |-> 0]
    /\ rejected = {}
    /\ row = [t \in Transfers |-> NoRow]
    /\ settled = [t \in Transfers |-> None]
    /\ balance = [tr \in Traders |-> 0]
    /\ scan = [s \in Scans |-> Idle]
    /\ cursor = 0
    /\ excused = {}

-----------------------------------------------------------------------------
(* The chains *)

Unmined(transfers) == {t \in transfers : block[t] = 0}

Mined(transfers) == transfers \ Unmined(transfers)

NewBlock(network, transfers) ==
    /\ head[network] < MaxBlock
    /\ head' = [head EXCEPT ![network] = @ + 1]
    /\ \E included \in SUBSET Unmined(transfers) :
           /\ block' = [t \in Transfers |->
                            IF t \in included THEN head[network] + 1 ELSE block[t]]
           /\ \E failed \in SUBSET (included \cap Trc20) : rejected' = rejected \cup failed
    /\ UNCHANGED <<book, scan, cursor>>

Height(t) == IF t \in Trc20 THEN head["TRC20"] ELSE head["ERC20"]

Deep(t) == block[t] > 0 /\ Height(t) - block[t] + 1 >= MinConf

-----------------------------------------------------------------------------
(* A scan lists transfers *)

Resting(s) == scan[s].phase \in {"idle", "done"}

\* The current block is read before the list.
ListTrc20(s) ==
    /\ s \in TronScans
    /\ Resting(s)
    /\ scan' = [scan EXCEPT ![s] = NewScan(head["TRC20"], 0, Mined(Trc20))]
    /\ UNCHANGED <<chain, book, cursor>>

\* TronGrid does not tell its current block, or returns an empty list.
TrongridSilent(s) ==
    /\ MayFail
    /\ s \in TronScans
    /\ Resting(s)
    /\ scan' = [scan EXCEPT ![s] = Done(FALSE)]
    /\ UNCHANGED <<chain, book, cursor>>

Smaller(a, b) == IF a < b THEN a ELSE b

LogsOf(from, to) == {t \in Erc20 : block[t] \in from..to}

\* The logs are read for each trader's address; the range counts as one without
\* logs for those whose logs cannot be read.
GetLogs(s, height, from) ==
    LET to == Smaller(from + Chunk - 1, height)
    IN  \E silent \in (IF LogsMayFail THEN SUBSET Traders ELSE {{}}) :
            scan' = [scan EXCEPT ![s] =
                NewScan(height, to, {t \in LogsOf(from, to) : Owner[t] \notin silent})]

\* Without a cursor, or without Redis, the poll starts some thousands of blocks
\* behind: at the first block here.
ResolveStartBlock(lastProcessed) ==
    IF lastProcessed > 0 THEN Smaller(lastProcessed + 1, head["ERC20"]) ELSE 1

PollErc20(s) ==
    /\ s \in EthScans
    /\ Resting(s)
    /\ head["ERC20"] > 0
    /\ \E lastProcessed \in {cursor} \cup (IF MayFail THEN {0} ELSE {}) :
           GetLogs(s, head["ERC20"], ResolveStartBlock(lastProcessed))
    /\ UNCHANGED <<chain, book, cursor>>

-----------------------------------------------------------------------------
(* observeAndMaybeCredit, for one transfer of the list *)

\* Mutant: any row counts as handled.
AnyRow(t) == row[t].status # "NONE"

Final(t) == row[t].status \in {"FAILED", "CREDITED"}

SkipFinal(s, t) ==
    /\ scan[s].phase = "next"
    /\ t \in scan[s].todo
    /\ Final(t)
    /\ scan' = [scan EXCEPT ![s].todo = @ \ {t}]
    /\ UNCHANGED <<chain, book, cursor>>

ReadRow(s, t) ==
    /\ scan[s].phase = "next"
    /\ t \in scan[s].todo
    /\ ~Final(t)
    /\ scan' = [scan EXCEPT ![s].phase = "row", ![s].todo = @ \ {t},
                            ![s].tx = t, ![s].existing = row[t].traderId]
    /\ UNCHANGED <<chain, book, cursor>>

\* TronGrid does not tell the block of the transaction.
SkipUnanswered(s, t) ==
    /\ MayFail
    /\ s \in TronScans
    /\ scan[s].phase = "next"
    /\ t \in scan[s].todo
    /\ scan' = [scan EXCEPT ![s].todo = @ \ {t}]
    /\ UNCHANGED <<chain, book, cursor>>

Confirmations(s) == scan[s].head - block[scan[s].tx] + 1

GoOn(s, pending) ==
    scan' = [scan EXCEPT ![s].phase = "next", ![s].tx = None, ![s].existing = None,
                         ![s].pending = @ \/ pending]

\* The row, as it was read, is the trader's or does not exist.
OwnRow(s) == scan[s].existing \in {None, Owner[scan[s].tx]}

Upsert(t, status) == row' = [row EXCEPT ![t] = [status |-> status, traderId |-> Owner[t]]]

\* gateTronChainRejectedDeposit
MarkFailed(s) ==
    /\ scan[s].phase = "row"
    /\ scan[s].tx \in rejected
    /\ IF OwnRow(s) THEN Upsert(scan[s].tx, "FAILED") ELSE UNCHANGED row
    /\ GoOn(s, FALSE)
    /\ UNCHANGED <<chain, settled, balance, excused, cursor>>

\* A rejected transaction passes when TronGrid does not answer.
PassesGate(s) == scan[s].tx \in rejected => MayFail

InterimStatus(confirmations) == IF confirmations >= 1 THEN "CONFIRMED" ELSE "PENDING"

\* Too few confirmations.  The upsert does not look at what the row is by now.
Observe(s) ==
    /\ scan[s].phase = "row"
    /\ PassesGate(s)
    /\ Confirmations(s) < MinConf
    /\ IF OwnRow(s)
       THEN Upsert(scan[s].tx, InterimStatus(Confirmations(s)))
       ELSE UNCHANGED row
    /\ GoOn(s, OwnRow(s))
    /\ UNCHANGED <<chain, settled, balance, excused, cursor>>

-----------------------------------------------------------------------------
(* creditDepositAtomic *)

\* Mutant: settlements are not unique per deposit row.
CreditableByRow(t, trader) ==
    /\ row[t].status \notin {"CREDITED", "FAILED"}
    /\ row[t].traderId \in {None, trader}

\* The transaction reads the row again; the settlement of a row is unique.
Creditable(t, trader) ==
    /\ row[t].status \notin {"CREDITED", "FAILED"}
    /\ row[t].traderId \in {None, trader}
    /\ settled[t] = None

Book(t, trader) ==
    /\ row' = [row EXCEPT ![t] = [status |-> "CREDITED", traderId |-> trader]]
    /\ settled' = [settled EXCEPT ![t] = trader]
    /\ balance' = [balance EXCEPT ![trader] = @ + 1]

\* Mutant: one confirmation less is enough.
AlmostEnoughConfirmations(s) == scan[s].phase = "row" /\ Confirmations(s) + 1 >= MinConf

EnoughConfirmations(s) == scan[s].phase = "row" /\ Confirmations(s) >= MinConf

Credit(s) ==
    /\ EnoughConfirmations(s)
    /\ PassesGate(s)
    /\ Creditable(scan[s].tx, Owner[scan[s].tx])
    /\ Book(scan[s].tx, Owner[scan[s].tx])
    /\ excused' = excused \cup ({scan[s].tx} \cap rejected)
    /\ GoOn(s, FALSE)
    /\ UNCHANGED <<chain, cursor>>

\* Someone else has credited it since: the call returns the row.
AlreadyCredited(s) ==
    /\ EnoughConfirmations(s)
    /\ PassesGate(s)
    /\ row[scan[s].tx].status = "CREDITED"
    /\ GoOn(s, FALSE)
    /\ UNCHANGED <<chain, book, cursor>>

\* The row has failed or is another trader's, or the settlement is there already:
\* the call throws, and the scan ends with the rest of its list unread.
CreditThrows(s) ==
    /\ EnoughConfirmations(s)
    /\ PassesGate(s)
    /\ row[scan[s].tx].status # "CREDITED"
    /\ ~Creditable(scan[s].tx, Owner[scan[s].tx])
    /\ scan' = [scan EXCEPT ![s] = Idle]
    /\ UNCHANGED <<chain, book, cursor>>

\* The administrator names the trader, and the network: a receipt is asked for
\* only if that is TRC-20.  A call that throws changes nothing.
ConfirmManual(t, trader) ==
    /\ Creditable(t, trader)
    /\ Book(t, trader)
    /\ excused' = excused \cup {t}
    /\ UNCHANGED <<chain, scan, cursor>>

-----------------------------------------------------------------------------
(* A scan ends *)

EndTrc20(s) ==
    /\ s \in TronScans
    /\ scan[s].phase = "next"
    /\ scan[s].todo = {}
    /\ scan' = [scan EXCEPT ![s] = Done(scan[s].pending)]
    /\ UNCHANGED <<chain, book, cursor>>

\* Mutant: the cursor is stored before the logs of the range are processed.
EndChunkEarly(s) ==
    /\ s \in EthScans
    /\ scan[s].phase = "next"
    /\ cursor' = scan[s].toBlock
    /\ IF scan[s].todo # {} THEN UNCHANGED scan
       ELSE IF scan[s].toBlock < scan[s].head
            THEN GetLogs(s, scan[s].head, scan[s].toBlock + 1)
            ELSE scan' = [scan EXCEPT ![s] = Done(scan[s].pending)]
    /\ UNCHANGED <<chain, book>>

\* The range is done: the cursor is stored, unless Redis fails, and the next
\* range is read, up to the block that was current when the poll began.
EndChunk(s) ==
    /\ s \in EthScans
    /\ scan[s].phase = "next"
    /\ scan[s].todo = {}
    /\ cursor' \in {scan[s].toBlock} \cup (IF MayFail THEN {cursor} ELSE {})
    /\ IF scan[s].toBlock < scan[s].head
       THEN GetLogs(s, scan[s].head, scan[s].toBlock + 1)
       ELSE scan' = [scan EXCEPT ![s] = Done(scan[s].pending)]
    /\ UNCHANGED <<chain, book>>

\* The process dies, or the database fails: the credit of a deposit included,
\* when it conflicts with another transaction.
ScanDies(s) ==
    /\ MayFail
    /\ scan[s] # Idle
    /\ scan' = [scan EXCEPT ![s] = Idle]
    /\ UNCHANGED <<chain, book, cursor>>

-----------------------------------------------------------------------------
ProcessRow(s) ==
    \/ MarkFailed(s) \/ Observe(s)
    \/ Credit(s) \/ AlreadyCredited(s) \/ CreditThrows(s)

Work(s) ==
    \/ \E t \in Transfers : SkipFinal(s, t) \/ ReadRow(s, t)
    \/ ProcessRow(s)

Next ==
    \/ NewBlock("TRC20", Trc20)
    \/ NewBlock("ERC20", Erc20)
    \/ \E t \in Transfers, trader \in Traders : ConfirmManual(t, trader)
    \/ \E s \in Scans :
          \/ ListTrc20(s) \/ TrongridSilent(s) \/ PollErc20(s)
          \/ Work(s)
          \/ \E t \in Transfers : SkipUnanswered(s, t)
          \/ EndTrc20(s) \/ EndChunk(s) \/ ScanDies(s)

Spec == DepositInit /\ [][Next]_depositVars

\* The timers keep firing, and not every scan dies or goes unanswered before it
\* has read a given row, or in the middle of it.
ScansGoOn(scans, listed) ==
    \A s \in scans :
        /\ WF_depositVars(ListTrc20(s) \/ PollErc20(s))
        /\ WF_depositVars(EndTrc20(s) \/ EndChunk(s))
        /\ WF_depositVars(Work(s))
        /\ \A t \in listed :
              /\ SF_depositVars(ReadRow(s, t))
              /\ SF_depositVars(Credit(s) /\ scan[s].tx = t)

Trc20FairSpec == Spec /\ ScansGoOn(TronScans, Trc20)

Erc20FairSpec == Spec /\ ScansGoOn(EthScans, Erc20)

-----------------------------------------------------------------------------
(* Properties *)

\* A deposit is credited once, to one trader, whatever scans and administrators
\* do to its row at the same time: each balance is what its settlements say.
BalanceMatchesSettlements ==
    \A tr \in Traders : balance[tr] = Cardinality({t \in Transfers : settled[t] = tr})

\* A deposit is credited when it has its confirmations and a good receipt, or on
\* the administrator's word: a scan never goes by a block number that it read
\* while the transfer was higher.
CreditedIsDeep ==
    \A t \in Transfers : settled[t] # None => t \in excused \/ (Deep(t) /\ t \notin rejected)

\* Whatever dies, every ERC-20 transfer up to the cursor has its deposit row.
ScannedIsRecorded ==
    \A t \in Erc20 : block[t] \in 1..cursor => row[t].status # "NONE"

\* A row that was credited and then put back to CONFIRMED: crediting it throws.
Poisoned(t) == settled[t] # None /\ row[t].status # "CREDITED"

\* A TRC-20 deposit with its confirmations is credited, unless another row of the
\* list makes each scan throw before it gets there.
Trc20IsCredited ==
    \A t \in Trc20 :
        Deep(t) /\ t \notin rejected ~> settled[t] # None \/ \E u \in Trc20 : Poisoned(u)

\* An ERC-20 deposit with its confirmations is credited.
Erc20IsCredited == \A t \in Erc20 : Deep(t) ~> settled[t] # None
=============================================================================
