------------------------- MODULE WalletDepositsProofs -------------------------
(***************************************************************************)
(* Proofs about WalletDeposits.                                            *)
(***************************************************************************)
EXTENDS WalletDeposits, FiniteSetTheorems, TLAPS

USE ConstantsAssumption

-----------------------------------------------------------------------------
(* Types *)

Networks == {"TRC20", "ERC20"}

LEMMA TypeInit == DepositInit => TypeOK
BY DEF DepositInit, TypeOK, DepositRow, NoRow, Idle, WalletDepositStatus, Scans

\* What the helpers build is of the right type.
LEMMA NewScanType ==
    ASSUME NEW height \in 0..MaxBlock, NEW to \in 0..MaxBlock, NEW listed \in SUBSET Transfers
    PROVE  NewScan(height, to, listed) \in Scan
BY DEF NewScan, Scan

LEMMA DoneType == ASSUME NEW pending \in BOOLEAN PROVE Done(pending) \in Scan
BY DEF Done, Scan

\* A scan that is not idle is a record of the whole type.
LEMMA RunningType ==
    ASSUME TypeOK, NEW s \in Scans, scan[s].phase # "idle"
    PROVE  scan[s] \in Scan
<1>1. scan[s] \in Scan \cup {Idle}
  BY DEF TypeOK
<1>2. CASE scan[s] = Idle
  BY <1>2 DEF Idle
<1>3. QED
  BY <1>1, <1>2

\* A scan that is done with one transfer.
LEMMA GoOnType ==
    ASSUME TypeOK, NEW s \in Scans, scan[s].phase = "row", NEW p \in BOOLEAN, GoOn(s, p)
    PROVE  /\ scan[s] \in Scan
           /\ scan' \in [Scans -> Scan \cup {Idle}]
<1>1. scan[s] \in Scan
  BY RunningType
<1> DEFINE n == [scan[s] EXCEPT !.phase = "next", !.tx = None, !.existing = None,
                                !.pending = @ \/ p]
<1>2. n \in Scan
  BY <1>1 DEF Scan
<1>3. scan' = [scan EXCEPT ![s] = n]
  BY DEF GoOn
<1>4. QED
  BY <1>1, <1>2, <1>3 DEF TypeOK

LEMMA NewBlockType ==
    ASSUME TypeOK, NEW n \in Networks, NEW S \in SUBSET Transfers, NewBlock(n, S)
    PROVE  TypeOK'
<1>1. head' \in [Networks -> 0..MaxBlock]
  BY DEF TypeOK, NewBlock, Networks
<1>2. block' \in [Transfers -> 0..MaxBlock] /\ rejected' \subseteq Trc20
  BY DEF TypeOK, NewBlock, Networks
<1>3. QED
  BY <1>1, <1>2 DEF TypeOK, NewBlock, book, Networks

\* A step of one scan, which leaves the chains alone.
LEMMA ScanListType ==
    ASSUME TypeOK, NEW s \in Scans,
           ListTrc20(s) \/ TrongridSilent(s) \/ EndTrc20(s)
    PROVE  TypeOK'
<1>1. Mined(Trc20) \in SUBSET Transfers
  BY DEF Mined, Transfers
<1>2. scan[s].phase # "idle" => scan[s].pending \in BOOLEAN
  BY RunningType DEF Scan
<1>3. scan' \in [Scans -> Scan \cup {Idle}]
  <2>1. CASE ListTrc20(s)
    BY <1>1, <2>1, NewScanType DEF TypeOK, ListTrc20, Networks
  <2>2. CASE TrongridSilent(s)
    BY <2>2, DoneType DEF TypeOK, TrongridSilent
  <2>3. CASE EndTrc20(s)
    BY <1>2, <2>3, DoneType DEF TypeOK, EndTrc20
  <2>4. QED
    BY <2>1, <2>2, <2>3
<1>4. QED
  BY <1>3 DEF TypeOK, ListTrc20, TrongridSilent, EndTrc20, chain, book

LEMMA GetLogsType ==
    ASSUME TypeOK, NEW s \in Scans, NEW height \in 0..MaxBlock, NEW from \in Nat \ {0},
           GetLogs(s, height, from)
    PROVE  scan' \in [Scans -> Scan \cup {Idle}]
<1> DEFINE to == Smaller(from + Chunk - 1, height)
<1>1. to \in 0..MaxBlock
  BY DEF Smaller
<1>2. PICK listed \in SUBSET Transfers : scan' = [scan EXCEPT ![s] = NewScan(height, to, listed)]
  BY DEF GetLogs, LogsOf, Transfers
<1>3. QED
  BY <1>1, <1>2, NewScanType DEF TypeOK

LEMMA PollType ==
    ASSUME TypeOK, NEW s \in Scans, PollErc20(s)
    PROVE  TypeOK'
<1>1. PICK last \in {cursor} \cup {0} : GetLogs(s, head["ERC20"], ResolveStartBlock(last))
  BY DEF PollErc20
<1>2. ResolveStartBlock(last) \in Nat \ {0} /\ head["ERC20"] \in 0..MaxBlock
  BY <1>1 DEF TypeOK, ResolveStartBlock, Smaller, PollErc20
<1>3. scan' \in [Scans -> Scan \cup {Idle}]
  BY <1>1, <1>2, GetLogsType
<1>4. QED
  BY <1>3 DEF TypeOK, PollErc20, chain, book

\* A step of one transfer of a scan.
LEMMA RowStepType ==
    ASSUME TypeOK, NEW s \in Scans,
           \/ \E t \in Transfers : SkipFinal(s, t) \/ ReadRow(s, t) \/ SkipUnanswered(s, t)
           \/ CreditThrows(s) \/ AlreadyCredited(s) \/ ScanDies(s)
    PROVE  TypeOK'
<1>1. scan[s] \in Scan \cup {Idle}
  BY DEF TypeOK
<1>2. scan' \in [Scans -> Scan \cup {Idle}]
  <2>1. CASE CreditThrows(s) \/ ScanDies(s)
    BY <2>1 DEF TypeOK, CreditThrows, ScanDies
  <2>2. ASSUME NEW t \in Transfers, SkipFinal(s, t) \/ SkipUnanswered(s, t)
        PROVE  scan' \in [Scans -> Scan \cup {Idle}]
    <3>1. scan[s] \in Scan
      BY <2>2, RunningType DEF SkipFinal, SkipUnanswered
    <3>2. [scan[s] EXCEPT !.todo = @ \ {t}] \in Scan
      BY <3>1 DEF Scan
    <3>3. scan' = [scan EXCEPT ![s].todo = @ \ {t}]
      BY <2>2 DEF SkipFinal, SkipUnanswered
    <3>4. QED
      BY <3>2, <3>3 DEF TypeOK
  <2>3. ASSUME NEW t \in Transfers, ReadRow(s, t)
        PROVE  scan' \in [Scans -> Scan \cup {Idle}]
    <3>1. scan[s] \in Scan
      BY <2>3, RunningType DEF ReadRow
    <3>2. row[t].traderId \in Traders \cup {None}
      BY DEF TypeOK, DepositRow
    <3> DEFINE n == [scan[s] EXCEPT !.phase = "row", !.todo = @ \ {t},
                                    !.tx = t, !.existing = row[t].traderId]
    <3>3. n \in Scan
      BY <3>1, <3>2 DEF Scan
    <3>4. scan' = [scan EXCEPT ![s] = n]
      BY <2>3 DEF ReadRow
    <3>5. QED
      BY <3>3, <3>4 DEF TypeOK
  <2>4. CASE AlreadyCredited(s)
    BY <1>1, <2>4, GoOnType DEF AlreadyCredited, EnoughConfirmations
  <2>5. QED
    BY <2>1, <2>2, <2>3, <2>4
<1>3. UNCHANGED <<chain, book, cursor>>
  BY DEF SkipFinal, ReadRow, SkipUnanswered, CreditThrows, AlreadyCredited, ScanDies
<1>4. QED
  BY <1>2, <1>3 DEF TypeOK, chain, book

LEMMA UpsertType ==
    ASSUME TypeOK, NEW t \in Transfers, NEW st \in WalletDepositStatus, Upsert(t, st)
    PROVE  row' \in [Transfers -> DepositRow]
<1>1. Owner[t] \in Traders
  OBVIOUS
<1>2. QED
  BY <1>1 DEF TypeOK, Upsert, DepositRow

LEMMA MarkType ==
    ASSUME TypeOK, NEW s \in Scans, MarkFailed(s) \/ Observe(s)
    PROVE  TypeOK'
<1>1. scan[s].phase = "row"
  BY DEF MarkFailed, Observe
<1>2. OwnRow(s) \in BOOLEAN
  BY DEF OwnRow
<1>3. scan' \in [Scans -> Scan \cup {Idle}]
  BY <1>1, <1>2, GoOnType DEF MarkFailed, Observe
<1>4. row' \in [Transfers -> DepositRow]
  <2>1. CASE UNCHANGED row
    BY <2>1 DEF TypeOK
  <2>2. CASE scan[s].tx \in Transfers
    BY <2>2, UpsertType DEF MarkFailed, Observe, InterimStatus, WalletDepositStatus, TypeOK
  <2>3. CASE scan[s].tx \notin Transfers
    BY <2>3 DEF MarkFailed, Observe, Upsert, TypeOK
  <2>4. QED
    BY <2>2, <2>3
<1>5. QED
  BY <1>3, <1>4 DEF TypeOK, MarkFailed, Observe, chain

LEMMA BookType ==
    ASSUME TypeOK, NEW t \in Transfers, NEW trader \in Traders, Book(t, trader)
    PROVE  /\ row' \in [Transfers -> DepositRow]
           /\ settled' \in [Transfers -> Traders \cup {None}]
           /\ balance' \in [Traders -> Nat]
BY DEF TypeOK, Book, DepositRow, WalletDepositStatus

LEMMA ConfirmType ==
    ASSUME TypeOK, NEW t \in Transfers, NEW trader \in Traders, ConfirmManual(t, trader)
    PROVE  TypeOK'
<1>1. excused' \subseteq Transfers
  BY DEF TypeOK, ConfirmManual
<1>2. QED
  BY <1>1, BookType DEF TypeOK, ConfirmManual, chain

LEMMA EndChunkType ==
    ASSUME TypeOK, NEW s \in Scans, EndChunk(s)
    PROVE  TypeOK'
<1>1. scan[s] \in Scan
  BY RunningType DEF EndChunk
<1>2. /\ scan[s].toBlock \in 0..MaxBlock
      /\ scan[s].head \in 0..MaxBlock
      /\ scan[s].pending \in BOOLEAN
  BY <1>1 DEF Scan
<1>3. cursor' \in 0..MaxBlock
  BY <1>2 DEF TypeOK, EndChunk
<1>4. scan' \in [Scans -> Scan \cup {Idle}]
  <2>1. CASE scan[s].toBlock < scan[s].head
    BY <1>2, <2>1, GetLogsType DEF TypeOK, EndChunk
  <2>2. CASE ~(scan[s].toBlock < scan[s].head)
    BY <1>2, <2>2, DoneType DEF TypeOK, EndChunk
  <2>3. QED
    BY <2>1, <2>2
<1>5. QED
  BY <1>3, <1>4 DEF TypeOK, EndChunk, chain, book

-----------------------------------------------------------------------------
(* What a scan works on *)

\* The transfers a scan looks at are mined and of its network, and the height it
\* goes by is not above the chain.
ScanFits(s, c) ==
    LET transfers == IF s \in TronScans THEN Trc20 ELSE Erc20
        network   == IF s \in TronScans THEN "TRC20" ELSE "ERC20"
    IN  /\ c.phase \in {"next", "row"} =>
               /\ c.todo \subseteq Mined(transfers)
               /\ c.head <= head[network]
               /\ c.toBlock <= c.head
        /\ c.phase = "row" =>
               /\ c.tx \in Mined(transfers)
               /\ c.existing # None => row[c.tx].status # "NONE"

ScanInv == \A s \in Scans : ScanFits(s, scan[s])

\* A row with a trader is one; a failed one is of a rejected transaction, and a
\* credited one has its settlement.
RowInv ==
    \A t \in Transfers :
        /\ row[t].traderId # None => row[t].status # "NONE"
        /\ row[t].status = "FAILED" => t \in rejected
        /\ row[t].status = "CREDITED" => settled[t] # None

Inv == TypeOK /\ ScanInv /\ RowInv

LEMMA CreditType ==
    ASSUME TypeOK, NEW s \in Scans, scan[s].tx \in Transfers, Credit(s)
    PROVE  TypeOK'
<1>1. scan[s].phase = "row"
  BY DEF Credit, EnoughConfirmations
<1>2. scan' \in [Scans -> Scan \cup {Idle}]
  BY <1>1, GoOnType DEF Credit
<1>3. excused' \subseteq Transfers
  BY DEF TypeOK, Credit, Transfers
<1>4. Owner[scan[s].tx] \in Traders
  OBVIOUS
<1>5. QED
  BY <1>2, <1>3, <1>4, BookType DEF TypeOK, Credit, chain

\* The transfer a scan is at.
LEMMA CurrentTransfer ==
    ASSUME Inv, NEW s \in Scans, scan[s].phase = "row"
    PROVE  /\ scan[s] \in Scan
           /\ scan[s].tx \in Transfers
           /\ s \in TronScans <=> scan[s].tx \in Trc20
           /\ block[scan[s].tx] \in 1..MaxBlock
           /\ scan[s].head \in Nat
           /\ scan[s].head <= Height(scan[s].tx)
           /\ scan[s].existing # None => row[scan[s].tx].status # "NONE"
<1>1. scan[s] \in Scan
  BY RunningType DEF Inv
<1>2. ScanFits(s, scan[s])
  BY DEF Inv, ScanInv
<1>3. block \in [Transfers -> 0..MaxBlock]
  BY DEF Inv, TypeOK
<1>4. CASE s \in TronScans
  BY <1>1, <1>2, <1>3, <1>4 DEF ScanFits, Scan, Mined, Unmined, Height, Transfers
<1>5. CASE s \notin TronScans
  BY <1>1, <1>2, <1>3, <1>5 DEF ScanFits, Scan, Mined, Unmined, Height, Transfers
<1>6. QED
  BY <1>4, <1>5

LEMMA TypeStep == ASSUME Inv, [Next]_depositVars PROVE TypeOK'
<1>1. TypeOK
  BY DEF Inv
<1>2. CASE UNCHANGED depositVars
  BY <1>1, <1>2 DEF TypeOK, depositVars, chain, book
<1>3. CASE NewBlock("TRC20", Trc20) \/ NewBlock("ERC20", Erc20)
  BY <1>1, <1>3, NewBlockType DEF Networks, Transfers
<1>4. ASSUME NEW t \in Transfers, NEW trader \in Traders, ConfirmManual(t, trader)
      PROVE  TypeOK'
  BY <1>1, <1>4, ConfirmType
<1>5. ASSUME NEW s \in Scans, ListTrc20(s) \/ TrongridSilent(s) \/ EndTrc20(s)
      PROVE  TypeOK'
  BY <1>1, <1>5, ScanListType
<1>6. ASSUME NEW s \in Scans, PollErc20(s) \/ EndChunk(s)
      PROVE  TypeOK'
  BY <1>1, <1>6, PollType, EndChunkType
<1>7. ASSUME NEW s \in Scans,
             \/ \E t \in Transfers : SkipFinal(s, t) \/ ReadRow(s, t) \/ SkipUnanswered(s, t)
             \/ CreditThrows(s) \/ AlreadyCredited(s) \/ ScanDies(s)
      PROVE  TypeOK'
  BY <1>1, <1>7, RowStepType
<1>8. ASSUME NEW s \in Scans, MarkFailed(s) \/ Observe(s) \/ Credit(s)
      PROVE  TypeOK'
  BY <1>1, <1>8, MarkType, CreditType, CurrentTransfer DEF Credit, EnoughConfirmations
<1>9. QED
  BY <1>2, <1>3, <1>4, <1>5, <1>6, <1>7, <1>8 DEF Next, Work, ProcessRow

-----------------------------------------------------------------------------
(* What a scan works on stays so *)

\* A scan takes a step, with the chains as they are and no row going away.
LEMMA ScanSteps ==
    ASSUME Inv, NEW s \in Scans, UNCHANGED chain, ScanFits(s, scan[s])',
           \A u \in Scans \ {s} : scan'[u] = scan[u],
           \A t \in Transfers : row[t].status # "NONE" => row'[t].status # "NONE"
    PROVE  ScanInv'
<1> SUFFICES ASSUME NEW u \in Scans PROVE ScanFits(u, scan[u])'
  BY DEF ScanInv
<1>1. CASE u = s
  BY <1>1
<1>2. CASE u # s
  <2>1. scan'[u] = scan[u] /\ ScanFits(u, scan[u])
    BY <1>2 DEF Inv, ScanInv
  <2>2. scan[u].phase = "row" => scan[u].tx \in Transfers
    BY CurrentTransfer
  <2>3. QED
    BY <2>1, <2>2 DEF ScanFits, Mined, Unmined, chain
<1>3. QED
  BY <1>1, <1>2

\* A step that only puts the record c of a scan.
LEMMA ScanPut ==
    ASSUME Inv, NEW s \in Scans, NEW c, scan' = [scan EXCEPT ![s] = c]
    PROVE  scan'[s] = c /\ \A u \in Scans \ {s} : scan'[u] = scan[u]
BY DEF Inv, TypeOK

\* A scan begins with what was listed, or goes over to rest.
LEMMA ListingSteps ==
    ASSUME Inv, NEW s \in Scans,
           \/ ListTrc20(s) \/ TrongridSilent(s) \/ EndTrc20(s)
           \/ PollErc20(s) \/ EndChunk(s) \/ CreditThrows(s) \/ ScanDies(s)
    PROVE  ScanInv'
<1>1. UNCHANGED chain /\ UNCHANGED row
  BY DEF ListTrc20, TrongridSilent, EndTrc20, PollErc20, EndChunk, CreditThrows, ScanDies, book
<1>2. head \in [Networks -> 0..MaxBlock]
  BY DEF Inv, TypeOK, Networks
<1>3. CASE ListTrc20(s)
  <2>1. /\ scan'[s] = NewScan(head["TRC20"], 0, Mined(Trc20))
        /\ \A u \in Scans \ {s} : scan'[u] = scan[u]
    BY <1>3, ScanPut DEF ListTrc20
  <2>2. ScanFits(s, scan[s])'
    BY <1>1, <1>2, <1>3, <2>1 DEF ScanFits, NewScan, ListTrc20, Mined, Unmined, chain, Networks
  <2>3. QED
    BY <1>1, <2>1, <2>2, ScanSteps
<1>4. ASSUME NEW pending, scan' = [scan EXCEPT ![s] = Done(pending)]
      PROVE  ScanInv'
  <2>1. scan'[s] = Done(pending) /\ \A u \in Scans \ {s} : scan'[u] = scan[u]
    BY <1>4, ScanPut
  <2>2. ScanFits(s, scan[s])'
    BY <2>1 DEF ScanFits, Done
  <2>3. QED
    BY <1>1, <2>1, <2>2, ScanSteps
<1>5. CASE CreditThrows(s) \/ ScanDies(s)
  <2>1. scan'[s] = Idle /\ \A u \in Scans \ {s} : scan'[u] = scan[u]
    BY <1>5, ScanPut DEF CreditThrows, ScanDies
  <2>2. ScanFits(s, scan[s])'
    BY <2>1 DEF ScanFits, Idle
  <2>3. QED
    BY <1>1, <2>1, <2>2, ScanSteps
<1>6. ASSUME NEW height \in 0..MaxBlock, NEW from \in Nat \ {0}, GetLogs(s, height, from),
             s \in EthScans, height <= head["ERC20"]
      PROVE  ScanInv'
  <2> DEFINE to == Smaller(from + Chunk - 1, height)
  <2>1. PICK listed \in SUBSET LogsOf(from, to) :
            scan' = [scan EXCEPT ![s] = NewScan(height, to, listed)]
    BY <1>6 DEF GetLogs
  <2>2. listed \subseteq Mined(Erc20) /\ to <= height
    BY <2>1 DEF LogsOf, Mined, Unmined, Smaller
  <2>3. s \notin TronScans
    BY <1>6
  <2>4. /\ scan'[s] = NewScan(height, to, listed)
        /\ \A u \in Scans \ {s} : scan'[u] = scan[u]
    BY <2>1, ScanPut
  <2>5. ScanFits(s, scan[s])'
    BY <1>1, <1>6, <2>2, <2>3, <2>4 DEF ScanFits, NewScan, Mined, Unmined, chain
  <2>6. QED
    BY <1>1, <2>4, <2>5, ScanSteps
<1>7. CASE PollErc20(s)
  BY <1>2, <1>6, <1>7 DEF PollErc20, ResolveStartBlock, Smaller, Inv, TypeOK, Networks
<1>8. CASE EndChunk(s)
  <2>1. scan[s] \in Scan /\ ScanFits(s, scan[s]) /\ s \notin TronScans
    BY <1>8, RunningType DEF EndChunk, Inv, ScanInv
  <2>2. scan[s].head \in 0..MaxBlock /\ scan[s].head <= head["ERC20"]
    BY <1>8, <2>1 DEF Scan, ScanFits, EndChunk
  <2>3. scan[s].toBlock + 1 \in Nat \ {0}
    BY <2>1 DEF Scan
  <2>4. QED
    BY <1>4, <1>6, <1>8, <2>2, <2>3 DEF EndChunk
<1>9. QED
  BY <1>3, <1>4, <1>5, <1>7, <1>8 DEF TrongridSilent, EndTrc20

\* A scan takes up a transfer of its list, or drops it.
LEMMA TakingSteps ==
    ASSUME Inv, NEW s \in Scans, NEW t \in Transfers,
           SkipFinal(s, t) \/ ReadRow(s, t) \/ SkipUnanswered(s, t)
    PROVE  ScanInv'
<1>1. UNCHANGED chain /\ UNCHANGED row /\ scan[s].phase = "next" /\ t \in scan[s].todo
  BY DEF SkipFinal, ReadRow, SkipUnanswered, book
<1>2. scan[s] \in Scan /\ ScanFits(s, scan[s])
  BY <1>1, RunningType DEF Inv, ScanInv
<1>3. CASE SkipFinal(s, t) \/ SkipUnanswered(s, t)
  <2> DEFINE c == [scan[s] EXCEPT !.todo = @ \ {t}]
  <2>1. scan' = [scan EXCEPT ![s] = c]
    BY <1>3 DEF SkipFinal, SkipUnanswered
  <2>2. scan'[s] = c /\ \A u \in Scans \ {s} : scan'[u] = scan[u]
    BY <2>1, ScanPut
  <2>3. ScanFits(s, scan[s])'
    BY <1>1, <1>2, <2>2 DEF ScanFits, Scan, Mined, Unmined, chain
  <2>4. QED
    BY <1>1, <2>2, <2>3, ScanSteps
<1>4. CASE ReadRow(s, t)
  <2> DEFINE c == [scan[s] EXCEPT !.phase = "row", !.todo = @ \ {t},
                                  !.tx = t, !.existing = row[t].traderId]
  <2>1. scan' = [scan EXCEPT ![s] = c]
    BY <1>4 DEF ReadRow
  <2>2. row[t].traderId # None => row[t].status # "NONE"
    BY DEF Inv, RowInv
  <2>3. scan'[s] = c /\ \A u \in Scans \ {s} : scan'[u] = scan[u]
    BY <2>1, ScanPut
  <2>4. ScanFits(s, scan[s])'
    BY <1>1, <1>2, <2>2, <2>3 DEF ScanFits, Scan, Mined, Unmined, chain
  <2>5. QED
    BY <1>1, <2>3, <2>4, ScanSteps
<1>5. QED
  BY <1>3, <1>4

\* A scan that has written a row, or found it credited, goes on.
LEMMA GoingOn ==
    ASSUME Inv, NEW s \in Scans, NEW p, scan[s].phase = "row", GoOn(s, p), UNCHANGED chain,
           \A t \in Transfers : row[t].status # "NONE" => row'[t].status # "NONE"
    PROVE  ScanInv'
<1>1. scan[s] \in Scan /\ ScanFits(s, scan[s])
  BY RunningType DEF Inv, ScanInv
<1> DEFINE c == [scan[s] EXCEPT !.phase = "next", !.tx = None, !.existing = None,
                                !.pending = @ \/ p]
<1>2. scan' = [scan EXCEPT ![s] = c]
  BY DEF GoOn
<1>3. scan'[s] = c /\ \A u \in Scans \ {s} : scan'[u] = scan[u]
  BY <1>2, ScanPut
<1>4. ScanFits(s, scan[s])'
  BY <1>1, <1>3 DEF ScanFits, Scan, Mined, Unmined, chain
<1>5. QED
  BY <1>3, <1>4, ScanSteps

\* What a step of a row, or the administrator, makes of the rows.
LEMMA RowSteps ==
    ASSUME Inv,
           \/ \E s \in Scans : MarkFailed(s) \/ Observe(s) \/ Credit(s)
           \/ \E t \in Transfers, trader \in Traders : ConfirmManual(t, trader)
    PROVE  /\ RowInv'
           /\ \A t \in Transfers : row[t].status # "NONE" => row'[t].status # "NONE"
<1>0. None \notin Traders /\ rejected' = rejected
  BY DEF MarkFailed, Observe, Credit, ConfirmManual, chain
<1>1. row \in [Transfers -> DepositRow] /\ settled \in [Transfers -> Traders \cup {None}]
  BY DEF Inv, TypeOK
<1>2. ASSUME NEW t \in Transfers, NEW st \in WalletDepositStatus, Upsert(t, st),
             st = "FAILED" => t \in rejected, st # "CREDITED", UNCHANGED settled
      PROVE  /\ RowInv'
             /\ \A u \in Transfers : row[u].status # "NONE" => row'[u].status # "NONE"
  <2>1. Owner[t] \in Traders
    OBVIOUS
  <2>2. \A u \in Transfers :
            row'[u] = IF u = t THEN [status |-> st, traderId |-> Owner[t]] ELSE row[u]
    BY <1>1, <1>2 DEF Upsert
  <2>3. QED
    BY <1>0, <1>2, <2>1, <2>2 DEF Inv, RowInv, WalletDepositStatus
<1>3. ASSUME NEW t \in Transfers, NEW trader \in Traders, Book(t, trader)
      PROVE  /\ RowInv'
             /\ \A u \in Transfers : row[u].status # "NONE" => row'[u].status # "NONE"
  <2>1. \A u \in Transfers :
            /\ row'[u] = IF u = t THEN [status |-> "CREDITED", traderId |-> trader] ELSE row[u]
            /\ settled'[u] = IF u = t THEN trader ELSE settled[u]
    BY <1>1, <1>3 DEF Book
  <2>2. QED
    BY <1>0, <2>1 DEF Inv, RowInv
<1>4. CASE UNCHANGED <<row, settled>>
  BY <1>0, <1>4 DEF Inv, RowInv
<1>5. ASSUME NEW s \in Scans, MarkFailed(s) \/ Observe(s)
      PROVE  /\ RowInv'
             /\ \A t \in Transfers : row[t].status # "NONE" => row'[t].status # "NONE"
  <2>1. scan[s].tx \in Transfers
    BY <1>5, CurrentTransfer DEF MarkFailed, Observe
  <2>2. CASE UNCHANGED row
    BY <1>4, <1>5, <2>2 DEF MarkFailed, Observe
  <2>3. CASE MarkFailed(s) /\ Upsert(scan[s].tx, "FAILED")
    BY <1>2, <2>1, <2>3 DEF MarkFailed, WalletDepositStatus
  <2>4. CASE Observe(s) /\ Upsert(scan[s].tx, InterimStatus(Confirmations(s)))
    BY <1>2, <2>1, <2>4 DEF Observe, InterimStatus, WalletDepositStatus
  <2>5. QED
    BY <1>5, <2>2, <2>3, <2>4 DEF MarkFailed, Observe
<1>6. ASSUME NEW s \in Scans, Credit(s)
      PROVE  /\ RowInv'
             /\ \A t \in Transfers : row[t].status # "NONE" => row'[t].status # "NONE"
  <2>1. scan[s].tx \in Transfers
    BY <1>6, CurrentTransfer DEF Credit, EnoughConfirmations
  <2>2. Owner[scan[s].tx] \in Traders
    BY <2>1
  <2>3. QED
    BY <1>3, <1>6, <2>1, <2>2 DEF Credit
<1>7. QED
  BY <1>3, <1>5, <1>6 DEF ConfirmManual

LEMMA NewBlockInv ==
    ASSUME Inv, NewBlock("TRC20", Trc20) \/ NewBlock("ERC20", Erc20)
    PROVE  /\ ScanInv' /\ RowInv'
           /\ \A n \in Networks : head[n] <= head'[n]
           /\ \A t \in Transfers : block[t] > 0 => block'[t] = block[t]
<1>1. head \in [Networks -> 0..MaxBlock] /\ block \in [Transfers -> 0..MaxBlock]
  BY DEF Inv, TypeOK, Networks
<1>2. UNCHANGED <<book, scan, cursor>>
  BY DEF NewBlock
<1>3. \A n \in Networks : head[n] <= head'[n]
  BY <1>1 DEF NewBlock, Networks
<1>4. /\ \A t \in Transfers : block[t] > 0 => block'[t] = block[t]
      /\ rejected \subseteq rejected'
  BY <1>1 DEF NewBlock, Unmined, Networks, Transfers
<1>5. RowInv'
  BY <1>2, <1>4 DEF Inv, RowInv, book
<1>6. ScanInv'
  <2> SUFFICES ASSUME NEW s \in Scans PROVE ScanFits(s, scan[s])'
    BY DEF ScanInv
  <2>1. ScanFits(s, scan[s]) /\ (scan[s].phase # "idle" => scan[s] \in Scan)
    BY RunningType DEF Inv, ScanInv
  <2>2. Mined(Trc20) \subseteq Mined(Trc20)' /\ Mined(Erc20) \subseteq Mined(Erc20)'
    BY <1>1, <1>4 DEF Mined, Unmined, Transfers
  <2>3. head["TRC20"] <= head'["TRC20"] /\ head["ERC20"] <= head'["ERC20"]
    BY <1>3 DEF Networks
  <2>4. head'["TRC20"] \in Nat /\ head'["ERC20"] \in Nat
    BY <1>1 DEF NewBlock, Networks
  <2>5. QED
    BY <1>1, <1>2, <2>1, <2>2, <2>3, <2>4 DEF ScanFits, Scan, Networks, book
<1>7. QED
  BY <1>3, <1>4, <1>5, <1>6

-----------------------------------------------------------------------------
(* The invariant of every step *)

LEMMA InvInit == DepositInit => Inv
<1>1. DepositInit => ScanInv
  BY DEF DepositInit, ScanInv, ScanFits, Idle
<1>2. DepositInit => RowInv
  BY DEF DepositInit, RowInv, NoRow
<1>3. QED
  BY <1>1, <1>2, TypeInit DEF Inv

LEMMA InvStep == ASSUME Inv, [Next]_depositVars PROVE Inv'
<1>1. TypeOK'
  BY TypeStep
<1>2. CASE UNCHANGED depositVars
  BY <1>1, <1>2 DEF Inv, ScanInv, ScanFits, RowInv, Mined, Unmined, depositVars, chain, book
<1>3. CASE NewBlock("TRC20", Trc20) \/ NewBlock("ERC20", Erc20)
  BY <1>1, <1>3, NewBlockInv DEF Inv
<1>4. ASSUME NEW t \in Transfers, NEW trader \in Traders, ConfirmManual(t, trader)
      PROVE  Inv'
  <2>1. RowInv' /\ \A u \in Transfers : row[u].status # "NONE" => row'[u].status # "NONE"
    BY <1>4, RowSteps
  <2>2. ScanInv'
    <3> SUFFICES ASSUME NEW s \in Scans PROVE ScanFits(s, scan[s])'
      BY DEF ScanInv
    <3>1. ScanFits(s, scan[s]) /\ (scan[s].phase = "row" => scan[s].tx \in Transfers)
      BY CurrentTransfer DEF Inv, ScanInv
    <3>2. QED
      BY <1>4, <2>1, <3>1 DEF ConfirmManual, ScanFits, Mined, Unmined, chain
  <2>3. QED
    BY <1>1, <2>1, <2>2 DEF Inv
<1>5. ASSUME NEW s \in Scans,
             \/ ListTrc20(s) \/ TrongridSilent(s) \/ EndTrc20(s)
             \/ PollErc20(s) \/ EndChunk(s) \/ CreditThrows(s) \/ ScanDies(s)
      PROVE  Inv'
  <2>1. UNCHANGED <<chain, book>>
    BY <1>5 DEF ListTrc20, TrongridSilent, EndTrc20, PollErc20, EndChunk, CreditThrows, ScanDies
  <2>2. RowInv'
    BY <2>1 DEF Inv, RowInv, chain, book
  <2>3. QED
    BY <1>1, <1>5, <2>2, ListingSteps DEF Inv
<1>6. ASSUME NEW s \in Scans, NEW t \in Transfers,
             SkipFinal(s, t) \/ ReadRow(s, t) \/ SkipUnanswered(s, t)
      PROVE  Inv'
  <2>1. UNCHANGED <<chain, book>>
    BY <1>6 DEF SkipFinal, ReadRow, SkipUnanswered
  <2>2. RowInv'
    BY <2>1 DEF Inv, RowInv, chain, book
  <2>3. QED
    BY <1>1, <1>6, <2>2, TakingSteps DEF Inv
<1>7. ASSUME NEW s \in Scans, MarkFailed(s) \/ Observe(s) \/ Credit(s)
      PROVE  Inv'
  <2>1. RowInv' /\ \A u \in Transfers : row[u].status # "NONE" => row'[u].status # "NONE"
    BY <1>7, RowSteps
  <2>2. UNCHANGED chain /\ scan[s].phase = "row" /\ \E p : GoOn(s, p)
    BY <1>7 DEF MarkFailed, Observe, Credit, EnoughConfirmations, chain
  <2>3. QED
    BY <1>1, <2>1, <2>2, GoingOn DEF Inv
<1>8. ASSUME NEW s \in Scans, AlreadyCredited(s)
      PROVE  Inv'
  <2>1. UNCHANGED <<chain, book>> /\ scan[s].phase = "row" /\ GoOn(s, FALSE)
    BY <1>8 DEF AlreadyCredited, EnoughConfirmations
  <2>2. RowInv' /\ \A u \in Transfers : row'[u] = row[u]
    BY <2>1 DEF Inv, RowInv, chain, book
  <2>3. QED
    BY <1>1, <2>1, <2>2, GoingOn DEF Inv
<1>9. QED
  BY <1>2, <1>3, <1>4, <1>5, <1>6, <1>7, <1>8 DEF Next, Work, ProcessRow

\* The inductive invariant holds in every reachable state.
THEOREM InvHolds == Spec => []Inv
BY InvInit, InvStep, PTL DEF Spec

\* Every reachable state is of its type.
THEOREM TypeCorrect == Spec => []TypeOK
BY InvHolds, PTL DEF Inv

-----------------------------------------------------------------------------
(* Balances *)

\* A step that touches neither balances nor settlements, or books one deposit.
LEMMA Bookings ==
    ASSUME Inv, [Next]_depositVars
    PROVE  \/ UNCHANGED <<settled, balance, excused>>
           \/ \E t \in Transfers, trader \in Traders :
                 /\ Creditable(t, trader) /\ Book(t, trader)
                 /\ UNCHANGED chain
                 /\ \/ excused' = excused \cup {t}
                    \/ /\ \E s \in Scans : EnoughConfirmations(s) /\ scan[s].tx = t
                       /\ excused' = excused \cup ({t} \cap rejected)
<1>1. ASSUME NEW s \in Scans, Credit(s)
      PROVE  \E t \in Transfers, trader \in Traders :
                 /\ Creditable(t, trader) /\ Book(t, trader)
                 /\ UNCHANGED chain
                 /\ \E u \in Scans : EnoughConfirmations(u) /\ scan[u].tx = t
                 /\ excused' = excused \cup ({t} \cap rejected)
  <2>1. scan[s].tx \in Transfers
    BY <1>1, CurrentTransfer DEF Credit, EnoughConfirmations
  <2>2. Owner[scan[s].tx] \in Traders
    BY <2>1
  <2>3. QED
    BY <1>1, <2>1, <2>2 DEF Credit
<1>2. ASSUME NEW t \in Transfers, NEW trader \in Traders, ConfirmManual(t, trader)
      PROVE  /\ Creditable(t, trader) /\ Book(t, trader)
             /\ UNCHANGED chain /\ excused' = excused \cup {t}
  BY <1>2 DEF ConfirmManual
<1>3. CASE UNCHANGED depositVars
  BY <1>3 DEF depositVars, book
<1>4. ASSUME NEW s \in Scans, MarkFailed(s) \/ Observe(s)
      PROVE  UNCHANGED <<settled, balance, excused>>
  BY <1>4 DEF MarkFailed, Observe
<1>5. ASSUME NEW s \in Scans,
             \/ ListTrc20(s) \/ TrongridSilent(s) \/ EndTrc20(s)
             \/ PollErc20(s) \/ EndChunk(s) \/ CreditThrows(s) \/ ScanDies(s)
             \/ AlreadyCredited(s)
             \/ \E t \in Transfers : SkipFinal(s, t) \/ ReadRow(s, t) \/ SkipUnanswered(s, t)
      PROVE  UNCHANGED <<settled, balance, excused>>
  BY <1>5 DEF ListTrc20, TrongridSilent, EndTrc20, PollErc20, EndChunk, CreditThrows,
              ScanDies, AlreadyCredited, SkipFinal, ReadRow, SkipUnanswered, book
<1>6. CASE NewBlock("TRC20", Trc20) \/ NewBlock("ERC20", Erc20)
  BY <1>6 DEF NewBlock, book
<1>7. QED
  BY <1>1, <1>2, <1>3, <1>4, <1>5, <1>6 DEF Next, Work, ProcessRow

LEMMA BalanceStep ==
    ASSUME Inv, BalanceMatchesSettlements, [Next]_depositVars
    PROVE  BalanceMatchesSettlements'
<1> DEFINE Of(tr) == {t \in Transfers : settled[t] = tr}
<1>1. CASE UNCHANGED <<settled, balance, excused>>
  BY <1>1 DEF BalanceMatchesSettlements
<1>2. ASSUME NEW t \in Transfers, NEW trader \in Traders,
             Creditable(t, trader), Book(t, trader), NEW tr \in Traders
      PROVE  balance'[tr] = Cardinality(Of(tr)')
  <2>1. IsFiniteSet(Of(tr))
    BY FS_Subset
  <2>2. balance[tr] = Cardinality(Of(tr))
    BY DEF BalanceMatchesSettlements
  <2>3. /\ settled' = [settled EXCEPT ![t] = trader] /\ settled[t] = None
        /\ balance' = [balance EXCEPT ![trader] = @ + 1]
    BY <1>2 DEF Creditable, Book
  <2>4. /\ settled \in [Transfers -> Traders \cup {None}]
        /\ balance \in [Traders -> Nat]
    BY DEF Inv, TypeOK
  <2>5. CASE tr = trader
    <3>1. Of(tr)' = Of(tr) \cup {t} /\ t \notin Of(tr)
      BY <2>3, <2>4, <2>5
    <3>2. Cardinality(Of(tr)') = Cardinality(Of(tr)) + 1
      BY <2>1, <3>1, FS_AddElement
    <3>3. QED
      BY <2>2, <2>3, <2>4, <2>5, <3>2
  <2>6. CASE tr # trader
    <3>1. Of(tr)' = Of(tr)
      BY <2>3, <2>4, <2>6
    <3>2. QED
      BY <2>2, <2>3, <2>4, <2>6, <3>1
  <2>7. QED
    BY <2>5, <2>6
<1>3. QED
  BY <1>1, <1>2, Bookings DEF BalanceMatchesSettlements

LEMMA BalanceInit == DepositInit => BalanceMatchesSettlements
<1> SUFFICES ASSUME DepositInit, NEW tr \in Traders
             PROVE  balance[tr] = Cardinality({t \in Transfers : settled[t] = tr})
  BY DEF BalanceMatchesSettlements
<1>1. {t \in Transfers : settled[t] = tr} = {}
  BY DEF DepositInit
<1>2. QED
  BY <1>1, FS_EmptySet DEF DepositInit

\* However the scans of the two networks, the sweeps and the administrator meet
\* on a deposit row, the balance of each trader is the deposits settled to it.
THEOREM BalanceCorrect == Spec => []BalanceMatchesSettlements
BY BalanceInit, BalanceStep, InvHolds, PTL DEF Spec

-----------------------------------------------------------------------------
(* Confirmations *)

\* Only a block changes the chains.
LEMMA ChainSteps ==
    ASSUME [Next]_depositVars
    PROVE  UNCHANGED chain \/ NewBlock("TRC20", Trc20) \/ NewBlock("ERC20", Erc20)
<1>1. ASSUME NEW s \in Scans,
             \/ ListTrc20(s) \/ TrongridSilent(s) \/ PollErc20(s)
             \/ Work(s)
             \/ \E t \in Transfers : SkipUnanswered(s, t)
             \/ EndTrc20(s) \/ EndChunk(s) \/ ScanDies(s)
      PROVE  UNCHANGED chain
  <2>1. CASE Work(s)
    BY <2>1 DEF Work, ProcessRow, CreditThrows, AlreadyCredited, SkipFinal, ReadRow,
                MarkFailed, Observe, Credit
  <2>2. CASE \/ ListTrc20(s) \/ TrongridSilent(s) \/ PollErc20(s)
             \/ \E t \in Transfers : SkipUnanswered(s, t)
             \/ EndTrc20(s) \/ EndChunk(s) \/ ScanDies(s)
    BY <2>2 DEF ListTrc20, TrongridSilent, EndTrc20, PollErc20, EndChunk, ScanDies,
                SkipUnanswered
  <2>3. QED
    BY <1>1, <2>1, <2>2
<1>2. ASSUME NEW t \in Transfers, NEW trader \in Traders, ConfirmManual(t, trader)
      PROVE  UNCHANGED chain
  BY <1>2 DEF ConfirmManual
<1>3. CASE UNCHANGED depositVars
  BY <1>3 DEF depositVars
<1>4. QED
  BY <1>1, <1>2, <1>3 DEF Next

LEMMA DeepStep ==
    ASSUME Inv, CreditedIsDeep, [Next]_depositVars
    PROVE  CreditedIsDeep'
<1>1. /\ head \in [Networks -> 0..MaxBlock] /\ block \in [Transfers -> 0..MaxBlock]
      /\ settled \in [Transfers -> Traders \cup {None}]
  BY DEF Inv, TypeOK, Networks
<1>2. CASE NewBlock("TRC20", Trc20) \/ NewBlock("ERC20", Erc20)
  <2> SUFFICES ASSUME NEW t \in Transfers, settled[t] # None,
                      t \in excused \/ (Deep(t) /\ t \notin rejected)
               PROVE  t \in excused' \/ (Deep(t)' /\ t \notin rejected')
    BY <1>2 DEF CreditedIsDeep, NewBlock, book
  <2>1. excused' = excused
    BY <1>2 DEF NewBlock, book
  <2>2. block[t] > 0 => block'[t] = block[t] /\ (t \notin rejected => t \notin rejected')
    BY <1>1, <1>2 DEF NewBlock, Unmined, Networks, Transfers
  <2>3. Height(t) <= Height(t)' /\ Height(t) \in Nat /\ Height(t)' \in Nat
    BY <1>1, <1>2 DEF NewBlock, Height, Networks
  <2>4. QED
    BY <1>1, <2>1, <2>2, <2>3 DEF Deep
<1>3. CASE UNCHANGED <<settled, balance, excused>> /\ UNCHANGED chain
  BY <1>3 DEF CreditedIsDeep, Deep, Height, chain
<1>4. ASSUME NEW t \in Transfers, NEW trader \in Traders, Book(t, trader), UNCHANGED chain,
             \/ excused' = excused \cup {t}
             \/ /\ \E s \in Scans : EnoughConfirmations(s) /\ scan[s].tx = t
                /\ excused' = excused \cup ({t} \cap rejected)
      PROVE  CreditedIsDeep'
  <2>1. t \in excused' \/ (Deep(t) /\ t \notin rejected)
    <3>1. CASE excused' = excused \cup {t}
      BY <3>1
    <3>2. ASSUME NEW s \in Scans, EnoughConfirmations(s), scan[s].tx = t,
                 excused' = excused \cup ({t} \cap rejected)
          PROVE  t \in excused' \/ (Deep(t) /\ t \notin rejected)
      <4>1. /\ block[t] \in 1..MaxBlock /\ scan[s].head \in Nat
            /\ scan[s].head <= Height(t)
        BY <3>2, CurrentTransfer DEF EnoughConfirmations
      <4>2. Height(t) \in Nat
        BY <1>1 DEF Height, Networks
      <4>3. Deep(t)
        BY <3>2, <4>1, <4>2 DEF EnoughConfirmations, Confirmations, Deep
      <4>4. QED
        BY <3>2, <4>3
    <3>3. QED
      BY <1>4, <3>1, <3>2
  <2>2. \A u \in Transfers : u # t => settled'[u] = settled[u]
    BY <1>1, <1>4 DEF Book
  <2>3. \A u \in Transfers : Deep(u)' <=> Deep(u)
    BY <1>4 DEF Deep, Height, chain
  <2>4. excused \subseteq excused' /\ rejected' = rejected
    BY <1>4 DEF chain
  <2>5. QED
    BY <2>1, <2>2, <2>3, <2>4 DEF CreditedIsDeep
<1>5. UNCHANGED chain \/ NewBlock("TRC20", Trc20) \/ NewBlock("ERC20", Erc20)
  BY ChainSteps
<1>6. QED
  BY <1>2, <1>3, <1>4, <1>5, Bookings

\* A deposit is credited when it is deep enough and its receipt is good, or on
\* the word of the administrator or for want of TronGrid's.
THEOREM DeepCorrect == Spec => []CreditedIsDeep
<1>1. DepositInit => CreditedIsDeep
  BY DEF DepositInit, CreditedIsDeep
<1>2. QED
  BY <1>1, DeepStep, InvHolds, PTL DEF Spec

-----------------------------------------------------------------------------
(* What a scan does with a transfer that it has listed *)

\* The transfer has a row, or the scan is yet to take it up or write it.
InHand(s, t) ==
    \/ row[t].status # "NONE"
    \/ t \in scan[s].todo
    \/ scan[s].phase = "row" /\ t = scan[s].tx

\* A step of a scan leaves the other scans alone.
LEMMA WorkOfOne ==
    ASSUME Inv, NEW s \in Scans, Work(s)
    PROVE  \A u \in Scans \ {s} : scan'[u] = scan[u]
BY DEF Inv, TypeOK, Work, ProcessRow, CreditThrows, AlreadyCredited, SkipFinal, ReadRow,
       MarkFailed, Observe, Credit, GoOn

\* No row goes away.
LEMMA RowsStay ==
    ASSUME Inv, [Next]_depositVars
    PROVE  \A t \in Transfers : row[t].status # "NONE" => row'[t].status # "NONE"
<1>1. CASE \/ \E s \in Scans : MarkFailed(s) \/ Observe(s) \/ Credit(s)
           \/ \E t \in Transfers, trader \in Traders : ConfirmManual(t, trader)
  BY <1>1, RowSteps
<1>2. ASSUME NEW s \in Scans,
             \/ ListTrc20(s) \/ TrongridSilent(s) \/ EndTrc20(s)
             \/ PollErc20(s) \/ EndChunk(s) \/ CreditThrows(s) \/ ScanDies(s)
             \/ AlreadyCredited(s)
             \/ \E t \in Transfers : SkipFinal(s, t) \/ ReadRow(s, t) \/ SkipUnanswered(s, t)
      PROVE  UNCHANGED row
  BY <1>2 DEF ListTrc20, TrongridSilent, EndTrc20, PollErc20, EndChunk, CreditThrows,
              ScanDies, AlreadyCredited, SkipFinal, ReadRow, SkipUnanswered, book
<1>3. CASE NewBlock("TRC20", Trc20) \/ NewBlock("ERC20", Erc20)
  BY <1>3 DEF NewBlock, book
<1>4. CASE UNCHANGED depositVars
  BY <1>4 DEF depositVars, book
<1>5. QED
  BY <1>1, <1>2, <1>3, <1>4 DEF Next, Work, ProcessRow

LEMMA WorkKeepsRange ==
    ASSUME Inv, NEW s \in Scans, Work(s), scan'[s] # Idle
    PROVE  scan'[s].toBlock = scan[s].toBlock
<1>1. scan \in [Scans -> Scan \cup {Idle}] /\ ~CreditThrows(s)
  BY ScanPut DEF Inv, TypeOK, CreditThrows
<1>2. scan[s] \in Scan
  <2>1. scan[s].phase \in {"next", "row"}
    BY DEF Work, ProcessRow, CreditThrows, AlreadyCredited, SkipFinal, ReadRow,
           MarkFailed, Observe, Credit, EnoughConfirmations
  <2>2. QED
    BY <2>1, RunningType DEF Inv
<1>3. \/ \E x \in Transfers : SkipFinal(s, x) \/ ReadRow(s, x)
      \/ \E p : GoOn(s, p)
  BY <1>1 DEF Work, ProcessRow, AlreadyCredited, MarkFailed, Observe, Credit
<1>4. CASE \E x \in Transfers : SkipFinal(s, x) \/ ReadRow(s, x)
  BY <1>1, <1>2, <1>4 DEF SkipFinal, ReadRow, Scan
<1>5. CASE \E p : GoOn(s, p)
  BY <1>1, <1>2, <1>5 DEF GoOn, Scan
<1>6. QED
  BY <1>3, <1>4, <1>5

\* A scan that goes on keeps a transfer in hand until there is a row of it.
LEMMA WorkInHand ==
    ASSUME Inv, NEW s \in Scans, Work(s), NEW t \in Transfers, InHand(s, t)
    PROVE  \/ scan'[s] = Idle
           \/ InHand(s, t)' /\ scan'[s].phase \in {"next", "row"}
<1>1. scan[s].phase \in {"next", "row"} /\ scan[s] \in Scan
  <2>1. scan[s].phase \in {"next", "row"}
    BY DEF Work, ProcessRow, CreditThrows, AlreadyCredited, SkipFinal, ReadRow,
           MarkFailed, Observe, Credit, EnoughConfirmations
  <2>2. QED
    BY <2>1, RunningType DEF Inv
<1>2. row[t].status # "NONE" => row'[t].status # "NONE"
  BY RowsStay DEF Next
<1>3. ASSUME NEW x \in Transfers, SkipFinal(s, x)
      PROVE  InHand(s, t)' /\ scan'[s].phase = "next"
  <2> DEFINE c == [scan[s] EXCEPT !.todo = @ \ {x}]
  <2>1. scan' = [scan EXCEPT ![s] = c]
    BY <1>3 DEF SkipFinal
  <2>2. scan'[s] = c
    BY <2>1, ScanPut
  <2>3. row[x].status # "NONE" /\ row' = row /\ scan[s].phase = "next"
    BY <1>3 DEF SkipFinal, Final, book
  <2>4. QED
    BY <1>1, <2>2, <2>3 DEF InHand, Scan
<1>4. ASSUME NEW x \in Transfers, ReadRow(s, x)
      PROVE  InHand(s, t)' /\ scan'[s].phase = "row"
  <2> DEFINE c == [scan[s] EXCEPT !.phase = "row", !.todo = @ \ {x},
                                  !.tx = x, !.existing = row[x].traderId]
  <2>1. scan' = [scan EXCEPT ![s] = c]
    BY <1>4 DEF ReadRow
  <2>2. scan'[s] = c
    BY <2>1, ScanPut
  <2>3. row' = row /\ scan[s].phase = "next"
    BY <1>4 DEF ReadRow, book
  <2>4. QED
    BY <1>1, <2>2, <2>3 DEF InHand, Scan
<1>5. CASE CreditThrows(s)
  BY <1>5, ScanPut DEF CreditThrows
<1>6. CASE MarkFailed(s) \/ Observe(s) \/ Credit(s) \/ AlreadyCredited(s)
  <2>1. PICK p : GoOn(s, p)
    BY <1>6 DEF AlreadyCredited, MarkFailed, Observe, Credit
  <2> DEFINE c == [scan[s] EXCEPT !.phase = "next", !.tx = None, !.existing = None,
                                  !.pending = @ \/ p]
  <2>2. scan' = [scan EXCEPT ![s] = c]
    BY <2>1 DEF GoOn
  <2>3. scan'[s] = c
    BY <2>2, ScanPut
  <2>4. scan[s].phase = "row" /\ scan[s].tx \in Transfers
    BY <1>6, CurrentTransfer DEF AlreadyCredited, MarkFailed, Observe, Credit,
                                 EnoughConfirmations
  <2>5. row'[scan[s].tx].status # "NONE"
    <3>1. row \in [Transfers -> DepositRow]
      BY DEF Inv, TypeOK
    <3>2. row[scan[s].tx].status # "NONE" => row'[scan[s].tx].status # "NONE"
      BY <2>4, RowsStay DEF Next
    <3>3. CASE ~OwnRow(s)
      BY <2>4, <3>2, <3>3, CurrentTransfer DEF OwnRow
    <3>4. ASSUME NEW st \in WalletDepositStatus, Upsert(scan[s].tx, st)
          PROVE  row'[scan[s].tx].status # "NONE"
      BY <2>4, <3>1, <3>4 DEF Upsert, WalletDepositStatus
    <3>5. CASE MarkFailed(s) \/ Observe(s)
      BY <3>3, <3>4, <3>5 DEF MarkFailed, Observe, InterimStatus, WalletDepositStatus
    <3>6. CASE Credit(s)
      BY <2>4, <3>1, <3>6 DEF Credit, Book
    <3>7. CASE AlreadyCredited(s)
      BY <3>2, <3>7 DEF AlreadyCredited
    <3>8. QED
      BY <1>6, <3>5, <3>6, <3>7
  <2>6. QED
    BY <1>1, <1>2, <2>3, <2>4, <2>5 DEF InHand, Scan
<1>7. QED
  BY <1>3, <1>4, <1>5, <1>6 DEF Work, ProcessRow

-----------------------------------------------------------------------------
(* The ERC-20 cursor *)

\* Up to the last block of its range, a poll has a row for each transfer, or it
\* is yet to take it up.
Covered(s) ==
    scan[s].phase \in {"next", "row"} =>
        \A t \in Erc20 : block[t] \in 1..scan[s].toBlock => InHand(s, t)

CursorInv ==
    /\ cursor <= head["ERC20"]
    /\ ScannedIsRecorded
    /\ \A s \in EthScans : Covered(s)

\* With the chains as they are and no row going away, only the scans that a step
\* moves need to be looked at.
LEMMA CoveredStays ==
    ASSUME CursorInv, NEW s \in EthScans, scan'[s] = scan[s], UNCHANGED block,
           \A t \in Transfers : row[t].status # "NONE" => row'[t].status # "NONE"
    PROVE  Covered(s)'
BY DEF CursorInv, Covered, InHand, Transfers

LEMMA GetLogsCovers ==
    ASSUME Inv, ~LogsMayFail, NEW s \in EthScans, NEW height \in Nat, NEW from \in Nat \ {0},
           GetLogs(s, height, from), UNCHANGED <<chain, row>>,
           \A t \in Erc20 : block[t] \in 1..(from - 1) => row[t].status # "NONE"
    PROVE  /\ Covered(s)'
           /\ \A u \in Scans \ {s} : scan'[u] = scan[u]
<1> DEFINE to == Smaller(from + Chunk - 1, height)
<1>1. scan' = [scan EXCEPT ![s] = NewScan(height, to, LogsOf(from, to))]
  <2>1. {t \in LogsOf(from, to) : Owner[t] \notin {}} = LogsOf(from, to)
    OBVIOUS
  <2> QED
    BY <2>1 DEF GetLogs
<1>2. scan'[s] = NewScan(height, to, LogsOf(from, to)) /\ \A u \in Scans \ {s} : scan'[u] = scan[u]
  BY <1>1, ScanPut DEF Scans
<1>3. to \in Nat /\ block \in [Transfers -> 0..MaxBlock] /\ UNCHANGED block
  BY DEF Smaller, Inv, TypeOK, chain
<1>4. QED
  BY <1>2, <1>3 DEF Covered, InHand, NewScan, LogsOf, Transfers

LEMMA PollCursor ==
    ASSUME Inv, CursorInv, ~LogsMayFail, NEW s \in Scans, PollErc20(s)
    PROVE  CursorInv'
<1>1. s \in EthScans /\ UNCHANGED <<chain, book, cursor>>
  BY DEF PollErc20
<1>2. PICK last \in {cursor, 0} : GetLogs(s, head["ERC20"], ResolveStartBlock(last))
  BY DEF PollErc20
<1>3. /\ head["ERC20"] \in 1..MaxBlock /\ cursor \in 0..MaxBlock
      /\ block \in [Transfers -> 0..MaxBlock]
  BY DEF PollErc20, Inv, TypeOK
<1>4. /\ ResolveStartBlock(last) \in Nat \ {0}
      /\ ResolveStartBlock(last) <= cursor + 1
  BY <1>2, <1>3 DEF ResolveStartBlock, Smaller
<1>5. \A t \in Erc20 : block[t] \in 1..(ResolveStartBlock(last) - 1) => row[t].status # "NONE"
  BY <1>3, <1>4 DEF CursorInv, ScannedIsRecorded, Transfers
<1>6. UNCHANGED <<row, chain>>
  BY <1>1 DEF book
<1>7. Covered(s)' /\ \A u \in Scans \ {s} : scan'[u] = scan[u]
  BY <1>1, <1>2, <1>3, <1>4, <1>5, <1>6, GetLogsCovers
<1>8. QED
  BY <1>1, <1>6, <1>7, CoveredStays DEF CursorInv, ScannedIsRecorded, chain, book, Scans

LEMMA EndChunkCursor ==
    ASSUME Inv, CursorInv, ~LogsMayFail, NEW s \in Scans, EndChunk(s)
    PROVE  CursorInv'
<1>1. s \in EthScans /\ s \notin TronScans /\ UNCHANGED <<chain, book>>
  BY DEF EndChunk
<1>2. scan[s] \in Scan /\ ScanFits(s, scan[s]) /\ Covered(s)
  BY <1>1, RunningType DEF EndChunk, Inv, ScanInv, CursorInv
<1>3. /\ scan[s].toBlock \in 0..MaxBlock /\ scan[s].head \in 0..MaxBlock
      /\ scan[s].toBlock <= scan[s].head /\ scan[s].head <= head["ERC20"]
      /\ head["ERC20"] \in 0..MaxBlock
  BY <1>1, <1>2 DEF Scan, ScanFits, EndChunk, Inv, TypeOK
<1>4. \A t \in Erc20 : block[t] \in 1..scan[s].toBlock => row[t].status # "NONE"
  BY <1>2 DEF Covered, InHand, EndChunk
<1>5. UNCHANGED <<row, chain>> /\ UNCHANGED <<row, block>> /\ UNCHANGED head
  BY <1>1 DEF book, chain
<1>6. cursor' <= head'["ERC20"] /\ ScannedIsRecorded'
  BY <1>3, <1>4, <1>5 DEF EndChunk, CursorInv, ScannedIsRecorded
<1>7. Covered(s)' /\ \A u \in Scans \ {s} : scan'[u] = scan[u]
  <2>1. CASE scan[s].toBlock < scan[s].head
    BY <1>1, <1>3, <1>4, <1>5, <2>1, GetLogsCovers DEF EndChunk
  <2>2. CASE ~(scan[s].toBlock < scan[s].head)
    BY <2>2, ScanPut DEF EndChunk, Covered, Done
  <2>3. QED
    BY <2>1, <2>2
<1>8. QED
  BY <1>5, <1>6, <1>7, CoveredStays DEF CursorInv, Scans

LEMMA NewBlockCursor ==
    ASSUME Inv, CursorInv, NewBlock("TRC20", Trc20) \/ NewBlock("ERC20", Erc20)
    PROVE  CursorInv'
<1>1. /\ head \in [Networks -> 0..MaxBlock] /\ block \in [Transfers -> 0..MaxBlock]
      /\ cursor \in 0..MaxBlock
  BY DEF Inv, TypeOK, Networks
<1>2. row' = row /\ scan' = scan /\ cursor' = cursor
  BY DEF NewBlock, book
<1>3. head["ERC20"] <= head'["ERC20"] /\ head'["ERC20"] \in Nat
  BY <1>1 DEF NewBlock, Networks
<1>4. ASSUME NEW t \in Erc20
      PROVE  block'[t] = block[t] \/ block'[t] > head["ERC20"]
  BY <1>1, <1>4 DEF NewBlock, Networks, Unmined, Transfers
<1>5. cursor' <= head'["ERC20"]
  BY <1>1, <1>2, <1>3 DEF CursorInv, Networks
<1>6. ScannedIsRecorded'
  BY <1>1, <1>2, <1>4 DEF CursorInv, ScannedIsRecorded, Networks, Transfers
<1>7. ASSUME NEW s \in EthScans PROVE Covered(s)'
  <2>1. Covered(s) /\ ScanFits(s, scan[s]) /\ s \notin TronScans
    BY DEF CursorInv, Inv, ScanInv, Scans
  <2>2. scan[s].phase \in {"next", "row"} =>
            scan[s].toBlock \in Nat /\ scan[s].toBlock <= head["ERC20"]
    BY <1>1, <2>1, RunningType DEF ScanFits, Scan, Networks, Inv, Scans
  <2>3. QED
    BY <1>1, <1>2, <1>4, <2>1, <2>2 DEF Covered, InHand, Networks, Transfers
<1>8. QED
  BY <1>5, <1>6, <1>7 DEF CursorInv

LEMMA RowCursor ==
    ASSUME Inv, CursorInv, NEW s \in Scans, Work(s)
    PROVE  CursorInv'
<1>1. UNCHANGED chain /\ cursor' = cursor
  BY DEF Work, ProcessRow, CreditThrows, AlreadyCredited, SkipFinal, ReadRow,
         MarkFailed, Observe, Credit
<1>2. \A t \in Transfers : row[t].status # "NONE" => row'[t].status # "NONE"
  BY RowsStay DEF Next
<1>3. cursor' <= head'["ERC20"] /\ ScannedIsRecorded'
  BY <1>1, <1>2 DEF CursorInv, ScannedIsRecorded, chain, Transfers
<1>4. ASSUME s \in EthScans PROVE Covered(s)'
  <2>1. Covered(s) /\ scan[s].phase \in {"next", "row"}
    BY <1>4 DEF CursorInv, Work, ProcessRow, CreditThrows, AlreadyCredited, SkipFinal,
                ReadRow, MarkFailed, Observe, Credit, EnoughConfirmations
  <2>2. CASE scan'[s] = Idle
    BY <2>2 DEF Covered, Idle
  <2>3. CASE scan'[s] # Idle
    <3> SUFFICES ASSUME NEW t \in Erc20, block'[t] \in 1..scan'[s].toBlock
                 PROVE  InHand(s, t)'
      BY DEF Covered
    <3>1. block'[t] = block[t] /\ t \in Transfers
      BY <1>1 DEF chain, Transfers
    <3>2. scan'[s].toBlock = scan[s].toBlock
      BY <2>3, WorkKeepsRange
    <3>3. InHand(s, t)
      BY <2>1, <3>1, <3>2 DEF Covered
    <3>4. QED
      BY <2>3, <3>1, <3>3, WorkInHand
  <2>4. QED
    BY <2>2, <2>3
<1>5. QED
  BY <1>1, <1>2, <1>3, <1>4, WorkOfOne, CoveredStays DEF CursorInv, chain, Scans

\* Steps that no poll of ERC-20 logs takes, or after which it is over.
LEMMA OtherCursor ==
    ASSUME Inv, CursorInv, [Next]_depositVars,
           \/ UNCHANGED depositVars
           \/ \E t \in Transfers, trader \in Traders : ConfirmManual(t, trader)
           \/ \E s \in Scans :
                 \/ ListTrc20(s) \/ TrongridSilent(s) \/ EndTrc20(s) \/ ScanDies(s)
                 \/ \E t \in Transfers : SkipUnanswered(s, t)
    PROVE  CursorInv'
<1>1. UNCHANGED chain /\ cursor' = cursor
  BY DEF ConfirmManual, ListTrc20, TrongridSilent, EndTrc20, ScanDies, SkipUnanswered,
         depositVars
<1>2. \A t \in Transfers : row[t].status # "NONE" => row'[t].status # "NONE"
  <2>1. CASE \E t \in Transfers, trader \in Traders : ConfirmManual(t, trader)
    BY <2>1, RowSteps
  <2>2. CASE UNCHANGED row
    BY <2>2
  <2>3. QED
    BY <2>1, <2>2 DEF ListTrc20, TrongridSilent, EndTrc20, ScanDies, SkipUnanswered,
                      depositVars, book
<1>3. ASSUME NEW u \in EthScans PROVE scan'[u] = scan[u] \/ scan'[u] = Idle
  <2>1. u \notin TronScans
    OBVIOUS
  <2>2. scan \in [Scans -> Scan \cup {Idle}]
    BY DEF Inv, TypeOK
  <2>3. ASSUME NEW s \in Scans, ListTrc20(s) \/ TrongridSilent(s) \/ EndTrc20(s)
               \/ \E t \in Transfers : SkipUnanswered(s, t)
        PROVE  scan'[u] = scan[u]
    BY <2>1, <2>2, <2>3 DEF ListTrc20, TrongridSilent, EndTrc20, SkipUnanswered, Scans
  <2>4. ASSUME NEW s \in Scans, ScanDies(s)
        PROVE  scan'[u] = scan[u] \/ scan'[u] = Idle
    BY <2>2, <2>4 DEF ScanDies, Scans
  <2>5. QED
    BY <2>3, <2>4 DEF ConfirmManual, depositVars
<1>4. cursor' <= head'["ERC20"] /\ ScannedIsRecorded'
  BY <1>1, <1>2 DEF CursorInv, ScannedIsRecorded, chain, Transfers
<1>5. ASSUME NEW u \in EthScans PROVE Covered(u)'
  <2>1. CASE scan'[u] = Idle
    BY <2>1 DEF Covered, Idle
  <2>2. CASE scan'[u] = scan[u]
    BY <1>1, <1>2, <2>2, CoveredStays DEF chain
  <2>3. QED
    BY <1>3, <2>1, <2>2
<1>6. QED
  BY <1>4, <1>5 DEF CursorInv

\* If eth_getLogs answers, no transfer up to the cursor is without a row: not when
\* polls overlap, and not when one dies between two rows or two ranges.
THEOREM ScannedRecorded ==
    ASSUME LogsMayFail = FALSE
    PROVE  Spec => []ScannedIsRecorded
<1>1. DepositInit => CursorInv
  BY DEF DepositInit, CursorInv, ScannedIsRecorded, Covered, Idle, Scans, Transfers
<1>2. ASSUME Inv, CursorInv, [Next]_depositVars PROVE CursorInv'
  BY <1>2, NewBlockCursor, PollCursor, EndChunkCursor, RowCursor, OtherCursor DEF Next
<1>3. CursorInv => ScannedIsRecorded
  BY DEF CursorInv
<1>4. QED
  BY <1>1, <1>2, <1>3, InvHolds, PTL DEF Spec
=============================================================================
