---------------------------- MODULE CascadeProofs ----------------------------
(***************************************************************************)
(* Proofs about Cascade, for any number of uploads, requisites, traders    *)
(* and amounts, any shares and any bounds.                                 *)
(*                                                                         *)
(* Inv has three parts beside the types.  CreditInv keeps the credits and  *)
(* what uploads have read of them within half an assignment of zero, and   *)
(* bounds their distance to the true credit.  RowInv ties a chosen         *)
(* requisite to its row lock: while the lock is held, the orders of the    *)
(* amount that are there have been written back.  BetInv counts the        *)
(* uploads that may still give a trader an order against the trader's      *)
(* capacity.                                                               *)
(***************************************************************************)
EXTENDS Cascade, FiniteSetTheorems, TLAPS

Working == {"balances", "rank", "try", "lock", "write", "commit"}

Chosen(u) == job[u].pc \in {"write", "commit"} /\ job[u].pick # None

\* Credits that the picks of primary levels can lead to.
Balanced(c) == /\ c.FORK + c.CARD = 0
               /\ 2 * c.FORK \in -Scale..Scale

\* No order of the amount is there but such as were written back.
OnlyReturned(r, x) == held[r][x] = returned[r][x]

CreditInv ==
    /\ Balanced(credit)
    /\ \A u \in Uploads : job[u].pc \in Working => Balanced(job[u].read)
    /\ owed - credit.FORK \in -(Scale * stale)..(Scale * stale)

RowInv ==
    /\ SameAmountOnce
    /\ \A r \in Requisites, x \in Amounts : returned[r][x] <= held[r][x]
    /\ \A u \in Uploads : job[u].pc \in {"balances", "rank", "try"} => job[u].pick = None
    /\ \A u \in Uploads : job[u].pc = "lock" => job[u].pick \in job[u].cands
    /\ \A u \in Uploads :
         Chosen(u) => /\ job[u].pick \in job[u].cands
                      /\ rowLock[job[u].pick] = u
                      /\ OnlyReturned(job[u].pick, job[u].amount)

\* The uploads that may still give t an order.
Betting(t) ==
    {u \in Uploads : job[u].pc \in Working /\ \E r \in job[u].cands : Owner[r] = t}

BetInv ==
    /\ \A u \in Uploads : job[u].pc = "rank" =>
         \A t \in Traders : job[u].seen[t] <= room[t] + unforeseen[t]
    /\ \A u \in Uploads : job[u].pc \in {"balances", "rank"} => job[u].cands = {}
    /\ \A t \in Traders :
         pending[t] + Cardinality(Betting(t))
             <= room[t] + unforeseen[t] + Cardinality(Uploads) - 1

Inv == TypeOK /\ CreditInv /\ RowInv /\ BetInv

-----------------------------------------------------------------------------
(* Records of uploads *)

LEMMA WorkingUpload ==
    ASSUME TypeOK, NEW u \in Uploads, job[u].pc \in Working
    PROVE  job[u] \in Upload
BY DEF TypeOK, Working, Idle, Finished

LEMMA FinishedUpload ==
    ASSUME TypeOK, NEW u \in Uploads, job[u].pc = "release"
    PROVE  job[u] \in Finished
<1>1. job[u] \in {Idle} \cup Upload \cup Finished
  BY DEF TypeOK
<1>2. job[u] # Idle
  BY DEF Idle
<1>3. job[u] \notin Upload
  BY DEF Upload
<1> QED
  BY <1>1, <1>2, <1>3

LEMMA SetType ==
    ASSUME TypeOK, NEW u \in Uploads, NEW e \in {Idle} \cup Upload \cup Finished,
           Set(u, e)
    PROVE  /\ job' \in [Uploads -> {Idle} \cup Upload \cup Finished]
           /\ job'[u] = e
           /\ \A v \in Uploads \ {u} : job'[v] = job[v]
BY DEF TypeOK, Set

LEMMA TurnDownType ==
    ASSUME TypeOK, NEW u \in Uploads, job[u].pc \in Working, NEW r, TurnDown(u, r)
    PROVE  /\ job' \in [Uploads -> {Idle} \cup Upload \cup Finished]
           /\ job'[u].pc = "try" /\ job'[u].pick = None
           /\ job'[u].cands = job[u].cands \ {r}
           /\ job'[u].read = job[u].read
           /\ \A v \in Uploads \ {u} : job'[v] = job[v]
<1> DEFINE e == [job[u] EXCEPT !.pc = "try", !.cands = @ \ {r}, !.pick = None]
<1>1. job[u] \in Upload
  BY WorkingUpload
<1>2. /\ e \in Upload
      /\ e.pc = "try" /\ e.pick = None
      /\ e.cands = job[u].cands \ {r}
      /\ e.read = job[u].read
  BY <1>1 DEF Upload
<1>3. Set(u, e)
  BY DEF TurnDown
<1> QED
  BY <1>2, <1>3, SetType

LEMMA LocksType ==
    ASSUME TypeOK, NEW u \in Uploads, DropLocks(u)
    PROVE  /\ debtLock' \in Uploads \cup {None}
           /\ rowLock' \in [Requisites -> Uploads \cup {None}]
           /\ \A r \in Requisites, v \in Uploads \ {u} :
                rowLock[r] = v => rowLock'[r] = v
BY ConstantsAssumption DEF TypeOK, DropLocks

LEMMA KeyType ==
    ASSUME TypeOK, NEW r, DeleteKey(r)
    PROVE  key' \in [Requisites -> BOOLEAN]
BY DEF TypeOK, DeleteKey

\* One count of a table of counts is replaced.
LEMMA CountType ==
    ASSUME NEW f \in [Requisites -> [Amounts -> Nat]],
           NEW r \in Requisites, NEW x \in Amounts, NEW n \in Nat
    PROVE  /\ [f EXCEPT ![r][x] = n] \in [Requisites -> [Amounts -> Nat]]
           /\ \A q \in Requisites, y \in Amounts :
                [f EXCEPT ![r][x] = n][q][y] = IF q = r /\ y = x THEN n ELSE f[q][y]
OBVIOUS

LEMMA SharesType ==
    /\ Scale \in Nat /\ Scale \in Int /\ Scale > 0
    /\ \A s \in Shares : s \in Int /\ 0 <= s /\ s <= Scale
BY ConstantsAssumption

LEMMA CreditsType ==
    ASSUME NEW c \in Credits, NEW s \in Shares
    PROVE  /\ PrimaryLevel(c, s) \in Levels
           /\ \A p \in Levels : NextCredits(c, s, p) \in Credits
<1>1. s \in Int /\ Scale \in Int
  BY ConstantsAssumption
<1>2. c.FORK \in Int /\ c.CARD \in Int
  BY DEF Credits, Levels
<1> QED
  BY <1>1, <1>2 DEF PrimaryLevel, NextCredits, Credits, Levels

-----------------------------------------------------------------------------
(* Types *)

LEMMA InitTypes == Init => TypeOK
BY ConstantsAssumption DEF Init, TypeOK, Credits, Levels, Idle

LEMMA TypeStep ==
    ASSUME TypeOK, RowInv, [Next]_vars
    PROVE  TypeOK'
<1> USE ConstantsAssumption
<1>1. ASSUME NEW u \in Uploads, ReadDebts(u)
      PROVE  TypeOK'
  <2>1. PICK x \in Amounts :
           Set(u, [pc |-> "balances", amount |-> x, share |-> share, read |-> credit,
                   seen |-> NotRead, cands |-> {}, pick |-> None, assigned |-> FALSE])
    BY <1>1 DEF ReadDebts
  <2>2. [pc |-> "balances", amount |-> x, share |-> share, read |-> credit,
         seen |-> NotRead, cands |-> {}, pick |-> None, assigned |-> FALSE] \in Upload
    BY DEF Upload, NotRead, TypeOK
  <2>3. job' \in [Uploads -> {Idle} \cup Upload \cup Finished]
    BY <2>1, <2>2, SetType
  <2> QED
    BY <1>1, <2>3 DEF ReadDebts, TypeOK, locks, orders, history
<1>2. ASSUME NEW u \in Uploads, ReadBalances(u)
      PROVE  TypeOK'
  <2>1. job[u] \in Upload
    BY <1>2, WorkingUpload DEF ReadBalances, Working
  <2>2. [job[u] EXCEPT !.pc = "rank", !.seen = room] \in Upload
    BY <2>1 DEF Upload, TypeOK
  <2>3. job' \in [Uploads -> {Idle} \cup Upload \cup Finished]
    BY <1>2, <2>2, SetType DEF ReadBalances
  <2> QED
    BY <1>2, <2>3 DEF ReadBalances, TypeOK, locks, orders, history
<1>3. ASSUME NEW u \in Uploads, Rank(u)
      PROVE  TypeOK'
  <2>1. job[u] \in Upload
    BY <1>3, WorkingUpload DEF Rank, Working
  <2>2. PICK cands \in SUBSET Requisites :
           Set(u, [job[u] EXCEPT !.pc = "try", !.cands = cands, !.seen = NotRead])
    BY <1>3 DEF Rank
  <2>3. [job[u] EXCEPT !.pc = "try", !.cands = cands, !.seen = NotRead] \in Upload
    <3>1. NotRead \in [Traders -> Int]
      BY DEF NotRead
    <3> QED
      BY <2>1, <3>1 DEF Upload
  <2>4. job' \in [Uploads -> {Idle} \cup Upload \cup Finished]
    BY <2>2, <2>3, SetType
  <2> QED
    BY <1>3, <2>4 DEF Rank, TypeOK, locks, orders, history
<1>4. ASSUME NEW u \in Uploads, TryKey(u)
      PROVE  TypeOK'
  <2>1. job[u] \in Upload /\ job[u].pc \in Working
    BY <1>4, WorkingUpload DEF TryKey, Working
  <2>2. PICK r \in NextCandidates(u) :
           \/ TurnDown(u, r) /\ UNCHANGED key
           \/ /\ key' = [key EXCEPT ![r] = TRUE] \/ UNCHANGED key
              /\ Set(u, [job[u] EXCEPT !.pc = "lock", !.pick = r])
    BY <1>4 DEF TryKey
  <2>3. r \in Requisites
    BY <2>1 DEF NextCandidates, Upload
  <2>4. [job[u] EXCEPT !.pc = "lock", !.pick = r] \in Upload
    BY <2>1, <2>3 DEF Upload
  <2>5. job' \in [Uploads -> {Idle} \cup Upload \cup Finished]
    BY <2>1, <2>2, <2>4, SetType, TurnDownType
  <2>6. key' \in [Requisites -> BOOLEAN]
    BY <2>2 DEF TypeOK
  <2> QED
    BY <1>4, <2>5, <2>6 DEF TryKey, TypeOK, locks, orders, history
<1>5. ASSUME NEW u \in Uploads, SkipLocked(u)
      PROVE  TypeOK'
  <2>1. job' \in [Uploads -> {Idle} \cup Upload \cup Finished]
    BY <1>5, TurnDownType DEF SkipLocked, Working
  <2>2. key' \in [Requisites -> BOOLEAN]
    BY <1>5, KeyType DEF SkipLocked
  <2> QED
    BY <1>5, <2>1, <2>2 DEF SkipLocked, TypeOK, locks, orders, history
<1>6. ASSUME NEW u \in Uploads, Recheck(u)
      PROVE  TypeOK'
  <2>1. job[u] \in Upload /\ job[u].pc \in Working
    BY <1>6, WorkingUpload DEF Recheck, Working
  <2>2. job' \in [Uploads -> {Idle} \cup Upload \cup Finished]
    <3>1. CASE TurnDown(u, job[u].pick)
      BY <2>1, <3>1, TurnDownType
    <3>2. CASE Set(u, [job[u] EXCEPT !.pc = "write", !.cands = {job[u].pick},
                                     !.assigned = TRUE])
      <4>1. job[u].pick \in Requisites
        BY <1>6, <2>1 DEF Recheck, RowInv, Upload
      <4>2. [job[u] EXCEPT !.pc = "write", !.cands = {job[u].pick},
                           !.assigned = TRUE] \in Upload
        BY <2>1, <4>1 DEF Upload
      <4> QED
        BY <3>2, <4>2, SetType
    <3> QED
      BY <1>6, <3>1, <3>2 DEF Recheck
  <2>3. key' \in [Requisites -> BOOLEAN]
    BY <1>6, KeyType DEF Recheck, TypeOK
  <2>4. rowLock' \in [Requisites -> Uploads \cup {None}]
    BY <1>6 DEF Recheck, TypeOK
  <2> QED
    BY <1>6, <2>2, <2>3, <2>4 DEF Recheck, TypeOK, locks, orders, history
<1>7. ASSUME NEW u \in Uploads, AskProvider(u)
      PROVE  TypeOK'
  <2>1. job[u] \in Upload
    BY <1>7, WorkingUpload DEF AskProvider, Working
  <2>2. /\ [job[u] EXCEPT !.pc = "write", !.assigned = TRUE] \in Upload
        /\ [job[u] EXCEPT !.pc = "commit"] \in Upload
    BY <2>1 DEF Upload
  <2>3. job' \in [Uploads -> {Idle} \cup Upload \cup Finished]
    BY <1>7, <2>2, SetType DEF AskProvider, Go
  <2> QED
    BY <1>7, <2>3 DEF AskProvider, TypeOK, locks, orders, history
<1>8. ASSUME NEW u \in Uploads, WriteDebts(u)
      PROVE  TypeOK'
  <2>1. job[u] \in Upload
    BY <1>8, WorkingUpload DEF WriteDebts, Working
  <2>2. [job[u] EXCEPT !.pc = "commit"] \in Upload
    BY <2>1 DEF Upload
  <2>3. job' \in [Uploads -> {Idle} \cup Upload \cup Finished]
    BY <1>8, <2>2, SetType DEF WriteDebts, Go
  <2> QED
    BY <1>8, <2>3 DEF WriteDebts, TypeOK, orders, history
<1>9. ASSUME NEW u \in Uploads, Commit(u)
      PROVE  TypeOK'
  <2>1. job[u] \in Upload
    BY <1>9, WorkingUpload DEF Commit, Working
  <2>2. [pc |-> "release", pick |-> job[u].pick] \in Finished
    BY <2>1 DEF Upload, Finished
  <2>3. job' \in [Uploads -> {Idle} \cup Upload \cup Finished]
    BY <1>9, <2>2, SetType DEF Commit
  <2>4. /\ debtLock' \in Uploads \cup {None}
        /\ rowLock' \in [Requisites -> Uploads \cup {None}]
    BY <1>9, LocksType DEF Commit
  <2>5. credit' \in Credits /\ owed' \in Int /\ stale' \in Nat
    <3>1. job[u].read \in Credits /\ job[u].share \in Shares
      BY <2>1 DEF Upload
    <3>2. NextCredits(job[u].read, job[u].share, Primary(u)) \in Credits
      BY <3>1, CreditsType DEF Primary
    <3>3. job[u].share \in Int /\ Scale \in Int
      BY <3>1, SharesType
    <3> QED
      BY <1>9, <3>2, <3>3 DEF Commit, TypeOK
  <2>6. held' \in [Requisites -> [Amounts -> Nat]] /\ pending' \in [Traders -> Int]
    <3>1. CASE job[u].pick = None
      BY <1>9, <3>1 DEF Commit, TypeOK, orders
    <3>2. CASE job[u].pick # None
      <4> DEFINE r == job[u].pick
                 x == job[u].amount
      <4>1. r \in Requisites /\ x \in Amounts /\ Owner[r] \in Traders
        BY <2>1, <3>2 DEF Upload
      <4>2. held' = [held EXCEPT ![r][x] = held[r][x] + 1] /\ held[r][x] + 1 \in Nat
        BY <1>9, <3>2, <4>1 DEF Commit, TypeOK
      <4>4. held' \in [Requisites -> [Amounts -> Nat]]
        BY <4>1, <4>2, CountType DEF TypeOK
      <4> QED
        BY <1>9, <3>2, <4>1, <4>4 DEF Commit, TypeOK
    <3> QED
      BY <3>1, <3>2
  <2>7. UNCHANGED <<overtaken, returned>>
    BY <1>9 DEF Commit, orders
  <2> QED
    BY <1>9, <2>3, <2>4, <2>5, <2>6, <2>7 DEF Commit, TypeOK
<1>10. ASSUME NEW u \in Uploads, ReleaseKey(u)
       PROVE  TypeOK'
  <2>1. job' \in [Uploads -> {Idle} \cup Upload \cup Finished]
    BY <1>10, SetType DEF ReleaseKey
  <2>2. key' \in [Requisites -> BOOLEAN]
    BY <1>10, KeyType DEF ReleaseKey, TypeOK
  <2> QED
    BY <1>10, <2>1, <2>2 DEF ReleaseKey, TypeOK, locks, orders, history
<1>11. ASSUME NEW u \in Uploads, Abort(u)
       PROVE  TypeOK'
  <2>1. job' \in [Uploads -> {Idle} \cup Upload \cup Finished]
    <3>1. CASE job[u].pc = "commit"
      <4>1. job[u] \in Upload
        BY <3>1, WorkingUpload DEF Working
      <4>2. [pc |-> "release", pick |-> job[u].pick] \in Finished
        BY <4>1 DEF Upload, Finished
      <4> QED
        BY <1>11, <3>1, <4>2, SetType DEF Abort
    <3>2. CASE job[u].pc # "commit"
      BY <1>11, <3>2, SetType DEF Abort
    <3> QED
      BY <3>1, <3>2
  <2>2. /\ debtLock' \in Uploads \cup {None}
        /\ rowLock' \in [Requisites -> Uploads \cup {None}]
    BY <1>11, LocksType DEF Abort
  <2> QED
    BY <1>11, <2>1, <2>2 DEF Abort, TypeOK, orders, history
<1>12. ASSUME NEW r \in Requisites, KeyExpires(r)
       PROVE  TypeOK'
  BY <1>12 DEF KeyExpires, TypeOK, locks, orders, history
<1>13. CASE SettingsChange
  BY <1>13 DEF SettingsChange, TypeOK, locks, orders, history
<1>14. ASSUME NEW r \in Requisites, NEW x \in Amounts, OrderLeaves(r, x)
       PROVE  /\ held' \in [Requisites -> [Amounts -> Nat]]
              /\ overtaken' \in [Requisites -> [Amounts -> Nat]]
              /\ returned' \in [Requisites -> [Amounts -> Nat]]
              /\ pending' \in [Traders -> Int]
  <2>1. held' \in [Requisites -> [Amounts -> Nat]]
    <3>1. held[r][x] - 1 \in Nat /\ held' = [held EXCEPT ![r][x] = held[r][x] - 1]
      BY <1>14 DEF OrderLeaves, TypeOK
    <3> QED
      BY <3>1, CountType DEF TypeOK
  <2>2. overtaken' \in [Requisites -> [Amounts -> Nat]]
    <3>1. CASE overtaken' = [overtaken EXCEPT ![r][x] = overtaken[r][x] + 1]
      BY <3>1, CountType DEF TypeOK
    <3> QED
      BY <1>14, <3>1 DEF OrderLeaves, TypeOK
  <2>3. returned' \in [Requisites -> [Amounts -> Nat]]
    <3>1. CASE /\ returned[r][x] > 0
               /\ returned' = [returned EXCEPT ![r][x] = returned[r][x] - 1]
      <4>1. returned[r][x] - 1 \in Nat
        BY <3>1 DEF TypeOK
      <4> QED
        BY <3>1, <4>1, CountType DEF TypeOK
    <3> QED
      BY <1>14, <3>1 DEF OrderLeaves, TypeOK
  <2>4. Owner[r] \in Traders
    OBVIOUS
  <2> QED
    BY <1>14, <2>1, <2>2, <2>3, <2>4 DEF OrderLeaves, TypeOK
<1>15. ASSUME NEW r \in Requisites, NEW x \in Amounts,
              OrderPaid(r, x) \/ OrderDropped(r, x)
       PROVE  TypeOK'
  <2>1. OrderLeaves(r, x)
    BY <1>15 DEF OrderPaid, OrderDropped
  <2>2. room' \in [Traders -> Int] /\ unforeseen' \in [Traders -> Nat]
    BY <1>15 DEF OrderPaid, OrderDropped, TypeOK
  <2> QED
    BY <1>14, <2>1, <2>2 DEF OrderLeaves, TypeOK, locks
<1>16. ASSUME NEW r \in Requisites, NEW x \in Amounts, OrderReturns(r, x)
       PROVE  TypeOK'
  <2>1. /\ held' \in [Requisites -> [Amounts -> Nat]]
        /\ overtaken' \in [Requisites -> [Amounts -> Nat]]
        /\ returned' \in [Requisites -> [Amounts -> Nat]]
    <3>1. /\ overtaken[r][x] - 1 \in Nat
          /\ held[r][x] + 1 \in Nat
          /\ returned[r][x] + 1 \in Nat
      BY <1>16 DEF OrderReturns, TypeOK
    <3>2. /\ held' = [held EXCEPT ![r][x] = held[r][x] + 1]
          /\ overtaken' = [overtaken EXCEPT ![r][x] = overtaken[r][x] - 1]
          /\ returned' = [returned EXCEPT ![r][x] = returned[r][x] + 1]
      BY <1>16 DEF OrderReturns
    <3> QED
      BY <3>1, <3>2, CountType DEF TypeOK
  <2>2. pending' \in [Traders -> Int] /\ unforeseen' \in [Traders -> Nat]
    BY <1>16 DEF OrderReturns, TypeOK
  <2> QED
    BY <1>16, <2>1, <2>2 DEF OrderReturns, TypeOK, locks
<1>17. ASSUME NEW t \in Traders, Debit(t) \/ TopUp(t)
       PROVE  TypeOK'
  <2>1. room' \in [Traders -> Int]
    BY <1>17 DEF Debit, TopUp, TypeOK
  <2>2. unforeseen' \in [Traders -> Nat]
    BY <1>17 DEF Debit, TopUp, TypeOK, history
  <2> QED
    BY <1>17, <2>1, <2>2 DEF Debit, TopUp, TypeOK, locks, orders, history
<1>18. CASE UNCHANGED vars
  BY <1>18 DEF vars, TypeOK, locks, orders, history
<1> QED
  BY <1>1, <1>2, <1>3, <1>4, <1>5, <1>6, <1>7, <1>8, <1>9, <1>10, <1>11, <1>12,
     <1>13, <1>15, <1>16, <1>17, <1>18 DEF Next, UploadStep

-----------------------------------------------------------------------------
(* What the steps of an upload do to its record *)

Others(u) == \A v \in Uploads \ {u} : job'[v] = job[v]

\* The record stays the record of the same upload.
Kept(u) == /\ Others(u)
           /\ job'[u].read = job[u].read
           /\ job'[u].amount = job[u].amount

LEMMA SetFacts ==
    ASSUME TypeOK, NEW u \in Uploads, NEW e, Set(u, e)
    PROVE  job'[u] = e /\ Others(u)
BY DEF TypeOK, Set, Others

LEMMA ReadDebtsShape ==
    ASSUME TypeOK, NEW u \in Uploads, ReadDebts(u)
    PROVE  /\ Others(u)
           /\ job'[u].pc = "balances" /\ job'[u].pick = None
           /\ job'[u].cands = {} /\ job'[u].read = credit
BY SetFacts DEF ReadDebts

LEMMA ReadBalancesShape ==
    ASSUME TypeOK, NEW u \in Uploads, ReadBalances(u)
    PROVE  /\ Kept(u) /\ job[u] \in Upload
           /\ job'[u].pc = "rank" /\ job'[u].pick = job[u].pick
           /\ job'[u].cands = job[u].cands /\ job'[u].seen = room
<1> DEFINE e == [job[u] EXCEPT !.pc = "rank", !.seen = room]
<1>1. job[u] \in Upload
  BY WorkingUpload DEF ReadBalances, Working
<1>2. /\ e.pc = "rank" /\ e.seen = room /\ e.pick = job[u].pick
      /\ e.cands = job[u].cands /\ e.read = job[u].read /\ e.amount = job[u].amount
  BY <1>1 DEF Upload
<1>3. job'[u] = e /\ Others(u)
  BY SetFacts DEF ReadBalances
<1> QED
  BY <1>1, <1>2, <1>3 DEF Kept

LEMMA RankShape ==
    ASSUME TypeOK, NEW u \in Uploads, Rank(u)
    PROVE  /\ Kept(u) /\ job[u] \in Upload
           /\ job'[u].pc = "try" /\ job'[u].pick = job[u].pick
           /\ \A r \in job'[u].cands : r \in Requisites /\ CapacityCovers(u, Owner[r])
<1>1. job[u] \in Upload
  BY WorkingUpload DEF Rank, Working
<1>2. PICK cands \in SUBSET {r \in Requisites : CapacityCovers(u, Owner[r])} :
         Set(u, [job[u] EXCEPT !.pc = "try", !.cands = cands, !.seen = NotRead])
  BY DEF Rank
<1> DEFINE e == [job[u] EXCEPT !.pc = "try", !.cands = cands, !.seen = NotRead]
<1>3. /\ e.pc = "try" /\ e.cands = cands /\ e.pick = job[u].pick
      /\ e.read = job[u].read /\ e.amount = job[u].amount
  BY <1>1 DEF Upload
<1>4. job'[u] = e /\ Others(u)
  BY <1>2, SetFacts
<1> QED
  BY <1>1, <1>2, <1>3, <1>4 DEF Kept

LEMMA TurnDownShape ==
    ASSUME TypeOK, NEW u \in Uploads, job[u].pc \in Working, NEW r, TurnDown(u, r)
    PROVE  /\ Kept(u) /\ job[u] \in Upload
           /\ job'[u].pc = "try" /\ job'[u].pick = None
           /\ job'[u].cands \subseteq job[u].cands
<1> DEFINE e == [job[u] EXCEPT !.pc = "try", !.cands = @ \ {r}, !.pick = None]
<1>1. job[u] \in Upload
  BY WorkingUpload
<1>2. /\ e.pc = "try" /\ e.cands = job[u].cands \ {r} /\ e.pick = None
      /\ e.read = job[u].read /\ e.amount = job[u].amount
  BY <1>1 DEF Upload
<1>3. job'[u] = e /\ Others(u)
  BY SetFacts DEF TurnDown
<1> QED
  BY <1>1, <1>2, <1>3 DEF Kept

LEMMA TryKeyShape ==
    ASSUME TypeOK, NEW u \in Uploads, TryKey(u)
    PROVE  /\ Kept(u) /\ job[u] \in Upload
           /\ job'[u].cands \subseteq job[u].cands
           /\ \/ job'[u].pc = "try" /\ job'[u].pick = None
              \/ job'[u].pc = "lock" /\ job'[u].pick \in job'[u].cands
<1>1. job[u] \in Upload /\ job[u].pc \in Working
  BY WorkingUpload DEF TryKey, Working
<1>2. PICK r \in NextCandidates(u) :
         TurnDown(u, r) \/ Set(u, [job[u] EXCEPT !.pc = "lock", !.pick = r])
  BY DEF TryKey
<1>3. r \in job[u].cands
  BY DEF NextCandidates
<1>4. CASE TurnDown(u, r)
  BY <1>1, <1>4, TurnDownShape
<1>5. CASE Set(u, [job[u] EXCEPT !.pc = "lock", !.pick = r])
  <2> DEFINE e == [job[u] EXCEPT !.pc = "lock", !.pick = r]
  <2>1. /\ e.pc = "lock" /\ e.cands = job[u].cands /\ e.pick = r
        /\ e.read = job[u].read /\ e.amount = job[u].amount
    BY <1>1 DEF Upload
  <2>2. job'[u] = e /\ Others(u)
    BY <1>5, SetFacts
  <2> QED
    BY <1>1, <1>3, <2>1, <2>2 DEF Kept
<1> QED
  BY <1>2, <1>4, <1>5

LEMMA RecheckShape ==
    ASSUME TypeOK, RowInv, NEW u \in Uploads, Recheck(u)
    PROVE  /\ Kept(u) /\ job[u] \in Upload
           /\ job'[u].cands \subseteq job[u].cands
           /\ \/ job'[u].pc = "try" /\ job'[u].pick = None
              \/ /\ job'[u].pc = "write" /\ job'[u].pick = job[u].pick
                 /\ job'[u].cands = {job[u].pick}
                 /\ job[u].pick \in Requisites
                 /\ held[job[u].pick][job[u].amount] = 0
                 /\ rowLock'[job[u].pick] = u
<1>1. job[u] \in Upload /\ job[u].pc \in Working /\ job[u].pick \in job[u].cands
  BY WorkingUpload DEF Recheck, Working, RowInv
<1>2. job[u].pick \in Requisites
  BY <1>1 DEF Upload
<1>3. CASE TurnDown(u, job[u].pick)
  BY <1>1, <1>3, TurnDownShape
<1>4. CASE /\ Set(u, [job[u] EXCEPT !.pc = "write", !.cands = {job[u].pick},
                                    !.assigned = TRUE])
           /\ AmountIsFree(job[u].pick, job[u].amount)
  <2>1. rowLock'[job[u].pick] = u
    BY <1>2 DEF Recheck, TypeOK
  <2> DEFINE e == [job[u] EXCEPT !.pc = "write", !.cands = {job[u].pick}, !.assigned = TRUE]
  <2>2. /\ e.pc = "write" /\ e.cands = {job[u].pick} /\ e.pick = job[u].pick
        /\ e.read = job[u].read /\ e.amount = job[u].amount
    BY <1>1 DEF Upload
  <2>3. job'[u] = e /\ Others(u)
    BY <1>4, SetFacts
  <2>4. job'[u].cands \subseteq job[u].cands
    BY <1>1, <2>2, <2>3
  <2> QED
    BY <1>1, <1>2, <1>4, <2>1, <2>2, <2>3, <2>4 DEF Kept, AmountIsFree
<1> QED
  BY <1>3, <1>4 DEF Recheck

LEMMA AskProviderShape ==
    ASSUME TypeOK, NEW u \in Uploads, AskProvider(u)
    PROVE  /\ Kept(u) /\ job[u] \in Upload
           /\ job'[u].pc \in {"write", "commit"}
           /\ job'[u].pick = job[u].pick /\ job'[u].cands = {}
<1> DEFINE e == [job[u] EXCEPT !.pc = "write", !.assigned = TRUE]
           f == [job[u] EXCEPT !.pc = "commit"]
<1>1. job[u] \in Upload /\ job[u].cands = {}
  BY WorkingUpload DEF AskProvider, Working
<1>2. /\ e.pc = "write" /\ e.cands = job[u].cands /\ e.pick = job[u].pick
      /\ e.read = job[u].read /\ e.amount = job[u].amount
  BY <1>1 DEF Upload
<1>3. /\ f.pc = "commit" /\ f.cands = job[u].cands /\ f.pick = job[u].pick
      /\ f.read = job[u].read /\ f.amount = job[u].amount
  BY <1>1 DEF Upload
<1>4. (job'[u] = e \/ job'[u] = f) /\ Others(u)
  BY SetFacts DEF AskProvider, Go
<1>5. CASE job'[u] = e
  BY <1>1, <1>2, <1>4, <1>5 DEF Kept
<1>6. CASE job'[u] = f
  BY <1>1, <1>3, <1>4, <1>6 DEF Kept
<1> QED
  BY <1>4, <1>5, <1>6

LEMMA WriteDebtsShape ==
    ASSUME TypeOK, NEW u \in Uploads, WriteDebts(u)
    PROVE  /\ Kept(u) /\ job[u] \in Upload
           /\ job'[u].pc = "commit"
           /\ job'[u].pick = job[u].pick /\ job'[u].cands = job[u].cands
BY SetFacts, WorkingUpload DEF WriteDebts, Go, Kept, Working, Upload

LEMMA EndShape ==
    ASSUME TypeOK, NEW u \in Uploads, Commit(u) \/ ReleaseKey(u) \/ Abort(u)
    PROVE  Others(u) /\ job'[u].pc \in {"idle", "release"}
BY SetFacts DEF Commit, ReleaseKey, Abort, Idle

-----------------------------------------------------------------------------
(* Level credits *)

\* Steps that leave the credits and what uploads have read of them.
LEMMA CreditsKept ==
    ASSUME CreditInv, UNCHANGED <<credit, owed, stale>>,
           \A v \in Uploads : job'[v].pc \in Working =>
               job[v].pc \in Working /\ job'[v].read = job[v].read
    PROVE  CreditInv'
BY DEF CreditInv, Balanced

\* The choice of the primary level keeps the credits balanced.
LEMMA NextIsBalanced ==
    ASSUME NEW c \in Credits, Balanced(c), NEW s \in Shares
    PROVE  /\ Balanced(NextCredits(c, s, PrimaryLevel(c, s)))
           /\ NextCredits(c, s, PrimaryLevel(c, s)).FORK
                = c.FORK + s - (IF PrimaryLevel(c, s) = "FORK" THEN Scale ELSE 0)
<1>1. c.FORK \in Int /\ c.CARD \in Int
  BY DEF Credits, Levels
<1>2. CASE c.FORK + s >= c.CARD + Scale - s
  BY <1>1, <1>2, SharesType DEF Balanced, NextCredits, PrimaryLevel
<1>3. CASE ~(c.FORK + s >= c.CARD + Scale - s)
  BY <1>1, <1>3, SharesType DEF Balanced, NextCredits, PrimaryLevel
<1> QED
  BY <1>2, <1>3

LEMMA OneMore ==
    ASSUME NEW m \in Nat, NEW n \in Nat
    PROVE  m * n \in Nat /\ m * (n + 1) = m * n + m
OBVIOUS

\* Committing credits read before another commit costs one assignment at most.
LEMMA CreditCommit ==
    ASSUME TypeOK, CreditInv, NEW u \in Uploads, Commit(u)
    PROVE  CreditInv'
<1> DEFINE c == job[u].read
           s == job[u].share
           d == s - (IF Primary(u) = "FORK" THEN Scale ELSE 0)
<1>1. job[u] \in Upload /\ job[u].pc \in Working
  BY WorkingUpload DEF Commit, Working
<1>2. c \in Credits /\ s \in Shares /\ Balanced(c)
  BY <1>1 DEF Upload, CreditInv
<1>3. \A v \in Uploads : job'[v].pc \in Working => v # u /\ job'[v] = job[v]
  BY EndShape DEF Others, Working
<1>4. \A v \in Uploads : job'[v].pc \in Working => Balanced(job'[v].read)
  BY <1>3 DEF CreditInv, Balanced
<1>5. CASE ~job[u].assigned
  <2>1. UNCHANGED <<credit, owed, stale>>
    BY <1>5 DEF Commit
  <2> QED
    BY <1>3, <2>1, CreditsKept
<1>6. CASE job[u].assigned
  <2>1. /\ credit' = NextCredits(c, s, PrimaryLevel(c, s))
        /\ owed' = owed + s - (IF PrimaryLevel(c, s) = "FORK" THEN Scale ELSE 0)
        /\ stale' = stale + (IF credit = c THEN 0 ELSE 1)
    BY <1>6 DEF Commit, Primary
  <2>2. /\ Balanced(credit')
        /\ credit'.FORK = c.FORK + s - (IF PrimaryLevel(c, s) = "FORK" THEN Scale ELSE 0)
    BY <1>2, <2>1, NextIsBalanced
  <2>3. s \in Int /\ c.FORK \in Int /\ credit.FORK \in Int /\ owed \in Int /\ stale \in Nat
    BY <1>2, SharesType DEF Credits, Levels, TypeOK
  <2>4. owed' - credit'.FORK = (owed - credit.FORK) + (credit.FORK - c.FORK)
    BY <2>1, <2>2, <2>3, SharesType
  <2>5. credit.FORK - c.FORK \in -Scale..Scale
    BY <1>2, <2>3, SharesType DEF CreditInv, Balanced
  <2>6. owed - credit.FORK \in -(Scale * stale)..(Scale * stale)
    BY DEF CreditInv
  <2>7. Scale * stale \in Nat /\ Scale * (stale + 1) = Scale * stale + Scale
    BY <2>3, SharesType, OneMore
  <2>8. owed' - credit'.FORK \in -(Scale * stale')..(Scale * stale')
    <3>1. CASE credit = c
      <4>1. stale' = stale /\ owed' - credit'.FORK = owed - credit.FORK
        BY <2>1, <2>3, <2>4, <3>1
      <4> QED
        BY <2>6, <4>1
    <3>2. CASE credit # c
      <4>1. stale' = stale + 1
        BY <2>1, <3>2
      <4> DEFINE p == Scale * stale
                 q == Scale * (stale + 1)
                 a == owed - credit.FORK
                 b == credit.FORK - c.FORK
      <4>2. p \in Int /\ q = p + Scale /\ a \in -p..p /\ b \in -Scale..Scale
        BY <2>5, <2>6, <2>7
      <4>3. a + b \in -q..q
        <5> HIDE DEF p, q, a, b
        <5> QED
          BY <4>2, SharesType
      <4> QED
        BY <2>4, <4>1, <4>3
    <3> QED
      BY <3>1, <3>2
  <2>9. Balanced(credit)'
    BY <2>2 DEF Balanced
  <2> QED
    BY <1>4, <2>8, <2>9 DEF CreditInv, Balanced
<1> QED
  BY <1>5, <1>6

LEMMA CreditStep ==
    ASSUME TypeOK, RowInv, CreditInv, [Next]_vars
    PROVE  CreditInv'
<1>1. ASSUME NEW u \in Uploads, ReadDebts(u)
      PROVE  CreditInv'
  <2>1. \A v \in Uploads : job'[v].pc \in Working =>
           Balanced(job'[v].read)
    BY <1>1, ReadDebtsShape DEF CreditInv, Others, Balanced
  <2> QED
    BY <1>1, <2>1 DEF ReadDebts, CreditInv, Balanced, history
<1>2. ASSUME NEW u \in Uploads,
             \/ ReadBalances(u) \/ Rank(u) \/ TryKey(u) \/ SkipLocked(u)
             \/ Recheck(u) \/ AskProvider(u) \/ WriteDebts(u)
      PROVE  CreditInv'
  <2>1. job[u].pc \in Working
    BY <1>2 DEF ReadBalances, Rank, TryKey, SkipLocked, Recheck, AskProvider, WriteDebts,
                Working
  <2>2. Kept(u)
    BY <1>2, <2>1, ReadBalancesShape, RankShape, TryKeyShape, TurnDownShape, RecheckShape,
       AskProviderShape, WriteDebtsShape DEF SkipLocked
  <2>3. UNCHANGED <<credit, owed, stale>>
    BY <1>2 DEF ReadBalances, Rank, TryKey, SkipLocked, Recheck, AskProvider, WriteDebts,
                history
  <2> QED
    BY <2>1, <2>2, <2>3, CreditsKept DEF Kept, Others
<1>3. ASSUME NEW u \in Uploads, ReleaseKey(u) \/ Abort(u)
      PROVE  CreditInv'
  <2>1. UNCHANGED <<credit, owed, stale>>
    BY <1>3 DEF ReleaseKey, Abort, history
  <2> QED
    BY <1>3, <2>1, EndShape, CreditsKept DEF Others, Working
<1>4. CASE UNCHANGED <<credit, owed, stale, job>>
  BY <1>4, CreditsKept
<1>5. ASSUME NEW r \in Requisites, KeyExpires(r)
      PROVE  UNCHANGED <<credit, owed, stale, job>>
  BY <1>5 DEF KeyExpires, history
<1>6. ASSUME SettingsChange
      PROVE  UNCHANGED <<credit, owed, stale, job>>
  BY <1>6 DEF SettingsChange, history
<1>7. ASSUME NEW r \in Requisites, NEW x \in Amounts,
             OrderPaid(r, x) \/ OrderDropped(r, x) \/ OrderReturns(r, x)
      PROVE  UNCHANGED <<credit, owed, stale, job>>
  BY <1>7 DEF OrderPaid, OrderDropped, OrderLeaves, OrderReturns
<1>8. ASSUME NEW t \in Traders, Debit(t) \/ TopUp(t)
      PROVE  UNCHANGED <<credit, owed, stale, job>>
  BY <1>8 DEF Debit, TopUp, history
<1>9. ASSUME UNCHANGED vars
      PROVE  UNCHANGED <<credit, owed, stale, job>>
  BY <1>9 DEF vars, history
<1> QED
  BY <1>1, <1>2, <1>3, <1>4, <1>5, <1>6, <1>7, <1>8, <1>9, CreditCommit DEF Next, UploadStep

-----------------------------------------------------------------------------
(* Requisites: one holder of the row lock, one new order per amount *)

\* What a step of u may do for RowInv to stay true of the others.
OthersLocks(u) ==
    \A r \in Requisites, v \in Uploads \ {u} : rowLock[r] = v => rowLock'[r] = v

LEMMA RowOthers ==
    ASSUME TypeOK, RowInv, NEW u \in Uploads, Others(u), OthersLocks(u),
           UNCHANGED <<held, returned>>,
           job'[u].pc \in {"balances", "rank", "try"} => job'[u].pick = None,
           job'[u].pc = "lock" => job'[u].pick \in job'[u].cands,
           job'[u].pc \in {"write", "commit"} /\ job'[u].pick # None =>
               /\ job'[u].pick \in job'[u].cands
               /\ rowLock'[job'[u].pick] = u
               /\ OnlyReturned(job'[u].pick, job'[u].amount)
    PROVE  RowInv'
<1>1. SameAmountOnce' /\ \A r \in Requisites, x \in Amounts : returned'[r][x] <= held'[r][x]
  BY DEF RowInv, SameAmountOnce
<1>2. \A v \in Uploads : job'[v].pc \in {"balances", "rank", "try"} => job'[v].pick = None
  BY DEF RowInv, Others
<1>3. \A v \in Uploads : job'[v].pc = "lock" => job'[v].pick \in job'[v].cands
  BY DEF RowInv, Others
<1>4. ASSUME NEW v \in Uploads, Chosen(v)'
      PROVE  /\ job'[v].pick \in job'[v].cands
             /\ rowLock'[job'[v].pick] = v
             /\ OnlyReturned(job[v].pick, job[v].amount)'
  <2>1. CASE v = u
    BY <1>4, <2>1 DEF Chosen, OnlyReturned
  <2>2. CASE v # u
    <3>1. job'[v] = job[v] /\ Chosen(v)
      BY <1>4, <2>2 DEF Others, Chosen
    <3>2. job[v].pick \in Requisites
      BY <3>1, WorkingUpload DEF Chosen, Working, Upload
    <3>3. /\ job[v].pick \in job[v].cands /\ rowLock[job[v].pick] = v
          /\ OnlyReturned(job[v].pick, job[v].amount)
      BY <3>1 DEF RowInv
    <3> QED
      BY <2>2, <3>1, <3>2, <3>3 DEF OthersLocks, OnlyReturned
  <2> QED
    BY <2>1, <2>2
<1> QED
  BY <1>1, <1>2, <1>3, <1>4 DEF RowInv

LEMMA RowCommit ==
    ASSUME TypeOK, RowInv, NEW u \in Uploads, Commit(u)
    PROVE  RowInv'
<1>1. Others(u) /\ job'[u].pc = "release" /\ UNCHANGED returned
  BY SetFacts DEF Commit, orders
<1>2. OthersLocks(u)
  BY LocksType DEF Commit, OthersLocks
<1>3. CASE job[u].pick = None
  BY <1>1, <1>2, <1>3, RowOthers DEF Commit, orders
<1>4. CASE job[u].pick # None
  <2> DEFINE r == job[u].pick
             x == job[u].amount
  <2>1. r \in Requisites /\ x \in Amounts
    BY <1>4, WorkingUpload DEF Commit, Working, Upload
  <2>2. Chosen(u) /\ rowLock[r] = u /\ held[r][x] = returned[r][x]
    BY <1>4 DEF Commit, Chosen, RowInv, OnlyReturned
  <2>3. held[r][x] + 1 \in Nat /\ held' = [held EXCEPT ![r][x] = held[r][x] + 1]
    BY <1>4, <2>1 DEF Commit, TypeOK
  <2>4. \A q \in Requisites, y \in Amounts :
           held'[q][y] = IF q = r /\ y = x THEN held[r][x] + 1 ELSE held[q][y]
    BY <2>1, <2>3, CountType DEF TypeOK
  <2>5. /\ SameAmountOnce'
        /\ \A q \in Requisites, y \in Amounts : returned'[q][y] <= held'[q][y]
    <3>1. ASSUME NEW q \in Requisites, NEW y \in Amounts
          PROVE  /\ held'[q][y] <= returned'[q][y] + 1
                 /\ returned'[q][y] <= held'[q][y]
      <4>1. /\ held[q][y] \in Nat /\ returned[q][y] \in Nat
            /\ held[q][y] <= returned[q][y] + 1 /\ returned[q][y] <= held[q][y]
        BY DEF RowInv, SameAmountOnce, TypeOK
      <4> HIDE DEF r, x
      <4> QED
        BY <1>1, <2>2, <2>4, <4>1
    <3> QED
      BY <3>1 DEF SameAmountOnce
  <2>6. ASSUME NEW v \in Uploads, Chosen(v)'
        PROVE  /\ job'[v].pick \in job'[v].cands
               /\ rowLock'[job'[v].pick] = v
               /\ OnlyReturned(job[v].pick, job[v].amount)'
    <3>1. v # u /\ job'[v] = job[v] /\ Chosen(v)
      BY <1>1, <2>6 DEF Others, Chosen
    <3>2. job[v].pick \in Requisites /\ job[v].amount \in Amounts
      BY <3>1, WorkingUpload DEF Chosen, Working, Upload
    <3>3. /\ job[v].pick \in job[v].cands /\ rowLock[job[v].pick] = v
          /\ OnlyReturned(job[v].pick, job[v].amount)
      BY <3>1 DEF RowInv
    <3>4. job[v].pick # r
      BY <2>2, <3>1, <3>3
    <3> QED
      BY <1>1, <1>2, <2>4, <3>1, <3>2, <3>3, <3>4 DEF OthersLocks, OnlyReturned
  <2> QED
    BY <1>1, <2>5, <2>6 DEF RowInv, Others
<1> QED
  BY <1>3, <1>4

\* A row on which the two counts move together, or one that no upload has chosen.
LEMMA RowCounts ==
    ASSUME TypeOK, TypeOK', RowInv, UNCHANGED <<job, rowLock>>,
           NEW r \in Requisites, NEW x \in Amounts,
           \A q \in Requisites, y \in Amounts :
               ~(q = r /\ y = x) => /\ held'[q][y] = held[q][y]
                                   /\ returned'[q][y] = returned[q][y],
           \/ held'[r][x] - held[r][x] = returned'[r][x] - returned[r][x]
           \/ ~OnlyReturned(r, x) /\ held'[r][x] = returned'[r][x]
    PROVE  RowInv'
<1>1. /\ SameAmountOnce'
      /\ \A q \in Requisites, y \in Amounts : returned'[q][y] <= held'[q][y]
  <2>1. ASSUME NEW q \in Requisites, NEW y \in Amounts
        PROVE  /\ held'[q][y] <= returned'[q][y] + 1
               /\ returned'[q][y] <= held'[q][y]
    <3>1. /\ held[q][y] \in Nat /\ returned[q][y] \in Nat
          /\ held'[q][y] \in Nat /\ returned'[q][y] \in Nat
          /\ held[q][y] <= returned[q][y] + 1 /\ returned[q][y] <= held[q][y]
      BY DEF RowInv, SameAmountOnce, TypeOK
    <3>2. CASE q = r /\ y = x
      BY <3>1, <3>2
    <3>3. CASE ~(q = r /\ y = x)
      BY <3>1, <3>3
    <3> QED
      BY <3>2, <3>3
  <2> QED
    BY <2>1 DEF SameAmountOnce
<1>2. ASSUME NEW v \in Uploads, Chosen(v)
      PROVE  OnlyReturned(job[v].pick, job[v].amount)'
  <2>1. job[v].pick \in Requisites /\ job[v].amount \in Amounts
    BY <1>2, WorkingUpload DEF Chosen, Working, Upload
  <2>2. OnlyReturned(job[v].pick, job[v].amount)
    BY <1>2 DEF RowInv
  <2>3. /\ held[r][x] \in Nat /\ held'[r][x] \in Nat
        /\ returned[r][x] \in Nat /\ returned'[r][x] \in Nat
    BY DEF TypeOK
  <2> QED
    BY <2>1, <2>2, <2>3 DEF OnlyReturned
<1> QED
  BY <1>1, <1>2 DEF RowInv, Chosen

LEMMA RowLeaves ==
    ASSUME TypeOK, TypeOK', RowInv, NEW r \in Requisites, NEW x \in Amounts,
           OrderLeaves(r, x)
    PROVE  RowInv'
<1>1. UNCHANGED <<job, rowLock>>
  BY DEF OrderLeaves, locks
<1>2. held' = [held EXCEPT ![r][x] = held[r][x] - 1] /\ held[r][x] - 1 \in Nat
  BY DEF OrderLeaves, TypeOK
<1>3. \A q \in Requisites, y \in Amounts :
         held'[q][y] = IF q = r /\ y = x THEN held[r][x] - 1 ELSE held[q][y]
  BY <1>2, CountType DEF TypeOK
<1>4. held[r][x] \in Nat /\ returned[r][x] \in Nat /\ held[r][x] <= returned[r][x] + 1
  BY DEF TypeOK, RowInv, SameAmountOnce
<1>5. CASE returned[r][x] < held[r][x] /\ UNCHANGED returned
  <2>1. ~OnlyReturned(r, x) /\ held'[r][x] = returned'[r][x]
    BY <1>3, <1>4, <1>5 DEF OnlyReturned
  <2> QED
    BY <1>1, <1>3, <1>5, <2>1, RowCounts
<1>6. CASE /\ returned[r][x] > 0
           /\ returned' = [returned EXCEPT ![r][x] = returned[r][x] - 1]
  <2>1. returned[r][x] - 1 \in Nat
    BY <1>4, <1>6
  <2>2. \A q \in Requisites, y \in Amounts :
           returned'[q][y] = IF q = r /\ y = x THEN returned[r][x] - 1 ELSE returned[q][y]
    BY <1>6, <2>1, CountType DEF TypeOK
  <2>3. held'[r][x] - held[r][x] = returned'[r][x] - returned[r][x]
    BY <1>3, <1>4, <2>2
  <2> QED
    BY <1>1, <1>3, <2>2, <2>3, RowCounts
<1> QED
  BY <1>5, <1>6 DEF OrderLeaves

LEMMA RowReturns ==
    ASSUME TypeOK, TypeOK', RowInv, NEW r \in Requisites, NEW x \in Amounts,
           OrderReturns(r, x)
    PROVE  RowInv'
<1>1. UNCHANGED <<job, rowLock>>
  BY DEF OrderReturns, locks
<1>2. /\ held' = [held EXCEPT ![r][x] = held[r][x] + 1]
      /\ returned' = [returned EXCEPT ![r][x] = returned[r][x] + 1]
  BY DEF OrderReturns
<1>3. held[r][x] \in Nat /\ returned[r][x] \in Nat
  BY DEF TypeOK
<1>4. \A q \in Requisites, y \in Amounts :
         /\ held'[q][y] = IF q = r /\ y = x THEN held[r][x] + 1 ELSE held[q][y]
         /\ returned'[q][y] = IF q = r /\ y = x THEN returned[r][x] + 1 ELSE returned[q][y]
  BY <1>2, <1>3, CountType DEF TypeOK
<1>5. held'[r][x] - held[r][x] = returned'[r][x] - returned[r][x]
  BY <1>3, <1>4
<1> QED
  BY <1>1, <1>4, <1>5, RowCounts

LEMMA RowStep ==
    ASSUME TypeOK, TypeOK', RowInv, [Next]_vars
    PROVE  RowInv'
<1>1. ASSUME NEW u \in Uploads, ReadDebts(u)
      PROVE  RowInv'
  <2>1. OthersLocks(u) /\ UNCHANGED <<held, returned>>
    BY <1>1 DEF ReadDebts, OthersLocks, locks, orders
  <2> QED
    BY <1>1, <2>1, ReadDebtsShape, RowOthers
<1>2. ASSUME NEW u \in Uploads,
             ReadBalances(u) \/ Rank(u) \/ TryKey(u) \/ SkipLocked(u) \/ AskProvider(u)
      PROVE  RowInv'
  <2>1. OthersLocks(u) /\ UNCHANGED <<held, returned>>
    BY <1>2 DEF ReadBalances, Rank, TryKey, SkipLocked, AskProvider,
                OthersLocks, locks, orders
  <2>2. job[u].pc \in {"balances", "rank", "try"} => job[u].pick = None
    BY DEF RowInv
  <2>3. CASE ReadBalances(u)
    BY <2>1, <2>2, <2>3, ReadBalancesShape, RowOthers DEF Kept, ReadBalances
  <2>4. CASE Rank(u)
    BY <2>1, <2>2, <2>4, RankShape, RowOthers DEF Kept, Rank
  <2>5. CASE TryKey(u)
    BY <2>1, <2>5, TryKeyShape, RowOthers DEF Kept
  <2>6. CASE SkipLocked(u)
    BY <2>1, <2>6, TurnDownShape, RowOthers DEF Kept, SkipLocked, Working
  <2>7. CASE AskProvider(u)
    BY <2>1, <2>2, <2>7, AskProviderShape, RowOthers DEF Kept, AskProvider
  <2> QED
    BY <1>2, <2>3, <2>4, <2>5, <2>6, <2>7
<1>3. ASSUME NEW u \in Uploads, Recheck(u)
      PROVE  RowInv'
  <2>1. job[u].pick \in job[u].cands /\ job[u] \in Upload
    BY <1>3, RecheckShape DEF Recheck, RowInv
  <2>2. rowLock' = [rowLock EXCEPT ![job[u].pick] = u] /\ rowLock[job[u].pick] = None
    BY <1>3 DEF Recheck
  <2>3. OthersLocks(u)
    BY <2>2, ConstantsAssumption DEF OthersLocks, TypeOK
  <2>4. UNCHANGED <<held, returned>>
    BY <1>3 DEF Recheck, orders
  <2>5. job[u].pick \in Requisites /\ job[u].amount \in Amounts
    BY <2>1 DEF Upload
  <2>6. held[job[u].pick][job[u].amount] = 0 => OnlyReturned(job[u].pick, job[u].amount)
    BY <2>5 DEF RowInv, OnlyReturned, TypeOK
  <2> QED
    BY <1>3, <2>1, <2>3, <2>4, <2>6, RecheckShape, RowOthers DEF Kept
<1>4. ASSUME NEW u \in Uploads, WriteDebts(u)
      PROVE  RowInv'
  <2>1. /\ OthersLocks(u) /\ UNCHANGED <<held, returned, rowLock>>
        /\ job[u].pc = "write"
    BY <1>4 DEF WriteDebts, OthersLocks, orders
  <2>2. job[u].pick # None => /\ job[u].pick \in job[u].cands
                              /\ rowLock[job[u].pick] = u
                              /\ OnlyReturned(job[u].pick, job[u].amount)
    BY <2>1 DEF RowInv, Chosen
  <2> QED
    BY <1>4, <2>1, <2>2, WriteDebtsShape, RowOthers DEF Kept
<1>5. ASSUME NEW u \in Uploads, ReleaseKey(u) \/ Abort(u)
      PROVE  RowInv'
  <2>1. OthersLocks(u) /\ UNCHANGED <<held, returned>>
    BY <1>5, LocksType DEF ReleaseKey, Abort, OthersLocks, locks, orders
  <2> QED
    BY <1>5, <2>1, EndShape, RowOthers
<1>6. CASE UNCHANGED <<held, returned, job, rowLock>>
  BY <1>6 DEF RowInv, SameAmountOnce, Chosen, OnlyReturned
<1>7. ASSUME NEW r \in Requisites, KeyExpires(r)
      PROVE  UNCHANGED <<held, returned, job, rowLock>>
  BY <1>7 DEF KeyExpires, locks, orders
<1>8. ASSUME SettingsChange
      PROVE  UNCHANGED <<held, returned, job, rowLock>>
  BY <1>8 DEF SettingsChange, locks, orders
<1>9. ASSUME NEW t \in Traders, Debit(t) \/ TopUp(t)
      PROVE  UNCHANGED <<held, returned, job, rowLock>>
  BY <1>9 DEF Debit, TopUp, locks, orders
<1>10. ASSUME UNCHANGED vars
       PROVE  UNCHANGED <<held, returned, job, rowLock>>
  BY <1>10 DEF vars, locks, orders
<1> QED
  BY <1>1, <1>2, <1>3, <1>4, <1>5, <1>6, <1>7, <1>8, <1>9, <1>10, RowCommit, RowLeaves,
     RowReturns DEF Next, UploadStep, OrderPaid, OrderDropped

-----------------------------------------------------------------------------
(* Capacity: who may still give a trader an order *)

LEMMA BettingFinite ==
    ASSUME NEW S \in SUBSET Uploads
    PROVE  /\ IsFiniteSet(S) /\ Cardinality(S) \in Nat
           /\ Cardinality(S) <= Cardinality(Uploads)
           /\ Cardinality(Uploads) \in Nat /\ Cardinality(Uploads) >= 1
<1>1. IsFiniteSet(Uploads) /\ Uploads # {}
  BY ConstantsAssumption
<1>2. IsFiniteSet(S) /\ Cardinality(S) <= Cardinality(Uploads)
  BY <1>1, FS_Subset
<1>3. Cardinality(S) \in Nat /\ Cardinality(Uploads) \in Nat
  BY <1>1, <1>2, FS_CardinalityType
<1>4. Cardinality(Uploads) # 0
  BY <1>1, FS_EmptySet
<1> QED
  BY <1>2, <1>3, <1>4

\* Who was out of the race for t stays out.
NoNewBet(t) == Betting(t)' \subseteq Betting(t)

LEMMA BetBound ==
    ASSUME TypeOK, BetInv, NEW t \in Traders, NoNewBet(t),
           pending' \in [Traders -> Int], room' \in [Traders -> Int],
           unforeseen' \in [Traders -> Nat],
           room'[t] + unforeseen'[t] - room[t] - unforeseen[t] >= pending'[t] - pending[t]
    PROVE  pending'[t] + Cardinality(Betting(t)')
              <= room'[t] + unforeseen'[t] + Cardinality(Uploads) - 1
<1>1. Betting(t) \subseteq Uploads
  BY DEF Betting
<1>2. Cardinality(Betting(t)') <= Cardinality(Betting(t))
  BY <1>1, BettingFinite, FS_Subset DEF NoNewBet
<1>3. /\ Cardinality(Betting(t)') \in Nat /\ Cardinality(Betting(t)) \in Nat
      /\ Cardinality(Uploads) \in Nat
  BY <1>1, BettingFinite DEF NoNewBet
<1>4. /\ pending[t] \in Int /\ room[t] \in Int /\ unforeseen[t] \in Int
      /\ pending'[t] \in Int /\ room'[t] \in Int /\ unforeseen'[t] \in Int
  BY DEF TypeOK
<1>5. pending[t] + Cardinality(Betting(t))
        <= room[t] + unforeseen[t] + Cardinality(Uploads) - 1
  BY DEF BetInv
<1> QED
  BY <1>2, <1>3, <1>4, <1>5

\* Steps of an upload that put no new candidate in the race.
LEMMA BetUpload ==
    ASSUME TypeOK, TypeOK', BetInv, NEW u \in Uploads, Others(u),
           UNCHANGED <<pending, room, unforeseen>>,
           job'[u].pc = "rank" => job'[u].seen = room,
           job'[u].pc \in {"balances", "rank"} => job'[u].cands = {},
           job'[u].pc \in Working =>
               \/ job'[u].cands = {}
               \/ job[u].pc \in Working /\ job'[u].cands \subseteq job[u].cands
    PROVE  BetInv'
<1>1. ASSUME NEW v \in Uploads, job'[v].pc = "rank", NEW t \in Traders
      PROVE  job'[v].seen[t] <= room'[t] + unforeseen'[t]
  <2>1. CASE v = u
    BY <1>1, <2>1 DEF TypeOK
  <2>2. CASE v # u
    BY <1>1, <2>2 DEF BetInv, Others
  <2> QED
    BY <2>1, <2>2
<1>2. \A v \in Uploads : job'[v].pc \in {"balances", "rank"} => job'[v].cands = {}
  BY DEF BetInv, Others
<1>3. ASSUME NEW t \in Traders
      PROVE  NoNewBet(t)
  BY DEF NoNewBet, Betting, Others
<1>4. ASSUME NEW t \in Traders
      PROVE  pending'[t] + Cardinality(Betting(t)')
                <= room'[t] + unforeseen'[t] + Cardinality(Uploads) - 1
  <2>1. pending[t] \in Int /\ room[t] \in Int /\ unforeseen[t] \in Int
    BY DEF TypeOK
  <2> QED
    BY <1>3, <2>1, BetBound DEF TypeOK
<1> QED
  BY <1>1, <1>2, <1>4 DEF BetInv

\* A candidate enters the race when the capacity read covers one order more.
LEMMA BetRank ==
    ASSUME TypeOK, TypeOK', BetInv, NEW u \in Uploads, Rank(u)
    PROVE  BetInv'
<1>1. /\ Others(u) /\ job'[u].pc = "try" /\ job[u].pc = "rank"
      /\ UNCHANGED <<pending, room, unforeseen>>
      /\ \A r \in job'[u].cands : CapacityCovers(u, Owner[r])
  BY RankShape DEF Kept, Rank, orders, history
<1>2. \A v \in Uploads : job'[v].pc = "rank" =>
         \A t \in Traders : job'[v].seen[t] <= room'[t] + unforeseen'[t]
  BY <1>1 DEF BetInv, Others
<1>3. \A v \in Uploads : job'[v].pc \in {"balances", "rank"} => job'[v].cands = {}
  BY <1>1 DEF BetInv, Others
<1>4. ASSUME NEW t \in Traders
      PROVE  pending'[t] + Cardinality(Betting(t)')
                <= room'[t] + unforeseen'[t] + Cardinality(Uploads) - 1
  <2>1. pending[t] \in Int /\ room[t] \in Int /\ unforeseen[t] \in Int
    BY DEF TypeOK
  <2>2. CASE \E r \in job'[u].cands : Owner[r] = t
    <3>1. CapacityCovers(u, t)
      BY <1>1, <2>2
    <3>2. job[u].seen[t] \in Int
      BY <1>1, WorkingUpload DEF Working, Upload
    <3>3. job[u].seen[t] <= room[t] + unforeseen[t]
      BY <1>1 DEF BetInv
    <3>4. Betting(t)' \subseteq Uploads
      BY DEF Betting
    <3>5. /\ Cardinality(Betting(t)') \in Nat /\ Cardinality(Uploads) \in Nat
          /\ Cardinality(Betting(t)') <= Cardinality(Uploads)
      BY <3>4, BettingFinite
    <3> QED
      BY <1>1, <2>1, <3>1, <3>2, <3>3, <3>5 DEF CapacityCovers
  <2>3. CASE ~\E r \in job'[u].cands : Owner[r] = t
    <3>1. NoNewBet(t)
      BY <1>1, <2>3 DEF NoNewBet, Betting, Others
    <3>2. /\ pending' \in [Traders -> Int] /\ room' \in [Traders -> Int]
          /\ unforeseen' \in [Traders -> Nat]
      BY DEF TypeOK
    <3>3. room'[t] + unforeseen'[t] - room[t] - unforeseen[t] >= pending'[t] - pending[t]
      BY <1>1, <2>1
    <3> QED
      BY <3>1, <3>2, <3>3, BetBound
  <2> QED
    BY <2>2, <2>3
<1> QED
  BY <1>2, <1>3, <1>4 DEF BetInv

\* The order takes the place of its upload.
LEMMA BetCommit ==
    ASSUME TypeOK, TypeOK', RowInv, BetInv, NEW u \in Uploads, Commit(u)
    PROVE  BetInv'
<1>1. /\ Others(u) /\ job'[u].pc = "release" /\ job[u].pc = "commit"
      /\ UNCHANGED <<room, unforeseen>>
  BY SetFacts DEF Commit
<1>2. \A v \in Uploads : job'[v].pc = "rank" =>
         \A t \in Traders : job'[v].seen[t] <= room'[t] + unforeseen'[t]
  BY <1>1 DEF BetInv, Others
<1>3. \A v \in Uploads : job'[v].pc \in {"balances", "rank"} => job'[v].cands = {}
  BY <1>1 DEF BetInv, Others
<1>4. \A t \in Traders : Betting(t)' \subseteq Betting(t) \ {u}
  BY <1>1 DEF Betting, Others, Working
<1>5. ASSUME NEW t \in Traders
      PROVE  pending'[t] + Cardinality(Betting(t)')
                <= room'[t] + unforeseen'[t] + Cardinality(Uploads) - 1
  <2>1. /\ pending[t] \in Int /\ room[t] \in Int /\ unforeseen[t] \in Int
        /\ pending'[t] \in Int
    BY DEF TypeOK
  <2>2. CASE job[u].pick # None /\ Owner[job[u].pick] = t
    <3>1. job[u].pick \in job[u].cands
      BY <1>1, <2>2 DEF RowInv, Chosen
    <3>2. u \in Betting(t)
      BY <1>1, <2>2, <3>1 DEF Betting, Working
    <3>3. Betting(t) \subseteq Uploads
      BY DEF Betting
    <3>4. IsFiniteSet(Betting(t)) /\ Cardinality(Betting(t)) \in Nat
      BY <3>3, BettingFinite
    <3>5. /\ IsFiniteSet(Betting(t) \ {u})
          /\ Cardinality(Betting(t) \ {u}) = Cardinality(Betting(t)) - 1
      BY <3>2, <3>4, FS_RemoveElement
    <3>6. Cardinality(Betting(t)') <= Cardinality(Betting(t) \ {u})
      BY <1>4, <3>5, FS_Subset
    <3>7. Cardinality(Betting(t)') \in Nat /\ Cardinality(Uploads) \in Nat
      BY <1>4, <3>3, BettingFinite
    <3>8. pending'[t] = pending[t] + 1
      BY <2>2 DEF Commit, TypeOK
    <3>9. pending[t] + Cardinality(Betting(t))
             <= room[t] + unforeseen[t] + Cardinality(Uploads) - 1
      BY DEF BetInv
    <3> QED
      BY <1>1, <2>1, <3>4, <3>5, <3>6, <3>7, <3>8, <3>9
  <2>3. CASE ~(job[u].pick # None /\ Owner[job[u].pick] = t)
    <3>1. pending'[t] = pending[t]
      BY <2>3 DEF Commit, TypeOK, orders
    <3>2. NoNewBet(t)
      BY <1>4 DEF NoNewBet
    <3>3. /\ pending' \in [Traders -> Int] /\ room' \in [Traders -> Int]
          /\ unforeseen' \in [Traders -> Nat]
      BY DEF TypeOK
    <3>4. room'[t] + unforeseen'[t] - room[t] - unforeseen[t] >= pending'[t] - pending[t]
      BY <1>1, <2>1, <3>1
    <3> QED
      BY <3>2, <3>3, <3>4, BetBound
  <2> QED
    BY <2>2, <2>3
<1> QED
  BY <1>2, <1>3, <1>5 DEF BetInv

\* Steps that leave the uploads alone and take no capacity unannounced.
LEMMA BetOthers ==
    ASSUME TypeOK, TypeOK', BetInv, job' = job,
           \A t \in Traders :
               /\ room'[t] + unforeseen'[t] - room[t] - unforeseen[t]
                    >= pending'[t] - pending[t]
               /\ BetweenReads => room'[t] + unforeseen'[t] >= room[t] + unforeseen[t]
    PROVE  BetInv'
<1>1. ASSUME NEW v \in Uploads, job[v].pc = "rank", NEW t \in Traders
      PROVE  job[v].seen[t] <= room'[t] + unforeseen'[t]
  <2>1. /\ job[v].seen[t] \in Int
        /\ room[t] \in Int /\ unforeseen[t] \in Int
        /\ room'[t] \in Int /\ unforeseen'[t] \in Int
    BY <1>1, WorkingUpload DEF Working, Upload, TypeOK
  <2>2. job[v].seen[t] <= room[t] + unforeseen[t]
    BY <1>1 DEF BetInv
  <2>3. room'[t] + unforeseen'[t] >= room[t] + unforeseen[t]
    BY <1>1 DEF BetweenReads
  <2> QED
    BY <2>1, <2>2, <2>3
<1>2. \A t \in Traders : NoNewBet(t)
  BY DEF NoNewBet, Betting
<1>3. ASSUME NEW t \in Traders
      PROVE  pending'[t] + Cardinality(Betting(t)')
                <= room'[t] + unforeseen'[t] + Cardinality(Uploads) - 1
  BY <1>2, BetBound DEF TypeOK
<1> QED
  BY <1>1, <1>3 DEF BetInv

LEMMA BetStep ==
    ASSUME TypeOK, TypeOK', RowInv, BetInv, [Next]_vars
    PROVE  BetInv'
<1>1. ASSUME NEW u \in Uploads, ReadDebts(u)
      PROVE  BetInv'
  <2>1. UNCHANGED <<pending, room, unforeseen>>
    BY <1>1 DEF ReadDebts, orders, history
  <2> QED
    BY <1>1, <2>1, ReadDebtsShape, BetUpload
<1>2. ASSUME NEW u \in Uploads,
             \/ ReadBalances(u) \/ TryKey(u) \/ SkipLocked(u)
             \/ Recheck(u) \/ AskProvider(u) \/ WriteDebts(u)
      PROVE  BetInv'
  <2>1. UNCHANGED <<pending, room, unforeseen>>
    BY <1>2 DEF ReadBalances, TryKey, SkipLocked, Recheck, AskProvider, WriteDebts,
                orders, history
  <2>2. job[u].pc \in Working /\ (job[u].pc = "balances" => job[u].cands = {})
    BY <1>2 DEF ReadBalances, TryKey, SkipLocked, Recheck, AskProvider, WriteDebts,
                Working, BetInv
  <2>3. CASE ReadBalances(u)
    BY <2>1, <2>2, <2>3, ReadBalancesShape, BetUpload DEF Kept, ReadBalances
  <2>4. CASE TryKey(u)
    BY <2>1, <2>2, <2>4, TryKeyShape, BetUpload DEF Kept
  <2>5. CASE SkipLocked(u)
    BY <2>1, <2>2, <2>5, TurnDownShape, BetUpload DEF Kept, SkipLocked
  <2>6. CASE Recheck(u)
    BY <2>1, <2>2, <2>6, RecheckShape, BetUpload DEF Kept
  <2>7. CASE AskProvider(u)
    BY <2>1, <2>2, <2>7, AskProviderShape, BetUpload DEF Kept
  <2>8. CASE WriteDebts(u)
    BY <2>1, <2>2, <2>8, WriteDebtsShape, BetUpload DEF Kept
  <2> QED
    BY <1>2, <2>3, <2>4, <2>5, <2>6, <2>7, <2>8
<1>3. ASSUME NEW u \in Uploads, ReleaseKey(u) \/ Abort(u)
      PROVE  BetInv'
  <2>1. UNCHANGED <<pending, room, unforeseen>>
    BY <1>3 DEF ReleaseKey, Abort, orders, history
  <2> QED
    BY <1>3, <2>1, EndShape, BetUpload DEF Working
<1>4. CASE UNCHANGED <<job, pending, room, unforeseen>>
  BY <1>4, BetOthers DEF TypeOK
<1>5. ASSUME NEW r \in Requisites, KeyExpires(r)
      PROVE  UNCHANGED <<job, pending, room, unforeseen>>
  BY <1>5 DEF KeyExpires, orders, history
<1>6. ASSUME SettingsChange
      PROVE  UNCHANGED <<job, pending, room, unforeseen>>
  BY <1>6 DEF SettingsChange, orders, history
<1>7. ASSUME UNCHANGED vars
      PROVE  UNCHANGED <<job, pending, room, unforeseen>>
  BY <1>7 DEF vars, orders, history
<1>8. ASSUME NEW r \in Requisites, NEW x \in Amounts, OrderPaid(r, x) \/ OrderDropped(r, x)
      PROVE  BetInv'
  <2>1. /\ job' = job /\ Owner[r] \in Traders
        /\ pending' = [pending EXCEPT ![Owner[r]] = @ - 1]
    BY <1>8, ConstantsAssumption DEF OrderPaid, OrderDropped, OrderLeaves
  <2>2. CASE OrderPaid(r, x)
    <3>1. /\ room' = [room EXCEPT ![Owner[r]] = @ - 1]
          /\ unforeseen' = [unforeseen EXCEPT ![Owner[r]] =
                                @ + IF BetweenReads THEN 1 ELSE 0]
      BY <2>2 DEF OrderPaid
    <3> QED
      BY <2>1, <3>1, BetOthers DEF TypeOK
  <2>3. CASE OrderDropped(r, x)
    <3>1. room' = room /\ unforeseen' = unforeseen
      BY <2>3 DEF OrderDropped
    <3> QED
      BY <2>1, <3>1, BetOthers DEF TypeOK
  <2> QED
    BY <1>8, <2>2, <2>3
<1>9. ASSUME NEW t \in Traders, Debit(t) \/ TopUp(t)
      PROVE  BetInv'
  <2>1. job' = job /\ pending' = pending
    BY <1>9 DEF Debit, TopUp, orders
  <2>2. \A s \in Traders : room'[s] + unforeseen'[s] >= room[s] + unforeseen[s]
    <3>1. CASE Debit(t)
      <4>1. /\ room' = [room EXCEPT ![t] = @ - 1]
            /\ unforeseen' = [unforeseen EXCEPT ![t] = @ + 1]
        BY <3>1 DEF Debit
      <4> QED
        BY <4>1 DEF TypeOK
    <3>2. CASE TopUp(t)
      <4>1. room' = [room EXCEPT ![t] = @ + 1] /\ unforeseen' = unforeseen
        BY <3>2 DEF TopUp, history
      <4> QED
        BY <4>1 DEF TypeOK
    <3> QED
      BY <1>9, <3>1, <3>2
  <2> QED
    BY <2>1, <2>2, BetOthers DEF TypeOK
<1>10. ASSUME NEW r \in Requisites, NEW x \in Amounts, OrderReturns(r, x)
       PROVE  BetInv'
  <2>1. /\ job' = job /\ room' = room /\ Owner[r] \in Traders
        /\ pending' = [pending EXCEPT ![Owner[r]] = @ + 1]
        /\ unforeseen' = [unforeseen EXCEPT ![Owner[r]] = @ + 1]
    BY <1>10, ConstantsAssumption DEF OrderReturns
  <2> QED
    BY <2>1, BetOthers DEF TypeOK
<1> QED
  BY <1>1, <1>2, <1>3, <1>4, <1>5, <1>6, <1>7, <1>8, <1>9, <1>10, BetRank,
     BetCommit
     DEF Next, UploadStep

-----------------------------------------------------------------------------
(* Theorems *)

LEMMA InitInv == Init => Inv
<1> SUFFICES ASSUME Init
             PROVE  Inv
  OBVIOUS
<1>1. TypeOK
  BY InitTypes
<1>2. \A u \in Uploads : job[u].pc = "idle"
  BY DEF Init, Idle
<1>3. CreditInv
  <2>1. credit.FORK = 0 /\ credit.CARD = 0 /\ owed = 0 /\ stale = 0
    BY DEF Init, Levels
  <2>2. Balanced(credit)
    BY <2>1, SharesType DEF Balanced
  <2>3. owed - credit.FORK \in -(Scale * stale)..(Scale * stale)
    BY <2>1, SharesType
  <2> QED
    BY <1>2, <2>2, <2>3 DEF CreditInv, Working
<1>4. RowInv
  BY <1>2 DEF Init, RowInv, SameAmountOnce, Chosen
<1>5. ASSUME NEW t \in Traders
      PROVE  pending[t] + Cardinality(Betting(t))
                <= room[t] + unforeseen[t] + Cardinality(Uploads) - 1
  <2>1. Betting(t) = {}
    BY <1>2 DEF Betting, Working
  <2>2. Cardinality({}) = 0
    BY FS_EmptySet
  <2>3. Cardinality(Uploads) \in Nat /\ Cardinality(Uploads) >= 1
    BY BettingFinite
  <2>4. pending[t] = 0 /\ room[t] \in Nat /\ unforeseen[t] = 0
    BY ConstantsAssumption DEF Init
  <2> QED
    BY <2>1, <2>2, <2>3, <2>4
<1>6. BetInv
  BY <1>2, <1>5 DEF BetInv
<1> QED
  BY <1>1, <1>3, <1>4, <1>6 DEF Inv

LEMMA NextInv == Inv /\ [Next]_vars => Inv'
BY TypeStep, CreditStep, RowStep, BetStep DEF Inv

\* The strengthening of the safety properties is an invariant.
THEOREM InvHolds == Spec => []Inv
BY InitInv, NextInv, PTL DEF Spec

\* Every variable keeps its type.
THEOREM TypeCorrect == Spec => []TypeOK
<1>1. Inv => TypeOK
  BY DEF Inv
<1> QED
  BY <1>1, InvHolds, PTL

\* FORK's share of the assignments made stays within half an assignment of the
\* share that was set, and one more for each write of credits that were stale.
THEOREM ShareIsFair == Spec => []FairShare
<1>1. Inv => FairShare
  <2> SUFFICES ASSUME Inv
               PROVE  FairShare
    OBVIOUS
  <2> DEFINE p == Scale * stale
             a == owed - credit.FORK
  <2>1. credit.FORK \in Int /\ owed \in Int /\ stale \in Nat
    BY DEF Inv, TypeOK, Credits, Levels
  <2>2. p \in Nat /\ 2 * Scale * stale = 2 * p
    BY <2>1, SharesType, OneMore
  <2>3. a \in -p..p /\ 2 * credit.FORK \in -Scale..Scale /\ owed = a + credit.FORK
    BY <2>1 DEF Inv, CreditInv, Balanced
  <2>4. 2 * owed \in -(Scale + 2 * p)..(Scale + 2 * p)
    <3>1. a \in Int
      BY <2>1
    <3> HIDE DEF p, a
    <3> QED
      BY <2>1, <2>2, <2>3, <3>1, SharesType
  <2> QED
    BY <2>2, <2>4 DEF FairShare
<1> QED
  BY <1>1, InvHolds, PTL

\* A trader's orders exceed the capacity by less than the uploads that run at a
\* time, and by the debits and the orders written back that no check could see.
THEOREM OvercommitCorrect == Spec => []OvercommitBounded
<1>1. Inv => OvercommitBounded
  <2> SUFFICES ASSUME Inv, NEW t \in Traders
               PROVE  pending[t] <= room[t] + unforeseen[t] + Cardinality(Uploads) - 1
    BY DEF OvercommitBounded
  <2>1. Betting(t) \subseteq Uploads
    BY DEF Betting
  <2>2. Cardinality(Betting(t)) \in Nat /\ Cardinality(Uploads) \in Nat
    BY <2>1, BettingFinite
  <2>3. pending[t] \in Int /\ room[t] \in Int /\ unforeseen[t] \in Int
    BY DEF Inv, TypeOK
  <2>4. pending[t] + Cardinality(Betting(t))
          <= room[t] + unforeseen[t] + Cardinality(Uploads) - 1
    BY DEF Inv, BetInv
  <2> QED
    BY <2>2, <2>3, <2>4
<1> QED
  BY <1>1, InvHolds, PTL

\* With or without Redis, of the open orders of an amount that a requisite has, all
\* but one are orders that had been closed and that a late confirmation wrote back.
THEOREM SameAmountCorrect == Spec => []SameAmountOnce
<1>1. Inv => SameAmountOnce
  BY DEF Inv, RowInv
<1> QED
  BY <1>1, InvHolds, PTL
=============================================================================
