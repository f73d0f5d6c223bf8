------------------------------- MODULE Cascade -------------------------------
(***************************************************************************)
(* How the uploads of Pay-In orders share traders and requisites:          *)
(* lockBestRequisiteForPayIn of cascade.service.ts inside the transaction  *)
(* of createOrder and h2hInit, and the Redis keys of                       *)
(* cascade-redis-state.service.ts.                                         *)
(*                                                                         *)
(* The transaction runs at Read Committed: each query sees what is         *)
(* committed when it runs.  The level credits and the balances are read    *)
(* without a lock and used several queries later; only the requisite row   *)
(* is locked, and the row of the credits from its upsert to the commit.    *)
(*                                                                         *)
(* Amounts count orders, each worth one unit of a trader's capacity.       *)
(* Scores, ranges and limits stand behind a choice: an upload ranks any    *)
(* of the requisites that pass the checks kept here.                       *)
(***************************************************************************)
EXTENDS Integers, FiniteSets

CONSTANTS
    Uploads,        \* uploads the API runs at a time
    Requisites, Traders,
    Owner,          \* the trader of a requisite
    Method,         \* processingMethod of a trader
    Amounts,        \* amounts of orders
    Scale,          \* one assignment, in the unit of the credits
    Shares,         \* FORK shares an administrator sets, of Scale
    MaxUploads,     \* bound on the number of uploads
    MaxUnforeseen,  \* bound on the debits and the returns of orders that no
                    \* upload has checked
    MaxRoom,        \* bound on capacity: top-ups stop there
    MayFail,        \* the transaction may be rolled back
    RedisMayFail,   \* a call to Redis may fail
    None

Levels == {"FORK", "CARD"}

ASSUME ConstantsAssumption ==
    /\ IsFiniteSet(Uploads)
    /\ Uploads # {}
    /\ Owner \in [Requisites -> Traders]
    /\ Method \in [Traders -> Levels]
    /\ Scale \in Nat \ {0}
    /\ Shares \subseteq 0..Scale
    /\ Shares # {}
    /\ MaxUploads \in Nat
    /\ MaxUnforeseen \in Nat
    /\ MaxRoom \in Nat
    /\ MayFail \in BOOLEAN
    /\ RedisMayFail \in BOOLEAN
    /\ None \notin Uploads \cup Requisites

VARIABLES
    share,          \* fork_traffic_percent of cascade_settings
    credit,         \* fork and card credit of cascade_level_debts
    debtLock,       \* the upload that has written that row and not committed
    rowLock,        \* the upload with FOR UPDATE on a requisite
    key,            \* Redis keys of requisites
    held,           \* blocking orders of a requisite, by amount
    overtaken,      \* orders that are not, but that a call found NEW and is
                    \* still going to write back as VERIFIED
    pending,        \* orders of a trader not settled yet
    room,           \* balance plus overdraft limit of a trader
    job,            \* what each upload is in the middle of
    uploaded,       \* uploads started so far
    owed,           \* history: FORK's true credit, from the assignments made
    stale,          \* history: credits written from a read since replaced
    unforeseen,     \* history: debits of a trader, and orders written back, that
                    \* no capacity check could see
    returned        \* history: how many of the orders held were written back

orders == <<held, overtaken, pending, returned>>
locks == <<debtLock, rowLock>>
history == <<owed, stale, unforeseen>>  \* returned moves with the orders
vars == <<share, credit, locks, key, orders, room, job, uploaded, history>>

-----------------------------------------------------------------------------
(* Level credits *)

\* Mutant: the level with the larger share, whatever the credits.
LargerShare(read, forkShare) ==
    IF 2 * forkShare >= Scale THEN "FORK" ELSE "CARD"

\* pickPrimaryCascadeLevelDebt: FORK wins ties.
PrimaryLevel(read, forkShare) ==
    IF read.FORK + forkShare >= read.CARD + Scale - forkShare THEN "FORK" ELSE "CARD"

\* applyCascadeCreditsAfterAssignment: the primary level pays, whichever level
\* the order lands on.
NextCredits(read, forkShare, primary) ==
    [FORK |-> read.FORK + forkShare - (IF primary = "FORK" THEN Scale ELSE 0),
     CARD |-> read.CARD + Scale - forkShare - (IF primary = "CARD" THEN Scale ELSE 0)]

-----------------------------------------------------------------------------
(* Uploads *)

Idle == [pc |-> "idle"]

Credits == [Levels -> Int]

Upload == [pc: {"balances", "rank", "try", "lock", "write", "commit"},
           amount: Amounts, share: Shares, read: Credits,
           seen: [Traders -> Int],     \* capacity as read
           cands: SUBSET Requisites,   \* ranked, not turned down yet
           pick: Requisites \cup {None},
           assigned: BOOLEAN]

\* The transaction is over, the key of the pick still to be deleted.
Finished == [pc: {"release"}, pick: Requisites \cup {None}]

NotRead == [t \in Traders |-> 0]

Primary(u) == PrimaryLevel(job[u].read, job[u].share)

Level(r) == Method[Owner[r]]

Set(u, entry) == job' = [job EXCEPT ![u] = entry]

Go(u, pc) == Set(u, [job[u] EXCEPT !.pc = pc])

\* The next candidate: those of the primary level come first.
NextCandidates(u) ==
    LET first == {r \in job[u].cands : Level(r) = Primary(u)}
    IN  IF first # {} THEN first ELSE job[u].cands

\* Mutant: the candidate is tried again.
TryAgain(u, r) == Set(u, [job[u] EXCEPT !.pc = "try", !.pick = None])

\* The loop goes on with the next candidate.
TurnDown(u, r) ==
    Set(u, [job[u] EXCEPT !.pc = "try", !.cands = @ \ {r}, !.pick = None])

\* Whoever set the key, it is deleted, unless Redis does not answer.
DeleteKey(r) ==
    \/ key' = [key EXCEPT ![r] = FALSE]
    \/ RedisMayFail /\ UNCHANGED key

\* What the end of a transaction does to its locks.
DropLocks(u) ==
    /\ debtLock' = IF debtLock = u THEN None ELSE debtLock
    /\ rowLock' = [r \in Requisites |-> IF rowLock[r] = u THEN None ELSE rowLock[r]]

Init ==
    /\ share \in Shares
    /\ credit = [l \in Levels |-> 0]
    /\ debtLock = None
    /\ rowLock = [r \in Requisites |-> None]
    /\ key = [r \in Requisites |-> FALSE]
    /\ held = [r \in Requisites |-> [x \in Amounts |-> 0]]
    /\ overtaken = [r \in Requisites |-> [x \in Amounts |-> 0]]
    /\ returned = [r \in Requisites |-> [x \in Amounts |-> 0]]
    /\ pending = [t \in Traders |-> 0]
    /\ room \in [Traders -> 0..MaxRoom]
    /\ job = [u \in Uploads |-> Idle]
    /\ uploaded = 0
    /\ owed = 0
    /\ stale = 0
    /\ unforeseen = [t \in Traders |-> 0]

\* The settings and the row of the level credits.
ReadDebts(u) ==
    /\ job[u].pc = "idle"
    /\ uploaded < MaxUploads
    /\ uploaded' = uploaded + 1
    /\ \E x \in Amounts :
         Set(u, [pc |-> "balances", amount |-> x, share |-> share, read |-> credit,
                 seen |-> NotRead, cands |-> {}, pick |-> None,
                 assigned |-> FALSE])
    /\ UNCHANGED <<share, credit, locks, key, orders, room, history>>

\* getUsdtCapacityMaps reads the balances and then the pending orders.
ReadBalances(u) ==
    /\ job[u].pc = "balances"
    /\ Set(u, [job[u] EXCEPT !.pc = "rank", !.seen = room])
    /\ UNCHANGED <<share, credit, locks, key, orders, room, uploaded, history>>

\* Mutant: capacity left is enough, whatever the order needs.
AlmostCovers(u, t) == job[u].seen[t] - pending[t] >= 0

CapacityCovers(u, t) == job[u].seen[t] - pending[t] >= 1

\* Limits and ranges may leave out any of the requisites.
Rank(u) ==
    /\ job[u].pc = "rank"
    /\ \E cands \in SUBSET {r \in Requisites : /\ CapacityCovers(u, Owner[r])
                                               /\ held[r][job[u].amount] = 0} :
         Set(u, [job[u] EXCEPT !.pc = "try", !.cands = cands, !.seen = NotRead])
    /\ UNCHANGED <<share, credit, locks, key, orders, room, uploaded, history>>

\* tryAcquireRequisiteLock is true too when Redis does not answer.
TryKey(u) ==
    /\ job[u].pc = "try"
    /\ \E r \in NextCandidates(u) :
         \/ /\ key[r]
            /\ TurnDown(u, r)
            /\ UNCHANGED key
         \/ /\ ~key[r]
            /\ key' = [key EXCEPT ![r] = TRUE]
            /\ Set(u, [job[u] EXCEPT !.pc = "lock", !.pick = r])
         \/ /\ RedisMayFail
            /\ UNCHANGED key
            /\ Set(u, [job[u] EXCEPT !.pc = "lock", !.pick = r])
    /\ UNCHANGED <<share, credit, locks, orders, room, uploaded, history>>

\* FOR UPDATE SKIP LOCKED finds nothing.
SkipLocked(u) ==
    /\ job[u].pc = "lock"
    /\ rowLock[job[u].pick] # None
    /\ DeleteKey(job[u].pick)
    /\ TurnDown(u, job[u].pick)
    /\ UNCHANGED <<share, credit, locks, orders, room, uploaded, history>>

\* Mutant: what the ranking saw is not asked again.
FreeWhenRanked(r, x) == TRUE

AmountIsFree(r, x) == held[r][x] = 0

\* The locked row, or the orders of the requisite, turn the candidate down.  The
\* row stays locked until the transaction ends.
Recheck(u) ==
    /\ job[u].pc = "lock"
    /\ rowLock[job[u].pick] = None
    /\ rowLock' = [rowLock EXCEPT ![job[u].pick] = u]
    /\ \/ /\ DeleteKey(job[u].pick)
          /\ TurnDown(u, job[u].pick)
       \/ /\ AmountIsFree(job[u].pick, job[u].amount)
          /\ Set(u, [job[u] EXCEPT !.pc = "write", !.cands = {job[u].pick},
                                   !.assigned = TRUE])
          /\ UNCHANGED key
    /\ UNCHANGED <<share, credit, debtLock, orders, room, uploaded, history>>

\* No candidate is left: the provider takes the order, or there is no match.
AskProvider(u) ==
    /\ job[u].pc = "try"
    /\ job[u].cands = {}
    /\ \/ Set(u, [job[u] EXCEPT !.pc = "write", !.assigned = TRUE])
       \/ Go(u, "commit")
    /\ UNCHANGED <<share, credit, locks, key, orders, room, uploaded, history>>

\* The upsert of the credits waits for the row.
WriteDebts(u) ==
    /\ job[u].pc = "write"
    /\ debtLock = None
    /\ debtLock' = u
    /\ Go(u, "commit")
    /\ UNCHANGED <<share, credit, rowLock, key, orders, room, uploaded, history>>

\* The order, the usage of the requisite and the credits become visible.
Commit(u) ==
    /\ job[u].pc = "commit"
    /\ DropLocks(u)
    /\ Set(u, [pc |-> "release", pick |-> job[u].pick])
    /\ IF job[u].assigned
       THEN /\ credit' = NextCredits(job[u].read, job[u].share, Primary(u))
            /\ owed' = owed + job[u].share - (IF Primary(u) = "FORK" THEN Scale ELSE 0)
            /\ stale' = stale + (IF credit = job[u].read THEN 0 ELSE 1)
       ELSE UNCHANGED <<credit, owed, stale>>
    /\ IF job[u].pick # None
       THEN /\ held' = [held EXCEPT ![job[u].pick][job[u].amount] = @ + 1]
            /\ pending' = [pending EXCEPT ![Owner[job[u].pick]] = @ + 1]
            /\ UNCHANGED <<overtaken, returned>>
       ELSE UNCHANGED orders
    /\ UNCHANGED <<share, key, room, uploaded, unforeseen>>

\* The finally of createOrder.
ReleaseKey(u) ==
    /\ job[u].pc = "release"
    /\ IF job[u].pick # None THEN DeleteKey(job[u].pick) ELSE UNCHANGED key
    /\ Set(u, Idle)
    /\ UNCHANGED <<share, credit, locks, orders, room, uploaded, history>>

\* The transaction fails or times out.  createOrder knows the key only once the
\* cascade has returned: before, the key stays until it expires.
Abort(u) ==
    /\ MayFail
    /\ job[u].pc \notin {"idle", "release"}
    /\ DropLocks(u)
    /\ IF job[u].pc = "commit"
       THEN Set(u, [pc |-> "release", pick |-> job[u].pick])
       ELSE Set(u, Idle)
    /\ UNCHANGED <<share, credit, key, orders, room, uploaded, history>>

UploadStep(u) ==
    \/ ReadBalances(u)
    \/ Rank(u)
    \/ TryKey(u)
    \/ SkipLocked(u)
    \/ Recheck(u)
    \/ AskProvider(u)
    \/ WriteDebts(u)
    \/ Commit(u)
    \/ ReleaseKey(u)

-----------------------------------------------------------------------------
(* What else happens meanwhile *)

KeyExpires(r) ==
    /\ key[r]
    /\ key' = [key EXCEPT ![r] = FALSE]
    /\ UNCHANGED <<share, credit, locks, orders, room, job, uploaded, history>>

SettingsChange ==
    /\ share' \in Shares
    /\ UNCHANGED <<credit, locks, key, orders, room, job, uploaded, history>>

\* An upload has read the balances and not yet the pending orders.
BetweenReads == \E u \in Uploads : job[u].pc = "rank"

\* An order leaves the blocking statuses, and those before its settlement.  It may
\* be one that was written back, and a confirmation of it may be under way.
OrderLeaves(r, x) ==
    /\ held[r][x] > 0
    /\ held' = [held EXCEPT ![r][x] = @ - 1]
    /\ \/ returned[r][x] < held[r][x] /\ UNCHANGED returned
       \/ returned[r][x] > 0 /\ returned' = [returned EXCEPT ![r][x] = @ - 1]
    /\ \/ UNCHANGED overtaken
       \/ /\ unforeseen[Owner[r]] < MaxUnforeseen      \* or it could not come back
          /\ overtaken' = [overtaken EXCEPT ![r][x] = @ + 1]
    /\ pending' = [pending EXCEPT ![Owner[r]] = @ - 1]
    /\ UNCHANGED <<share, credit, locks, key, job, uploaded, owed, stale>>

\* An order is paid: its debit takes the place of its claim on the capacity.
OrderPaid(r, x) ==
    /\ OrderLeaves(r, x)
    /\ room' = [room EXCEPT ![Owner[r]] = @ - 1]
    /\ unforeseen' = [unforeseen EXCEPT ![Owner[r]] = @ + IF BetweenReads THEN 1 ELSE 0]

\* An order is cancelled, or an appeal takes it out of the blocking statuses.
OrderDropped(r, x) == OrderLeaves(r, x) /\ UNCHANGED <<room, unforeseen>>

\* updateOrder validated the order while it was NEW and writes VERIFIED by id,
\* whatever has become of it, without a look at capacity or at other orders.
OrderReturns(r, x) ==
    /\ overtaken[r][x] > 0
    /\ unforeseen[Owner[r]] < MaxUnforeseen
    /\ overtaken' = [overtaken EXCEPT ![r][x] = @ - 1]
    /\ held' = [held EXCEPT ![r][x] = @ + 1]
    /\ returned' = [returned EXCEPT ![r][x] = @ + 1]
    /\ pending' = [pending EXCEPT ![Owner[r]] = @ + 1]
    /\ unforeseen' = [unforeseen EXCEPT ![Owner[r]] = @ + 1]
    /\ UNCHANGED <<share, credit, locks, key, room, job, uploaded, owed, stale>>

\* An appeal or a late payment settles an order that was dropped, or the trader
\* withdraws: nothing announced the debit.
Debit(t) ==
    /\ unforeseen[t] < MaxUnforeseen
    /\ room' = [room EXCEPT ![t] = @ - 1]
    /\ unforeseen' = [unforeseen EXCEPT ![t] = @ + 1]
    /\ UNCHANGED <<share, credit, locks, key, orders, job, uploaded, owed, stale>>

TopUp(t) ==
    /\ room[t] < MaxRoom
    /\ room' = [room EXCEPT ![t] = @ + 1]
    /\ UNCHANGED <<share, credit, locks, key, orders, job, uploaded, history>>

Next ==
    \/ \E u \in Uploads : ReadDebts(u) \/ UploadStep(u) \/ Abort(u)
    \/ \E r \in Requisites : KeyExpires(r)
    \/ SettingsChange
    \/ \E r \in Requisites, x \in Amounts :
         OrderPaid(r, x) \/ OrderDropped(r, x) \/ OrderReturns(r, x)
    \/ \E t \in Traders : Debit(t) \/ TopUp(t)

Spec == Init /\ [][Next]_vars

\* The server goes on with an upload it has begun.
FairSpec == Spec /\ \A u \in Uploads : WF_vars(UploadStep(u))

-----------------------------------------------------------------------------
(* Properties *)

TypeOK ==
    /\ share \in Shares
    /\ credit \in Credits
    /\ debtLock \in Uploads \cup {None}
    /\ rowLock \in [Requisites -> Uploads \cup {None}]
    /\ key \in [Requisites -> BOOLEAN]
    /\ held \in [Requisites -> [Amounts -> Nat]]
    /\ overtaken \in [Requisites -> [Amounts -> Nat]]
    /\ returned \in [Requisites -> [Amounts -> Nat]]
    /\ pending \in [Traders -> Int]
    /\ room \in [Traders -> Int]
    /\ job \in [Uploads -> {Idle} \cup Upload \cup Finished]
    /\ uploaded \in 0..MaxUploads
    /\ owed \in Int
    /\ stale \in Nat
    /\ unforeseen \in [Traders -> Nat]

\* The assignments made so far follow the shares that were set: FORK is ahead or
\* behind by half an assignment, and one more for every assignment whose credits
\* another upload had replaced since they were read.
FairShare == 2 * owed \in -(Scale + 2 * Scale * stale)..(Scale + 2 * Scale * stale)

\* A trader's orders exceed the capacity by less than the uploads that run at a
\* time, not counting debits that no check of the capacity could see and orders
\* that a late confirmation wrote back without a check.
OvercommitBounded ==
    \A t \in Traders :
        pending[t] <= room[t] + unforeseen[t] + Cardinality(Uploads) - 1

\* Whatever becomes of the Redis keys, no upload gives a requisite a second open
\* order of an amount: of those it has, all but one had been closed and were written
\* back by a confirmation that had found them NEW (updateOrder, payin.service.ts).
SameAmountOnce == \A r \in Requisites, x \in Amounts : held[r][x] <= returned[r][x] + 1

\* Every upload ends: none waits for another for ever.
UploadsEnd == \A u \in Uploads : job[u].pc # "idle" ~> job[u].pc = "idle"
=============================================================================
