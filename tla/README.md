# Formal model of the P2P processing platform

The platform takes payments between merchants and traders. A merchant uploads
a *Pay-In* order; the cascade assigns it to a bank card (*requisite*) of a
trader; the payer transfers the money; the trader confirms what arrived, and
the merchant is credited and the trader debited. A *Pay-Out* runs the other way:
the merchant's balance is reserved, traders claim the order from a pool and pay
it. Disputes are *appeals*. Every status change is announced to the merchant
through a webhook outbox. Traders top up their balances on chain, and what they
sent is swept to a cold wallet.

All of it is one NestJS API over PostgreSQL (Prisma, Read Committed unless said
otherwise), with a BullMQ worker for webhooks and timers for chain scans, sweeps,
promotion and maintenance. Several API processes may run, so what keeps two
requests apart is the database alone: row locks, unique indexes, conditional
updates. The difficulty of this code is there: most handlers read a row,
validate, and only then open the transaction that writes.

This directory holds TLA+ modules for that core, the TLC runs that check them on
small instances and TLAPS proofs of what matters most for any instance.

## Inventory

Paths are relative to `src/apps/api/src/modules` unless they start with
`packages` or `src`.

### Pay-In orders (`payin/payin.service.ts`)

* State: `payin_orders` (status, amount, requisite, trader, provider reference,
  received amount), `platform_income` (one row per settled order, unique
  index), `balance_transactions` of merchant and trader.
* Operations: `uploadOrder` / `h2hInit`; `updateOrder` of the merchant and the
  payment page; trader confirmation and cancellation; administrative override;
  provider callback; cancellation of a deactivated trader's orders; the shared
  `applyPayinPaidTransitionTx` that settles.
* Hard: five kinds of callers may move one order; the transition is validated on
  a row read before the transaction, and the update is by id. A cancellation and
  the release of the card's slot are two transactions. Only a unique index stops
  a double credit.
* Correct when: an order is settled once, for the amount it shows; the merchant's
  credit, the trader's debit and the platform's income agree; statuses follow
  the graph of `packages/shared/src/state-machines.ts`; every status reaches the
  outbox.

### Requisites and their groups (`requisites/requisites.service.ts`, `requisites/requisite-groups.service.ts`)

* State: `used_ops`, `used_amount`, `confirmed_payin_amount`, `is_active`,
  `disabled_reason` against `limit_total_ops`, `limit_total_amount`; of a group
  `is_active`, `deactivated_at`, `archived_at`.
* Operations: `incrementUsageInTransaction` (conditional UPDATE and automatic
  switch-off), `releaseUsage` (read, compute, write back, perhaps switch on),
  `adjustConfirmedPayinVolumeInTransaction`; create, edit, activate, deactivate,
  delete; groups created, switched off and on, archived, restored.
* Hard: a release writes absolute values computed from an earlier read; a crash
  between cancellation and release leaks a slot; a second release of the same
  order gives away somebody else's. Edits check the group and look for another
  active requisite of the number, and write later; a release switches requisites
  on by itself.
* Correct when: caps are never exceeded, the switch agrees with the caps, the
  counters count exactly the orders that hold a slot; one active requisite per
  number, none in a group that is off, and what was switched off by hand stays off.

### Cascade assignment (`cascade/cascade.service.ts`, `cascade/cascade-redis-state.service.ts`)

* State: `cascade_level_debts`, one row of credits per currency; Redis keys of
  requisites and a cached snapshot; everything else is read.
* Operations: load candidates, read credits and capacity, rank, try each under
  its Redis key and row lock (`FOR UPDATE SKIP LOCKED`), fall back to the
  provider, write the credits.
* Hard: the snapshot is stale when the candidate is locked; capacity is two
  queries; keys expire, or are deleted by whoever does not own them; credits are
  written as absolute values; row locks of turned-down candidates are kept while
  the upload waits for the row of the credits.
* Correct when: assignments follow the shares, capacity is not overcommitted, no
  upload gives a card a second waiting order of an amount, and every upload ends.

### Appeals (`payin/payin.service.ts`, `appeals/appeals.service.ts`)

* State: `appeals` (status, disputed amount, comment) and the order in APPEAL.
* Operations: file (`appealSend`), decide (`settlePayInOrderWhenAppealCloses`, RESOLVED or
  REJECTED).
* Hard: deciding twice at once; settling an order whose books were already
  settled before the dispute, so the correction is a difference.
* Correct when: a decision is final and the books end at the decided amount.

### Trader activation (`traders/traders.service.ts`)

* State: `trader_profiles.is_active`.
* Operations: activate, deactivate (cancels open Pay-Ins, releases Pay-Outs).
* Hard: uploads and claims already past the check.
* Correct when: no open order is left with a deactivated trader.

### Pay-Out orders (`payout/payout.service.ts`)

* State: `payout_orders` (status, pool STANDARD or SPECIALIST, the two possible
  assignees), merchant balance, refund rows, `platform_income`.
* Operations: upload (reserve balance), take from either pool, assign, start,
  complete, fail, cancel back to the pool, promote stale orders to the
  specialist pool, release for a deactivated trader, administrative override.
* Hard: two claims; a promotion racing a claim; completion racing failure;
  balance checked before it is decremented.
* Correct when: at most one assignee, reserved money is either paid out or
  refunded and never both, no balance below zero.

### Webhook outbox and delivery (`webhooks/webhooks.service.ts`, `workers/webhook.processor.ts`)

* State: `webhook_outbox` rows, BullMQ jobs, dead-letter queue.
* Operations: create a row (by order handlers), poll, enqueue, deliver, retry
  with backoff, dead-letter, manual resend.
* Hard: the poller's list and the worker's copy of a row go stale; a crash
  between the merchant's answer and SENT; a queue that drops a job whose id it
  has seen.
* Correct when: SENT means accepted, DLQ means tried often enough, a final row is
  reopened by a resend only, and every row gets delivered or dead-lettered.

### Wallet deposits (`wallet-deposits`)

* State: `wallet_deposits` by transaction hash, `settlements` (unique per deposit
  row), trader balances, the ERC-20 block cursor in Redis.
* Operations: two TRC-20 scans (a timer, and each sweep), an ERC-20 poll that
  walks block ranges, `observeAndMaybeCredit` per transfer,
  `creditDepositAtomic` (Serializable), the administrator's confirmation.
* Hard: scans overlap and write a row by what they read of it; confirmations are
  counted from a head read earlier; the cursor says a range is done.
* Correct when: a deposit is credited exactly once, not before it has its
  confirmations, and no block is passed over.

### Wallet sweep (`wallet-sweep/wallet-sweep.service.ts`)

* State: a Redis lock that expires, `wallet_sweep_logs`, the balance of the address.
* Operations: lock, scan deposits, look for uncredited rows, read the balance, log,
  broadcast, release; a watcher that waits for the receipt.
* Hard: the lock lapses under a long sweep and its key is deleted by whoever ends
  first; the balance is read after the rows; errors after the broadcast.
* Correct when: one sweep at a time, and known deposits are credited before funds
  move.

### Settlements (`settlements/settlements.service.ts`)

* State: `settlements` and three kinds of balance: trader, payout specialist,
  merchant.
* Operations: one `create` per kind: read the balance, check, increment or
  decrement, write the ledger row, in one Read Committed transaction without a
  lock.
* Hard: two of them, or one and an upload, check the same balance.
* Correct when: no update of a balance is lost, and none is spent twice.

### Maintenance (`maintenance/maintenance.service.ts`)

Two timers: groups off for seven days go to the archive; webhook logs older than
thirty days are deleted.

### Left out

Ratings, referrals and statistics (derived figures), users, authentication,
catalogues and audit (single-statement CRUD), Telegram, files, health and alerts
(best effort I/O), the web cabinet (renders the API).

### How they interact

An upload calls the cascade, the cascade reserves on the requisite inside the
upload's transaction; if nothing fits, the provider client is asked. A paid
transition writes the order, the requisite's confirmed volume, the ledgers, the
income and the outbox row in one transaction. A cancellation commits first and
then calls the requisite service. Deactivating a trader calls into Pay-In and
Pay-Out. Switching a group off switches its requisites off in one transaction.
A periodic job promotes stale Pay-Outs. A credited deposit raises the trader's
capacity in the cascade and starts a sweep, which scans deposits itself.
Uploads, refunds and settlements meet at the merchant's balance. Workers read
only what the transactions above have committed.

## Plan

In this order, the most important behaviour first.

1. **Core: Pay-In orders** with requisite counters, appeals, provider callback,
   deactivation (`PayinStates`, `RequisiteCounters`, `PayinOrders`),
   the abstract `PaymentBook` and the refinement, proofs of the safety
   invariants and the refinement (`PayinOrdersProofs`). Done.
2. **Pay-Out orders** with both pools, claims, completion, refunds, promotion,
   deactivation, override and the merchant's settlements (`PayoutOrders`), the
   abstract `PayoutBook`, proofs (`PayoutOrdersProofs`). Done.
3. **Webhook outbox** with poller, queue, workers, retries, dead letters and
   resends (`WebhookOutbox`), proofs (`WebhookOutboxProofs`). Done.
4. **Cascade** (`Cascade`) with the level credits, capacity, Redis keys and row
   locks of overlapping uploads, proofs (`CascadeProofs`). Done.
5. **Wallet** (`WalletDeposits`, `WalletSweep`): scans, cursor, credit; sweeps,
   which implement `WalletDeposits`; proofs of both. Done.
6. **Requisite and group edits** (`Requisites`) with the archiving job, proofs
   (`RequisitesProofs`). Done.
7. **Races set apart**: for each property that a race breaks, the weakest
   condition on the schedule under which it holds, as a hypothesis of its
   theorem; sums over the tables (`SetSums`), and with them the merchant's
   balance and the confirmed volume; the refinement of `PayoutBook`. Done.
8. Left: balances of traders and payout specialists under settlements; the
   composition of a deactivation across Pay-In and Pay-Out; a condition on the
   schedule under which `SameAmountUnique` holds of Pay-Ins. What uploads do for
   it is proved of `Cascade` (`SameAmountOnce`).

## Modules

| Module | Models | Kind |
|---|---|---|
| `PayinStates` | status graph and status groups | operators |
| `RequisiteCounters` | arithmetic of one requisite row | operators |
| `PayinOrders` | every handler that writes a Pay-In order | state machine |
| `PaymentBook` | what is charged for one order and what is owed | abstract specification |
| `PayoutOrders` | every handler that writes a Pay-Out order, the promotion job, merchant settlements | state machine |
| `PayoutBook` | what happens to the reserve of an order | abstract specification |
| `WebhookOutbox` | rows, poller, queue, workers | state machine |
| `WalletDeposits` | chains, scans, cursor, deposit rows, balances | state machine, and what `WalletSweep` implements |
| `WalletSweep` | lock, sweeps and their log over `WalletDeposits` | state machine |
| `Cascade` | uploads that overlap in the cascade | state machine |
| `Requisites` | edits of requisites and groups, the counters' switch | state machine |
| `MC` + name | instances of the state machine for TLC | model checking |
| `SetSums` | sums of a function over a finite set | lemmas for the proofs |
| name + `Proofs` | inductive invariant, theorems | proofs |

Definitions marked *Mutant* in a comment are not part of the models. Each is a
wrong variant of the definition that follows it, kept to show that a property
notices the difference.

### PayinOrders: state and actions

`order[o]`, `appeal[a]`, `requisite[r]`, `enabled[t]` are the table rows; a row
with status `NONE` does not exist yet. `income[o]` is the platform income row (0:
none), `merchant[o]` what the order has added to the merchant's balance and
`trader[o]` what it has taken from the trader's, `notified[o]` the status in the
newest outbox row of the order. (The ledger rows themselves do not add up to
`trader[o]`: a correction is recorded as a PAYIN_DEBIT of its absolute value also
when it gives money back, `payin.service.ts:1884`; the balance moves by the signed
amount.) `job[p]` is what the request handler `p` has in its local variables.

A call is split exactly where the code gives other requests a chance: after the
read that validates, before the transaction; between a commit and the release
that follows it; between the release's read and its write; in `settlePayInOrderWhenAppealCloses`
between the update of the appeal row, which locks it, and the rest.

| Code | Actions |
|---|---|
| `uploadOrder`, `h2hInit` | `BeginUpload`, then `AssignRequisite` or `UploadElsewhere` |
| merchant `updateOrder`, payment page, trader cancellation | `MerchantUpdate`, `ConfirmFromPaymentPage`, `TraderCancelOrder`, then `CommitStatus` |
| trader confirmation, admin override | `TraderConfirmPaid`, `AdminUpdateStatus`, then `CommitPaid` |
| `appealSend` | `BeginAppeal`, `CommitAppeal` |
| `settlePayInOrderWhenAppealCloses` | `BeginCloseAppeal`, `LockAppeal`, `CommitReject` or `CommitResolve` |
| provider callback | `BeginProviderCallback`, `CommitProvider` |
| activate, deactivate | `ActivateTrader`; `DeactivateTrader`, `ReadOpenOrders`, `CommitCancelAll` |
| `releaseUsage` | `ReadUsage`, `WriteUsage` |
| an error, a rollback or the end of the process | `Fail` |

Abstractions:

* Orders are in UAH, the only currency that settles, and amounts are booked in
  fiat: both sides are that amount times rates stored on the order row.
* Every order has a callback URL, so every status change writes an outbox row.
* `picks` of an upload is any subset of the eligible requisites: it stands for the
  scoring, the nominal and balance filters and the provider-first tier.
* A candidate may be skipped while another handler is active: that is
  `SKIP LOCKED`.
* The caps of a requisite do not change, and only the caps switch it; edits are
  the subject of `Requisites`.
* `Fail` is always possible for calls that the code can still refuse (id taken,
  overdraft, income row already there, ...) and, with `MayFail`, for all.
* Received amount 0 is NULL.

### PayoutOrders: state and actions

One merchant with one currency. `order[o]` is the row (status, pool, and the two
assignee columns), `balance` the merchant's balance, `refunds[o]` the number of
refund rows of the order, `income[o]` whom its platform income row credited,
`notified[o]` its newest outbox row, `job[p]` the call handler `p` is in. `aged`
is the set of orders older than the cutoff of the promotion job, `batch` what one
run of that job has read.

| Code | Actions |
|---|---|
| `orderUpload` | `BeginUpload` (balance read), `CommitUpload` (reserve, insert) |
| `traderTakeFromPool`, `specialistTakeFromPool`, `assignToTrader` | `BeginClaim` (profile), `CommitClaim` (under the row lock) |
| start, complete, fail, cancel to pool, of traders and specialists | `BeginX` (validate), `CommitX` (transaction) |
| administrative override | `BeginAdmin`, `CommitAdmin` |
| `createMerchantSettlement` | `BeginSettlement` (balance read), `CommitSettlement` |
| deactivate | `DeactivateTrader`, `ReadWork`, `ReturnOne` per order; `ActivateTrader` |
| `promoteStaleStandardPoolOrders` | `Age` (time passes), `ReadStale`, `PromoteStale`, `PromotionDies` |
| an error, a rollback or the end of the process | `Fail` |

`withdrawn` is the sum of the settlements.

Abstractions: nothing but these orders and settlements touches the balance; orders settle with
the rate snapshot that uploads always store; a claim is one step because its
query locks the row with its conditions (`FOR UPDATE SKIP LOCKED`); profiles of
specialists do not change; the pool an upload chooses is nondeterministic; proof
attachments are left out; one process runs the promotion job; `MaxRefunds` bounds
the refunds of one order, `MaxWithdrawn` the settlements.

### WebhookOutbox: state and actions

`row[r]` is the outbox row: status, attempts, and `nextRetryAt` as NULL, in the
future or past. `pending[c]` is the rest of the list poller `c` walks through.
The queue is `job[r]`, `kept` (failed jobs it still remembers, oldest first) and
`stalled` (jobs recovered once from a dead worker). `worker[w]` is the copy of
the row worker `w` made when it took the job. `accepted`, `posts`,
`undeliverable` and `resends` record what happened, for the properties and the
bounds.

| Code | Actions |
|---|---|
| `createPayinWebhookEntry` and its kin | `CreateEntry` |
| `resend`, `resendWebhook` | `Resend` |
| `pollAndEnqueuePending` | `Poll`, `Enqueue` per row, `PollerDies` |
| `runJob` up to the POST | `Take`, `SkipFinal`, `DeadLetterUndeliverable` |
| the POST and its answer | `PostAccepted`, `PostRefused`, `AcceptedNotRecorded` |
| the outcome | `MarkSent`, `MarkDead`, `MarkFailed` |
| database errors, death of a worker | `JobThrows`, `WorkerDies` |

Abstractions: BullMQ is external and modelled from the options the code passes
and the library's defaults (an added job whose id exists is ignored, a dead
worker's job is recovered once and then fails; a worker that is only slow to renew
its lock is not). `KeepFailed` stands for the 100 failed jobs that are kept and
`MaxRetries` for 8. `MaxResends` bounds the resends of a row. The payload and
the log rows are left out; `createOutboxEntry`, `markSent`, `markFailed` and
`enqueueDelivery` have no caller.

### WalletDeposits: state and actions

`block[t]` is the block of a transfer (0: not mined), `rejected` the TRC-20
transactions whose receipt is bad, `row[t]` the deposit row, `settled[t]` the
trader of its settlement, `scan[s]` the list and the local variables of scan `s`,
`cursor` the last processed block. `excused` records why a deposit was credited
early, for the properties.

| Code | Actions |
|---|---|
| the Tron timer, `reconcile` of a sweep | `ListTrc20`, `TrongridSilent`, `EndTrc20` |
| the ERC-20 poller | `PollErc20`, `EndChunk` (stores the cursor, reads the next range) |
| `observeAndMaybeCredit` | `SkipFinal` or `ReadRow`; `MarkFailed`, `Observe`, or the credit; `SkipUnanswered` |
| `creditDepositAtomic` | `Credit`, `AlreadyCredited`, `CreditThrows` |
| `confirmManual` | `ConfirmManual` |
| blocks, deaths | `NewBlock`, `ScanDies` |

Abstractions: a transfer is worth one, each trader has one deposit address and
stays active; the head and the list are read in one step, since the code skips
transfers above the head it read; without a cursor a poll starts at the first
block instead of some thousands behind; a chain does not reorganize. Alerts and
events are left out.

### WalletSweep: state and actions

`locked` is the key, `lapsed` records that it expired under a sweep, `sweep[s]` is
where sweep `s` is, `log` the rows with the fate of their transaction, `moved`
what has reached the cold wallet. A sweep's scan is scan `s` of `WalletDeposits`.

| Code | Actions |
|---|---|
| lock and scan | `StartSweep`, `StartSweepUnanswered`, `SweepSkips`, then steps of the scan, `ReconcileThrew` |
| uncredited rows, balance | `CheckUncredited`, `ReadBalance` |
| log row, broadcast | `CreateLog`, `Broadcast`, `MarkBroadcast` |
| the `catch`, the death of a process, expiry | `SweepThrows`, `SweeperDies`, `LockExpires` |
| the chain and the watcher | `Include`, `Confirm`, `ReceiptFails` |

Abstractions: one deposit address; energy delegation and fees are one chance to
return at `ReadBalance`; a watcher that gives up leaves the row as it is.

### Cascade: state and actions

`share` is the administrator's FORK percentage, `credit` the row of level credits,
`rowLock[r]` and `debtLock` who has the rows, `key[r]` the Redis keys, `held[r][x]`
the open orders of amount `x`, `overtaken[r][x]` those that are open no more but
that an update found NEW and is going to write back as VERIFIED, `pending[t]` and
`room[t]` what the two capacity queries read, `job[u]` the local variables of
upload `u`. `owed`, `stale`, `unforeseen` and `returned` are histories: the true
credit from the assignments made, the credits written over newer ones, the debits
and returning orders no capacity check could see, and how many of the open orders
came back that way.

| Code | Actions |
|---|---|
| settings and credits | `ReadDebts` |
| `getUsdtCapacityMaps` | `ReadBalances`, and the second query in `Rank` |
| ranking | `Rank` |
| `tryAcquireRequisiteLock` | `TryKey` |
| the row lock and the checks under it | `SkipLocked`, `Recheck` |
| the provider, or no match | `AskProvider` |
| the upsert of the credits, the commit | `WriteDebts`, `Commit` |
| `finally`, rollback | `ReleaseKey`, `Abort` |
| `updateOrder` of an order that was canceled since it was read | `OrderReturns` |
| others | `KeyExpires`, `SettingsChange`, `OrderPaid`, `OrderDropped`, `Debit`, `TopUp` |

Abstractions: orders are counted, not named. Any order that leaves may turn out to
be overtaken by an update, also one that was paid, and one that comes back may be
paid again, which the unique income row refuses in the code: the model allows more
than the code does. Two levels that traders belong to, whose shares add up to one
(`Scale`); the provider is what is left when both have nobody. An order is worth
one unit of capacity, and capacity is enforced, as it is for UAH. Scores, ranges,
limits and the snapshot cache stand behind the choice of any subset of the
requisites that pass the checks kept here; stochastic picking and nominals are
left out. A requisite that is switched off between the snapshot and its lock is
not asked again, as in the code (`Requisites` looks at that).

### Requisites: state and actions

`group[g]` and `row[r]` are the table rows, `longOff` the groups the archiving job
will find, `held[r]` and `canceled[r]` the orders of a requisite, `job[p]` the call
handler `p` is in. Histories: `wanted` are the requisites last switched on by hand,
`raced` those whose group was last switched off under a call that had seen it on,
`overwritten` those switched off by hand whose reason an order has replaced.

| Code | Actions |
|---|---|
| groups: `create`; `update` and `restore`; `update` and `delete` | `CreateGroup`; `SwitchGroupOn`; `SwitchGroupOff` |
| `archiveInactiveRequisiteGroups` | `WeekPasses` (time), `ArchiveInactiveGroups` |
| `create`, `activate`, `update` of a requisite | `BeginX` (read, validate), `CommitX` (write by id) |
| `deactivate`, `delete` | `Deactivate`, `Delete` |
| an upload, a recovered order | `BeginUpload`, `CommitUpload`; `Recover` |
| a cancellation and its `releaseUsage` | `CancelOrder`, `ReadUsage`, `WriteUsage` (locks the row), `CommitRelease` |
| errors, rollbacks, deaths | `Fail` |

Abstractions: every order has amount 1 and the operation cap stands for both;
`Number` is type and normalized number; only releases keep a row locked over
several steps; in a release the group and the other requisites are read in one
step, and the unique index has the last word at the commit; a group and its
requisites go off in one step, where the code has two statements
(`requisite-groups.service.ts:379-388`): a requisite switched on between them stays
on, as one does here whose call saw the group on and commits later (`raced`); an order is
canceled and released by one call, and `MaxOrders` bounds the orders of a
requisite. The index of migration `20260509172000` is modelled as what it refuses.

## Runs

Bounds that are constants of the specifications: the ids (`Requests`, `Rows`,
`Requisites`, `Groups`, `Traders`, `Trc20` and `Erc20`: how many rows or transfers
there ever are), `Appeals` (how many are ever filed), the actors (`Handlers`,
`Pollers`, `Workers`, `Uploads`, `TronScans`, `EthScans`: how much is in progress
at once), amounts (`OrderAmounts`, `ReportedAmounts`, `Amounts`, `Withdrawals`),
`MaxConfirmed`, which caps the confirmed volume in the guard of a paid
transition, `MaxRefunds`, `MaxWithdrawn`, `MaxResends`, `MaxBlock`, `MaxSweeps`,
`MaxUploads`, `MaxUnforeseen`, `MaxRoom`, `MaxOrders`. Symmetry is over ids that are
only compared for equality, and only in runs without liveness.

| Run | Instance | Shows |
|---|---|---|
| `payin_money` | 1 order, 2 handlers, all operations, failures | books stay in step under any race of two calls; implements `PaymentBook`; the card stays within its caps and is off exactly while it is full |
| `payin_serial` | 2 orders, 1 handler, all operations | what the code promises when calls do not overlap |
| `payin_reservation` | 3 orders, 1 card with two operations, 1 handler | the counters count exactly the holders |
| `payout_races` | 1 order, 2 traders, 1 specialist, settlements, 2 handlers, all operations but the override, promotion, failures | one assignee, no lost balance update, a final status comes with its money |
| `payout_serial` | 2 orders, settlements, balance for one, 1 handler, all operations, promotion, failures | balance not overdrawn, the credit goes to the assignee; implements `PayoutBook`; nothing waits in the standard pool forever |
| `webhook_delivery` | 2 rows, 1 poller, 2 workers, 3 attempts, 1 resend, failures | what SENT and DLQ mean, who reopens a row, a due row is attempted |
| `wallet_deposits` | a TRC-20 and an ERC-20 transfer, 1 scan of each, 2 traders, 2 blocks, 2 confirmations, failures | credited once, not too early, no block passed over, TRC-20 deposits credited in the end |
| `wallet_sweep` | 1 transfer, 2 sweeps, 2 log rows, expiring lock, failures | when sweeps overlap, what is credited before funds move; implements `WalletDeposits` |
| `cascade` | 2 uploads over 2 cards of one trader, 1 amount, shares 1/3 and 2/3, failing Redis, rollbacks | how far shares and capacity are missed, no second order of an amount but by a late confirmation, uploads end |
| `requisites` | 2 cards of one number in 1 group, caps 1 and 2, 2 handlers, failures | one active per number, groups and hands switch off for good, up to the named races |
| `webhook_never_sent` | 2 rows, 1 worker, no failures | *violated*: every status change is announced |
| `erc20_never_credited` | 1 ERC-20 transfer, 2 blocks, no failures | *violated*: a deposit with its confirmations is credited |

Why the bounds are enough to be interesting. The ledgers of different orders are
disjoint, so one order with two overlapping calls already has every race on its
money. It also has the races on its slot: a payment of the canceled order takes
the slot again while one or two releases of it are between their read and their
write, or after a call died before releasing. The theorems below remove the bound.
Slots are shared by the orders of one card, so the run that counts them has three
orders and a card that is full with two, and
amounts 1 and 2 so that both the amount cap and the operation cap can be the one
that is reached. Serial runs need one handler but long histories:
one appeal per run lets an order be paid, disputed, corrected, canceled and
recovered. `payout_serial` has two orders because a balance is shared. In
`webhook_delivery` two rows and `KeepFailed = 1` let a second failure push the
first out of the queue, and two workers can hold rows while a third party resends.
With two blocks and two confirmations a transfer of the first block is seen
once too early and once deep; a second trader lets an administrator book a
deposit to the wrong one. Two sweeps meet at the lock, and two log rows let the
second transaction revert. In `cascade` two uploads overlap in each of their
steps, and a trader with room for one order is overcommitted by the second; one
unforeseen event is enough for an order to come back beside a new one of its
amount. In `requisites` two cards of one number compete for the index, and a cap of one makes
every order switch its card off; the later cap of two is the way an operator
frees it.

`webhook_delivery`, `webhook_never_sent` and `wallet_sweep` disable the deadlock
check: once every row is final and the bounded resends are used up, or the bounded
log is full while a lock is held, nothing is left to do. In the others something
can always be begun, ended or switched.

### Fairness

`PayinOrders` and `Requisites` have none: nothing in the code runs an order to an
end by itself. A payer may never pay, a trader never confirm, and no job expires
a waiting order.

`PayoutOrders` (`FairSpec`): time passes (`Age`), the cron keeps starting the
promotion job (`ReadStale`), and not every run of it dies between its read and
its update (strong fairness of `PromoteStale`, since each death takes the batch
away). Callers owe nothing.

`WebhookOutbox` (`FairSpec`): time passes (`RetryTimeComes`), the cron keeps
polling (`Poll`), and not every poll of a row dies before it has enqueued the row
(strong fairness of `Enqueue`). A waiting job is taken by some worker that is free
often enough (strong fairness of taking, since another job may come first), and a
worker that has started a job ends it or dies (`Run`; a POST has a timeout).
Failures are not fair, and merchants need never accept.

`WalletDeposits` (`Trc20FairSpec`, `Erc20FairSpec`): the timers keep starting scans
and a scan that has begun goes on or dies (`ScansGoOn`, weak fairness); not every
scan dies, or goes unanswered by TronGrid, before it has read a given row or in
the middle of crediting it (strong fairness of `ReadRow` and `Credit`). Blocks
need not come.

`Cascade` (`FairSpec`): the server goes on with an upload it has begun (weak
fairness of `UploadStep`). Redis, keys and other orders owe nothing, and no upload
need begin.

## What the violated runs show

1. `webhook_never_sent`: rows are created without `nextRetryAt`, the poller asks
   for rows where it has passed (`webhooks.service.ts:48`), and nobody calls
   `enqueueDelivery`. A row moves only after a manual resend.
2. `erc20_never_credited`: the ERC-20 poller stores its cursor behind every block
   it has read (`erc20-deposit-poller.service.ts:225`) and starts the next poll
   after it. A transfer that was first seen below `minConfirmations` is stored as
   CONFIRMED and never looked at again.

More counterexamples TLC finds when an instance is widened. Each needs only the
named constants changed in the cfg of the run that checks the property, or the
property added to the cfg of a run of its module:

| Property | Fails with | Because |
|---|---|---|
| `StatusFollowsGraph` (Pay-In) | 2 handlers | `updateOrder` validates the status and then updates by id (`payin.service.ts:513`): a payment confirmed in between is overwritten, a PAID order becomes CANCELED though its books stay settled |
| `SameAmountUnique` | `Operations = {upload, merchant, cancel}`, 2 handlers | a canceled order returns to VERIFIED after its amount was given away |
| `SameAmountOnce` without `returned`, `OvercommitBounded` without the returns in `unforeseen` | `cascade` | the same return: an order comes back beside the one that took its place, and back to the trader's pending orders, without a check |
| `HoldersWithinLimit` | `{upload, cancel}`, 3 orders, 2 handlers | two cancellations of one order both release |
| `UsageMatchesHolders` | appeals, the override, or `MayFail`, 1 handler | an appeal does not reserve a released slot again; an override cancels without releasing; a call that dies between a cancellation and its release leaks the slot |
| `DecisionIsFinal` | `{upload, appeal, close}`, 2 appeals, 2 handlers | both decisions read the appeal OPEN |
| `DisabledHasNoOpenOrders` | `{upload, deactivate}`, 2 handlers | an upload past the activity check commits after the deactivation |
| `SettledOneWay` | Pay-Out, 2 handlers | completion and rejection of one PROCESSING order both commit (`payout.service.ts:1865`): the assignee is credited and the merchant refunded |
| `NeverOverdrawn` | two uploads or settlements, 2 handlers | both read the same balance |
| `CreditGoesToAssignee` | `{upload, take, complete, return}`, 2 handlers | the completion credits the assignee it read |
| `PoolMatchesAssignee` | `PoolTimeout = TRUE` | a promotion moves an order claimed since it was read |
| `DisabledHasNoWork` | the override, or `MayFail` | an override gives a returned order back; a deactivation that stops half way is not retried |
| `FailedIsRefunded` | the override | an override changes the status alone |
| `FailedIsRetried` | `webhook_never_sent` | a failed attempt throws, so its job stays among the failed ones, and the queue ignores a new job of the same id until 100 others have failed |
| `ScannedIsRecorded` | `LogsMayFail = TRUE` | a range counts as empty for a trader whose logs cannot be read |
| `SweptIsCredited` | `wallet_sweep` | a transfer that is mined after the scan is part of the balance |
| `ActiveInLiveGroup` without `raced` | `requisites` | a creation, activation or release that has seen the group on commits after the group went off, although `requisites.service.ts:34` says that a requisite may not remain active then |
| `OffStaysOff` without `overwritten` | `requisites` | an upload that was under way when the card was switched off by hand reaches its cap and replaces the reason; its cancellation switches the card on |

## Proofs

### Pay-In

`PayinOrdersProofs` proves, for all values of the constants that satisfy
`ConstantsAssumption` (only the set of request ids is assumed finite, which the
sums and the numbers of orders need):

| Theorem | States |
|---|---|
| `Invariance` | `Spec => []IInv` |
| `TypeCorrect` | `Spec => []TypeOK` |
| `BooksInStep` | `Spec => []LedgersMatchIncome` |
| `PaidSettled` | `Spec => []PaidIsSettled` |
| `CapsHold` | `Spec => []UsageWithinLimits` |
| `SwitchFollowsCaps` | `Spec => []ActiveIffHeadroom` |
| `OutboxInStep` | `Spec => []NewestWebhookIsStatus` |
| `ImplementsPaymentBook` | `Spec => Settlement` |

These hold whatever calls race. The other properties do not, as the table above
shows; the code keeps them only as far as certain calls do not overlap, and each
theorem names the overlaps it excludes, and no others:

| Theorem | States |
|---|---|
| `SerialInvariance` | `Spec /\ []UpdatesApart => []SerialInv` |
| `GraphFollowed` | `Spec /\ []UpdatesApart => StatusFollowsGraph` |
| `ConfirmedIsSum` | `Spec /\ []UpdatesApart => []ConfirmedMatchesPaid` |
| `WaitingUnsettled` | `Spec /\ []UpdatesApart => []WaitingIsUnsettled` |
| `DecisionsStand` | `Spec /\ []DecisionsApart => DecisionIsFinal` |
| `UsageIsHolders` | if `Undisputed`, `Spec /\ []UpdatesApart /\ []SeenIsCurrent => []UsageMatchesHolders` |
| `HoldersFitLimit` | likewise, `=> []HoldersWithinLimit` |
| `DeactivationCancelsAll` | if `MayFail = FALSE`, `Spec /\ []UpdatesApart /\ []CandidatesEnabled => []DisabledHasNoOpenOrders` |
| `OneCallAtATime` | if there is one handler, the conclusions of all of these |

* `UpdatesApart`: no order is in the hands of two calls that are going to rewrite
  it by id. Calls on different orders interleave freely, and on one order an
  upload, a release and reads may overlap with an update.
* `DecisionsApart`: no two calls are deciding the same appeal.
* `SeenIsCurrent`: the number of operations that a release has read still is the
  one in the row: nobody reserved or released on that requisite in between.
* `CandidatesEnabled`: no upload has a candidate whose trader was switched off.
* `Undisputed`: `MayFail = FALSE`, and no appeals, decisions or overrides, the
  operations the run `payin_reservation` leaves out for the reasons in the table.

`OneCallAtATime` shows that the conditions are met, together, by every schedule in
which one call follows another: with one handler they are proved, not assumed.
Each is violated by a race the table names, so none can be dropped.

The argument. None of these is inductive alone, because a commit acts on a
snapshot. `IInv` adds what a handler in the middle of a call may rely on:

* `RowInv`: a request without a row is blank and has empty books; amounts of
  rows are positive; an order handed to the provider has no requisite; the
  income of an order without a requisite is nothing or its own amount.
* `AppealInv`: an appeal that was filed refers to an uploaded order.
* `JobInv`: what a handler read is still there: a snapshotted order exists, a
  filed appeal stays filed, an order whose slot is to be released has a
  requisite, a callback that saw an income row still has one, and the counters
  a release read were within the caps.
* `CapInv`: counters within caps, caps unchanged, a switched-off row has a cap as
  its reason, and the switch agrees with the caps. With `JobInv` it makes the
  release's stale write harmless for the caps: it writes less than it read.

`JobInv` is preserved because of `Frame`, a property of every step: rows are
never deleted, an uploaded order never changes its requisite or provider, and an
income never returns to zero. Each action then has one lemma. The
refinement uses that a commit changes the books of one order only, and that the
income of an order in a paid outcome is what it shows before and after.

The conditional theorems share `SerialInv`: what a call has read of the orders it
is going to rewrite is still so. With it `StepKinds` sorts all steps into five
kinds, of which only two change orders: `Updates`, which replaces one row along an
edge of the graph, and the deactivation's `CommitCancelAll`. `Updates` says what
happens to the counters of every requisite (`Counts`): the volume follows the
order's share, and a slot is taken when a released order comes to hold one.
`ConfirmedIsSum` follows by the sum lemmas. `UsageIsHolders` needs besides that an
order whose slot is about to be released was canceled and is on the list of one
call only (`FreesInv`); then every step moves orders between `Holders` and
`Releasing`, or in and out of them together with the counter. A decision is final
because whoever is going to decide finds the appeal open (`DecidesOpen`), and a
deactivation is complete because waiting orders of a disabled trader are on the
list of a call, or of one that is going to read it (`CoveredInv`).

### Pay-Out

`PayoutOrdersProofs` proves, for all values of the constants:

| Theorem | States |
|---|---|
| `Invariance`, `TypeCorrect` | `Spec => []IInv`, `Spec => []TypeOK` |
| `OneAssignee` | `Spec => []AtMostOneAssignee` |
| `ClaimsTakeFromNobody` | `Spec => NeverTaken` |
| `OutboxInStep` | `Spec => []NewestWebhookIsStatus` |
| `CompletedCredited` | without overrides, `Spec => []CompletedIsCredited` |
| `FailedRefunded` | without overrides, `Spec => []FailedIsRefunded` |
| `BalanceIsBooked` | `Spec => []BalanceMatchesBookings` |
| `OverdraftBounded` | if no call takes more than `M`, `Spec => [](balance >= - (M * (Cardinality(Handlers) - 1)))` |
| `OneSpenderNeverOverdraws` | `Spec /\ []OneSpender => []NeverOverdrawn` |
| `SerialInvariance` | `Spec /\ []UpdatesApart => []SerialInv` |
| `GraphFollowed` | `Spec /\ []UpdatesApart => StatusFollowsGraph` |
| `CreditFollowsWork` | `Spec /\ []UpdatesApart => []CreditGoesToAssignee` |
| `SpentOnce` | `Spec /\ []UpdatesApart => []SettledOneWay` |
| `ImplementsPayoutBook` | `Spec /\ []UpdatesApart => Settlement` |
| `OneCallAtATime` | if there is one handler, the conclusions of the last six |

A trader's claim does not ask for `specialist_id IS NULL`, so `AtMostOneAssignee`
rests on the pool: `AssigneesOK` says that an order with a specialist is in the
specialists' pool and has no trader. It survives the promotion job, which writes
by id from a stale list, because that job only moves orders *into* that pool, and
it survives returns, which only remove assignees. `OutcomeOK` ties COMPLETED and
FAILED to the commit that settles or refunds. An override reaches the same
statuses without money; hence the assumption `"admin" \notin Operations` of the
`CompletedCredited` and `FailedRefunded`, and the part of `IInv` that no
administrative call is in progress then.

The balance is the deposit with every debit, refund and withdrawal booked because
each commit increments it in the database; `BalanceIsBooked` sums over the orders
with the lemmas of `SetSums`. What a call compares it with is another matter: the
check reads it earlier. `OneSpender` excludes that two uploads or settlements are
under way at once, and `OverdraftBounded` says what their race can cost: the
invariant `WithinMargin` counts what all handlers are about to take, each of which
saw the balance cover its own part. `UpdatesApart` excludes that two calls rewrite
the same order, or that an override works on an order that is being claimed;
`MoneyFits` then ties an order's income and refunds to its status and assignee.

### Webhooks

`WebhookOutboxProofs` proves, for any number of rows, pollers and workers:

| Theorem | States |
|---|---|
| `Invariance`, `TypeCorrect` | `Spec => []IInv`, `Spec => []TypeOK` |
| `OneDelivery` | at most one worker is in the middle of a row |
| `SentAccepted` | `Spec => []SentWasAccepted` |
| `DeadTried` | `Spec => []DeadWasTried` |
| `FinalStays` | `Spec => FinalUntilResent` |

Workers write from the copy they made, so every property rests on nobody else
having moved the row meanwhile. `OneWorkerPerRow` says so: a worker's row has an
active job, and two workers never have the same row. `DeliveriesOK` ties a copy
to its row: the number of attempts the worker read is at most the number of
POSTs, and an accepted copy is a row the merchant accepted; `RowsOK` says what a
status and a number of attempts record. `FinalUntilResent` follows because a
worker starts on open rows only, and nothing but itself can close one.

### Wallet

`WalletDepositsProofs`, for any transfers, traders, scans, confirmations and
failures:

| Theorem | States |
|---|---|
| `InvHolds`, `TypeCorrect` | `Spec => []Inv`, `Spec => []TypeOK` |
| `BalanceCorrect` | `Spec => []BalanceMatchesSettlements` |
| `DeepCorrect` | `Spec => []CreditedIsDeep` |
| `ScannedRecorded` | if `LogsMayFail = FALSE`, `Spec => []ScannedIsRecorded` |

Balances follow settlements because the credit finds `settled[t] = None` and moves
one trader's set by one transfer. `CreditedIsDeep` needs that what a scan lists was
mined at or below the head it read, and heads only grow. `ScannedIsRecorded`
needs what an ERC-20 scan still has to do: a transfer at or below its range has a
row, is on its list, or is the one it is working on.

`WalletSweepProofs`, for any number of sweepers:

| Theorem | States |
|---|---|
| `SweepRefines` | `SweepSpec => SweepsKeepDeposits` |
| `SweepBalanceCorrect` | `SweepSpec => []BalanceMatchesSettlements`, from the refinement |
| `SweepInvHolds`, `SweepTypeCorrect` | `SweepSpec => []SweepInv`, `SweepSpec => []SweepTypeOK` |
| `LockCorrect` | `SweepSpec => []OneSweepAtATime` |
| `KnownCorrect` | `SweepSpec => []CreditedBeforeSwept` |

The refinement mapping is the identity on the variables of `WalletDeposits`. Once
the lock has never lapsed under a sweep, a sweep that runs has the key, so none
begins beside it. A sweep's known deposits are rows, on its list, or credited;
its check of the table finds none PENDING or CONFIRMED.

### Cascade

`CascadeProofs`, for any number of uploads, requisites, traders and amounts, any
shares and bounds:

| Theorem | States |
|---|---|
| `InvHolds`, `TypeCorrect` | `Spec => []Inv`, `Spec => []TypeOK` |
| `ShareIsFair` | `Spec => []FairShare` |
| `OvercommitCorrect` | `Spec => []OvercommitBounded` |
| `SameAmountCorrect` | `Spec => []SameAmountOnce` |

`CreditInv`: stored and read credits add up to zero and stay within half an
assignment, because the level that is ahead pays; their distance to the true
credit grows by at most `Scale` with each write over newer credits. `RowInv`:
only the upload with the row lock gives a requisite a new order, and it has looked
for the amount under that lock, so Redis is not needed. What a late confirmation
brings back comes without the lock; therefore the invariant does not say that the
amount is free while the lock is held, but that all orders of it that are there
have come back (`OnlyReturned`). `BetInv` counts the uploads that may still give a
trader an order: what they have seen of his capacity, less the debits and returns
no check could see, bounds what they can add.

### Requisites

`RequisitesProofs`, for any groups, requisites, numbers, caps and calls:

| Theorem | States |
|---|---|
| `InvHolds`, `TypeCorrect` | `Spec => []Inv`, `Spec => []TypeOK` |
| `OneActive` | `Spec => []OneActivePerNumber` |
| `LiveGroup` | `Spec => []ActiveInLiveGroup` |
| `StaysOff` | `Spec => []OffStaysOff` |

`Seen`: a call that has seen a group on finds it on at its commit, or its
requisite in `raced`; a requisite that is gone is the exception, which the commit
refuses. `Locks`: a release that is going to switch a requisite on has its row
alone, and found it off at a cap. `Reasons`: a requisite whose reason is a cap was
switched on by hand or had its reason overwritten; that is what lets a release
switch it on. The steps that write one row share the lemma `RowStep`, those that
only move a call `CallStep`, and the harmless ones of groups `GroupStep`.

### Only model-checked

Every safety property that a passing run checks is the conclusion of a theorem,
with the hypotheses named there. TLC alone checks:

* Liveness, which is out of the prover's reach: `StandardPoolDrains`,
  `DueIsAttempted`, `Trc20IsCredited` and `UploadsEnd`.

The invariants behind the conditional theorems (`SerialInv`, `DecidesOpen`,
`FreesInv`, `CoveredInv` and their hypotheses) were first checked by TLC on the
instances of the Pay-In runs with two handlers. Induction over data is out of
reach as a principle with an operator for its parameter; `SetSums` replaces it,
for finite sets, by taking a smallest set for which a lemma would fail.

`PayinOrders` also states `NewestWebhookIsStatus` and `WaitingIsUnsettled`, which
are proved, and `SameAmountUnique`, which is not; other modules state the
properties of the table above that no run checks. They are kept for the instances
named there.

## Not modelled

See the components with status `not_modelled` or `partly` in `PROJECT.json`. In
short: HTTP, guards and roles, DTO validation, exchange rates and tariffs,
Telegram, audit rows, order history rows, statistics and the user interface; of
modelled components the abstractions named with each module; of settlements the
balance of payout specialists, and that of traders except for its effect on the
cascade.

Most of the repository's lines are none of the above: the web cabinet (more than
half of them), request and response shapes, listings, statistics and page
queries of the same services, seeds and scripts. They keep no state that another
part acts on and have no order of steps to get wrong, so a module for them could
only repeat their text; the share of the lines that the models stand for is
bounded by that.
