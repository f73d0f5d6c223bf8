----------------------------- MODULE WebhookOutbox -----------------------------
(***************************************************************************)
(* Delivery of webhook_outbox rows: the poller of webhooks.service.ts that *)
(* turns due rows into jobs, the BullMQ queue "webhook", the workers of    *)
(* webhook.processor.ts, and the manual resend.                            *)
(*                                                                         *)
(* A worker reads the row once, when it starts the job, and everything it  *)
(* writes later comes from that copy: the row is neither locked nor read   *)
(* again while the merchant answers.  The queue holds one job per row (its *)
(* jobId is made of the row's id) and ignores an addition while that job   *)
(* exists, be it waiting, active, or kept among the last failed ones.      *)
(***************************************************************************)
EXTENDS Integers, Sequences, FiniteSets

CONSTANTS
    Rows,           \* outbox rows that order handlers may create
    Pollers,        \* processes that run the cron, api and worker alike
    Workers,        \* processors of the queue
    MaxRetries,     \* WEBHOOK_MAX_RETRIES
    KeepFailed,     \* removeOnFail: how many failed jobs the queue keeps
    MaxResends,     \* bound on the manual resends of one row
    MayFail         \* a process may die, or the database fail, mid-job

ASSUME ConstantsAssumption ==
    /\ MaxRetries \in Nat \ {0}
    /\ KeepFailed \in Nat \ {0}
    /\ MaxResends \in Nat
    /\ MayFail \in BOOLEAN

VARIABLES
    row,            \* webhook_outbox, by id
    pending,        \* rows a poller has read and not enqueued yet
    job,            \* the job of each row, unless it has failed
    stalled,        \* rows whose job was already taken back from a dead worker
    kept,           \* failed jobs the queue keeps, oldest first
    worker,         \* the job each worker is in the middle of
    accepted,       \* rows the merchant answered with 2xx at least once
    posts,          \* number of POSTs of a row, counted up to MaxRetries
    undeliverable,  \* rows a worker gave up on: bad URL or signing key
    resends         \* manual resends of a row

queue == <<job, stalled, kept>>
history == <<accepted, posts, undeliverable, resends>>
vars == <<row, pending, queue, worker, history>>

-----------------------------------------------------------------------------
(* Rows, jobs and workers *)

WebhookOutboxStatus == {"NONE", "PENDING", "FAILED", "SENT", "DLQ"}

\* nextRetryAt: NULL, in the future, or past.
RetryTimes == {"never", "later", "due"}

OutboxRow == [status: WebhookOutboxStatus, attempts: Nat, nextRetryAt: RetryTimes]

NoRow == [status |-> "NONE", attempts |-> 0, nextRetryAt |-> "never"]

Idle == [phase |-> "idle"]

Delivery ==
    [phase: {"read", "accepted", "refused"}, row: Rows, attempts: Nat]

TypeOK ==
    /\ row \in [Rows -> OutboxRow]
    /\ pending \in [Pollers -> SUBSET Rows]
    /\ job \in [Rows -> {"none", "waiting", "active"}]
    /\ stalled \subseteq Rows
    /\ kept \in Seq(Rows)
    /\ Len(kept) <= KeepFailed
    /\ worker \in [Workers -> {Idle} \cup Delivery]
    /\ accepted \subseteq Rows
    /\ posts \in [Rows -> 0..MaxRetries]
    /\ undeliverable \subseteq Rows
    /\ resends \in [Rows -> 0..MaxResends]

Init ==
    /\ row = [r \in Rows |-> NoRow]
    /\ pending = [c \in Pollers |-> {}]
    /\ job = [r \in Rows |-> "none"]
    /\ stalled = {}
    /\ kept = <<>>
    /\ worker = [w \in Workers |-> Idle]
    /\ accepted = {}
    /\ posts = [r \in Rows |-> 0]
    /\ undeliverable = {}
    /\ resends = [r \in Rows |-> 0]

-----------------------------------------------------------------------------
(* Rows come from order handlers, and from the merchant's resend *)

\* createPayinWebhookEntry, createPayoutWebhookEntry and the administrative
\* override insert the row with the defaults of the schema: nextRetryAt is NULL.
CreateEntry(r) ==
    /\ row[r].status = "NONE"
    /\ row' = [row EXCEPT ![r].status = "PENDING"]
    /\ UNCHANGED <<pending, queue, worker, history>>

\* The row is open again, whatever its status; attempts are not reset.
Resend(r) ==
    /\ row[r].status # "NONE"
    /\ resends[r] < MaxResends
    /\ row' = [row EXCEPT ![r].status = "PENDING", ![r].nextRetryAt = "due"]
    /\ resends' = [resends EXCEPT ![r] = @ + 1]
    /\ UNCHANGED <<pending, queue, worker, accepted, posts, undeliverable>>

\* The delay before the next attempt is over.
RetryTimeComes(r) ==
    /\ row[r].nextRetryAt = "later"
    /\ row' = [row EXCEPT ![r].nextRetryAt = "due"]
    /\ UNCHANGED <<pending, queue, worker, history>>

-----------------------------------------------------------------------------
(* The poller *)

Due(r) == row[r].status \in {"PENDING", "FAILED"} /\ row[r].nextRetryAt = "due"

\* Mutant: the poll leaves failed rows out.
GetNewPending == {r \in Rows : Due(r) /\ row[r].status = "PENDING"}

GetOutboxPending == {r \in Rows : Due(r)}

Poll(c) ==
    /\ pending[c] = {}
    /\ GetOutboxPending # {}
    /\ pending' = [pending EXCEPT ![c] = GetOutboxPending]
    /\ UNCHANGED <<row, queue, worker, history>>

InQueue(r) == job[r] # "none" \/ \E i \in 1..Len(kept) : kept[i] = r

\* The list may be out of date by now: rows of it may be sent, or dead.
Enqueue(c, r) ==
    /\ r \in pending[c]
    /\ pending' = [pending EXCEPT ![c] = @ \ {r}]
    /\ job' = IF InQueue(r) THEN job ELSE [job EXCEPT ![r] = "waiting"]
    /\ UNCHANGED <<row, stalled, kept, worker, history>>

PollerDies(c) ==
    /\ MayFail
    /\ pending[c] # {}
    /\ pending' = [pending EXCEPT ![c] = {}]
    /\ UNCHANGED <<row, queue, worker, history>>

-----------------------------------------------------------------------------
(* The queue's side of a job *)

RemoveJob(r) ==
    /\ job' = [job EXCEPT ![r] = "none"]
    /\ stalled' = stalled \ {r}

\* removeOnComplete
CompleteJob(w) ==
    /\ RemoveJob(worker[w].row)
    /\ worker' = [worker EXCEPT ![w] = Idle]
    /\ UNCHANGED kept

\* removeOnFail: the job stays, until KeepFailed younger ones have failed.
FailJob(w) ==
    /\ RemoveJob(worker[w].row)
    /\ worker' = [worker EXCEPT ![w] = Idle]
    /\ kept' = Append(IF Len(kept) < KeepFailed THEN kept ELSE Tail(kept), worker[w].row)

-----------------------------------------------------------------------------
(* The worker *)

IsFinal(status) == status \in {"SENT", "DLQ"}

\* Mutant: a row is delivered whatever became of it since it was polled.
TakeAnything(w, r) ==
    /\ worker[w] = Idle
    /\ job[r] = "waiting"
    /\ job' = [job EXCEPT ![r] = "active"]
    /\ worker' = [worker EXCEPT
           ![w] = [phase |-> "read", row |-> r, attempts |-> row[r].attempts]]
    /\ UNCHANGED <<row, pending, stalled, kept, history>>

\* A worker starts a job and reads the row.
Take(w, r) ==
    /\ worker[w] = Idle
    /\ job[r] = "waiting"
    /\ ~IsFinal(row[r].status)
    /\ job' = [job EXCEPT ![r] = "active"]
    /\ worker' = [worker EXCEPT
           ![w] = [phase |-> "read", row |-> r, attempts |-> row[r].attempts]]
    /\ UNCHANGED <<row, pending, stalled, kept, history>>

\* The job of a row that is sent or dead by now is done at once.
SkipFinal(w, r) ==
    /\ worker[w] = Idle
    /\ job[r] = "waiting"
    /\ IsFinal(row[r].status)
    /\ RemoveJob(r)
    /\ UNCHANGED <<row, pending, kept, worker, history>>

\* The URL is not a public address any more, or the signing key does not decrypt.
DeadLetterUndeliverable(w) ==
    /\ worker[w].phase = "read"
    /\ row' = [row EXCEPT ![worker[w].row].status = "DLQ",
                          ![worker[w].row].attempts = worker[w].attempts + 1]
    /\ undeliverable' = undeliverable \cup {worker[w].row}
    /\ CompleteJob(w)
    /\ UNCHANGED <<pending, accepted, posts, resends>>

CountPost(r) == posts' = [posts EXCEPT ![r] = IF @ < MaxRetries THEN @ + 1 ELSE @]

\* The merchant answers with 2xx.
PostAccepted(w) ==
    /\ worker[w].phase = "read"
    /\ CountPost(worker[w].row)
    /\ accepted' = accepted \cup {worker[w].row}
    /\ worker' = [worker EXCEPT ![w].phase = "accepted"]
    /\ UNCHANGED <<row, pending, queue, undeliverable, resends>>

\* Another status, a timeout or no connection.
PostRefused(w) ==
    /\ worker[w].phase = "read"
    /\ CountPost(worker[w].row)
    /\ worker' = [worker EXCEPT ![w].phase = "refused"]
    /\ UNCHANGED <<row, pending, queue, accepted, undeliverable, resends>>

\* Mutant: the status of the answer is not looked at.
MarkAnySent(w) ==
    /\ worker[w].phase \in {"accepted", "refused"}
    /\ row' = [row EXCEPT ![worker[w].row].status = "SENT"]
    /\ CompleteJob(w)
    /\ UNCHANGED <<pending, history>>

MarkSent(w) ==
    /\ worker[w].phase = "accepted"
    /\ row' = [row EXCEPT ![worker[w].row].status = "SENT"]
    /\ CompleteJob(w)
    /\ UNCHANGED <<pending, history>>

\* An error while the log row or SENT is written is caught with the errors of
\* the POST itself: the attempt counts as refused.
AcceptedNotRecorded(w) ==
    /\ MayFail
    /\ worker[w].phase = "accepted"
    /\ worker' = [worker EXCEPT ![w].phase = "refused"]
    /\ UNCHANGED <<row, pending, queue, history>>

\* Mutant: the row is given up one attempt early.
LastAttemptEarly(n) == n + 2 >= MaxRetries

LastAttempt(n) == n + 1 >= MaxRetries

MarkDead(w) ==
    /\ worker[w].phase = "refused"
    /\ LastAttempt(worker[w].attempts)
    /\ row' = [row EXCEPT ![worker[w].row].status = "DLQ",
                          ![worker[w].row].attempts = worker[w].attempts + 1]
    /\ CompleteJob(w)
    /\ UNCHANGED <<pending, history>>

\* The row waits for its next attempt, and the job fails by throwing.
MarkFailed(w) ==
    /\ worker[w].phase = "refused"
    /\ ~LastAttempt(worker[w].attempts)
    /\ row' = [row EXCEPT ![worker[w].row] =
           [status |-> "FAILED", attempts |-> worker[w].attempts + 1, nextRetryAt |-> "later"]]
    /\ FailJob(w)
    /\ UNCHANGED <<pending, history>>

\* The database fails outside the caught part: the row stays as it is.
JobThrows(w) ==
    /\ MayFail
    /\ worker[w] # Idle
    /\ worker[w].phase # "accepted"
    /\ FailJob(w)
    /\ UNCHANGED <<row, pending, history>>

\* The queue gives a dead worker's job to another one, but only once.
WorkerDies(w) ==
    /\ MayFail
    /\ worker[w] # Idle
    /\ IF worker[w].row \in stalled
       THEN FailJob(w)
       ELSE /\ job' = [job EXCEPT ![worker[w].row] = "waiting"]
            /\ stalled' = stalled \cup {worker[w].row}
            /\ worker' = [worker EXCEPT ![w] = Idle]
            /\ UNCHANGED kept
    /\ UNCHANGED <<row, pending, history>>

-----------------------------------------------------------------------------
Run(w) ==
    \/ DeadLetterUndeliverable(w) \/ PostAccepted(w) \/ PostRefused(w)
    \/ MarkSent(w) \/ MarkDead(w) \/ MarkFailed(w)

Next ==
    \/ \E r \in Rows : CreateEntry(r) \/ Resend(r) \/ RetryTimeComes(r)
    \/ \E c \in Pollers :
          \/ Poll(c) \/ PollerDies(c)
          \/ \E r \in Rows : Enqueue(c, r)
    \/ \E w \in Workers :
          \/ \E r \in Rows : Take(w, r) \/ SkipFinal(w, r)
          \/ Run(w)
          \/ AcceptedNotRecorded(w) \/ JobThrows(w) \/ WorkerDies(w)

Spec == Init /\ [][Next]_vars

\* Time passes, the cron keeps firing and not every run of it dies before it has
\* enqueued a row, and a worker that is free takes a waiting job and gets on.
FairSpec ==
    /\ Spec
    /\ \A r \in Rows :
          /\ WF_vars(RetryTimeComes(r))
          /\ SF_vars(\E w \in Workers : Take(w, r) \/ SkipFinal(w, r))
          /\ \A c \in Pollers : SF_vars(Enqueue(c, r))
    /\ \A c \in Pollers : WF_vars(Poll(c))
    /\ \A w \in Workers : WF_vars(Run(w))

-----------------------------------------------------------------------------
(* Properties *)

\* A row shown as SENT was answered with 2xx: no failure in between, and no
\* other worker, marks a row that the merchant never took.
SentWasAccepted == \A r \in Rows : row[r].status = "SENT" => r \in accepted

\* A dead row was tried as often as promised, or cannot be delivered at all.
DeadWasTried ==
    \A r \in Rows :
        row[r].status = "DLQ" => r \in undeliverable \/ posts[r] = MaxRetries

\* Once sent or dead, a row is opened again by a resend only, though pollers and
\* workers act on copies of it.
FinalUntilResent ==
    [][\A r \in Rows :
          IsFinal(row[r].status) /\ row'[r].status # row[r].status
              => resends'[r] > resends[r]]_vars

\* A due row is attempted, unless its failed job is still in the queue.
DueIsAttempted ==
    \A r \in Rows : Due(r) ~> ~Due(r) \/ (job[r] = "none" /\ InQueue(r))

\* Every row gets out of PENDING: the merchant hears of every status change, or
\* the row is dead.
EveryChangeIsAnnounced ==
    \A r \in Rows : row[r].status = "PENDING" ~> row[r].status # "PENDING"

\* A failed delivery is tried again.
FailedIsRetried ==
    \A r \in Rows : row[r].status = "FAILED" ~> row[r].status # "FAILED"
=============================================================================
