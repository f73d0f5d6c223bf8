------------------------- MODULE WebhookOutboxProofs -------------------------
(***************************************************************************)
(* Theorems about WebhookOutbox for any number of rows, pollers, workers,  *)
(* retries and kept jobs.  What a worker writes comes from a copy of the   *)
(* row; it is safe because the one job a row may have in the queue keeps   *)
(* every other worker away, and a resend only ever opens the row.          *)
(***************************************************************************)
EXTENDS WebhookOutbox, TLAPS

-----------------------------------------------------------------------------
(* The inductive invariant *)

\* Row r was posted at least n times, or as often as anybody asks for.
Posted(r, n) == r \in undeliverable \/ posts[r] = MaxRetries \/ n <= posts[r]

\* What a worker in the middle of delivery d relies on: its job is the row's job,
\* the row is still open, and its copy does not claim more attempts than were made.
DeliveryOK(d) ==
    /\ job[d.row] = "active"
    /\ ~IsFinal(row[d.row].status)
    /\ d.phase = "read" => Posted(d.row, d.attempts)
    /\ d.phase = "accepted" => d.row \in accepted
    /\ d.phase # "read" => Posted(d.row, d.attempts + 1)

Busy(w) == worker[w] # Idle

DeliveriesOK == \A w \in Workers : Busy(w) => DeliveryOK(worker[w])

OneWorkerPerRow ==
    \A w, x \in Workers :
        Busy(w) /\ Busy(x) /\ worker[w].row = worker[x].row => w = x

RowsOK ==
    \A r \in Rows :
        /\ Posted(r, row[r].attempts)
        /\ row[r].status = "SENT" => r \in accepted
        /\ row[r].status = "DLQ" => r \in undeliverable \/ posts[r] = MaxRetries

IInv == TypeOK /\ DeliveriesOK /\ OneWorkerPerRow /\ RowsOK

\* Who ends a final status.
OnlyResendReopens ==
    \A r \in Rows :
        IsFinal(row[r].status) /\ row'[r].status # row[r].status
            => resends'[r] > resends[r]

-----------------------------------------------------------------------------
(* Facts about workers and the queue *)

\* A worker in a phase of a delivery is busy with a row.
LEMMA BusyWorker ==
    ASSUME TypeOK, NEW w \in Workers,
           Busy(w) \/ worker[w].phase \in {"read", "accepted", "refused"}
    PROVE  worker[w] \in Delivery /\ Busy(w) /\ worker[w].row \in Rows
  BY DEF TypeOK, Busy, Idle, Delivery

\* A failed job joins the kept ones, which stay within their bound.
LEMMA FailJobStep ==
    ASSUME TypeOK, NEW w \in Workers, Busy(w), FailJob(w)
    PROVE  /\ kept' \in Seq(Rows)
           /\ Len(kept') <= KeepFailed
           /\ job' = [job EXCEPT ![worker[w].row] = "none"]
           /\ stalled' \subseteq Rows
           /\ worker' = [worker EXCEPT ![w] = Idle]
<1> DEFINE older == IF Len(kept) < KeepFailed THEN kept ELSE Tail(kept)
<1>1. worker[w].row \in Rows
  BY BusyWorker
<1>2. /\ kept \in Seq(Rows) /\ Len(kept) \in Nat
      /\ Len(kept) <= KeepFailed /\ KeepFailed \in Nat \ {0}
  BY ConstantsAssumption DEF TypeOK
<1>3. CASE Len(kept) < KeepFailed
  <2>1. older = kept
    BY <1>3
  <2>2. kept' = Append(kept, worker[w].row)
    BY <2>1 DEF FailJob
  <2>3. kept' \in Seq(Rows) /\ Len(kept') = Len(kept) + 1
    BY <1>1, <1>2, <2>2
  <2> QED BY <1>2, <1>3, <2>3 DEF FailJob, RemoveJob, TypeOK
<1>4. CASE ~(Len(kept) < KeepFailed)
  <2>1. kept # <<>>
    BY <1>2, <1>4
  <2>2. Tail(kept) \in Seq(Rows) /\ Len(Tail(kept)) = Len(kept) - 1
    BY <1>2, <2>1
  <2>3. kept' = Append(Tail(kept), worker[w].row)
    BY <1>4 DEF FailJob
  <2>4. kept' \in Seq(Rows) /\ Len(kept') = Len(kept)
    BY <1>1, <1>2, <2>2, <2>3
  <2> QED BY <1>2, <2>4 DEF FailJob, RemoveJob, TypeOK
<1> QED BY <1>3, <1>4

LEMMA CompleteJobStep ==
    ASSUME TypeOK, NEW w \in Workers, Busy(w), CompleteJob(w)
    PROVE  /\ job' = [job EXCEPT ![worker[w].row] = "none"]
           /\ stalled' \subseteq Rows
           /\ worker' = [worker EXCEPT ![w] = Idle]
           /\ kept' = kept
  BY DEF CompleteJob, RemoveJob, TypeOK

\* A step that ends the delivery of worker w and touches no row but its own leaves
\* the other deliveries as they are.
LEMMA EndOfDelivery ==
    ASSUME IInv, NEW w \in Workers, Busy(w),
           worker' = [worker EXCEPT ![w] = Idle],
           \A r \in Rows \ {worker[w].row} : row'[r] = row[r] /\ job'[r] = job[r],
           accepted' = accepted, posts' = posts, undeliverable \subseteq undeliverable'
    PROVE  DeliveriesOK' /\ OneWorkerPerRow'
<1>1. \A x \in Workers : Busy(x)' => x # w /\ worker'[x] = worker[x] /\ Busy(x)
  BY DEF IInv, TypeOK, Busy
<1>2. \A x \in Workers : Busy(x) => worker[x].row \in Rows
  BY BusyWorker DEF IInv
<1>3. OneWorkerPerRow'
  BY <1>1 DEF IInv, OneWorkerPerRow
<1>4. ASSUME NEW x \in Workers, Busy(x)'
      PROVE  DeliveryOK(worker[x])'
  <2>1. x # w /\ worker'[x] = worker[x] /\ Busy(x)
    BY <1>1, <1>4
  <2>2. worker[x].row \in Rows \ {worker[w].row}
    BY <1>2, <2>1 DEF IInv, OneWorkerPerRow
  <2>3. DeliveryOK(worker[x])
    BY <2>1 DEF IInv, DeliveriesOK
  <2> QED BY <2>1, <2>2, <2>3 DEF DeliveryOK, Posted
<1> QED BY <1>3, <1>4 DEF DeliveriesOK

-----------------------------------------------------------------------------
(* Rows and pollers *)

LEMMA CreateEntryKeeps ==
    ASSUME IInv, NEW r \in Rows, CreateEntry(r)
    PROVE  IInv' /\ OnlyResendReopens
<1>1. row' = [row EXCEPT ![r].status = "PENDING"] /\ row[r].status = "NONE"
  BY DEF CreateEntry
<1>2. /\ row' \in [Rows -> OutboxRow]
      /\ row'[r].status = "PENDING" /\ row'[r].attempts = row[r].attempts
      /\ \A x \in Rows \ {r} : row'[x] = row[x]
  BY <1>1 DEF IInv, TypeOK, OutboxRow, WebhookOutboxStatus
<1>3. TypeOK'
  BY <1>2 DEF IInv, TypeOK, CreateEntry, queue, history
<1>4. DeliveriesOK'
  BY <1>2, BusyWorker
     DEF IInv, DeliveriesOK, DeliveryOK, Posted, Busy, IsFinal, CreateEntry, queue, history
<1>5. OneWorkerPerRow' /\ RowsOK'
  BY <1>2 DEF IInv, OneWorkerPerRow, RowsOK, Posted, Busy, CreateEntry, queue, history
<1> QED BY <1>1, <1>2, <1>3, <1>4, <1>5 DEF IInv, OnlyResendReopens, IsFinal

LEMMA ResendKeeps ==
    ASSUME IInv, NEW r \in Rows, Resend(r)
    PROVE  IInv' /\ OnlyResendReopens
<1>1. row' = [row EXCEPT ![r].status = "PENDING", ![r].nextRetryAt = "due"]
  BY DEF Resend
<1>2. /\ row' \in [Rows -> OutboxRow]
      /\ row'[r].status = "PENDING" /\ row'[r].attempts = row[r].attempts
      /\ \A x \in Rows \ {r} : row'[x] = row[x]
  BY <1>1 DEF IInv, TypeOK, OutboxRow, WebhookOutboxStatus, RetryTimes
<1>3. /\ resends' \in [Rows -> 0..MaxResends]
      /\ resends'[r] > resends[r]
  BY ConstantsAssumption DEF IInv, TypeOK, Resend
<1>4. TypeOK'
  BY <1>2, <1>3 DEF IInv, TypeOK, Resend, queue
<1>5. DeliveriesOK'
  BY <1>2, BusyWorker
     DEF IInv, DeliveriesOK, DeliveryOK, Posted, Busy, IsFinal, Resend, queue
<1>6. OneWorkerPerRow' /\ RowsOK'
  BY <1>2 DEF IInv, OneWorkerPerRow, RowsOK, Posted, Busy, Resend, queue
<1> QED BY <1>2, <1>3, <1>4, <1>5, <1>6 DEF IInv, OnlyResendReopens

LEMMA RetryTimeComesKeeps ==
    ASSUME IInv, NEW r \in Rows, RetryTimeComes(r)
    PROVE  IInv' /\ OnlyResendReopens
<1>1. row' = [row EXCEPT ![r].nextRetryAt = "due"]
  BY DEF RetryTimeComes
<1>2. /\ row' \in [Rows -> OutboxRow]
      /\ \A x \in Rows : row'[x].status = row[x].status /\ row'[x].attempts = row[x].attempts
  BY <1>1 DEF IInv, TypeOK, OutboxRow, RetryTimes
<1>3. TypeOK'
  BY <1>2 DEF IInv, TypeOK, RetryTimeComes, queue, history
<1>4. DeliveriesOK'
  BY <1>2, BusyWorker
     DEF IInv, DeliveriesOK, DeliveryOK, Posted, Busy, RetryTimeComes, queue, history
<1>5. OneWorkerPerRow' /\ RowsOK'
  BY <1>2 DEF IInv, OneWorkerPerRow, RowsOK, Posted, Busy, RetryTimeComes, queue, history
<1> QED BY <1>2, <1>3, <1>4, <1>5 DEF IInv, OnlyResendReopens

\* The poller writes its list and new jobs, which no worker holds.
LEMMA PollerKeeps ==
    ASSUME IInv, NEW c \in Pollers,
           Poll(c) \/ PollerDies(c) \/ \E r \in Rows : Enqueue(c, r)
    PROVE  IInv' /\ OnlyResendReopens
<1>1. CASE Poll(c)
  <2>1. TypeOK'
    BY <1>1 DEF IInv, TypeOK, Poll, GetOutboxPending, queue, history
  <2> QED BY <1>1, <2>1 DEF IInv, DeliveriesOK, DeliveryOK, OneWorkerPerRow, RowsOK,
               Posted, Busy, Poll, queue, history, OnlyResendReopens
<1>2. CASE PollerDies(c)
  <2>1. TypeOK'
    BY <1>2 DEF IInv, TypeOK, PollerDies, queue, history
  <2> QED BY <1>2, <2>1 DEF IInv, DeliveriesOK, DeliveryOK, OneWorkerPerRow, RowsOK,
               Posted, Busy, PollerDies, queue, history, OnlyResendReopens
<1>3. ASSUME NEW r \in Rows, Enqueue(c, r)
      PROVE  IInv' /\ OnlyResendReopens
  <2>1. /\ job' \in [Rows -> {"none", "waiting", "active"}]
        /\ \A x \in Rows : job[x] = "active" => job'[x] = "active"
    BY <1>3 DEF IInv, TypeOK, Enqueue, InQueue
  <2>2. TypeOK'
    BY <1>3, <2>1 DEF IInv, TypeOK, Enqueue, history
  <2>3. DeliveriesOK'
    BY <1>3, <2>1, BusyWorker
       DEF IInv, DeliveriesOK, DeliveryOK, Posted, Busy, Enqueue, history
  <2> QED BY <1>3, <2>2, <2>3 DEF IInv, OneWorkerPerRow, RowsOK, Posted, Busy, Enqueue,
               history, OnlyResendReopens
<1> QED BY <1>1, <1>2, <1>3

-----------------------------------------------------------------------------
(* Workers *)

\* A waiting job has no worker, so the one that takes it is alone with the row.
LEMMA TakeKeeps ==
    ASSUME IInv, NEW w \in Workers, NEW r \in Rows, Take(w, r)
    PROVE  IInv' /\ OnlyResendReopens
<1> DEFINE d == [phase |-> "read", row |-> r, attempts |-> row[r].attempts]
<1>1. /\ worker' = [worker EXCEPT ![w] = d]
      /\ job' = [job EXCEPT ![r] = "active"]
      /\ job[r] = "waiting" /\ ~IsFinal(row[r].status)
      /\ UNCHANGED <<row, pending, stalled, kept, accepted, posts, undeliverable, resends>>
  BY DEF Take, history
<1>2. d \in Delivery
  BY DEF IInv, TypeOK, OutboxRow, Delivery
<1>3. TypeOK'
  BY <1>1, <1>2 DEF IInv, TypeOK
<1>4. \A x \in Workers : Busy(x) => worker[x].row # r
  BY <1>1 DEF IInv, DeliveriesOK, DeliveryOK
<1>5. worker'[w] = d /\ \A x \in Workers \ {w} : worker'[x] = worker[x]
  BY <1>1 DEF IInv, TypeOK
<1>6. OneWorkerPerRow'
  BY <1>4, <1>5 DEF IInv, OneWorkerPerRow, Busy
<1>7. DeliveryOK(worker[w])'
  BY <1>1, <1>5 DEF IInv, TypeOK, RowsOK, DeliveryOK, Posted
<1>8. ASSUME NEW x \in Workers \ {w}, Busy(x)
      PROVE  DeliveryOK(worker[x])'
  <2>1. worker[x].row \in Rows \ {r} /\ DeliveryOK(worker[x])
    BY <1>4, <1>8, BusyWorker DEF IInv, DeliveriesOK
  <2>2. worker'[x] = worker[x] /\ job'[worker[x].row] = job[worker[x].row]
    BY <1>1, <1>5, <2>1 DEF IInv, TypeOK
  <2> QED BY <1>1, <2>1, <2>2 DEF DeliveryOK, Posted
<1>9. DeliveriesOK'
  BY <1>5, <1>7, <1>8 DEF DeliveriesOK, Busy
<1>10. RowsOK' /\ OnlyResendReopens
  BY <1>1 DEF IInv, RowsOK, Posted, OnlyResendReopens
<1> QED BY <1>3, <1>6, <1>9, <1>10 DEF IInv

LEMMA SkipFinalKeeps ==
    ASSUME IInv, NEW w \in Workers, NEW r \in Rows, SkipFinal(w, r)
    PROVE  IInv' /\ OnlyResendReopens
<1>1. /\ job' = [job EXCEPT ![r] = "none"] /\ job[r] = "waiting"
      /\ stalled' \subseteq Rows
      /\ UNCHANGED <<row, pending, kept, worker, accepted, posts, undeliverable, resends>>
  BY DEF IInv, TypeOK, SkipFinal, RemoveJob, history
<1>2. TypeOK'
  BY <1>1 DEF IInv, TypeOK
<1>3. \A x \in Workers : Busy(x) => worker[x].row # r
  BY <1>1 DEF IInv, DeliveriesOK, DeliveryOK
<1>4. DeliveriesOK'
  BY <1>1, <1>3, BusyWorker DEF IInv, TypeOK, DeliveriesOK, DeliveryOK, Posted, Busy
<1> QED BY <1>1, <1>2, <1>4 DEF IInv, OneWorkerPerRow, RowsOK, Posted, Busy, OnlyResendReopens

\* The merchant answers, or the answer is lost on its way to the row: the delivery
\* of one worker changes its phase.
LEMMA AnswerKeeps ==
    ASSUME IInv, NEW w \in Workers,
           PostAccepted(w) \/ PostRefused(w) \/ AcceptedNotRecorded(w)
    PROVE  IInv' /\ OnlyResendReopens
<1> DEFINE r == worker[w].row
           phase == IF PostAccepted(w) THEN "accepted" ELSE "refused"
<1>1. worker[w] \in Delivery /\ Busy(w) /\ r \in Rows
  BY BusyWorker DEF IInv, PostAccepted, PostRefused, AcceptedNotRecorded
<1>2. /\ worker' = [worker EXCEPT ![w].phase = phase]
      /\ UNCHANGED <<row, pending, job, stalled, kept, undeliverable, resends>>
  BY DEF PostAccepted, PostRefused, AcceptedNotRecorded, queue, history
<1>3. /\ worker'[w] \in Delivery /\ worker'[w] # Idle
      /\ worker'[w].row = r /\ worker'[w].attempts = worker[w].attempts
      /\ worker'[w].phase = phase
      /\ \A x \in Workers \ {w} : worker'[x] = worker[x]
  BY <1>1, <1>2 DEF IInv, TypeOK, Delivery, Idle
<1>4. worker' \in [Workers -> {Idle} \cup Delivery]
  BY <1>2, <1>3 DEF IInv, TypeOK
<1>5. accepted \subseteq accepted' /\ accepted' \subseteq Rows
  BY <1>1 DEF IInv, TypeOK, PostAccepted, PostRefused, AcceptedNotRecorded, history
<1>6. /\ posts' \in [Rows -> 0..MaxRetries]
      /\ \A x \in Rows : posts'[x] >= posts[x]
      /\ ~AcceptedNotRecorded(w) => posts'[r] = MaxRetries \/ posts'[r] = posts[r] + 1
  <2>1. posts \in [Rows -> 0..MaxRetries] /\ MaxRetries \in Nat \ {0}
    BY ConstantsAssumption DEF IInv, TypeOK
  <2>2. CASE CountPost(r)
    <3>1. posts' = [posts EXCEPT ![r] = IF posts[r] < MaxRetries THEN posts[r] + 1 ELSE posts[r]]
      BY <2>2 DEF CountPost
    <3> QED BY <1>1, <2>1, <3>1
  <2>3. CASE ~CountPost(r)
    <3>1. AcceptedNotRecorded(w) /\ posts' = posts
      BY <2>3 DEF PostAccepted, PostRefused, AcceptedNotRecorded, history
    <3> QED BY <2>1, <3>1
  <2> QED BY <2>2, <2>3
<1>7. TypeOK'
  BY <1>2, <1>4, <1>5, <1>6 DEF IInv, TypeOK
<1>8. \A x \in Rows, n \in Nat : Posted(x, n) => Posted(x, n)'
  BY <1>2, <1>6, ConstantsAssumption DEF IInv, TypeOK, Posted
<1>9. DeliveryOK(worker[w])'
  <2>1. DeliveryOK(worker[w]) /\ worker[w].attempts \in Nat
    BY <1>1 DEF IInv, DeliveriesOK, Delivery
  <2>2. Posted(r, worker[w].attempts + 1)'
    <3>1. CASE AcceptedNotRecorded(w)
      BY <1>1, <1>8, <2>1, <3>1 DEF DeliveryOK, AcceptedNotRecorded
    <3>2. CASE ~AcceptedNotRecorded(w)
      <4>1. Posted(r, worker[w].attempts)
        BY <2>1, <3>2 DEF DeliveryOK, PostAccepted, PostRefused
      <4> QED BY <1>1, <1>2, <1>6, <2>1, <3>2, <4>1, ConstantsAssumption
                DEF IInv, TypeOK, Posted
    <3> QED BY <3>1, <3>2
  <2>3. phase = "accepted" => r \in accepted'
    BY DEF PostAccepted
  <2> QED BY <1>2, <1>3, <2>1, <2>2, <2>3 DEF DeliveryOK
<1>10. ASSUME NEW x \in Workers \ {w}, Busy(x)
       PROVE  DeliveryOK(worker[x])'
  <2>1. DeliveryOK(worker[x]) /\ worker[x] \in Delivery
    BY <1>10, BusyWorker DEF IInv, DeliveriesOK
  <2>2. worker[x].row \in Rows /\ worker[x].attempts \in Nat /\ worker'[x] = worker[x]
    BY <1>3, <2>1 DEF Delivery
  <2> QED BY <1>2, <1>5, <1>8, <2>1, <2>2 DEF DeliveryOK
<1>11. DeliveriesOK' /\ OneWorkerPerRow'
  BY <1>1, <1>3, <1>9, <1>10 DEF IInv, DeliveriesOK, OneWorkerPerRow, Busy
<1>12. RowsOK'
  <2>1. \A x \in Rows : Posted(x, row[x].attempts)' /\ row[x].attempts \in Nat
    BY <1>2, <1>8 DEF IInv, TypeOK, RowsOK, OutboxRow
  <2>2. \A x \in Rows : posts[x] = MaxRetries => posts'[x] = MaxRetries
    BY <1>6, ConstantsAssumption DEF IInv, TypeOK
  <2> QED BY <1>2, <1>5, <2>1, <2>2 DEF IInv, RowsOK
<1> QED BY <1>2, <1>7, <1>11, <1>12 DEF IInv, OnlyResendReopens

\* The delivery ends, and the row gets the outcome and at most one more attempt.
LEMMA EndKeeps ==
    ASSUME IInv, NEW w \in Workers,
           \/ DeadLetterUndeliverable(w) \/ MarkSent(w) \/ MarkDead(w) \/ MarkFailed(w)
    PROVE  IInv' /\ OnlyResendReopens
<1>1. worker[w] \in Delivery /\ Busy(w)
  BY BusyWorker DEF IInv, DeadLetterUndeliverable, MarkSent, MarkDead, MarkFailed
<1> PICK r \in Rows, n \in Nat : r = worker[w].row /\ n = worker[w].attempts
  BY <1>1 DEF Delivery
<1>2. DeliveryOK(worker[w])
  BY <1>1 DEF IInv, DeliveriesOK
<1>3. /\ job' = [job EXCEPT ![r] = "none"]
      /\ stalled' \subseteq Rows
      /\ worker' = [worker EXCEPT ![w] = Idle]
      /\ kept' \in Seq(Rows) /\ Len(kept') <= KeepFailed
      /\ UNCHANGED <<pending, accepted, posts, resends>>
      /\ undeliverable \subseteq undeliverable' /\ undeliverable' \subseteq Rows
  <2>1. CASE MarkFailed(w)
    BY <1>1, <2>1, FailJobStep DEF IInv, TypeOK, MarkFailed, history
  <2>2. CASE ~MarkFailed(w)
    BY <1>1, <2>2, CompleteJobStep
       DEF IInv, TypeOK, DeadLetterUndeliverable, MarkSent, MarkDead, history
  <2> QED BY <2>1, <2>2
<1>4. /\ row' \in [Rows -> OutboxRow]
      /\ \A x \in Rows \ {r} : row'[x] = row[x]
  <2>1. CASE DeadLetterUndeliverable(w) \/ MarkDead(w)
    <3>1. row' = [row EXCEPT ![r].status = "DLQ", ![r].attempts = n + 1]
      BY <2>1 DEF DeadLetterUndeliverable, MarkDead
    <3>2. n + 1 \in Nat /\ row \in [Rows -> OutboxRow]
      BY DEF IInv, TypeOK
    <3> QED BY <3>1, <3>2 DEF OutboxRow, WebhookOutboxStatus
  <2>2. CASE MarkSent(w)
    BY <2>2 DEF IInv, TypeOK, OutboxRow, WebhookOutboxStatus, MarkSent
  <2>3. CASE MarkFailed(w)
    BY <2>3 DEF IInv, TypeOK, OutboxRow, WebhookOutboxStatus, RetryTimes, MarkFailed
  <2> QED BY <2>1, <2>2, <2>3
<1>5. TypeOK'
  BY <1>1, <1>3, <1>4 DEF IInv, TypeOK, Idle
<1>6. DeliveriesOK' /\ OneWorkerPerRow'
  BY <1>1, <1>3, <1>4, EndOfDelivery DEF IInv, TypeOK
<1>7. /\ Posted(r, row[r].attempts)'
      /\ row'[r].status = "SENT" => r \in accepted
      /\ row'[r].status = "DLQ" => r \in undeliverable' \/ posts[r] = MaxRetries
  <2>1. row[r] \in OutboxRow
    BY <1>1 DEF IInv, TypeOK
  <2>2. CASE DeadLetterUndeliverable(w)
    <3>1. row'[r].status = "DLQ" /\ r \in undeliverable'
      BY <1>1, <2>1, <2>2 DEF IInv, TypeOK, OutboxRow, DeadLetterUndeliverable
    <3> QED BY <3>1 DEF Posted
  <2>3. CASE MarkSent(w)
    <3>1. row'[r].status = "SENT" /\ row'[r].attempts = row[r].attempts
      BY <1>1, <2>1, <2>3 DEF IInv, TypeOK, OutboxRow, MarkSent
    <3> QED BY <1>1, <1>2, <1>3, <2>3, <3>1 DEF IInv, RowsOK, DeliveryOK, MarkSent, Posted
  <2>4. CASE MarkDead(w)
    <3>1. /\ row'[r].attempts = n + 1 /\ row'[r].status = "DLQ"
          /\ n + 1 >= MaxRetries
      BY <1>1, <2>1, <2>4 DEF IInv, TypeOK, OutboxRow, MarkDead, LastAttempt
    <3>2. Posted(r, n + 1)
      BY <1>2, <2>4 DEF DeliveryOK, MarkDead
    <3>3. posts[r] \in 0..MaxRetries
      BY <1>1 DEF IInv, TypeOK
    <3>4. Posted(r, n + 1)'
      BY <1>3, <3>2 DEF Posted
    <3>5. r \in undeliverable' \/ posts[r] = MaxRetries
      BY <1>1, <1>3, <3>1, <3>2, <3>3, ConstantsAssumption DEF Posted
    <3> QED BY <1>3, <3>1, <3>4, <3>5 DEF Posted
  <2>5. CASE MarkFailed(w)
    <3>1. row'[r].status = "FAILED" /\ row'[r].attempts = n + 1
      BY <1>1, <2>5 DEF IInv, TypeOK, MarkFailed
    <3> QED BY <1>2, <1>3, <2>5, <3>1 DEF DeliveryOK, MarkFailed, Posted
  <2> QED BY <2>2, <2>3, <2>4, <2>5
<1>8. RowsOK'
  BY <1>3, <1>4, <1>7 DEF IInv, RowsOK, Posted
<1>9. OnlyResendReopens
  BY <1>2, <1>4 DEF DeliveryOK, OnlyResendReopens
<1> QED BY <1>5, <1>6, <1>8, <1>9 DEF IInv

\* The job ends without a word about the row.
LEMMA FailureKeeps ==
    ASSUME IInv, NEW w \in Workers, JobThrows(w) \/ WorkerDies(w)
    PROVE  IInv' /\ OnlyResendReopens
<1> DEFINE r == worker[w].row
<1>1. Busy(w) /\ r \in Rows
  BY BusyWorker DEF IInv, JobThrows, WorkerDies, Busy
<1>2. UNCHANGED <<row, pending, accepted, posts, undeliverable, resends>>
  BY DEF JobThrows, WorkerDies, history
<1>3. /\ \E s \in {"none", "waiting"} : job' = [job EXCEPT ![r] = s]
      /\ stalled' \subseteq Rows
      /\ worker' = [worker EXCEPT ![w] = Idle]
      /\ kept' \in Seq(Rows) /\ Len(kept') <= KeepFailed
  <2>1. CASE FailJob(w)
    BY <1>1, <2>1, FailJobStep DEF IInv
  <2>2. CASE ~FailJob(w)
    BY <1>1, <2>2 DEF IInv, TypeOK, JobThrows, WorkerDies
  <2> QED BY <2>1, <2>2
<1>4. TypeOK'
  BY <1>1, <1>2, <1>3 DEF IInv, TypeOK, Idle
<1>5. DeliveriesOK' /\ OneWorkerPerRow'
  BY <1>1, <1>2, <1>3, EndOfDelivery DEF IInv, TypeOK
<1> QED BY <1>2, <1>4, <1>5 DEF IInv, RowsOK, Posted, OnlyResendReopens

-----------------------------------------------------------------------------
LEMMA InitInv == Init => IInv
<1> SUFFICES ASSUME Init PROVE IInv
  OBVIOUS
<1>1. TypeOK
  BY ConstantsAssumption
     DEF Init, TypeOK, NoRow, OutboxRow, WebhookOutboxStatus, RetryTimes
<1>2. RowsOK
  BY DEF Init, RowsOK, NoRow, Posted
<1> QED BY <1>1, <1>2 DEF Init, IInv, DeliveriesOK, OneWorkerPerRow, Busy

LEMMA NextInv == IInv /\ [Next]_vars => IInv' /\ [OnlyResendReopens]_vars
<1> SUFFICES ASSUME IInv, [Next]_vars PROVE IInv' /\ [OnlyResendReopens]_vars
  OBVIOUS
<1>1. ASSUME NEW r \in Rows, CreateEntry(r) \/ Resend(r) \/ RetryTimeComes(r)
      PROVE  IInv' /\ OnlyResendReopens
  BY <1>1, CreateEntryKeeps, ResendKeeps, RetryTimeComesKeeps
<1>2. ASSUME NEW c \in Pollers, Poll(c) \/ PollerDies(c) \/ \E r \in Rows : Enqueue(c, r)
      PROVE  IInv' /\ OnlyResendReopens
  BY <1>2, PollerKeeps
<1>3. ASSUME NEW w \in Workers, NEW r \in Rows, Take(w, r) \/ SkipFinal(w, r)
      PROVE  IInv' /\ OnlyResendReopens
  BY <1>3, TakeKeeps, SkipFinalKeeps
<1>4. ASSUME NEW w \in Workers,
             Run(w) \/ AcceptedNotRecorded(w) \/ JobThrows(w) \/ WorkerDies(w)
      PROVE  IInv' /\ OnlyResendReopens
  BY <1>4, AnswerKeeps, EndKeeps, FailureKeeps DEF Run
<1>5. CASE UNCHANGED vars
  BY <1>5 DEF IInv, TypeOK, DeliveriesOK, DeliveryOK, OneWorkerPerRow, RowsOK, Posted,
              Busy, vars, queue, history
<1> QED BY <1>1, <1>2, <1>3, <1>4, <1>5 DEF Next

-----------------------------------------------------------------------------
(* The theorems *)

\* The inductive invariant holds in every reachable state.
THEOREM Invariance == Spec => []IInv
<1>1. IInv /\ [Next]_vars => IInv'
  BY NextInv
<1> QED BY <1>1, InitInv, PTL DEF Spec

\* Rows, jobs and deliveries keep their types; the queue keeps no more failed jobs
\* than removeOnFail says.
THEOREM TypeCorrect == Spec => []TypeOK
<1>1. IInv => TypeOK
  BY DEF IInv
<1> QED BY <1>1, Invariance, PTL

\* At most one worker delivers a row at a time, though nothing locks the row.
THEOREM OneDelivery == Spec => []OneWorkerPerRow
<1>1. IInv => OneWorkerPerRow
  BY DEF IInv
<1> QED BY <1>1, Invariance, PTL

\* Every row marked SENT was answered with 2xx.
THEOREM SentAccepted == Spec => []SentWasAccepted
<1>1. IInv => SentWasAccepted
  BY DEF IInv, RowsOK, SentWasAccepted
<1> QED BY <1>1, Invariance, PTL

\* A row is given up only after MaxRetries attempts, or as undeliverable.
THEOREM DeadTried == Spec => []DeadWasTried
<1>1. IInv => DeadWasTried
  BY DEF IInv, RowsOK, DeadWasTried
<1> QED BY <1>1, Invariance, PTL

\* Only a resend reopens a row that is sent or dead.
THEOREM FinalStays == Spec => FinalUntilResent
<1>1. IInv /\ [Next]_vars => [OnlyResendReopens]_vars
  BY NextInv
<1> QED BY <1>1, Invariance, PTL DEF Spec, FinalUntilResent, OnlyResendReopens
=============================================================================
