------------------------------- MODULE JobQueue -------------------------------
(***************************************************************************)
(* The hydration job queue: backend/redisx/queue.py (a Redis stream with a *)
(* consumer group, mirrored to a table), backend/jobs/queue_worker.py (the *)
(* workers) and backend/ops/handlers/hydration_handler.py (the handler and *)
(* its workspace lock).                                                    *)
(*                                                                         *)
(* _handle_entry is cut where it talks to Redis or commits: between two    *)
(* such calls other workers may run and the worker may be interrupted.     *)
(* The stream is never trimmed, so an entry id is its index.  An entry     *)
(* carries nothing a worker uses but its job.                              *)
(***************************************************************************)
EXTENDS Integers, Sequences, FiniteSets

CONSTANTS
    Jobs,
    Workers,        \* queue_worker processes
    Workspaces,
    WorkspaceOf,    \* payload["workspace_id"] of each job
    Unsupported,    \* jobs whose job_type is not "hydration"
    Scheduler,      \* jobs/hydration_worker.py, which takes the same locks
    Free,           \* no owner
    Orphan,         \* the token of a process that will never release it
    MaxAttempts,    \* MAX_ATTEMPTS
    BatchSize,      \* count=10 of claim and read
    MaxEntries,     \* bound: entries ever added to the stream
    MaxFaults       \* bound: interruptions and failed calls

ASSUME ConstantsAssumption ==
    /\ WorkspaceOf \in [Jobs -> Workspaces]
    /\ Unsupported \subseteq Jobs
    /\ {Free, Orphan, Scheduler} \cap Workers = {}
    /\ Free # Orphan /\ Free # Scheduler /\ Orphan # Scheduler
    /\ MaxAttempts \in Nat \ {0}
    /\ BatchSize \in Nat \ {0}
    /\ MaxEntries \in Nat /\ MaxFaults \in Nat

VARIABLES
    stream,     \* jobs:main, the job of each entry
    delivered,  \* last entry the group "workers" has delivered
    pel,        \* delivered entries that are not acknowledged
    idle,       \* those pending for a minute since their last delivery
    dlq,        \* jobs:dlq
    call,       \* where the enqueue call of each job is
    status,     \* background_jobs.status, "none" without a row
    attempts,   \* background_jobs.attempts
    pc,         \* where each worker is
    batch,      \* entries a worker has fetched and not yet looked at
    cur,        \* the entry it is handling, 0 if none
    seen,       \* status in the worker's session, as last read
    seenAttempts,
    lock,       \* owner of lock:workspace:{id}:hydration
    token,      \* what acquire gave the worker; "lapsed" is "held" run out
    dropped,    \* history: jobs interrupted when no entry could bring them back
    faults

queueVars == <<stream, delivered, pel, idle, dlq>>
rowVars == <<status, attempts>>
sessionVars == <<seen, seenAttempts>>
lockVars == <<lock, token>>
vars == <<queueVars, call, rowVars, pc, batch, cur, sessionVars, lockVars,
          dropped, faults>>

Terminal == {"success", "dlq"}
Statuses == {"none", "queued", "running", "failed"} \cup Terminal
Entries == 1 .. Len(stream)

Init ==
    /\ stream = <<>> /\ delivered = 0 /\ pel = {} /\ idle = {} /\ dlq = <<>>
    /\ call = [j \in Jobs |-> "new"]
    /\ status = [j \in Jobs |-> "none"] /\ attempts = [j \in Jobs |-> 0]
    /\ pc = [w \in Workers |-> "claim"]
    /\ batch = [w \in Workers |-> {}] /\ cur = [w \in Workers |-> 0]
    /\ seen = [w \in Workers |-> "none"] /\ seenAttempts = [w \in Workers |-> 0]
    /\ lock = [s \in Workspaces |-> Free] /\ token = [w \in Workers |-> "none"]
    /\ dropped = {} /\ faults = 0

-----------------------------------------------------------------------------
\* Redis

Xadd(j) == stream' = Append(stream, j)

Xack(e) == pel' = pel \ {e} /\ idle' = idle \ {e}

\* An entry has been pending for min_idle_ms: its worker is dead, or slow.
GrowIdle(e) ==
    /\ e \in pel \ idle
    /\ idle' = idle \cup {e}
    /\ UNCHANGED <<stream, delivered, pel, dlq, call, rowVars, pc, batch, cur,
                   sessionVars, lockVars, dropped, faults>>

\* A lock's ttl of two hours ends.
LockExpires(s) ==
    /\ lock[s] # Free
    /\ lock' = [lock EXCEPT ![s] = Free]
    /\ token' = [w \in Workers |-> IF lock[s] = w THEN "lapsed" ELSE token[w]]
    /\ UNCHANGED <<queueVars, call, rowVars, pc, batch, cur, sessionVars,
                   dropped, faults>>

\* jobs/hydration_worker.py hydrates one of the workspace's sources.
SchedulerLocks(s) ==
    /\ lock[s] = Free
    /\ lock' = [lock EXCEPT ![s] = Scheduler]
    /\ UNCHANGED <<queueVars, call, rowVars, pc, batch, cur, sessionVars, token,
                   dropped, faults>>

SchedulerUnlocks(s) ==
    /\ lock[s] = Scheduler
    /\ lock' = [lock EXCEPT ![s] = Free]
    /\ UNCHANGED <<queueVars, call, rowVars, pc, batch, cur, sessionVars, token,
                   dropped, faults>>

-----------------------------------------------------------------------------
\* RedisQueue.enqueue

Mirror(j) ==
    /\ call[j] = "new"
    /\ call' = [call EXCEPT ![j] = "mirrored"]
    /\ \/ status' = [status EXCEPT ![j] = "queued"]
       \/ UNCHANGED status          \* the table is missing: not an error
    /\ UNCHANGED <<queueVars, attempts, pc, batch, cur, sessionVars, lockVars,
                   dropped, faults>>

Send(j) ==
    /\ call[j] = "mirrored"
    /\ Len(stream) < MaxEntries
    /\ call' = [call EXCEPT ![j] = "sent"]
    /\ Xadd(j)
    /\ UNCHANGED <<delivered, pel, idle, dlq, rowVars, pc, batch, cur, sessionVars,
                   lockVars, dropped, faults>>

\* Redis fails after the mirror was committed: the caller gets an error and the
\* row stays.
SendFails(j) ==
    /\ call[j] = "mirrored"
    /\ call' = [call EXCEPT ![j] = "failed"]
    /\ UNCHANGED <<queueVars, rowVars, pc, batch, cur, sessionVars, lockVars,
                   dropped, faults>>

-----------------------------------------------------------------------------
\* queue_worker.run_forever and _handle_entry

JobOf(w) == stream[cur[w]]

Move(w, from, to) == pc[w] = from /\ pc' = [pc EXCEPT ![w] = to]

\* The session reads the row again, as it does after every commit.
Reload(w) ==
    /\ seen' = [seen EXCEPT ![w] = status[JobOf(w)]]
    /\ seenAttempts' = [seenAttempts EXCEPT ![w] = attempts[JobOf(w)]]

Forget(w) ==
    /\ seen' = [seen EXCEPT ![w] = "none"]
    /\ seenAttempts' = [seenAttempts EXCEPT ![w] = 0]

\* job.status = s on a loaded row: the UPDATE names the column only if the value
\* differs from the one read.
NetStatus(w, s) ==
    status' = [status EXCEPT ![JobOf(w)] = IF seen[w] = s THEN @ ELSE s]

\* The entry is done with: on to the next of the batch.
Finish(w, from) ==
    /\ Move(w, from, IF batch[w] = {} THEN "claim" ELSE "load")
    /\ cur' = [cur EXCEPT ![w] = 0]
    /\ Forget(w)
    /\ UNCHANGED batch

\* Faulty variant of Smallest: pending entries are never claimed.
NothingClaimed(n, S) == {}

Smallest(n, S) == {e \in S : Cardinality({d \in S : d < e}) < n}

\* XAUTOCLAIM: the first entries, in stream order, that have been idle.
Claim(w) ==
    /\ Move(w, "claim", "read")
    /\ batch' = [batch EXCEPT ![w] = Smallest(BatchSize, idle)]
    /\ idle' = idle \ Smallest(BatchSize, idle)
    /\ UNCHANGED <<stream, delivered, pel, dlq, call, rowVars, cur, sessionVars,
                   lockVars, dropped, faults>>

\* XREADGROUP >: the next undelivered entries.  They come after every claimed one.
Read(w) ==
    LET last == IF Len(stream) < delivered + BatchSize
                  THEN Len(stream) ELSE delivered + BatchSize
        new  == delivered + 1 .. last
    IN  /\ Move(w, "read", IF batch[w] \cup new = {} THEN "claim" ELSE "load")
        /\ batch' = [batch EXCEPT ![w] = @ \cup new]
        /\ delivered' = last
        /\ pel' = pel \cup new
        /\ UNCHANGED <<stream, idle, dlq, call, rowVars, cur, sessionVars,
                       lockVars, dropped, faults>>

\* Faulty variant of Settled: a dead job is not one that has been dealt with.
SettledIfSucceeded(j) == status[j] = "success"

\* if job.status in {"success", "dlq"}
Settled(j) == status[j] \in Terminal

\* SELECT the row of the next entry's job.
Load(w) ==
    \E e \in batch[w] :
        LET s == status[stream[e]] IN
        /\ \A f \in batch[w] : e <= f
        /\ Move(w, "load", IF s = "none" THEN "insert"
                           ELSE IF Settled(stream[e]) THEN "ackOnly" ELSE "start")
        /\ batch' = [batch EXCEPT ![w] = @ \ {e}]
        /\ cur' = [cur EXCEPT ![w] = e]
        /\ seen' = [seen EXCEPT ![w] = s]
        /\ seenAttempts' = [seenAttempts EXCEPT ![w] = attempts[stream[e]]]
        /\ UNCHANGED <<queueVars, call, rowVars, lockVars, dropped, faults>>

\* The job has no row: create it.  If another worker has just done so the unique
\* job_id makes the commit raise, and the rest of the batch is abandoned.
Insert(w) ==
    LET j == JobOf(w) IN
    \/ /\ Move(w, "insert", "start")
       /\ status[j] = "none"
       /\ status' = [status EXCEPT ![j] = "queued"]
       /\ attempts' = [attempts EXCEPT ![j] = 0]
       /\ seen' = [seen EXCEPT ![w] = "queued"]
       /\ seenAttempts' = [seenAttempts EXCEPT ![w] = 0]
       /\ UNCHANGED <<queueVars, call, batch, cur, lockVars, dropped, faults>>
    \/ /\ Move(w, "insert", "claim")
       /\ status[j] # "none"
       /\ batch' = [batch EXCEPT ![w] = {}]
       /\ cur' = [cur EXCEPT ![w] = 0]
       /\ Forget(w)
       /\ UNCHANGED <<queueVars, call, rowVars, lockVars, dropped, faults>>

\* The job was finished by someone else: acknowledge, nothing more.
AckOnly(w) ==
    /\ Finish(w, "ackOnly")
    /\ Xack(cur[w])
    /\ UNCHANGED <<stream, delivered, dlq, call, rowVars, lockVars, dropped, faults>>

\* _mark_running, after the event has been sent
Start(w) ==
    /\ Move(w, "start", "handle")
    /\ NetStatus(w, "running")
    /\ Forget(w)
    /\ UNCHANGED <<queueVars, call, attempts, batch, cur, lockVars, dropped, faults>>

\* Faulty variant of Locked: SET without NX.
NeverLocked(s) == FALSE

Locked(s) == lock[s] # Free

\* raise ValueError(f"Unsupported job type ...")
Reject(w) ==
    /\ Move(w, "handle", "fail")
    /\ JobOf(w) \in Unsupported
    /\ UNCHANGED <<queueVars, call, rowVars, batch, cur, sessionVars, lockVars,
                   dropped, faults>>

\* handle_hydration_job gets the workspace lock.
Acquire(w) ==
    LET s == WorkspaceOf[JobOf(w)] IN
    /\ Move(w, "handle", "hydrate")
    /\ JobOf(w) \notin Unsupported
    /\ ~Locked(s)
    /\ lock' = [lock EXCEPT ![s] = w]
    /\ token' = [token EXCEPT ![w] = "held"]
    /\ UNCHANGED <<queueVars, call, rowVars, batch, cur, sessionVars, dropped, faults>>

\* Redis raises in acquire: the handler goes on without the lock.
AcquireDegraded(w) ==
    /\ Move(w, "handle", "hydrate")
    /\ JobOf(w) \notin Unsupported
    /\ faults < MaxFaults /\ faults' = faults + 1
    /\ token' = [token EXCEPT ![w] = "degraded"]
    /\ UNCHANGED <<queueVars, call, rowVars, batch, cur, sessionVars, lock, dropped>>

\* The lock is taken: {"skipped": "already_running"} counts as a result.
Skip(w) ==
    /\ Move(w, "handle", "succeed")
    /\ JobOf(w) \notin Unsupported
    /\ Locked(WorkspaceOf[JobOf(w)])
    /\ UNCHANGED <<queueVars, call, rowVars, batch, cur, sessionVars, lockVars,
                   dropped, faults>>

\* Let go of the lock, to leave it to `owner', if it is still the worker's.
Drop(w, owner) ==
    /\ token' = [token EXCEPT ![w] = "none"]
    /\ lock' = [s \in Workspaces |-> IF lock[s] = w THEN owner ELSE lock[s]]

\* Faulty variant of ReleaseLock: there is no finally.
ReleaseForgotten(w) == Drop(w, Orphan) /\ UNCHANGED faults

\* finally: lock.release.  It deletes the key only with the worker's own token in
\* it, and a failure to do so is logged and ignored.
ReleaseLock(w) ==
    \/ /\ Drop(w, Free)
       /\ UNCHANGED faults
    \/ /\ faults < MaxFaults /\ faults' = faults + 1
       /\ Drop(w, Orphan)

Hydrate(w) ==
    /\ Move(w, "hydrate", "succeed")
    /\ ReleaseLock(w)
    /\ UNCHANGED <<queueVars, call, rowVars, batch, cur, sessionVars, dropped>>

PipelineRaises(w) ==
    /\ Move(w, "hydrate", "fail")
    /\ ReleaseLock(w)
    /\ UNCHANGED <<queueVars, call, rowVars, batch, cur, sessionVars, dropped>>

\* _mark_success on an expired row: the UPDATE always names the status.
Succeed(w) ==
    /\ Move(w, "succeed", "ack")
    /\ status' = [status EXCEPT ![JobOf(w)] = "success"]
    /\ UNCHANGED <<queueVars, call, attempts, batch, cur, sessionVars, lockVars,
                   dropped, faults>>

AckSuccess(w) ==
    /\ Finish(w, "ack")
    /\ Xack(cur[w])
    /\ UNCHANGED <<stream, delivered, dlq, call, rowVars, lockVars, dropped, faults>>

\* The commit or the XACK raises inside the try: the except branch counts a
\* failed attempt of a job that has succeeded.
CompletionRaises(w) ==
    /\ faults < MaxFaults /\ faults' = faults + 1
    /\ Move(w, "succeed", "fail") \/ Move(w, "ack", "fail")
    /\ UNCHANGED <<queueVars, call, rowVars, batch, cur, sessionVars, lockVars,
                   dropped>>

\* job.attempts += 1 reads the row ...
CountFailure(w) ==
    /\ Move(w, "fail", "failed")
    /\ Reload(w)
    /\ UNCHANGED <<queueVars, call, rowVars, batch, cur, lockVars, dropped, faults>>

\* ... and the commit, after the event has been sent, writes it.
CommitFailure(w) ==
    /\ Move(w, "failed", "decide")
    /\ NetStatus(w, "failed")
    /\ attempts' = [attempts EXCEPT ![JobOf(w)] = seenAttempts[w] + 1]
    /\ Forget(w)
    /\ UNCHANGED <<queueVars, call, batch, cur, lockVars, dropped, faults>>

\* Faulty variant of Exhausted: off by one.
ExhaustedEarly(j) == attempts[j] + 1 >= MaxAttempts

\* job.attempts >= MAX_ATTEMPTS, on the row as it is now
Exhausted(j) == attempts[j] >= MaxAttempts

Decide(w) ==
    /\ Move(w, "decide", IF Exhausted(JobOf(w)) THEN "dlqAck" ELSE "retry")
    /\ Reload(w)
    /\ UNCHANGED <<queueVars, call, rowVars, batch, cur, lockVars, dropped, faults>>

Retry(w) ==
    /\ Move(w, "retry", "retryAck")
    /\ NetStatus(w, "queued")
    /\ Forget(w)
    /\ UNCHANGED <<queueVars, call, attempts, batch, cur, lockVars, dropped, faults>>

\* The entry is acknowledged before the backoff and put back after it.
RetryAck(w) ==
    /\ Move(w, "retryAck", "backoff")
    /\ Xack(cur[w])
    /\ UNCHANGED <<stream, delivered, dlq, call, rowVars, batch, cur, sessionVars,
                   lockVars, dropped, faults>>

\* Faulty variant of Requeue: the job is not put back.
RequeueForgotten(w) ==
    /\ Finish(w, "backoff")
    /\ UNCHANGED <<queueVars, call, rowVars, lockVars, dropped, faults>>

Requeue(w) ==
    /\ Finish(w, "backoff")
    /\ Len(stream) < MaxEntries
    /\ Xadd(JobOf(w))
    /\ UNCHANGED <<delivered, pel, idle, dlq, call, rowVars, lockVars, dropped,
                   faults>>

DlqAck(w) ==
    /\ Move(w, "dlqAck", "dlqAdd")
    /\ Xack(cur[w])
    /\ UNCHANGED <<stream, delivered, dlq, call, rowVars, batch, cur, sessionVars,
                   lockVars, dropped, faults>>

\* Faulty variant of DlqAdd: a failing XADD is ignored.
DlqAddIgnored(w) ==
    /\ Move(w, "dlqAdd", "dlqMark")
    /\ UNCHANGED <<queueVars, call, rowVars, batch, cur, sessionVars, lockVars,
                   dropped, faults>>

DlqAdd(w) ==
    /\ Move(w, "dlqAdd", "dlqMark")
    /\ dlq' = Append(dlq, JobOf(w))
    /\ UNCHANGED <<stream, delivered, pel, idle, call, rowVars, batch, cur, sessionVars,
                   lockVars, dropped, faults>>

\* _mark_dlq
DlqMark(w) ==
    /\ Finish(w, "dlqMark")
    /\ NetStatus(w, "dlq")
    /\ UNCHANGED <<queueVars, call, attempts, lockVars, dropped, faults>>

-----------------------------------------------------------------------------
\* Where a worker may still write the job's row or its next entry.
CarryingPlaces ==
    {"start", "handle", "hydrate", "succeed", "fail", "failed", "decide", "retry",
     "retryAck", "backoff", "dlqAck", "dlqAdd", "dlqMark"}

Places ==
    CarryingPlaces \cup {"claim", "read", "load", "insert", "ackOnly", "ack"}

\* It read the row in the dead-letter state: its _mark_dlq writes nothing new.
FoundDead(w) == pc[w] \in {"dlqAck", "dlqAdd", "dlqMark"} /\ seen[w] = "dlq"

Carries(w, j) ==
    cur[w] # 0 /\ JobOf(w) = j /\ pc[w] \in CarryingPlaces /\ ~FoundDead(w)

\* It will acknowledge the entry and leave the row as it is.
Discards(w, e) ==
    /\ cur[w] = e
    /\ pc[w] \in {"ackOnly", "ack"} \/ (pc[w] = "dlqAck" /\ FoundDead(w))

\* An entry that will be delivered, or delivered again once its worker is gone.
WillReturn(e) ==
    (e > delivered \/ e \in pel) /\ \A w \in Workers : ~Discards(w, e)

\* The process dies, or an exception leaves _handle_entry and ends the batch.  The
\* entries stay pending; a lock stays until its ttl ends.
Interrupt(w) ==
    /\ pc[w] # "claim"
    /\ faults < MaxFaults /\ faults' = faults + 1
    /\ pc' = [pc EXCEPT ![w] = "claim"]
    /\ batch' = [batch EXCEPT ![w] = {}]
    /\ cur' = [cur EXCEPT ![w] = 0]
    /\ Forget(w)
    /\ Drop(w, Orphan)
    /\ dropped' = dropped \cup
         {j \in Jobs : Carries(w, j) /\ ~ \E e \in Entries : stream[e] = j /\ WillReturn(e)}
    /\ UNCHANGED <<queueVars, call, rowVars>>

Work(w) ==
    \/ Claim(w) \/ Read(w) \/ Load(w) \/ Insert(w) \/ AckOnly(w) \/ Start(w)
    \/ Reject(w) \/ Acquire(w) \/ Skip(w) \/ Hydrate(w) \/ PipelineRaises(w)
    \/ Succeed(w) \/ AckSuccess(w) \/ CountFailure(w) \/ CommitFailure(w)
    \/ Decide(w) \/ Retry(w) \/ RetryAck(w) \/ Requeue(w)
    \/ DlqAck(w) \/ DlqAdd(w) \/ DlqMark(w)

Fault(w) == AcquireDegraded(w) \/ CompletionRaises(w) \/ Interrupt(w)

Enqueue(j) == Mirror(j) \/ Send(j) \/ SendFails(j)

Next ==
    \/ \E j \in Jobs : Enqueue(j)
    \/ \E w \in Workers : Work(w) \/ Fault(w)
    \/ \E e \in Entries : GrowIdle(e)
    \/ \E s \in Workspaces : LockExpires(s) \/ SchedulerLocks(s) \/ SchedulerUnlocks(s)

Spec == Init /\ [][Next]_vars

\* A worker loops for ever and each of its calls returns or raises; time passes
\* for pending entries and locks.
FairSpec ==
    /\ Spec
    /\ \A w \in Workers : WF_vars(Work(w))
    /\ \A e \in 1 .. MaxEntries : WF_vars(e \in Entries /\ GrowIdle(e))

-----------------------------------------------------------------------------
QueueTyped ==
    /\ stream \in Seq(Jobs) /\ dlq \in Seq(Jobs)
    /\ delivered \in 0 .. Len(stream)
    /\ pel \subseteq 1 .. delivered /\ idle \subseteq pel
    /\ call \in [Jobs -> {"new", "mirrored", "sent", "failed"}]

RowsTyped ==
    /\ status \in [Jobs -> Statuses]
    /\ attempts \in [Jobs -> Nat]
    /\ seen \in [Workers -> Statuses]
    /\ seenAttempts \in [Workers -> Nat]

HandsTyped ==
    /\ pc \in [Workers -> Places]
    /\ batch \in [Workers -> SUBSET (1 .. delivered)]
    /\ cur \in [Workers -> 0 .. delivered]
    /\ \A w \in Workers : cur[w] = 0 <=> pc[w] \in {"claim", "read", "load"}

LocksTyped ==
    /\ lock \in [Workspaces -> Workers \cup {Free, Orphan, Scheduler}]
    /\ token \in [Workers -> {"none", "held", "lapsed", "degraded"}]
    /\ dropped \subseteq Jobs
    /\ faults \in 0 .. MaxFaults

\* The types; pending entries have been delivered, idle ones are pending, and a
\* worker has an entry in its hands exactly while it handles one.
TypeOK == QueueTyped /\ RowsTyped /\ HandsTyped /\ LocksTyped

\* A job that was sent and has not been finished is in some worker's hands or
\* will be delivered again, unless a worker was interrupted at a moment when no
\* entry could bring the job back (after XACK and before the requeue or the DLQ,
\* or when another worker was acknowledging the entry).  However the workers
\* overlap, nothing but an interruption loses a job.
NoJobLost ==
    \A j \in Jobs :
        call[j] = "sent" /\ status[j] \notin Terminal /\ j \notin dropped =>
            \/ \E w \in Workers : Carries(w, j)
            \/ \E e \in Entries : stream[e] = j /\ WillReturn(e)

\* A workspace is hydrated by one owner of its lock at a time: two workers, or a
\* worker and the scheduler, do it together only if Redis failed in acquire or the
\* pipeline outlived the two hours of the lock.
Hydrating(w, s) ==
    pc[w] = "hydrate" /\ token[w] = "held" /\ WorkspaceOf[JobOf(w)] = s

HydrationExclusive ==
    \A s \in Workspaces : \A w \in Workers :
        Hydrating(w, s) =>
            /\ lock[s] # Scheduler
            /\ \A v \in Workers : Hydrating(v, s) => v = w

\* A row in the dead-letter state has its copy in jobs:dlq: nobody who looks for
\* the payload of a dead job finds nothing.
DeadJobsAreKept ==
    \A j \in Jobs : status[j] = "dlq" => \E i \in 1 .. Len(dlq) : dlq[i] = j

\* Tests test_retry_then_dlq: a job reaches the DLQ once, and only after all its
\* attempts (with one worker).
DlqOnce ==
    \A j \in Jobs :
        LET copies == {i \in 1 .. Len(dlq) : dlq[i] = j} IN
        /\ Cardinality(copies) <= 1
        /\ copies # {} => attempts[j] >= MaxAttempts

\* With one worker jobs:dlq has each dead job, once, and no other.
DeadLettersHold == DeadJobsAreKept /\ DlqOnce

\* A finished job that nobody is handling stays so: neither a retry's entry nor an
\* entry claimed late, nor the two workers that create its row, run it again or
\* write to its row.
Runs(w, j) == cur[w] # 0 /\ JobOf(w) = j /\ pc[w] \in CarryingPlaces \cup {"ack"}

AtRest(j) == status[j] \in Terminal /\ \A w \in Workers : ~Runs(w, j)

FinishedIsFinal ==
    [][\A j \in Jobs :
        AtRest(j) => AtRest(j)' /\ status'[j] = status[j] /\ attempts'[j] = attempts[j]]_vars

\* hydration_handler.py:20 answers "already_running": when a job is skipped, a
\* worker or the scheduler is running under the lock of its workspace.
SkippedOnlyWhileRunning ==
    [][\A w \in Workers : pc[w] = "handle" /\ pc'[w] = "succeed" =>
            lock[WorkspaceOf[JobOf(w)]] # Orphan]_vars

\* The same as long as nothing was interrupted and no call to Redis raised, however often
\* two workers handle the entries of a job.
FaultlessSkips ==
    [][\A w \in Workers : pc[w] = "handle" /\ pc'[w] = "succeed" =>
            faults > 0 \/ lock[WorkspaceOf[JobOf(w)]] # Orphan]_vars

\* Every job that was sent is finished or was dropped by an interruption: an
\* interrupted worker's entry is claimed again, and retries come to an end.
JobsSettle ==
    \A j \in Jobs :
        (call[j] = "sent") ~> (status[j] \in Terminal \/ j \in dropped)

-----------------------------------------------------------------------------
\* The abstract queue: what the caller of each job was told, which job each worker
\* has, which will be delivered again, and which are in jobs:dlq.
Told(j) ==
    IF call[j] = "sent" THEN IF status[j] \in Terminal THEN status[j] ELSE "open"
    ELSE IF call[j] = "failed" THEN "refused" ELSE "new"

Due(j) == \E e \in Entries : stream[e] = j /\ WillReturn(e)

InDlq(j) == \E i \in 1 .. Len(dlq) : dlq[i] = j

Outcomes == [j \in Jobs |-> Told(j)]
Hands == [w \in Workers |-> {j \in Jobs : Runs(w, j)}]
DueJobs == {j \in Jobs : Due(j)}
Letters == {j \in Jobs : InDlq(j)}

Queue == INSTANCE AtLeastOnce WITH
    outcome <- Outcomes, hands <- Hands, due <- DueJobs, letters <- Letters,
    lost <- dropped

\* Every step of streams, rows and workers is a step the abstract queue allows.
ImplementsQueue == Queue!Spec
==============================================================================
