---------------------------- MODULE JobQueueProofs ----------------------------
(***************************************************************************)
(* Proofs about JobQueue, for every number of jobs, workers, workspaces,   *)
(* attempts, entries and faults; the last part shows that it implements    *)
(* AtLeastOnce.                                                            *)
(***************************************************************************)
EXTENDS JobQueue, TLAPS, FiniteSetTheorems

\* The first entries of a set are some of its entries.
LEMMA SmallestSubset == \A n, S : Smallest(n, S) \subseteq S
BY DEF Smallest

\* The first state is typed.
LEMMA InitTyped == Init => TypeOK
BY ConstantsAssumption
   DEF Init, TypeOK, QueueTyped, RowsTyped, HandsTyped, LocksTyped, Places,
       Statuses, Terminal

\* Enqueueing, Redis and the scheduler keep the types.
LEMMA OutsideTyped ==
    ASSUME TypeOK,
           \/ \E j \in Jobs : Enqueue(j)
           \/ \E e \in Entries : GrowIdle(e)
           \/ \E s \in Workspaces :
                LockExpires(s) \/ SchedulerLocks(s) \/ SchedulerUnlocks(s)
           \/ UNCHANGED vars
    PROVE  TypeOK'
<1> USE ConstantsAssumption DEF TypeOK, QueueTyped, RowsTyped, HandsTyped,
        LocksTyped, queueVars, rowVars, sessionVars, lockVars
<1>1. ASSUME NEW j \in Jobs, Mirror(j) PROVE TypeOK'
  BY <1>1 DEF Mirror, Statuses, Terminal
<1>2. ASSUME NEW j \in Jobs, Send(j) PROVE TypeOK'
  BY <1>2 DEF Send, Xadd
<1>3. ASSUME NEW j \in Jobs, SendFails(j) PROVE TypeOK'
  BY <1>3 DEF SendFails
<1>4. ASSUME NEW e \in Entries, GrowIdle(e) PROVE TypeOK'
  BY <1>4 DEF GrowIdle
<1>5. ASSUME NEW s \in Workspaces, LockExpires(s) PROVE TypeOK'
  BY <1>5 DEF LockExpires
<1>6. ASSUME NEW s \in Workspaces, SchedulerLocks(s) \/ SchedulerUnlocks(s)
      PROVE TypeOK'
  BY <1>6 DEF SchedulerLocks, SchedulerUnlocks
<1>7. CASE UNCHANGED vars
  BY <1>7 DEF vars
<1> QED
  BY <1>1, <1>2, <1>3, <1>4, <1>5, <1>6, <1>7 DEF Enqueue

\* A worker handling an entry goes to another place and keeps it.
LEMMA MoveTyped ==
    ASSUME HandsTyped, NEW w \in Workers, pc[w] \notin {"claim", "read", "load"},
           NEW p \in Places \ {"claim", "read", "load"},
           pc' = [pc EXCEPT ![w] = p], UNCHANGED <<cur, batch, delivered>>
    PROVE  HandsTyped'
BY DEF HandsTyped

\* A worker lets go of its entry.
LEMMA FinishTyped ==
    ASSUME HandsTyped, NEW w \in Workers, NEW p \in {"claim", "read", "load"},
           pc' = [pc EXCEPT ![w] = p], cur' = [cur EXCEPT ![w] = 0],
           batch' = batch \/ batch' = [batch EXCEPT ![w] = {}],
           delivered \in Nat, UNCHANGED delivered
    PROVE  HandsTyped'
<1>1. p \in Places
  BY DEF Places
<1> QED
  BY <1>1 DEF HandsTyped

\* What a step that gives up the lock leaves behind.
LEMMA DropTyped ==
    ASSUME LocksTyped, NEW w \in Workers, NEW owner \in {Free, Orphan},
           Drop(w, owner), faults' \in 0 .. MaxFaults, dropped' \subseteq Jobs
    PROVE  LocksTyped'
BY DEF LocksTyped, Drop

\* Every step of a worker keeps the types.
LEMMA WorkTyped ==
    ASSUME TypeOK, NEW w \in Workers, Work(w) \/ Fault(w) PROVE TypeOK'
<1> USE ConstantsAssumption DEF TypeOK, queueVars, rowVars, sessionVars, lockVars, Move
<1>1. {"none", "queued", "running", "failed", "success", "dlq"} \subseteq Statuses
  BY DEF Statuses, Terminal
<1>2. {"insert", "ackOnly", "ack", "start", "handle", "hydrate", "succeed", "fail",
       "failed", "decide", "retry", "retryAck", "backoff", "dlqAck", "dlqAdd",
       "dlqMark"} \subseteq Places \ {"claim", "read", "load"}
  BY DEF Places, CarryingPlaces
<1>3. pc[w] \notin {"claim", "read", "load"} => JobOf(w) \in Jobs
  BY DEF JobOf, QueueTyped, HandsTyped
<1>4. delivered \in Nat
  BY DEF QueueTyped
<1>5. CASE Claim(w)
  <2>1. HandsTyped'
    BY <1>5, SmallestSubset DEF Claim, HandsTyped, QueueTyped, Places
  <2> QED
    BY <1>5, <2>1, SmallestSubset DEF Claim, QueueTyped, RowsTyped, LocksTyped
<1>6. CASE Read(w)
  <2> DEFINE last == IF Len(stream) < delivered + BatchSize
                       THEN Len(stream) ELSE delivered + BatchSize
  <2>1. last \in Nat /\ delivered <= last /\ last <= Len(stream)
    BY DEF QueueTyped
  <2>2. /\ pc[w] = "read"
        /\ pc' = [pc EXCEPT ![w] = "claim"] \/ pc' = [pc EXCEPT ![w] = "load"]
        /\ batch' = [batch EXCEPT ![w] = @ \cup (delivered + 1 .. last)]
        /\ delivered' = last
        /\ pel' = pel \cup (delivered + 1 .. last)
        /\ UNCHANGED cur
    BY <1>6 DEF Read
  <2> HIDE DEF last
  <2>3. batch' \in [Workers -> SUBSET (1 .. last)] /\ cur \in [Workers -> 0 .. last]
    BY <1>4, <2>1, <2>2 DEF HandsTyped
  <2>4. {"claim", "load"} \subseteq Places
    BY DEF Places
  <2>5. HandsTyped'
    BY <2>2, <2>3, <2>4 DEF HandsTyped
  <2>6. QueueTyped'
    <3>1. pel' \subseteq 1 .. last /\ idle \subseteq pel'
      BY <2>1, <2>2 DEF QueueTyped
    <3>2. UNCHANGED <<stream, idle, dlq, call>>
      BY <1>6 DEF Read
    <3> QED
      BY <2>1, <2>2, <3>1, <3>2 DEF QueueTyped
  <2> QED
    BY <1>6, <2>5, <2>6 DEF Read, RowsTyped, LocksTyped
<1>7. CASE Load(w)
  <2>1. PICK e \in batch[w] :
          LET s == status[stream[e]] IN
          /\ Move(w, "load", IF s = "none" THEN "insert"
                             ELSE IF s \in Terminal THEN "ackOnly" ELSE "start")
          /\ batch' = [batch EXCEPT ![w] = @ \ {e}]
          /\ cur' = [cur EXCEPT ![w] = e]
          /\ seen' = [seen EXCEPT ![w] = s]
          /\ seenAttempts' = [seenAttempts EXCEPT ![w] = attempts[stream[e]]]
    BY <1>7 DEF Load, Settled
  <2>2. e \in 1 .. delivered /\ stream[e] \in Jobs
    BY DEF HandsTyped, QueueTyped
  <2>3. \E p \in {"insert", "ackOnly", "start"} :
          pc[w] = "load" /\ pc' = [pc EXCEPT ![w] = p]
    BY <2>1
  <2>4. HandsTyped'
    BY <1>2, <1>4, <1>7, <2>1, <2>2, <2>3 DEF Load, Settled, HandsTyped
  <2>5. RowsTyped'
    BY <1>7, <2>1, <2>2 DEF Load, RowsTyped
  <2> QED
    BY <1>7, <2>4, <2>5 DEF Load, QueueTyped, LocksTyped
<1>8. CASE Insert(w)
  <2>1. CASE status[JobOf(w)] = "none"
    <3>1. HandsTyped'
      BY <1>2, <1>8, <2>1, MoveTyped DEF Insert
    <3>2. /\ status' = [status EXCEPT ![JobOf(w)] = "queued"]
          /\ attempts' = [attempts EXCEPT ![JobOf(w)] = 0]
          /\ seen' = [seen EXCEPT ![w] = "queued"]
          /\ seenAttempts' = [seenAttempts EXCEPT ![w] = 0]
          /\ UNCHANGED <<queueVars, call, lockVars, dropped, faults>>
      BY <1>8, <2>1 DEF Insert
    <3>3. RowsTyped'
      BY <1>1, <3>2 DEF RowsTyped
    <3> QED
      BY <3>1, <3>2, <3>3 DEF QueueTyped, LocksTyped
  <2>2. CASE status[JobOf(w)] # "none"
    <3>1. HandsTyped'
      BY <1>4, <1>8, <2>2, FinishTyped DEF Insert
    <3>2. Forget(w) /\ UNCHANGED <<queueVars, call, rowVars, lockVars, dropped, faults>>
      BY <1>8, <2>2 DEF Insert
    <3>3. RowsTyped'
      BY <1>1, <3>2 DEF Forget, RowsTyped
    <3> QED
      BY <3>1, <3>2, <3>3 DEF QueueTyped, LocksTyped
  <2> QED
    BY <2>1, <2>2
<1>9. CASE AckOnly(w) \/ AckSuccess(w)
  <2>1. Finish(w, "ackOnly") \/ Finish(w, "ack")
    BY <1>9 DEF AckOnly, AckSuccess
  <2>2. Xack(cur[w]) /\ UNCHANGED <<stream, delivered, dlq, call, rowVars, lockVars, dropped, faults>>
    BY <1>9 DEF AckOnly, AckSuccess
  <2>3. HandsTyped'
    BY <1>4, <2>1, <2>2, FinishTyped DEF Finish
  <2>4. RowsTyped'
    BY <1>1, <2>1, <2>2 DEF Finish, Forget, RowsTyped
  <2> QED
    BY <2>2, <2>3, <2>4 DEF Xack, QueueTyped, LocksTyped
<1>10. CASE Start(w)
  <2>1. HandsTyped'
    BY <1>2, <1>10, MoveTyped DEF Start
  <2> QED
    BY <1>1, <1>3, <1>10, <2>1
       DEF Start, NetStatus, Forget, QueueTyped, RowsTyped, LocksTyped
<1>11. CASE Reject(w) \/ Skip(w)
  <2>1. HandsTyped'
    BY <1>2, <1>11, MoveTyped DEF Reject, Skip
  <2> QED
    BY <1>11, <2>1 DEF Reject, Skip, QueueTyped, RowsTyped, LocksTyped
<1>12. CASE Acquire(w)
  <2>1. HandsTyped'
    BY <1>2, <1>12, MoveTyped DEF Acquire
  <2> QED
    BY <1>3, <1>12, <2>1 DEF Acquire, QueueTyped, RowsTyped, LocksTyped
<1>13. CASE AcquireDegraded(w)
  <2>1. HandsTyped'
    BY <1>2, <1>13, MoveTyped DEF AcquireDegraded
  <2> QED
    BY <1>13, <2>1 DEF AcquireDegraded, QueueTyped, RowsTyped, LocksTyped
<1>14. ASSUME ReleaseLock(w), UNCHANGED dropped PROVE LocksTyped'
  BY <1>14, DropTyped DEF ReleaseLock, LocksTyped
<1>15. CASE Hydrate(w) \/ PipelineRaises(w)
  <2>1. HandsTyped'
    BY <1>2, <1>15, MoveTyped DEF Hydrate, PipelineRaises
  <2>2. LocksTyped'
    BY <1>14, <1>15 DEF Hydrate, PipelineRaises
  <2> QED
    BY <1>15, <2>1, <2>2 DEF Hydrate, PipelineRaises, QueueTyped, RowsTyped
<1>16. CASE Succeed(w)
  <2>1. HandsTyped'
    BY <1>2, <1>16, MoveTyped DEF Succeed
  <2> QED
    BY <1>1, <1>16, <2>1 DEF Succeed, QueueTyped, RowsTyped, LocksTyped
<1>17. CASE CompletionRaises(w)
  <2>1. HandsTyped'
    BY <1>2, <1>17, MoveTyped DEF CompletionRaises
  <2> QED
    BY <1>17, <2>1 DEF CompletionRaises, QueueTyped, RowsTyped, LocksTyped
<1>18. CASE CountFailure(w) \/ Decide(w)
  <2>1. HandsTyped'
    BY <1>2, <1>18, MoveTyped DEF CountFailure, Decide
  <2>2. Reload(w) /\ JobOf(w) \in Jobs
    BY <1>3, <1>18 DEF CountFailure, Decide
  <2> QED
    BY <1>18, <2>1, <2>2
       DEF CountFailure, Decide, Reload, QueueTyped, RowsTyped, LocksTyped
<1>19. CASE CommitFailure(w)
  <2>1. HandsTyped'
    BY <1>2, <1>19, MoveTyped DEF CommitFailure
  <2> QED
    BY <1>1, <1>3, <1>19, <2>1
       DEF CommitFailure, NetStatus, Forget, QueueTyped, RowsTyped, LocksTyped
<1>20. CASE Retry(w)
  <2>1. HandsTyped'
    BY <1>2, <1>20, MoveTyped DEF Retry
  <2> QED
    BY <1>1, <1>3, <1>20, <2>1
       DEF Retry, NetStatus, Forget, QueueTyped, RowsTyped, LocksTyped
<1>21. CASE RetryAck(w) \/ DlqAck(w)
  <2>1. HandsTyped'
    BY <1>2, <1>21, MoveTyped DEF RetryAck, DlqAck
  <2> QED
    BY <1>21, <2>1 DEF RetryAck, DlqAck, Xack, QueueTyped, RowsTyped, LocksTyped
<1>22. CASE Requeue(w)
  <2>1. HandsTyped'
    BY <1>4, <1>22, FinishTyped DEF Requeue, Finish
  <2>2. QueueTyped'
    BY <1>3, <1>22 DEF Requeue, Finish, Xadd, QueueTyped
  <2> QED
    BY <1>1, <1>22, <2>1, <2>2 DEF Requeue, Finish, Forget, RowsTyped, LocksTyped
<1>23. CASE DlqAdd(w)
  <2>1. HandsTyped'
    BY <1>2, <1>23, MoveTyped DEF DlqAdd
  <2> QED
    BY <1>3, <1>23, <2>1 DEF DlqAdd, QueueTyped, RowsTyped, LocksTyped
<1>24. CASE DlqMark(w)
  <2>1. HandsTyped'
    BY <1>4, <1>24, FinishTyped DEF DlqMark, Finish
  <2> QED
    BY <1>1, <1>3, <1>24, <2>1
       DEF DlqMark, Finish, NetStatus, Forget, QueueTyped, RowsTyped, LocksTyped
<1>25. CASE Interrupt(w)
  <2>1. HandsTyped'
    BY <1>4, <1>25, FinishTyped DEF Interrupt
  <2>2. dropped' \subseteq Jobs /\ faults' \in 0 .. MaxFaults
    BY <1>25 DEF Interrupt, LocksTyped
  <2>3. LocksTyped'
    BY <1>25, <2>2, DropTyped DEF Interrupt
  <2> QED
    BY <1>1, <1>25, <2>1, <2>3 DEF Interrupt, Forget, QueueTyped, RowsTyped
<1> QED
  BY <1>5, <1>6, <1>7, <1>8, <1>9, <1>10, <1>11, <1>12, <1>13, <1>15, <1>16, <1>17,
     <1>18, <1>19, <1>20, <1>21, <1>22, <1>23, <1>24, <1>25 DEF Work, Fault

\* The types hold in every reachable state.
THEOREM QueueTypeCorrect == Spec => []TypeOK
<1>1. TypeOK /\ [Next]_vars => TypeOK'
  BY OutsideTyped, WorkTyped DEF Next
<1> QED
  BY <1>1, InitTyped, PTL DEF Spec

-------------------------------------------------------------------------------
\* Who owns the lock of a workspace runs its pipeline under that lock.
OwnerHydrates ==
    \A w \in Workers :
        /\ pc[w] # "hydrate" => token[w] = "none"
        /\ token[w] = "held" => lock[WorkspaceOf[JobOf(w)]] = w
        /\ \A s \in Workspaces :
              lock[s] = w => token[w] = "held" /\ WorkspaceOf[JobOf(w)] = s

\* Steps that leave the locks and the workers in their pipelines alone.
LEMMA OwnerFrame ==
    ASSUME OwnerHydrates, UNCHANGED lockVars,
           \A v \in Workers : pc[v] = "hydrate" =>
               pc'[v] = "hydrate" /\ cur'[v] = cur[v] /\ stream'[cur[v]] = stream[cur[v]]
    PROVE  OwnerHydrates'
BY DEF OwnerHydrates, lockVars, JobOf

\* Every step keeps the owners of the locks in their pipelines.
LEMMA OwnerStep ==
    ASSUME TypeOK, OwnerHydrates, [Next]_vars PROVE OwnerHydrates'
<1> USE ConstantsAssumption
<1>0. \A v \in Workers : pc[v] = "hydrate" => cur[v] \in 1 .. Len(stream)
  BY DEF TypeOK, HandsTyped, QueueTyped
<1>a. \A v \in Workers : pc[v] \notin {"claim", "read", "load"} => JobOf(v) \in Jobs
  BY DEF TypeOK, HandsTyped, QueueTyped, JobOf
<1>b. \A v \in Workers : pc[v] \notin {"claim", "read", "load"} =>
                           WorkspaceOf[JobOf(v)] \in Workspaces
  BY <1>a
<1>1. ASSUME NEW i \in Jobs, Xadd(i) PROVE \A e \in Entries : stream'[e] = stream[e]
  BY <1>1 DEF Xadd, TypeOK, QueueTyped, Entries
<1>2. ASSUME NEW i \in Jobs, Enqueue(i) PROVE OwnerHydrates'
  <2>1. UNCHANGED <<pc, cur, lockVars>> /\ \A e \in Entries : stream'[e] = stream[e]
    BY <1>1, <1>2 DEF Enqueue, Mirror, Send, SendFails, queueVars
  <2> QED
    BY <1>0, <2>1, OwnerFrame DEF Entries
<1>3. ASSUME NEW e \in Entries, GrowIdle(e) PROVE OwnerHydrates'
  BY <1>3, OwnerFrame DEF GrowIdle
<1>4. ASSUME NEW s \in Workspaces, LockExpires(s) PROVE OwnerHydrates'
  BY <1>4 DEF LockExpires, queueVars, OwnerHydrates, JobOf, TypeOK, LocksTyped
<1>5. ASSUME NEW s \in Workspaces, SchedulerLocks(s) \/ SchedulerUnlocks(s)
      PROVE OwnerHydrates'
  <2>1. /\ UNCHANGED <<stream, pc, cur, token>>
        /\ lock[s] \in {Free, Scheduler}
        /\ \E o \in {Free, Scheduler} : lock' = [lock EXCEPT ![s] = o]
    BY <1>5 DEF SchedulerLocks, SchedulerUnlocks, queueVars
  <2> QED
    BY <1>b, <2>1 DEF OwnerHydrates, JobOf, TypeOK, LocksTyped
<1>6. CASE UNCHANGED vars
  BY <1>6, OwnerFrame DEF vars, queueVars, lockVars
<1>7. ASSUME NEW w \in Workers, Claim(w) \/ Read(w) \/ Load(w) \/ Insert(w)
                                \/ AckOnly(w) \/ Start(w) \/ Reject(w) \/ Skip(w)
      PROVE OwnerHydrates'
  <2>1. UNCHANGED <<stream, lockVars>> /\ pc[w] # "hydrate"
    BY <1>7 DEF Claim, Read, Load, Insert, AckOnly, Start, Reject, Skip, Finish,
       Move, queueVars
  <2>2. \A v \in Workers \ {w} : pc'[v] = pc[v] /\ cur'[v] = cur[v]
    BY <1>7 DEF Claim, Read, Load, Insert, AckOnly, Start, Reject, Skip, Finish,
       Move, TypeOK, HandsTyped
  <2> QED
    BY <2>1, <2>2, OwnerFrame
<1>8. ASSUME NEW w \in Workers, Succeed(w) \/ AckSuccess(w) \/ CountFailure(w)
                                \/ CommitFailure(w) \/ Decide(w) \/ Retry(w)
                                \/ RetryAck(w) \/ DlqAck(w) \/ DlqAdd(w)
                                \/ DlqMark(w) \/ CompletionRaises(w)
      PROVE OwnerHydrates'
  <2>1. UNCHANGED <<stream, lockVars>> /\ pc[w] # "hydrate"
    BY <1>8 DEF Succeed, AckSuccess, CountFailure, CommitFailure, Decide, Retry,
       RetryAck, DlqAck, DlqAdd, DlqMark, CompletionRaises, Finish, Move, queueVars
  <2>2. \A v \in Workers \ {w} : pc'[v] = pc[v] /\ cur'[v] = cur[v]
    BY <1>8 DEF Succeed, AckSuccess, CountFailure, CommitFailure, Decide, Retry,
       RetryAck, DlqAck, DlqAdd, DlqMark, CompletionRaises, Finish, Move, TypeOK,
       HandsTyped
  <2> QED
    BY <2>1, <2>2, OwnerFrame
<1>9. ASSUME NEW w \in Workers, Requeue(w) PROVE OwnerHydrates'
  <2>0. pc[w] = "backoff" /\ Xadd(JobOf(w)) /\ UNCHANGED lockVars
    BY <1>9 DEF Requeue, Finish, Move
  <2>1. JobOf(w) \in Jobs /\ Xadd(JobOf(w)) /\ UNCHANGED lockVars /\ pc[w] # "hydrate"
    BY <1>a, <2>0
  <2>2. \A v \in Workers \ {w} : pc'[v] = pc[v] /\ cur'[v] = cur[v]
    BY <1>9 DEF Requeue, Finish, Move, TypeOK, HandsTyped
  <2> QED
    BY <1>0, <1>1, <2>1, <2>2, OwnerFrame DEF Entries
<1>10. ASSUME NEW w \in Workers, Acquire(w) \/ AcquireDegraded(w) PROVE OwnerHydrates'
  <2>1. /\ pc[w] = "handle" /\ pc' = [pc EXCEPT ![w] = "hydrate"]
        /\ UNCHANGED <<stream, cur>>
    BY <1>10 DEF Acquire, AcquireDegraded, Move, queueVars
  <2>2. CASE Acquire(w)
    <3>1. /\ lock[WorkspaceOf[JobOf(w)]] = Free
          /\ lock' = [lock EXCEPT ![WorkspaceOf[JobOf(w)]] = w]
          /\ token' = [token EXCEPT ![w] = "held"]
      BY <2>2 DEF Acquire, Locked
    <3> QED
      BY <1>b, <2>1, <3>1 DEF OwnerHydrates, JobOf, TypeOK, LocksTyped, HandsTyped
  <2>3. CASE AcquireDegraded(w)
    <3>1. token' = [token EXCEPT ![w] = "degraded"] /\ UNCHANGED lock
      BY <2>3 DEF AcquireDegraded
    <3> QED
      BY <2>1, <3>1 DEF OwnerHydrates, JobOf, TypeOK, LocksTyped, HandsTyped
  <2> QED
    BY <1>10, <2>2, <2>3
<1>11. ASSUME NEW w \in Workers, Drop(w, Free) \/ Drop(w, Orphan), UNCHANGED stream,
              \A v \in Workers \ {w} : pc'[v] = pc[v] /\ cur'[v] = cur[v]
       PROVE OwnerHydrates'
  <2>1. \E o \in {Free, Orphan} :
            lock' = [s \in Workspaces |-> IF lock[s] = w THEN o ELSE lock[s]]
    BY <1>11 DEF Drop
  <2>2. token' = [token EXCEPT ![w] = "none"]
    BY <1>11 DEF Drop
  <2>3. \A v \in Workers \ {w} : JobOf(v)' = JobOf(v)
    BY <1>11 DEF JobOf
  <2>4. ASSUME NEW v \in Workers \ {w}
        PROVE  /\ pc'[v] # "hydrate" => token'[v] = "none"
               /\ token'[v] = "held" => lock'[WorkspaceOf[JobOf(v)']] = v
               /\ \A s \in Workspaces :
                    lock'[s] = v => token'[v] = "held" /\ WorkspaceOf[JobOf(v)'] = s
    <3>1. token[v] = "held" => WorkspaceOf[JobOf(v)] \in Workspaces
      BY <1>b DEF OwnerHydrates
    <3> QED
      BY <1>11, <2>1, <2>2, <2>3, <3>1 DEF OwnerHydrates, TypeOK, LocksTyped
  <2>5. token'[w] = "none" /\ \A s \in Workspaces : lock'[s] # w
    BY <2>1, <2>2 DEF TypeOK, LocksTyped
  <2> QED
    BY <2>4, <2>5 DEF OwnerHydrates
<1>12. ASSUME NEW w \in Workers, Hydrate(w) \/ PipelineRaises(w) PROVE OwnerHydrates'
  <2>1. Drop(w, Free) \/ Drop(w, Orphan)
    BY <1>12 DEF Hydrate, PipelineRaises, ReleaseLock
  <2>2. UNCHANGED stream /\ \A v \in Workers \ {w} : pc'[v] = pc[v] /\ cur'[v] = cur[v]
    BY <1>12 DEF Hydrate, PipelineRaises, Move, queueVars, TypeOK, HandsTyped
  <2> QED
    BY <1>11, <2>1, <2>2
<1>13. ASSUME NEW w \in Workers, Interrupt(w) PROVE OwnerHydrates'
  <2>1. UNCHANGED stream /\ \A v \in Workers \ {w} : pc'[v] = pc[v] /\ cur'[v] = cur[v]
    BY <1>13 DEF Interrupt, queueVars, TypeOK, HandsTyped
  <2> QED
    BY <1>11, <1>13, <2>1 DEF Interrupt
<1> QED
  BY <1>2, <1>3, <1>4, <1>5, <1>6, <1>7, <1>8, <1>9, <1>10, <1>12, <1>13
     DEF Next, Work, Fault

\* Two workers, or a worker and the scheduler, hydrate a workspace together only
\* if Redis failed in acquire or the lock ran out under a pipeline.
THEOREM QueueHydrationExclusive == Spec => []HydrationExclusive
<1>1. Init => OwnerHydrates
  BY ConstantsAssumption DEF Init, OwnerHydrates
<1>2. OwnerHydrates => HydrationExclusive
  BY ConstantsAssumption DEF OwnerHydrates, HydrationExclusive, Hydrating
<1>3. TypeOK /\ OwnerHydrates /\ [Next]_vars => OwnerHydrates'
  BY OwnerStep
<1> QED
  BY <1>1, <1>2, <1>3, QueueTypeCorrect, PTL DEF Spec

-------------------------------------------------------------------------------
\* A job is in a worker's hands or on its way back to one.
Kept(j) ==
    \/ \E w \in Workers : Carries(w, j)
    \/ \E e \in Entries : stream[e] = j /\ WillReturn(e)

\* The other workers stand still and the stream only grows.
OthersStill(w) ==
    /\ \A v \in Workers \ {w} :
          pc'[v] = pc[v] /\ cur'[v] = cur[v] /\ seen'[v] = seen[v]
    /\ \A e \in Entries : e \in Entries' /\ stream'[e] = stream[e]

\* A kept job stays kept if the moving worker does not let go of it and spoils
\* none of its entries.
LEMMA KeptStep ==
    ASSUME TypeOK, NEW w \in Workers, NEW j \in Jobs, OthersStill(w), Kept(j),
           \A e \in Entries : stream[e] = j /\ WillReturn(e) =>
               (e > delivered' \/ e \in pel') /\ ~Discards(w, e)',
           Carries(w, j) => Kept(j)'
    PROVE  Kept(j)'
<1>1. CASE \E v \in Workers \ {w} : Carries(v, j)
  <2>1. PICK v \in Workers \ {w} : Carries(v, j)
    BY <1>1
  <2>2. cur[v] \in Entries
    BY <2>1 DEF Carries, TypeOK, HandsTyped, QueueTyped, Entries
  <2>3. Carries(v, j)'
    BY <2>1, <2>2 DEF OthersStill, Carries, JobOf, FoundDead
  <2> QED
    BY <2>3 DEF Kept
<1>2. CASE \E e \in Entries : stream[e] = j /\ WillReturn(e)
  <2>1. PICK e \in Entries : stream[e] = j /\ WillReturn(e)
    BY <1>2
  <2>2. \A v \in Workers \ {w} : ~Discards(v, e)'
    BY <2>1 DEF WillReturn, OthersStill, Discards, FoundDead
  <2>3. WillReturn(e)' /\ e \in Entries' /\ stream'[e] = j
    BY <2>1, <2>2 DEF WillReturn, OthersStill
  <2> QED
    BY <2>3 DEF Kept
<1> QED
  BY <1>1, <1>2 DEF Kept

\* Workers that stay with their entry and keep its job in their hands.
LEMMA CarryStep ==
    ASSUME TypeOK, NoJobLost, NEW w \in Workers, cur[w] # 0,
           NEW p \in CarryingPlaces, pc' = [pc EXCEPT ![w] = p],
           p \in {"dlqAck", "dlqAdd", "dlqMark"} => seen'[w] # "dlq",
           UNCHANGED <<stream, delivered, cur, call>>,
           dropped \subseteq dropped',
           pel' = pel \/ pel' = pel \ {cur[w]},
           \A v \in Workers \ {w} : seen'[v] = seen[v],
           \A j \in Jobs \ {JobOf(w)} : status'[j] = status[j]
    PROVE  NoJobLost'
<1> SUFFICES ASSUME NEW j \in Jobs, call'[j] = "sent", status'[j] \notin Terminal,
                    j \notin dropped'
             PROVE  Kept(j)'
  BY DEF NoJobLost, Kept
<1>1. CASE j = JobOf(w)
  <2>1. pc'[w] = p
    BY DEF TypeOK, HandsTyped
  <2>2. Carries(w, j)'
    BY <1>1, <2>1 DEF Carries, JobOf, FoundDead, CarryingPlaces
  <2> QED
    BY <2>2 DEF Kept
<1>2. CASE j # JobOf(w)
  <2>1. Kept(j)
    BY <1>2 DEF NoJobLost, Kept
  <2>2. OthersStill(w)
    BY DEF OthersStill, Entries, TypeOK, HandsTyped
  <2>3. pc'[w] = p
    BY DEF TypeOK, HandsTyped
  <2>4. \A e \in Entries : stream[e] = j /\ WillReturn(e) =>
            (e > delivered' \/ e \in pel') /\ ~Discards(w, e)'
    BY <1>2, <2>3 DEF WillReturn, Discards, FoundDead, JobOf, CarryingPlaces
  <2>5. ~Carries(w, j)
    BY <1>2 DEF Carries
  <2> QED
    BY <2>1, <2>2, <2>4, <2>5, KeptStep
<1> QED
  BY <1>1, <1>2

\* Workers that are not in charge of the job of their entry, before the step.
LEMMA BystanderStep ==
    ASSUME TypeOK, NoJobLost, NEW w \in Workers, OthersStill(w),
           UNCHANGED <<call, status>>, dropped \subseteq dropped',
           \A j \in Jobs : ~Carries(w, j),
           \A e \in Entries :
               WillReturn(e) => (e > delivered' \/ e \in pel') /\
                   (status[stream[e]] \notin Terminal => ~Discards(w, e)')
    PROVE  NoJobLost'
<1> SUFFICES ASSUME NEW j \in Jobs, call'[j] = "sent", status'[j] \notin Terminal,
                    j \notin dropped'
             PROVE  Kept(j)'
  BY DEF NoJobLost, Kept
<1>1. Kept(j)
  BY DEF NoJobLost, Kept
<1> QED
  BY <1>1, KeptStep

\* Workers that finish the job of their entry: its row becomes terminal.
LEMMA TerminalStep ==
    ASSUME TypeOK, NoJobLost, NEW w \in Workers, cur[w] # 0, OthersStill(w),
           UNCHANGED <<call, delivered, pel>>, dropped \subseteq dropped',
           status'[JobOf(w)] \in Terminal,
           \A j \in Jobs \ {JobOf(w)} : status'[j] = status[j],
           \A e \in Entries : Discards(w, e)' => e = cur[w]
    PROVE  NoJobLost'
<1> SUFFICES ASSUME NEW j \in Jobs, call'[j] = "sent", status'[j] \notin Terminal,
                    j \notin dropped'
             PROVE  Kept(j)'
  BY DEF NoJobLost, Kept
<1>1. j # JobOf(w)
  OBVIOUS
<1>2. Kept(j) /\ ~Carries(w, j)
  BY <1>1 DEF NoJobLost, Kept, Carries
<1>3. \A e \in Entries : stream[e] = j /\ WillReturn(e) =>
          (e > delivered' \/ e \in pel') /\ ~Discards(w, e)'
  BY <1>1 DEF WillReturn, JobOf
<1> QED
  BY <1>2, <1>3, KeptStep

\* The steps of a worker that keeps the job of its entry.
LEMMA CarryingWork ==
    ASSUME TypeOK, NoJobLost, NEW w \in Workers,
           \/ Start(w) \/ Reject(w) \/ Acquire(w) \/ AcquireDegraded(w) \/ Skip(w)
           \/ Hydrate(w) \/ PipelineRaises(w) \/ CountFailure(w) \/ CommitFailure(w)
           \/ Retry(w) \/ RetryAck(w) \/ CompletionRaises(w)
    PROVE  NoJobLost'
<1>1. PICK p \in {"handle", "hydrate", "succeed", "fail", "failed", "decide",
                  "retryAck", "backoff"} : pc' = [pc EXCEPT ![w] = p]
  BY DEF Start, Reject, Acquire, AcquireDegraded, Skip, Hydrate, PipelineRaises,
     CountFailure, CommitFailure, Retry, RetryAck, CompletionRaises, Move
<1>2. pc[w] \notin {"claim", "read", "load"}
  BY DEF Start, Reject, Acquire, AcquireDegraded, Skip, Hydrate, PipelineRaises,
     CountFailure, CommitFailure, Retry, RetryAck, CompletionRaises, Move
<1>3. UNCHANGED <<stream, delivered, cur, call, dropped>>
  BY DEF Start, Reject, Acquire, AcquireDegraded, Skip, Hydrate, PipelineRaises,
     CountFailure, CommitFailure, Retry, RetryAck, CompletionRaises, queueVars
<1>4. pel' = pel \/ pel' = pel \ {cur[w]}
  BY DEF Start, Reject, Acquire, AcquireDegraded, Skip, Hydrate, PipelineRaises,
     CountFailure, CommitFailure, Retry, RetryAck, CompletionRaises, queueVars, Xack
<1>5. \A v \in Workers \ {w} : seen'[v] = seen[v]
  BY DEF Start, Reject, Acquire, AcquireDegraded, Skip, Hydrate, PipelineRaises,
     CountFailure, CommitFailure, Retry, RetryAck, CompletionRaises, sessionVars,
     Forget, Reload, TypeOK, RowsTyped
<1>6. \A j \in Jobs \ {JobOf(w)} : status'[j] = status[j]
  BY DEF Start, Reject, Acquire, AcquireDegraded, Skip, Hydrate, PipelineRaises,
     CountFailure, CommitFailure, Retry, RetryAck, CompletionRaises, rowVars,
     NetStatus, TypeOK, RowsTyped
<1>7. cur[w] # 0
  BY <1>2 DEF TypeOK, HandsTyped
<1>8. p \in CarryingPlaces
  BY DEF CarryingPlaces
<1> QED
  BY <1>1, <1>3, <1>4, <1>5, <1>6, <1>7, <1>8, CarryStep

\* Fetching entries, and letting go of those whose job is somebody else's concern.
LEMMA BystandingWork ==
    ASSUME TypeOK, NoJobLost, NEW w \in Workers,
           \/ Claim(w) \/ Read(w) \/ Load(w) \/ AckOnly(w) \/ AckSuccess(w)
           \/ Insert(w) /\ status[JobOf(w)] # "none"
           \/ FoundDead(w) /\ (DlqAck(w) \/ DlqAdd(w) \/ DlqMark(w))
    PROVE  NoJobLost'
<1> USE ConstantsAssumption DEF queueVars, rowVars, sessionVars
<1>1. \A v \in Workers \ {w} :
         pc'[v] = pc[v] /\ cur'[v] = cur[v] /\ seen'[v] = seen[v]
  BY DEF Claim, Read, Load, AckOnly, AckSuccess, Insert, DlqAck, DlqAdd, DlqMark,
     Finish, Move, Forget, TypeOK, HandsTyped, RowsTyped
<1>2. UNCHANGED <<stream, call, dropped>>
  BY DEF Claim, Read, Load, AckOnly, AckSuccess, Insert, DlqAck, DlqAdd, DlqMark
<1>3. OthersStill(w)
  BY <1>1, <1>2 DEF OthersStill, Entries
<1>4. UNCHANGED status
  <2>1. CASE FoundDead(w) /\ DlqMark(w)
    <3>1. status' = [status EXCEPT ![JobOf(w)] = IF seen[w] = "dlq" THEN @ ELSE "dlq"]
      BY <2>1 DEF DlqMark, NetStatus
    <3>2. seen[w] = "dlq"
      BY <2>1 DEF FoundDead
    <3> QED
      BY <3>1, <3>2 DEF TypeOK, RowsTyped
  <2> QED
    BY <2>1 DEF Claim, Read, Load, AckOnly, AckSuccess, Insert, DlqAck, DlqAdd
<1>5. \A j \in Jobs : ~Carries(w, j)
  BY DEF Claim, Read, Load, AckOnly, AckSuccess, Insert, Finish, Move, Carries,
     CarryingPlaces
<1>6. ASSUME NEW e \in Entries, WillReturn(e)
      PROVE  (e > delivered' \/ e \in pel') /\
                 (status[stream[e]] \notin Terminal => ~Discards(w, e)')
  <2>1. (e > delivered \/ e \in pel) /\ ~Discards(w, e)
    BY <1>6 DEF WillReturn
  <2>2. CASE Claim(w)
    BY <2>1, <2>2 DEF Claim, Move, Discards, FoundDead, TypeOK, HandsTyped
  <2>3. CASE Read(w)
    <3>1. PICK last : /\ last = IF Len(stream) < delivered + BatchSize
                                  THEN Len(stream) ELSE delivered + BatchSize
                      /\ delivered' = last
                      /\ pel' = pel \cup (delivered + 1 .. last)
      BY <2>3 DEF Read
    <3>2. e > delivered' \/ e \in pel'
      BY <2>1, <3>1 DEF Entries, TypeOK, QueueTyped
    <3>3. pc'[w] \in {"claim", "load"}
      BY <2>3 DEF Read, Move, TypeOK, HandsTyped
    <3> QED
      BY <3>2, <3>3 DEF Discards, FoundDead
  <2>4. CASE Load(w)
    <3>1. PICK d \in batch[w] :
             /\ pc' = [pc EXCEPT ![w] = IF status[stream[d]] = "none" THEN "insert"
                                  ELSE IF status[stream[d]] \in Terminal
                                         THEN "ackOnly" ELSE "start"]
             /\ cur' = [cur EXCEPT ![w] = d]
      BY <2>4 DEF Load, Settled, Move
    <3>2. cur'[w] = d
      BY <3>1 DEF TypeOK, HandsTyped
    <3>3. status[stream[d]] \notin Terminal => pc'[w] \in {"insert", "start"}
      BY <3>1 DEF TypeOK, HandsTyped
    <3>4. UNCHANGED <<delivered, pel>>
      BY <2>4 DEF Load, Settled
    <3> QED
      BY <2>1, <3>2, <3>3, <3>4 DEF Discards, FoundDead
  <2>5. CASE AckOnly(w) \/ AckSuccess(w)
    <3>1. pc[w] \in {"ackOnly", "ack"} /\ pc'[w] \in {"claim", "load"}
      BY <2>5 DEF AckOnly, AckSuccess, Finish, Move, TypeOK, HandsTyped
    <3>2. pel' = pel \ {cur[w]} /\ UNCHANGED delivered
      BY <2>5 DEF AckOnly, AckSuccess, Xack
    <3> QED
      BY <2>1, <3>1, <3>2 DEF Discards, FoundDead
  <2>6. CASE Insert(w) /\ status[JobOf(w)] # "none"
    <3>1. pc'[w] = "claim" /\ UNCHANGED <<delivered, pel>>
      BY <2>6 DEF Insert, Move, TypeOK, HandsTyped
    <3> QED
      BY <2>1, <3>1 DEF Discards, FoundDead
  <2>7. CASE FoundDead(w) /\ DlqAck(w)
    <3>1. pc[w] = "dlqAck" /\ pc'[w] = "dlqAdd"
      BY <2>7 DEF DlqAck, Move, TypeOK, HandsTyped
    <3>2. pel' = pel \ {cur[w]} /\ UNCHANGED delivered
      BY <2>7 DEF DlqAck, Xack
    <3> QED
      BY <2>1, <2>7, <3>1, <3>2 DEF Discards
  <2>8. CASE DlqAdd(w) \/ DlqMark(w)
    <3>1. pc'[w] \in {"dlqMark", "claim", "load"} /\ UNCHANGED <<delivered, pel>>
      BY <2>8 DEF DlqAdd, DlqMark, Finish, Move, TypeOK, HandsTyped
    <3> QED
      BY <2>1, <3>1 DEF Discards, FoundDead
  <2> QED
    BY <2>2, <2>3, <2>4, <2>5, <2>6, <2>7, <2>8
<1> QED
  BY <1>2, <1>3, <1>4, <1>5, <1>6, BystanderStep

\* The steps around the creation of the row and around the dead-letter queue.
LEMMA RowAndDlqWork ==
    ASSUME TypeOK, NoJobLost, NEW w \in Workers,
           \/ Insert(w) \/ Succeed(w) \/ Decide(w)
           \/ DlqAck(w) \/ DlqAdd(w) \/ DlqMark(w)
    PROVE  NoJobLost'
<1> USE DEF queueVars, rowVars, sessionVars
<1>1. cur[w] # 0
  BY DEF Insert, Succeed, Decide, DlqAck, DlqAdd, DlqMark, Finish, Move, TypeOK,
     HandsTyped
<1>2. UNCHANGED <<stream, delivered, call, dropped>>
  BY DEF Insert, Succeed, Decide, DlqAck, DlqAdd, DlqMark
<1>3. \A v \in Workers \ {w} :
         pc'[v] = pc[v] /\ cur'[v] = cur[v] /\ seen'[v] = seen[v]
  BY DEF Insert, Succeed, Decide, DlqAck, DlqAdd, DlqMark, Finish, Move, Forget,
     Reload, TypeOK, HandsTyped, RowsTyped
<1>4. OthersStill(w)
  BY <1>2, <1>3 DEF OthersStill, Entries
<1>5. \A j \in Jobs \ {JobOf(w)} : status'[j] = status[j]
  BY DEF Insert, Succeed, Decide, DlqAck, DlqAdd, DlqMark, NetStatus, TypeOK, RowsTyped
<1>6. JobOf(w) \in Jobs
  BY <1>1 DEF JobOf, TypeOK, HandsTyped, QueueTyped
<1>7. {"start", "retry", "dlqAck", "dlqAdd", "dlqMark"} \subseteq CarryingPlaces
  BY DEF CarryingPlaces
<1>8. CASE Insert(w)
  <2>1. CASE status[JobOf(w)] # "none"
    BY <1>8, <2>1, BystandingWork
  <2>2. CASE status[JobOf(w)] = "none"
    <3>1. pc' = [pc EXCEPT ![w] = "start"] /\ UNCHANGED <<cur, pel>>
      BY <1>8, <2>2 DEF Insert, Move
    <3> QED
      BY <1>1, <1>2, <1>3, <1>5, <1>7, <3>1, CarryStep
  <2> QED
    BY <2>1, <2>2
<1>9. CASE Succeed(w)
  <2>1. status'[JobOf(w)] = "success" /\ UNCHANGED pel
    BY <1>6, <1>9 DEF Succeed, TypeOK, RowsTyped
  <2>2. UNCHANGED cur
    BY <1>9 DEF Succeed
  <2>3. \A e \in Entries : Discards(w, e)' => e = cur[w]
    BY <2>2 DEF Discards
  <2> QED
    BY <1>1, <1>2, <1>4, <1>5, <2>1, <2>3, TerminalStep DEF Terminal
<1>10. CASE Decide(w)
  <2>1. UNCHANGED <<cur, pel, status>>
    BY <1>10 DEF Decide
  <2>2. seen'[w] = status[JobOf(w)]
    BY <1>10 DEF Decide, Reload, TypeOK, RowsTyped
  <2>3. CASE status[JobOf(w)] = "dlq"
    <3>1. \A e \in Entries : Discards(w, e)' => e = cur[w]
      BY <2>1 DEF Discards
    <3> QED
      BY <1>1, <1>2, <1>4, <1>5, <2>1, <2>3, <3>1, TerminalStep DEF Terminal
  <2>4. CASE status[JobOf(w)] # "dlq"
    <3>1. PICK p \in {"retry", "dlqAck"} : pc' = [pc EXCEPT ![w] = p]
      BY <1>10 DEF Decide, Move
    <3> QED
      BY <1>1, <1>2, <1>3, <1>5, <1>7, <2>1, <2>2, <2>4, <3>1, CarryStep
  <2> QED
    BY <2>3, <2>4
<1>11. CASE DlqAck(w) \/ DlqAdd(w)
  <2>1. CASE FoundDead(w)
    BY <1>11, <2>1, BystandingWork
  <2>2. CASE ~FoundDead(w)
    <3>1. PICK p \in {"dlqAdd", "dlqMark"} : pc' = [pc EXCEPT ![w] = p]
      BY <1>11 DEF DlqAck, DlqAdd, Move
    <3>2. seen'[w] # "dlq"
      BY <1>11, <2>2 DEF FoundDead, DlqAck, DlqAdd, Move
    <3>3. (pel' = pel \/ pel' = pel \ {cur[w]}) /\ UNCHANGED cur
      BY <1>11 DEF DlqAck, DlqAdd, Xack
    <3> QED
      BY <1>1, <1>2, <1>3, <1>5, <1>7, <3>1, <3>2, <3>3, CarryStep
  <2> QED
    BY <2>1, <2>2
<1>12. CASE DlqMark(w)
  <2>1. CASE FoundDead(w)
    BY <1>12, <2>1, BystandingWork
  <2>2. CASE ~FoundDead(w)
    <3>1. pc[w] = "dlqMark" /\ seen[w] # "dlq" /\ UNCHANGED pel
      BY <1>12, <2>2 DEF FoundDead, DlqMark, Finish, Move
    <3>2. status'[JobOf(w)] = "dlq"
      BY <1>6, <1>12, <3>1 DEF DlqMark, NetStatus, TypeOK, RowsTyped
    <3>3. pc'[w] \in {"claim", "load"}
      BY <1>12 DEF DlqMark, Finish, Move, TypeOK, HandsTyped
    <3>4. \A e \in Entries : ~Discards(w, e)'
      BY <3>3 DEF Discards, FoundDead
    <3> QED
      BY <1>1, <1>2, <1>4, <1>5, <3>1, <3>2, <3>4, TerminalStep DEF Terminal
  <2> QED
    BY <2>1, <2>2
<1> QED
  BY <1>8, <1>9, <1>10, <1>11, <1>12

\* Putting the job back: the new entry will be delivered.
LEMMA RequeueKeeps ==
    ASSUME TypeOK, NoJobLost, NEW w \in Workers, Requeue(w)
    PROVE  NoJobLost'
<1>1. pc[w] = "backoff" /\ pc'[w] \in {"claim", "load"}
  BY DEF Requeue, Finish, Move, TypeOK, HandsTyped
<1>a. cur[w] \in Entries
  <2>1. cur[w] # 0 /\ cur[w] \in 0 .. delivered
    BY <1>1 DEF TypeOK, HandsTyped
  <2> QED
    BY <2>1 DEF TypeOK, QueueTyped, Entries
<1>2. PICK i \in Jobs : i = JobOf(w)
  BY <1>a DEF JobOf, TypeOK, QueueTyped, Entries
<1>3. stream' = Append(stream, i)
  BY <1>2 DEF Requeue, Xadd
<1>4. UNCHANGED <<delivered, pel, call, status, dropped>>
  BY DEF Requeue, rowVars
<1>5. \A v \in Workers \ {w} :
         pc'[v] = pc[v] /\ cur'[v] = cur[v] /\ seen'[v] = seen[v]
  BY DEF Requeue, Finish, Move, Forget, TypeOK, HandsTyped, RowsTyped
<1>6. OthersStill(w)
  BY <1>2, <1>3, <1>5 DEF OthersStill, Entries, TypeOK, QueueTyped
<1>7. cur' = [cur EXCEPT ![w] = 0]
  BY DEF Requeue, Finish
<1>8. Kept(i)'
  <2>1. PICK new : new = Len(stream) + 1
    OBVIOUS
  <2>2. new \in Entries' /\ stream'[new] = i /\ new > delivered' /\ new # 0
    BY <1>2, <1>3, <1>4, <2>1 DEF Entries, TypeOK, QueueTyped
  <2>3. \A v \in Workers : cur'[v] # new
    BY <1>4, <1>7, <2>2 DEF TypeOK, HandsTyped, QueueTyped
  <2>4. WillReturn(new)'
    BY <2>2, <2>3 DEF WillReturn, Discards
  <2> QED
    BY <2>2, <2>4 DEF Kept
<1> SUFFICES ASSUME NEW j \in Jobs, call'[j] = "sent", status'[j] \notin Terminal,
                    j \notin dropped'
             PROVE  Kept(j)'
  BY DEF NoJobLost, Kept
<1>9. CASE j = i
  BY <1>8, <1>9
<1>10. CASE j # i
  <2>1. Kept(j) /\ ~Carries(w, j)
    BY <1>2, <1>4, <1>10 DEF NoJobLost, Kept, Carries
  <2>2. \A e \in Entries : WillReturn(e) =>
            (e > delivered' \/ e \in pel') /\ ~Discards(w, e)'
    BY <1>1, <1>4 DEF WillReturn, Discards, FoundDead
  <2> QED
    BY <1>6, <2>1, <2>2, KeptStep
<1> QED
  BY <1>9, <1>10

\* An interruption: the jobs it loses are the dropped ones.
LEMMA InterruptKeeps ==
    ASSUME TypeOK, NoJobLost, NEW w \in Workers, Interrupt(w)
    PROVE  NoJobLost'
<1>1. pc'[w] = "claim"
  BY DEF Interrupt, TypeOK, HandsTyped
<1>2. UNCHANGED <<stream, delivered, pel, call, status>>
  BY DEF Interrupt, queueVars, rowVars
<1>3. \A v \in Workers \ {w} :
         pc'[v] = pc[v] /\ cur'[v] = cur[v] /\ seen'[v] = seen[v]
  BY DEF Interrupt, Forget, TypeOK, HandsTyped, RowsTyped
<1>4. OthersStill(w)
  BY <1>2, <1>3 DEF OthersStill, Entries
<1> SUFFICES ASSUME NEW j \in Jobs, call'[j] = "sent", status'[j] \notin Terminal,
                    j \notin dropped'
             PROVE  Kept(j)'
  BY DEF NoJobLost, Kept
<1>5. \A e \in Entries : stream[e] = j /\ WillReturn(e) =>
          (e > delivered' \/ e \in pel') /\ ~Discards(w, e)'
  BY <1>1, <1>2 DEF WillReturn, Discards, FoundDead
<1>6. j \notin dropped /\ Kept(j)
  BY <1>2 DEF Interrupt, NoJobLost, Kept
<1>7. ASSUME Carries(w, j) PROVE Kept(j)'
  <2>1. PICK e \in Entries : stream[e] = j /\ WillReturn(e)
    BY <1>7 DEF Interrupt
  <2>2. \A v \in Workers : ~Discards(v, e)'
    BY <1>3, <1>5, <2>1 DEF WillReturn, Discards, FoundDead
  <2>3. WillReturn(e)' /\ e \in Entries' /\ stream'[e] = j
    BY <1>2, <1>5, <2>1, <2>2 DEF WillReturn, Entries
  <2> QED
    BY <2>3 DEF Kept
<1> QED
  BY <1>4, <1>5, <1>6, <1>7, KeptStep

\* Enqueueing, Redis and the scheduler lose no job.
LEMMA OutsideKeeps ==
    ASSUME TypeOK, NoJobLost,
           \/ \E j \in Jobs : Enqueue(j)
           \/ \E e \in Entries : GrowIdle(e)
           \/ \E s \in Workspaces :
                LockExpires(s) \/ SchedulerLocks(s) \/ SchedulerUnlocks(s)
           \/ UNCHANGED vars
    PROVE  NoJobLost'
<1> USE DEF queueVars, rowVars, sessionVars
<1>1. UNCHANGED <<delivered, pel, pc, cur, seen, dropped>>
  BY DEF Enqueue, Mirror, Send, SendFails, GrowIdle, LockExpires, SchedulerLocks,
     SchedulerUnlocks, vars
<1>2. stream' = stream \/ \E i \in Jobs : Send(i) /\ stream' = Append(stream, i)
  BY DEF Enqueue, Mirror, Send, SendFails, GrowIdle, LockExpires, SchedulerLocks,
     SchedulerUnlocks, vars, Xadd
<1>3. \A e \in Entries : e \in Entries' /\ stream'[e] = stream[e]
  BY <1>2 DEF Entries, TypeOK, QueueTyped
<1>4. ASSUME NEW j \in Jobs, Kept(j) PROVE Kept(j)'
  <2>1. CASE \E v \in Workers : Carries(v, j)
    <3>1. PICK v \in Workers : Carries(v, j)
      BY <2>1
    <3>2. cur[v] \in Entries
      BY <3>1 DEF Carries, TypeOK, HandsTyped, QueueTyped, Entries
    <3>3. Carries(v, j)'
      BY <1>1, <1>3, <3>1, <3>2 DEF Carries, JobOf, FoundDead
    <3> QED
      BY <3>3 DEF Kept
  <2>2. CASE \E e \in Entries : stream[e] = j /\ WillReturn(e)
    <3>1. PICK e \in Entries : stream[e] = j /\ WillReturn(e)
      BY <2>2
    <3>2. WillReturn(e)'
      BY <1>1, <3>1 DEF WillReturn, Discards, FoundDead
    <3> QED
      BY <1>3, <3>1, <3>2 DEF Kept
  <2> QED
    BY <1>4, <2>1, <2>2 DEF Kept
<1>5. ASSUME NEW j \in Jobs, Send(j) PROVE Kept(j)'
  <2>1. PICK new : new = Len(stream) + 1
    OBVIOUS
  <2>2. new \in Entries' /\ stream'[new] = j /\ new > delivered' /\ new # 0
    BY <1>1, <1>5, <2>1 DEF Send, Xadd, Entries, TypeOK, QueueTyped
  <2>3. \A v \in Workers : cur'[v] # new
    BY <1>1, <2>2 DEF TypeOK, HandsTyped, QueueTyped
  <2>4. WillReturn(new)'
    BY <2>2, <2>3 DEF WillReturn, Discards
  <2> QED
    BY <2>2, <2>4 DEF Kept
<1>6. \A j \in Jobs : call'[j] = "sent" => call[j] = "sent" \/ Send(j)
  <2>1. ASSUME NEW i \in Jobs, Enqueue(i), NEW j \in Jobs, call'[j] = "sent"
        PROVE  call[j] = "sent" \/ Send(j)
    BY <2>1 DEF Enqueue, Mirror, Send, SendFails, TypeOK, QueueTyped
  <2> QED
    BY <2>1 DEF GrowIdle, LockExpires, SchedulerLocks, SchedulerUnlocks, vars
<1>7. \A j \in Jobs : status'[j] \notin Terminal /\ call[j] = "sent" =>
                          status[j] \notin Terminal
  <2>1. ASSUME NEW i \in Jobs, Enqueue(i), NEW j \in Jobs,
               status'[j] \notin Terminal, call[j] = "sent"
        PROVE  status[j] \notin Terminal
    BY <2>1 DEF Enqueue, Mirror, Send, SendFails, TypeOK, QueueTyped, RowsTyped
  <2> QED
    BY <2>1 DEF GrowIdle, LockExpires, SchedulerLocks, SchedulerUnlocks, vars
<1> QED
  BY <1>1, <1>4, <1>5, <1>6, <1>7 DEF NoJobLost, Kept

\* However the workers overlap and whatever fails, a job that was sent is carried
\* by a worker or comes back to one, unless an interruption dropped it.
THEOREM QueueNoJobLost == Spec => []NoJobLost
<1>1. Init => NoJobLost
  BY DEF Init, NoJobLost
<1>2. TypeOK /\ NoJobLost /\ [Next]_vars => NoJobLost'
  BY CarryingWork, BystandingWork, RowAndDlqWork, RequeueKeeps, InterruptKeeps,
     OutsideKeeps DEF Next, Work, Fault
<1> QED
  BY <1>1, <1>2, QueueTypeCorrect, PTL DEF Spec

-----------------------------------------------------------------------------
(* FinishedIsFinal.  The row of a job is written by a worker that runs the job  *)
(* or creates the row, and by the mirror before the job is sent.                *)

\* Entries and finished rows are of jobs that were sent.
OnlySent ==
    /\ \A e \in Entries : call[stream[e]] = "sent"
    /\ \A j \in Jobs : status[j] \in Terminal => call[j] = "sent"

\* What a step of a worker may write: the row of the job it runs, or a missing row.
LEMMA RowWritten ==
    ASSUME TypeOK, NEW w \in Workers, Work(w) \/ Fault(w), NEW j \in Jobs,
           status'[j] # status[j] \/ attempts'[j] # attempts[j]
    PROVE  /\ cur[w] # 0 /\ JobOf(w) = j
           /\ Runs(w, j) \/ status[j] = "none"
<1> USE DEF TypeOK, HandsTyped, RowsTyped, rowVars, Move, Runs, CarryingPlaces
<1>1. CASE Insert(w)
  BY <1>1 DEF Insert
<1>2. CASE Start(w) \/ Succeed(w) \/ CommitFailure(w) \/ Retry(w) \/ DlqMark(w)
  BY <1>2 DEF Start, Succeed, CommitFailure, Retry, DlqMark, NetStatus, Finish
<1>3. CASE \/ Claim(w) \/ Read(w) \/ Load(w) \/ AckOnly(w) \/ Reject(w) \/ Acquire(w)
           \/ Skip(w) \/ Hydrate(w) \/ PipelineRaises(w) \/ AckSuccess(w)
           \/ CountFailure(w) \/ Decide(w) \/ RetryAck(w) \/ Requeue(w) \/ DlqAck(w)
           \/ DlqAdd(w) \/ Fault(w)
  BY <1>3 DEF Claim, Read, Load, AckOnly, Reject, Acquire, Skip, Hydrate,
     PipelineRaises, AckSuccess, CountFailure, Decide, RetryAck, Requeue, DlqAck,
     DlqAdd, Fault, AcquireDegraded, CompletionRaises, Interrupt
<1> QED
  BY <1>1, <1>2, <1>3 DEF Work

\* A worker adds at most one entry, of the job in its hands.
LEMMA EntryAdded ==
    ASSUME TypeOK, NEW w \in Workers, Work(w) \/ Fault(w)
    PROVE  /\ UNCHANGED call
           /\ stream' = stream \/ (cur[w] # 0 /\ stream' = Append(stream, JobOf(w)))
<1> USE DEF TypeOK, HandsTyped, queueVars, Move
<1>1. CASE Requeue(w)
  BY <1>1 DEF Requeue, Xadd, Finish
<1>2. CASE \/ Claim(w) \/ Read(w) \/ Load(w) \/ Insert(w) \/ AckOnly(w) \/ Start(w)
           \/ Reject(w) \/ Acquire(w) \/ Skip(w) \/ Hydrate(w) \/ PipelineRaises(w)
           \/ Succeed(w) \/ AckSuccess(w) \/ CountFailure(w) \/ CommitFailure(w)
           \/ Decide(w) \/ Retry(w) \/ RetryAck(w) \/ DlqAck(w) \/ DlqAdd(w)
           \/ DlqMark(w) \/ Fault(w)
  BY <1>2 DEF Claim, Read, Load, Insert, AckOnly, Start, Reject, Acquire, Skip,
     Hydrate, PipelineRaises, Succeed, AckSuccess, CountFailure, CommitFailure,
     Decide, Retry, RetryAck, DlqAck, DlqAdd, DlqMark, Fault, AcquireDegraded,
     CompletionRaises, Interrupt
<1> QED
  BY <1>1, <1>2 DEF Work

\* An entry is never changed.
LEMMA EntriesStay ==
    ASSUME stream \in Seq(Jobs), stream' = stream \/ \E j \in Jobs : stream' = Append(stream, j)
    PROVE  \A e \in Entries : e \in Entries' /\ stream'[e] = stream[e]
BY DEF Entries

\* Entries and finished rows stay those of sent jobs.
LEMMA OnlySentKept == TypeOK /\ OnlySent /\ [Next]_vars => OnlySent'
<1> SUFFICES ASSUME TypeOK, OnlySent, [Next]_vars PROVE OnlySent'
  OBVIOUS
<1> USE DEF TypeOK, QueueTyped, RowsTyped, HandsTyped, Entries, OnlySent
<1>1. ASSUME NEW w \in Workers, Work(w) \/ Fault(w) PROVE OnlySent'
  <2>1. cur[w] # 0 => JobOf(w) \in Jobs /\ call[JobOf(w)] = "sent"
    BY DEF JobOf
  <2>2. \A e \in Entries' : call'[stream'[e]] = "sent"
    <3>1. CASE stream' = stream
      BY <1>1, <3>1, EntryAdded
    <3>2. CASE cur[w] # 0 /\ stream' = Append(stream, JobOf(w))
      <4>1. UNCHANGED call
        BY <1>1, EntryAdded
      <4>2. PICK j \in Jobs : call[j] = "sent" /\ stream' = Append(stream, j)
        BY <2>1, <3>2
      <4>3. \A e \in 1 .. Len(stream') :
              stream'[e] = j \/ (e \in 1 .. Len(stream) /\ stream'[e] = stream[e])
        BY <4>2
      <4> QED
        BY <4>1, <4>2, <4>3
    <3> QED
      BY <1>1, <3>1, <3>2, EntryAdded
  <2>3. ASSUME NEW j \in Jobs, status'[j] \in Terminal PROVE call'[j] = "sent"
    BY <1>1, <2>1, <2>3, EntryAdded, RowWritten
  <2> QED
    BY <2>2, <2>3
<1>2. ASSUME NEW j \in Jobs, Enqueue(j) PROVE OnlySent'
  <2>1. CASE Mirror(j)
    BY <2>1 DEF Mirror, queueVars, Terminal
  <2>2. CASE Send(j)
    BY <2>2 DEF Send, Xadd, rowVars
  <2>3. CASE SendFails(j)
    BY <2>3 DEF SendFails, queueVars, rowVars
  <2> QED
    BY <1>2, <2>1, <2>2, <2>3 DEF Enqueue
<1>3. ASSUME UNCHANGED <<stream, call, status>> PROVE OnlySent'
  BY <1>3
<1> QED
  BY <1>1, <1>2, <1>3 DEF Next, vars, queueVars, rowVars, GrowIdle, LockExpires,
     SchedulerLocks, SchedulerUnlocks

\* A worker comes to run a job only when it has seen it unfinished.
LEMMA RunBegins ==
    ASSUME TypeOK, NEW w \in Workers, Work(w) \/ Fault(w), NEW j \in Jobs,
           NEW v \in Workers, Runs(v, j)', ~Runs(v, j)
    PROVE  status[j] \notin Terminal
<1> USE DEF TypeOK, QueueTyped, HandsTyped, RowsTyped, Move, Runs, CarryingPlaces, JobOf,
        queueVars, Terminal
<1>1. \A u \in Workers : cur[u] # 0 => cur[u] \in Entries /\ stream[cur[u]] \in Jobs
  BY DEF Entries
<1>2. \A e \in Entries : e \in Entries' /\ stream'[e] = stream[e]
  BY <1>1, EntryAdded, EntriesStay
<1>3. CASE Load(w)
  BY <1>3 DEF Load, Settled
<1>4. CASE Insert(w)
  BY <1>4 DEF Insert
<1>5. CASE Requeue(w) \/ AckOnly(w) \/ AckSuccess(w) \/ DlqMark(w)
  BY <1>1, <1>2, <1>5 DEF Requeue, AckOnly, AckSuccess, DlqMark, Finish
<1>6. CASE \/ Claim(w) \/ Read(w) \/ Start(w)
           \/ Reject(w) \/ Acquire(w) \/ Skip(w) \/ Hydrate(w) \/ PipelineRaises(w)
           \/ Succeed(w)
  BY <1>6 DEF Claim, Read, Start, Reject, Acquire, Skip,
     Hydrate, PipelineRaises, Succeed
<1>7. CASE \/ CountFailure(w) \/ CommitFailure(w)
           \/ Decide(w) \/ Retry(w) \/ RetryAck(w) \/ DlqAck(w) \/ DlqAdd(w)
           \/ Fault(w)
  BY <1>7 DEF CountFailure, CommitFailure, Decide, Retry, RetryAck, DlqAck, DlqAdd,
     Fault, AcquireDegraded, CompletionRaises, Interrupt
<1> QED
  BY <1>3, <1>4, <1>5, <1>6, <1>7 DEF Work

\* A finished job that nobody runs is never run again and its row never changes,
\* however many entries of it are still in the stream.
THEOREM QueueFinishedIsFinal == Spec => FinishedIsFinal
<1>1. Init => OnlySent
  BY DEF Init, OnlySent, Entries, Terminal
<1>2. ASSUME TypeOK, TypeOK', OnlySent, [Next]_vars, NEW j \in Jobs, AtRest(j)
      PROVE  AtRest(j)' /\ status'[j] = status[j] /\ attempts'[j] = attempts[j]
  <2>1. ASSUME NEW w \in Workers, Work(w) \/ Fault(w)
        PROVE  AtRest(j)' /\ status'[j] = status[j] /\ attempts'[j] = attempts[j]
    BY <1>2, <2>1, RowWritten, RunBegins DEF AtRest, Terminal
  <2>2. ASSUME status'[j] = status[j], attempts'[j] = attempts[j],
               UNCHANGED <<pc, cur>>,
               \A e \in Entries : e \in Entries' /\ stream'[e] = stream[e]
        PROVE  AtRest(j)' /\ status'[j] = status[j] /\ attempts'[j] = attempts[j]
    BY <1>2, <2>2 DEF AtRest, Runs, JobOf, Entries, TypeOK, QueueTyped, HandsTyped
  <2>3. ASSUME NEW i \in Jobs, Enqueue(i)
        PROVE  AtRest(j)' /\ status'[j] = status[j] /\ attempts'[j] = attempts[j]
    <3>1. call[j] = "sent"
      BY <1>2 DEF OnlySent, AtRest
    <3>2. status'[j] = status[j] /\ attempts'[j] = attempts[j] /\ UNCHANGED <<pc, cur>>
      BY <1>2, <2>3, <3>1 DEF Enqueue, Mirror, Send, SendFails, rowVars, TypeOK, RowsTyped
    <3>3. stream' = stream \/ stream' = Append(stream, i)
      BY <2>3 DEF Enqueue, Mirror, Send, SendFails, Xadd, queueVars
    <3>4. \A e \in Entries : e \in Entries' /\ stream'[e] = stream[e]
      BY <1>2, <3>3, EntriesStay DEF TypeOK, QueueTyped
    <3> QED
      BY <2>2, <3>2, <3>4
  <2>4. CASE UNCHANGED <<stream, status, attempts, pc, cur>>
    BY <2>2, <2>4 DEF Entries
  <2> QED
    BY <1>2, <2>1, <2>3, <2>4 DEF Next, vars, queueVars, rowVars, GrowIdle,
       LockExpires, SchedulerLocks, SchedulerUnlocks
<1>3. TypeOK /\ TypeOK' /\ OnlySent /\ [Next]_vars =>
        [\A j \in Jobs :
           AtRest(j) => AtRest(j)' /\ status'[j] = status[j]
                                   /\ attempts'[j] = attempts[j]]_vars
  BY <1>2
<1> QED
  BY <1>1, <1>3, OnlySentKept, QueueTypeCorrect, PTL DEF Spec, FinishedIsFinal

-----------------------------------------------------------------------------
(* FaultlessSkips.  A lock without a living owner is left by a fault.          *)

\* The entry a worker handles is one of the stream.
LEMMA InHand ==
    ASSUME TypeOK, NEW w \in Workers, pc[w] \notin {"claim", "read", "load"}
    PROVE  cur[w] \in Entries /\ JobOf(w) \in Jobs
<1>1. cur[w] \in 1 .. delivered /\ delivered \in 0 .. Len(stream)
  BY DEF TypeOK, HandsTyped, QueueTyped
<1>2. stream \in Seq(Jobs)
  BY DEF TypeOK, QueueTyped
<1> QED
  BY <1>1, <1>2 DEF Entries, JobOf

OrphansAreFaults == faults = 0 => \A s \in Workspaces : lock[s] # Orphan

LEMMA OrphansStep == TypeOK /\ OrphansAreFaults /\ [Next]_vars => OrphansAreFaults'
<1> SUFFICES ASSUME TypeOK, OrphansAreFaults, [Next]_vars PROVE OrphansAreFaults'
  OBVIOUS
<1> USE ConstantsAssumption DEF OrphansAreFaults, lockVars
<1>1. faults \in Nat /\ lock \in [Workspaces -> Workers \cup {Free, Orphan, Scheduler}]
  BY DEF TypeOK, LocksTyped
<1>2. CASE UNCHANGED <<lock, faults>>
  BY <1>2
<1>3. ASSUME NEW s \in Workspaces, LockExpires(s) \/ SchedulerLocks(s) \/ SchedulerUnlocks(s)
      PROVE  OrphansAreFaults'
  BY <1>1, <1>3 DEF LockExpires, SchedulerLocks, SchedulerUnlocks
<1>4. ASSUME NEW w \in Workers, Acquire(w) PROVE OrphansAreFaults'
  BY <1>1, <1>4 DEF Acquire
<1>5. ASSUME NEW w \in Workers, Hydrate(w) \/ PipelineRaises(w) PROVE OrphansAreFaults'
  <2>1. (Drop(w, Free) /\ UNCHANGED faults) \/ faults' = faults + 1
    BY <1>5 DEF Hydrate, PipelineRaises, ReleaseLock
  <2> QED
    BY <1>1, <2>1 DEF Drop
<1>6. ASSUME NEW w \in Workers, Fault(w) PROVE OrphansAreFaults'
  BY <1>1, <1>6 DEF Fault, AcquireDegraded, CompletionRaises, Interrupt
<1>7. ASSUME NEW j \in Jobs, Enqueue(j) PROVE UNCHANGED <<lock, faults>>
  BY <1>7 DEF Enqueue, Mirror, Send, SendFails
<1>8. ASSUME NEW w \in Workers, Work(w), ~Acquire(w), ~Hydrate(w), ~PipelineRaises(w)
      PROVE  UNCHANGED <<lock, faults>>
  BY <1>8 DEF Work, Claim, Read, Load, Insert, AckOnly, Start, Reject, Skip, Succeed,
     AckSuccess, CountFailure, CommitFailure, Decide, Retry, RetryAck, Requeue, DlqAck,
     DlqAdd, DlqMark
<1> QED
  BY <1>2, <1>3, <1>4, <1>5, <1>6, <1>7, <1>8 DEF Next, vars, GrowIdle

\* Unless something was interrupted or a call to Redis raised, a job is skipped only while
\* another one is hydrated under the lock (hydration_handler.py:20).
THEOREM QueueFaultlessSkips == Spec => FaultlessSkips
<1>1. Init => OrphansAreFaults
  BY ConstantsAssumption DEF Init, OrphansAreFaults
<1>2. TypeOK /\ OrphansAreFaults =>
        \A w \in Workers : pc[w] = "handle" => faults > 0 \/ lock[WorkspaceOf[JobOf(w)]] # Orphan
  <2>1. TypeOK => \A w \in Workers : pc[w] = "handle" => WorkspaceOf[JobOf(w)] \in Workspaces
    <3>1. TypeOK => \A w \in Workers : pc[w] = "handle" => JobOf(w) \in Jobs
      BY InHand
    <3> QED
      BY <3>1, ConstantsAssumption
  <2> QED
    BY <2>1 DEF TypeOK, LocksTyped, OrphansAreFaults
<1>3. TypeOK /\ OrphansAreFaults /\ [Next]_vars =>
        [\A w \in Workers : pc[w] = "handle" /\ pc'[w] = "succeed" =>
            faults > 0 \/ lock[WorkspaceOf[JobOf(w)]] # Orphan]_vars
  BY <1>2
<1> QED
  BY <1>1, <1>3, OrphansStep, QueueTypeCorrect, PTL DEF Spec, FaultlessSkips

-----------------------------------------------------------------------------
(* DeadLettersHold.  The copy of a dead job is made before its row is marked.  *)

DeadAreCopied ==
    /\ \A j \in Jobs : status[j] = "dlq" => InDlq(j)
    /\ \A w \in Workers : pc[w] = "dlqMark" => InDlq(JobOf(w))

\* Only DlqAdd changes jobs:dlq.
LEMMA DlqAdded ==
    ASSUME TypeOK, [Next]_vars
    PROVE  dlq' = dlq \/ \E w \in Workers : DlqAdd(w)
<1>1. ASSUME NEW w \in Workers, Work(w) \/ Fault(w), ~DlqAdd(w) PROVE dlq' = dlq
  BY <1>1 DEF Work, Fault, Claim, Read, Load, Insert, AckOnly, Start, Reject, Acquire, Skip,
     Hydrate, PipelineRaises, Succeed, AckSuccess, CountFailure, CommitFailure, Decide,
     Retry, RetryAck, Requeue, DlqAck, DlqMark, AcquireDegraded, CompletionRaises,
     Interrupt, queueVars
<1>2. ASSUME NEW j \in Jobs, Enqueue(j) PROVE dlq' = dlq
  BY <1>2 DEF Enqueue, Mirror, Send, SendFails, queueVars
<1> QED
  BY <1>1, <1>2 DEF Next, vars, GrowIdle, LockExpires, SchedulerLocks, SchedulerUnlocks, queueVars

\* A row comes to be dead only by _mark_dlq.
LEMMA DeadMarked ==
    ASSUME TypeOK, [Next]_vars, NEW j \in Jobs, status'[j] = "dlq", status[j] # "dlq"
    PROVE  \E w \in Workers : pc[w] = "dlqMark" /\ j = JobOf(w)
<1> USE DEF TypeOK, RowsTyped, HandsTyped
<1>1. ASSUME NEW w \in Workers, Work(w) \/ Fault(w) PROVE pc[w] = "dlqMark" /\ j = JobOf(w)
  BY <1>1 DEF Work, Fault, Claim, Read, Load, Insert, AckOnly, Start, Reject, Acquire, Skip,
     Hydrate, PipelineRaises, Succeed, AckSuccess, CountFailure, CommitFailure, Decide,
     Retry, RetryAck, Requeue, DlqAck, DlqAdd, DlqMark, AcquireDegraded, CompletionRaises,
     Interrupt, rowVars, NetStatus, Finish, Move
<1>2. ASSUME NEW i \in Jobs, Enqueue(i) PROVE FALSE
  BY <1>2 DEF Enqueue, Mirror, Send, SendFails, rowVars
<1> QED
  BY <1>1, <1>2 DEF Next, vars, GrowIdle, LockExpires, SchedulerLocks, SchedulerUnlocks, rowVars

\* A step of a worker leaves the others at their entries, and what is in jobs:dlq there.
LEMMA OthersStay ==
    ASSUME TypeOK, NEW w \in Workers, Work(w) \/ Fault(w)
    PROVE  \A v \in Workers \ {w} : pc'[v] = pc[v] /\ cur'[v] = cur[v] /\ batch'[v] = batch[v]
<1> USE DEF TypeOK, HandsTyped, Move
<1>1. CASE \/ Claim(w) \/ Read(w) \/ Load(w) \/ Insert(w) \/ AckOnly(w) \/ Start(w)
           \/ Reject(w) \/ Acquire(w) \/ Skip(w) \/ Hydrate(w) \/ PipelineRaises(w)
  BY <1>1 DEF Claim, Read, Load, Insert, AckOnly, Start, Reject, Acquire, Skip, Hydrate,
     PipelineRaises, Finish
<1>2. CASE \/ Succeed(w) \/ AckSuccess(w) \/ CountFailure(w) \/ CommitFailure(w)
           \/ Decide(w) \/ Retry(w) \/ RetryAck(w) \/ Requeue(w)
           \/ DlqAck(w) \/ DlqAdd(w) \/ DlqMark(w) \/ Fault(w)
  BY <1>2 DEF Succeed, AckSuccess, CountFailure, CommitFailure, Decide, Retry, RetryAck,
     Requeue, DlqAck, DlqAdd, DlqMark, Finish, Fault, AcquireDegraded, CompletionRaises,
     Interrupt
<1> QED
  BY <1>1, <1>2 DEF Work

\* A worker that is about to mark a job dead has just added its copy.
LEMMA MarkAfterCopy ==
    ASSUME TypeOK, NEW w \in Workers, Work(w) \/ Fault(w), pc'[w] = "dlqMark"
    PROVE  DlqAdd(w)
BY DEF Work, Fault, Claim, Read, Load, Insert, AckOnly, Start, Reject, Acquire, Skip,
   Hydrate, PipelineRaises, Succeed, AckSuccess, CountFailure, CommitFailure, Decide,
   Retry, RetryAck, Requeue, DlqAck, DlqMark, AcquireDegraded, CompletionRaises,
   Interrupt, Finish, Move, TypeOK, HandsTyped

LEMMA DeadAreCopiedStep == TypeOK /\ DeadAreCopied /\ [Next]_vars => DeadAreCopied'
<1> SUFFICES ASSUME TypeOK, DeadAreCopied, [Next]_vars PROVE DeadAreCopied'
  OBVIOUS
<1>1. \A j \in Jobs : InDlq(j) => InDlq(j)'
  <2>1. ASSUME NEW w \in Workers, DlqAdd(w), NEW j \in Jobs, InDlq(j) PROVE InDlq(j)'
    BY <2>1 DEF DlqAdd, InDlq, TypeOK, QueueTyped
  <2> QED
    BY <2>1, DlqAdded DEF InDlq
<1>2. \A w \in Workers : pc[w] \notin {"claim", "read", "load"} => JobOf(w) \in Jobs
  BY InHand
<1>3. \A j \in Jobs : status'[j] = "dlq" => InDlq(j)'
  BY <1>1, <1>2, DeadMarked DEF DeadAreCopied
<1>4. ASSUME NEW w \in Workers, pc'[w] = "dlqMark" PROVE InDlq(JobOf(w))'
  <2>1. ASSUME NEW v \in Workers, Work(v) \/ Fault(v), v # w PROVE InDlq(JobOf(w))'
    <3>1. pc[w] = "dlqMark" /\ cur'[w] = cur[w]
      BY <1>4, <2>1, OthersStay
    <3>2. cur[w] \in Entries /\ JobOf(w) \in Jobs
      BY <3>1, InHand
    <3>3. cur[v] # 0 => JobOf(v) \in Jobs
      BY DEF TypeOK, HandsTyped, QueueTyped, JobOf
    <3>4. JobOf(w)' = JobOf(w)
      BY <2>1, <3>1, <3>2, <3>3, EntryAdded, EntriesStay DEF JobOf, TypeOK, QueueTyped
    <3> QED
      BY <1>1, <3>1, <3>2, <3>4 DEF DeadAreCopied, InDlq
  <2>2. ASSUME Work(w) \/ Fault(w) PROVE InDlq(JobOf(w))'
    <3>1. DlqAdd(w)
      BY <1>4, <2>2, MarkAfterCopy
    <3>2. JobOf(w) \in Jobs /\ UNCHANGED <<cur, stream>> /\ dlq' = Append(dlq, JobOf(w))
      BY <1>2, <3>1 DEF DlqAdd, Move
    <3> QED
      BY <3>2 DEF InDlq, JobOf, TypeOK, QueueTyped
  <2>3. CASE UNCHANGED <<pc, cur>> /\ \A e \in Entries : e \in Entries' /\ stream'[e] = stream[e]
    <3>1. cur[w] \in Entries /\ JobOf(w) \in Jobs
      BY <1>4, <2>3, InHand
    <3>2. JobOf(w)' = JobOf(w)
      BY <2>3, <3>1 DEF JobOf
    <3> QED
      BY <1>1, <1>4, <2>3, <3>1, <3>2 DEF DeadAreCopied, InDlq
  <2>4. ASSUME NEW i \in Jobs, Enqueue(i)
        PROVE  UNCHANGED <<pc, cur>> /\ \A e \in Entries : e \in Entries' /\ stream'[e] = stream[e]
    <3>1. UNCHANGED <<pc, cur>> /\ (stream' = stream \/ stream' = Append(stream, i))
      BY <2>4 DEF Enqueue, Mirror, Send, SendFails, Xadd, queueVars
    <3> QED
      BY <3>1, EntriesStay DEF TypeOK, QueueTyped
  <2>5. CASE UNCHANGED <<pc, cur, stream>>
    BY <2>3, <2>5 DEF Entries
  <2> QED
    BY <2>1, <2>2, <2>3, <2>4, <2>5 DEF Next, vars, GrowIdle, LockExpires, SchedulerLocks,
       SchedulerUnlocks, queueVars
<1> QED
  BY <1>3, <1>4 DEF DeadAreCopied

\* However many workers handle the entries of a job and whatever fails, a row in the
\* dead-letter state has its copy in jobs:dlq (queue_worker.py:211-212).
THEOREM QueueDeadJobsAreKept == Spec => []DeadJobsAreKept
<1>1. Init => DeadAreCopied
  BY DEF Init, DeadAreCopied
<1>2. DeadAreCopied => DeadJobsAreKept
  BY DEF DeadAreCopied, DeadJobsAreKept, InDlq
<1> QED
  BY <1>1, <1>2, DeadAreCopiedStep, QueueTypeCorrect, PTL DEF Spec

-----------------------------------------------------------------------------
(* One worker.  No entry is in two hands, so a job has one entry on its way at *)
(* a time, and none while it is in jobs:dlq.                                   *)

BeforeAck == Places \ {"claim", "read", "load", "backoff", "dlqAdd", "dlqMark"}
AfterAck == {"backoff", "dlqAdd", "dlqMark"}

\* It will be delivered, or it is pending.
Alive(e) == e > delivered \/ e \in pel

\* The entry in a worker's hands is pending until it is acknowledged, like those of its batch.
HandsArePending ==
    \A w \in Workers :
        /\ batch[w] \subseteq pel /\ cur[w] \notin batch[w]
        /\ pc[w] \in BeforeAck => cur[w] \in pel

\* A job has one entry on its way, or is in the hands of a worker that has acknowledged it.
OneEntry ==
    /\ \A e, f \in Entries : stream[e] = stream[f] /\ Alive(e) /\ Alive(f) => e = f
    /\ \A w \in Workers : pc[w] \in AfterAck =>
            \A e \in Entries : stream[e] = JobOf(w) => ~Alive(e)

\* A job in jobs:dlq was sent, has had its attempts and does not come back.
DlqIsFinal ==
    /\ \A j \in Jobs : InDlq(j) =>
            /\ call[j] = "sent" /\ attempts[j] >= MaxAttempts
            /\ \A e \in Entries : stream[e] = j => ~Alive(e)
            /\ \A w \in Workers : pc[w] \in {"backoff", "dlqAdd"} => JobOf(w) # j
    /\ \A w \in Workers : pc[w] \in {"dlqAck", "dlqAdd"} => attempts[JobOf(w)] >= MaxAttempts
    /\ \A i, k \in 1 .. Len(dlq) : dlq[i] = dlq[k] => i = k

SingleInv == HandsArePending /\ OneEntry /\ DlqIsFinal

\* The places of the only worker, and what it holds.
LEMMA SingleFacts ==
    ASSUME TypeOK, SingleInv, NEW w \in Workers
    PROVE  /\ pc[w] \in BeforeAck \cup AfterAck => cur[w] \in Entries /\ JobOf(w) \in Jobs
           /\ pc[w] \in BeforeAck => ~InDlq(JobOf(w))
           /\ Places = BeforeAck \cup AfterAck \cup {"claim", "read", "load"}
           /\ pc[w] \in Places /\ BeforeAck \cap AfterAck = {}
           /\ {"claim", "read", "load"} \cap (BeforeAck \cup AfterAck) = {}
           /\ "dlqAck" \in BeforeAck
<1>1. Places = BeforeAck \cup AfterAck \cup {"claim", "read", "load"} /\ BeforeAck \cap AfterAck = {}
      /\ "dlqAck" \in BeforeAck /\ {"claim", "read", "load"} \cap (BeforeAck \cup AfterAck) = {}
  BY DEF Places, CarryingPlaces, BeforeAck, AfterAck
<1>2. pc[w] \in Places
  BY DEF TypeOK, HandsTyped
<1>3. pc[w] \in BeforeAck \cup AfterAck => cur[w] \in Entries /\ JobOf(w) \in Jobs
  BY <1>1, InHand
<1>4. ASSUME pc[w] \in BeforeAck, InDlq(JobOf(w)) PROVE FALSE
  BY <1>3, <1>4 DEF SingleInv, HandsArePending, DlqIsFinal, Alive, JobOf
<1> QED
  BY <1>1, <1>2, <1>3, <1>4

\* The worker goes on with an entry it has not acknowledged.
LEMMA SingleGoesOn ==
    ASSUME TypeOK, SingleInv, NEW w \in Workers, \A v \in Workers : v = w,
           UNCHANGED <<stream, delivered, pel, dlq, call, batch, cur>>,
           pc[w] \in BeforeAck, pc'[w] \in BeforeAck,
           \A j \in Jobs : j # JobOf(w) => attempts'[j] = attempts[j],
           pc'[w] = "dlqAck" => attempts'[JobOf(w)] >= MaxAttempts
    PROVE  SingleInv'
<1>1. HandsArePending'
  BY DEF SingleInv, HandsArePending
<1>2. OneEntry'
  BY SingleFacts DEF SingleInv, OneEntry, Alive, Entries, AfterAck, BeforeAck, JobOf
<1>3. DlqIsFinal'
  <2>1. ~InDlq(JobOf(w)) /\ pc'[w] \notin {"backoff", "dlqAdd"} /\ JobOf(w)' = JobOf(w)
    BY SingleFacts DEF JobOf, BeforeAck
  <2>2. \A j \in Jobs : InDlq(j)' => InDlq(j) /\ j # JobOf(w)
    BY <2>1 DEF InDlq
  <2> QED
    BY <2>1, <2>2 DEF SingleInv, DlqIsFinal, Alive, Entries
<1> QED
  BY <1>1, <1>2, <1>3 DEF SingleInv

\* The worker acknowledges its entry, and keeps its job or goes on to another.
LEMMA SingleAcks ==
    ASSUME TypeOK, SingleInv, NEW w \in Workers, \A v \in Workers : v = w,
           UNCHANGED <<stream, delivered, dlq, call, batch, attempts>>,
           pc[w] \in BeforeAck, pel' = pel \ {cur[w]},
           \/ pc'[w] \in {"claim", "load"} /\ cur'[w] = 0
           \/ pc'[w] = "backoff" /\ cur' = cur
           \/ pc[w] = "dlqAck" /\ pc'[w] = "dlqAdd" /\ cur' = cur
    PROVE  SingleInv'
<1>1. cur[w] \in Entries /\ cur[w] \in pel /\ ~(cur[w] > delivered) /\ stream[cur[w]] = JobOf(w)
      /\ \A e \in pel : e \in Entries
  <2>1. pel \subseteq 1 .. delivered /\ delivered \in 0 .. Len(stream)
    BY DEF TypeOK, QueueTyped
  <2> QED
    BY <2>1, SingleFacts DEF SingleInv, HandsArePending, JobOf, Entries
<1>2. HandsArePending'
  <2>1. 0 \notin pel
    BY <1>1 DEF Entries
  <2> QED
    BY <1>1, <2>1 DEF SingleInv, HandsArePending, BeforeAck
<1>3. \A e \in Entries : Alive(e)' => Alive(e)
  BY DEF Alive
<1>4. \A e \in Entries : stream[e] = JobOf(w) => ~Alive(e)'
  BY <1>1 DEF SingleInv, OneEntry, Alive
<1>5. OneEntry'
  <2>1. pc'[w] \in AfterAck => JobOf(w)' = JobOf(w)
    BY DEF JobOf, AfterAck
  <2> QED
    BY <1>3, <1>4, <2>1 DEF SingleInv, OneEntry, Entries
<1>6. DlqIsFinal'
  <2>1. ~InDlq(JobOf(w)) /\ (pc'[w] \in {"backoff", "dlqAdd"} => JobOf(w)' = JobOf(w))
    BY SingleFacts DEF JobOf
  <2>2. \A j \in Jobs : InDlq(j)' => InDlq(j) /\ j # JobOf(w)
    BY <2>1 DEF InDlq
  <2>3. pc'[w] \in {"dlqAck", "dlqAdd"} => attempts'[JobOf(w)'] >= MaxAttempts
    BY <2>1 DEF SingleInv, DlqIsFinal
  <2> QED
    BY <1>3, <2>1, <2>2, <2>3 DEF SingleInv, DlqIsFinal, Entries
<1> QED
  BY <1>2, <1>5, <1>6 DEF SingleInv

\* The worker has no entry in its hands after the step, and acknowledges none.
LEMMA SingleLetsGo ==
    ASSUME TypeOK, SingleInv, NEW w \in Workers, \A v \in Workers : v = w,
           UNCHANGED <<stream, delivered, pel, dlq, call, attempts>>,
           pc'[w] \in {"claim", "read", "load"}, cur'[w] = 0, batch'[w] \subseteq pel
    PROVE  SingleInv'
<1>1. 0 \notin pel
  BY DEF TypeOK, QueueTyped
<1>2. HandsArePending'
  BY <1>1 DEF HandsArePending, BeforeAck
<1>3. OneEntry'
  BY DEF SingleInv, OneEntry, Alive, Entries, AfterAck
<1>4. DlqIsFinal'
  BY DEF SingleInv, DlqIsFinal, Alive, Entries, InDlq
<1> QED
  BY <1>2, <1>3, <1>4 DEF SingleInv

\* Every step of the only worker.
LEMMA SingleWork ==
    ASSUME TypeOK, TypeOK', OnlySent, SingleInv, NEW w \in Workers, \A v \in Workers : v = w,
           Work(w) \/ Fault(w)
    PROVE  SingleInv'
<1> USE DEF Move
<1>0. /\ pc[w] = "claim" => cur[w] = 0
      /\ cur[w] \in 0 .. delivered /\ batch[w] \subseteq 1 .. delivered /\ pel \subseteq 1 .. delivered
      /\ delivered \in 0 .. Len(stream) /\ stream \in Seq(Jobs)
      /\ pc \in [Workers -> Places] /\ attempts \in [Jobs -> Nat] /\ status \in [Jobs -> Statuses]
      /\ seenAttempts \in [Workers -> Nat]
  BY DEF TypeOK, HandsTyped, QueueTyped, RowsTyped
<1>1. CASE Claim(w)
  <2>1. batch'[w] \subseteq pel
    BY <1>1, SmallestSubset DEF Claim, TypeOK, HandsTyped, QueueTyped
  <2>2. UNCHANGED <<stream, delivered, pel, dlq, call, attempts, cur>> /\ pc'[w] = "read" /\ pc[w] = "claim"
    BY <1>1 DEF Claim, TypeOK, HandsTyped, rowVars
  <2> QED
    BY <1>0, <2>1, <2>2, SingleLetsGo
<1>2. CASE Read(w)
  <2> DEFINE last == IF Len(stream) < delivered + BatchSize
                       THEN Len(stream) ELSE delivered + BatchSize
  <2>1. /\ pel' = pel \cup (delivered + 1 .. last) /\ delivered' = last
        /\ batch' = [batch EXCEPT ![w] = @ \cup (delivered + 1 .. last)]
        /\ pc' = [pc EXCEPT ![w] = "claim"] \/ pc' = [pc EXCEPT ![w] = "load"]
        /\ pc[w] = "read"
        /\ UNCHANGED <<stream, dlq, call, attempts, cur>>
    BY <1>2 DEF Read, rowVars
  <2>2. last \in Nat /\ delivered <= last /\ last <= Len(stream)
    BY <1>0, ConstantsAssumption
  <2> HIDE DEF last
  <2>3. \A e \in Entries : Alive(e)' => Alive(e)
    BY <1>0, <2>1, <2>2 DEF Alive, Entries
  <2>4. batch'[w] \subseteq pel' /\ 0 \notin pel' /\ cur'[w] = 0 /\ pc'[w] \in {"claim", "load"}
    BY <1>0, <2>1, <2>2 DEF SingleInv, HandsArePending, TypeOK, HandsTyped
  <2>5. HandsArePending'
    BY <2>4 DEF HandsArePending, BeforeAck
  <2>6. OneEntry'
    BY <2>1, <2>3, <2>4 DEF SingleInv, OneEntry, Entries, AfterAck
  <2>7. DlqIsFinal'
    BY <2>1, <2>3, <2>4 DEF SingleInv, DlqIsFinal, Entries, InDlq
  <2> QED
    BY <2>5, <2>6, <2>7 DEF SingleInv
<1>3. CASE Load(w)
  <2>1. PICK e \in batch[w] :
          /\ batch' = [batch EXCEPT ![w] = @ \ {e}] /\ cur' = [cur EXCEPT ![w] = e]
          /\ pc'[w] \in {"insert", "ackOnly", "start"}
    BY <1>0, <1>3 DEF Load
  <2>2. UNCHANGED <<stream, delivered, pel, dlq, call, attempts>> /\ pc'[w] \in BeforeAck
        /\ pc'[w] \notin {"backoff", "dlqAdd", "dlqAck", "dlqMark"}
    BY <1>3, <2>1 DEF Load, queueVars, rowVars, BeforeAck, Places, CarryingPlaces
  <2>3. HandsArePending'
    BY <2>1, <2>2 DEF SingleInv, HandsArePending, TypeOK, HandsTyped
  <2>4. OneEntry'
    BY <2>2 DEF SingleInv, OneEntry, Alive, Entries, AfterAck
  <2>5. DlqIsFinal'
    BY <2>2 DEF SingleInv, DlqIsFinal, Alive, Entries, InDlq
  <2> QED
    BY <2>3, <2>4, <2>5 DEF SingleInv
<1>4. CASE Requeue(w)
  <2> DEFINE j == JobOf(w)
             new == Len(stream) + 1
  <2>1. /\ pc[w] = "backoff" /\ pc'[w] \in {"claim", "load"} /\ cur'[w] = 0
        /\ stream' = Append(stream, j)
        /\ UNCHANGED <<delivered, pel, dlq, call, attempts, batch>>
    BY <1>0, <1>4 DEF Requeue, Finish, Xadd, rowVars, TypeOK, HandsTyped
  <2>2. j \in Jobs /\ ~InDlq(j) /\ \A e \in Entries : stream[e] = j => ~Alive(e)
    BY <2>1, SingleFacts DEF SingleInv, OneEntry, DlqIsFinal, AfterAck
  <2>3. Entries' = Entries \cup {new} /\ stream'[new] = j /\ \A e \in Entries : stream'[e] = stream[e]
    BY <1>0, <2>1, <2>2 DEF Entries
  <2> HIDE DEF new, j
  <2>4. \A e \in Entries : Alive(e)' => Alive(e)
    BY <2>1 DEF Alive
  <2>5. HandsArePending'
    BY <1>0, <2>1 DEF SingleInv, HandsArePending, BeforeAck
  <2>6. OneEntry'
    <3>1. ASSUME NEW e \in Entries', NEW f \in Entries', stream'[e] = stream'[f], Alive(e)', Alive(f)'
          PROVE  e = f
      <4>1. CASE e \in Entries /\ f \in Entries
        BY <2>3, <2>4, <3>1, <4>1 DEF SingleInv, OneEntry
      <4>2. CASE e = new \/ f = new
        BY <2>2, <2>3, <2>4, <3>1, <4>2
      <4> QED
        BY <2>3, <4>1, <4>2
    <3> QED
      BY <2>1, <3>1 DEF OneEntry, AfterAck
  <2>7. DlqIsFinal'
    <3>1. \A i \in Jobs : InDlq(i)' => InDlq(i) /\ i # j
      BY <2>1, <2>2 DEF InDlq
    <3>2. ASSUME NEW i \in Jobs, InDlq(i)', NEW e \in Entries', stream'[e] = i PROVE ~Alive(e)'
      BY <2>3, <2>4, <3>1, <3>2 DEF SingleInv, DlqIsFinal
    <3> QED
      BY <2>1, <3>1, <3>2 DEF SingleInv, DlqIsFinal
  <2> QED
    BY <2>5, <2>6, <2>7 DEF SingleInv
<1>5. CASE DlqAdd(w)
  <2> DEFINE j == JobOf(w)
  <2>1. /\ pc[w] = "dlqAdd" /\ pc'[w] = "dlqMark" /\ dlq' = Append(dlq, j)
        /\ UNCHANGED <<stream, delivered, pel, call, attempts, batch, cur>>
    BY <1>0, <1>5 DEF DlqAdd, rowVars
  <2>2. cur[w] \in Entries /\ j \in Jobs /\ ~InDlq(j) /\ call[j] = "sent" /\ attempts[j] >= MaxAttempts
        /\ \A e \in Entries : stream[e] = j => ~Alive(e)
    BY <2>1, SingleFacts DEF SingleInv, OneEntry, DlqIsFinal, AfterAck, OnlySent, JobOf
  <2>3. JobOf(w)' = j /\ dlq \in Seq(Jobs)
    BY <2>1 DEF JobOf, TypeOK, QueueTyped
  <2>4. HandsArePending'
    BY <2>1 DEF SingleInv, HandsArePending, BeforeAck
  <2>5. OneEntry'
    BY <2>1, <2>2, <2>3 DEF SingleInv, OneEntry, Alive, Entries, AfterAck
  <2> HIDE DEF j
  <2>6. \A i \in Jobs : InDlq(i)' => InDlq(i) \/ i = j
    BY <2>1, <2>2, <2>3 DEF InDlq
  <2>7. \A i, k \in 1 .. Len(dlq') : dlq'[i] = dlq'[k] => i = k
    BY <2>1, <2>2, <2>3 DEF SingleInv, DlqIsFinal, InDlq
  <2>8. DlqIsFinal'
    BY <2>1, <2>2, <2>6, <2>7 DEF SingleInv, DlqIsFinal, Alive, Entries
  <2> QED
    BY <2>4, <2>5, <2>8 DEF SingleInv
<1>6. CASE Insert(w) \/ Interrupt(w) \/ DlqMark(w)
  <2>1. CASE pc'[w] \in {"claim", "load"}
    <3>1. /\ UNCHANGED <<stream, delivered, pel, dlq, call, attempts>>
          /\ cur'[w] = 0 /\ batch'[w] \in {{}, batch[w]}
      BY <1>0, <1>6, <2>1 DEF Insert, Interrupt, DlqMark, Finish, queueVars, rowVars, TypeOK, HandsTyped
    <3> QED
      BY <2>1, <3>1, SingleLetsGo DEF SingleInv, HandsArePending
  <2>2. CASE pc'[w] \notin {"claim", "load"}
    <3>1. /\ UNCHANGED <<stream, delivered, pel, dlq, call, batch, cur>>
          /\ pc[w] = "insert" /\ pc'[w] = "start" /\ attempts' = [attempts EXCEPT ![JobOf(w)] = 0]
      BY <1>0, <1>6, <2>2 DEF Insert, Interrupt, DlqMark, Finish, queueVars
    <3> QED
      BY <1>0, <3>1, SingleGoesOn DEF BeforeAck, Places, CarryingPlaces
  <2> QED
    BY <2>1, <2>2
<1>7. CASE AckOnly(w) \/ AckSuccess(w) \/ RetryAck(w) \/ DlqAck(w)
  <2>1. UNCHANGED <<stream, delivered, dlq, call, batch, attempts>> /\ pel' = pel \ {cur[w]}
    BY <1>7 DEF AckOnly, AckSuccess, RetryAck, DlqAck, Finish, Xack, rowVars
  <2>2. pc[w] \in {"ackOnly", "ack", "retryAck", "dlqAck"}
    BY <1>7 DEF AckOnly, AckSuccess, RetryAck, DlqAck, Finish
  <2>3. \/ pc'[w] \in {"claim", "load"} /\ cur'[w] = 0
        \/ pc'[w] = "backoff" /\ cur' = cur
        \/ pc[w] = "dlqAck" /\ pc'[w] = "dlqAdd" /\ cur' = cur
    BY <1>0, <1>7 DEF AckOnly, AckSuccess, RetryAck, DlqAck, Finish, TypeOK, HandsTyped
  <2> QED
    BY <2>1, <2>2, <2>3, SingleAcks DEF BeforeAck, Places, CarryingPlaces
<1>8. CASE \/ Start(w) \/ Reject(w) \/ Acquire(w) \/ Skip(w) \/ Hydrate(w) \/ PipelineRaises(w)
           \/ Succeed(w) \/ CountFailure(w) \/ CommitFailure(w) \/ Decide(w) \/ Retry(w)
           \/ AcquireDegraded(w) \/ CompletionRaises(w)
  <2>1. UNCHANGED <<stream, delivered, pel, dlq, call, batch, cur>>
    BY <1>8 DEF Start, Reject, Acquire, Skip, Hydrate, PipelineRaises, Succeed, CountFailure,
       CommitFailure, Decide, Retry, AcquireDegraded, CompletionRaises, queueVars
  <2>2. /\ pc[w] \in {"start", "handle", "hydrate", "succeed", "ack", "fail", "failed", "decide", "retry"}
        /\ pc'[w] \in {"handle", "hydrate", "succeed", "fail", "ack", "failed", "decide", "dlqAck",
                       "retry", "retryAck"}
        /\ pc'[w] = "dlqAck" => Decide(w)
    BY <1>0, <1>8 DEF Start, Reject, Acquire, Skip, Hydrate, PipelineRaises, Succeed, CountFailure,
       CommitFailure, Decide, Retry, AcquireDegraded, CompletionRaises
  <2>3. attempts' = attempts \/ attempts' = [attempts EXCEPT ![JobOf(w)] = seenAttempts[w] + 1]
    BY <1>8 DEF Start, Reject, Acquire, Skip, Hydrate, PipelineRaises, Succeed, CountFailure,
       CommitFailure, Decide, Retry, AcquireDegraded, CompletionRaises, rowVars
  <2>4. pc'[w] = "dlqAck" => attempts'[JobOf(w)] >= MaxAttempts
    BY <1>0, <2>2 DEF Decide, Exhausted, rowVars
  <2>5. \A j \in Jobs : j # JobOf(w) => attempts'[j] = attempts[j]
    BY <1>0, <2>3
  <2>6. pc[w] \in BeforeAck /\ pc'[w] \in BeforeAck
    BY <2>2 DEF BeforeAck, Places, CarryingPlaces
  <2> QED
    BY <2>1, <2>4, <2>5, <2>6, SingleGoesOn
<1> QED
  BY <1>1, <1>2, <1>3, <1>4, <1>5, <1>6, <1>7, <1>8 DEF Work, Fault

\* What is around the only worker.
LEMMA SingleOutside ==
    ASSUME TypeOK, OnlySent, SingleInv,
           \/ \E j \in Jobs : Enqueue(j)
           \/ \E e \in Entries : GrowIdle(e)
           \/ \E s \in Workspaces :
                LockExpires(s) \/ SchedulerLocks(s) \/ SchedulerUnlocks(s)
           \/ UNCHANGED vars
    PROVE  SingleInv'
<1>1. UNCHANGED <<delivered, pel, dlq, attempts, pc, cur, batch>>
  BY DEF Enqueue, Mirror, Send, SendFails, GrowIdle, LockExpires, SchedulerLocks,
     SchedulerUnlocks, vars, queueVars, rowVars
<1>2. HandsArePending'
  BY <1>1 DEF SingleInv, HandsArePending
<1>3. \A j \in Jobs : call[j] = "sent" => call'[j] = "sent"
  <2>1. ASSUME NEW i \in Jobs, Enqueue(i), NEW j \in Jobs, call[j] = "sent" PROVE call'[j] = "sent"
    BY <2>1 DEF Enqueue, Mirror, Send, SendFails, TypeOK, QueueTyped
  <2> QED
    BY <2>1 DEF GrowIdle, LockExpires, SchedulerLocks, SchedulerUnlocks, vars
<1>4. CASE UNCHANGED stream
  BY <1>1, <1>2, <1>3, <1>4 DEF SingleInv, OneEntry, DlqIsFinal, InDlq, JobOf, Alive, Entries
<1>5. ASSUME NEW j \in Jobs, Send(j) PROVE SingleInv'
  <2> DEFINE new == Len(stream) + 1
  <2>1. call[j] = "mirrored" /\ stream' = Append(stream, j)
    BY <1>5 DEF Send, Xadd
  <2>2. Entries' = Entries \cup {new} /\ stream'[new] = j /\ \A e \in Entries : stream'[e] = stream[e]
    BY <2>1 DEF Entries, TypeOK, QueueTyped
  <2> HIDE DEF new
  <2>3. \A e \in Entries : stream[e] # j
    BY <2>1 DEF OnlySent
  <2>4. ~InDlq(j)
    BY <2>1 DEF SingleInv, DlqIsFinal
  <2>5. \A w \in Workers : pc[w] \in AfterAck \cup {"dlqAck"} =>
            cur[w] \in Entries /\ JobOf(w)' = JobOf(w) /\ JobOf(w) # j
    BY <1>1, <2>2, <2>3, InHand DEF JobOf, AfterAck
  <2>6. OneEntry'
    BY <1>1, <2>2, <2>3, <2>5 DEF SingleInv, OneEntry, Alive
  <2>7. DlqIsFinal'
    BY <1>1, <1>3, <2>2, <2>3, <2>4, <2>5 DEF SingleInv, DlqIsFinal, InDlq, Alive, AfterAck
  <2> QED
    BY <1>2, <2>6, <2>7 DEF SingleInv
<1> QED
  BY <1>4, <1>5 DEF Enqueue, Mirror, SendFails, GrowIdle, LockExpires, SchedulerLocks,
     SchedulerUnlocks, vars, queueVars

\* Tests test_retry_then_dlq, for any number of jobs: with one worker jobs:dlq has each dead
\* job, once, after all its attempts (queue_worker.py:205-212).
THEOREM QueueDeadLettersHold ==
    ASSUME NEW CONSTANT w0, Workers = {w0}
    PROVE  Spec => []DeadLettersHold
<1>1. Init => SingleInv /\ OnlySent
  BY DEF Init, SingleInv, HandsArePending, OneEntry, DlqIsFinal, InDlq, Entries, BeforeAck,
     AfterAck, OnlySent, Terminal
<1>2. TypeOK /\ TypeOK' /\ OnlySent /\ SingleInv /\ [Next]_vars => SingleInv'
  BY SingleWork, SingleOutside DEF Next
<1>3. TypeOK /\ SingleInv => DlqOnce
  <2> SUFFICES ASSUME TypeOK, SingleInv, NEW j \in Jobs
               PROVE  LET copies == {i \in 1 .. Len(dlq) : dlq[i] = j} IN
                      Cardinality(copies) <= 1 /\ (copies # {} => attempts[j] >= MaxAttempts)
    BY DEF DlqOnce
  <2> DEFINE copies == {i \in 1 .. Len(dlq) : dlq[i] = j}
  <2>1. copies # {} => attempts[j] >= MaxAttempts
    BY DEF SingleInv, DlqIsFinal, InDlq
  <2>2. copies = {} \/ \E i \in copies : copies = {i}
    BY DEF SingleInv, DlqIsFinal
  <2>3. Cardinality({}) = 0 /\ \A i \in copies : Cardinality({i}) = 1
    BY FS_EmptySet, FS_Singleton
  <2>4. Cardinality(copies) <= 1
    <3> HIDE DEF copies
    <3> QED
      BY <2>2, <2>3
  <2> QED
    BY <2>1, <2>4
<1>4. Spec => []DeadJobsAreKept
  BY QueueDeadJobsAreKept
<1> QED
  BY <1>1, <1>2, <1>3, <1>4, OnlySentKept, QueueTypeCorrect, PTL DEF Spec, DeadLettersHold

-----------------------------------------------------------------------------
(* ImplementsQueue.  What a step changes of the abstract queue, job by job.     *)

ToldStays == \A j \in Jobs : Told(j)' = Told(j)
HandsStay == \A v \in Workers, j \in Jobs : Runs(v, j)' <=> Runs(v, j)
DueStays == \A j \in Jobs : Due(j)' <=> Due(j)
LettersStay == \A j \in Jobs : InDlq(j)' <=> InDlq(j)

\* w comes to have j, and lets go of what it has.
Takes(w, j) ==
    \A v \in Workers, i \in Jobs : Runs(v, i)' <=> (IF v = w THEN i = j ELSE Runs(v, i))
LetsGo(w) ==
    \A v \in Workers, i \in Jobs : Runs(v, i)' <=> (v # w /\ Runs(v, i))

\* A worker has one job at most.
LEMMA OneJob ==
    ASSUME NEW w \in Workers, NEW j \in Jobs, Runs(w, j)
    PROVE  Hands[w] = {j} /\ j \in Hands[w]
BY DEF Hands, Runs

\* From job by job to whole variables.
LEMMA WholeStays ==
    /\ ToldStays => Outcomes' = Outcomes
    /\ HandsStay => Hands' = Hands
    /\ DueStays => DueJobs' = DueJobs
    /\ LettersStay => Letters' = Letters
<1>1. ToldStays => Outcomes' = Outcomes
  BY DEF ToldStays, Outcomes
<1>2. HandsStay => Hands' = Hands
  BY DEF HandsStay, Hands
<1>3. DueStays => DueJobs' = DueJobs
  BY DEF DueStays, DueJobs
<1>4. LettersStay => Letters' = Letters
  BY DEF LettersStay, Letters
<1> QED
  BY <1>1, <1>2, <1>3, <1>4

LEMMA WholeTakes ==
    ASSUME NEW w \in Workers, NEW j \in Jobs, Takes(w, j)
    PROVE  Hands' = [Hands EXCEPT ![w] = {j}]
BY DEF Takes, Hands

LEMMA WholeLetsGo ==
    ASSUME NEW w \in Workers, LetsGo(w)
    PROVE  Hands' = [Hands EXCEPT ![w] = {}]
BY DEF LetsGo, Hands

LEMMA WholeTold ==
    ASSUME NEW j \in Jobs, NEW o, Told(j)' = o, \A i \in Jobs \ {j} : Told(i)' = Told(i)
    PROVE  Outcomes' = [Outcomes EXCEPT ![j] = o]
BY DEF Outcomes

LEMMA WholeDue ==
    ASSUME NEW j \in Jobs, \A i \in Jobs \ {j} : Due(i)' <=> Due(i)
    PROVE  /\ Due(j)' => DueJobs' = DueJobs \cup {j}
           /\ ~Due(j)' => DueJobs' = DueJobs \ {j}
           /\ (Due(j)' <=> Due(j)) => DueJobs' = DueJobs
BY DEF DueJobs

-----------------------------------------------------------------------------
\* An entry that w does not keep from coming back.
Offers(w, e) == (e > delivered \/ e \in pel) /\ ~Discards(w, e)

\* The entries of a job decide whether it is due.
LEMMA DueByEntries ==
    ASSUME TypeOK, NEW w \in Workers, OthersStill(w), UNCHANGED stream, NEW j \in Jobs,
           \A e \in Entries : stream[e] = j => (Offers(w, e)' <=> Offers(w, e))
    PROVE  Due(j)' <=> Due(j)
<1>1. Entries' = Entries
  BY DEF Entries
<1>2. \A e \in Entries, v \in Workers \ {w} : Discards(v, e)' <=> Discards(v, e)
  BY DEF OthersStill, Discards, FoundDead
<1>3. \A e \in Entries : stream[e] = j => (WillReturn(e)' <=> WillReturn(e))
  BY <1>2 DEF WillReturn, Offers
<1> QED
  BY <1>1, <1>3 DEF Due

\* The others have what they had.
LEMMA OthersHave ==
    ASSUME TypeOK, NEW w \in Workers, OthersStill(w)
    PROVE  \A v \in Workers \ {w}, j \in Jobs : Runs(v, j)' <=> Runs(v, j)
<1>1. \A v \in Workers : cur[v] # 0 => cur[v] \in Entries
  BY DEF TypeOK, HandsTyped, QueueTyped, Entries
<1> QED
  BY <1>1 DEF OthersStill, Runs, JobOf

\* An unchanged row and call tell the same.
LEMMA ToldBy ==
    ASSUME NEW j \in Jobs, call'[j] = call[j], status'[j] = status[j]
    PROVE  Told(j)' = Told(j)
BY DEF Told

LEMMA LettersBy ==
    ASSUME UNCHANGED dlq PROVE LettersStay
BY DEF LettersStay, InDlq

\* A step of a worker leaves the others, and the entries there are, alone.
LEMMA WorkIsOwn ==
    ASSUME TypeOK, NEW w \in Workers, Work(w) \/ Fault(w)
    PROVE  OthersStill(w)
<1>1. \A v \in Workers \ {w} : seen'[v] = seen[v]
  BY DEF Work, Fault, Claim, Read, Load, Insert, AckOnly, Start, Reject, Acquire, Skip,
     Hydrate, PipelineRaises, Succeed, AckSuccess, CountFailure, CommitFailure, Decide,
     Retry, RetryAck, Requeue, DlqAck, DlqAdd, DlqMark, AcquireDegraded, CompletionRaises,
     Interrupt, Finish, Forget, Reload, sessionVars, TypeOK, RowsTyped
<1>2. stream \in Seq(Jobs) /\ (stream' = stream \/ \E j \in Jobs : stream' = Append(stream, j))
  <2>1. cur[w] # 0 => JobOf(w) \in Jobs
    BY DEF TypeOK, HandsTyped, QueueTyped, JobOf
  <2> QED
    BY <2>1, EntryAdded DEF TypeOK, QueueTyped
<1> QED
  BY <1>1, <1>2, OthersStay, EntriesStay DEF OthersStill

\* What a worker has, by its place and entry.
LEMMA HasBy ==
    ASSUME TypeOK, NEW w \in Workers, OthersStill(w),
           \A j \in Jobs : Runs(w, j)' <=> Runs(w, j)
    PROVE  HandsStay
BY OthersHave DEF HandsStay

RunPlaces == CarryingPlaces \cup {"ack"}

LEMMA StaysAtEntry ==
    ASSUME NEW w \in Workers, UNCHANGED <<stream, cur>>, pc[w] \in RunPlaces <=> pc'[w] \in RunPlaces
    PROVE  \A j \in Jobs : Runs(w, j)' <=> Runs(w, j)
BY DEF Runs, JobOf, RunPlaces

LEMMA HasNothing ==
    ASSUME TypeOK, NEW w \in Workers, pc[w] \notin RunPlaces
    PROVE  \A j \in Jobs : ~Runs(w, j)
BY DEF Runs, RunPlaces

-----------------------------------------------------------------------------
\* Steps after which only a job may be due that was not, or not any more that was.
Quiet(w) ==
    /\ ToldStays /\ HandsStay /\ LettersStay /\ UNCHANGED dropped
    /\ DueStays \/ \E j \in Jobs :
         /\ \A i \in Jobs \ {j} : Due(i)' <=> Due(i)
         /\ call[j] = "sent"
         /\ ~Due(j)' => status[j] \in Terminal \/ Runs(w, j)

\* Fetching entries.
LEMMA FetchIsQuiet ==
    ASSUME TypeOK, NEW w \in Workers, Claim(w) \/ Read(w) PROVE Quiet(w)
<1> USE DEF queueVars, rowVars, sessionVars
<1>1. OthersStill(w)
  BY WorkIsOwn DEF Work
<1>2. /\ UNCHANGED <<stream, dlq, call, status, cur, dropped>>
      /\ pc[w] \in {"claim", "read"} /\ pc'[w] \in {"claim", "read", "load"}
  BY DEF Claim, Read, Move, TypeOK, HandsTyped
<1>3. \A e \in Entries : ~Discards(w, e) /\ ~Discards(w, e)'
  BY <1>2 DEF Discards, FoundDead
<1>4. ASSUME NEW e \in Entries PROVE (e > delivered \/ e \in pel) <=> (e > delivered' \/ e \in pel')
  <2>1. CASE Claim(w)
    BY <2>1 DEF Claim
  <2>2. CASE Read(w)
    <3>1. PICK last : /\ last = IF Len(stream) < delivered + BatchSize
                                  THEN Len(stream) ELSE delivered + BatchSize
                      /\ delivered' = last
                      /\ pel' = pel \cup (delivered + 1 .. last)
      BY <2>2 DEF Read
    <3>2. pel \subseteq 1 .. delivered /\ delivered \in 0 .. Len(stream) /\ Len(stream) \in Nat
      BY DEF TypeOK, QueueTyped
    <3>3. last \in Nat /\ delivered <= last
      BY <3>1, <3>2, ConstantsAssumption
    <3> QED
      BY <3>1, <3>2, <3>3 DEF Entries
  <2> QED
    BY <2>1, <2>2
<1>5. DueStays
  BY <1>1, <1>2, <1>3, <1>4, DueByEntries DEF DueStays, Offers
<1>6. ToldStays /\ LettersStay
  BY <1>2, ToldBy, LettersBy DEF ToldStays
<1>7. \A j \in Jobs : Runs(w, j)' <=> Runs(w, j)
  BY <1>2, StaysAtEntry DEF RunPlaces, CarryingPlaces
<1> QED
  BY <1>1, <1>2, <1>5, <1>6, <1>7, HasBy DEF Quiet

\* A worker that stays at its entry and leaves the row alone: only the entry in its
\* hands may come to count for its job, or no more.
LEMMA StayingIsQuiet ==
    ASSUME TypeOK, OnlySent, NEW w \in Workers, OthersStill(w),
           UNCHANGED <<stream, dlq, call, status, cur, dropped>>, cur[w] # 0,
           pc[w] \in RunPlaces, pc'[w] \in RunPlaces,
           \A e \in Entries : e # cur[w] => (Offers(w, e)' <=> Offers(w, e))
    PROVE  Quiet(w)
<1>1. cur[w] \in Entries /\ JobOf(w) \in Jobs
  BY InHand DEF RunPlaces, CarryingPlaces
<1>2. Runs(w, JobOf(w))
  BY DEF Runs, RunPlaces
<1>3. \A i \in Jobs \ {JobOf(w)} : Due(i)' <=> Due(i)
  BY DueByEntries DEF JobOf
<1>4. call[JobOf(w)] = "sent"
  BY <1>1 DEF OnlySent, JobOf
<1>5. ToldStays /\ LettersStay
  BY ToldBy, LettersBy DEF ToldStays
<1>6. HandsStay
  BY StaysAtEntry, HasBy
<1> QED
  BY <1>1, <1>2, <1>3, <1>4, <1>5, <1>6 DEF Quiet

\* Handling, counting a failure, and giving an entry up.
LEMMA HandlingIsQuiet ==
    ASSUME TypeOK, OnlySent, NEW w \in Workers,
           \/ Reject(w) \/ Acquire(w) \/ AcquireDegraded(w) \/ Skip(w) \/ Hydrate(w)
           \/ PipelineRaises(w) \/ CompletionRaises(w) \/ CountFailure(w) \/ Decide(w)
           \/ RetryAck(w) \/ DlqAck(w)
    PROVE  Quiet(w)
<1> USE DEF queueVars, rowVars, sessionVars
<1>1. OthersStill(w)
  BY WorkIsOwn DEF Work, Fault
<1>2. UNCHANGED <<stream, dlq, call, status, cur, dropped, delivered>>
  BY DEF Reject, Acquire, AcquireDegraded, Skip, Hydrate, PipelineRaises, CompletionRaises,
     CountFailure, Decide, RetryAck, DlqAck
<1>3. pc[w] \in RunPlaces /\ pc'[w] \in RunPlaces
  BY DEF Reject, Acquire, AcquireDegraded, Skip, Hydrate, PipelineRaises, CompletionRaises,
     CountFailure, Decide, RetryAck, DlqAck, Move, RunPlaces, CarryingPlaces, TypeOK, HandsTyped
<1>4. cur[w] # 0
  BY <1>3 DEF RunPlaces, CarryingPlaces, TypeOK, HandsTyped
<1>5. pel' = pel \/ pel' = pel \ {cur[w]}
  BY DEF Reject, Acquire, AcquireDegraded, Skip, Hydrate, PipelineRaises, CompletionRaises,
     CountFailure, Decide, RetryAck, DlqAck, Xack
<1>6. \A e \in Entries : e # cur[w] => (Offers(w, e)' <=> Offers(w, e))
  BY <1>2, <1>5 DEF Offers, Discards
<1> QED
  BY <1>1, <1>2, <1>3, <1>4, <1>6, StayingIsQuiet

\* An entry that turns out to be nobody's concern.
LEMMA LookingIsQuiet ==
    ASSUME TypeOK, OnlySent, NEW w \in Workers,
           \/ Load(w) /\ pc'[w] # "start"
           \/ Insert(w) /\ pc'[w] # "start"
           \/ AckOnly(w)
    PROVE  Quiet(w)
<1> USE DEF queueVars, rowVars, sessionVars
<1>1. OthersStill(w)
  BY WorkIsOwn DEF Work
<1>2. UNCHANGED <<stream, dlq, call, dropped, delivered>>
  BY DEF Load, Insert, AckOnly
<1>3. UNCHANGED status
  <2>1. Insert(w) /\ pc'[w] # "start" => UNCHANGED status
    BY DEF Insert, Move, TypeOK, HandsTyped
  <2> QED
    BY <2>1 DEF Load, AckOnly
<1>4. pc[w] \in {"load", "insert", "ackOnly"} /\ pc'[w] \in {"insert", "ackOnly", "claim", "load"}
  BY DEF Load, Insert, AckOnly, Finish, Move, TypeOK, HandsTyped
<1>5. HandsStay
  <2>1. pc[w] \notin RunPlaces /\ pc'[w] \notin RunPlaces
    BY <1>4 DEF RunPlaces, CarryingPlaces
  <2>2. \A j \in Jobs : ~Runs(w, j) /\ ~Runs(w, j)'
    BY <2>1 DEF Runs, RunPlaces
  <2> QED
    BY <1>1, <2>2, HasBy
<1>6. ToldStays /\ LettersStay
  BY <1>2, <1>3, ToldBy, LettersBy DEF ToldStays
<1>7. CASE Insert(w) \/ AckOnly(w)
  <2>1. cur[w] \in 1 .. delivered
    BY <1>7 DEF Insert, AckOnly, Finish, Move, TypeOK, HandsTyped
  <2>2. \A e \in Entries : Offers(w, e)' <=> Offers(w, e)
    <3>1. CASE Insert(w)
      <4>1. UNCHANGED pel /\ pc[w] = "insert" /\ pc'[w] \in {"start", "claim"}
        BY <3>1 DEF Insert, Move, TypeOK, HandsTyped
      <4> QED
        BY <1>2, <4>1 DEF Offers, Discards, FoundDead
    <3>2. CASE AckOnly(w)
      <4>1. pel' = pel \ {cur[w]} /\ pc[w] = "ackOnly" /\ pc'[w] \in {"claim", "load"}
        BY <3>2 DEF AckOnly, Xack, Finish, Move, TypeOK, HandsTyped
      <4>2. \A e \in Entries : Discards(w, e) <=> e = cur[w]
        BY <4>1 DEF Discards
      <4>3. \A e \in Entries : ~Discards(w, e)'
        BY <4>1 DEF Discards, FoundDead
      <4>4. ~(cur[w] > delivered)
        BY <2>1 DEF TypeOK, QueueTyped
      <4> QED
        BY <1>2, <4>1, <4>2, <4>3, <4>4 DEF Offers
    <3> QED
      BY <1>7, <3>1, <3>2
  <2>3. DueStays
    BY <1>1, <1>2, <2>2, DueByEntries DEF DueStays
  <2> QED
    BY <1>2, <1>5, <1>6, <2>3 DEF Quiet
<1>8. CASE Load(w)
  <2>1. PICK d \in batch[w] :
           /\ pc' = [pc EXCEPT ![w] = IF status[stream[d]] = "none" THEN "insert"
                                ELSE IF status[stream[d]] \in Terminal
                                       THEN "ackOnly" ELSE "start"]
           /\ cur' = [cur EXCEPT ![w] = d]
    BY <1>8 DEF Load, Settled, Move
  <2>2. d \in Entries /\ cur'[w] = d /\ stream[d] \in Jobs
    BY <2>1 DEF TypeOK, HandsTyped, QueueTyped, Entries
  <2>3. UNCHANGED pel /\ pc[w] = "load"
    BY <1>8 DEF Load, Move
  <2>4. \A e \in Entries : e # d => (Offers(w, e)' <=> Offers(w, e))
    BY <1>2, <2>2, <2>3 DEF Offers, Discards, FoundDead
  <2>5. \A i \in Jobs \ {stream[d]} : Due(i)' <=> Due(i)
    BY <1>1, <1>2, <2>4, DueByEntries
  <2>6. CASE pc'[w] = "ackOnly"
    <3>1. status[stream[d]] \in Terminal
      BY <2>1, <2>6 DEF TypeOK, HandsTyped
    <3>2. call[stream[d]] = "sent"
      BY <2>2 DEF OnlySent
    <3> QED
      BY <1>2, <1>5, <1>6, <2>2, <2>5, <3>1, <3>2 DEF Quiet
  <2>7. CASE pc'[w] # "ackOnly"
    <3>1. \A e \in Entries : Offers(w, e)' <=> Offers(w, e)
      BY <1>2, <1>4, <2>3, <2>7 DEF Offers, Discards, FoundDead
    <3>2. DueStays
      BY <1>1, <1>2, <3>1, DueByEntries DEF DueStays
    <3> QED
      BY <1>2, <1>5, <1>6, <3>2 DEF Quiet
  <2> QED
    BY <2>6, <2>7
<1> QED
  BY <1>7, <1>8

\* Such a step is one of the abstract queue's deliveries, or none.
LEMMA QuietImplements ==
    ASSUME NEW w \in Workers, Quiet(w)
    PROVE  [Queue!Next]_(Queue!vars)
<1>1. UNCHANGED <<Outcomes, Hands, Letters, dropped>>
  BY WholeStays DEF Quiet
<1>2. CASE DueStays
  BY <1>1, <1>2, WholeStays DEF Queue!vars
<1>3. CASE ~DueStays
  <2>1. PICK j \in Jobs : /\ \A i \in Jobs \ {j} : Due(i)' <=> Due(i)
                          /\ call[j] = "sent"
                          /\ ~Due(j)' => status[j] \in Terminal \/ Runs(w, j)
    BY <1>3 DEF Quiet
  <2>2. CASE Due(j)'
    <3>1. DueJobs' = DueJobs \cup {j}
      BY <2>1, <2>2, WholeDue
    <3>2. Outcomes[j] \notin {"new", "refused"}
      BY <2>1 DEF Outcomes, Told, Terminal
    <3>3. Queue!ComeBack(j)
      BY <1>1, <3>1, <3>2 DEF Queue!ComeBack
    <3> QED
      BY <3>3 DEF Queue!Next
  <2>3. CASE ~Due(j)'
    <3>1. DueJobs' = DueJobs \ {j}
      BY <2>1, <2>3, WholeDue
    <3>2. Outcomes[j] \in Queue!Closed \/ \E v \in Workers : j \in Hands[v]
      BY <2>1, <2>3, OneJob DEF Outcomes, Told, Terminal, Queue!Closed
    <3>3. Queue!UseUp(j)
      BY <1>1, <3>1, <3>2 DEF Queue!UseUp
    <3> QED
      BY <3>3 DEF Queue!Next
  <2> QED
    BY <2>2, <2>3
<1> QED
  BY <1>2, <1>3

-----------------------------------------------------------------------------
\* Beginning to run a job.
LEMMA TakeImplements ==
    ASSUME TypeOK, OnlySent, NEW w \in Workers, Load(w) \/ Insert(w), pc'[w] = "start"
    PROVE  [Queue!Next]_(Queue!vars)
<1> USE DEF queueVars, rowVars, sessionVars
<1>1. OthersStill(w)
  BY WorkIsOwn DEF Work
<1>2. UNCHANGED <<stream, dlq, call, dropped, delivered, pel>>
  BY DEF Load, Insert, Move, TypeOK, HandsTyped
<1>3. pc[w] \in {"load", "insert"}
  BY DEF Load, Insert, Move
<1>4. cur'[w] # 0 /\ cur'[w] \in Entries /\ JobOf(w)' \in Jobs
  <2>1. CASE Load(w)
    <3>1. PICK d \in batch[w] : cur' = [cur EXCEPT ![w] = d]
      BY <2>1 DEF Load
    <3>2. d \in Entries /\ d # 0 /\ cur'[w] = d /\ stream[d] \in Jobs
      BY <3>1 DEF TypeOK, HandsTyped, QueueTyped, Entries
    <3> QED
      BY <1>2, <3>2 DEF JobOf
  <2>2. CASE Insert(w)
    <3>1. cur' = cur
      BY <2>2 DEF Insert, Move, TypeOK, HandsTyped
    <3>2. cur[w] # 0
      BY <2>2 DEF Insert, Move, TypeOK, HandsTyped
    <3> QED
      BY <1>2, <1>3, <2>2, <3>1, <3>2, InHand DEF JobOf, Insert, Move
  <2> QED
    BY <2>1, <2>2
<1>5. PICK j \in Jobs : j = JobOf(w)'
  BY <1>4
<1>6. call[j] = "sent"
  BY <1>2, <1>4, <1>5 DEF OnlySent, JobOf
<1>7. status[j] \notin Terminal /\ status'[j] \notin Terminal
                    /\ \A i \in Jobs \ {j} : status'[i] = status[i]
  <2>1. CASE Load(w)
    <3>1. PICK d \in batch[w] :
             /\ pc' = [pc EXCEPT ![w] = IF status[stream[d]] = "none" THEN "insert"
                                  ELSE IF status[stream[d]] \in Terminal
                                         THEN "ackOnly" ELSE "start"]
             /\ cur' = [cur EXCEPT ![w] = d]
             /\ UNCHANGED status
      BY <2>1 DEF Load, Settled, Move
    <3>2. stream[d] = j
      BY <1>2, <1>5, <3>1 DEF JobOf, TypeOK, HandsTyped
    <3>3. status[stream[d]] \notin Terminal
      BY <3>1 DEF TypeOK, HandsTyped
    <3> QED
      BY <3>1, <3>2, <3>3
  <2>2. CASE Insert(w)
    <3>1. /\ status[JobOf(w)] = "none" /\ cur' = cur
          /\ status' = [status EXCEPT ![JobOf(w)] = "queued"]
      BY <2>2 DEF Insert, Move, TypeOK, HandsTyped
    <3>2. JobOf(w) = j
      BY <1>2, <1>5, <3>1 DEF JobOf
    <3> QED
      BY <3>1, <3>2 DEF TypeOK, RowsTyped, Terminal
  <2> QED
    BY <2>1, <2>2
<1>8. ToldStays
  BY <1>2, <1>6, <1>7 DEF ToldStays, Told
<1>9. \A e \in Entries : Offers(w, e)' <=> Offers(w, e)
  BY <1>2, <1>3 DEF Offers, Discards, FoundDead
<1>10. DueStays
  BY <1>1, <1>2, <1>9, DueByEntries DEF DueStays
<1>11. Takes(w, j)
  <2>1. \A i \in Jobs : Runs(w, i)' <=> i = j
    BY <1>4, <1>5 DEF Runs, CarryingPlaces
  <2> QED
    BY <1>1, <2>1, OthersHave DEF Takes
<1>12. Hands[w] = {}
  <2>1. \A i \in Jobs : ~Runs(w, i)
    BY <1>3, HasNothing DEF RunPlaces, CarryingPlaces
  <2> QED
    BY <2>1 DEF Hands
<1>13. Outcomes[j] = "open"
  BY <1>6, <1>7 DEF Outcomes, Told
<1>14. UNCHANGED <<Outcomes, DueJobs, Letters, dropped>>
  BY <1>2, <1>8, <1>10, WholeStays, LettersBy
<1>15. Queue!Take(w, j)
  BY <1>11, <1>12, <1>13, <1>14, WholeTakes DEF Queue!Take
<1> QED
  BY <1>15 DEF Queue!Next

\* Writing the row of the job in hand.
LEMMA WriteImplements ==
    ASSUME TypeOK, OnlySent, NEW w \in Workers, Start(w) \/ CommitFailure(w) \/ Retry(w)
    PROVE  [Queue!Next]_(Queue!vars)
<1> USE DEF queueVars, rowVars, sessionVars
<1>1. OthersStill(w)
  BY WorkIsOwn DEF Work
<1>2. UNCHANGED <<stream, dlq, call, dropped, delivered, pel, cur>>
  BY DEF Start, CommitFailure, Retry
<1>3. /\ pc[w] \in {"start", "failed", "retry"}
      /\ pc'[w] \in {"handle", "decide", "retryAck"}
  BY DEF Start, CommitFailure, Retry, Move, TypeOK, HandsTyped
<1>4. PICK j \in Jobs : j = JobOf(w) /\ cur[w] \in Entries
  BY <1>3, InHand
<1>5. PICK s \in {"running", "failed", "queued"} : NetStatus(w, s)
  BY DEF Start, CommitFailure, Retry
<1>6. /\ \A i \in Jobs \ {j} : status'[i] = status[i]
      /\ status'[j] = status[j] \/ status'[j] \notin Terminal
  BY <1>4, <1>5 DEF NetStatus, TypeOK, RowsTyped, Terminal
<1>7. call[j] = "sent"
  BY <1>4 DEF OnlySent, JobOf
<1>8. Runs(w, j)
  BY <1>3, <1>4 DEF Runs, CarryingPlaces, TypeOK, HandsTyped
<1>9. HandsStay
  BY <1>1, <1>2, <1>3, StaysAtEntry, HasBy DEF RunPlaces, CarryingPlaces
<1>10. \A e \in Entries : Offers(w, e)' <=> Offers(w, e)
  BY <1>2, <1>3 DEF Offers, Discards, FoundDead
<1>11. DueStays
  BY <1>1, <1>2, <1>10, DueByEntries DEF DueStays
<1>12. UNCHANGED <<Hands, DueJobs, Letters, dropped>>
  BY <1>2, <1>9, <1>11, WholeStays, LettersBy
<1>13. CASE status'[j] = status[j]
  <2>1. ToldStays
    BY <1>2, <1>6, <1>13, ToldBy DEF ToldStays
  <2> QED
    BY <1>12, <2>1, WholeStays DEF Queue!vars
<1>14. CASE status'[j] \notin Terminal
  <2>1. Told(j)' = "open" /\ \A i \in Jobs \ {j} : Told(i)' = Told(i)
    BY <1>2, <1>6, <1>7, <1>14 DEF Told
  <2>2. Queue!Reopen(w, j)
    BY <1>8, <1>12, <2>1, WholeTold, OneJob DEF Queue!Reopen
  <2> QED
    BY <2>2 DEF Queue!Next
<1> QED
  BY <1>6, <1>13, <1>14

\* Success.
LEMMA SucceedImplements ==
    ASSUME TypeOK, OnlySent, NEW w \in Workers, Succeed(w)
    PROVE  [Queue!Next]_(Queue!vars)
<1> USE DEF queueVars, rowVars, sessionVars
<1>1. OthersStill(w)
  BY WorkIsOwn DEF Work
<1>2. UNCHANGED <<stream, dlq, call, dropped, delivered, pel, cur>>
  BY DEF Succeed
<1>3. pc[w] = "succeed" /\ pc'[w] = "ack"
  BY DEF Succeed, Move, TypeOK, HandsTyped
<1>4. PICK j \in Jobs : j = JobOf(w) /\ cur[w] \in Entries
  BY <1>3, InHand
<1>5. status'[j] = "success" /\ \A i \in Jobs \ {j} : status'[i] = status[i]
  BY <1>4 DEF Succeed, TypeOK, RowsTyped
<1>6. call[j] = "sent"
  BY <1>4 DEF OnlySent, JobOf
<1>7. Runs(w, j)
  BY <1>3, <1>4 DEF Runs, CarryingPlaces, TypeOK, HandsTyped
<1>8. HandsStay
  BY <1>1, <1>2, <1>3, StaysAtEntry, HasBy DEF RunPlaces, CarryingPlaces
<1>9. \A e \in Entries : e # cur[w] => (Offers(w, e)' <=> Offers(w, e))
  BY <1>2 DEF Offers, Discards
<1>10. \A i \in Jobs \ {j} : Due(i)' <=> Due(i)
  BY <1>1, <1>2, <1>4, <1>9, DueByEntries DEF JobOf
<1>11. Due(j)' => Due(j)
  <2>1. \A e \in Entries : Offers(w, e)' => Offers(w, e)
    BY <1>2, <1>3 DEF Offers, Discards, FoundDead
  <2>2. \A e \in Entries, v \in Workers \ {w} : Discards(v, e)' <=> Discards(v, e)
    BY <1>1 DEF OthersStill, Discards, FoundDead
  <2>3. \A e \in Entries : WillReturn(e)' => WillReturn(e)
    BY <1>2, <2>1, <2>2 DEF WillReturn, Offers
  <2>4. Entries' = Entries
    BY <1>2 DEF Entries
  <2> QED
    BY <1>2, <2>3, <2>4 DEF Due
<1>12. DueJobs' \in {DueJobs, DueJobs \ {j}}
  BY <1>10, <1>11, WholeDue
<1>13. UNCHANGED <<Hands, Letters, dropped>>
  BY <1>2, <1>8, WholeStays, LettersBy
<1>14. Told(j)' = "success" /\ \A i \in Jobs \ {j} : Told(i)' = Told(i)
  BY <1>2, <1>5, <1>6 DEF Told, Terminal
<1>15. Queue!Complete(w, j)
  BY <1>7, <1>12, <1>13, <1>14, WholeTold, OneJob DEF Queue!Complete
<1> QED
  BY <1>15 DEF Queue!Next

\* A copy for the dead-letter queue.
LEMMA LetterImplements ==
    ASSUME TypeOK, OnlySent, NEW w \in Workers, DlqAdd(w)
    PROVE  [Queue!Next]_(Queue!vars)
<1> USE DEF queueVars, rowVars, sessionVars
<1>1. OthersStill(w)
  BY WorkIsOwn DEF Work
<1>2. UNCHANGED <<stream, call, status, dropped, delivered, pel, cur>>
  BY DEF DlqAdd
<1>3. pc[w] = "dlqAdd" /\ pc'[w] = "dlqMark"
  BY DEF DlqAdd, Move, TypeOK, HandsTyped
<1>4. PICK j \in Jobs : j = JobOf(w) /\ cur[w] \in Entries
  BY <1>3, InHand
<1>5. dlq' = Append(dlq, j) /\ dlq \in Seq(Jobs)
  BY <1>4 DEF DlqAdd, TypeOK, QueueTyped
<1>6. Letters' = Letters \cup {j}
  <2>1. /\ Len(dlq') = Len(dlq) + 1 /\ dlq'[Len(dlq) + 1] = j
        /\ \A n \in 1 .. Len(dlq) : dlq'[n] = dlq[n]
    BY <1>5
  <2>2. \A i \in Jobs : InDlq(i)' <=> InDlq(i) \/ i = j
    BY <1>5, <2>1 DEF InDlq
  <2> QED
    BY <2>2 DEF Letters
<1>7. Runs(w, j)
  BY <1>3, <1>4 DEF Runs, CarryingPlaces, TypeOK, HandsTyped
<1>8. HandsStay
  BY <1>1, <1>2, <1>3, StaysAtEntry, HasBy DEF RunPlaces, CarryingPlaces
<1>9. \A e \in Entries : Offers(w, e)' <=> Offers(w, e)
  BY <1>2, <1>3 DEF Offers, Discards, FoundDead
<1>10. DueStays
  BY <1>1, <1>2, <1>9, DueByEntries DEF DueStays
<1>11. ToldStays
  BY <1>2, ToldBy DEF ToldStays
<1>12. UNCHANGED <<Outcomes, Hands, DueJobs, dropped>>
  BY <1>2, <1>8, <1>10, <1>11, WholeStays
<1>13. Queue!Write(w, j)
  BY <1>6, <1>7, <1>12, OneJob DEF Queue!Write
<1> QED
  BY <1>13 DEF Queue!Next

-----------------------------------------------------------------------------
\* A worker that lets go of its job: the job is closed, or somebody else's concern,
\* as NoJobLost says of the state that is reached.
LEMMA LeaveImplements ==
    ASSUME TypeOK, NoJobLost', NEW w \in Workers, NEW j \in Jobs, Runs(w, j),
           UNCHANGED <<call, dlq, dropped>>, ToldStays, LetsGo(w),
           \A i \in Jobs \ {j} : Due(i)' <=> Due(i), Due(j) => Due(j)'
    PROVE  [Queue!Next]_(Queue!vars)
<1>1. DueJobs' \in {DueJobs, DueJobs \cup {j}}
  BY WholeDue
<1>2. UNCHANGED <<Outcomes, Letters, dropped>>
  BY WholeStays, LettersBy
<1>3. ASSUME Outcomes[j] = "open"
      PROVE  j \in DueJobs' \cup dropped \/ \E v \in Workers \ {w} : j \in Hands[v]
  <2>1. call'[j] = "sent" /\ status'[j] \notin Terminal
    <3>1. Told(j)' = "open"
      BY <1>3 DEF ToldStays, Outcomes
    <3> QED
      BY <3>1 DEF Told, Terminal
  <2>2. \/ j \in dropped
        \/ \E v \in Workers : Carries(v, j)'
        \/ Due(j)'
    BY <2>1 DEF NoJobLost, Due
  <2>3. ASSUME NEW v \in Workers, Carries(v, j)' PROVE v # w /\ j \in Hands[v]
    <3>1. Runs(v, j)'
      BY <2>3 DEF Carries, Runs
    <3>2. v # w /\ Runs(v, j)
      BY <3>1 DEF LetsGo
    <3> QED
      BY <3>2, OneJob
  <2> QED
    BY <2>2, <2>3 DEF DueJobs
<1>4. Queue!Leave(w, j)
  BY <1>1, <1>2, <1>3, WholeLetsGo, OneJob DEF Queue!Leave
<1> QED
  BY <1>4 DEF Queue!Next

\* What a worker lets go of when it has no entry any more.
LEMMA GoesBy ==
    ASSUME TypeOK, NEW w \in Workers, OthersStill(w), pc'[w] \in {"claim", "load"}
    PROVE  LetsGo(w)
<1>1. \A i \in Jobs : ~Runs(w, i)'
  BY DEF Runs, CarryingPlaces
<1> QED
  BY <1>1, OthersHave DEF LetsGo

LEMMA AckImplements ==
    ASSUME TypeOK, NoJobLost', NEW w \in Workers, AckSuccess(w)
    PROVE  [Queue!Next]_(Queue!vars)
<1> USE DEF queueVars, rowVars, sessionVars
<1>1. OthersStill(w)
  BY WorkIsOwn DEF Work
<1>2. UNCHANGED <<stream, dlq, call, status, dropped, delivered>> /\ pel' = pel \ {cur[w]}
  BY DEF AckSuccess, Xack
<1>3. pc[w] = "ack" /\ pc'[w] \in {"claim", "load"}
  BY DEF AckSuccess, Finish, Move, TypeOK, HandsTyped
<1>4. PICK j \in Jobs : j = JobOf(w) /\ cur[w] \in Entries
  BY <1>3, InHand
<1>5. Runs(w, j)
  BY <1>3, <1>4 DEF Runs, CarryingPlaces, TypeOK, HandsTyped
<1>6. \A e \in Entries : Offers(w, e)' <=> Offers(w, e)
  <2>1. \A e \in Entries : Discards(w, e) <=> e = cur[w]
    BY <1>3 DEF Discards
  <2>2. \A e \in Entries : ~Discards(w, e)'
    BY <1>3 DEF Discards, FoundDead
  <2>3. ~(cur[w] > delivered)
    BY DEF TypeOK, HandsTyped, QueueTyped
  <2> QED
    BY <1>2, <2>1, <2>2, <2>3 DEF Offers
<1>7. DueStays
  BY <1>1, <1>2, <1>6, DueByEntries DEF DueStays
<1>8. ToldStays
  BY <1>2, ToldBy DEF ToldStays
<1>9. LetsGo(w)
  BY <1>1, <1>3, GoesBy
<1> QED
  BY <1>2, <1>5, <1>7, <1>8, <1>9, LeaveImplements DEF DueStays

\* The row is marked dead, or was when it was read.
LEMMA MarkImplements ==
    ASSUME TypeOK, OnlySent, DeadAreCopied, NoJobLost', NEW w \in Workers, DlqMark(w)
    PROVE  [Queue!Next]_(Queue!vars)
<1> USE DEF queueVars, rowVars, sessionVars
<1>1. OthersStill(w)
  BY WorkIsOwn DEF Work
<1>2. UNCHANGED <<stream, dlq, call, dropped, delivered, pel>>
  BY DEF DlqMark
<1>3. pc[w] = "dlqMark" /\ pc'[w] \in {"claim", "load"}
  BY DEF DlqMark, Finish, Move, TypeOK, HandsTyped
<1>4. PICK j \in Jobs : j = JobOf(w) /\ cur[w] \in Entries
  BY <1>3, InHand
<1>5. Runs(w, j)
  BY <1>3, <1>4 DEF Runs, CarryingPlaces, TypeOK, HandsTyped
<1>6. \A e \in Entries : Offers(w, e)' <=> Offers(w, e)
  BY <1>2, <1>3 DEF Offers, Discards, FoundDead
<1>7. DueStays
  BY <1>1, <1>2, <1>6, DueByEntries DEF DueStays
<1>8. LetsGo(w)
  BY <1>1, <1>3, GoesBy
<1>9. status' = [status EXCEPT ![j] = IF seen[w] = "dlq" THEN @ ELSE "dlq"]
  BY <1>4 DEF DlqMark, NetStatus
<1>10. CASE status' = status
  <2>1. ToldStays
    BY <1>2, <1>10, ToldBy DEF ToldStays
  <2> QED
    BY <1>2, <1>5, <1>7, <1>8, <2>1, LeaveImplements DEF DueStays
<1>11. CASE status'[j] = "dlq"
  <2>1. \A i \in Jobs \ {j} : status'[i] = status[i]
    BY <1>9 DEF TypeOK, RowsTyped
  <2>2. call[j] = "sent"
    BY <1>4 DEF OnlySent, JobOf
  <2>3. Told(j)' = "dlq" /\ \A i \in Jobs \ {j} : Told(i)' = Told(i)
    BY <1>2, <1>11, <2>1, <2>2 DEF Told, Terminal
  <2>4. j \in Letters
    BY <1>3, <1>4 DEF DeadAreCopied, Letters
  <2>5. UNCHANGED <<DueJobs, Letters, dropped>>
    BY <1>2, <1>7, WholeStays, LettersBy
  <2>6. Queue!Bury(w, j)
    BY <1>5, <1>8, <2>3, <2>4, <2>5, WholeTold, WholeLetsGo, OneJob DEF Queue!Bury
  <2> QED
    BY <2>6 DEF Queue!Next
<1> QED
  BY <1>9, <1>10, <1>11 DEF TypeOK, RowsTyped

\* An interruption.
LEMMA InterruptImplements ==
    ASSUME TypeOK, OnlySent, NoJobLost', NEW w \in Workers, Interrupt(w)
    PROVE  [Queue!Next]_(Queue!vars)
<1> USE DEF queueVars, rowVars, sessionVars
<1>1. OthersStill(w)
  BY WorkIsOwn DEF Fault
<1>2. UNCHANGED <<stream, dlq, call, status, delivered, pel>>
  BY DEF Interrupt
<1>3. pc'[w] = "claim" /\ cur'[w] = 0
  BY DEF Interrupt, TypeOK, HandsTyped
<1>4. LetsGo(w)
  BY <1>1, <1>3, GoesBy
<1>5. ToldStays
  BY <1>2, ToldBy DEF ToldStays
<1>6. \A e \in Entries : ~Discards(w, e)'
  BY <1>3 DEF Discards, FoundDead
<1>7. \A e \in Entries : Offers(w, e) => Offers(w, e)'
  BY <1>2, <1>6 DEF Offers
<1>8. ASSUME NEW i \in Jobs, Due(i) PROVE Due(i)'
  <2>1. PICK e \in Entries : stream[e] = i /\ WillReturn(e)
    BY <1>8 DEF Due
  <2>2. \A v \in Workers : ~Discards(v, e)'
    BY <1>1, <1>6, <2>1 DEF WillReturn, OthersStill, Discards, FoundDead
  <2> QED
    BY <1>2, <2>1, <2>2 DEF Due, WillReturn, Entries
<1>9. \A e \in Entries : e # cur[w] => (Offers(w, e)' <=> Offers(w, e))
  BY <1>2, <1>6 DEF Offers, Discards
<1>10. ASSUME NEW i \in Jobs, cur[w] # 0 => JobOf(w) # i PROVE Due(i)' <=> Due(i)
  <2>1. \A e \in Entries : stream[e] = i => e # cur[w]
    <3>1. \A e \in Entries : e # 0
      BY DEF Entries
    <3> QED
      BY <1>10, <3>1 DEF JobOf
  <2> QED
    BY <1>1, <1>2, <1>9, <2>1, DueByEntries
<1>11. dropped' = dropped \cup {i \in Jobs : Carries(w, i) /\ ~Due(i)}
  BY DEF Interrupt, Due
<1>12. CASE pc[w] \in RunPlaces
  <2>1. PICK j \in Jobs : j = JobOf(w) /\ cur[w] \in Entries /\ cur[w] # 0
    BY <1>12, InHand DEF RunPlaces, CarryingPlaces, TypeOK, HandsTyped
  <2>2. Runs(w, j)
    BY <1>12, <2>1 DEF Runs, RunPlaces
  <2>3. \A i \in Jobs \ {j} : Due(i)' <=> Due(i)
    BY <1>10, <2>1
  <2>4. \A i \in Jobs : Carries(w, i) => i = j
    BY <2>1 DEF Carries
  <2>5. CASE Carries(w, j) /\ ~Due(j)
    <3>1. dropped' = dropped \cup {j}
      BY <1>11, <2>4, <2>5
    <3>2. ~Discards(w, cur[w])
      BY <2>5 DEF Carries, Discards, CarryingPlaces
    <3>3. \A e \in Entries : Offers(w, e)' <=> Offers(w, e)
      BY <1>2, <1>6, <1>9, <3>2 DEF Offers
    <3>4. DueStays
      BY <1>1, <1>2, <3>3, DueByEntries DEF DueStays
    <3>5. j \notin DueJobs /\ UNCHANGED <<Outcomes, DueJobs, Letters>>
      BY <1>2, <1>5, <2>5, <3>4, WholeStays, LettersBy DEF DueJobs
    <3>6. Queue!Lose(w, j)
      BY <1>4, <2>2, <3>1, <3>5, WholeLetsGo, OneJob DEF Queue!Lose
    <3> QED
      BY <3>6 DEF Queue!Next
  <2>6. CASE ~(Carries(w, j) /\ ~Due(j))
    <3>1. UNCHANGED dropped
      BY <1>11, <2>4, <2>6
    <3> QED
      BY <1>2, <1>4, <1>5, <1>8, <2>2, <2>3, <3>1, LeaveImplements
  <2> QED
    BY <2>5, <2>6
<1>13. CASE pc[w] \notin RunPlaces
  <2>1. UNCHANGED dropped
    BY <1>11, <1>13 DEF Carries, RunPlaces
  <2>2. HandsStay
    <3>1. \A i \in Jobs : ~Runs(w, i)
      BY <1>13, HasNothing
    <3> QED
      BY <1>4, <3>1 DEF LetsGo, HandsStay
  <2>3. LettersStay
    BY <1>2, LettersBy
  <2>4. CASE cur[w] = 0
    <3>1. DueStays
      BY <1>10, <2>4 DEF DueStays
    <3> QED
      BY <1>5, <2>1, <2>2, <2>3, <3>1, QuietImplements DEF Quiet
  <2>5. CASE cur[w] # 0
    <3>1. PICK j \in Jobs : j = JobOf(w) /\ cur[w] \in Entries
      BY <2>5, InHand DEF TypeOK, HandsTyped
    <3>2. \A i \in Jobs \ {j} : Due(i)' <=> Due(i)
      BY <1>10, <3>1
    <3>3. call[j] = "sent"
      BY <3>1 DEF OnlySent, JobOf
    <3>4. DueStays \/ Due(j)'
      BY <1>8, <3>2 DEF DueStays
    <3> QED
      BY <1>5, <2>1, <2>2, <2>3, <3>2, <3>3, <3>4, QuietImplements DEF Quiet
  <2> QED
    BY <2>4, <2>5
<1> QED
  BY <1>12, <1>13

\* A new entry is due, and makes no other job due.
LEMMA EntryMakesDue ==
    ASSUME TypeOK, TypeOK', NEW j \in Jobs, stream' = Append(stream, j),
           UNCHANGED <<delivered, pel>>,
           \A e \in Entries, v \in Workers : Discards(v, e)' <=> Discards(v, e)
    PROVE  Due(j)' /\ \A i \in Jobs \ {j} : Due(i)' <=> Due(i)
<1>1. PICK new : new = Len(stream) + 1
  OBVIOUS
<1>2. /\ new \in Nat /\ Entries' = Entries \cup {new} /\ new \notin Entries /\ new # 0
      /\ stream'[new] = j /\ \A e \in Entries : stream'[e] = stream[e]
  <2>1. stream \in Seq(Jobs)
    BY DEF TypeOK, QueueTyped
  <2>2. /\ Len(stream') = Len(stream) + 1 /\ Len(stream) \in Nat
        /\ stream'[Len(stream) + 1] = j /\ \A e \in 1 .. Len(stream) : stream'[e] = stream[e]
    BY <2>1
  <2> QED
    BY <1>1, <2>2 DEF Entries
<1>3. delivered \in 0 .. Len(stream)
  BY DEF TypeOK, QueueTyped
<1>4. WillReturn(new)'
  <2>1. new > delivered'
    BY <1>1, <1>2, <1>3
  <2>2. \A v \in Workers : cur'[v] # new
    <3>1. \A v \in Workers : cur'[v] \in 0 .. delivered
      BY DEF TypeOK, HandsTyped
    <3> QED
      BY <1>1, <1>3, <3>1
  <2> QED
    BY <2>1, <2>2 DEF WillReturn, Discards
<1>5. \A e \in Entries : WillReturn(e)' <=> WillReturn(e)
  BY DEF WillReturn
<1>6. Due(j)'
  BY <1>2, <1>4 DEF Due
<1>7. ASSUME NEW i \in Jobs \ {j} PROVE Due(i)' <=> Due(i)
  BY <1>2, <1>5 DEF Due
<1> QED
  BY <1>6, <1>7

LEMMA RequeueImplements ==
    ASSUME TypeOK, TypeOK', NEW w \in Workers, Requeue(w)
    PROVE  [Queue!Next]_(Queue!vars)
<1> USE DEF queueVars, rowVars, sessionVars
<1>1. OthersStill(w)
  BY WorkIsOwn DEF Work
<1>2. UNCHANGED <<dlq, call, status, dropped, delivered, pel>>
  BY DEF Requeue
<1>3. pc[w] = "backoff" /\ pc'[w] \in {"claim", "load"}
  BY DEF Requeue, Finish, Move, TypeOK, HandsTyped
<1>4. PICK j \in Jobs : j = JobOf(w) /\ cur[w] \in Entries
  BY <1>3, InHand
<1>5. Runs(w, j)
  BY <1>3, <1>4 DEF Runs, CarryingPlaces, TypeOK, HandsTyped
<1>6. stream' = Append(stream, j)
  BY <1>4 DEF Requeue, Xadd
<1>7. \A e \in Entries, v \in Workers : Discards(v, e)' <=> Discards(v, e)
  <2>1. \A e \in Entries : ~Discards(w, e) /\ ~Discards(w, e)'
    BY <1>3 DEF Discards, FoundDead
  <2>2. \A e \in Entries, v \in Workers \ {w} : Discards(v, e)' <=> Discards(v, e)
    BY <1>1 DEF OthersStill, Discards, FoundDead
  <2> QED
    BY <2>1, <2>2
<1>8. DueJobs' = DueJobs \cup {j}
  BY <1>2, <1>6, <1>7, EntryMakesDue, WholeDue
<1>9. ToldStays
  BY <1>2, ToldBy DEF ToldStays
<1>10. UNCHANGED <<Outcomes, Letters, dropped>>
  BY <1>2, <1>9, WholeStays, LettersBy
<1>11. Queue!PutBack(w, j)
  BY <1>1, <1>3, <1>5, <1>8, <1>10, GoesBy, WholeLetsGo, OneJob DEF Queue!PutBack
<1> QED
  BY <1>11 DEF Queue!Next

\* Enqueueing, and what happens without the queue.
LEMMA OutsideImplements ==
    ASSUME TypeOK, TypeOK', OnlySent,
           \/ \E j \in Jobs : Enqueue(j)
           \/ \E e \in Entries : GrowIdle(e)
           \/ \E s \in Workspaces :
                LockExpires(s) \/ SchedulerLocks(s) \/ SchedulerUnlocks(s)
           \/ UNCHANGED vars
    PROVE  [Queue!Next]_(Queue!vars)
<1> USE DEF queueVars, rowVars, sessionVars
<1>1. UNCHANGED <<delivered, pel, pc, cur, seen, dropped, dlq>>
  BY DEF Enqueue, Mirror, Send, SendFails, GrowIdle, LockExpires, SchedulerLocks,
     SchedulerUnlocks, vars
<1>2. \A e \in Entries, v \in Workers : Discards(v, e)' <=> Discards(v, e)
  BY <1>1 DEF Discards, FoundDead
<1>3. stream' = stream \/ \E i \in Jobs : Send(i) /\ stream' = Append(stream, i)
  BY DEF Enqueue, Mirror, Send, SendFails, GrowIdle, LockExpires, SchedulerLocks,
     SchedulerUnlocks, vars, Xadd
<1>4. \A e \in Entries : e \in Entries' /\ stream'[e] = stream[e]
  BY <1>3, EntriesStay DEF TypeOK, QueueTyped
<1>5. HandsStay
  <2>1. \A v \in Workers : cur[v] # 0 => cur[v] \in Entries
    BY DEF TypeOK, HandsTyped, QueueTyped, Entries
  <2> QED
    BY <1>1, <1>4, <2>1 DEF HandsStay, Runs, JobOf
<1>6. UNCHANGED <<Hands, Letters, dropped>>
  BY <1>1, <1>5, WholeStays, LettersBy
<1>7. CASE stream' = stream
  <2>1. DueStays
    BY <1>1, <1>2, <1>7 DEF DueStays, Due, WillReturn, Entries
  <2>2. CASE ToldStays
    BY <1>6, <2>1, <2>2, WholeStays DEF Queue!vars
  <2>3. ASSUME NEW j \in Jobs, SendFails(j) PROVE [Queue!Next]_(Queue!vars)
    <3>1. call[j] = "mirrored" /\ call' = [call EXCEPT ![j] = "failed"] /\ UNCHANGED status
      BY <2>3 DEF SendFails
    <3>2. Told(j) = "new" /\ Told(j)' = "refused" /\ \A i \in Jobs \ {j} : Told(i)' = Told(i)
      BY <3>1 DEF Told, TypeOK, QueueTyped
    <3>3. Queue!Refuse(j)
      BY <1>6, <2>1, <3>2, WholeTold, WholeStays DEF Queue!Refuse, Outcomes
    <3> QED
      BY <3>3 DEF Queue!Next
  <2>4. ASSUME NEW j \in Jobs, Mirror(j) PROVE ToldStays
    <3>1. /\ call[j] = "new" /\ call' = [call EXCEPT ![j] = "mirrored"]
          /\ \A i \in Jobs \ {j} : status'[i] = status[i]
      BY <2>4 DEF Mirror, TypeOK, RowsTyped
    <3>2. ASSUME NEW i \in Jobs PROVE Told(i)' = Told(i)
      BY <3>1 DEF Told, TypeOK, QueueTyped
    <3> QED
      BY <3>2 DEF ToldStays
  <2>5. ASSUME NEW j \in Jobs, Send(j) PROVE FALSE
    <3>1. stream \in Seq(Jobs) /\ stream' = Append(stream, j)
      BY <2>5 DEF Send, Xadd, TypeOK, QueueTyped
    <3>2. Len(stream') = Len(stream) + 1 /\ Len(stream) \in Nat
      BY <3>1
    <3> QED
      BY <1>7, <3>2
  <2>6. UNCHANGED <<call, status>> => ToldStays
    BY ToldBy DEF ToldStays
  <2> QED
    BY <2>2, <2>3, <2>4, <2>5, <2>6 DEF Enqueue, GrowIdle, LockExpires, SchedulerLocks,
       SchedulerUnlocks, vars
<1>8. ASSUME NEW j \in Jobs, Send(j), stream' = Append(stream, j)
      PROVE [Queue!Next]_(Queue!vars)
  <2>1. call[j] = "mirrored" /\ call' = [call EXCEPT ![j] = "sent"] /\ UNCHANGED status
    BY <1>8 DEF Send
  <2>2. status[j] \notin Terminal
    BY <2>1 DEF OnlySent
  <2>3. Told(j) = "new" /\ Told(j)' = "open" /\ \A i \in Jobs \ {j} : Told(i)' = Told(i)
    BY <2>1, <2>2 DEF Told, TypeOK, QueueTyped
  <2>4. DueJobs' = DueJobs \cup {j}
    BY <1>1, <1>2, <1>8, EntryMakesDue, WholeDue
  <2>5. Queue!Accept(j)
    BY <1>6, <2>3, <2>4, WholeTold DEF Queue!Accept, Outcomes
  <2> QED
    BY <2>5 DEF Queue!Next
<1> QED
  BY <1>3, <1>7, <1>8

\* Every step of streams, rows, locks and workers is a step of the abstract queue, or none.
LEMMA StepImplementsQueue ==
    ASSUME TypeOK, TypeOK', OnlySent, DeadAreCopied, NoJobLost', [Next]_vars
    PROVE  [Queue!Next]_(Queue!vars)
<1>1. ASSUME NEW w \in Workers, Work(w) \/ Fault(w) PROVE [Queue!Next]_(Queue!vars)
  <2>1. CASE Claim(w) \/ Read(w)
    BY <2>1, FetchIsQuiet, QuietImplements
  <2>2. CASE Load(w) \/ Insert(w) \/ AckOnly(w)
    <3>1. AckOnly(w) => Quiet(w)
      BY LookingIsQuiet
    <3>2. (Load(w) \/ Insert(w)) /\ pc'[w] # "start" => Quiet(w)
      BY LookingIsQuiet
    <3>3. (Load(w) \/ Insert(w)) /\ pc'[w] = "start" => [Queue!Next]_(Queue!vars)
      BY TakeImplements
    <3> QED
      BY <2>2, <3>1, <3>2, <3>3, QuietImplements
  <2>3. CASE \/ Reject(w) \/ Acquire(w) \/ AcquireDegraded(w) \/ Skip(w) \/ Hydrate(w)
             \/ PipelineRaises(w) \/ CompletionRaises(w) \/ CountFailure(w) \/ Decide(w)
             \/ RetryAck(w) \/ DlqAck(w)
    BY <2>3, HandlingIsQuiet, QuietImplements
  <2>4. CASE Start(w) \/ CommitFailure(w) \/ Retry(w)
    BY <2>4, WriteImplements
  <2>5. CASE Succeed(w) \/ AckSuccess(w) \/ Requeue(w) \/ DlqAdd(w) \/ DlqMark(w) \/ Interrupt(w)
    BY <2>5, SucceedImplements, AckImplements, RequeueImplements, LetterImplements,
       MarkImplements, InterruptImplements
  <2> QED
    BY <1>1, <2>1, <2>2, <2>3, <2>4, <2>5 DEF Work, Fault
<1> QED
  BY <1>1, OutsideImplements DEF Next

\* The queue of streams, rows and workers implements the abstract one: a job that was
\* accepted is with a worker, due for one, closed, or let fall at a moment when it was
\* not due; only who took it while it was open writes its outcome; and who is buried has
\* a copy in jobs:dlq.
THEOREM QueueImplementsQueue == Spec => ImplementsQueue
<1>1. Init => Queue!Init
  BY DEF Init, Queue!Init, Outcomes, Hands, DueJobs, Letters, Told, Runs, Due, InDlq, Entries,
     Terminal
<1>2. Init => OnlySent /\ DeadAreCopied
  BY DEF Init, OnlySent, DeadAreCopied, Entries, Terminal
<1>3. TypeOK /\ TypeOK' /\ OnlySent /\ DeadAreCopied /\ NoJobLost' /\ [Next]_vars
        => [Queue!Next]_(Queue!vars)
  BY StepImplementsQueue
<1> QED
  BY <1>1, <1>2, <1>3, OnlySentKept, DeadAreCopiedStep, QueueTypeCorrect, QueueNoJobLost, PTL
     DEF Spec, ImplementsQueue, Queue!Spec
===============================================================================
