------------------------------ MODULE Scheduler ------------------------------
(***************************************************************************)
(* backend/jobs/hydration_worker.py: the loop that hydrates every enabled  *)
(* source once a night, under the lock of its workspace.  An instant is a  *)
(* number: odd ones are the scheduled hour of a night, even ones the time  *)
(* between two of them.  Schedulers share the sources of one workspace and *)
(* its lock with each other and with the queue worker.                     *)
(***************************************************************************)
EXTENDS Integers, FiniteSets

CONSTANTS
    Schedulers,     \* worker processes; the deployment has one, two while it is replaced
    Sources,        \* enabled workspace_sources
    MaxTime,        \* bound: instants
    MaxJobs,        \* bound: hydrations of the queue worker
    MaxBreaks       \* bound: exceptions, deaths, lost locks, denials

ASSUME SchedulerAssumption ==
    /\ MaxTime \in Nat /\ MaxJobs \in Nat /\ MaxBreaks \in Nat

VARIABLES
    time,
    nextRun,    \* hydration_state.next_run_at: NoRow, Never (null) or an instant
    holder,     \* of the workspace lock: "free", "queue", "nobody" (dead) or a scheduler
    loop,       \* each scheduler: its step, source, now, and the sources left
    jobs, breaks,
    nightly,    \* history: hydrations by schedulers since the last scheduled hour
    overlap     \* history: two schedulers were in their loops at a time

schedulerVars == <<time, nextRun, holder, loop, jobs, breaks, nightly, overlap>>

NoRow == -2
Never == -1
Asleep == [step |-> "asleep", source |-> "-", now |-> 0, left |-> {}]

\* _next_run_time: the next scheduled hour, later than t
NextRunTime(t) == IF t % 2 = 0 THEN t + 1 ELSE t + 2

SchedulerInit ==
    /\ time = 0
    /\ nextRun = [s \in Sources |-> NoRow]
    /\ holder = "free"
    /\ loop = [w \in Schedulers |-> Asleep]
    /\ jobs = 0 /\ breaks = 0
    /\ nightly = [s \in Sources |-> 0]
    /\ overlap = FALSE

Moves(w, step) == loop' = [loop EXCEPT ![w].step = step]
\* the loop goes on with the next source
Proceeds(w) == loop' = [loop EXCEPT ![w].step = "next", ![w].source = "-"]
Sleeps(w) == loop' = [loop EXCEPT ![w] = Asleep]
Break == breaks < MaxBreaks /\ breaks' = breaks + 1
\* the release script deletes the key of its own token only
Unlock(w) == holder' = IF holder = w THEN "free" ELSE holder

WakeUp(w) ==
    /\ loop[w] = Asleep
    /\ loop' = [loop EXCEPT ![w] = [step |-> "next", source |-> "-", now |-> time, left |-> Sources]]
    /\ overlap' = (overlap \/ \E v \in Schedulers \ {w} : loop[v] # Asleep)
    /\ UNCHANGED <<time, nextRun, holder, jobs, breaks, nightly>>

\* Faulty variant of IsDue: a state without next_run_at is not due.
IsDueNever(n, now) == n # Never /\ n <= now

IsDue(n, now) == n <= now

\* the state of the next source is read: there is none, it is due, or it is not
Look(w) ==
    /\ loop[w].step = "next"
    /\ \E s \in loop[w].left :
        loop' = [loop EXCEPT ![w].left = @ \ {s}, ![w].source = s,
                 ![w].step = IF nextRun[s] = NoRow THEN "insert"
                             ELSE IF IsDue(nextRun[s], loop[w].now) THEN "lock" ELSE "next"]
    /\ UNCHANGED <<time, nextRun, holder, jobs, breaks, nightly, overlap>>

EndLoop(w) ==
    /\ loop[w].step = "next" /\ loop[w].left = {}
    /\ Sleeps(w)
    /\ UNCHANGED <<time, nextRun, holder, jobs, breaks, nightly, overlap>>

\* a new state is not due; the unique key raises if another process was faster
InsertState(w) ==
    LET s == loop[w].source IN
    /\ loop[w].step = "insert"
    /\ \/ /\ nextRun[s] = NoRow
          /\ nextRun' = [nextRun EXCEPT ![s] = NextRunTime(loop[w].now)]
          /\ Proceeds(w)
       \/ nextRun[s] # NoRow /\ Sleeps(w) /\ UNCHANGED nextRun
    /\ UNCHANGED <<time, holder, jobs, breaks, nightly, overlap>>

\* acquire with wait_seconds=0
TryLock(w) ==
    IF holder = "free" THEN Moves(w, "ask") /\ holder' = w
    ELSE Proceeds(w) /\ UNCHANGED holder

Acquires(w) ==
    /\ loop[w].step = "lock"
    /\ TryLock(w)
    /\ UNCHANGED <<time, nextRun, jobs, breaks, nightly, overlap>>

\* without Redis acquire hands out a token of its own
AcquiresNothing(w) ==
    /\ loop[w].step = "lock"
    /\ Break
    /\ Moves(w, "ask")
    /\ UNCHANGED <<time, nextRun, holder, jobs, nightly, overlap>>

Allowed(w) ==
    /\ loop[w].step = "ask"
    /\ Moves(w, "hydrate")
    /\ UNCHANGED <<time, nextRun, holder, jobs, breaks, nightly, overlap>>

\* denied by the policy: an alert, and the next hour after the start of the loop
Refused(w) ==
    /\ loop[w].step = "ask"
    /\ Break
    /\ nextRun' = [nextRun EXCEPT ![loop[w].source] = NextRunTime(loop[w].now)]
    /\ Unlock(w) /\ Proceeds(w)
    /\ UNCHANGED <<time, jobs, nightly, overlap>>

\* hydrate_workspace; what a source raises stays inside
HydrateSource(w) ==
    /\ loop[w].step = "hydrate"
    /\ nightly' = [nightly EXCEPT ![loop[w].source] = @ + 1]
    /\ Moves(w, "reschedule")
    /\ UNCHANGED <<time, nextRun, holder, jobs, breaks, overlap>>

\* Faulty variant of Rescheduled: the next hour after the start of the loop.
RescheduledFromNow(w) == NextRunTime(loop[w].now)

Rescheduled(w) == NextRunTime(time)

Reschedule(w) ==
    /\ loop[w].step = "reschedule"
    /\ nextRun' = [nextRun EXCEPT ![loop[w].source] = Rescheduled(w)]
    /\ Unlock(w) /\ Proceeds(w)
    /\ UNCHANGED <<time, jobs, breaks, nightly, overlap>>

\* an exception leaves the loop over the sources; finally releases the lock
LoopRaises(w) ==
    /\ loop[w].step \in {"ask", "hydrate", "reschedule"}
    /\ Break
    /\ Unlock(w) /\ Sleeps(w)
    /\ UNCHANGED <<time, nextRun, jobs, nightly, overlap>>

SchedulerDies(w) ==
    /\ loop[w] # Asleep
    /\ Break
    /\ holder' = IF holder = w THEN "nobody" ELSE holder
    /\ Sleeps(w)
    /\ UNCHANGED <<time, nextRun, jobs, nightly, overlap>>

-----------------------------------------------------------------------------
\* two hours: the lock of the dead, or of a hydration that takes longer
WorkspaceLockExpires ==
    /\ holder # "free"
    /\ IF holder = "nobody" THEN UNCHANGED breaks ELSE Break
    /\ holder' = "free"
    /\ UNCHANGED <<time, nextRun, loop, jobs, nightly, overlap>>

\* the queue worker hydrates on demand, and creates states without next_run_at
QueueLocks ==
    /\ holder = "free" /\ jobs < MaxJobs
    /\ holder' = "queue" /\ jobs' = jobs + 1
    /\ UNCHANGED <<time, nextRun, loop, breaks, nightly, overlap>>

QueueHydrates ==
    /\ holder = "queue"
    /\ nextRun' = [s \in Sources |-> IF nextRun[s] = NoRow THEN Never ELSE nextRun[s]]
    /\ holder' = "free"
    /\ UNCHANGED <<time, loop, jobs, breaks, nightly, overlap>>

Pass ==
    /\ time < MaxTime
    /\ time' = time + 1
    /\ nightly' = IF time' % 2 = 1 THEN [s \in Sources |-> 0] ELSE nightly
    /\ UNCHANGED <<nextRun, holder, loop, jobs, breaks, overlap>>

LoopSteps(w) ==
    \/ WakeUp(w) \/ Look(w) \/ EndLoop(w) \/ InsertState(w) \/ Acquires(w) \/ Allowed(w)
    \/ HydrateSource(w) \/ Reschedule(w)

SchedulerNext ==
    \/ \E w \in Schedulers :
        LoopSteps(w) \/ AcquiresNothing(w) \/ Refused(w) \/ LoopRaises(w) \/ SchedulerDies(w)
    \/ WorkspaceLockExpires \/ QueueLocks \/ QueueHydrates \/ Pass

\* The loops run for ever; the queue worker comes back, and the locks of the dead expire.
SchedulerFairness ==
    /\ \A w \in Schedulers : WF_schedulerVars(LoopSteps(w))
    /\ WF_schedulerVars(QueueHydrates)
    /\ WF_schedulerVars(holder = "nobody" /\ WorkspaceLockExpires)

SchedulerSpec == SchedulerInit /\ [][SchedulerNext]_schedulerVars /\ SchedulerFairness

-----------------------------------------------------------------------------
SchedulerTypeOK ==
    /\ time \in 0 .. MaxTime
    /\ nextRun \in [Sources -> {NoRow, Never} \cup Nat]
    /\ holder \in {"free", "queue", "nobody"} \cup Schedulers
    /\ loop \in [Schedulers -> [step : {"asleep", "next", "insert", "lock", "ask", "hydrate", "reschedule"},
                                source : Sources \cup {"-"}, now : 0 .. MaxTime,
                                left : SUBSET Sources]]
    /\ jobs \in 0 .. MaxJobs /\ breaks \in 0 .. MaxBreaks
    /\ nightly \in [Sources -> Nat]
    /\ overlap \in BOOLEAN

\* next_run_at is read before the lock is taken and written after the hydration
\* (hydration_worker.py:120, :154): a source is hydrated twice in a night only when two
\* schedulers overlap, or a hydration is cut off before the new time is committed.
OncePerNight == \A s \in Sources : nightly[s] > 1 => overlap \/ breaks > 0

\* Whatever raises, dies or holds the lock for a time: a source that is due does not stay
\* due, its loop comes back to it (hydration_worker.py:158-162).
DueIsHandled ==
    \A s \in Sources :
        LET due == nextRun[s] # NoRow /\ nextRun[s] <= time IN due ~> ~due
==============================================================================
