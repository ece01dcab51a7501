---------------------------- MODULE EventProjection ----------------------------
(***************************************************************************)
(* Event sourcing: backend/events/emitter.py sends an event to Redis or,   *)
(* failing that, to the table event_log; jobs/event_projector_worker.py    *)
(* and events/projector.py copy the global stream into event_log and fold  *)
(* it into one row per workspace.                                          *)
(*                                                                         *)
(* Events are numbered in the order their ts was taken, so that an event   *)
(* is its own ts.  Nothing in the repository reads the workspace streams:  *)
(* of the second XADD only success and failure matter.                     *)
(***************************************************************************)
EXTENDS Integers, Sequences, FiniteSets

CONSTANTS
    N,              \* events ever built
    Kind,           \* event_type of each
    WorkspaceOf,    \* workspace_id of each, or Nowhere
    JobOf,          \* payload["job_id"] of each
    Workspaces, Nowhere,
    NoJob,
    Projectors,     \* event_projector_worker processes
    BatchSize,      \* count=10 of claim and read
    ReplyLength,    \* elements in a reply of XAUTOCLAIM: 2, or 3 from Redis 7 on
    MaxFaults,      \* bound: interruptions and failed calls of projectors
    MaxEmitFaults   \* bound: failed calls of emitters

Events == 1 .. N

ASSUME ConstantsAssumption ==
    /\ N \in Nat
    /\ WorkspaceOf \in [Events -> Workspaces \cup {Nowhere}]
    /\ Nowhere \notin Workspaces
    /\ BatchSize \in Nat \ {0} /\ ReplyLength \in {2, 3}
    /\ MaxFaults \in Nat /\ MaxEmitFaults \in Nat

VARIABLES
    emit,       \* where the emission of each event is
    stream,     \* events:global
    group,      \* the consumer group "events": "missing" or "made"
    since,      \* entries already there when it was created
    delivered, pel, idle,
    log,        \* event_log
    row,        \* workspace_state_projection
    pc, batch, cur,
    seen,       \* the row in the projector's session
    applied,    \* history: events folded into rows, in order
    again,      \* history: entries that were claimed
    faults, emitFaults

groupVars == <<group, since, delivered, pel, idle>>
tableVars == <<log, row, applied>>
workerVars == <<pc, batch, cur, seen>>
boundVars == <<faults, emitFaults>>
vars == <<emit, stream, groupVars, tableVars, workerVars, again, boundVars>>

Hydrated == "hydration.completed"
Tracked == {Hydrated, "learning.dataset.exported", "regression.promoted"}

\* A row holds the ts of the last event of each kind (0: null) and a job.
Rows == [exists : BOOLEAN, at : [Tracked -> 0 .. N],
         job : {JobOf[e] : e \in Events} \cup {NoJob}]
Absent == [exists |-> FALSE, at |-> [k \in Tracked |-> 0], job |-> NoJob]

Init ==
    /\ emit = [e \in Events |-> "new"]
    /\ stream = <<>>
    /\ group = "missing" /\ since = 0 /\ delivered = 0 /\ pel = {} /\ idle = {}
    /\ log = {} /\ row = [s \in Workspaces |-> Absent] /\ applied = <<>>
    /\ pc = [p \in Projectors |-> "connect"]
    /\ batch = [p \in Projectors |-> {}] /\ cur = [p \in Projectors |-> 0]
    /\ seen = [p \in Projectors |-> Absent]
    /\ again = {} /\ faults = 0 /\ emitFaults = 0

-----------------------------------------------------------------------------
\* emit_global.  The caller may die between any two steps.

Advance(e, from, to) == emit[e] = from /\ emit' = [emit EXCEPT ![e] = to]

EmitFault ==
    emitFaults < MaxEmitFaults /\ emitFaults' = emitFaults + 1 /\ UNCHANGED faults

\* EventEnvelope.build takes the ts.
Build(e) ==
    /\ \A d \in Events : d < e => emit[d] # "new"
    /\ Advance(e, "new", "built")
    /\ UNCHANGED <<stream, groupVars, tableVars, workerVars, again, boundVars>>

XaddGlobal(e) ==
    /\ Advance(e, "built", IF WorkspaceOf[e] = Nowhere THEN "done" ELSE "shared")
    /\ stream' = Append(stream, e)
    /\ UNCHANGED <<groupVars, tableVars, workerVars, again, boundVars>>

XaddWorkspace(e) ==
    /\ Advance(e, "shared", "done")
    /\ UNCHANGED <<stream, groupVars, tableVars, workerVars, again, boundVars>>

\* There is no Redis, or an XADD raises: before or after Redis has executed it.
XaddRaises(e) ==
    /\ EmitFault
    /\ \/ Advance(e, "built", "fallback") /\ stream' \in {stream, Append(stream, e)}
       \/ Advance(e, "shared", "fallback") /\ UNCHANGED stream
    /\ UNCHANGED <<groupVars, tableVars, workerVars, again>>

\* _write_event_log.  If the row is there already the insert raises, which is only
\* logged.
WriteEventLog(e) ==
    /\ Advance(e, "fallback", "done")
    /\ log' = log \cup {e}
    /\ UNCHANGED <<stream, groupVars, row, applied, workerVars, again, boundVars>>

WriteEventLogRaises(e) ==
    /\ EmitFault
    /\ Advance(e, "fallback", "done")
    /\ UNCHANGED <<stream, groupVars, tableVars, workerVars, again>>

-----------------------------------------------------------------------------
\* event_projector_worker.run_forever

Move(p, from, to) == pc[p] = from /\ pc' = [pc EXCEPT ![p] = to]

Fault == faults < MaxFaults /\ faults' = faults + 1 /\ UNCHANGED emitFaults

\* An entry has been pending for CLAIM_IDLE_MS.
GrowIdle(i) ==
    /\ i \in pel \ idle
    /\ idle' = idle \cup {i}
    /\ UNCHANGED <<emit, stream, group, since, delivered, pel, tableVars, workerVars,
                   again, boundVars>>

\* Faulty variant of GroupStart: the group is created again each time.
GroupStartAgain == Len(stream)

\* XGROUP CREATE ... $ MKSTREAM, which fails with BUSYGROUP from the second time on.
GroupStart == IF group = "made" THEN delivered ELSE Len(stream)

Connect(p) ==
    /\ Move(p, "connect", "claim")
    /\ delivered' = GroupStart
    /\ since' = IF group = "made" THEN since ELSE Len(stream)
    /\ group' = "made"
    /\ UNCHANGED <<emit, stream, pel, idle, tableVars, batch, cur, seen, again,
                   boundVars>>

\* Faulty variant of Claimed: pending entries are never claimed.
NothingClaimed == {}

\* XAUTOCLAIM: the first entries, in stream order, that have been idle.
Claimed == {i \in idle : Cardinality({j \in idle : j < i}) < BatchSize}

\* A reply of three elements does not unpack into two: a loop error, and all over
\* again, with the entries claimed.
Claim(p) ==
    /\ Move(p, "claim", IF ReplyLength = 2 THEN "read" ELSE "connect")
    /\ batch' = [batch EXCEPT ![p] = IF ReplyLength = 2 THEN Claimed ELSE {}]
    /\ idle' = idle \ Claimed
    /\ again' = again \cup Claimed
    /\ UNCHANGED <<emit, stream, group, since, delivered, pel, tableVars, cur, seen,
                   boundVars>>

\* XREADGROUP >
Read(p) ==
    LET last == IF Len(stream) < delivered + BatchSize
                  THEN Len(stream) ELSE delivered + BatchSize
        new  == delivered + 1 .. last
    IN  /\ Move(p, "read", IF batch[p] \cup new = {} THEN "connect" ELSE "check")
        /\ batch' = [batch EXCEPT ![p] = @ \cup new]
        /\ delivered' = last
        /\ pel' = pel \cup new
        /\ UNCHANGED <<emit, stream, group, since, idle, tableVars, cur, seen, again,
                       boundVars>>

\* On to the next entry of the batch, with a new session.
NextEntry(p, from) ==
    /\ Move(p, from, IF batch[p] = {} THEN "connect" ELSE "check")
    /\ cur' = [cur EXCEPT ![p] = 0]
    /\ seen' = [seen EXCEPT ![p] = Absent]
    /\ UNCHANGED batch

\* Faulty variant of Check: the last entry of the batch first.
CheckLastFirst(p) ==
    \E i \in batch[p] :
        /\ \A j \in batch[p] : i >= j
        /\ Move(p, "check", IF stream[i] \in log THEN "ack" ELSE "load")
        /\ batch' = [batch EXCEPT ![p] = @ \ {i}]
        /\ cur' = [cur EXCEPT ![p] = i]
        /\ UNCHANGED <<emit, stream, groupVars, tableVars, seen, again, boundVars>>

\* EventProjector.apply: SELECT from event_log.
Check(p) ==
    \E i \in batch[p] :
        /\ \A j \in batch[p] : i <= j
        /\ Move(p, "check", IF stream[i] \in log THEN "ack" ELSE "load")
        /\ batch' = [batch EXCEPT ![p] = @ \ {i}]
        /\ cur' = [cur EXCEPT ![p] = i]
        /\ UNCHANGED <<emit, stream, groupVars, tableVars, seen, again, boundVars>>

Current(p) == stream[cur[p]]

\* SELECT from workspace_state_projection.
Load(p) ==
    LET s == WorkspaceOf[Current(p)] IN
    /\ Move(p, "load", "commit")
    /\ seen' = [seen EXCEPT ![p] = IF s = Nowhere THEN Absent ELSE row[s]]
    /\ UNCHANGED <<emit, stream, groupVars, tableVars, batch, cur, again, boundVars>>

\* Faulty variant of Folded: the job is left as it was.
FoldedTimestamp(r, e) ==
    [exists |-> TRUE,
     at     |-> [k \in Tracked |-> IF k = Kind[e] THEN e ELSE r.at[k]],
     job    |-> r.job]

\* The assignments to a row by the kind of the event.
Folded(r, e) ==
    [exists |-> TRUE,
     at     |-> [k \in Tracked |-> IF k = Kind[e] THEN e ELSE r.at[k]],
     job    |-> IF Kind[e] = Hydrated THEN JobOf[e] ELSE r.job]

\* The UPDATE names the columns that differ from what was read.
Stored(now, old, new) ==
    [exists |-> TRUE,
     at     |-> [k \in Tracked |->
                   IF new.at[k] = old.at[k] THEN now.at[k] ELSE new.at[k]],
     job    |-> IF new.job = old.job THEN now.job ELSE new.job]

\* Faulty variant of Rejected: event_id is not a primary key.
RejectedRow(p) ==
    LET s == WorkspaceOf[Current(p)] IN s # Nowhere /\ ~seen[p].exists /\ row[s].exists

\* An insert meets a row with its primary key, in event_log or as the projection.
Rejected(p) ==
    LET s == WorkspaceOf[Current(p)] IN
    \/ Current(p) \in log
    \/ s # Nowhere /\ ~seen[p].exists /\ row[s].exists

\* One transaction inserts into event_log and writes the row.
Commit(p) ==
    LET e == Current(p)
        s == WorkspaceOf[e]
    IN  /\ Move(p, "commit", "ack")
        /\ ~Rejected(p)
        /\ log' = log \cup {e}
        /\ applied' = Append(applied, e)
        /\ row' = [t \in Workspaces |->
                     IF t = s THEN Stored(row[t], seen[p], Folded(seen[p], e)) ELSE row[t]]
        /\ UNCHANGED <<emit, stream, groupVars, batch, cur, seen, again, boundVars>>

\* The commit raises: the entry stays pending.
CommitRaises(p) ==
    /\ NextEntry(p, "commit")
    /\ (Rejected(p) /\ UNCHANGED boundVars) \/ Fault
    /\ UNCHANGED <<emit, stream, groupVars, tableVars, again>>

Ack(p) ==
    /\ NextEntry(p, "ack")
    /\ pel' = pel \ {cur[p]} /\ idle' = idle \ {cur[p]}
    /\ UNCHANGED <<emit, stream, group, since, delivered, tableVars, again,
                   boundVars>>

AckRaises(p) ==
    /\ NextEntry(p, "ack")
    /\ Fault
    /\ UNCHANGED <<emit, stream, groupVars, tableVars, again>>

\* The process dies, or a call outside of the entries raises.
Interrupt(p) ==
    /\ pc[p] # "connect"
    /\ Fault
    /\ pc' = [pc EXCEPT ![p] = "connect"]
    /\ batch' = [batch EXCEPT ![p] = {}]
    /\ cur' = [cur EXCEPT ![p] = 0]
    /\ seen' = [seen EXCEPT ![p] = Absent]
    /\ UNCHANGED <<emit, stream, groupVars, tableVars, again>>

Emission(e) ==
    \/ Build(e) \/ XaddGlobal(e) \/ XaddWorkspace(e) \/ XaddRaises(e)
    \/ WriteEventLog(e) \/ WriteEventLogRaises(e)

Project(p) ==
    \/ Connect(p) \/ Claim(p) \/ Read(p) \/ Check(p) \/ Load(p)
    \/ Commit(p) \/ CommitRaises(p) \/ Ack(p)

Next ==
    \/ \E e \in Events : Emission(e)
    \/ \E i \in 1 .. Len(stream) : GrowIdle(i)
    \/ \E p \in Projectors : Project(p) \/ AckRaises(p) \/ Interrupt(p)

Spec == Init /\ [][Next]_vars

\* Projectors loop for ever and each of their calls returns or raises; time passes.
\* Nothing is assumed of the emitters.
FairSpec ==
    /\ Spec
    /\ \A p \in Projectors : WF_vars(Project(p))
    /\ \A i \in Events : WF_vars(i <= Len(stream) /\ GrowIdle(i))

-----------------------------------------------------------------------------
Entries == 1 .. Len(stream)

\* Entries the group has delivered and the projectors have acknowledged.
Acked == {i \in Entries : since < i /\ i <= delivered /\ i \notin pel}

GroupTyped ==
    /\ stream \in Seq(Events)
    /\ group \in {"missing", "made"} /\ (group = "made" \/ delivered = 0)
    /\ delivered \in 0 .. Len(stream) /\ since \in 0 .. delivered
    /\ pel \subseteq since + 1 .. delivered /\ idle \subseteq pel

TablesTyped ==
    /\ emit \in [Events -> {"new", "built", "shared", "fallback", "done"}]
    /\ log \subseteq Events /\ row \in [Workspaces -> Rows] /\ applied \in Seq(Events)

WorkersTyped ==
    /\ pc \in [Projectors ->
                 {"connect", "claim", "read", "check", "load", "commit", "ack"}]
    /\ batch \in [Projectors -> SUBSET (since + 1 .. delivered)]
    /\ cur \in [Projectors -> 0 .. delivered]
    /\ seen \in [Projectors -> Rows]
    /\ \A p \in Projectors :
          /\ pc[p] \in {"load", "commit", "ack"} <=> cur[p] # 0
          /\ group = "made" \/ pc[p] = "connect"

\* The types; a projector has an entry in its hands exactly while it applies one, and
\* does nothing before the group exists.
TypeOK ==
    /\ GroupTyped /\ TablesTyped /\ WorkersTyped
    /\ again \subseteq 1 .. delivered
    /\ faults \in 0 .. MaxFaults /\ emitFaults \in 0 .. MaxEmitFaults

\* An acknowledged entry's event is in event_log, whichever projector wrote it and
\* whatever failed: no event that was delivered is lost.
AckedIsLogged == \A i \in Acked : stream[i] \in log

\* projector.py:25, "applies events to the database with idempotency": however often
\* an entry is delivered, and to whom, its event is folded into a row once.
AppliedOnce == \A m, n \in 1 .. Len(applied) : applied[m] = applied[n] => m = n

\* An acknowledged entry's event has been folded into its row.  The docstring of
\* event_projector_worker.py says so of every event of the stream; it holds as long
\* as no emitter falls back.
AckedIsApplied == \A i \in Acked : \E n \in 1 .. Len(applied) : applied[n] = stream[i]

\* With one projector last_hydration_at and last_hydration_job_id are from the same
\* event.
ColumnsAgree ==
    \A s \in Workspaces :
        row[s].at[Hydrated] # 0 => row[s].job = JobOf[row[s].at[Hydrated]]

\* With one projector a column goes back in time only if the events came into the
\* stream out of order or the older one was delivered again after a failure.
Position(e) == CHOOSE i \in Entries : stream[i] = e

ForwardUnlessLate ==
    [][\A s \in Workspaces, k \in Tracked :
          LET old == row[s].at[k]  new == row'[s].at[k] IN
          new < old =>
              Position(new) > Position(old) \/ Position(new) \in again]_vars

\* Every event sent to the stream once the group exists is projected.
EventsProjected ==
    \A i \in Events :
        (group = "made" /\ since < i /\ i <= Len(stream)) ~> (i \in Acked)
================================================================================
