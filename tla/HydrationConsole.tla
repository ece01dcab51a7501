--------------------------- MODULE HydrationConsole ---------------------------
(***************************************************************************)
(* backend/api/hydration.py for the demo workspace: sources are seeded,    *)
(* created, changed and hydrated on demand by handlers that run in threads *)
(* with sessions of their own, while jobs/hydration_worker.py and the      *)
(* queue worker hydrate them under the lock of the workspace.  The status  *)
(* page reads what hydration/pipeline.py left in the rows.                 *)
(***************************************************************************)
EXTENDS Integers, Sequences, FiniteSets

CONSTANTS
    Requesters,     \* threads that serve requests
    MaxSources,     \* bound: sources
    MaxDemands,     \* bound: requests
    MaxRuns,        \* bound: runs
    MaxSlips        \* bound: statements, queue calls and hydrations that raise, and deaths

\* there is room for the demo source
ASSUME ConsoleAssumption == MaxSources \in Nat \ {0} /\ {MaxDemands, MaxRuns, MaxSlips} \subseteq Nat

VARIABLES
    sources,        \* workspace_sources, by id: the name and is_enabled
    stateOf,        \* hydration_state by source; "none" while it has no row
    runs,           \* hydration_runs, by id: their status
    alerts,         \* hydration_alerts, by id: category and is_active
    demand,         \* what each thread is serving
    jobs,           \* the queue of hydration jobs: the sources they name, none for all
    hydration,      \* the run under the lock, "free" or its progress
    wanted,         \* history: by source, the is_enabled last asked for
    tangled,          \* history: sources two of whose changes overlapped
    refusals,       \* history: answers 400 of run-now with what had happened
    crossed,        \* history: two seedings overlapped
    broken,         \* history: sources whose last hydration raised or died
    demands, slips

consoleVars == <<sources, stateOf, runs, alerts, demand, jobs, hydration, wanted, tangled, refusals, crossed, broken,
                 demands, slips>>

NoDemand == [at |-> "none"]
Unhydrated == [by |-> "free"]

hydrationSide == <<stateOf, runs, jobs, hydration, broken>>
sourceSide == <<sources, wanted, tangled>>

-----------------------------------------------------------------------------
SourceIds == 1 .. Len(sources)
Demo == {i \in SourceIds : sources[i].name = "demo"}
Alert(category) == alerts' = Append(alerts, [category |-> category, active |-> TRUE])

\* the demo source may be there already
ConsoleInit ==
    /\ sources \in {<<>>, <<[name |-> "demo", on |-> TRUE]>>} /\ stateOf = [i \in 1 .. MaxSources |-> "none"]
    /\ runs = <<>> /\ alerts = <<>> /\ jobs = <<>>
    /\ demand = [t \in Requesters |-> NoDemand]
    /\ hydration = Unhydrated
    /\ wanted = [i \in SourceIds |-> TRUE] /\ tangled = {} /\ refusals = {} /\ crossed = FALSE /\ broken = {}
    /\ demands = 0 /\ slips = 0

AddSource(name, on) ==
    /\ Len(sources) < MaxSources
    /\ sources' = Append(sources, [name |-> name, on |-> on])
    /\ wanted' = Append(wanted, on) /\ UNCHANGED tangled

\* _get_enabled_sources; an empty list of ids is no filter
Enabled(ids) == {i \in SourceIds : sources[i].on /\ (ids # {} => i \in ids)}

Accept(t, request) ==
    /\ demand[t] = NoDemand /\ demands < MaxDemands
    /\ demands' = demands + 1
    /\ demand' = [demand EXCEPT ![t] = request]

GoTo(t, place) == demand' = [demand EXCEPT ![t].at = place]
Done(t) == demand' = [demand EXCEPT ![t] = NoDemand]
Slip == slips < MaxSlips /\ slips' = slips + 1

\* run_now after the policy allowed it, or for an anonymous caller
RunNow(t, ids) ==
    /\ Accept(t, [at |-> "sources", op |-> "run", ids |-> ids, saw |-> "nothing"])
    /\ UNCHANGED <<sourceSide, alerts, refusals, crossed, slips, hydrationSide>>

\* the policy denies it: an alert, and 403
RunNowDenied(t) ==
    /\ demand[t] = NoDemand /\ demands < MaxDemands /\ demands' = demands + 1
    /\ Alert("auth")
    /\ UNCHANGED <<sourceSide, demand, refusals, crossed, slips, hydrationSide>>

SeedDemo(t) ==
    /\ Accept(t, [at |-> "look", op |-> "seed", ids |-> {}, saw |-> "nothing"])
    /\ UNCHANGED <<sourceSide, alerts, refusals, crossed, slips, hydrationSide>>

\* the list is read again after the seeding
WithoutSources(t) == Enabled(demand[t].ids) = {}

\* "No hydration sources configured": 400
Refuse(t) ==
    /\ refusals' = refusals \cup {[ids |-> demand[t].ids, saw |-> demand[t].saw,
                                   off |-> \E i \in Demo : ~sources[i].on,
                                   lost |-> Demo = {}]}
    /\ Done(t)

\* the sources are read: queue the job, seed the demo source first, or refuse
ReadSources(t) ==
    /\ demand[t].at = "sources"
    /\ \/ ~WithoutSources(t) /\ GoTo(t, "enqueue") /\ UNCHANGED refusals
       \/ WithoutSources(t) /\ demand[t].saw = "nothing" /\ GoTo(t, "look") /\ UNCHANGED refusals
       \/ WithoutSources(t) /\ demand[t].saw # "nothing" /\ Refuse(t)
    /\ UNCHANGED <<sourceSide, alerts, crossed, demands, slips, hydrationSide>>

Seeded(t, saw) ==
    demand' = [demand EXCEPT ![t] = IF @.op = "run" THEN [@ EXCEPT !.at = "sources", !.saw = saw] ELSE NoDemand]

\* Faulty variant of Existing: a disabled source does not count.
ExistingEnabled == {i \in Demo : sources[i].on}

\* the source of that name, whatever its state
Existing == Demo

\* seed_demo_source: the look, and the insert; no key forbids two
LookForDemo(t) ==
    /\ demand[t].at = "look"
    /\ IF Existing # {} THEN Seeded(t, "there") ELSE GoTo(t, "insert")
    /\ UNCHANGED <<sourceSide, alerts, refusals, crossed, demands, slips, hydrationSide>>

InsertDemo(t) ==
    /\ demand[t].at = "insert"
    /\ AddSource("demo", TRUE)
    /\ crossed' = (crossed \/ \E u \in Requesters \ {t} : demand[u].at = "insert")
    /\ Seeded(t, "seeded")
    /\ UNCHANGED <<alerts, refusals, demands, slips, hydrationSide>>

\* run_now logs an exception of the seeding and goes on with the empty list
SeedRaises(t) ==
    /\ demand[t].at \in {"look", "insert"} /\ Slip
    /\ IF demand[t].op = "run"
       THEN refusals' = refusals \cup {[ids |-> demand[t].ids, saw |-> "raised", off |-> FALSE, lost |-> FALSE]}
       ELSE UNCHANGED refusals
    /\ Done(t)
    /\ UNCHANGED <<sourceSide, alerts, crossed, demands, hydrationSide>>

\* 202, or 503 without an effect on the queue
Enqueue(t) ==
    /\ demand[t].at = "enqueue" /\ Done(t)
    /\ \/ jobs' = Append(jobs, demand[t].ids) /\ UNCHANGED slips
       \/ Slip /\ UNCHANGED jobs
    /\ UNCHANGED <<sourceSide, alerts, refusals, crossed, demands, stateOf, runs, hydration, broken>>

-----------------------------------------------------------------------------
\* create_source, with another name
CreateSource(t, on) ==
    /\ demand[t] = NoDemand /\ demands < MaxDemands /\ demands' = demands + 1
    /\ AddSource("other", on)
    /\ UNCHANGED <<alerts, demand, refusals, crossed, slips, hydrationSide>>

\* update_source loads the row and asks the policy; for a known user the entry in the audit log
\* is committed, which makes the row forget what it has loaded
UpdateSource(t, i, on, known) ==
    /\ Accept(t, [at |-> "change", op |-> "update", source |-> i, on |-> on,
                 loaded |-> IF known THEN {} ELSE {sources[i].on}])
    /\ tangled' = tangled \cup {j \in {i} : \E u \in Requesters : demand[u].at = "change" /\ demand[u].source = i}
    /\ UNCHANGED <<sources, wanted, alerts, refusals, crossed, slips, hydrationSide>>

\* an attribute that gets the value it was loaded with is not written
IsWritten(d) == d.loaded # {d.on}

CommitChange(t) ==
    LET d == demand[t]
    IN  /\ d.at = "change" /\ Done(t)
        /\ sources' = IF IsWritten(d) THEN [sources EXCEPT ![d.source].on = d.on] ELSE sources
        /\ wanted' = [wanted EXCEPT ![d.source] = d.on]
        /\ UNCHANGED <<tangled, alerts, refusals, crossed, demands, slips, hydrationSide>>

\* a new name, which nothing else reads but the seeding
Rename(i) ==
    /\ demands < MaxDemands /\ demands' = demands + 1
    /\ sources' = [sources EXCEPT ![i].name = "other"]
    /\ UNCHANGED <<wanted, tangled, alerts, demand, refusals, crossed, slips, hydrationSide>>

AcknowledgeAlert(a) ==
    /\ alerts' = [alerts EXCEPT ![a].active = FALSE]
    /\ UNCHANGED <<sourceSide, demand, refusals, crossed, demands, slips, hydrationSide>>

-----------------------------------------------------------------------------
requestSide == <<sourceSide, demand, refusals, crossed, demands>>

\* hydrate_workspace: the enabled sources among those named, and a row for the run
StartRun(by, ids) ==
    /\ Len(runs) < MaxRuns
    /\ runs' = Append(runs, "running")
    /\ hydration' = [by |-> by, ids |-> ids, left |-> Enabled(ids), at |-> 0, status |-> "running"]

TakeJob ==
    /\ hydration = Unhydrated /\ jobs # <<>> /\ jobs' = Tail(jobs)
    /\ StartRun("worker", Head(jobs))
    /\ UNCHANGED <<stateOf, broken, alerts, slips, requestSide>>

\* the scheduler gives a source its row, which makes it due later
RegisterSource(i) ==
    /\ stateOf[i] = "none" /\ sources[i].on
    /\ stateOf' = [stateOf EXCEPT ![i] = "idle"]
    /\ UNCHANGED <<runs, jobs, hydration, broken, alerts, slips, requestSide>>

\* it comes to one that is due and gets the lock; the source may be disabled since it was read
ScheduleSource(i) ==
    /\ hydration = Unhydrated /\ stateOf[i] # "none" /\ sources[i].on /\ Len(runs) < MaxRuns
    /\ hydration' = [by |-> "gate", source |-> i]
    /\ UNCHANGED <<stateOf, runs, jobs, broken, alerts, slips, requestSide>>

ScheduleAllowed ==
    /\ hydration.by = "gate" /\ StartRun("scheduler", {hydration.source})
    /\ UNCHANGED <<stateOf, jobs, broken, alerts, slips, requestSide>>

ScheduleDenied ==
    /\ hydration.by = "gate" /\ hydration' = Unhydrated /\ Slip
    /\ stateOf' = [stateOf EXCEPT ![hydration.source] = "failed"]
    /\ broken' = broken \ {hydration.source}
    /\ Alert("auth")
    /\ UNCHANGED <<runs, jobs, requestSide>>

Hydrating == hydration.by \in {"worker", "scheduler"}

\* hydrate_source: the row is there and says running; the query names no order
BeginSource(i) ==
    /\ Hydrating /\ hydration.at = 0 /\ i \in hydration.left
    /\ hydration' = [hydration EXCEPT !.at = i, !.left = @ \ {i}]
    /\ stateOf' = [stateOf EXCEPT ![i] = "running"]
    /\ broken' = broken \ {i}
    /\ UNCHANGED <<runs, jobs, alerts, slips, requestSide>>

\* nothing sets the status of a run to failed
Ended == "success"

EndHydration ==
    /\ Hydrating /\ hydration.at # 0
    /\ stateOf' = [stateOf EXCEPT ![hydration.at] = Ended]
    /\ hydration' = [hydration EXCEPT !.at = 0]
    /\ UNCHANGED <<runs, jobs, broken, alerts, slips, requestSide>>

\* the exception is caught for the source, whose status stays; the counters and the status of
\* the run are committed with the alert
HydrationRaises ==
    /\ Hydrating /\ hydration.at # 0 /\ Slip
    /\ hydration' = [hydration EXCEPT !.at = 0, !.status = "partial"]
    /\ runs' = [runs EXCEPT ![Len(runs)] = "partial"]
    /\ broken' = broken \cup {hydration.at}
    /\ Alert("system")
    /\ UNCHANGED <<stateOf, jobs, requestSide>>

FinishRun ==
    /\ Hydrating /\ hydration.at = 0 /\ hydration.left = {}
    /\ runs' = [runs EXCEPT ![Len(runs)] = IF hydration.status = "running" THEN "success" ELSE @]
    /\ hydration' = Unhydrated
    /\ UNCHANGED <<stateOf, jobs, broken, alerts, slips, requestSide>>

\* the process dies; its job is delivered again, or skipped as running already
HydrationDies ==
    /\ hydration # Unhydrated /\ Slip
    /\ hydration' = Unhydrated
    /\ broken' = broken \cup IF Hydrating /\ hydration.at # 0 THEN {hydration.at} ELSE {}
    /\ \/ UNCHANGED jobs
       \/ hydration.by = "worker" /\ jobs' = Append(jobs, hydration.ids)
    /\ UNCHANGED <<stateOf, runs, alerts, requestSide>>

\* hydration_status, over the sources that are disabled too
PageStatus ==
    IF \E i \in SourceIds : stateOf[i] = "running" THEN "running"
    ELSE IF \E i \in SourceIds : stateOf[i] = "failed" THEN "failed" ELSE "idle"

ConsoleNext ==
    \/ \E t \in Requesters :
          \/ \E ids \in {{}} \cup {{i} : i \in 1 .. MaxSources} : RunNow(t, ids)
          \/ RunNowDenied(t) \/ SeedDemo(t) \/ ReadSources(t) \/ LookForDemo(t) \/ InsertDemo(t) \/ SeedRaises(t)
          \/ Enqueue(t) \/ CommitChange(t)
          \/ \E on \in BOOLEAN : CreateSource(t, on)
          \/ \E i \in SourceIds, on, known \in BOOLEAN : UpdateSource(t, i, on, known)
    \/ \E i \in SourceIds : Rename(i) \/ RegisterSource(i) \/ ScheduleSource(i) \/ BeginSource(i)
    \/ \E a \in DOMAIN alerts : alerts[a].active /\ AcknowledgeAlert(a)
    \/ TakeJob \/ ScheduleAllowed \/ ScheduleDenied \/ EndHydration \/ HydrationRaises
    \/ FinishRun \/ HydrationDies

ConsoleSpec == ConsoleInit /\ [][ConsoleNext]_consoleVars
-----------------------------------------------------------------------------
ConsoleTypeOK ==
    /\ Len(sources) <= MaxSources /\ \A i \in SourceIds : sources[i] \in [name : {"demo", "other"}, on : BOOLEAN]
    /\ \A i \in 1 .. MaxSources : stateOf[i] \in {"none", "idle", "running", "success", "failed"}
    /\ \A r \in DOMAIN runs : runs[r] \in {"running", "partial", "success"}
    /\ \A t \in Requesters : demand[t].at \in {"none", "sources", "look", "insert", "enqueue", "change"}
    /\ Len(wanted) = Len(sources) /\ tangled \subseteq SourceIds /\ broken \subseteq SourceIds
    /\ \A i \in 1 .. MaxSources \ SourceIds : stateOf[i] = "none"
    /\ hydration.by \in {"free", "gate", "worker", "scheduler"}
    /\ demands \in 0 .. MaxDemands /\ slips \in 0 .. MaxSlips

\* The demo workspace gets one demo source, unless two seedings overlapped.
OneDemoSource == Cardinality(Demo) <= 1 \/ crossed

\* A source is enabled as the newest committed request said, unless changes of it overlapped.
SwitchedAsAsked == \A i \in SourceIds \ tangled : sources[i].on = wanted[i]

\* Running a workspace without sources seeds it first: it is refused only if the seeding raised,
\* the caller named other sources, or the demo source was disabled or renamed.
RefusalsHaveCauses == \A r \in refusals : r.saw = "raised" \/ r.ids # {} \/ r.off \/ r.lost

\* The status page says running whenever a source is being hydrated, and a source says so only
\* while it is, or after a hydration of it raised or died and until the next one; a source that
\* is disabled in between stays so.
RunningHasCause ==
    /\ Hydrating /\ hydration.at # 0 => PageStatus = "running"
    /\ \A i \in SourceIds : stateOf[i] = "running" => i \in broken \/ (Hydrating /\ hydration.at = i)

\* Sources and statuses are what the endpoints promise, or there is a cause.
ConsoleHolds == OneDemoSource /\ SwitchedAsAsked /\ RefusalsHaveCauses /\ RunningHasCause
==============================================================================
