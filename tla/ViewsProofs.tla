----------------------------- MODULE ViewsProofs -----------------------------
(***************************************************************************)
(* Proofs about what a browser shows, for every set of requests, tabs and  *)
(* processes: the sources of the hydration console (HydrationConsole), the *)
(* panels (WebPanels) and the tabs of the workspace (WorkspaceShell); and, *)
(* with DocumentsProofs, about the components of MCDocuments side by side. *)
(***************************************************************************)
EXTENDS MCDocuments, DocumentsProofs

-----------------------------------------------------------------------------
(* HydrationConsole                                                        *)

ConsoleIds == 1 .. MaxSources
SourceRows == [name : {"demo", "other"}, on : BOOLEAN]
SourceStates == {"none", "idle", "running", "success", "failed"}
Demands ==
    [at : {"sources", "look", "insert", "enqueue"}, op : {"run", "seed"}, ids : SUBSET ConsoleIds,
     saw : {"nothing", "there", "seeded"}]
SourceChanges == [at : {"change"}, op : {"update"}, source : ConsoleIds, on : BOOLEAN, loaded : SUBSET BOOLEAN]
Gates == [by : {"gate"}, source : ConsoleIds]
Hydrations ==
    [by : {"worker", "scheduler"}, ids : SUBSET ConsoleIds, left : SUBSET ConsoleIds,
     at : 0 .. MaxSources, status : {"running", "partial"}]
ConsoleRefusals == [ids : SUBSET ConsoleIds, saw : {"nothing", "there", "seeded", "raised"}, off : BOOLEAN, lost : BOOLEAN]

\* The types in parts, by the side that writes them.
SourcesTyped ==
    /\ sources \in Seq(SourceRows) /\ Len(sources) <= MaxSources
    /\ wanted \in Seq(BOOLEAN) /\ Len(wanted) = Len(sources)
    /\ tangled \subseteq SourceIds
DemandTyped ==
    /\ demand \in [Requesters -> Demands \cup SourceChanges \cup {NoDemand}]
    /\ \A t \in Requesters : demand[t].at = "change" => demand[t].source \in SourceIds
    /\ crossed \in BOOLEAN /\ demands \in 0 .. MaxDemands
RowsOfRuns ==
    /\ stateOf \in [ConsoleIds -> SourceStates]
    /\ broken \subseteq SourceIds
    /\ \A i \in ConsoleIds \ SourceIds : stateOf[i] = "none"
    /\ runs \in Seq({"running", "partial", "success"})
    /\ jobs \in Seq(SUBSET ConsoleIds)
    /\ slips \in 0 .. MaxSlips
HydrationTyped ==
    /\ hydration \in Hydrations \cup Gates \cup {Unhydrated}
    /\ hydration.by = "gate" => hydration.source \in SourceIds
    /\ Hydrating => /\ hydration.left \subseteq SourceIds /\ hydration.at \in SourceIds \cup {0}
                    /\ runs # <<>>
ConsoleTypes == SourcesTyped /\ DemandTyped /\ RowsOfRuns /\ HydrationTyped

\* Who is about to insert the demo source found none, unless two seedings overlapped.
OneSeeds ==
    ~crossed => /\ \A i, j \in Demo : i = j
                /\ \A t \in Requesters : demand[t].at = "insert" => Demo = {}

\* A change that is under way has loaded what the row still says, unless changes of it overlapped.
ChangesAreFresh ==
    \A t \in Requesters :
        demand[t].at = "change" =>
            \/ demand[t].source \in tangled
            \/ demand[t].loaded = {} \/ demand[t].loaded = {sources[demand[t].source].on}
ChangesAreApart ==
    \A t, u \in Requesters :
        t # u /\ demand[t].at = "change" /\ demand[u].at = "change" /\ demand[t].source = demand[u].source
        => demand[t].source \in tangled
Switching == SwitchedAsAsked /\ ChangesAreFresh /\ ChangesAreApart

\* The source that is being hydrated says so; another that says so was interrupted.
HydratedRuns ==
    /\ Hydrating /\ hydration.at # 0 => stateOf[hydration.at] = "running"
    /\ \A i \in ConsoleIds : stateOf[i] = "running" => i \in broken \/ (Hydrating /\ hydration.at = i)

ConsoleInv == ConsoleTypes /\ OneSeeds /\ Switching /\ RefusalsHaveCauses /\ HydratedRuns

LEMMA ConsoleNaturals == MaxSources \in Nat \ {0} /\ MaxDemands \in Nat /\ MaxRuns \in Nat /\ MaxSlips \in Nat
BY ConsoleAssumption DEF ConsoleAssumption

LEMMA ConsoleInitially == ConsoleInit => ConsoleInv
<1> SUFFICES ASSUME ConsoleInit PROVE ConsoleInv
    OBVIOUS
<1> USE ConsoleNaturals
<1>1. /\ sources \in Seq(SourceRows) /\ Len(sources) <= 1
      /\ \A i \in 1 .. Len(sources) : sources[i].on = TRUE
  <2>1. CASE sources = <<>>
      BY <2>1
  <2>2. CASE sources = <<[name |-> "demo", on |-> TRUE]>>
    <3>1. [name |-> "demo", on |-> TRUE] \in SourceRows
        BY DEF SourceRows
    <3> QED
        BY <2>2, <3>1
  <2> QED
      BY <2>1, <2>2 DEF ConsoleInit
<1>2. /\ wanted \in Seq(BOOLEAN) /\ Len(wanted) = Len(sources)
      /\ \A i \in 1 .. Len(sources) : wanted[i] = TRUE
  <2>1. wanted = [i \in 1 .. Len(sources) |-> TRUE] /\ Len(sources) \in Nat
      BY <1>1 DEF ConsoleInit, SourceIds
  <2> QED
      BY <2>1
<1>3. SourcesTyped
    BY <1>1, <1>2 DEF ConsoleInit, SourcesTyped
<1>4. DemandTyped
  <2>1. \A t \in Requesters : demand[t] = NoDemand /\ demand[t].at # "change"
      BY DEF ConsoleInit, NoDemand
  <2>2. demand \in [Requesters -> Demands \cup SourceChanges \cup {NoDemand}]
      BY DEF ConsoleInit
  <2>3. crossed \in BOOLEAN
      BY DEF ConsoleInit
  <2>4. demands \in 0 .. MaxDemands
      BY DEF ConsoleInit
  <2> QED
      BY <2>1, <2>2, <2>3, <2>4 DEF DemandTyped
<1>5. RowsOfRuns
    BY DEF ConsoleInit, RowsOfRuns, ConsoleIds, SourceStates
<1>6. HydrationTyped /\ HydratedRuns
    BY DEF ConsoleInit, HydrationTyped, HydratedRuns, Hydrating, Unhydrated, ConsoleIds
<1>7. OneSeeds
    BY <1>1 DEF ConsoleInit, OneSeeds, Demo, SourceIds, NoDemand
<1>8. Switching
    BY <1>1, <1>2 DEF ConsoleInit, Switching, SwitchedAsAsked, ChangesAreFresh, ChangesAreApart, SourceIds, NoDemand
<1>9. RefusalsHaveCauses
    BY DEF ConsoleInit, RefusalsHaveCauses
<1> QED
    BY <1>3, <1>4, <1>5, <1>6, <1>7, <1>8, <1>9 DEF ConsoleInv, ConsoleTypes

\* The steps by the side that takes them.
RequestActs(t) ==
    \/ \E ids \in {{}} \cup {{i} : i \in 1 .. MaxSources} : RunNow(t, ids)
    \/ RunNowDenied(t) \/ SeedDemo(t) \/ ReadSources(t) \/ LookForDemo(t) \/ InsertDemo(t) \/ SeedRaises(t)
    \/ Enqueue(t) \/ CommitChange(t)
    \/ \E on \in BOOLEAN : CreateSource(t, on)
    \/ \E i \in SourceIds, on, known \in BOOLEAN : UpdateSource(t, i, on, known)
RowActs == (\E i \in SourceIds : Rename(i)) \/ (\E a \in DOMAIN alerts : AcknowledgeAlert(a))
HydrationActs ==
    \/ \E i \in SourceIds : RegisterSource(i) \/ ScheduleSource(i) \/ BeginSource(i)
    \/ TakeJob \/ ScheduleAllowed \/ ScheduleDenied \/ EndHydration \/ HydrationRaises \/ FinishRun \/ HydrationDies

LEMMA ConsoleActs == ConsoleNext => (\E t \in Requesters : RequestActs(t)) \/ RowActs \/ HydrationActs
BY DEF ConsoleNext, RequestActs, RowActs, HydrationActs

\* What a step of the other side leaves alone.
LEMMA HydrationLeavesRequests == HydrationActs => UNCHANGED requestSide
<1> SUFFICES ASSUME HydrationActs PROVE UNCHANGED requestSide
    OBVIOUS
<1>1. ASSUME NEW i \in SourceIds, RegisterSource(i) \/ ScheduleSource(i) \/ BeginSource(i)
      PROVE  UNCHANGED requestSide
    BY <1>1 DEF RegisterSource, ScheduleSource, BeginSource
<1>2. CASE TakeJob \/ ScheduleAllowed \/ ScheduleDenied \/ EndHydration
    BY <1>2 DEF TakeJob, ScheduleAllowed, ScheduleDenied, EndHydration
<1>3. CASE HydrationRaises \/ FinishRun \/ HydrationDies
    BY <1>3 DEF HydrationRaises, FinishRun, HydrationDies
<1> QED
    BY <1>1, <1>2, <1>3 DEF HydrationActs

LEMMA RowActsLeave == RowActs => UNCHANGED <<demand, refusals, crossed, slips, tangled, wanted, hydrationSide>>
BY DEF RowActs, Rename, AcknowledgeAlert, sourceSide

LEMMA RequestsLeaveRows ==
    ASSUME NEW t \in Requesters, RequestActs(t)
    PROVE  UNCHANGED <<stateOf, runs, hydration, broken>>
<1>1. CASE \E ids \in {{}} \cup {{i} : i \in 1 .. MaxSources} : RunNow(t, ids)
    BY <1>1 DEF RunNow, hydrationSide
<1>2. CASE RunNowDenied(t) \/ SeedDemo(t) \/ ReadSources(t) \/ LookForDemo(t) \/ InsertDemo(t) \/ SeedRaises(t)
    BY <1>2 DEF RunNowDenied, SeedDemo, ReadSources, LookForDemo, InsertDemo, SeedRaises, hydrationSide
<1>3. CASE Enqueue(t) \/ CommitChange(t) \/ \E on \in BOOLEAN : CreateSource(t, on)
    BY <1>3 DEF Enqueue, CommitChange, CreateSource, hydrationSide
<1>4. CASE \E i \in SourceIds, on, known \in BOOLEAN : UpdateSource(t, i, on, known)
    BY <1>4 DEF UpdateSource, hydrationSide
<1> QED
    BY <1>1, <1>2, <1>3, <1>4 DEF RequestActs

\* Which requests write the table of sources.
LEMMA SourceWriters ==
    ASSUME NEW t \in Requesters, RequestActs(t)
    PROVE  \/ UNCHANGED sourceSide
           \/ InsertDemo(t) \/ CommitChange(t)
           \/ \E on \in BOOLEAN : CreateSource(t, on)
           \/ \E i \in SourceIds, on, known \in BOOLEAN : UpdateSource(t, i, on, known)
<1>1. CASE \E ids \in {{}} \cup {{i} : i \in 1 .. MaxSources} : RunNow(t, ids)
    BY <1>1 DEF RunNow
<1>2. CASE RunNowDenied(t) \/ SeedDemo(t) \/ ReadSources(t) \/ LookForDemo(t) \/ SeedRaises(t) \/ Enqueue(t)
    BY <1>2 DEF RunNowDenied, SeedDemo, ReadSources, LookForDemo, SeedRaises, Enqueue
<1> QED
    BY <1>1, <1>2 DEF RequestActs

-----------------------------------------------------------------------------
\* A source that is added, switched or renamed; what the others say stays.
LEMMA AddSourceIs ==
    ASSUME SourcesTyped, NEW name \in {"demo", "other"}, NEW on \in BOOLEAN, AddSource(name, on)
    PROVE  /\ SourcesTyped' /\ SourceIds' = SourceIds \cup {Len(sources) + 1} /\ Len(sources) + 1 \notin SourceIds
           /\ \A i \in SourceIds : sources'[i] = sources[i] /\ wanted'[i] = wanted[i]
           /\ sources'[Len(sources) + 1] = [name |-> name, on |-> on] /\ wanted'[Len(sources) + 1] = on
           /\ tangled' = tangled
<1> PICK row : row = [name |-> name, on |-> on]
    OBVIOUS
<1>1. row \in SourceRows
    BY DEF SourceRows
<1>2. sources' = Append(sources, row) /\ wanted' = Append(wanted, on) /\ tangled' = tangled /\ Len(sources) < MaxSources
    BY DEF AddSource
<1>3. sources \in Seq(SourceRows) /\ wanted \in Seq(BOOLEAN) /\ Len(wanted) = Len(sources) /\ tangled \subseteq SourceIds
    BY DEF SourcesTyped
<1>4. /\ sources' \in Seq(SourceRows) /\ Len(sources') = Len(sources) + 1
      /\ \A i \in 1 .. Len(sources) : sources'[i] = sources[i]
      /\ sources'[Len(sources) + 1] = row
    BY <1>1, <1>2, <1>3
<1>5. /\ wanted' \in Seq(BOOLEAN) /\ Len(wanted') = Len(wanted) + 1
      /\ \A i \in 1 .. Len(wanted) : wanted'[i] = wanted[i]
      /\ wanted'[Len(wanted) + 1] = on
    BY <1>2, <1>3
<1>6. Len(sources) \in Nat /\ SourceIds = 1 .. Len(sources) /\ SourceIds' = 1 .. Len(sources')
    BY <1>3 DEF SourceIds
<1>7. SourceIds' = SourceIds \cup {Len(sources) + 1} /\ Len(sources) + 1 \notin SourceIds
    BY <1>4, <1>6
<1>8. Len(sources') <= MaxSources
    BY <1>2, <1>4, <1>6, ConsoleNaturals
<1> QED
    BY <1>2, <1>3, <1>4, <1>5, <1>6, <1>7, <1>8 DEF SourcesTyped

\* A row of the table with another value.
LEMMA RowPut ==
    ASSUME NEW s \in Seq(SourceRows), NEW i \in 1 .. Len(s), NEW row \in SourceRows
    PROVE  /\ [s EXCEPT ![i] = row] \in Seq(SourceRows) /\ Len([s EXCEPT ![i] = row]) = Len(s)
           /\ \A j \in 1 .. Len(s) : [s EXCEPT ![i] = row][j] = IF j = i THEN row ELSE s[j]
BY ExceptSeq

LEMMA CommitChangeIs ==
    ASSUME SourcesTyped, DemandTyped, NEW t \in Requesters, CommitChange(t)
    PROVE  /\ SourcesTyped' /\ SourceIds' = SourceIds /\ demand[t] \in SourceChanges /\ demand[t].source \in SourceIds
           /\ \A i \in SourceIds : sources'[i].name = sources[i].name
           /\ \A i \in SourceIds \ {demand[t].source} : sources'[i].on = sources[i].on /\ wanted'[i] = wanted[i]
           /\ wanted'[demand[t].source] = demand[t].on /\ tangled' = tangled
           /\ IF IsWritten(demand[t]) THEN sources'[demand[t].source].on = demand[t].on ELSE sources' = sources
<1> PICK d : d = demand[t]
    OBVIOUS
<1>1. d.at = "change" /\ d \in SourceChanges /\ d.source \in SourceIds
  <2>1. d.at = "change" /\ d \in Demands \cup SourceChanges \cup {NoDemand}
      BY DEF CommitChange, DemandTyped
  <2> QED
      BY <2>1 DEF DemandTyped, Demands, NoDemand
<1>2. d.on \in BOOLEAN
    BY <1>1 DEF SourceChanges
<1> PICK k : k = d.source
    OBVIOUS
<1>3. sources \in Seq(SourceRows) /\ wanted \in Seq(BOOLEAN) /\ Len(wanted) = Len(sources) /\ tangled \subseteq SourceIds
      /\ Len(sources) <= MaxSources /\ Len(sources) \in Nat /\ k \in 1 .. Len(sources) /\ SourceIds = 1 .. Len(sources)
    BY <1>1 DEF SourcesTyped, SourceIds
<1>4. wanted' = [wanted EXCEPT ![k] = d.on] /\ tangled' = tangled
    BY DEF CommitChange
<1>5. /\ wanted' \in Seq(BOOLEAN) /\ Len(wanted') = Len(wanted)
      /\ \A j \in 1 .. Len(wanted) : wanted'[j] = IF j = k THEN d.on ELSE wanted[j]
    BY <1>2, <1>3, <1>4, ExceptSeq
<1>6. CASE IsWritten(d)
  <2> PICK row : row = [sources[k] EXCEPT !.on = d.on]
      OBVIOUS
  <2>1. sources[k] \in SourceRows
      BY <1>3
  <2>2. row \in SourceRows /\ row.name = sources[k].name /\ row.on = d.on
      BY <2>1, <1>2 DEF SourceRows
  <2>3. sources' = [sources EXCEPT ![k] = row]
      BY <1>6 DEF CommitChange
  <2>4. /\ sources' \in Seq(SourceRows) /\ Len(sources') = Len(sources)
        /\ \A j \in 1 .. Len(sources) : sources'[j] = IF j = k THEN row ELSE sources[j]
      BY <1>3, <2>2, <2>3, RowPut
  <2>5. SourceIds' = SourceIds
      BY <1>3, <2>4 DEF SourceIds
  <2> QED
      BY <1>1, <1>3, <1>4, <1>5, <1>6, <2>2, <2>4, <2>5 DEF SourcesTyped
<1>7. CASE ~IsWritten(d)
  <2>1. sources' = sources
      BY <1>7 DEF CommitChange
  <2>2. SourceIds' = SourceIds
      BY <2>1 DEF SourceIds
  <2> QED
      BY <1>1, <1>3, <1>4, <1>5, <1>7, <2>1, <2>2 DEF SourcesTyped
<1> QED
    BY <1>6, <1>7

LEMMA RenameIs ==
    ASSUME SourcesTyped, NEW i \in SourceIds, Rename(i)
    PROVE  /\ SourcesTyped' /\ SourceIds' = SourceIds /\ tangled' = tangled /\ wanted' = wanted
           /\ \A j \in SourceIds : sources'[j].on = sources[j].on
           /\ \A j \in SourceIds : sources'[j].name = "demo" => sources[j].name = "demo"
<1> PICK row : row = [sources[i] EXCEPT !.name = "other"]
    OBVIOUS
<1>1. sources \in Seq(SourceRows) /\ i \in 1 .. Len(sources) /\ SourceIds = 1 .. Len(sources)
    BY DEF SourcesTyped, SourceIds
<1>2. sources[i] \in SourceRows
    BY <1>1
<1>3. row \in SourceRows /\ row.name = "other" /\ row.on = sources[i].on
    BY <1>2 DEF SourceRows
<1>4. sources' = [sources EXCEPT ![i] = row] /\ UNCHANGED <<wanted, tangled>>
    BY DEF Rename
<1>5. /\ sources' \in Seq(SourceRows) /\ Len(sources') = Len(sources)
      /\ \A j \in 1 .. Len(sources) : sources'[j] = IF j = i THEN row ELSE sources[j]
    BY <1>1, <1>3, <1>4, RowPut
<1>6. SourceIds' = SourceIds
    BY <1>1, <1>5 DEF SourceIds
<1> QED
    BY <1>1, <1>3, <1>4, <1>5, <1>6 DEF SourcesTyped

LEMMA UpdateIs ==
    ASSUME SourcesTyped, NEW t \in Requesters, NEW i \in SourceIds, NEW on, NEW known, UpdateSource(t, i, on, known)
    PROVE  /\ SourcesTyped' /\ sources' = sources /\ wanted' = wanted /\ SourceIds' = SourceIds
           /\ tangled \subseteq tangled'
           /\ (\E u \in Requesters : demand[u].at = "change" /\ demand[u].source = i) => i \in tangled'
<1>1. sources' = sources /\ wanted' = wanted /\ SourceIds' = SourceIds
    BY DEF UpdateSource, SourceIds
<1>2. tangled' = tangled \cup {j \in {i} : \E u \in Requesters : demand[u].at = "change" /\ demand[u].source = i}
    BY DEF UpdateSource
<1> QED
    BY <1>1, <1>2 DEF SourcesTyped

\* The table of sources keeps its type, and its ids.
LEMMA SourcesStep ==
    ASSUME SourcesTyped, DemandTyped, ConsoleNext
    PROVE  SourcesTyped' /\ SourceIds \subseteq SourceIds'
<1>1. CASE UNCHANGED sourceSide
    BY <1>1 DEF sourceSide, SourcesTyped, SourceIds
<1>2. ASSUME NEW t \in Requesters, InsertDemo(t)
      PROVE  SourcesTyped' /\ SourceIds \subseteq SourceIds'
  <2>1. AddSource("demo", TRUE)
      BY <1>2 DEF InsertDemo
  <2> QED
      BY <2>1, AddSourceIs
<1>3. ASSUME NEW t \in Requesters, NEW on \in BOOLEAN, CreateSource(t, on)
      PROVE  SourcesTyped' /\ SourceIds \subseteq SourceIds'
  <2>1. AddSource("other", on)
      BY <1>3 DEF CreateSource
  <2> QED
      BY <2>1, AddSourceIs
<1>4. ASSUME NEW t \in Requesters, CommitChange(t)
      PROVE  SourcesTyped' /\ SourceIds \subseteq SourceIds'
    BY <1>4, CommitChangeIs
<1>5. ASSUME NEW t \in Requesters, NEW i \in SourceIds, NEW on \in BOOLEAN, NEW known \in BOOLEAN, UpdateSource(t, i, on, known)
      PROVE  SourcesTyped' /\ SourceIds \subseteq SourceIds'
    BY <1>5, UpdateIs
<1>6. ASSUME NEW t \in Requesters, RequestActs(t)
      PROVE  SourcesTyped' /\ SourceIds \subseteq SourceIds'
    BY <1>1, <1>2, <1>3, <1>4, <1>5, <1>6, SourceWriters
<1>7. ASSUME NEW i \in SourceIds, Rename(i)
      PROVE  SourcesTyped' /\ SourceIds \subseteq SourceIds'
    BY <1>7, RenameIs
<1>8. ASSUME NEW a \in DOMAIN alerts, AcknowledgeAlert(a)
      PROVE  UNCHANGED sourceSide
    BY <1>8 DEF AcknowledgeAlert
<1>9. HydrationActs => UNCHANGED sourceSide
    BY HydrationLeavesRequests DEF requestSide
<1> QED
    BY <1>1, <1>6, <1>7, <1>8, <1>9, ConsoleActs DEF RowActs

-----------------------------------------------------------------------------
\* What a thread is doing.
LEMMA DemandShape ==
    ASSUME DemandTyped, NEW t \in Requesters
    PROVE  /\ demand[t].at \in {"sources", "look", "insert", "enqueue"} => demand[t] \in Demands
           /\ demand[t].at = "change" => demand[t] \in SourceChanges
           /\ demand[t].at \in {"none", "sources", "look", "insert", "enqueue", "change"}
<1>1. demand[t] \in Demands \cup SourceChanges \cup {NoDemand}
    BY DEF DemandTyped
<1> QED
    BY <1>1 DEF Demands, SourceChanges, NoDemand

LEMMA DemandPut ==
    ASSUME DemandTyped, SourceIds \subseteq SourceIds', NEW t \in Requesters,
           NEW new \in Demands \cup SourceChanges \cup {NoDemand}, new.at = "change" => new.source \in SourceIds',
           demand' = [demand EXCEPT ![t] = new], crossed' \in BOOLEAN, demands' \in 0 .. MaxDemands
    PROVE  DemandTyped'
<1>1. demand' \in [Requesters -> Demands \cup SourceChanges \cup {NoDemand}]
    BY DEF DemandTyped
<1>2. ASSUME NEW u \in Requesters, demand'[u].at = "change" PROVE demand'[u].source \in SourceIds'
  <2>1. CASE u = t
      BY <1>2, <2>1 DEF DemandTyped
  <2>2. CASE u # t
    <3>1. demand'[u] = demand[u]
        BY <2>2 DEF DemandTyped
    <3> QED
        BY <1>2, <3>1 DEF DemandTyped
  <2> QED
      BY <2>1, <2>2
<1> QED
    BY <1>1, <1>2 DEF DemandTyped

\* What each step of a thread makes of what it is doing.
DemandBecomes(t, new) == demand' = [demand EXCEPT ![t] = new]

LEMMA GoesTo ==
    ASSUME DemandTyped, NEW t \in Requesters, NEW place \in {"sources", "look", "insert", "enqueue"},
           demand[t].at \in {"sources", "look", "insert", "enqueue"}, GoTo(t, place)
    PROVE  \E new \in Demands : DemandBecomes(t, new) /\ new.at = place /\ new.ids = demand[t].ids /\ new.saw = demand[t].saw
<1> PICK new : new = [demand[t] EXCEPT !.at = place]
    OBVIOUS
<1>1. demand[t] \in Demands
    BY DemandShape
<1>2. new \in Demands /\ new.at = place /\ new.ids = demand[t].ids /\ new.saw = demand[t].saw
    BY <1>1 DEF Demands
<1>3. DemandBecomes(t, new)
    BY DEF GoTo, DemandBecomes
<1> QED
    BY <1>2, <1>3

LEMMA SeededTo ==
    ASSUME DemandTyped, NEW t \in Requesters, NEW saw \in {"there", "seeded"},
           demand[t].at \in {"look", "insert"}, Seeded(t, saw)
    PROVE  \/ DemandBecomes(t, NoDemand)
           \/ \E new \in Demands : DemandBecomes(t, new) /\ new.at = "sources"
<1> PICK new : new = [demand[t] EXCEPT !.at = "sources", !.saw = saw]
    OBVIOUS
<1>1. demand[t] \in Demands
    BY DemandShape
<1>2. new \in Demands /\ new.at = "sources"
    BY <1>1 DEF Demands
<1>3. DemandBecomes(t, IF demand[t].op = "run" THEN new ELSE NoDemand)
    BY DEF Seeded, DemandBecomes
<1> QED
    BY <1>2, <1>3

\* Where a request may take its thread.
LEMMA RequestsMove ==
    ASSUME SourcesTyped, DemandTyped, NEW t \in Requesters, RequestActs(t)
    PROVE  /\ \/ UNCHANGED demand
              \/ DemandBecomes(t, NoDemand)
              \/ \E new \in Demands : DemandBecomes(t, new) /\ (new.at = "insert" => Demo = {} /\ UNCHANGED sourceSide)
              \/ \E new \in SourceChanges :
                    /\ DemandBecomes(t, new) /\ new.source \in SourceIds /\ UNCHANGED sources
                    /\ new.loaded = {} \/ new.loaded = {sources[new.source].on}
                    /\ (\E u \in Requesters : demand[u].at = "change" /\ demand[u].source = new.source)
                           => new.source \in tangled'
                    /\ tangled \subseteq tangled' /\ UNCHANGED wanted
           /\ crossed' \in BOOLEAN /\ demands' \in 0 .. MaxDemands
<1> DEFINE Moves ==
              \/ UNCHANGED demand
              \/ DemandBecomes(t, NoDemand)
              \/ \E new \in Demands : DemandBecomes(t, new) /\ (new.at = "insert" => Demo = {} /\ UNCHANGED sourceSide)
              \/ \E new \in SourceChanges :
                    /\ DemandBecomes(t, new) /\ new.source \in SourceIds /\ UNCHANGED sources
                    /\ new.loaded = {} \/ new.loaded = {sources[new.source].on}
                    /\ (\E u \in Requesters : demand[u].at = "change" /\ demand[u].source = new.source)
                           => new.source \in tangled'
                    /\ tangled \subseteq tangled' /\ UNCHANGED wanted
<1>0. crossed \in BOOLEAN /\ demands \in 0 .. MaxDemands /\ SourceIds \subseteq ConsoleIds
  <2>1. SourceIds = 1 .. Len(sources) /\ Len(sources) \in Nat /\ Len(sources) <= MaxSources
      BY DEF SourcesTyped, SourceIds
  <2>2. SourceIds \subseteq ConsoleIds
      BY <2>1, ConsoleNaturals DEF ConsoleIds
  <2> QED
      BY <2>2 DEF DemandTyped
<1>1. ASSUME NEW ids \in {{}} \cup {{i} : i \in 1 .. MaxSources}, RunNow(t, ids)
      PROVE  Moves
  <2> PICK new : new = [at |-> "sources", op |-> "run", ids |-> ids, saw |-> "nothing"]
      OBVIOUS
  <2>1. ids \in SUBSET ConsoleIds
      BY DEF ConsoleIds
  <2>2. new \in Demands /\ new.at = "sources"
      BY <2>1 DEF Demands
  <2>3. DemandBecomes(t, new)
      BY <1>1 DEF RunNow, Accept, DemandBecomes
  <2> QED
      BY <2>2, <2>3
<1>2. ASSUME SeedDemo(t)
      PROVE  Moves
  <2> PICK new : new = [at |-> "look", op |-> "seed", ids |-> {}, saw |-> "nothing"]
      OBVIOUS
  <2>1. new \in Demands /\ new.at = "look"
      BY DEF Demands
  <2>2. DemandBecomes(t, new)
      BY <1>2 DEF SeedDemo, Accept, DemandBecomes
  <2> QED
      BY <2>1, <2>2
<1>3. ASSUME ReadSources(t)
      PROVE  Moves
  <2>1. demand[t].at = "sources"
      BY <1>3 DEF ReadSources
  <2>2. GoTo(t, "enqueue") \/ GoTo(t, "look") \/ Refuse(t)
      BY <1>3 DEF ReadSources
  <2>3. ASSUME NEW place \in {"enqueue", "look"}, GoTo(t, place)
        PROVE  \E new \in Demands : DemandBecomes(t, new) /\ new.at # "insert"
    <3>1. PICK new \in Demands : DemandBecomes(t, new) /\ new.at = place
        BY <2>1, <2>3, GoesTo
    <3> QED
        BY <3>1
  <2>4. Refuse(t) => DemandBecomes(t, NoDemand)
      BY DEF Refuse, Done, DemandBecomes
  <2> QED
      BY <2>2, <2>3, <2>4
<1>4. ASSUME LookForDemo(t)
      PROVE  Moves
  <2>1. demand[t].at = "look" /\ UNCHANGED sourceSide
      BY <1>4 DEF LookForDemo
  <2>2. (Demo # {} /\ Seeded(t, "there")) \/ (Demo = {} /\ GoTo(t, "insert"))
      BY <1>4 DEF LookForDemo, Existing
  <2>3. CASE Demo # {} /\ Seeded(t, "there")
    <3>1. DemandBecomes(t, NoDemand) \/ \E new \in Demands : DemandBecomes(t, new) /\ new.at = "sources"
        BY <2>1, <2>3, SeededTo
    <3> QED
        BY <3>1
  <2>4. CASE Demo = {} /\ GoTo(t, "insert")
    <3>1. \E new \in Demands : DemandBecomes(t, new)
        BY <2>1, <2>4, GoesTo
    <3> QED
        BY <2>1, <2>4, <3>1
  <2> QED
      BY <2>2, <2>3, <2>4
<1>5. ASSUME InsertDemo(t)
      PROVE  Moves
  <2>1. DemandBecomes(t, NoDemand) \/ \E new \in Demands : DemandBecomes(t, new) /\ new.at = "sources"
      BY <1>5, SeededTo DEF InsertDemo
  <2> QED
      BY <2>1
<1>6. ASSUME SeedRaises(t) \/ Enqueue(t) \/ CommitChange(t)
      PROVE  DemandBecomes(t, NoDemand)
    BY <1>6 DEF SeedRaises, Enqueue, CommitChange, Done, DemandBecomes
<1>7. ASSUME RunNowDenied(t) \/ \E on \in BOOLEAN : CreateSource(t, on)
      PROVE  UNCHANGED demand
    BY <1>7 DEF RunNowDenied, CreateSource
<1>8. ASSUME NEW i \in SourceIds, NEW on \in BOOLEAN, NEW known \in BOOLEAN, UpdateSource(t, i, on, known)
      PROVE  Moves
  <2> PICK loaded : loaded = IF known THEN {} ELSE {sources[i].on}
      OBVIOUS
  <2> PICK new : new = [at |-> "change", op |-> "update", source |-> i, on |-> on, loaded |-> loaded]
      OBVIOUS
  <2>1. sources[i] \in SourceRows
      BY DEF SourcesTyped, SourceIds
  <2>2. sources[i].on \in BOOLEAN
      BY <2>1 DEF SourceRows
  <2>3. loaded \in SUBSET BOOLEAN
      BY <2>2
  <2>4. new \in SourceChanges /\ new.source = i /\ new.loaded = loaded
      BY <1>0, <2>3 DEF SourceChanges
  <2>5. DemandBecomes(t, new)
      BY <1>8 DEF UpdateSource, Accept, DemandBecomes
  <2>6. /\ sources' = sources /\ wanted' = wanted /\ tangled \subseteq tangled'
        /\ (\E u \in Requesters : demand[u].at = "change" /\ demand[u].source = i) => i \in tangled'
      BY <1>8, UpdateIs
  <2> HIDE DEF Moves
  <2>7. /\ DemandBecomes(t, new) /\ new.source \in SourceIds /\ UNCHANGED sources
        /\ new.loaded = {} \/ new.loaded = {sources[new.source].on}
        /\ (\E u \in Requesters : demand[u].at = "change" /\ demand[u].source = new.source)
               => new.source \in tangled'
        /\ tangled \subseteq tangled' /\ UNCHANGED wanted
      BY <2>4, <2>5, <2>6
  <2> QED
      BY <2>4, <2>7 DEF Moves
<1>9. Moves
    BY <1>1, <1>2, <1>3, <1>4, <1>5, <1>6, <1>7, <1>8 DEF RequestActs
<1>10. crossed' \in BOOLEAN
  <2>1. CASE InsertDemo(t)
      BY <1>0, <2>1 DEF InsertDemo
  <2>2. CASE ~InsertDemo(t)
    <3>1. CASE \E ids \in {{}} \cup {{i} : i \in 1 .. MaxSources} : RunNow(t, ids)
        BY <1>0, <3>1 DEF RunNow
    <3>2. CASE RunNowDenied(t) \/ SeedDemo(t) \/ ReadSources(t) \/ LookForDemo(t) \/ SeedRaises(t)
        BY <1>0, <3>2 DEF RunNowDenied, SeedDemo, ReadSources, LookForDemo, SeedRaises
    <3>3. CASE Enqueue(t) \/ CommitChange(t) \/ \E on \in BOOLEAN : CreateSource(t, on)
        BY <1>0, <3>3 DEF Enqueue, CommitChange, CreateSource
    <3>4. CASE \E i \in SourceIds, on, known \in BOOLEAN : UpdateSource(t, i, on, known)
        BY <1>0, <3>4 DEF UpdateSource
    <3> QED
        BY <2>2, <3>1, <3>2, <3>3, <3>4 DEF RequestActs
  <2> QED
      BY <2>1, <2>2
<1>11. demands' \in 0 .. MaxDemands
  <2>1. CASE demands < MaxDemands /\ demands' = demands + 1
      BY <1>0, <2>1, ConsoleNaturals
  <2>2. CASE UNCHANGED demands
      BY <1>0, <2>2
  <2>3. CASE \E ids \in {{}} \cup {{i} : i \in 1 .. MaxSources} : RunNow(t, ids)
      BY <2>1, <2>3 DEF RunNow, Accept
  <2>4. CASE RunNowDenied(t) \/ SeedDemo(t) \/ \E on \in BOOLEAN : CreateSource(t, on)
      BY <2>1, <2>4 DEF RunNowDenied, SeedDemo, CreateSource, Accept
  <2>5. CASE ReadSources(t) \/ LookForDemo(t) \/ InsertDemo(t) \/ SeedRaises(t) \/ Enqueue(t) \/ CommitChange(t)
      BY <2>2, <2>5 DEF ReadSources, LookForDemo, InsertDemo, SeedRaises, Enqueue, CommitChange
  <2>6. CASE \E i \in SourceIds, on, known \in BOOLEAN : UpdateSource(t, i, on, known)
      BY <2>1, <2>6 DEF UpdateSource, Accept
  <2> QED
      BY <2>3, <2>4, <2>5, <2>6 DEF RequestActs
<1> QED
    BY <1>9, <1>10, <1>11

LEMMA DemandStep ==
    ASSUME SourcesTyped, DemandTyped, ConsoleNext
    PROVE  DemandTyped'
<1>0. SourceIds \subseteq SourceIds'
    BY SourcesStep
<1>1. ASSUME NEW t \in Requesters, RequestActs(t)
      PROVE  DemandTyped'
  <2>1. crossed' \in BOOLEAN /\ demands' \in 0 .. MaxDemands
      BY <1>1, RequestsMove
  <2>2. CASE UNCHANGED demand
      BY <1>0, <2>1, <2>2 DEF DemandTyped
  <2>3. ASSUME NEW new \in Demands \cup SourceChanges \cup {NoDemand}, DemandBecomes(t, new),
               new.at = "change" => new.source \in SourceIds
        PROVE  DemandTyped'
      BY <1>0, <2>1, <2>3, DemandPut DEF DemandBecomes
  <2>4. NoDemand.at # "change" /\ \A new \in Demands : new.at # "change"
      BY DEF NoDemand, Demands
  <2> QED
      BY <1>1, <2>2, <2>3, <2>4, RequestsMove
<1>2. ASSUME RowActs
      PROVE  DemandTyped'
  <2>1. demand' = demand /\ crossed' = crossed
      BY <1>2, RowActsLeave
  <2>2. demands' \in 0 .. MaxDemands
    <3>1. (demands < MaxDemands /\ demands' = demands + 1) \/ demands' = demands
        BY <1>2 DEF RowActs, Rename, AcknowledgeAlert
    <3> QED
        BY <3>1, ConsoleNaturals DEF DemandTyped
  <2> QED
      BY <1>0, <2>1, <2>2 DEF DemandTyped
<1>3. ASSUME HydrationActs
      PROVE  DemandTyped'
    BY <1>0, <1>3, HydrationLeavesRequests DEF requestSide, DemandTyped
<1> QED
    BY <1>1, <1>2, <1>3, ConsoleActs

-----------------------------------------------------------------------------
\* The rows and the run.
LEMMA HydrationShape ==
    ASSUME HydrationTyped
    PROVE  /\ Hydrating => hydration \in Hydrations
           /\ hydration.by = "gate" => hydration \in Gates
           /\ hydration \in Hydrations => Hydrating
           /\ hydration \in Gates => ~Hydrating
           /\ ~(Unhydrated.by \in {"worker", "scheduler"}) /\ Unhydrated.by # "gate"
BY DEF HydrationTyped, Hydrating, Hydrations, Gates, Unhydrated

LEMMA IdsWithin == SourcesTyped => SourceIds = 1 .. Len(sources) /\ Len(sources) \in Nat /\ SourceIds \subseteq ConsoleIds
BY ConsoleNaturals DEF SourcesTyped, SourceIds, ConsoleIds

\* A step that takes no part in a hydration.
LEMMA RunsAside ==
    ASSUME ConsoleTypes, HydratedRuns, SourceIds \subseteq SourceIds', UNCHANGED <<stateOf, runs, hydration, broken>>,
           jobs' \in Seq(SUBSET ConsoleIds), slips' \in 0 .. MaxSlips
    PROVE  RowsOfRuns' /\ HydrationTyped' /\ HydratedRuns'
<1>1. Hydrating' <=> Hydrating
    BY DEF Hydrating
<1>2. RowsOfRuns'
    BY DEF ConsoleTypes, RowsOfRuns
<1>3. HydrationTyped'
    BY <1>1 DEF ConsoleTypes, HydrationTyped
<1>4. HydratedRuns'
    BY <1>1 DEF HydratedRuns
<1> QED
    BY <1>2, <1>3, <1>4

LEMMA RequestsKeepRuns ==
    ASSUME ConsoleTypes, HydratedRuns, NEW t \in Requesters, RequestActs(t)
    PROVE  RowsOfRuns' /\ HydrationTyped' /\ HydratedRuns'
<1>1. SourceIds \subseteq SourceIds'
  <2>1. ConsoleNext
      BY DEF ConsoleNext, RequestActs
  <2> QED
      BY <2>1, SourcesStep DEF ConsoleTypes
<1>2. UNCHANGED <<stateOf, runs, hydration, broken>>
    BY RequestsLeaveRows
<1>3. jobs \in Seq(SUBSET ConsoleIds) /\ slips \in 0 .. MaxSlips
    BY DEF ConsoleTypes, RowsOfRuns
<1>4. CASE UNCHANGED jobs /\ UNCHANGED slips
    BY <1>1, <1>2, <1>3, <1>4, RunsAside
<1>5. CASE UNCHANGED jobs /\ Slip
  <2>1. slips' \in 0 .. MaxSlips
      BY <1>3, <1>5, ConsoleNaturals DEF Slip
  <2> QED
      BY <1>1, <1>2, <1>3, <1>5, <2>1, RunsAside
<1>6. CASE Enqueue(t)
  <2>1. CASE jobs' = Append(jobs, demand[t].ids) /\ UNCHANGED slips
    <3>1. demand[t].at = "enqueue"
        BY <1>6 DEF Enqueue
    <3>2. demand[t].ids \in SUBSET ConsoleIds
        BY <3>1, DemandShape DEF ConsoleTypes, Demands
    <3>3. jobs' \in Seq(SUBSET ConsoleIds)
        BY <1>3, <2>1, <3>2
    <3> QED
        BY <1>1, <1>2, <1>3, <2>1, <3>3, RunsAside
  <2> QED
      BY <1>5, <1>6, <2>1 DEF Enqueue
<1>7. CASE \E ids \in {{}} \cup {{i} : i \in 1 .. MaxSources} : RunNow(t, ids)
    BY <1>4, <1>7 DEF RunNow, hydrationSide
<1>8. CASE RunNowDenied(t) \/ SeedDemo(t) \/ ReadSources(t) \/ LookForDemo(t) \/ InsertDemo(t)
    BY <1>4, <1>8 DEF RunNowDenied, SeedDemo, ReadSources, LookForDemo, InsertDemo, hydrationSide
<1>9. CASE SeedRaises(t)
    BY <1>5, <1>9 DEF SeedRaises, hydrationSide
<1>10. CASE CommitChange(t) \/ \E on \in BOOLEAN : CreateSource(t, on)
    BY <1>4, <1>10 DEF CommitChange, CreateSource, hydrationSide
<1>11. CASE \E i \in SourceIds, on, known \in BOOLEAN : UpdateSource(t, i, on, known)
    BY <1>4, <1>11 DEF UpdateSource, hydrationSide
<1> QED
    BY <1>6, <1>7, <1>8, <1>9, <1>10, <1>11 DEF RequestActs

\* A state that is written, and what is known of broken hydrations then.
LEMMA StatePut ==
    ASSUME RowsOfRuns, SourcesTyped, NEW i \in SourceIds, NEW st \in SourceStates, stateOf' = [stateOf EXCEPT ![i] = st]
    PROVE  /\ stateOf' \in [ConsoleIds -> SourceStates] /\ stateOf'[i] = st
           /\ \A j \in ConsoleIds \ {i} : stateOf'[j] = stateOf[j]
           /\ \A j \in ConsoleIds \ SourceIds : stateOf'[j] = "none"
BY IdsWithin DEF RowsOfRuns

LEMMA ARunStarts ==
    ASSUME ConsoleTypes, HydratedRuns, UNCHANGED <<sources, stateOf, broken, slips>>, jobs' \in Seq(SUBSET ConsoleIds),
           ~Hydrating, NEW by \in {"worker", "scheduler"}, NEW ids \in SUBSET ConsoleIds, StartRun(by, ids)
    PROVE  RowsOfRuns' /\ HydrationTyped' /\ HydratedRuns'
<1>1. SourceIds' = SourceIds /\ SourceIds \subseteq ConsoleIds
    BY IdsWithin DEF SourceIds, ConsoleTypes
<1>2. Enabled(ids) \subseteq SourceIds
    BY DEF Enabled
<1> PICK new : new = [by |-> by, ids |-> ids, left |-> Enabled(ids), at |-> 0, status |-> "running"]
    OBVIOUS
<1>3. new \in Hydrations /\ new.by = by /\ new.left = Enabled(ids) /\ new.at = 0
    BY <1>1, <1>2, ConsoleNaturals DEF Hydrations
<1>4. hydration' = new /\ runs' = Append(runs, "running")
    BY DEF StartRun
<1>5. runs' \in Seq({"running", "partial", "success"}) /\ runs' # <<>>
    BY <1>4 DEF ConsoleTypes, RowsOfRuns
<1>6. Hydrating'
    BY <1>3, <1>4 DEF Hydrating
<1>7. RowsOfRuns'
    BY <1>1, <1>5 DEF ConsoleTypes, RowsOfRuns
<1>8. HydrationTyped'
    BY <1>1, <1>2, <1>3, <1>4, <1>5, <1>6 DEF HydrationTyped
<1>9. HydratedRuns'
    BY <1>3, <1>4 DEF HydratedRuns
<1> QED
    BY <1>7, <1>8, <1>9

LEMMA HydrationKeepsRuns ==
    ASSUME ConsoleTypes, HydratedRuns, HydrationActs
    PROVE  RowsOfRuns' /\ HydrationTyped' /\ HydratedRuns'
<1>1. sources' = sources /\ SourceIds' = SourceIds
    BY HydrationLeavesRequests DEF requestSide, sourceSide, SourceIds
<1>2. SourceIds \subseteq ConsoleIds /\ SourcesTyped /\ RowsOfRuns /\ HydrationTyped
    BY IdsWithin DEF ConsoleTypes
<1>3. jobs \in Seq(SUBSET ConsoleIds) /\ slips \in 0 .. MaxSlips /\ broken \subseteq SourceIds
      /\ runs \in Seq({"running", "partial", "success"})
    BY <1>2 DEF RowsOfRuns
<1>4. Slip => slips' \in 0 .. MaxSlips
    BY <1>3, ConsoleNaturals DEF Slip
<1>5. CASE TakeJob
  <2>1. hydration = Unhydrated /\ jobs # <<>> /\ jobs' = Tail(jobs) /\ StartRun("worker", Head(jobs))
        /\ UNCHANGED <<stateOf, broken, slips>>
      BY <1>5 DEF TakeJob
  <2>2. Head(jobs) \in SUBSET ConsoleIds /\ jobs' \in Seq(SUBSET ConsoleIds)
      BY <1>3, <2>1, HeadTailProperties
  <2>3. ~Hydrating
      BY <2>1 DEF Hydrating, Unhydrated
  <2> QED
      BY <1>1, <2>1, <2>2, <2>3, ARunStarts
<1>6. CASE ScheduleAllowed
  <2>1. hydration.by = "gate" /\ StartRun("scheduler", {hydration.source}) /\ UNCHANGED <<stateOf, jobs, broken, slips>>
      BY <1>6 DEF ScheduleAllowed
  <2>2. ~Hydrating /\ {hydration.source} \in SUBSET ConsoleIds
      BY <1>2, <2>1 DEF Hydrating, HydrationTyped
  <2> QED
      BY <1>1, <1>3, <2>1, <2>2, ARunStarts
<1>7. ASSUME NEW i \in SourceIds, RegisterSource(i)
      PROVE  RowsOfRuns' /\ HydrationTyped' /\ HydratedRuns'
  <2>1. stateOf[i] = "none" /\ stateOf' = [stateOf EXCEPT ![i] = "idle"] /\ UNCHANGED <<runs, jobs, hydration, broken, slips>>
      BY <1>7 DEF RegisterSource
  <2>2. /\ stateOf' \in [ConsoleIds -> SourceStates] /\ stateOf'[i] = "idle"
        /\ \A j \in ConsoleIds \ {i} : stateOf'[j] = stateOf[j]
        /\ \A j \in ConsoleIds \ SourceIds : stateOf'[j] = "none"
    <3>1. "idle" \in SourceStates
        BY DEF SourceStates
    <3> QED
        BY <1>2, <2>1, <3>1, StatePut
  <2>3. Hydrating' <=> Hydrating
      BY <2>1 DEF Hydrating
  <2>4. RowsOfRuns'
      BY <1>1, <1>2, <2>1, <2>2 DEF RowsOfRuns
  <2>5. HydrationTyped'
      BY <1>1, <1>2, <2>1, <2>3 DEF HydrationTyped
  <2>6. Hydrating /\ hydration.at # 0 => hydration.at \in ConsoleIds \ {i}
      BY <1>2, <2>1 DEF HydratedRuns, HydrationTyped
  <2>7. HydratedRuns'
      BY <2>1, <2>2, <2>3, <2>6 DEF HydratedRuns
  <2> QED
      BY <2>4, <2>5, <2>7
<1>8. ASSUME NEW i \in SourceIds, ScheduleSource(i)
      PROVE  RowsOfRuns' /\ HydrationTyped' /\ HydratedRuns'
  <2> PICK new : new = [by |-> "gate", source |-> i]
      OBVIOUS
  <2>1. new \in Gates /\ new.by = "gate" /\ new.source = i
      BY <1>2 DEF Gates
  <2>2. hydration = Unhydrated /\ hydration' = new /\ UNCHANGED <<stateOf, runs, jobs, broken, slips>>
      BY <1>8 DEF ScheduleSource
  <2>3. ~Hydrating /\ ~Hydrating'
      BY <2>1, <2>2 DEF Hydrating, Unhydrated
  <2>4. RowsOfRuns'
      BY <1>1, <1>2, <2>2 DEF RowsOfRuns
  <2>5. HydrationTyped'
      BY <1>1, <2>1, <2>2, <2>3 DEF HydrationTyped
  <2>6. HydratedRuns'
      BY <2>2, <2>3 DEF HydratedRuns
  <2> QED
      BY <2>4, <2>5, <2>6
<1>9. ASSUME ScheduleDenied
      PROVE  RowsOfRuns' /\ HydrationTyped' /\ HydratedRuns'
  <2> PICK i : i = hydration.source
      OBVIOUS
  <2>1. hydration.by = "gate" /\ hydration' = Unhydrated /\ Slip /\ stateOf' = [stateOf EXCEPT ![i] = "failed"]
        /\ broken' = broken \ {i} /\ UNCHANGED <<runs, jobs>>
      BY <1>9 DEF ScheduleDenied
  <2>2. i \in SourceIds /\ ~Hydrating /\ ~Hydrating'
      BY <1>2, <2>1 DEF HydrationTyped, Hydrating, Unhydrated
  <2>3. /\ stateOf' \in [ConsoleIds -> SourceStates] /\ stateOf'[i] = "failed"
        /\ \A j \in ConsoleIds \ {i} : stateOf'[j] = stateOf[j]
        /\ \A j \in ConsoleIds \ SourceIds : stateOf'[j] = "none"
    <3>1. "failed" \in SourceStates
        BY DEF SourceStates
    <3> QED
        BY <1>2, <2>1, <2>2, <3>1, StatePut
  <2>4. RowsOfRuns'
      BY <1>1, <1>2, <1>3, <1>4, <2>1, <2>3 DEF RowsOfRuns
  <2>5. HydrationTyped'
      BY <2>1, <2>2 DEF HydrationTyped, Unhydrated
  <2>6. HydratedRuns'
      BY <1>2, <2>1, <2>2, <2>3 DEF HydratedRuns
  <2> QED
      BY <2>4, <2>5, <2>6
<1>10. ASSUME NEW i \in SourceIds, BeginSource(i)
       PROVE  RowsOfRuns' /\ HydrationTyped' /\ HydratedRuns'
  <2> PICK new : new = [hydration EXCEPT !.at = i, !.left = @ \ {i}]
      OBVIOUS
  <2>1. Hydrating /\ hydration.at = 0 /\ i \in hydration.left /\ hydration' = new /\ stateOf' = [stateOf EXCEPT ![i] = "running"]
        /\ broken' = broken \ {i} /\ UNCHANGED <<runs, jobs, slips>>
      BY <1>10 DEF BeginSource
  <2>2. hydration \in Hydrations /\ hydration.left \subseteq SourceIds
      BY <1>2, <2>1, HydrationShape DEF HydrationTyped
  <2>3. i \in 0 .. MaxSources /\ i # 0
      BY <1>2, ConsoleNaturals DEF ConsoleIds
  <2>4. new \in Hydrations /\ new.by = hydration.by /\ new.at = i /\ new.left = hydration.left \ {i}
      BY <2>2, <2>3 DEF Hydrations
  <2>5. Hydrating'
      BY <2>1, <2>4 DEF Hydrating
  <2>6. /\ stateOf' \in [ConsoleIds -> SourceStates] /\ stateOf'[i] = "running"
        /\ \A j \in ConsoleIds \ {i} : stateOf'[j] = stateOf[j]
        /\ \A j \in ConsoleIds \ SourceIds : stateOf'[j] = "none"
    <3>1. "running" \in SourceStates
        BY DEF SourceStates
    <3> QED
        BY <1>2, <2>1, <3>1, StatePut
  <2>7. RowsOfRuns'
      BY <1>1, <1>2, <1>3, <2>1, <2>6 DEF RowsOfRuns
  <2>8. runs # <<>>
      BY <1>2, <2>1 DEF HydrationTyped
  <2>9. HydrationTyped'
    <3>1. new.by # "gate"
        BY <2>4 DEF Hydrations
    <3> QED
        BY <1>1, <2>1, <2>2, <2>4, <2>8, <3>1 DEF HydrationTyped
  <2>10. HydratedRuns'
    <3>1. hydration'.at = i
        BY <2>1, <2>4
    <3>2. stateOf'[hydration'.at] = "running"
        BY <2>6, <3>1
    <3>3. ASSUME NEW j \in ConsoleIds, stateOf'[j] = "running" PROVE j \in broken' \/ hydration'.at = j
      <4>1. CASE j = i
          BY <3>1, <4>1
      <4>2. CASE j # i
          BY <2>1, <2>6, <3>3, <4>2 DEF HydratedRuns, ConsoleIds
      <4> QED
          BY <4>1, <4>2
    <3> QED
        BY <2>5, <3>2, <3>3 DEF HydratedRuns
  <2> QED
      BY <2>7, <2>9, <2>10
<1>11. ASSUME EndHydration \/ HydrationRaises
       PROVE  RowsOfRuns' /\ HydrationTyped' /\ HydratedRuns'
  <2> PICK i : i = hydration.at
      OBVIOUS
  <2>1. Hydrating /\ i # 0 /\ UNCHANGED jobs
      BY <1>11 DEF EndHydration, HydrationRaises
  <2>2. i \in SourceIds /\ hydration \in Hydrations /\ hydration.left \subseteq SourceIds /\ runs # <<>>
      BY <1>2, <2>1, HydrationShape DEF HydrationTyped
  <2>3. \E new \in Hydrations : hydration' = new /\ new.by = hydration.by /\ new.at = 0 /\ new.left = hydration.left
    <3>1. CASE EndHydration
      <4> PICK new : new = [hydration EXCEPT !.at = 0]
          OBVIOUS
      <4>0. 0 \in 0 .. MaxSources
          BY ConsoleNaturals
      <4>1. new \in Hydrations /\ new.by = hydration.by /\ new.at = 0 /\ new.left = hydration.left
          BY <2>2, <4>0 DEF Hydrations
      <4> QED
          BY <3>1, <4>1 DEF EndHydration
    <3>2. CASE HydrationRaises
      <4> PICK new : new = [hydration EXCEPT !.at = 0, !.status = "partial"]
          OBVIOUS
      <4>0. 0 \in 0 .. MaxSources
          BY ConsoleNaturals
      <4>1. new \in Hydrations /\ new.by = hydration.by /\ new.at = 0 /\ new.left = hydration.left
          BY <2>2, <4>0 DEF Hydrations
      <4> QED
          BY <3>2, <4>1 DEF HydrationRaises
    <3> QED
        BY <1>11, <3>1, <3>2
  <2> PICK new \in Hydrations : hydration' = new /\ new.by = hydration.by /\ new.at = 0 /\ new.left = hydration.left
      BY <2>3
  <2>4. Hydrating' /\ hydration'.by # "gate"
      BY <2>1 DEF Hydrating, Hydrations
  <2>5. runs' \in Seq({"running", "partial", "success"}) /\ runs' # <<>>
    <3>1. CASE EndHydration
        BY <1>3, <2>2, <3>1 DEF EndHydration
    <3>2. CASE HydrationRaises
      <4>1. runs' = [runs EXCEPT ![Len(runs)] = "partial"]
          BY <3>2 DEF HydrationRaises
      <4>2. Len(runs) \in 1 .. Len(runs)
          BY <1>3, <2>2
      <4>3. runs' \in Seq({"running", "partial", "success"}) /\ Len(runs') = Len(runs)
          BY <1>3, <4>1, <4>2, ExceptSeq
      <4> QED
          BY <4>2, <4>3
    <3> QED
        BY <1>11, <3>1, <3>2
  <2>6. HydrationTyped'
      BY <1>1, <2>2, <2>4, <2>5 DEF HydrationTyped
  <2>7. CASE EndHydration
    <3>1. stateOf' = [stateOf EXCEPT ![i] = "success"] /\ UNCHANGED <<broken, slips>>
        BY <2>7 DEF EndHydration, Ended
    <3>2. /\ stateOf' \in [ConsoleIds -> SourceStates] /\ stateOf'[i] = "success"
          /\ \A j \in ConsoleIds \ {i} : stateOf'[j] = stateOf[j]
          /\ \A j \in ConsoleIds \ SourceIds : stateOf'[j] = "none"
      <4>1. "success" \in SourceStates
          BY DEF SourceStates
      <4> QED
          BY <1>2, <2>2, <3>1, <4>1, StatePut
    <3>3. RowsOfRuns'
        BY <1>1, <1>3, <2>1, <2>5, <3>1, <3>2 DEF RowsOfRuns
    <3>4. \A j \in ConsoleIds : stateOf'[j] = "running" => j \in broken'
        BY <3>1, <3>2 DEF HydratedRuns
    <3> QED
        BY <2>6, <3>3, <3>4 DEF HydratedRuns
  <2>8. CASE HydrationRaises
    <3>1. Slip /\ broken' = broken \cup {i} /\ stateOf' = stateOf
        BY <2>8 DEF HydrationRaises
    <3>2. RowsOfRuns'
        BY <1>1, <1>2, <1>3, <1>4, <2>1, <2>2, <2>5, <3>1 DEF RowsOfRuns
    <3>3. \A j \in ConsoleIds : stateOf'[j] = "running" => j \in broken'
        BY <3>1 DEF HydratedRuns
    <3> QED
        BY <2>6, <3>2, <3>3 DEF HydratedRuns
  <2> QED
      BY <1>11, <2>7, <2>8
<1>12. ASSUME FinishRun
       PROVE  RowsOfRuns' /\ HydrationTyped' /\ HydratedRuns'
  <2>1. Hydrating /\ hydration.at = 0 /\ hydration' = Unhydrated /\ UNCHANGED <<stateOf, jobs, broken, slips>>
      BY <1>12 DEF FinishRun
  <2>2. Len(runs) \in 1 .. Len(runs)
      BY <1>2, <1>3, <2>1 DEF HydrationTyped
  <2> PICK st : st = IF hydration.status = "running" THEN "success" ELSE runs[Len(runs)]
      OBVIOUS
  <2>3. st \in {"running", "partial", "success"}
      BY <1>3, <2>2
  <2>4. runs' = [runs EXCEPT ![Len(runs)] = st]
      BY <1>12 DEF FinishRun
  <2>5. runs' \in Seq({"running", "partial", "success"})
      BY <1>3, <2>2, <2>3, <2>4, ExceptSeq
  <2>6. ~Hydrating' /\ Unhydrated.by # "gate"
      BY <2>1 DEF Hydrating, Unhydrated
  <2>7. RowsOfRuns'
      BY <1>1, <1>2, <2>1, <2>5 DEF RowsOfRuns
  <2>8. HydrationTyped'
      BY <2>1, <2>6 DEF HydrationTyped
  <2>9. HydratedRuns'
    <3>1. \A j \in ConsoleIds : j # 0
        BY DEF ConsoleIds
    <3> QED
        BY <2>1, <2>6, <3>1 DEF HydratedRuns
  <2> QED
      BY <2>7, <2>8, <2>9
<1>13. ASSUME HydrationDies
       PROVE  RowsOfRuns' /\ HydrationTyped' /\ HydratedRuns'
  <2>1. hydration' = Unhydrated /\ Slip /\ UNCHANGED <<stateOf, runs>>
        /\ broken' = broken \cup IF Hydrating /\ hydration.at # 0 THEN {hydration.at} ELSE {}
      BY <1>13 DEF HydrationDies
  <2>2. jobs' \in Seq(SUBSET ConsoleIds)
    <3>1. CASE UNCHANGED jobs
        BY <1>3, <3>1
    <3>2. CASE hydration.by = "worker" /\ jobs' = Append(jobs, hydration.ids)
      <4>1. hydration.ids \in SUBSET ConsoleIds
          BY <1>2, <3>2, HydrationShape DEF Hydrating, Hydrations
      <4> QED
          BY <1>3, <3>2, <4>1
    <3> QED
        BY <1>13, <3>1, <3>2 DEF HydrationDies
  <2>3. ~Hydrating' /\ Unhydrated.by # "gate"
      BY <2>1 DEF Hydrating, Unhydrated
  <2>4. broken' \subseteq SourceIds
      BY <1>2, <1>3, <2>1 DEF HydrationTyped
  <2>5. RowsOfRuns'
      BY <1>1, <1>2, <1>4, <2>1, <2>2, <2>4 DEF RowsOfRuns
  <2>6. HydrationTyped'
      BY <2>1, <2>3 DEF HydrationTyped
  <2>7. HydratedRuns'
    <3>1. \A j \in ConsoleIds : j # 0
        BY DEF ConsoleIds
    <3> QED
        BY <2>1, <2>3, <3>1 DEF HydratedRuns
  <2> QED
      BY <2>5, <2>6, <2>7
<1> QED
    BY <1>5, <1>6, <1>7, <1>8, <1>9, <1>10, <1>11, <1>12, <1>13 DEF HydrationActs

LEMMA RunsStep ==
    ASSUME ConsoleTypes, HydratedRuns, ConsoleNext
    PROVE  RowsOfRuns' /\ HydrationTyped' /\ HydratedRuns'
<1>1. ASSUME RowActs
      PROVE  RowsOfRuns' /\ HydrationTyped' /\ HydratedRuns'
  <2>1. UNCHANGED <<stateOf, runs, hydration, broken, jobs, slips>>
      BY <1>1, RowActsLeave DEF hydrationSide
  <2>2. SourceIds \subseteq SourceIds'
      BY SourcesStep DEF ConsoleTypes
  <2>3. jobs' \in Seq(SUBSET ConsoleIds) /\ slips' \in 0 .. MaxSlips
      BY <2>1 DEF ConsoleTypes, RowsOfRuns
  <2> QED
      BY <2>1, <2>2, <2>3, RunsAside
<1> QED
    BY <1>1, RequestsKeepRuns, HydrationKeepsRuns, ConsoleActs

-----------------------------------------------------------------------------
\* One demo source, unless two seedings overlapped.
LEMMA SeedsStep ==
    ASSUME ConsoleTypes, OneSeeds, ConsoleNext
    PROVE  OneSeeds'
<1>0. SourcesTyped /\ DemandTyped
    BY DEF ConsoleTypes
<1>1. ASSUME NEW t \in Requesters, RequestActs(t), UNCHANGED <<sources, crossed>>
      PROVE  OneSeeds'
  <2>1. Demo' = Demo
      BY <1>1 DEF Demo, SourceIds
  <2>2. ASSUME NEW u \in Requesters, demand'[u].at = "insert" PROVE demand[u].at = "insert" \/ Demo = {}
    <3>1. CASE UNCHANGED demand
        BY <2>2, <3>1
    <3>2. ASSUME NEW new \in Demands \cup SourceChanges \cup {NoDemand}, DemandBecomes(t, new), new.at = "insert" => Demo = {}
          PROVE  demand[u].at = "insert" \/ Demo = {}
        BY <1>0, <2>2, <3>2 DEF DemandBecomes, DemandTyped
    <3>3. NoDemand.at # "insert" /\ \A new \in SourceChanges : new.at # "insert"
        BY DEF NoDemand, SourceChanges
    <3> QED
        BY <1>0, <1>1, <3>1, <3>2, <3>3, RequestsMove
  <2> QED
      BY <1>1, <2>1, <2>2 DEF OneSeeds
<1>2. ASSUME NEW t \in Requesters, InsertDemo(t)
      PROVE  OneSeeds'
  <2>1. CASE \E u \in Requesters \ {t} : demand[u].at = "insert"
      BY <1>2, <2>1 DEF InsertDemo, OneSeeds
  <2>2. CASE \A u \in Requesters \ {t} : demand[u].at # "insert"
    <3>1. ASSUME NEW u \in Requesters PROVE demand'[u].at # "insert"
      <4>1. demand[t].at = "insert" /\ Seeded(t, "seeded")
          BY <1>2 DEF InsertDemo
      <4>2. DemandBecomes(t, NoDemand) \/ \E new \in Demands : DemandBecomes(t, new) /\ new.at = "sources"
          BY <1>0, <4>1, SeededTo
      <4>3. CASE u = t
          BY <1>0, <4>2, <4>3 DEF DemandBecomes, DemandTyped, NoDemand
      <4>4. CASE u # t
          BY <1>0, <2>2, <4>2, <4>4 DEF DemandBecomes, DemandTyped
      <4> QED
          BY <4>3, <4>4
    <3>2. AddSource("demo", TRUE) /\ demand[t].at = "insert" /\ (crossed' <=> crossed)
        BY <1>2, <2>2 DEF InsertDemo
    <3>3. ~crossed' => Demo = {}
        BY <3>2 DEF OneSeeds
    <3>4. SourceIds' = SourceIds \cup {Len(sources) + 1} /\ \A i \in SourceIds : sources'[i] = sources[i]
        BY <1>0, <3>2, AddSourceIs
    <3>5. Demo = {} => Demo' \subseteq {Len(sources) + 1}
        BY <3>4 DEF Demo
    <3> QED
        BY <3>1, <3>3, <3>5 DEF OneSeeds
  <2> QED
      BY <2>1, <2>2
<1>3. ASSUME NEW t \in Requesters, NEW on \in BOOLEAN, CreateSource(t, on)
      PROVE  OneSeeds'
  <2>1. AddSource("other", on) /\ UNCHANGED <<demand, crossed>>
      BY <1>3 DEF CreateSource
  <2>2. /\ SourceIds' = SourceIds \cup {Len(sources) + 1} /\ \A i \in SourceIds : sources'[i] = sources[i]
        /\ sources'[Len(sources) + 1] = [name |-> "other", on |-> on]
      BY <1>0, <2>1, AddSourceIs
  <2>3. sources'[Len(sources) + 1].name # "demo"
      BY <2>2
  <2>4. Demo' \subseteq Demo
      BY <2>2, <2>3 DEF Demo
  <2> QED
      BY <2>1, <2>4 DEF OneSeeds
<1>4. ASSUME NEW t \in Requesters, CommitChange(t)
      PROVE  OneSeeds'
  <2>1. Demo' = Demo
    <3>1. SourceIds' = SourceIds /\ \A i \in SourceIds : sources'[i].name = sources[i].name
        BY <1>0, <1>4, CommitChangeIs
    <3> QED
        BY <3>1 DEF Demo
  <2>2. DemandBecomes(t, NoDemand) /\ crossed' = crossed
      BY <1>4 DEF CommitChange, Done, DemandBecomes
  <2>3. \A u \in Requesters : demand'[u].at = "insert" => demand[u].at = "insert"
      BY <1>0, <2>2 DEF DemandBecomes, DemandTyped, NoDemand
  <2> QED
      BY <2>1, <2>2, <2>3 DEF OneSeeds
<1>5. ASSUME NEW t \in Requesters, RequestActs(t)
      PROVE  OneSeeds'
  <2>1. CASE \E i \in SourceIds, on, known \in BOOLEAN : UpdateSource(t, i, on, known)
      BY <1>1, <1>5, <2>1 DEF UpdateSource
  <2>2. CASE \E ids \in {{}} \cup {{i} : i \in 1 .. MaxSources} : RunNow(t, ids)
      BY <1>1, <1>5, <2>2 DEF RunNow, sourceSide
  <2>3. CASE RunNowDenied(t) \/ SeedDemo(t) \/ ReadSources(t) \/ LookForDemo(t) \/ SeedRaises(t) \/ Enqueue(t)
    <3>1. UNCHANGED <<sources, crossed>>
        BY <2>3 DEF RunNowDenied, SeedDemo, ReadSources, LookForDemo, SeedRaises, Enqueue, sourceSide
    <3> QED
        BY <1>1, <1>5, <3>1
  <2> QED
      BY <1>2, <1>3, <1>4, <1>5, <2>1, <2>2, <2>3 DEF RequestActs
<1>6. ASSUME NEW i \in SourceIds, Rename(i)
      PROVE  OneSeeds'
  <2>1. Demo' \subseteq Demo
    <3>1. SourceIds' = SourceIds /\ \A j \in SourceIds : sources'[j].name = "demo" => sources[j].name = "demo"
        BY <1>0, <1>6, RenameIs
    <3> QED
        BY <3>1 DEF Demo
  <2>2. UNCHANGED <<demand, crossed>>
      BY <1>6 DEF Rename
  <2> QED
      BY <2>1, <2>2 DEF OneSeeds
<1>7. CASE UNCHANGED <<sources, demand, crossed>>
    BY <1>7 DEF OneSeeds, Demo, SourceIds
<1>8. ASSUME NEW a \in DOMAIN alerts, AcknowledgeAlert(a)
      PROVE  OneSeeds'
    BY <1>7, <1>8 DEF AcknowledgeAlert, sourceSide
<1>9. HydrationActs => OneSeeds'
    BY <1>7, HydrationLeavesRequests DEF requestSide, sourceSide
<1> QED
    BY <1>5, <1>6, <1>8, <1>9, ConsoleActs DEF RowActs

-----------------------------------------------------------------------------
\* A source is on as it was last asked for.
LEMMA SwitchesStep ==
    ASSUME ConsoleTypes, Switching, ConsoleNext
    PROVE  Switching'
<1>0. SourcesTyped /\ DemandTyped
    BY DEF ConsoleTypes
<1>A. \A t \in Requesters : demand[t].at = "change" => demand[t].source \in SourceIds
    BY <1>0 DEF DemandTyped
\* a step that changes no source that was there and begins no change
<1>1. ASSUME \A i \in SourceIds : sources'[i].on = sources[i].on /\ wanted'[i] = wanted[i],
             \A i \in SourceIds' \ SourceIds : sources'[i].on = wanted'[i],
             tangled \subseteq tangled',
             \A t \in Requesters : demand'[t].at = "change" => demand'[t] = demand[t]
      PROVE  Switching'
  <2>1. SwitchedAsAsked'
      BY <1>1 DEF Switching, SwitchedAsAsked
  <2>2. ChangesAreFresh'
      BY <1>A, <1>1 DEF Switching, ChangesAreFresh
  <2>3. ChangesAreApart'
      BY <1>1 DEF Switching, ChangesAreApart
  <2> QED
      BY <2>1, <2>2, <2>3 DEF Switching
<1>2. ASSUME UNCHANGED sourceSide, \A t \in Requesters : demand'[t].at = "change" => demand'[t] = demand[t]
      PROVE  Switching'
    BY <1>1, <1>2 DEF sourceSide, SourceIds
<1>3. ASSUME NEW t \in Requesters, NEW new \in Demands \cup {NoDemand}, DemandBecomes(t, new)
      PROVE  \A u \in Requesters : demand'[u].at = "change" => demand'[u] = demand[u]
  <2>1. new.at # "change"
      BY DEF Demands, NoDemand
  <2> QED
      BY <1>0, <1>3, <2>1 DEF DemandBecomes, DemandTyped
<1>4. ASSUME NEW name \in {"demo", "other"}, NEW on \in BOOLEAN, AddSource(name, on),
             \A t \in Requesters : demand'[t].at = "change" => demand'[t] = demand[t]
      PROVE  Switching'
  <2>1. /\ SourceIds' = SourceIds \cup {Len(sources) + 1}
        /\ \A i \in SourceIds : sources'[i] = sources[i] /\ wanted'[i] = wanted[i]
        /\ sources'[Len(sources) + 1] = [name |-> name, on |-> on] /\ wanted'[Len(sources) + 1] = on
        /\ tangled' = tangled
      BY <1>0, <1>4, AddSourceIs
  <2>2. \A i \in SourceIds' \ SourceIds : sources'[i].on = wanted'[i]
      BY <2>1
  <2> QED
      BY <1>1, <1>4, <2>1, <2>2
<1>5. ASSUME NEW t \in Requesters, InsertDemo(t)
      PROVE  Switching'
  <2>1. AddSource("demo", TRUE)
        /\ (DemandBecomes(t, NoDemand) \/ \E new \in Demands : DemandBecomes(t, new) /\ new.at = "sources")
      BY <1>0, <1>5, SeededTo DEF InsertDemo
  <2> QED
      BY <1>3, <1>4, <2>1
<1>6. ASSUME NEW t \in Requesters, NEW on \in BOOLEAN, CreateSource(t, on)
      PROVE  Switching'
  <2>1. AddSource("other", on) /\ UNCHANGED demand
      BY <1>6 DEF CreateSource
  <2> QED
      BY <1>4, <2>1
<1>7. ASSUME NEW t \in Requesters, CommitChange(t)
      PROVE  Switching'
  <2> PICK d : d = demand[t]
      OBVIOUS
  <2>1. /\ SourceIds' = SourceIds /\ d.source \in SourceIds
        /\ \A i \in SourceIds \ {d.source} : sources'[i].on = sources[i].on /\ wanted'[i] = wanted[i]
        /\ wanted'[d.source] = d.on /\ tangled' = tangled
        /\ IF IsWritten(d) THEN sources'[d.source].on = d.on ELSE sources' = sources
      BY <1>0, <1>7, CommitChangeIs
  <2>2. d.at = "change" /\ DemandBecomes(t, NoDemand)
      BY <1>7 DEF CommitChange, Done, DemandBecomes
  <2>3. \A u \in Requesters : demand'[u].at = "change" => demand'[u] = demand[u] /\ u # t
      BY <1>0, <2>2 DEF DemandBecomes, DemandTyped, NoDemand
  <2>4. d.source \in tangled \/ sources'[d.source].on = d.on
    <3>1. CASE IsWritten(d)
        BY <2>1, <3>1
    <3>2. CASE ~IsWritten(d)
      <4>1. d.loaded = {d.on} /\ sources' = sources
          BY <2>1, <3>2 DEF IsWritten
      <4>2. d.source \in tangled \/ d.loaded = {sources[d.source].on}
          BY <2>2, <4>1 DEF Switching, ChangesAreFresh
      <4> QED
          BY <4>1, <4>2
    <3> QED
        BY <3>1, <3>2
  <2>5. SwitchedAsAsked'
      BY <2>1, <2>4 DEF Switching, SwitchedAsAsked
  <2>6. ChangesAreFresh'
    <3>1. ASSUME NEW u \in Requesters, demand'[u].at = "change"
          PROVE  \/ demand'[u].source \in tangled'
                 \/ demand'[u].loaded = {} \/ demand'[u].loaded = {sources'[demand'[u].source].on}
      <4>1. demand'[u] = demand[u] /\ u # t
          BY <2>3, <3>1
      <4>2. CASE demand[u].source = d.source
          BY <2>1, <2>2, <3>1, <4>1, <4>2 DEF Switching, ChangesAreApart
      <4>3. CASE demand[u].source # d.source
          BY <1>A, <2>1, <3>1, <4>1, <4>3 DEF Switching, ChangesAreFresh
      <4> QED
          BY <4>2, <4>3
    <3> QED
        BY <3>1 DEF ChangesAreFresh
  <2>7. ChangesAreApart'
      BY <2>1, <2>3 DEF Switching, ChangesAreApart
  <2> QED
      BY <2>5, <2>6, <2>7 DEF Switching
<1>8. ASSUME NEW t \in Requesters, RequestActs(t), UNCHANGED <<sources, wanted>>, tangled \subseteq tangled'
      PROVE  Switching'
  <2>1. SourceIds' = SourceIds
      BY <1>8 DEF SourceIds
  <2>2. sources' = sources /\ wanted' = wanted /\ SourceIds' = SourceIds /\ tangled \subseteq tangled'
      BY <1>8, <2>1
  <2>3. CASE \A u \in Requesters : demand'[u].at = "change" => demand'[u] = demand[u]
      BY <1>1, <2>2, <2>3
  <2>4. ASSUME NEW new \in SourceChanges, DemandBecomes(t, new), new.source \in SourceIds,
               new.loaded = {} \/ new.loaded = {sources[new.source].on},
               (\E u \in Requesters : demand[u].at = "change" /\ demand[u].source = new.source) => new.source \in tangled'
        PROVE  Switching'
    <3>1. demand'[t] = new /\ \A u \in Requesters \ {t} : demand'[u] = demand[u]
        BY <1>0, <2>4 DEF DemandBecomes, DemandTyped
    <3>2. SwitchedAsAsked'
        BY <2>2 DEF Switching, SwitchedAsAsked
    <3>3. ChangesAreFresh'
        BY <2>2, <2>4, <3>1 DEF Switching, ChangesAreFresh
    <3>4. ChangesAreApart'
      <4>1. ASSUME NEW v \in Requesters, NEW u \in Requesters, v # u, demand'[v].at = "change", demand'[u].at = "change",
                   demand'[v].source = demand'[u].source
            PROVE  demand'[v].source \in tangled'
        <5>1. CASE v = t
            BY <2>4, <3>1, <4>1, <5>1
        <5>2. CASE u = t
            BY <2>4, <3>1, <4>1, <5>2
        <5>3. CASE v # t /\ u # t
            BY <2>2, <3>1, <4>1, <5>3 DEF Switching, ChangesAreApart
        <5> QED
            BY <5>1, <5>2, <5>3
      <4> QED
          BY <4>1 DEF ChangesAreApart
    <3> QED
        BY <3>2, <3>3, <3>4 DEF Switching
  <2> QED
      BY <1>0, <1>2, <1>3, <1>8, <2>3, <2>4, RequestsMove
<1>9. ASSUME NEW t \in Requesters, RequestActs(t)
      PROVE  Switching'
  <2>1. CASE UNCHANGED sourceSide
      BY <1>8, <1>9, <2>1 DEF sourceSide
  <2>2. ASSUME NEW i \in SourceIds, NEW on \in BOOLEAN, NEW known \in BOOLEAN, UpdateSource(t, i, on, known)
        PROVE  Switching'
    <3>1. UNCHANGED <<sources, wanted>> /\ tangled \subseteq tangled'
        BY <1>0, <2>2, UpdateIs
    <3> QED
        BY <1>8, <1>9, <3>1
  <2> QED
      BY <1>5, <1>6, <1>7, <1>9, <2>1, <2>2, SourceWriters
<1>10. ASSUME RowActs
       PROVE  Switching'
  <2>1. UNCHANGED <<demand, tangled, wanted>>
      BY <1>10, RowActsLeave
  <2>2. ASSUME NEW i \in SourceIds, Rename(i)
        PROVE  Switching'
    <3>1. SourceIds' = SourceIds /\ \A j \in SourceIds : sources'[j].on = sources[j].on
        BY <1>0, <2>2, RenameIs
    <3> QED
        BY <1>1, <2>1, <3>1
  <2>3. ASSUME NEW a \in DOMAIN alerts, AcknowledgeAlert(a)
        PROVE  UNCHANGED sourceSide
      BY <2>3 DEF AcknowledgeAlert
  <2> QED
      BY <1>2, <1>10, <2>1, <2>2, <2>3 DEF RowActs
<1>11. ASSUME HydrationActs
       PROVE  Switching'
    BY <1>2, <1>11, HydrationLeavesRequests DEF requestSide
<1> QED
    BY <1>9, <1>10, <1>11, ConsoleActs

-----------------------------------------------------------------------------
\* A refusal has a cause when it is given.
LEMMA RefusalsStep ==
    ASSUME RefusalsHaveCauses, ConsoleNext
    PROVE  RefusalsHaveCauses'
<1>1. CASE UNCHANGED refusals
    BY <1>1 DEF RefusalsHaveCauses
<1>2. ASSUME NEW t \in Requesters, Refuse(t), WithoutSources(t)
      PROVE  RefusalsHaveCauses'
  <2> DEFINE d == demand[t]
             off == \E i \in Demo : ~sources[i].on
  <2>1. d.ids # {} \/ off \/ Demo = {}
    <3>1. SUFFICES ASSUME d.ids = {}, ~off, Demo # {} PROVE FALSE
        OBVIOUS
    <3>2. PICK i \in Demo : TRUE
        BY <3>1
    <3>3. i \in SourceIds /\ sources[i].on
        BY <3>1, <3>2 DEF Demo
    <3>4. i \in Enabled(d.ids)
        BY <3>1, <3>3 DEF Enabled
    <3> QED
        BY <1>2, <3>4 DEF WithoutSources
  <2>2. PICK r : /\ r = [ids |-> d.ids, saw |-> d.saw, off |-> off, lost |-> Demo = {}]
                 /\ refusals' = refusals \cup {r}
      BY <1>2 DEF Refuse
  <2>3. r.ids = d.ids /\ (r.off <=> off) /\ (r.lost <=> Demo = {})
      BY <2>2
  <2> HIDE DEF off
  <2> QED
      BY <2>1, <2>2, <2>3 DEF RefusalsHaveCauses
<1>3. ASSUME NEW t \in Requesters, ReadSources(t)
      PROVE  RefusalsHaveCauses'
    BY <1>1, <1>2, <1>3 DEF ReadSources
<1>4. ASSUME NEW t \in Requesters, SeedRaises(t)
      PROVE  RefusalsHaveCauses'
  <2>1. CASE demand[t].op = "run"
    <3>1. PICK r : /\ r = [ids |-> demand[t].ids, saw |-> "raised", off |-> FALSE, lost |-> FALSE]
                   /\ refusals' = refusals \cup {r}
        BY <1>4, <2>1 DEF SeedRaises
    <3>2. r.saw = "raised"
        BY <3>1
    <3> QED
        BY <3>1, <3>2 DEF RefusalsHaveCauses
  <2> QED
      BY <1>1, <1>4, <2>1 DEF SeedRaises
<1>5. ASSUME NEW t \in Requesters, RequestActs(t)
      PROVE  RefusalsHaveCauses'
  <2>1. CASE \E ids \in {{}} \cup {{i} : i \in 1 .. MaxSources} : RunNow(t, ids)
      BY <1>1, <2>1 DEF RunNow
  <2>2. CASE RunNowDenied(t) \/ SeedDemo(t) \/ LookForDemo(t) \/ InsertDemo(t) \/ Enqueue(t) \/ CommitChange(t)
      BY <1>1, <2>2 DEF RunNowDenied, SeedDemo, LookForDemo, InsertDemo, Enqueue, CommitChange
  <2>3. CASE \E on \in BOOLEAN : CreateSource(t, on)
      BY <1>1, <2>3 DEF CreateSource
  <2>4. CASE \E i \in SourceIds, on, known \in BOOLEAN : UpdateSource(t, i, on, known)
      BY <1>1, <2>4 DEF UpdateSource
  <2> QED
      BY <1>3, <1>4, <1>5, <2>1, <2>2, <2>3, <2>4 DEF RequestActs
<1> QED
    BY <1>1, <1>5, RowActsLeave, HydrationLeavesRequests, ConsoleActs DEF requestSide

-----------------------------------------------------------------------------
LEMMA ConsoleInductive == ConsoleInv /\ [ConsoleNext]_consoleVars => ConsoleInv'
<1> SUFFICES ASSUME ConsoleInv, [ConsoleNext]_consoleVars PROVE ConsoleInv'
    OBVIOUS
<1>1. CASE ConsoleNext
    BY <1>1, SourcesStep, DemandStep, RunsStep, SeedsStep, SwitchesStep, RefusalsStep DEF ConsoleInv, ConsoleTypes
<1>2. CASE UNCHANGED consoleVars
  <2>1. UNCHANGED <<sources, stateOf, runs, demand, jobs, hydration, wanted, tangled, refusals, crossed, broken, demands, slips>>
      BY <1>2 DEF consoleVars
  <2>2. SourceIds' = SourceIds /\ Demo' = Demo /\ Hydrating' = Hydrating
      BY <2>1 DEF SourceIds, Demo, Hydrating
  <2>3. SourcesTyped' /\ DemandTyped'
      BY <2>1, <2>2 DEF ConsoleInv, ConsoleTypes, SourcesTyped, DemandTyped
  <2>4. RowsOfRuns'
      BY <2>1, <2>2 DEF ConsoleInv, ConsoleTypes, RowsOfRuns
  <2>5. HydrationTyped'
      BY <2>1, <2>2 DEF ConsoleInv, ConsoleTypes, HydrationTyped
  <2>6. OneSeeds' /\ RefusalsHaveCauses'
      BY <2>1, <2>2 DEF ConsoleInv, OneSeeds, RefusalsHaveCauses
  <2>7. Switching'
      BY <2>1, <2>2 DEF ConsoleInv, Switching, SwitchedAsAsked, ChangesAreFresh, ChangesAreApart
  <2>8. HydratedRuns'
      BY <2>1, <2>2 DEF ConsoleInv, HydratedRuns
  <2> QED
      BY <2>3, <2>4, <2>5, <2>6, <2>7, <2>8 DEF ConsoleInv, ConsoleTypes
<1> QED
    BY <1>1, <1>2

LEMMA ConsoleMeans == ConsoleInv => ConsoleTypeOK /\ ConsoleHolds
<1> SUFFICES ASSUME ConsoleInv PROVE ConsoleTypeOK /\ ConsoleHolds
    OBVIOUS
<1>0. SourcesTyped /\ DemandTyped /\ RowsOfRuns /\ HydrationTyped
    BY DEF ConsoleInv, ConsoleTypes
<1>1. SourceIds = 1 .. Len(sources) /\ Len(sources) \in Nat /\ SourceIds \subseteq ConsoleIds
    BY <1>0, IdsWithin
<1>2. ConsoleTypeOK
  <2>1. Len(sources) <= MaxSources /\ \A i \in SourceIds : sources[i] \in [name : {"demo", "other"}, on : BOOLEAN]
    <3>1. sources \in Seq(SourceRows) /\ Len(sources) <= MaxSources
        BY <1>0 DEF SourcesTyped
    <3>2. \A i \in SourceIds : sources[i] \in SourceRows
        BY <1>1, <3>1
    <3> QED
        BY <3>1, <3>2 DEF SourceRows
  <2>2. \A i \in 1 .. MaxSources : stateOf[i] \in {"none", "idle", "running", "success", "failed"}
      BY <1>0 DEF RowsOfRuns, ConsoleIds, SourceStates
  <2>3. \A r \in DOMAIN runs : runs[r] \in {"running", "partial", "success"}
      BY <1>0 DEF RowsOfRuns
  <2>4. \A t \in Requesters : demand[t].at \in {"none", "sources", "look", "insert", "enqueue", "change"}
      BY <1>0, DemandShape
  <2>5. Len(wanted) = Len(sources) /\ tangled \subseteq SourceIds /\ broken \subseteq SourceIds
        /\ \A i \in 1 .. MaxSources \ SourceIds : stateOf[i] = "none"
      BY <1>0 DEF SourcesTyped, RowsOfRuns, ConsoleIds
  <2>6. hydration.by \in {"free", "gate", "worker", "scheduler"}
      BY <1>0 DEF HydrationTyped, Hydrations, Gates, Unhydrated
  <2>7. demands \in 0 .. MaxDemands /\ slips \in 0 .. MaxSlips
      BY <1>0 DEF DemandTyped, RowsOfRuns
  <2> QED
      BY <2>1, <2>2, <2>3, <2>4, <2>5, <2>6, <2>7 DEF ConsoleTypeOK
<1>3. OneDemoSource
  <2>1. CASE crossed
      BY <2>1 DEF OneDemoSource
  <2>2. CASE ~crossed
    <3>1. \A i, j \in Demo : i = j
        BY <2>2 DEF ConsoleInv, OneSeeds
    <3>2. CASE Demo = {}
      <4>1. Cardinality(Demo) = 0
          BY <3>2, FS_EmptySet
      <4> QED
          BY <4>1 DEF OneDemoSource
    <3>3. CASE Demo # {}
      <4>1. PICK i : Demo = {i}
          BY <3>1, <3>3
      <4>2. Cardinality(Demo) = 1
          BY <4>1, FS_Singleton
      <4> QED
          BY <4>2 DEF OneDemoSource
    <3> QED
        BY <3>2, <3>3
  <2> QED
      BY <2>1, <2>2
<1>4. RunningHasCause
  <2>1. ASSUME Hydrating, hydration.at # 0 PROVE PageStatus = "running"
    <3>1. hydration.at \in SourceIds /\ stateOf[hydration.at] = "running"
        BY <1>0, <2>1 DEF ConsoleInv, HydratedRuns, HydrationTyped
    <3> QED
        BY <3>1 DEF PageStatus
  <2>2. \A i \in SourceIds : stateOf[i] = "running" => i \in broken \/ (Hydrating /\ hydration.at = i)
      BY <1>1 DEF ConsoleInv, HydratedRuns
  <2> QED
      BY <2>1, <2>2 DEF RunningHasCause
<1> QED
    BY <1>2, <1>3, <1>4 DEF ConsoleInv, ConsoleHolds, Switching

\* The variables of api/hydration.py and of the rows it shows have their types.
THEOREM ConsoleTyped == ConsoleSpec => []ConsoleTypeOK
<1>1. ConsoleSpec => []ConsoleInv
    BY ConsoleInitially, ConsoleInductive, PTL DEF ConsoleSpec
<1> QED
    BY <1>1, ConsoleMeans, PTL

\* However requests, the scheduler and hydrations overlap, raise or die: there is one demo source
\* unless two seedings overlapped, a source is on as last asked unless two changes of it
\* overlapped, run-now is refused only for a cause it can name, and a source that says "running"
\* is being hydrated or was interrupted.
THEOREM ConsoleAlwaysHolds == ConsoleSpec => []ConsoleHolds
<1>1. ConsoleSpec => []ConsoleInv
    BY ConsoleInitially, ConsoleInductive, PTL DEF ConsoleSpec
<1> QED
    BY <1>1, ConsoleMeans, PTL

-----------------------------------------------------------------------------
(* WebPanels: what every profile has, and what holds of the panels for it   *)

\* The facts about the profiles that the proofs rest on.
\* what follows an operation is one of the panel's, and holds no flag of its own
FollowersPlaced(p) ==
    \A o \in DOMAIN p.ops : \A n \in p.ops[o].next :
        n = "none" \/ (n \in DOMAIN p.ops /\ p.ops[n].hold = "none")
\* an operation clears, when it fails, fields that it writes
VoidsWritten(p) == \A o \in DOMAIN p.ops : p.ops[o].voids \subseteq p.ops[o].writes
\* a panel that is loading before it is mounted has an effect that ends it
StartsEnd(p) ==
    /\ p.starts \subseteq {"loading"} /\ p.absent \in {"rests", "asks", "clears", "resets"}
    /\ p.starts # {} =>
          /\ p.copies = {} /\ p.absent \in {"asks", "clears", "resets"}
          /\ \E o \in DOMAIN p.ops : p.ops[o].effect /\ p.ops[o].flag = "loading"
\* two effects write no field together
EffectsApart(p) ==
    \A o, q \in DOMAIN p.ops : p.ops[o].effect /\ p.ops[q].effect /\ o # q => p.ops[o].writes \cap p.ops[q].writes = {}
\* what is copied is not fetched, and a panel that copies starts nothing
CopiesApart(p) ==
    p.copies # {} => \A o \in DOMAIN p.ops : ~p.ops[o].effect /\ p.ops[o].writes \cap p.copies = {}
\* a field that follows the prop is fetched by operations that follow it and tell a failure
FollowersTell(p) ==
    \A o, q \in DOMAIN p.ops : \A f \in p.ops[o].writes \cap p.ops[q].writes :
        p.ops[o].effect => p.ops[q].followed /\ (p.ops[q].tells \/ p.ops[q].marks)
\* an operation that clears the error on success writes every field that follows the prop
HealersWrite(p) ==
    \A o, q \in DOMAIN p.ops : p.ops[o].effect /\ p.ops[q].heals => p.ops[o].writes \subseteq p.ops[q].writes

PanelFacts(p) ==
    /\ FollowersPlaced(p) /\ VoidsWritten(p) /\ StartsEnd(p) /\ EffectsApart(p) /\ CopiesApart(p)
    /\ FollowersTell(p) /\ HealersWrite(p)


\* What a panel and an operation are, field by field; on has the switches that are on.
IsPanel(p, names, absent, keyless, starts, copies) ==
    /\ DOMAIN p.ops = names /\ p.absent = absent /\ p.keyless = keyless
    /\ p.starts = starts /\ p.copies = copies
IsOperation(op, fields, clears, voids, flag, hold, again, next, on) ==
    /\ op.writes = fields /\ op.empties = clears /\ op.voids = voids
    /\ op.flag = flag /\ op.hold = hold /\ op.again = again /\ op.next = next
    /\ (op.spins <=> "spins" \in on) /\ (op.forgives <=> "forgives" \in on) /\ (op.marks <=> "marks" \in on)
    /\ (op.tells <=> "tells" \in on) /\ (op.heals <=> "heals" \in on)
    /\ (op.followed <=> "followed" \in on) /\ (op.effect <=> "effect" \in on)

LEMMA UseDocumentLinksIs ==
    /\ IsPanel(UseDocumentLinks, {"links"}, "rests", FALSE, {}, {})
    /\ IsOperation(UseDocumentLinks.ops["links"], {"links"}, {}, {"links"}, "loading", "none", "any", {"none"},
        {"effect", "followed", "forgives", "spins", "tells"})
  BY DEF UseDocumentLinks, Voiding, Panel, Fetch, Called, IsPanel, IsOperation

LEMMA UseFindLinksIs ==
    /\ IsPanel(UseFindLinks, {"find"}, "rests", FALSE, {}, {})
    /\ IsOperation(UseFindLinks.ops["find"], {"links"}, {}, {"links"}, "loading", "none", "any", {"none"},
        {"forgives", "spins", "tells"})
  BY DEF UseFindLinks, Panel, Fetch, Called, IsPanel, IsOperation

LEMMA UseKnowledgeGraphIs ==
    /\ IsPanel(UseKnowledgeGraph, {"graph"}, "rests", FALSE, {}, {})
    /\ IsOperation(UseKnowledgeGraph.ops["graph"], {"graph"}, {}, {"graph"}, "loading", "none", "any", {"none"},
        {"effect", "followed", "forgives", "spins", "tells"})
  BY DEF UseKnowledgeGraph, Voiding, Panel, Fetch, Called, IsPanel, IsOperation

LEMMA UseLinkEvidenceIs ==
    /\ IsPanel(UseLinkEvidence, {"evidence"}, "rests", FALSE, {}, {})
    /\ IsOperation(UseLinkEvidence.ops["evidence"], {"evidence"}, {}, {"evidence"}, "loading", "none", "any", {"none"},
        {"effect", "followed", "forgives", "spins", "tells"})
  BY DEF UseLinkEvidence, Voiding, Panel, Fetch, Called, IsPanel, IsOperation

LEMMA UseUncertaintyIs ==
    /\ IsPanel(UseUncertainty, {"quantify"}, "rests", FALSE, {}, {})
    /\ IsOperation(UseUncertainty.ops["quantify"], {"uncertainty"}, {}, {}, "loading", "none", "any", {"none"},
        {"effect", "followed", "forgives", "spins", "tells"})
  BY DEF UseUncertainty, Panel, Fetch, Called, IsPanel, IsOperation

LEMMA UseCausalAnalysisIs ==
    /\ IsPanel(UseCausalAnalysis, {"analyse"}, "rests", FALSE, {}, {})
    /\ IsOperation(UseCausalAnalysis.ops["analyse"], {"insights"}, {}, {}, "loading", "none", "any", {"none"},
        {"effect", "followed", "forgives", "spins", "tells"})
  BY DEF UseCausalAnalysis, Panel, Fetch, Called, IsPanel, IsOperation

LEMMA UseHydrationIs ==
    /\ IsPanel(UseHydration, {"reload", "run", "sources", "status"}, "rests", FALSE, {}, {})
    /\ IsOperation(UseHydration.ops["status"], {"status"}, {}, {}, "loading", "none", "never", {"none"},
        {"effect", "followed", "forgives", "spins", "tells"})
    /\ IsOperation(UseHydration.ops["sources"], {"sources"}, {}, {}, "none", "none", "never", {"none"},
        {"effect", "followed", "tells"})
    /\ IsOperation(UseHydration.ops["reload"], {"status"}, {}, {}, "loading", "none", "never", {"sources"},
        {"followed", "forgives", "spins", "tells"})
    /\ IsOperation(UseHydration.ops["run"], {}, {}, {}, "none", "runningNow", "enabled", {"reload"},
        {"followed"})
  BY DEF UseHydration, LoadStatus, LoadSources, Reload, HandleRunNow, Panel, Fetch, Called, IsPanel, IsOperation

LEMMA UseCodeExecutionIs ==
    /\ IsPanel(UseCodeExecution, {"aside", "execute", "generate"}, "rests", FALSE, {}, {})
    /\ IsOperation(UseCodeExecution.ops["execute"], {"code", "result"}, {"result"}, {}, "loading", "none", "any", {"none"},
        {"forgives", "spins", "tells"})
    /\ IsOperation(UseCodeExecution.ops["generate"], {"code"}, {}, {}, "loading", "none", "any", {"none"},
        {"forgives", "spins", "tells"})
    /\ IsOperation(UseCodeExecution.ops["aside"], {}, {}, {}, "none", "none", "any", {"none"},
        {"tells"})
  BY DEF UseCodeExecution, Execute, GenerateOnly, Aside, Panel, Fetch, Called, IsPanel, IsOperation

LEMMA CodeExecutionPanelIs ==
    /\ IsPanel(CodeExecutionPanel, {"execute", "select"}, "rests", FALSE, {}, {})
    /\ IsOperation(CodeExecutionPanel.ops["execute"], {"code", "result"}, {"result"}, {}, "loading", "none", "enabled", {"none"},
        {"forgives", "spins", "tells"})
    /\ IsOperation(CodeExecutionPanel.ops["select"], {"query"}, {}, {}, "none", "none", "any", {"none"},
        {})
  BY DEF CodeExecutionPanel, Execute, SelectHistory, Panel, Fetch, Called, IsPanel, IsOperation

LEMMA ExecutionHistoryIs ==
    /\ IsPanel(ExecutionHistory, {"history"}, "clears", FALSE, {"loading"}, {})
    /\ IsOperation(ExecutionHistory.ops["history"], {"history"}, {}, {}, "loading", "none", "never", {"none"},
        {"effect", "followed", "forgives", "spins", "tells"})
  BY DEF ExecutionHistory, Panel, Busy, Fetch, Called, IsPanel, IsOperation

LEMMA FunctionLibraryIs ==
    /\ IsPanel(FunctionLibrary, {"functions"}, "asks", TRUE, {"loading"}, {})
    /\ IsOperation(FunctionLibrary.ops["functions"], {"functions"}, {}, {}, "loading", "none", "never", {"none"},
        {"effect", "followed", "forgives", "tells"})
  BY DEF FunctionLibrary, Panel, Keyless, Busy, Fetch, Called, IsPanel, IsOperation

LEMMA UsePDPIs ==
    /\ IsPanel(UsePDP, {"check", "grant", "limit", "revoke", "trail"}, "rests", FALSE, {}, {})
    /\ IsOperation(UsePDP.ops["check"], {}, {}, {}, "loading", "none", "any", {"none"},
        {"forgives", "spins", "tells"})
    /\ IsOperation(UsePDP.ops["grant"], {}, {}, {}, "loading", "none", "any", {"none"},
        {"forgives", "spins", "tells"})
    /\ IsOperation(UsePDP.ops["revoke"], {}, {}, {}, "loading", "none", "any", {"none"},
        {"forgives", "spins", "tells"})
    /\ IsOperation(UsePDP.ops["limit"], {}, {}, {}, "loading", "none", "any", {"none"},
        {"forgives", "spins", "tells"})
    /\ IsOperation(UsePDP.ops["trail"], {}, {}, {}, "loading", "none", "any", {"none"},
        {"forgives", "spins", "tells"})
  BY DEF UsePDP, CheckPermission, GrantAccess, RevokeAccess, GetRateLimit, GetAuditTrail, Panel, Fetch, Called, IsPanel, IsOperation

LEMMA PDPProviderIs ==
    /\ IsPanel(PDPProvider, {"limit", "refresh"}, "rests", FALSE, {}, {})
    /\ IsOperation(PDPProvider.ops["refresh"], {"permissions"}, {}, {}, "loading", "none", "any", {"none"},
        {"effect", "followed", "forgives", "spins", "tells"})
    /\ IsOperation(PDPProvider.ops["limit"], {"limits"}, {}, {}, "none", "none", "any", {"none"},
        {"followed"})
  BY DEF PDPProvider, RefreshPermissions, GetRateLimitStatus, Panel, Fetch, Called, IsPanel, IsOperation

LEMMA PolicyListIs ==
    /\ IsPanel(PolicyList, {"list", "toggle"}, "asks", TRUE, {"loading"}, {})
    /\ IsOperation(PolicyList.ops["list"], {"policies"}, {}, {}, "loading", "none", "shown", {"none"},
        {"effect", "followed", "forgives", "spins", "tells"})
    /\ IsOperation(PolicyList.ops["toggle"], {}, {}, {}, "none", "none", "shown", {"list"},
        {"followed"})
  BY DEF PolicyList, FetchPolicies, HandleToggleEnabled, Panel, Keyless, Busy, Fetch, Called, IsPanel, IsOperation

LEMMA AuditTrailIs ==
    /\ IsPanel(AuditTrail, {"logs"}, "asks", FALSE, {"loading"}, {})
    /\ IsOperation(AuditTrail.ops["logs"], {"logs"}, {}, {}, "loading", "none", "shown", {"none"},
        {"effect", "followed", "forgives", "spins", "tells"})
  BY DEF AuditTrail, Panel, Busy, Fetch, Called, IsPanel, IsOperation

LEMMA PermissionsPanelIs ==
    /\ IsPanel(PermissionsPanel, {"grant", "user", "users"}, "asks", FALSE, {"loading"}, {})
    /\ IsOperation(PermissionsPanel.ops["users"], {"users"}, {}, {}, "loading", "none", "shown", {"none"},
        {"effect", "followed", "forgives", "spins", "tells"})
    /\ IsOperation(PermissionsPanel.ops["user"], {"permissions"}, {}, {}, "none", "none", "shown", {"none"},
        {})
    /\ IsOperation(PermissionsPanel.ops["grant"], {}, {}, {}, "none", "none", "shown", {"user"},
        {})
  BY DEF PermissionsPanel, FetchUserPermissions, HandleGrantAccess, Panel, Busy, Fetch, Called, IsPanel, IsOperation

LEMMA RateLimitIndicatorIs ==
    /\ IsPanel(RateLimitIndicator, {"limit"}, "resets", FALSE, {"loading"}, {})
    /\ IsOperation(RateLimitIndicator.ops["limit"], {"limit"}, {}, {}, "loading", "none", "any", {"none"},
        {"effect", "followed", "heals", "tells"})
  BY DEF RateLimitIndicator, FetchRateLimit, Panel, Busy, Fetch, Called, IsPanel, IsOperation

LEMMA PolicyFormIs ==
    /\ IsPanel(PolicyForm, {"submit"}, "asks", FALSE, {}, {"form"})
    /\ IsOperation(PolicyForm.ops["submit"], {"saved"}, {}, {}, "saving", "none", "enabled", {"none"},
        {"followed", "forgives", "spins", "tells"})
  BY DEF PolicyForm, HandleSubmit, Panel, Fetch, Called, IsPanel, IsOperation

LEMMA ProjectDropdownIs ==
    /\ IsPanel(ProjectDropdown, {"scan"}, "asks", TRUE, {}, {})
    /\ IsOperation(ProjectDropdown.ops["scan"], {"options"}, {}, {}, "none", "none", "never", {"none"},
        {"effect", "followed", "tells"})
  BY DEF ProjectDropdown, ScanDrive, Panel, Keyless, Fetch, Called, IsPanel, IsOperation

LEMMA UploadButtonIs ==
    /\ IsPanel(UploadButton, {"classify", "extract", "upload"}, "rests", FALSE, {}, {})
    /\ IsOperation(UploadButton.ops["upload"], {"uploaded"}, {"items", "type", "uploaded"}, {}, "none", "isProcessing", "any", {"classify"},
        {"followed", "forgives", "tells"})
    /\ IsOperation(UploadButton.ops["classify"], {"type"}, {}, {}, "none", "none", "never", {"extract", "none"},
        {"tells"})
    /\ IsOperation(UploadButton.ops["extract"], {"items"}, {}, {}, "none", "none", "never", {"none"},
        {"tells"})
  BY DEF UploadButton, Uploading, Classifying, Panel, Fetch, Called, IsPanel, IsOperation

LEMMA CausalAnalysisCardIs ==
    /\ IsPanel(CausalAnalysisCard, {"simulate"}, "rests", FALSE, {}, {})
    /\ IsOperation(CausalAnalysisCard.ops["simulate"], {"simulation"}, {}, {}, "none", "none", "any", {"none"},
        {"marks"})
  BY DEF CausalAnalysisCard, Simulate, Panel, Fetch, Called, IsPanel, IsOperation

LEMMA EnhancedChatIs ==
    /\ IsPanel(EnhancedChat, {"send"}, "asks", TRUE, {}, {})
    /\ IsOperation(EnhancedChat.ops["send"], {"answer"}, {}, {}, "loading", "none", "any", {"none"},
        {"marks", "spins"})
  BY DEF EnhancedChat, Panel, Keyless, Fetch, Called, IsPanel, IsOperation

LEMMA ProgressIs ==
    /\ IsPanel(Progress, {"delays", "submit"}, "rests", FALSE, {}, {})
    /\ IsOperation(Progress.ops["submit"], {"line"}, {"line"}, {}, "submitting", "none", "enabled", {"none"},
        {"forgives", "spins", "tells"})
    /\ IsOperation(Progress.ops["delays"], {"delays", "line"}, {"line"}, {}, "loadingDelays", "none", "enabled", {"none"},
        {"forgives", "spins", "tells"})
  BY DEF Progress, SubmitSnapshot, ShowDelays, Panel, Fetch, Called, IsPanel, IsOperation

LEMMA SettingsIs ==
    /\ IsPanel(Settings, {"check"}, "asks", TRUE, {"loading"}, {})
    /\ IsOperation(Settings.ops["check"], {"backend"}, {}, {}, "loading", "none", "any", {"none"},
        {"effect", "followed", "forgives", "heals", "marks", "spins", "tells"})
  BY DEF Settings, CheckBackend, Panel, Keyless, Busy, Fetch, Called, IsPanel, IsOperation

LEMMA AdvancedIntelligenceIs ==
    /\ IsPanel(AdvancedIntelligence, {"analyse"}, "asks", TRUE, {}, {})
    /\ IsOperation(AdvancedIntelligence.ops["analyse"], {"report"}, {}, {"report"}, "loading", "none", "enabled", {"none"},
        {"effect", "followed", "forgives", "spins", "tells"})
  BY DEF AdvancedIntelligence, RunAnalysis, Panel, Keyless, Fetch, Called, IsPanel, IsOperation
\* the operations that write a field wait for its flag, as Waiting says of the panel in place
WaitsIn(p, f) ==
    LET ops == {op \in Ops(p) : f \in op.writes}
    IN  /\ Cardinality({op.flag : op \in ops}) = 1
        /\ \A op \in ops : op.spins /\ op.again \in {"enabled", "never"} /\ (op.effect => p.keyless)
        /\ \A op \in Ops(p) : op.next = {"none"}
\* something starts the requests of a field although others are under way
Hurries(p, f) ==
    \/ \E o \in DOMAIN p.ops : /\ f \in p.ops[o].writes
                               /\ \/ ~p.ops[o].spins \/ p.ops[o].again \notin {"enabled", "never"}
                                  \/ p.ops[o].effect /\ ~p.keyless
    \/ \E o \in DOMAIN p.ops : p.ops[o].next # {"none"}
\* the flag is set and reset for the requests of the field and for no others
OwnFlag(p, f, flag) ==
    /\ p.absent \notin {"clears", "resets"} /\ flag # "none"
    /\ \A o \in DOMAIN p.ops : /\ (p.ops[o].flag = flag <=> f \in p.ops[o].writes) /\ p.ops[o].hold # flag
                               /\ p.ops[o].next = {"none"} /\ (f \in p.ops[o].empties => f \in p.ops[o].writes)
                               /\ f \in p.ops[o].writes => /\ p.ops[o].spins /\ p.ops[o].again \in {"enabled", "never"}
                                                           /\ p.ops[o].effect => p.keyless
WaitersFact(p) == \A f \in FieldsOf(p) : ~WaitsIn(p, f) \/ \E flag \in {o.flag : o \in Ops(p)} : OwnFlag(p, f, flag)

LEMMA FieldsAre ==
  ASSUME NEW p, NEW f \in FieldsOf(p)
  PROVE  f \in p.copies \/ \E o \in DOMAIN p.ops : f \in p.ops[o].writes \cup p.ops[o].empties
<1>1. CASE f \in p.copies
  BY <1>1
<1>2. CASE \E op \in Ops(p) : f \in op.writes \cup op.empties
  <2>1. PICK op \in Ops(p) : f \in op.writes \cup op.empties
    BY <1>2
  <2>2. PICK o \in DOMAIN p.ops : op = p.ops[o]
    BY DEF Ops
  <2> QED
    BY <2>1, <2>2
<1>3. f \in p.copies \/ f \in UNION {op.writes \cup op.empties : op \in Ops(p)}
  BY DEF FieldsOf
<1> QED
  BY <1>1, <1>2, <1>3

LEMMA HurryingDoesNotWait ==
  ASSUME NEW p, \A f \in FieldsOf(p) : Hurries(p, f)
  PROVE  WaitersFact(p)
<1> SUFFICES ASSUME NEW f \in FieldsOf(p), WaitsIn(p, f) PROVE FALSE
  BY DEF WaitersFact
<1>1. /\ \A op \in Ops(p) : f \in op.writes => op.spins /\ op.again \in {"enabled", "never"} /\ (op.effect => p.keyless)
      /\ \A op \in Ops(p) : op.next = {"none"}
  BY DEF WaitsIn
<1>2. \A o \in DOMAIN p.ops : p.ops[o] \in Ops(p)
  BY DEF Ops
<1> QED
  BY <1>1, <1>2 DEF Hurries

LEMMA PanelsHaveFacts == \A p \in Panels : PanelFacts(p)
<1> USE DEF IsPanel, IsOperation, PanelFacts, FollowersPlaced, VoidsWritten, StartsEnd, EffectsApart, CopiesApart, FollowersTell, HealersWrite
<1>1. PanelFacts(UseDocumentLinks)
  BY UseDocumentLinksIs
<1>2. PanelFacts(UseFindLinks)
  BY UseFindLinksIs
<1>3. PanelFacts(UseKnowledgeGraph)
  BY UseKnowledgeGraphIs
<1>4. PanelFacts(UseLinkEvidence)
  BY UseLinkEvidenceIs
<1>5. PanelFacts(UseUncertainty)
  BY UseUncertaintyIs
<1>6. PanelFacts(UseCausalAnalysis)
  BY UseCausalAnalysisIs
<1>7. PanelFacts(UseHydration)
  BY UseHydrationIs
<1>8. PanelFacts(UseCodeExecution)
  BY UseCodeExecutionIs
<1>9. PanelFacts(CodeExecutionPanel)
  BY CodeExecutionPanelIs
<1>10. PanelFacts(ExecutionHistory)
  BY ExecutionHistoryIs
<1>11. PanelFacts(FunctionLibrary)
  BY FunctionLibraryIs
<1>12. PanelFacts(UsePDP)
  BY UsePDPIs
<1>13. PanelFacts(PDPProvider)
  BY PDPProviderIs
<1>14. PanelFacts(PolicyList)
  BY PolicyListIs
<1>15. PanelFacts(AuditTrail)
  BY AuditTrailIs
<1>16. PanelFacts(PermissionsPanel)
  BY PermissionsPanelIs
<1>17. PanelFacts(RateLimitIndicator)
  BY RateLimitIndicatorIs
<1>18. PanelFacts(PolicyForm)
  BY PolicyFormIs
<1>19. PanelFacts(ProjectDropdown)
  BY ProjectDropdownIs
<1>20. PanelFacts(UploadButton)
  BY UploadButtonIs
<1>21. PanelFacts(CausalAnalysisCard)
  BY CausalAnalysisCardIs
<1>22. PanelFacts(EnhancedChat)
  BY EnhancedChatIs
<1>23. PanelFacts(Progress)
  BY ProgressIs
<1>24. PanelFacts(Settings)
  BY SettingsIs
<1>25. PanelFacts(AdvancedIntelligence)
  BY AdvancedIntelligenceIs
<1> HIDE DEF PanelFacts
<1> QED
  BY <1>1, <1>2, <1>3, <1>4, <1>5, <1>6, <1>7, <1>8, <1>9, <1>10, <1>11, <1>12, <1>13, <1>14, <1>15, <1>16, <1>17, <1>18, <1>19, <1>20, <1>21, <1>22, <1>23, <1>24, <1>25 DEF Panels

\* The panels of which a field waits for its flag.
LEMMA OthersHurry ==
  ASSUME NEW p \in Panels \ {CodeExecutionPanel, PolicyForm, Progress, AdvancedIntelligence}, NEW f \in FieldsOf(p)
  PROVE  Hurries(p, f)
<1> USE FieldsAre DEF IsPanel, IsOperation, Hurries
<1>1. \A g \in FieldsOf(UseDocumentLinks) : Hurries(UseDocumentLinks, g)
  BY UseDocumentLinksIs
<1>2. \A g \in FieldsOf(UseFindLinks) : Hurries(UseFindLinks, g)
  BY UseFindLinksIs
<1>3. \A g \in FieldsOf(UseKnowledgeGraph) : Hurries(UseKnowledgeGraph, g)
  BY UseKnowledgeGraphIs
<1>4. \A g \in FieldsOf(UseLinkEvidence) : Hurries(UseLinkEvidence, g)
  BY UseLinkEvidenceIs
<1>5. \A g \in FieldsOf(UseUncertainty) : Hurries(UseUncertainty, g)
  BY UseUncertaintyIs
<1>6. \A g \in FieldsOf(UseCausalAnalysis) : Hurries(UseCausalAnalysis, g)
  BY UseCausalAnalysisIs
<1>7. \A g \in FieldsOf(UseHydration) : Hurries(UseHydration, g)
  BY UseHydrationIs
<1>8. \A g \in FieldsOf(UseCodeExecution) : Hurries(UseCodeExecution, g)
  BY UseCodeExecutionIs
<1>9. \A g \in FieldsOf(ExecutionHistory) : Hurries(ExecutionHistory, g)
  BY ExecutionHistoryIs
<1>10. \A g \in FieldsOf(FunctionLibrary) : Hurries(FunctionLibrary, g)
  BY FunctionLibraryIs
<1>11. \A g \in FieldsOf(UsePDP) : Hurries(UsePDP, g)
  BY UsePDPIs
<1>12. \A g \in FieldsOf(PDPProvider) : Hurries(PDPProvider, g)
  BY PDPProviderIs
<1>13. \A g \in FieldsOf(PolicyList) : Hurries(PolicyList, g)
  BY PolicyListIs
<1>14. \A g \in FieldsOf(AuditTrail) : Hurries(AuditTrail, g)
  BY AuditTrailIs
<1>15. \A g \in FieldsOf(PermissionsPanel) : Hurries(PermissionsPanel, g)
  BY PermissionsPanelIs
<1>16. \A g \in FieldsOf(RateLimitIndicator) : Hurries(RateLimitIndicator, g)
  BY RateLimitIndicatorIs
<1>17. \A g \in FieldsOf(ProjectDropdown) : Hurries(ProjectDropdown, g)
  BY ProjectDropdownIs
<1>18. \A g \in FieldsOf(UploadButton) : Hurries(UploadButton, g)
  BY UploadButtonIs
<1>19. \A g \in FieldsOf(CausalAnalysisCard) : Hurries(CausalAnalysisCard, g)
  BY CausalAnalysisCardIs
<1>20. \A g \in FieldsOf(EnhancedChat) : Hurries(EnhancedChat, g)
  BY EnhancedChatIs
<1>21. \A g \in FieldsOf(Settings) : Hurries(Settings, g)
  BY SettingsIs
<1> HIDE DEF Hurries
<1> QED
  BY <1>1, <1>2, <1>3, <1>4, <1>5, <1>6, <1>7, <1>8, <1>9, <1>10, <1>11, <1>12, <1>13, <1>14, <1>15, <1>16, <1>17, <1>18, <1>19, <1>20, <1>21 DEF Panels

LEMMA FewWait ==
  ASSUME NEW p \in Panels
  PROVE  WaitersFact(p)
<1> USE DEF IsPanel, IsOperation
<1>1. ASSUME NEW q, NEW f, ~\E o \in DOMAIN q.ops : f \in q.ops[o].writes
      PROVE  ~WaitsIn(q, f)
  <2>1. {op \in Ops(q) : f \in op.writes} = {}
    BY <1>1 DEF Ops
  <2>2. {op.flag : op \in {op \in Ops(q) : f \in op.writes}} = {}
    BY <2>1
  <2>3. Cardinality({op.flag : op \in {op \in Ops(q) : f \in op.writes}}) = 0
    BY <2>2, FS_EmptySet
  <2> QED
    BY <2>3 DEF WaitsIn
<1>2. WaitersFact(CodeExecutionPanel)
  <2> DEFINE q == CodeExecutionPanel
  <2> SUFFICES ASSUME NEW f \in FieldsOf(q), WaitsIn(q, f)
               PROVE  \E flag \in {o.flag : o \in Ops(q)} : OwnFlag(q, f, flag)
    BY DEF WaitersFact
  <2>1. ~Hurries(q, f)
    BY HurryingDoesNotWait DEF WaitsIn, Hurries, Ops
  <2>2. OwnFlag(q, f, "loading")
    BY <2>1, CodeExecutionPanelIs, FieldsAre DEF OwnFlag, Hurries
  <2>3. q.ops["execute"] \in Ops(q) /\ q.ops["execute"].flag = "loading"
    BY CodeExecutionPanelIs DEF Ops
  <2> QED
    BY <2>2, <2>3
<1>3. WaitersFact(PolicyForm)
  <2> DEFINE q == PolicyForm
  <2> SUFFICES ASSUME NEW f \in FieldsOf(q), WaitsIn(q, f)
               PROVE  \E flag \in {o.flag : o \in Ops(q)} : OwnFlag(q, f, flag)
    BY DEF WaitersFact
  <2>1. \E o \in DOMAIN q.ops : f \in q.ops[o].writes
    BY <1>1
  <2>2. OwnFlag(q, f, "saving")
    BY <2>1, PolicyFormIs DEF OwnFlag
  <2>3. q.ops["submit"] \in Ops(q) /\ q.ops["submit"].flag = "saving"
    BY PolicyFormIs DEF Ops
  <2> QED
    BY <2>2, <2>3
<1>4. WaitersFact(AdvancedIntelligence)
  <2> DEFINE q == AdvancedIntelligence
  <2> SUFFICES ASSUME NEW f \in FieldsOf(q)
               PROVE  \E flag \in {o.flag : o \in Ops(q)} : OwnFlag(q, f, flag)
    BY DEF WaitersFact
  <2>1. OwnFlag(q, f, "loading")
    BY AdvancedIntelligenceIs, FieldsAre DEF OwnFlag
  <2>2. q.ops["analyse"] \in Ops(q) /\ q.ops["analyse"].flag = "loading"
    BY AdvancedIntelligenceIs DEF Ops
  <2> QED
    BY <2>1, <2>2
\* the status line is written under two flags
<1>5. WaitersFact(Progress)
  <2> DEFINE q == Progress
  <2> SUFFICES ASSUME NEW f \in FieldsOf(q), WaitsIn(q, f)
               PROVE  \E flag \in {o.flag : o \in Ops(q)} : OwnFlag(q, f, flag)
    BY DEF WaitersFact
  <2>1. f # "line"
    <3> SUFFICES ASSUME f = "line" PROVE FALSE
      OBVIOUS
    <3> DEFINE flags == {op.flag : op \in {op \in Ops(q) : f \in op.writes}}
    <3>1. q.ops["submit"] \in {op \in Ops(q) : f \in op.writes} /\ q.ops["delays"] \in {op \in Ops(q) : f \in op.writes}
      BY ProgressIs DEF Ops
    <3>2. "submitting" \in flags /\ "loadingDelays" \in flags
      BY <3>1, ProgressIs
    <3>3. \A flag \in flags : flag \in {"submitting", "loadingDelays"}
      BY ProgressIs DEF Ops
    <3>4. flags = {"submitting", "loadingDelays"}
      BY <3>2, <3>3
    <3>5. Cardinality({"submitting", "loadingDelays"}) = 2
      <4>1. Cardinality({"submitting"}) = 1 /\ IsFiniteSet({"submitting"})
        BY FS_Singleton
      <4>2. {"submitting", "loadingDelays"} = {"submitting"} \cup {"loadingDelays"}
        OBVIOUS
      <4>3. "loadingDelays" \notin {"submitting"}
        OBVIOUS
      <4>4. Cardinality({"submitting"} \cup {"loadingDelays"}) = Cardinality({"submitting"}) + 1
        BY <4>1, <4>3, FS_AddElement
      <4> QED
        BY <4>1, <4>2, <4>4
    <3>6. Cardinality(flags) = 2
      BY <3>4, <3>5
    <3> QED
      BY <3>6 DEF WaitsIn
  <2>2. OwnFlag(q, f, "loadingDelays")
    BY <2>1, ProgressIs, FieldsAre DEF OwnFlag
  <2>3. q.ops["delays"] \in Ops(q) /\ q.ops["delays"].flag = "loadingDelays"
    BY ProgressIs DEF Ops
  <2> QED
    BY <2>2, <2>3
<1>6. CASE p \notin {CodeExecutionPanel, PolicyForm, Progress, AdvancedIntelligence}
  BY <1>6, OthersHurry, HurryingDoesNotWait
<1> QED
  BY <1>2, <1>3, <1>4, <1>5, <1>6

-----------------------------------------------------------------------------
(* WebPanels: the inductive invariant, of the values that a step writes     *)

PanelKeys == Subjects \cup {Absent}
Stamps(n) == [key : PanelKeys \cup {"none"}, n : 0 .. n]
Holds == {"none"} \cup {o.hold : o \in Ops(It)}
\* Requests under way when n have been started, and what may be shown then.
FlightsTyped(fl, n) == fl \subseteq [op : DOMAIN It.ops, key : PanelKeys, n : 1 .. n, hold : Holds]
StampsTyped(sh, n) == sh \in [FieldsOf(It) -> Stamps(n)]

PanelTypes ==
    /\ panel \in {p.name : p \in Panels} /\ asks \in Nat
    /\ FlightsTyped(flights, asks) /\ StampsTyped(shown, asks) /\ StampsTyped(newest, asks)
    /\ key \in PanelKeys \cup {"unmounted"} /\ error \in BOOLEAN
    /\ failures \in 0 .. MaxFailures
FieldSets(cr, lo) == cr \subseteq FieldsOf(It) /\ lo \subseteq UNION {op.writes : op \in Ops(It)}

\* A field of which requests did not overlap: the one under way is the newest and what is shown
\* is older, or, when none is under way, what is shown is the newest, or older after a failure.
Carried(sh, nw, cr, fl, lo) ==
    \A f \in FieldsOf(It) \ cr :
        /\ \A r \in fl : f \in OpOf(r).writes =>
              /\ r.key = nw[f].key /\ r.n = nw[f].n /\ f \notin lo /\ sh[f].n < nw[f].n
              /\ \A s \in fl : f \in OpOf(s).writes => s = r
        /\ ~WrittenBy(f, fl) => IF f \in lo THEN sh[f].n < nw[f].n ELSE sh[f] = nw[f]

\* A flag that is set has a request under way that resets it.
SpinsFor(b, fl) == "none" \notin b /\ \A flag \in b : \E r \in fl : flag \in {OpOf(r).flag, r.hold}
SpinInv == IF key = "unmounted" THEN busy = It.starts /\ flights = {} ELSE SpinsFor(busy, flights)

\* What follows the prop was asked for with it.
Follows(nw, cr) ==
    key \in Subjects => \A f \in FieldsOf(It) \ cr : Following(f) # {} => nw[f] = Blank \/ nw[f].key = key
\* A failure of what follows the prop is told, until another operation clears it.
Told(er, lo, cr) ==
    \A f \in FieldsOf(It) \ cr :
        Following(f) # {} /\ f \in lo => er \/ \E op \in Ops(It) \ Following(f) : op.forgives

\* The flag of a request that others wait for is set, and they wait.
Awaited(b, fl, cr) ==
    \A f \in FieldsOf(It) : Waiting(f) =>
        f \notin cr /\ \A r \in fl : f \in OpOf(r).writes => OpOf(r).flag \in b
KeylessRests == It.keyless => key \in {"unmounted", Absent}

PanelInv ==
    /\ PanelTypes /\ FieldSets(crossing, fallen) /\ SpinInv
    /\ Carried(shown, newest, crossing, flights, fallen)
    /\ Follows(newest, crossing) /\ Told(error, fallen, crossing)
    /\ Awaited(busy, flights, crossing) /\ KeylessRests

LEMMA ItIsPanel ==
  ASSUME panel \in {p.name : p \in Panels}
  PROVE  It \in Panels
<1>1. PICK p \in Panels : p.name = panel
  OBVIOUS
<1>2. It = CHOOSE q \in Panels : q.name = panel
  BY DEF It, ByName
<1> QED
  BY <1>1, <1>2, Zenon

LEMMA ItStays ==
  ASSUME UNCHANGED panel
  PROVE  It' = It
  BY DEF It

LEMMA ItHasFacts ==
  ASSUME PanelTypes
  PROVE  It \in Panels /\ PanelFacts(It) /\ WaitersFact(It)
  BY ItIsPanel, PanelsHaveFacts, FewWait DEF PanelTypes

\* A field that waits has a flag of its own.
LEMMA WaitingHasFlag ==
  ASSUME PanelTypes, NEW f \in FieldsOf(It), Waiting(f)
  PROVE  \E flag \in {o.flag : o \in Ops(It)} : OwnFlag(It, f, flag)
<1>1. WaitsIn(It, f)
  BY DEF WaitsIn, Waiting
<1> QED
  BY <1>1, ItHasFacts DEF WaitersFact

\* The operations that fetch a field that follows the prop.
LEMMA FollowingIs ==
  ASSUME NEW f, Following(f) # {}
  PROVE  \E o \in DOMAIN It.ops : It.ops[o].effect /\ f \in It.ops[o].writes
<1>1. PICK op \in Ops(It) : op.effect /\ f \in op.writes
  BY DEF Following
<1> QED
  BY <1>1 DEF Ops

-----------------------------------------------------------------------------
(* WebPanels: operations that start                                         *)

\* What StartAll writes, field by field.
Fetched(names, f) == \E o \in names : f \in It.ops[o].writes
Cleared(names, f) == \E o \in names : f \in It.ops[o].empties

LEMMA StartWrites ==
  ASSUME NEW names, NEW k, NEW hold, NEW others, NEW shows, NEW flags, NEW fails, NEW lost,
         StartAll(names, k, hold, others, shows, flags, fails, lost)
  PROVE  /\ \A f \in DOMAIN shown :
              /\ shown'[f] = IF Cleared(names, f) THEN Blank ELSE shows[f]
              /\ newest'[f] = IF Fetched(names, f) THEN [key |-> k, n |-> asks + 1]
                              ELSE IF Cleared(names, f) THEN Blank ELSE newest[f]
              /\ f \in crossing' <=>
                    IF Fetched(names, f) \/ Cleared(names, f)
                    THEN \/ WrittenBy(f, others)
                         \/ k # key' /\ \E o \in names : It.ops[o].followed /\ f \in It.ops[o].writes
                    ELSE f \in crossing
         /\ DOMAIN shown' = DOMAIN shown /\ DOMAIN newest' = DOMAIN shown /\ crossing' \subseteq DOMAIN shown
         /\ fallen' \subseteq lost
         /\ \A f \in fallen' : f \in lost /\ ~Fetched(names, f) /\ ~Cleared(names, f)
         /\ \A f \in lost : f \in fallen' \/ Fetched(names, f) \/ Cleared(names, f)
<1>1. \A f : f \in UNION {op.writes : op \in {It.ops[o] : o \in names}} <=> Fetched(names, f)
  BY DEF Fetched
<1>2. \A f : f \in UNION {op.empties : op \in {It.ops[o] : o \in names}} <=> Cleared(names, f)
  BY DEF Cleared
<1>3. \A f : f \in UNION {op.writes : op \in {op \in {It.ops[o] : o \in names} : op.followed /\ k # key'}}
                 <=> k # key' /\ \E o \in names : It.ops[o].followed /\ f \in It.ops[o].writes
  OBVIOUS
<1>4. \A f \in DOMAIN shown : shown'[f] = IF Cleared(names, f) THEN Blank ELSE shows[f]
  BY <1>2 DEF StartAll
<1>5. \A f \in DOMAIN shown :
         newest'[f] = IF Fetched(names, f) THEN [key |-> k, n |-> asks + 1]
                      ELSE IF Cleared(names, f) THEN Blank ELSE newest[f]
  BY <1>1, <1>2 DEF StartAll
<1>6. \A f \in DOMAIN shown : f \in crossing' <=>
                    IF Fetched(names, f) \/ Cleared(names, f)
                    THEN \/ WrittenBy(f, others)
                         \/ k # key' /\ \E o \in names : It.ops[o].followed /\ f \in It.ops[o].writes
                    ELSE f \in crossing
  BY <1>1, <1>2, <1>3 DEF StartAll
<1>7. DOMAIN shown' = DOMAIN shown /\ DOMAIN newest' = DOMAIN shown /\ crossing' \subseteq DOMAIN shown
  BY DEF StartAll
<1>8. fallen' = lost \ ((UNION {op.writes : op \in {It.ops[o] : o \in names}})
                        \cup (UNION {op.empties : op \in {It.ops[o] : o \in names}}))
  BY DEF StartAll
<1>9. /\ fallen' \subseteq lost
      /\ \A f \in fallen' : f \in lost /\ ~Fetched(names, f) /\ ~Cleared(names, f)
      /\ \A f \in lost : f \in fallen' \/ Fetched(names, f) \/ Cleared(names, f)
  BY <1>1, <1>2, <1>8
<1> QED
  BY <1>4, <1>5, <1>6, <1>7, <1>9

\* The facts under which operations start: the values they start from are in order, and those
\* that are under way for what they fetch are either none or overlap.
LEMMA StartTypes ==
  ASSUME PanelTypes, UNCHANGED panel, NEW names, NEW k \in PanelKeys, NEW hold \in Holds,
         NEW others, NEW shows, NEW flags, NEW fails, NEW lost,
         names \subseteq DOMAIN It.ops, FlightsTyped(others, asks), StampsTyped(shows, asks),
         FieldSets(crossing, lost), StartAll(names, k, hold, others, shows, flags, fails, lost)
  PROVE  /\ asks' = asks + 1 /\ asks' \in Nat
         /\ FlightsTyped(flights, asks)' /\ StampsTyped(shown, asks)' /\ StampsTyped(newest, asks)'
         /\ FieldSets(crossing, fallen)'
<1>1. It' = It
  BY ItStays
<1>2. asks' = asks + 1 /\ asks' \in Nat /\ asks \in Nat
  BY DEF StartAll, PanelTypes
<1>3. \A fl : FlightsTyped(fl, asks) => fl \subseteq [op : DOMAIN It.ops, key : PanelKeys, n : 1 .. asks + 1, hold : Holds]
  BY <1>2 DEF FlightsTyped
<1>4. ASSUME NEW o \in names
      PROVE  [op |-> o, key |-> k, n |-> asks + 1, hold |-> IF hold # "none" THEN hold ELSE It.ops[o].hold]
                \in [op : DOMAIN It.ops, key : PanelKeys, n : 1 .. asks + 1, hold : Holds]
  <2>1. It.ops[o].hold \in Holds
    BY DEF Holds, Ops
  <2>2. asks + 1 \in 1 .. asks + 1
    BY <1>2
  <2> QED
    BY <2>1, <2>2
<1>5. Holds' = Holds
  BY <1>1 DEF Holds
<1>6. FlightsTyped(flights, asks)'
  <2>1. flights' = others \cup {[op |-> o, key |-> k, n |-> asks + 1,
                                 hold |-> IF hold # "none" THEN hold ELSE It.ops[o].hold] : o \in names}
    BY DEF StartAll
  <2>2. flights' \subseteq [op : DOMAIN It.ops, key : PanelKeys, n : 1 .. asks + 1, hold : Holds]
    BY <2>1, <1>3, <1>4
  <2> QED
    BY <1>1, <1>2, <1>5, <2>2 DEF FlightsTyped, PanelKeys
<1>7. Stamps(asks) \subseteq Stamps(asks + 1) /\ Blank \in Stamps(asks + 1) /\ [key |-> k, n |-> asks + 1] \in Stamps(asks + 1)
  <2>1. 0 \in 0 .. asks + 1 /\ asks + 1 \in 0 .. asks + 1 /\ 0 .. asks \subseteq 0 .. asks + 1
    BY <1>2
  <2> QED
    BY <2>1 DEF Stamps, Blank
<1>8. DOMAIN shown = FieldsOf(It) /\ newest \in [FieldsOf(It) -> Stamps(asks)] /\ shows \in [FieldsOf(It) -> Stamps(asks)]
  BY DEF PanelTypes, StampsTyped
<1>9. /\ shown' = [f \in DOMAIN shown |-> shown'[f]] /\ newest' = [f \in DOMAIN shown |-> newest'[f]]
  BY DEF StartAll
<1>10. \A f \in FieldsOf(It) : shown'[f] \in Stamps(asks + 1) /\ newest'[f] \in Stamps(asks + 1)
  <2> SUFFICES ASSUME NEW f \in FieldsOf(It)
               PROVE  shown'[f] \in Stamps(asks + 1) /\ newest'[f] \in Stamps(asks + 1)
    OBVIOUS
  <2>1. /\ shown'[f] = IF Cleared(names, f) THEN Blank ELSE shows[f]
        /\ newest'[f] = IF Fetched(names, f) THEN [key |-> k, n |-> asks + 1]
                        ELSE IF Cleared(names, f) THEN Blank ELSE newest[f]
    BY <1>8, StartWrites
  <2>2. shows[f] \in Stamps(asks + 1) /\ newest[f] \in Stamps(asks + 1)
    BY <1>7, <1>8
  <2> QED
    BY <1>7, <2>1, <2>2
<1>11. StampsTyped(shown, asks)' /\ StampsTyped(newest, asks)'
  BY <1>1, <1>2, <1>8, <1>9, <1>10 DEF StampsTyped, Stamps, PanelKeys
<1>12. FieldSets(crossing, fallen)'
  BY <1>1, <1>8, StartWrites DEF FieldSets
<1> QED
  BY <1>2, <1>6, <1>11, <1>12

\* The requests that start are about what is newest.
LEMMA StartCarries ==
  ASSUME PanelTypes, UNCHANGED panel, NEW names, NEW k \in PanelKeys, NEW hold \in Holds,
         NEW others, NEW shows, NEW flags, NEW fails, NEW lost,
         names \subseteq DOMAIN It.ops, FlightsTyped(others, asks), StampsTyped(shows, asks),
         FieldSets(crossing, lost), StartAll(names, k, hold, others, shows, flags, fails, lost),
         \A o, q \in names : o # q => It.ops[o].writes \cap It.ops[q].writes = {},
         Carried(shows, newest, crossing, others, lost)
  PROVE  Carried(shown, newest, crossing, flights, fallen)'
<1>1. It' = It /\ asks \in Nat
  BY ItStays DEF PanelTypes
<1>2. SUFFICES ASSUME NEW f \in FieldsOf(It), f \notin crossing'
      PROVE  /\ \A r \in flights' : f \in It.ops[r.op].writes =>
                  /\ r.key = newest'[f].key /\ r.n = newest'[f].n /\ f \notin fallen' /\ shown'[f].n < newest'[f].n
                  /\ \A s \in flights' : f \in It.ops[s.op].writes => s = r
             /\ (\A r \in flights' : f \notin It.ops[r.op].writes) =>
                   IF f \in fallen' THEN shown'[f].n < newest'[f].n ELSE shown'[f] = newest'[f]
  BY <1>1 DEF Carried, OpOf, WrittenBy
<1> DEFINE Request(o) == [op |-> o, key |-> k, n |-> asks + 1, hold |-> IF hold # "none" THEN hold ELSE It.ops[o].hold]
<1>3. flights' = others \cup {Request(o) : o \in names}
  BY DEF StartAll
<1>4. \A o \in names : Request(o).op = o /\ Request(o).key = k /\ Request(o).n = asks + 1
  OBVIOUS
<1>5. f \in DOMAIN shown /\ shows[f] \in Stamps(asks)
  BY DEF PanelTypes, StampsTyped
<1>6. /\ shown'[f] = IF Cleared(names, f) THEN Blank ELSE shows[f]
      /\ newest'[f] = IF Fetched(names, f) THEN [key |-> k, n |-> asks + 1]
                      ELSE IF Cleared(names, f) THEN Blank ELSE newest[f]
      /\ Fetched(names, f) \/ Cleared(names, f) => ~WrittenBy(f, others) /\ f \notin fallen'
      /\ ~Fetched(names, f) /\ ~Cleared(names, f) => f \notin crossing /\ (f \in fallen' <=> f \in lost)
  <2>1. /\ shown'[f] = IF Cleared(names, f) THEN Blank ELSE shows[f]
        /\ newest'[f] = IF Fetched(names, f) THEN [key |-> k, n |-> asks + 1]
                        ELSE IF Cleared(names, f) THEN Blank ELSE newest[f]
        /\ IF Fetched(names, f) \/ Cleared(names, f) THEN ~WrittenBy(f, others) ELSE f \notin crossing
    BY <1>2, <1>5, StartWrites
  <2>2. /\ f \in fallen' => f \in lost /\ ~Fetched(names, f) /\ ~Cleared(names, f)
        /\ f \in lost => f \in fallen' \/ Fetched(names, f) \/ Cleared(names, f)
    BY StartWrites
  <2> QED
    BY <2>1, <2>2
<1> HIDE DEF Request
<1>7. CASE Fetched(names, f)
  <2>1. PICK o \in names : f \in It.ops[o].writes
    BY <1>7 DEF Fetched
  <2>2. \A r \in flights' : f \in It.ops[r.op].writes => r = Request(o)
    <3> SUFFICES ASSUME NEW r \in flights', f \in It.ops[r.op].writes
                 PROVE  r = Request(o)
      OBVIOUS
    <3>1. r \notin others
      BY <1>6, <1>7 DEF WrittenBy, OpOf
    <3>2. PICK q \in names : r = Request(q)
      BY <1>3, <3>1
    <3>3. q = o
      BY <1>4, <2>1, <3>2
    <3> QED
      BY <3>2, <3>3
  <2>3. Request(o) \in flights' /\ f \in It.ops[Request(o).op].writes
    BY <1>3, <1>4, <2>1
  <2>4. newest'[f].key = k /\ newest'[f].n = asks + 1
    BY <1>6, <1>7
  <2>5. shown'[f].n < asks + 1
    BY <1>1, <1>5, <1>6 DEF Stamps, Blank
  <2> QED
    BY <1>4, <1>6, <1>7, <2>2, <2>3, <2>4, <2>5
<1>8. CASE ~Fetched(names, f)
  <2>1. \A r \in flights' : f \in It.ops[r.op].writes => r \in others
    BY <1>3, <1>4, <1>8 DEF Fetched
  <2>2. CASE Cleared(names, f)
    BY <1>6, <1>8, <2>1, <2>2 DEF WrittenBy, OpOf
  <2>3. CASE ~Cleared(names, f)
    <3>1. f \notin crossing /\ shown'[f] = shows[f] /\ newest'[f] = newest[f] /\ (f \in fallen' <=> f \in lost)
      BY <1>6, <1>8, <2>3
    <3>2. others \subseteq flights'
      BY <1>3
    <3> QED
      BY <2>1, <3>1, <3>2 DEF Carried, WrittenBy, OpOf
  <2> QED
    BY <2>2, <2>3
<1> QED
  BY <1>7, <1>8

\* A flag that is set when they start is reset by one of them, or by what is still under way.
LEMMA StartSpins ==
  ASSUME PanelTypes, UNCHANGED panel, NEW names, NEW k, NEW hold,
         NEW others, NEW shows, NEW flags, NEW fails, NEW lost,
         StartAll(names, k, hold, others, shows, flags, fails, lost),
         hold # "none" => names # {} /\ \A o \in names : It.ops[o].hold = "none",
         \A flag \in flags : \/ \E r \in others : flag \in {OpOf(r).flag, r.hold}
                             \/ flag = hold \/ \E o \in names : It.ops[o].flag = flag
  PROVE  SpinsFor(busy, flights)'
<1>1. It' = It
  BY ItStays
<1>2. SUFFICES ASSUME NEW flag \in busy'
      PROVE  flag # "none" /\ \E r \in flights' : flag \in {It.ops[r.op].flag, r.hold}
  BY <1>1 DEF SpinsFor, OpOf
<1> DEFINE Request(o) == [op |-> o, key |-> k, n |-> asks + 1, hold |-> IF hold # "none" THEN hold ELSE It.ops[o].hold]
<1>3. flights' = others \cup {Request(o) : o \in names}
  BY DEF StartAll
<1>4. \A o \in names : /\ Request(o) \in flights' /\ Request(o).op = o
                       /\ Request(o).hold = IF hold # "none" THEN hold ELSE It.ops[o].hold
  BY <1>3
<1>5. flag # "none" /\ (flag \in flags \/ flag \in Spinning({It.ops[o] : o \in names}))
  BY DEF StartAll
<1> HIDE DEF Request
<1>6. CASE flag \in flags
  <2>1. CASE \E r \in others : flag \in {OpOf(r).flag, r.hold}
    BY <1>3, <1>5, <2>1 DEF OpOf
  <2>2. CASE flag = hold
    BY <1>4, <1>5, <2>2
  <2>3. CASE \E o \in names : It.ops[o].flag = flag
    BY <1>4, <1>5, <2>3
  <2> QED
    BY <1>6, <2>1, <2>2, <2>3
<1>7. CASE flag \in Spinning({It.ops[o] : o \in names})
  <2>1. PICK o \in names : flag = It.ops[o].flag \/ flag = It.ops[o].hold
    BY <1>7 DEF Spinning
  <2>2. flag = It.ops[o].hold => hold = "none"
    BY <1>5
  <2> QED
    BY <1>4, <1>5, <2>1, <2>2
<1> QED
  BY <1>5, <1>6, <1>7

\* What starts about an earlier value of the prop counts as overlapping; the effects start what
\* follows the prop when it changes.
LEMMA StartFollows ==
  ASSUME PanelTypes, UNCHANGED panel, NEW names, NEW k, NEW hold,
         NEW others, NEW shows, NEW flags, NEW fails, NEW lost,
         StartAll(names, k, hold, others, shows, flags, fails, lost), names \subseteq DOMAIN It.ops,
         key' = key \/ {o \in DOMAIN It.ops : It.ops[o].effect} \subseteq names,
         Follows(newest, crossing)
  PROVE  Follows(newest, crossing)'
<1>1. It' = It
  BY ItStays
<1>2. SUFFICES ASSUME key' \in Subjects, NEW f \in FieldsOf(It), f \notin crossing', Following(f) # {}
      PROVE  newest'[f] = Blank \/ newest'[f].key = key'
  BY <1>1 DEF Follows, Following
<1>3. f \in DOMAIN shown
  BY DEF PanelTypes, StampsTyped
<1>4. PICK e \in DOMAIN It.ops : It.ops[e].effect /\ f \in It.ops[e].writes
  BY <1>2, FollowingIs
<1>5. \A o \in names : f \in It.ops[o].writes => It.ops[o].followed
  BY <1>4, ItHasFacts DEF PanelFacts, FollowersTell
<1>6. CASE Fetched(names, f)
  <2>1. PICK o \in names : f \in It.ops[o].writes
    BY <1>6 DEF Fetched
  <2>2. It.ops[o].followed /\ ~(k # key' /\ \E q \in names : It.ops[q].followed /\ f \in It.ops[q].writes)
    BY <1>2, <1>3, <1>5, <1>6, <2>1, StartWrites
  <2>3. k = key'
    BY <2>1, <2>2
  <2>4. newest'[f] = [key |-> k, n |-> asks + 1]
    BY <1>3, <1>6, StartWrites
  <2> QED
    BY <2>3, <2>4
<1>7. CASE ~Fetched(names, f) /\ Cleared(names, f)
  BY <1>3, <1>7, StartWrites
<1>8. CASE ~Fetched(names, f) /\ ~Cleared(names, f)
  <2>1. f \notin crossing /\ newest'[f] = newest[f]
    BY <1>2, <1>3, <1>8, StartWrites
  <2>2. key' = key
    BY <1>4, <1>8 DEF Fetched
  <2> QED
    BY <1>2, <2>1, <2>2 DEF Follows
<1> QED
  BY <1>6, <1>7, <1>8

\* What clears the error when it starts fetches the field again, or is another operation.
LEMMA StartTells ==
  ASSUME PanelTypes, UNCHANGED panel, NEW names, NEW k, NEW hold,
         NEW others, NEW shows, NEW flags, NEW fails \in BOOLEAN, NEW lost,
         StartAll(names, k, hold, others, shows, flags, fails, lost), names \subseteq DOMAIN It.ops,
         FieldSets(crossing, lost), Told(fails, lost, crossing)
  PROVE  Told(error, fallen, crossing)' /\ error' \in BOOLEAN
<1>1. It' = It
  BY ItStays
<1>2. error' = (fails /\ \A op \in {It.ops[o] : o \in names} : ~op.forgives)
  BY DEF StartAll
<1>3. SUFFICES ASSUME NEW f \in FieldsOf(It), f \notin crossing', Following(f) # {}, f \in fallen'
      PROVE  error' \/ \E op \in Ops(It) \ Following(f) : op.forgives
  BY <1>1, <1>2 DEF Told, Following
<1>4. f \in DOMAIN shown
  BY DEF PanelTypes, StampsTyped
<1>5. f \in lost /\ ~Fetched(names, f) /\ ~Cleared(names, f)
  BY <1>3, StartWrites
<1>6. f \notin crossing
  BY <1>3, <1>4, <1>5, StartWrites
<1>7. fails \/ \E op \in Ops(It) \ Following(f) : op.forgives
  BY <1>3, <1>5, <1>6 DEF Told
<1>8. \A o \in names : It.ops[o] \in Ops(It) \ Following(f)
  BY <1>5 DEF Fetched, Following, Ops
<1> QED
  BY <1>2, <1>7, <1>8

\* What waits for its flag starts when none is under way, and sets it.
LEMMA StartAwaits ==
  ASSUME PanelTypes, UNCHANGED panel, NEW names, NEW k, NEW hold,
         NEW others, NEW shows, NEW flags, NEW fails, NEW lost,
         StartAll(names, k, hold, others, shows, flags, fails, lost), names \subseteq DOMAIN It.ops,
         \A f \in FieldsOf(It) : Waiting(f) /\ Fetched(names, f) => ~WrittenBy(f, others),
         \A o \in names : It.ops[o].followed => k = key',
         FlightsTyped(others, asks), Awaited(flags, others, crossing)
  PROVE  Awaited(busy, flights, crossing)'
<1>1. It' = It
  BY ItStays
<1>2. SUFFICES ASSUME NEW f \in FieldsOf(It), Waiting(f)
      PROVE  f \notin crossing' /\ \A r \in flights' : f \in It.ops[r.op].writes => It.ops[r.op].flag \in busy'
  BY <1>1 DEF Awaited, Waiting, OpOf
<1>3. PICK flag \in {o.flag : o \in Ops(It)} : OwnFlag(It, f, flag)
  BY <1>2, WaitingHasFlag
<1>4. f \in DOMAIN shown
  BY DEF PanelTypes, StampsTyped
<1>5. Cleared(names, f) => Fetched(names, f)
  BY <1>3 DEF Cleared, Fetched, OwnFlag
<1>6. f \notin crossing /\ \A r \in others : f \in It.ops[r.op].writes => It.ops[r.op].flag \in flags
  BY <1>2 DEF Awaited, OpOf
<1>7. f \notin crossing'
  BY <1>2, <1>4, <1>5, <1>6, StartWrites
<1>8. busy' = (flags \cup Spinning({It.ops[o] : o \in names})) \ {"none"}
  BY DEF StartAll
<1>9. \A r \in flights' : r \in others \/ r.op \in names
  BY DEF StartAll
<1>10. ASSUME NEW r \in flights', f \in It.ops[r.op].writes, r \in others
       PROVE  It.ops[r.op].flag \in busy'
  <2>1. It.ops[r.op].flag \in flags
    BY <1>6, <1>10
  <2>2. r.op \in DOMAIN It.ops
    BY <1>10 DEF FlightsTyped
  <2>3. It.ops[r.op].flag # "none"
    BY <1>3, <1>10, <2>2 DEF OwnFlag
  <2> QED
    BY <1>8, <2>1, <2>3
<1>11. ASSUME NEW o \in names, f \in It.ops[o].writes
       PROVE  It.ops[o].flag \in busy'
  <2>1. It.ops[o].flag = flag /\ flag # "none" /\ It.ops[o].spins
    BY <1>3, <1>11 DEF OwnFlag
  <2>2. It.ops[o].flag \in Spinning({It.ops[q] : q \in names})
    BY <2>1 DEF Spinning
  <2> QED
    BY <1>8, <2>1, <2>2
<1> QED
  BY <1>7, <1>9, <1>10, <1>11

-----------------------------------------------------------------------------
(* WebPanels: answers                                                       *)

\* What an answer, or a failure, leaves before what follows it starts.
LandShows(r, ok) ==
    [f \in DOMAIN shown |-> IF f \in OpOf(r).writes /\ (ok \/ OpOf(r).marks) THEN [key |-> r.key, n |-> r.n]
                            ELSE IF f \in OpOf(r).voids /\ ~ok THEN Blank ELSE shown[f]]
LandFails(r, ok) == IF ok THEN error /\ ~OpOf(r).heals ELSE error \/ OpOf(r).tells
NewestOnes(r) == {f \in OpOf(r).writes : newest[f] = [key |-> r.key, n |-> r.n]}
LandLost(r, ok) == IF ok \/ OpOf(r).marks THEN fallen \ NewestOnes(r) ELSE fallen \cup NewestOnes(r)

LEMMA LandIs ==
  ASSUME NEW r, NEW ok, Land(r, ok)
  PROVE  /\ ok \/ failures < MaxFailures
         /\ UNCHANGED <<panel, key>> /\ failures' = IF ok THEN failures ELSE failures + 1
         /\ \/ /\ flights' = flights \ {r} /\ shown' = LandShows(r, ok) /\ error' = LandFails(r, ok)
               /\ fallen' = LandLost(r, ok) /\ busy' = busy \ {OpOf(r).flag, r.hold}
               /\ UNCHANGED <<newest, crossing, asks>>
            \/ \E next \in OpOf(r).next \ {"none"} :
                  StartAll({next}, r.key, r.hold, flights \ {r}, LandShows(r, ok), busy \ {OpOf(r).flag},
                           LandFails(r, ok), LandLost(r, ok))
  BY DEF Land, LandShows, LandFails, LandLost, NewestOnes

LEMMA RequestTypes ==
  ASSUME PanelTypes, NEW r \in flights
  PROVE  /\ r.op \in DOMAIN It.ops /\ r.key \in PanelKeys /\ r.n \in 1 .. asks /\ r.hold \in Holds
         /\ OpOf(r) \in Ops(It)
<1>1. r \in [op : DOMAIN It.ops, key : PanelKeys, n : 1 .. asks, hold : Holds]
  BY DEF PanelTypes, FlightsTyped
<1>2. r.op \in DOMAIN It.ops /\ r.key \in PanelKeys /\ r.n \in 1 .. asks /\ r.hold \in Holds
  BY <1>1
<1> QED
  BY <1>2 DEF OpOf, Ops

LEMMA LandTypes ==
  ASSUME PanelTypes, FieldSets(crossing, fallen), NEW r \in flights, NEW ok \in BOOLEAN
  PROVE  /\ FlightsTyped(flights \ {r}, asks) /\ StampsTyped(LandShows(r, ok), asks)
         /\ LandFails(r, ok) \in BOOLEAN /\ FieldSets(crossing, LandLost(r, ok))
<1>1. /\ r.key \in PanelKeys /\ r.n \in 1 .. asks /\ OpOf(r) \in Ops(It) /\ asks \in Nat
      /\ shown \in [FieldsOf(It) -> Stamps(asks)] /\ error \in BOOLEAN
  BY RequestTypes DEF PanelTypes, StampsTyped
<1>2. [key |-> r.key, n |-> r.n] \in Stamps(asks) /\ Blank \in Stamps(asks)
  <2>1. 0 \in 0 .. asks /\ r.n \in 0 .. asks
    BY <1>1
  <2> QED
    BY <1>1, <2>1 DEF Stamps, Blank
<1>3. StampsTyped(LandShows(r, ok), asks)
  BY <1>1, <1>2 DEF StampsTyped, LandShows
<1>4. FlightsTyped(flights \ {r}, asks)
  BY DEF PanelTypes, FlightsTyped
<1>5. LandFails(r, ok) \in BOOLEAN
  BY <1>1 DEF LandFails
<1>6. NewestOnes(r) \subseteq UNION {op.writes : op \in Ops(It)}
  BY <1>1 DEF NewestOnes
<1> QED
  BY <1>3, <1>4, <1>5, <1>6 DEF FieldSets, LandLost

\* The answer of the newest request is what is shown of its fields.
LEMMA LandCarries ==
  ASSUME PanelTypes, Carried(shown, newest, crossing, flights, fallen), NEW r \in flights, NEW ok \in BOOLEAN
  PROVE  Carried(LandShows(r, ok), newest, crossing, flights \ {r}, LandLost(r, ok))
<1>1. SUFFICES ASSUME NEW f \in FieldsOf(It) \ crossing
      PROVE  /\ \A q \in flights \ {r} : f \in OpOf(q).writes =>
                  /\ q.key = newest[f].key /\ q.n = newest[f].n /\ f \notin LandLost(r, ok)
                  /\ LandShows(r, ok)[f].n < newest[f].n
                  /\ \A s \in flights \ {r} : f \in OpOf(s).writes => s = q
             /\ ~WrittenBy(f, flights \ {r}) =>
                   IF f \in LandLost(r, ok) THEN LandShows(r, ok)[f].n < newest[f].n
                   ELSE LandShows(r, ok)[f] = newest[f]
  BY DEF Carried
<1>2. /\ f \in DOMAIN shown /\ shown[f] \in Stamps(asks) /\ newest[f] \in Stamps(asks)
      /\ r.n \in 1 .. asks /\ asks \in Nat /\ r.op \in DOMAIN It.ops
  BY RequestTypes DEF PanelTypes, StampsTyped
<1>3. /\ \A q \in flights : f \in OpOf(q).writes =>
            /\ q.key = newest[f].key /\ q.n = newest[f].n /\ f \notin fallen /\ shown[f].n < newest[f].n
            /\ \A s \in flights : f \in OpOf(s).writes => s = q
      /\ ~WrittenBy(f, flights) => IF f \in fallen THEN shown[f].n < newest[f].n ELSE shown[f] = newest[f]
  BY <1>1 DEF Carried
<1>4. LandShows(r, ok)[f] = IF f \in OpOf(r).writes /\ (ok \/ OpOf(r).marks) THEN [key |-> r.key, n |-> r.n]
                            ELSE IF f \in OpOf(r).voids /\ ~ok THEN Blank ELSE shown[f]
  BY <1>2 DEF LandShows
<1>5. CASE f \in OpOf(r).writes
  <2>1. r.key = newest[f].key /\ r.n = newest[f].n /\ f \notin fallen /\ shown[f].n < newest[f].n
    BY <1>3, <1>5
  <2>2. newest[f] = [key |-> r.key, n |-> r.n]
    BY <1>2, <2>1 DEF Stamps
  <2>3. f \in NewestOnes(r)
    BY <1>5, <2>2 DEF NewestOnes
  <2>4. \A q \in flights \ {r} : f \notin OpOf(q).writes
    BY <1>3, <1>5
  <2>5. CASE ok \/ OpOf(r).marks
    <3>1. LandShows(r, ok)[f] = newest[f] /\ f \notin LandLost(r, ok)
      BY <1>4, <1>5, <2>2, <2>3, <2>5 DEF LandLost
    <3> QED
      BY <2>4, <3>1
  <2>6. CASE ~(ok \/ OpOf(r).marks)
    <3>1. f \in LandLost(r, ok)
      BY <2>3, <2>6 DEF LandLost
    <3>2. LandShows(r, ok)[f].n < newest[f].n
      BY <1>2, <1>4, <2>1, <2>6 DEF Blank
    <3> QED
      BY <2>4, <3>1, <3>2
  <2> QED
    BY <2>5, <2>6
<1>6. CASE f \notin OpOf(r).writes
  <2>1. f \notin OpOf(r).voids
    BY <1>2, <1>6, ItHasFacts DEF PanelFacts, VoidsWritten, OpOf
  <2>2. LandShows(r, ok)[f] = shown[f] /\ (f \in LandLost(r, ok) <=> f \in fallen)
    BY <1>4, <1>6, <2>1 DEF LandLost, NewestOnes
  <2>3. WrittenBy(f, flights \ {r}) <=> WrittenBy(f, flights)
    BY <1>6 DEF WrittenBy
  <2> QED
    BY <1>3, <2>2, <2>3
<1> QED
  BY <1>5, <1>6

\* A failure of what follows the prop is told; a success clears the error of what it shows.
LEMMA LandTells ==
  ASSUME PanelTypes, Carried(shown, newest, crossing, flights, fallen), Told(error, fallen, crossing),
         NEW r \in flights, NEW ok \in BOOLEAN
  PROVE  Told(LandFails(r, ok), LandLost(r, ok), crossing)
<1>1. SUFFICES ASSUME NEW f \in FieldsOf(It) \ crossing, Following(f) # {}, f \in LandLost(r, ok)
      PROVE  LandFails(r, ok) \/ \E op \in Ops(It) \ Following(f) : op.forgives
  BY DEF Told
<1>2. PICK e \in DOMAIN It.ops : It.ops[e].effect /\ f \in It.ops[e].writes
  BY <1>1, FollowingIs
<1>3. r.op \in DOMAIN It.ops /\ OpOf(r) = It.ops[r.op]
  BY RequestTypes DEF OpOf
<1>4. CASE f \in fallen
  <2>1. f \notin OpOf(r).writes
    BY <1>1, <1>4 DEF Carried
  <2>2. ~OpOf(r).heals
    BY <1>2, <1>3, <2>1, ItHasFacts DEF PanelFacts, HealersWrite
  <2>3. error \/ \E op \in Ops(It) \ Following(f) : op.forgives
    BY <1>1, <1>4 DEF Told
  <2> QED
    BY <2>2, <2>3 DEF LandFails
<1>5. CASE f \notin fallen
  <2>1. ~ok /\ ~OpOf(r).marks /\ f \in OpOf(r).writes
    BY <1>1, <1>5 DEF LandLost, NewestOnes
  <2>2. OpOf(r).tells
    BY <1>2, <1>3, <2>1, ItHasFacts DEF PanelFacts, FollowersTell
  <2> QED
    BY <2>1, <2>2 DEF LandFails
<1> QED
  BY <1>4, <1>5

-----------------------------------------------------------------------------
(* WebPanels: every step keeps the invariant                                *)

LEMMA PanelStarts == PanelInit => PanelInv
<1> SUFFICES ASSUME PanelInit PROVE PanelInv
  OBVIOUS
<1>1. Blank \in Stamps(0) /\ asks = 0 /\ flights = {} /\ crossing = {} /\ fallen = {} /\ key = "unmounted"
  <2>1. 0 \in 0 .. 0
    OBVIOUS
  <2> QED
    BY <2>1 DEF PanelInit, Stamps, Blank
<1>2. shown = [f \in FieldsOf(It) |-> Blank] /\ newest = shown /\ busy = It.starts
  BY DEF PanelInit
<1>3. PanelTypes
  <2>1. failures = 0 /\ 0 \in 0 .. MaxFailures
    BY PanelAssumption DEF PanelInit
  <2>2. StampsTyped(shown, asks) /\ StampsTyped(newest, asks) /\ FlightsTyped(flights, asks)
    BY <1>1, <1>2 DEF FlightsTyped, StampsTyped
  <2>3. panel \in {p.name : p \in Panels} /\ error = FALSE
    BY DEF PanelInit
  <2> QED
    BY <1>1, <2>1, <2>2, <2>3 DEF PanelTypes
<1>4. Carried(shown, newest, crossing, flights, fallen)
  BY <1>1, <1>2 DEF Carried
<1> QED
  BY <1>1, <1>2, <1>3, <1>4, PanelAssumption DEF PanelInv, FieldSets, SpinInv, Follows, Told, Awaited, KeylessRests

\* A request of a panel whose requests are followed by others waits for nothing.
LEMMA FollowedDoNotWait ==
  ASSUME PanelTypes, NEW o \in DOMAIN It.ops, It.ops[o].next # {"none"}
  PROVE  \A f \in FieldsOf(It) : ~Waiting(f)
  BY WaitingHasFlag DEF OwnFlag

LEMMA AskKeeps ==
  ASSUME PanelInv, NEW k \in PanelKeys, NEW o \in DOMAIN It.ops, Ask(o, k)
  PROVE  PanelInv'
<1> DEFINE Asking == StartAll({o}, k, "none", flights, shown, busy, error, fallen)
<1>1. /\ Ready(o, k) /\ UNCHANGED <<panel, key, failures>> /\ Asking /\ key # "unmounted"
      /\ It.ops[o].followed => k = key'
  BY DEF Ask, Ready
<1>2. PanelTypes /\ FieldSets(crossing, fallen) /\ "none" \in Holds /\ error \in BOOLEAN
  BY DEF PanelInv, PanelTypes, Holds
<1>3. It' = It
  BY <1>1, ItStays
<1> HIDE DEF Asking
<1>4. /\ asks' \in Nat /\ FieldSets(crossing, fallen)'
      /\ FlightsTyped(flights, asks)' /\ StampsTyped(shown, asks)' /\ StampsTyped(newest, asks)'
  BY <1>1, <1>2, StartTypes DEF PanelTypes, Asking
<1>5. Carried(shown, newest, crossing, flights, fallen)'
  BY <1>1, <1>2, StartCarries DEF PanelTypes, PanelInv, Asking
<1>6. SpinsFor(busy, flights)'
  <2>1. \A flag \in busy : \E r \in flights : flag \in {OpOf(r).flag, r.hold}
    BY <1>1 DEF PanelInv, SpinInv, SpinsFor
  <2> QED
    BY <1>1, <1>2, <2>1, StartSpins DEF Asking
<1>7. Follows(newest, crossing)'
  BY <1>1, <1>2, StartFollows DEF PanelInv, Asking
<1>8. Told(error, fallen, crossing)' /\ error' \in BOOLEAN
  BY <1>1, <1>2, StartTells DEF PanelInv, Asking
<1>9. Awaited(busy, flights, crossing)'
  <2>1. ASSUME NEW f \in FieldsOf(It), Waiting(f), f \in It.ops[o].writes
        PROVE  ~WrittenBy(f, flights)
    <3>1. PICK flag \in {q.flag : q \in Ops(It)} : OwnFlag(It, f, flag)
      BY <1>2, <2>1, WaitingHasFlag
    <3>2. It.ops[o].flag = flag /\ It.ops[o].again \in {"enabled", "never"}
      BY <2>1, <3>1 DEF OwnFlag
    <3>3. flag \notin busy
      BY <1>1, <3>2 DEF Ready, Offered
    <3>4. ASSUME NEW r \in flights, f \in OpOf(r).writes PROVE FALSE
      <4>1. OpOf(r).flag = flag
        BY <1>2, <3>1, <3>4, RequestTypes DEF OwnFlag, OpOf
      <4>2. OpOf(r).flag \in busy
        BY <2>1, <3>4 DEF PanelInv, Awaited
      <4> QED
        BY <3>3, <4>1, <4>2
    <3> QED
      BY <3>4 DEF WrittenBy
  <2>2. \A f \in FieldsOf(It) : Waiting(f) /\ Fetched({o}, f) => ~WrittenBy(f, flights)
    BY <2>1 DEF Fetched
  <2>3. \A q \in {o} : It.ops[q].followed => k = key'
    BY <1>1
  <2> QED
    BY <1>1, <1>2, <2>2, <2>3, StartAwaits DEF PanelInv, PanelTypes, Asking
<1>10. PanelTypes' /\ KeylessRests' /\ SpinInv'
  BY <1>1, <1>3, <1>4, <1>6, <1>8 DEF PanelInv, PanelTypes, PanelKeys, KeylessRests, SpinInv
<1> QED
  BY <1>4, <1>5, <1>7, <1>8, <1>9, <1>10 DEF PanelInv

\* The effects of a mounted panel, or of one whose prop has changed.
LEMMA EffectsKeep ==
  ASSUME PanelInv, NEW k \in PanelKeys, key' = k, key # k, UNCHANGED <<panel, failures>>, It.keyless => k = Absent,
         StartAll({o \in DOMAIN It.ops : It.ops[o].effect}, k, "none", flights, shown, busy, error, fallen)
  PROVE  PanelInv'
<1> DEFINE effects == {o \in DOMAIN It.ops : It.ops[o].effect}
           Asking == StartAll(effects, k, "none", flights, shown, busy, error, fallen)
<1>1. Asking /\ k # "unmounted" /\ effects \subseteq DOMAIN It.ops
  BY PanelAssumption DEF PanelKeys
<1>2. PanelTypes /\ FieldSets(crossing, fallen) /\ "none" \in Holds /\ error \in BOOLEAN
  BY DEF PanelInv, PanelTypes, Holds
<1>3. It' = It /\ UNCHANGED panel
  BY ItStays
<1>4. \A o, q \in effects : o # q => It.ops[o].writes \cap It.ops[q].writes = {}
  BY <1>2, ItHasFacts DEF PanelFacts, EffectsApart
<1>5. \A flag \in busy : \/ \E r \in flights : flag \in {OpOf(r).flag, r.hold}
                         \/ flag = "none" \/ \E o \in effects : It.ops[o].flag = flag
  <2>1. CASE key = "unmounted"
    <3>1. busy = It.starts
      BY <2>1 DEF PanelInv, SpinInv
    <3> QED
      BY <1>2, <3>1, ItHasFacts DEF PanelFacts, StartsEnd
  <2>2. CASE key # "unmounted"
    BY <2>2 DEF PanelInv, SpinInv, SpinsFor
  <2> QED
    BY <2>1, <2>2
<1>6. \A f \in FieldsOf(It) : Waiting(f) /\ Fetched(effects, f) => ~WrittenBy(f, flights)
  <2> SUFFICES ASSUME NEW f \in FieldsOf(It), Waiting(f), Fetched(effects, f)
               PROVE  ~WrittenBy(f, flights)
    OBVIOUS
  <2>1. PICK o \in effects : f \in It.ops[o].writes
    BY DEF Fetched
  <2>2. It.keyless
    BY <1>2, <2>1, WaitingHasFlag DEF OwnFlag
  <2>3. key = "unmounted"
    BY <2>2 DEF PanelInv, KeylessRests
  <2>4. flights = {}
    BY <2>3 DEF PanelInv, SpinInv
  <2> QED
    BY <2>4 DEF WrittenBy
<1> HIDE DEF effects, Asking
<1>7. /\ asks' \in Nat /\ FieldSets(crossing, fallen)'
      /\ FlightsTyped(flights, asks)' /\ StampsTyped(shown, asks)' /\ StampsTyped(newest, asks)'
  BY <1>1, <1>2, <1>3, StartTypes DEF PanelTypes, Asking
<1>8. Carried(shown, newest, crossing, flights, fallen)'
  BY <1>1, <1>2, <1>3, <1>4, StartCarries DEF PanelTypes, PanelInv, Asking
<1>9. SpinsFor(busy, flights)'
  BY <1>1, <1>2, <1>3, <1>5, StartSpins DEF Asking
<1>10. Follows(newest, crossing)'
  BY <1>1, <1>2, <1>3, StartFollows DEF PanelInv, Asking, effects
<1>11. Told(error, fallen, crossing)' /\ error' \in BOOLEAN
  BY <1>1, <1>2, <1>3, StartTells DEF PanelInv, Asking
<1>12. Awaited(busy, flights, crossing)'
  BY <1>1, <1>2, <1>3, <1>6, StartAwaits DEF PanelInv, PanelTypes, Asking
<1>13. PanelTypes' /\ KeylessRests' /\ SpinInv'
  BY <1>1, <1>2, <1>3, <1>7, <1>9, <1>11 DEF PanelTypes, PanelKeys, KeylessRests, SpinInv
<1> QED
  BY <1>7, <1>8, <1>10, <1>11, <1>12, <1>13 DEF PanelInv

\* Types of what only counts one more.
LEMMA CountedTypes ==
  ASSUME PanelTypes, It' = It, asks' = asks + 1, UNCHANGED <<panel, flights, failures>>,
         StampsTyped(shown', asks'), StampsTyped(newest', asks'),
         key' \in PanelKeys \cup {"unmounted"}, error' \in BOOLEAN
  PROVE  PanelTypes'
<1>1. asks \in Nat /\ asks' \in Nat /\ Holds' = Holds
  BY DEF PanelTypes, Holds
<1>2. flights \subseteq [op : DOMAIN It.ops, key : PanelKeys, n : 1 .. asks + 1, hold : Holds]
  BY <1>1 DEF PanelTypes, FlightsTyped
<1>3. FlightsTyped(flights, asks)'
  BY <1>1, <1>2 DEF FlightsTyped, PanelKeys
<1>4. StampsTyped(shown, asks)' /\ StampsTyped(newest, asks)'
  BY DEF StampsTyped, Stamps, PanelKeys
<1> QED
  BY <1>1, <1>3, <1>4 DEF PanelTypes, PanelKeys

LEMMA StampsGrow ==
  ASSUME PanelTypes
  PROVE  /\ Stamps(asks) \subseteq Stamps(asks + 1) /\ Blank \in Stamps(asks + 1)
         /\ \A k \in PanelKeys : [key |-> k, n |-> asks + 1] \in Stamps(asks + 1)
<1>1. 0 \in 0 .. asks + 1 /\ asks + 1 \in 0 .. asks + 1 /\ 0 .. asks \subseteq 0 .. asks + 1
  BY DEF PanelTypes
<1> QED
  BY <1>1 DEF Stamps, Blank

\* A form that is given another policy copies it.
LEMMA CopyKeeps ==
  ASSUME PanelInv, NEW k \in PanelKeys, key' = k, UNCHANGED <<panel, failures, busy, error, flights, crossing, fallen>>,
         It.copies # {}, It.keyless => k = Absent, asks' = asks + 1,
         shown' = [f \in DOMAIN shown |-> IF f \in It.copies THEN [key |-> k, n |-> asks + 1] ELSE shown[f]],
         newest' = [f \in DOMAIN shown |-> IF f \in It.copies THEN [key |-> k, n |-> asks + 1] ELSE newest[f]]
  PROVE  PanelInv'
<1>1. It' = It /\ PanelTypes /\ FieldSets(crossing, fallen) /\ k # "unmounted"
  BY ItStays, PanelAssumption DEF PanelInv, PanelKeys
<1>2. \A o \in DOMAIN It.ops : ~It.ops[o].effect /\ It.ops[o].writes \cap It.copies = {}
  BY <1>1, ItHasFacts DEF PanelFacts, CopiesApart
<1>3. \A f : Following(f) = {}
  BY <1>2, FollowingIs
<1>4. shown \in [FieldsOf(It) -> Stamps(asks)] /\ newest \in [FieldsOf(It) -> Stamps(asks)]
  BY <1>1 DEF PanelTypes, StampsTyped
<1>5. StampsTyped(shown', asks') /\ StampsTyped(newest', asks')
  BY <1>1, <1>4, StampsGrow DEF StampsTyped
<1>6. PanelTypes'
  BY <1>1, <1>5, CountedTypes DEF PanelTypes
<1>7. Carried(shown, newest, crossing, flights, fallen)'
  <2>1. \A f \in It.copies : f \notin fallen /\ \A r \in flights : f \notin OpOf(r).writes
    BY <1>1, <1>2, RequestTypes DEF FieldSets, Ops
  <2>2. SUFFICES ASSUME NEW f \in FieldsOf(It) \ crossing
        PROVE  /\ \A r \in flights : f \in OpOf(r).writes =>
                    /\ r.key = newest'[f].key /\ r.n = newest'[f].n /\ f \notin fallen /\ shown'[f].n < newest'[f].n
                    /\ \A s \in flights : f \in OpOf(s).writes => s = r
               /\ ~WrittenBy(f, flights) => IF f \in fallen THEN shown'[f].n < newest'[f].n ELSE shown'[f] = newest'[f]
    BY <1>1 DEF Carried, WrittenBy, OpOf
  <2>3. CASE f \in It.copies
    <3>1. shown'[f] = newest'[f]
      BY <1>4, <2>3
    <3> QED
      BY <2>1, <2>3, <3>1
  <2>4. CASE f \notin It.copies
    <3>1. shown'[f] = shown[f] /\ newest'[f] = newest[f]
      BY <1>4, <2>4
    <3> QED
      BY <2>2, <3>1 DEF PanelInv, Carried
  <2> QED
    BY <2>3, <2>4
<1>8. SpinInv'
  <2>1. It.starts = {}
    BY <1>1, ItHasFacts DEF PanelFacts, StartsEnd
  <2>2. SpinsFor(busy, flights)
    BY <2>1 DEF PanelInv, SpinInv, SpinsFor
  <2> QED
    BY <1>1, <2>2 DEF SpinInv, SpinsFor, OpOf
<1>9. Follows(newest, crossing)' /\ Told(error, fallen, crossing)' /\ FieldSets(crossing, fallen)'
  BY <1>1, <1>3 DEF Follows, Told, Following, FieldSets
<1>10. Awaited(busy, flights, crossing)' /\ KeylessRests'
  BY <1>1 DEF PanelInv, Awaited, Waiting, OpOf, KeylessRests
<1> QED
  BY <1>6, <1>7, <1>8, <1>9, <1>10 DEF PanelInv

\* Fields that are cleared while their requests are under way count as overlapping.
LEMMA ClearedCarries ==
  ASSUME PanelInv, It' = It, NEW clears, UNCHANGED flights,
         \A f \in FieldsOf(It) : /\ shown'[f] = IF f \in clears THEN Blank ELSE shown[f]
                                 /\ newest'[f] = IF f \in clears THEN Blank ELSE newest[f]
                                 /\ f \in crossing' <=> IF f \in clears THEN WrittenBy(f, flights) ELSE f \in crossing
                                 /\ f \in fallen' <=> f \in fallen /\ f \notin clears
  PROVE  /\ Carried(shown, newest, crossing, flights, fallen)'
         /\ key' = key => Follows(newest, crossing)'
<1>1. Carried(shown, newest, crossing, flights, fallen)'
  <2> SUFFICES ASSUME NEW f \in FieldsOf(It), f \notin crossing'
        PROVE  /\ \A r \in flights : f \in OpOf(r).writes =>
                    /\ r.key = newest'[f].key /\ r.n = newest'[f].n /\ f \notin fallen' /\ shown'[f].n < newest'[f].n
                    /\ \A s \in flights : f \in OpOf(s).writes => s = r
               /\ ~WrittenBy(f, flights) => IF f \in fallen' THEN shown'[f].n < newest'[f].n ELSE shown'[f] = newest'[f]
    BY DEF Carried, WrittenBy, OpOf
  <2>1. CASE f \in clears
    BY <2>1 DEF WrittenBy
  <2>2. CASE f \notin clears
    BY <2>2 DEF PanelInv, Carried
  <2> QED
    BY <2>1, <2>2
<1>2. ASSUME key' = key PROVE Follows(newest, crossing)'
  <2>1. \A f \in FieldsOf(It) : f \notin crossing' /\ f \notin clears => f \notin crossing /\ newest'[f] = newest[f]
    OBVIOUS
  <2>2. \A f \in FieldsOf(It) : f \in clears => newest'[f] = Blank
    OBVIOUS
  <2> QED
    BY <1>2, <2>1, <2>2 DEF PanelInv, Follows, Following, Blank
<1> QED
  BY <1>1, <1>2

\* Without the prop a panel clears what it shows, or the flag, or rests.
LEMMA AbsentKeeps ==
  ASSUME PanelInv, NEW k \in PanelKeys, key' = k, UNCHANGED <<panel, failures, error, flights>>, It.keyless => k = Absent,
         k = Absent, It.absent # "asks", asks' = asks + 1,
         busy' = IF It.absent = "rests" THEN busy ELSE busy \ {"loading"},
         IF It.absent = "clears"
         THEN /\ shown' = [f \in DOMAIN shown |-> Blank] /\ newest' = shown'
              /\ crossing' = {f \in DOMAIN shown : WrittenBy(f, flights)} /\ fallen' = {}
         ELSE UNCHANGED <<shown, newest, crossing, fallen>>
  PROVE  PanelInv'
<1>1. It' = It /\ PanelTypes /\ FieldSets(crossing, fallen) /\ k # "unmounted" /\ k \notin Subjects
  BY ItStays, PanelAssumption DEF PanelInv, PanelKeys
<1>2. shown \in [FieldsOf(It) -> Stamps(asks)] /\ newest \in [FieldsOf(It) -> Stamps(asks)]
  BY <1>1 DEF PanelTypes, StampsTyped
<1>3. StampsTyped(shown', asks') /\ StampsTyped(newest', asks')
  BY <1>1, <1>2, StampsGrow DEF StampsTyped
<1>4. PanelTypes'
  BY <1>1, <1>3, CountedTypes DEF PanelTypes
<1>5. Carried(shown, newest, crossing, flights, fallen)'
  <2>1. CASE It.absent = "clears"
    <3>1. \A f \in FieldsOf(It) : /\ shown'[f] = Blank /\ newest'[f] = Blank /\ f \notin fallen'
                                  /\ f \in crossing' <=> WrittenBy(f, flights)
      BY <1>2, <2>1
    <3> QED
      BY <1>1, <3>1, ClearedCarries
  <2>2. CASE It.absent # "clears"
    BY <1>1, <2>2 DEF PanelInv, Carried, WrittenBy, OpOf
  <2> QED
    BY <2>1, <2>2
<1>6. SpinInv'
  <2>1. CASE key = "unmounted"
    <3>1. busy = It.starts /\ It.starts \subseteq {"loading"} /\ (It.starts # {} => It.absent # "rests")
      BY <1>1, <2>1, ItHasFacts DEF PanelInv, SpinInv, PanelFacts, StartsEnd
    <3>2. busy' = {}
      BY <3>1
    <3> QED
      BY <1>1, <3>2 DEF SpinInv, SpinsFor
  <2>2. CASE key # "unmounted"
    <3>1. SpinsFor(busy, flights) /\ busy' \subseteq busy
      BY <2>2 DEF PanelInv, SpinInv
    <3> QED
      BY <1>1, <3>1 DEF SpinInv, SpinsFor, OpOf
  <2> QED
    BY <2>1, <2>2
<1>7. Follows(newest, crossing)'
  BY <1>1 DEF Follows
<1>8. Told(error, fallen, crossing)' /\ FieldSets(crossing, fallen)'
  BY <1>1, <1>2 DEF PanelInv, Told, Following, FieldSets
<1>9. Awaited(busy, flights, crossing)' /\ KeylessRests'
  <2> SUFFICES ASSUME NEW f \in FieldsOf(It), Waiting(f)
               PROVE  f \notin crossing' /\ \A r \in flights : f \in OpOf(r).writes => OpOf(r).flag \in busy'
    BY <1>1 DEF Awaited, Waiting, OpOf, KeylessRests
  <2>1. It.absent \notin {"clears", "resets"}
    BY <1>1, WaitingHasFlag DEF OwnFlag
  <2>2. It.absent = "rests"
    BY <1>1, <2>1, ItHasFacts DEF PanelFacts, StartsEnd
  <2> QED
    BY <2>2 DEF PanelInv, Awaited
<1> QED
  BY <1>4, <1>5, <1>6, <1>7, <1>8, <1>9 DEF PanelInv

LEMMA RenderKeeps ==
  ASSUME PanelInv, NEW k \in PanelKeys, Render(k)
  PROVE  PanelInv'
<1>1. UNCHANGED <<panel, failures>> /\ key # k /\ key' = k /\ (It.keyless => k = Absent)
  BY DEF Render
<1>2. CASE (k # Absent \/ It.absent = "asks") /\ k \in Subjects /\ It.copies # {}
  BY <1>1, <1>2, CopyKeeps DEF Render
<1>3. CASE (k # Absent \/ It.absent = "asks") /\ ~(k \in Subjects /\ It.copies # {})
  BY <1>1, <1>3, EffectsKeep DEF Render
<1>4. CASE ~(k # Absent \/ It.absent = "asks")
  BY <1>1, <1>4, AbsentKeeps DEF Render
<1> QED
  BY <1>2, <1>3, <1>4

LEMMA RefusedKeeps ==
  ASSUME PanelInv, NEW k \in PanelKeys, NEW o \in DOMAIN It.ops, Refused(o, k)
  PROVE  PanelInv'
<1> DEFINE clears == It.ops[o].empties
<1>1. /\ It' = It /\ PanelTypes /\ FieldSets(crossing, fallen)
      /\ Ready(o, k) /\ error' = TRUE /\ asks' = asks + 1 /\ key # "unmounted"
      /\ UNCHANGED <<panel, key, busy, flights, failures>>
  BY ItStays DEF PanelInv, Refused, Ready
<1>2. shown \in [FieldsOf(It) -> Stamps(asks)] /\ newest \in [FieldsOf(It) -> Stamps(asks)]
  BY <1>1 DEF PanelTypes, StampsTyped
<1>3. /\ shown' = [f \in FieldsOf(It) |-> IF f \in clears THEN Blank ELSE shown[f]]
      /\ newest' = [f \in FieldsOf(It) |-> IF f \in clears THEN Blank ELSE newest[f]]
      /\ crossing' = {f \in FieldsOf(It) : IF f \in clears THEN WrittenBy(f, flights) ELSE f \in crossing}
      /\ fallen' = fallen \ clears
  BY <1>2 DEF Refused
<1> HIDE DEF clears
<1>4. StampsTyped(shown', asks') /\ StampsTyped(newest', asks')
  BY <1>1, <1>2, <1>3, StampsGrow DEF StampsTyped
<1>5. PanelTypes'
  BY <1>1, <1>4, CountedTypes DEF PanelTypes
<1>6. Carried(shown, newest, crossing, flights, fallen)' /\ Follows(newest, crossing)'
  BY <1>1, <1>3, ClearedCarries
<1>7. FieldSets(crossing, fallen)' /\ Told(error, fallen, crossing)' /\ SpinInv' /\ KeylessRests'
  BY <1>1, <1>3 DEF PanelInv, FieldSets, Told, SpinInv, SpinsFor, OpOf, KeylessRests
<1>8. Awaited(busy, flights, crossing)'
  <2> SUFFICES ASSUME NEW f \in FieldsOf(It), Waiting(f)
               PROVE  f \notin crossing' /\ \A r \in flights : f \in OpOf(r).writes => OpOf(r).flag \in busy
    BY <1>1 DEF Awaited, Waiting, OpOf
  <2>1. f \notin crossing /\ \A r \in flights : f \in OpOf(r).writes => OpOf(r).flag \in busy
    BY DEF PanelInv, Awaited
  <2>2. PICK flag \in {q.flag : q \in Ops(It)} : OwnFlag(It, f, flag)
    BY <1>1, WaitingHasFlag
  <2>3. ASSUME f \in clears PROVE ~WrittenBy(f, flights)
    <3>1. It.ops[o].flag = flag /\ It.ops[o].again \in {"enabled", "never"}
      BY <2>2, <2>3 DEF OwnFlag, clears
    <3>2. flag \notin busy
      BY <1>1, <3>1 DEF Ready, Offered
    <3>3. \A r \in flights : f \in OpOf(r).writes => OpOf(r).flag = flag
      BY <1>1, <2>2, RequestTypes DEF OwnFlag, OpOf
    <3> QED
      BY <2>1, <3>2, <3>3 DEF WrittenBy
  <2> QED
    BY <1>3, <2>1, <2>3
<1> QED
  BY <1>5, <1>6, <1>7, <1>8 DEF PanelInv

LEMMA ClearKeeps ==
  ASSUME PanelInv, Clear
  PROVE  PanelInv'
<1>1. /\ It' = It /\ PanelTypes /\ It = UseCodeExecution
      /\ error' = FALSE /\ asks' = asks + 1 /\ key # "unmounted"
      /\ UNCHANGED <<panel, key, busy, flights, failures>>
  BY ItStays DEF PanelInv, Clear
<1>2. shown \in [FieldsOf(It) -> Stamps(asks)] /\ newest \in [FieldsOf(It) -> Stamps(asks)]
  BY <1>1 DEF PanelTypes, StampsTyped
<1>3. /\ shown' = [f \in FieldsOf(It) |-> Blank] /\ newest' = shown' /\ fallen' = {}
      /\ crossing' = {f \in FieldsOf(It) : WrittenBy(f, flights)}
  BY <1>2 DEF Clear
<1>4. StampsTyped(shown', asks') /\ StampsTyped(newest', asks')
  BY <1>1, <1>3, StampsGrow DEF StampsTyped
<1>5. PanelTypes'
  BY <1>1, <1>4, CountedTypes DEF PanelTypes
<1>6. Carried(shown, newest, crossing, flights, fallen)' /\ Follows(newest, crossing)'
  <2>1. \A f \in FieldsOf(It) : /\ shown'[f] = Blank /\ newest'[f] = Blank /\ f \notin fallen'
                                /\ f \in crossing' <=> WrittenBy(f, flights)
    BY <1>3
  <2> QED
    BY <1>1, <2>1, ClearedCarries
<1>7. FieldSets(crossing, fallen)' /\ Told(error, fallen, crossing)' /\ SpinInv' /\ KeylessRests'
  BY <1>1, <1>3 DEF PanelInv, FieldSets, Told, SpinInv, SpinsFor, OpOf, KeylessRests
<1>8. Awaited(busy, flights, crossing)'
  <2>1. \A f \in FieldsOf(It) : ~Waiting(f)
    <3>1. \A f \in FieldsOf(It) : Hurries(It, f)
      BY <1>1, UseCodeExecutionIs, FieldsAre DEF Hurries, IsPanel, IsOperation
    <3> QED
      BY <3>1 DEF Hurries, Waiting, Ops
  <2> QED
    BY <1>1, <2>1 DEF Awaited, Waiting
<1> QED
  BY <1>5, <1>6, <1>7, <1>8 DEF PanelInv

LEMMA AnswerKeeps ==
  ASSUME PanelInv, NEW r \in flights, NEW ok \in BOOLEAN,
         UNCHANGED <<panel, key, newest, crossing, asks>>, failures' \in 0 .. MaxFailures,
         flights' = flights \ {r}, shown' = LandShows(r, ok), error' = LandFails(r, ok),
         fallen' = LandLost(r, ok), busy' = busy \ {OpOf(r).flag, r.hold}
  PROVE  PanelInv'
<1>1. It' = It /\ PanelTypes /\ FieldSets(crossing, fallen) /\ key # "unmounted"
  BY ItStays DEF PanelInv, SpinInv
<1>2. PanelTypes' /\ FieldSets(crossing, fallen)'
  <2>1. FlightsTyped(flights', asks) /\ StampsTyped(shown', asks) /\ error' \in BOOLEAN /\ FieldSets(crossing, fallen')
    BY <1>1, LandTypes
  <2> QED
    BY <1>1, <2>1 DEF PanelTypes, FlightsTyped, StampsTyped, Stamps, PanelKeys, Holds, FieldSets
<1>3. Carried(shown, newest, crossing, flights, fallen)'
  <2>1. Carried(shown', newest, crossing, flights', fallen')
    BY <1>1, LandCarries DEF PanelInv
  <2> QED
    BY <1>1, <2>1 DEF Carried, WrittenBy, OpOf
<1>4. Told(error, fallen, crossing)'
  <2>1. Told(error', fallen', crossing)
    BY <1>1, LandTells DEF PanelInv
  <2> QED
    BY <1>1, <2>1 DEF Told, Following
<1>5. Follows(newest, crossing)' /\ KeylessRests'
  BY <1>1 DEF PanelInv, Follows, Following, KeylessRests
<1>6. SpinInv'
  <2>1. SpinsFor(busy, flights)
    BY <1>1 DEF PanelInv, SpinInv
  <2>2. "none" \notin busy' /\ \A flag \in busy' : \E q \in flights' : flag \in {OpOf(q).flag, q.hold}
    BY <2>1 DEF SpinsFor
  <2> QED
    BY <1>1, <2>2 DEF SpinInv, SpinsFor, OpOf
<1>7. Awaited(busy, flights, crossing)'
  <2> SUFFICES ASSUME NEW f \in FieldsOf(It), Waiting(f)
               PROVE  f \notin crossing /\ \A q \in flights \ {r} : f \in OpOf(q).writes => OpOf(q).flag \in busy'
    BY <1>1 DEF Awaited, Waiting, OpOf
  <2>1. f \notin crossing /\ \A q \in flights : f \in OpOf(q).writes => OpOf(q).flag \in busy
    BY DEF PanelInv, Awaited
  <2>2. PICK flag \in {q.flag : q \in Ops(It)} : OwnFlag(It, f, flag)
    BY <1>1, WaitingHasFlag
  <2>3. \A q \in flights : f \in OpOf(q).writes => OpOf(q).flag = flag
    BY <1>1, <2>2, RequestTypes DEF OwnFlag, OpOf
  <2>4. CASE f \in OpOf(r).writes
    BY <2>1, <2>4 DEF PanelInv, Carried
  <2>5. CASE f \notin OpOf(r).writes
    <3>1. r.op \in DOMAIN It.ops /\ r.hold \in Holds
      BY <1>1, RequestTypes
    <3>2. OpOf(r).flag # flag
      BY <2>2, <2>5, <3>1 DEF OwnFlag, OpOf
    <3>3. r.hold # flag
      BY <2>2, <3>1 DEF OwnFlag, Holds, Ops
    <3> QED
      BY <2>1, <2>3, <3>2, <3>3
  <2> QED
    BY <2>4, <2>5
<1> QED
  BY <1>2, <1>3, <1>4, <1>5, <1>6, <1>7 DEF PanelInv

LEMMA FollowUpKeeps ==
  ASSUME PanelInv, NEW r \in flights, NEW ok \in BOOLEAN, NEW next \in OpOf(r).next \ {"none"},
         UNCHANGED <<panel, key>>, failures' \in 0 .. MaxFailures,
         StartAll({next}, r.key, r.hold, flights \ {r}, LandShows(r, ok), busy \ {OpOf(r).flag},
                  LandFails(r, ok), LandLost(r, ok))
  PROVE  PanelInv'
<1> DEFINE Asking == StartAll({next}, r.key, r.hold, flights \ {r}, LandShows(r, ok), busy \ {OpOf(r).flag},
                             LandFails(r, ok), LandLost(r, ok))
<1>1. It' = It /\ PanelTypes /\ FieldSets(crossing, fallen) /\ key # "unmounted" /\ Asking
  BY ItStays DEF PanelInv, SpinInv
<1>2. r.op \in DOMAIN It.ops /\ OpOf(r) = It.ops[r.op] /\ r.key \in PanelKeys /\ r.hold \in Holds
  BY <1>1, RequestTypes DEF OpOf
<1>3. next \in DOMAIN It.ops /\ It.ops[next].hold = "none" /\ It.ops[r.op].next # {"none"}
  BY <1>1, <1>2, ItHasFacts DEF PanelFacts, FollowersPlaced
<1>4. /\ FlightsTyped(flights \ {r}, asks) /\ StampsTyped(LandShows(r, ok), asks)
      /\ LandFails(r, ok) \in BOOLEAN /\ FieldSets(crossing, LandLost(r, ok))
  BY <1>1, LandTypes
<1>5. {next} \subseteq DOMAIN It.ops
  BY <1>3
<1> HIDE DEF Asking
<1>6. /\ asks' \in Nat /\ FieldSets(crossing, fallen)'
      /\ FlightsTyped(flights, asks)' /\ StampsTyped(shown, asks)' /\ StampsTyped(newest, asks)'
  BY <1>1, <1>2, <1>4, <1>5, StartTypes DEF Asking
<1>7. Carried(shown, newest, crossing, flights, fallen)'
  <2>1. Carried(LandShows(r, ok), newest, crossing, flights \ {r}, LandLost(r, ok))
    BY <1>1, LandCarries DEF PanelInv
  <2> QED
    BY <1>1, <1>2, <1>4, <1>5, <2>1, StartCarries DEF Asking
<1>8. SpinsFor(busy, flights)'
  <2>1. \A flag \in busy \ {OpOf(r).flag} :
           (\E q \in flights \ {r} : flag \in {OpOf(q).flag, q.hold}) \/ flag = r.hold
    BY <1>1 DEF PanelInv, SpinInv, SpinsFor
  <2> QED
    BY <1>1, <1>3, <2>1, StartSpins DEF Asking
<1>9. Follows(newest, crossing)'
  BY <1>1, <1>5, StartFollows DEF PanelInv, Asking
<1>10. Told(error, fallen, crossing)' /\ error' \in BOOLEAN
  <2>1. Told(LandFails(r, ok), LandLost(r, ok), crossing)
    BY <1>1, LandTells DEF PanelInv
  <2> QED
    BY <1>1, <1>4, <1>5, <2>1, StartTells DEF Asking
<1>11. Awaited(busy, flights, crossing)'
  BY <1>1, <1>2, <1>3, FollowedDoNotWait DEF Awaited, Waiting
<1>12. PanelTypes' /\ KeylessRests' /\ SpinInv'
  BY <1>1, <1>6, <1>8, <1>10 DEF PanelInv, PanelTypes, PanelKeys, KeylessRests, SpinInv
<1> QED
  BY <1>6, <1>7, <1>9, <1>10, <1>11, <1>12 DEF PanelInv

LEMMA LandKeeps ==
  ASSUME PanelInv, NEW r \in flights, NEW ok \in BOOLEAN, Land(r, ok)
  PROVE  PanelInv'
<1>1. UNCHANGED <<panel, key>> /\ failures' = IF ok THEN failures ELSE failures + 1
  BY LandIs
<1>2. failures' \in 0 .. MaxFailures
  <2>1. failures \in 0 .. MaxFailures /\ MaxFailures \in Nat
    BY PanelAssumption DEF PanelInv, PanelTypes
  <2>2. ok \/ failures < MaxFailures
    BY LandIs
  <2> QED
    BY <1>1, <2>1, <2>2
<1> QED
  BY <1>1, <1>2, LandIs, AnswerKeeps, FollowUpKeeps

LEMMA PanelStutters ==
  ASSUME PanelInv, UNCHANGED panelVars
  PROVE  PanelInv'
<1>1. UNCHANGED <<panel, key, shown, busy, error, flights, newest, crossing, fallen, asks, failures>> /\ It' = It
  BY ItStays DEF panelVars
<1>2. PanelTypes' /\ FieldSets(crossing, fallen)'
  BY <1>1 DEF PanelInv, PanelTypes, FlightsTyped, StampsTyped, Stamps, PanelKeys, Holds, FieldSets
<1>3. SpinInv' /\ KeylessRests'
  BY <1>1 DEF PanelInv, SpinInv, SpinsFor, OpOf, KeylessRests
<1>4. Carried(shown, newest, crossing, flights, fallen)'
  BY <1>1 DEF PanelInv, Carried, WrittenBy, OpOf
<1>5. Follows(newest, crossing)' /\ Told(error, fallen, crossing)'
  BY <1>1 DEF PanelInv, Follows, Told, Following
<1>6. Awaited(busy, flights, crossing)'
  BY <1>1 DEF PanelInv, Awaited, Waiting, OpOf
<1> QED
  BY <1>2, <1>3, <1>4, <1>5, <1>6 DEF PanelInv

LEMMA PanelKept == PanelInv /\ [PanelNext]_panelVars => PanelInv'
<1> SUFFICES ASSUME PanelInv, [PanelNext]_panelVars PROVE PanelInv'
  OBVIOUS
<1>1. ASSUME NEW k \in PanelKeys, Render(k) PROVE PanelInv'
  BY <1>1, RenderKeeps
<1>2. ASSUME NEW k \in PanelKeys, NEW o \in DOMAIN It.ops, Ask(o, k) PROVE PanelInv'
  BY <1>2, AskKeeps
<1>3. ASSUME NEW k \in PanelKeys, NEW o \in DOMAIN It.ops, Refused(o, k) PROVE PanelInv'
  BY <1>3, RefusedKeeps
<1>4. CASE Clear
  BY <1>4, ClearKeeps
<1>5. ASSUME NEW r \in flights, NEW ok \in BOOLEAN, Land(r, ok) PROVE PanelInv'
  BY <1>5, LandKeeps
<1>6. CASE UNCHANGED panelVars
  BY <1>6, PanelStutters
<1> QED
  BY <1>1, <1>2, <1>3, <1>4, <1>5, <1>6 DEF PanelNext, PanelKeys

\* The invariant gives the four parts of PanelsHold.
LEMMA PanelsFollow == PanelInv => PanelsHold
<1> SUFFICES ASSUME PanelInv PROVE PanelsHold
  OBVIOUS
<1>1. ShowsNewest
  BY DEF PanelInv, Carried, ShowsNewest, Quiet
<1>2. OthersHaveCause
  <2> SUFFICES ASSUME NEW f \in FieldsOf(It), Following(f) # {}, key \in Subjects, shown[f] # Blank,
                      shown[f].key # key, Quiet(f)
               PROVE  f \in fallen /\ (error \/ \E op \in Ops(It) \ Following(f) : op.forgives)
    BY DEF OthersHaveCause
  <2>1. f \notin crossing /\ (f \notin fallen => shown[f] = newest[f])
    BY <1>1 DEF ShowsNewest, Quiet
  <2>2. newest[f] = Blank \/ newest[f].key = key
    BY <2>1 DEF PanelInv, Follows
  <2>3. f \in fallen
    BY <2>1, <2>2
  <2> QED
    BY <2>1, <2>3 DEF PanelInv, Told
<1>3. WaitingIsEnough
  BY DEF PanelInv, Awaited, WaitingIsEnough
<1>4. SpinnersEnd
  BY DEF PanelInv, SpinInv, SpinsFor, SpinnersEnd
<1> QED
  BY <1>1, <1>2, <1>3, <1>4 DEF PanelsHold

\* For every panel, and any number of requests and props: a field whose requests did not overlap
\* shows the answer of the newest one, or an older one after a failure; it shows another
\* project's only with a cause that shows; a button that waits for its flag keeps requests from
\* overlapping; and a spinner has a request that ends it.
THEOREM PanelsAlwaysHold == PanelSpec => []PanelsHold
<1>1. PanelInit => PanelInv
  BY PanelStarts
<1>2. PanelInv /\ [PanelNext]_panelVars => PanelInv'
  BY PanelKept
<1>3. PanelInv => PanelsHold
  BY PanelsFollow
<1> QED
  BY <1>1, <1>2, <1>3, PTL DEF PanelSpec

-----------------------------------------------------------------------------
(* WorkspaceShell: what a tab shows and its server has, when no calls of    *)
(* the tab overlapped or failed and nobody else changed the workspace       *)

ShellOps == {"shell", "project", "create", "read", "message", "attach", "microphone", "action"}
ShellStages == {"sent", "posted", "chosen", "handled", "caught", "answered", "done", "failed"}
FetchOver == {"done", "failed"}

\* A list without a set its elements are in.
IsList(s) == \E k \in Nat : s = [i \in 1 .. k |-> s[i]]

Writers == {"user", "assistant"}
ChatTyped(chat) ==
    /\ chat = [posts |-> chat.posts, files |-> chat.files, notes |-> chat.notes]
    /\ chat.posts \in Seq(Nat \X Writers)
StateShaped(s) ==
    s = [conversations |-> s.conversations, badges |-> s.badges, project |-> s.project,
         chat |-> s.chat, microphone |-> s.microphone]
StateTyped(s) ==
    /\ StateShaped(s)
    /\ s.conversations = [c \in DOMAIN s.conversations |-> s.conversations[c]]
    /\ \A c \in DOMAIN s.conversations : ChatTyped(s.conversations[c])
    /\ s.badges = [c \in DOMAIN s.conversations |-> s.badges[c]]
    /\ SeedChats \subseteq DOMAIN s.conversations
    /\ s.chat \in DOMAIN s.conversations /\ s.project \in ProjectIds
StatesTyped == Up \subseteq Servers /\ \A p \in Up : StateTyped(workspace[p])

ViewTyped(v) ==
    DOMAIN v = {"conversations", "badges", "project", "chat", "microphone", "meant"}
ViewsTyped == tab = [t \in Tabs |-> tab[t]] /\ \A t \in Tabs : ViewTyped(tab[t])

StageFits(f) ==
    /\ f.stage \in ShellStages
    /\ f.stage = "sent" => f.at = Unset
    /\ f.stage \notin {"sent"} \cup FetchOver => f.at \in Up
    /\ f.stage = "posted" => f.op = "message"
    /\ f.stage = "chosen" => f.op = "action"
    /\ f.stage = "caught" => f.op \in {"shell", "project"}
    /\ f.stage = "handled" => f.op # "shell"
    /\ f.stage = "posted" => f.chat \in DOMAIN workspace[f.at].conversations
    /\ f.stage = "chosen" => f.caught \in DOMAIN workspace[f.at].conversations
FetchShaped(f) ==
    DOMAIN f = {"tab", "op", "chat", "arg", "meant", "stage", "at", "caught", "answer"}
FetchTyped(f) ==
    /\ FetchShaped(f)
    /\ f.tab \in Tabs /\ f.op \in ShellOps /\ f.at \in Up \cup {Unset}
    /\ f.op = "project" => f.arg \in ProjectIds
    /\ f.op = "message" => f.meant \in {f.chat, Anywhere}
FetchesTyped ==
    IsList(fetches) /\ \A n \in DOMAIN fetches : FetchTyped(fetches[n]) /\ StageFits(fetches[n])

ShellTyped ==
    /\ StatesTyped /\ ViewsTyped /\ FetchesTyped
    /\ events \in 0 .. MaxEvents /\ disturbed \subseteq Tabs

\* PostedWhereTyped, of one state.
PostsFit(s) ==
    \A c \in DOMAIN s.conversations : \A i \in DOMAIN s.conversations[c].posts :
        LET n == s.conversations[c].posts[i][1]
        IN n \in DOMAIN fetches /\ fetches[n].meant \in {c, Anywhere}
AllPostsFit == \A p \in Up : PostsFit(workspace[p])

\* The fetches of a tab, and the processes that served them.
CallsOf(t) == {n \in DOMAIN fetches : fetches[n].tab = t}
HomeOf(t) == {fetches[n].at : n \in CallsOf(t)} \ {Unset}

SameShell(v, s) ==
    /\ v.conversations = s.conversations /\ v.badges = s.badges
    /\ v.chat = s.chat /\ v.microphone = s.microphone

\* Two tables that differ at most in what they have for c.
SameBut(c, F, G) == Put(F, c, EmptyChat) = Put(G, c, EmptyChat)

\* What a snapshot of a state has: references to the conversations.
SnapshotOf(s) == [s EXCEPT !.conversations = DOMAIN @, !.badges = {}]

\* What a view and a state have in common while call n is under way, by its operation, and
\* what the answer will add.
Meets(n, v, s) ==
    LET f == fetches[n]
        c == ChatOf(n)
    IN /\ f.op \in {"shell", "project"} /\ f.stage = "caught"
             => f.caught = SnapshotOf(s)
       /\ f.op \in {"shell", "project"} /\ f.stage = "answered" => f.answer = s
       /\ f.op \in {"project", "message", "attach", "microphone", "action"} => v.chat = s.chat
       /\ f.op \in {"read", "message", "action"} => v.chat = c
       /\ f.op = "create" => v.meant \in {Unset, Anywhere}
       /\ f.op \in {"create", "read"} /\ f.stage # "sent" => s.chat = c
       /\ f.op \notin {"shell", "project", "microphone"} => v.microphone = s.microphone
       /\ f.op = "microphone" /\ f.stage # "sent" => s.microphone = f.arg
       /\ f.op \in {"create", "read", "message", "attach", "action"}
             => SameBut(c, v.conversations, s.conversations)
       /\ f.op = "microphone" => v.conversations = s.conversations
       /\ f.op \in {"attach", "microphone"} => v.badges = s.badges
       /\ f.op \in {"create", "read", "message", "attach"} /\ f.stage # "sent"
             => c \in DOMAIN s.conversations
       /\ f.op \in {"create", "read", "message", "attach"} /\ f.stage = "answered"
             => f.answer.conversation = s.conversations[c]
       /\ f.op \in {"create", "read", "message"} /\ f.stage = "answered" => f.answer.badges = s.badges
       /\ f.op = "action" /\ f.stage = "chosen" => f.caught = s.chat

FirstSent(n) == fetches[n].op = "shell" /\ fetches[n].stage = "sent"

\* A tab that is not disturbed has one call under way at most, one server, and a view that
\* is the state of this server but for that call.
OneCall(t) == \A m, n \in UnderWay(t) : m = n
NoneFailed(t) == \A n \in CallsOf(t) : fetches[n].stage # "failed"
OneHome(t) == \A p, q \in HomeOf(t) : p = q
MeantIsShown(t) == tab[t].meant \in {Unset, tab[t].chat, Anywhere}
RestAgrees(t) ==
    CallsOf(t) # {} /\ ~Awaiting(t) => \E p \in HomeOf(t) : SameShell(tab[t], workspace[p])
CallMeets(t) ==
    \A n \in UnderWay(t) : FirstSent(n) \/ \E p \in HomeOf(t) : Meets(n, tab[t], workspace[p])
LoadsFirst(t) ==
    CallsOf(t) = {} \/ (\E n \in UnderWay(t) : fetches[n].op = "shell") => tab[t] = NotLoaded
TabInv(t) ==
    /\ OneCall(t) /\ NoneFailed(t) /\ OneHome(t) /\ MeantIsShown(t)
    /\ RestAgrees(t) /\ CallMeets(t) /\ LoadsFirst(t)

ShellInv == ShellTyped /\ AllPostsFit /\ \A t \in Tabs \ disturbed : TabInv(t)

LEMMA AppendList ==
    ASSUME NEW s, IsList(s), NEW e
    PROVE  /\ IsList(Append(s, e)) /\ Len(s) \in Nat
           /\ DOMAIN Append(s, e) = DOMAIN s \cup {Len(s) + 1} /\ Len(s) + 1 \notin DOMAIN s
           /\ Append(s, e)[Len(s) + 1] = e /\ \A i \in DOMAIN s : Append(s, e)[i] = s[i]
<1>1. PICK k \in Nat : s = [i \in 1 .. k |-> s[i]]
  BY DEF IsList
<1> DEFINE S == {s[i] : i \in 1 .. k} \cup {e}
<1>2. s \in Seq(S) /\ Len(s) = k /\ DOMAIN s = 1 .. k
  <2>1. s \in [1 .. k -> S]
    BY <1>1
  <2> HIDE DEF S
  <2> QED
    BY <2>1, <1>1
<1>3. e \in S
  OBVIOUS
<1> DEFINE a == Append(s, e)
<1>4. a \in Seq(S) /\ Len(a) = k + 1 /\ a[k + 1] = e /\ \A i \in 1 .. k : a[i] = s[i]
  <2> HIDE DEF S
  <2> QED
    BY <1>2, <1>3
<1>5. DOMAIN a = 1 .. (k + 1)
  <2> HIDE DEF S, a
  <2> QED
    BY <1>4
<1>6. a = [i \in 1 .. (k + 1) |-> a[i]]
  <2> HIDE DEF S, a
  <2> QED
    BY <1>4, <1>5
<1>7. IsList(a)
  <2> HIDE DEF a
  <2> QED
    BY <1>6 DEF IsList
<1> QED
  BY <1>2, <1>4, <1>5, <1>7

LEMMA SameList ==
    ASSUME IsList(fetches), fetches' = [n \in DOMAIN fetches |-> fetches'[n]]
    PROVE  IsList(fetches')
<1>1. PICK k \in Nat : fetches = [i \in 1 .. k |-> fetches[i]]
  BY DEF IsList
<1>2. fetches' = [i \in 1 .. k |-> fetches'[i]]
  BY <1>1
<1> QED
  BY <1>2 DEF IsList

\* What a call asks for does not change.
SameCall(n) ==
    /\ fetches'[n].tab = fetches[n].tab /\ fetches'[n].op = fetches[n].op
    /\ fetches'[n].chat = fetches[n].chat /\ fetches'[n].arg = fetches[n].arg
    /\ fetches'[n].meant = fetches[n].meant
CallsKept == DOMAIN fetches \subseteq DOMAIN fetches' /\ \A n \in DOMAIN fetches : SameCall(n)

LEMMA PostsStay ==
    ASSUME NEW s, PostsFit(s), CallsKept
    PROVE  PostsFit(s)'
BY DEF PostsFit, CallsKept, SameCall

\* A tab that is left alone, with the servers it has used.
LEMMA OtherTab ==
    ASSUME NEW u \in Tabs, TabInv(u), tab'[u] = tab[u], CallsOf(u)' = CallsOf(u),
           \A n \in CallsOf(u) : fetches'[n] = fetches[n],
           \A p \in HomeOf(u) : workspace'[p] = workspace[p]
    PROVE  TabInv(u)'
<1>1. UnderWay(u)' = UnderWay(u) /\ UnderWay(u) \subseteq CallsOf(u)
  BY DEF UnderWay, CallsOf, FetchOver
<1>2. HomeOf(u)' = HomeOf(u)
  BY DEF HomeOf
<1>3. OneCall(u)' /\ NoneFailed(u)' /\ OneHome(u)' /\ MeantIsShown(u)'
  BY <1>1, <1>2 DEF TabInv, OneCall, NoneFailed, OneHome, MeantIsShown
<1>4. RestAgrees(u)'
  BY <1>1, <1>2 DEF TabInv, RestAgrees, Awaiting
<1>5. CallMeets(u)'
  <2> SUFFICES ASSUME NEW n \in UnderWay(u)', ~FirstSent(n)'
               PROVE  \E p \in HomeOf(u)' : Meets(n, tab[u], workspace[p])'
    BY DEF CallMeets
  <2>1. n \in UnderWay(u) /\ ~FirstSent(n)
    BY <1>1 DEF FirstSent
  <2>2. PICK p \in HomeOf(u) : Meets(n, tab[u], workspace[p])
    BY <2>1 DEF TabInv, CallMeets
  <2>3. Meets(n, tab[u], workspace[p])'
    <3>1. fetches'[n] = fetches[n] /\ tab'[u] = tab[u] /\ workspace'[p] = workspace[p]
      BY <2>1, <1>1
    <3>2. ChatOf(n)' = ChatOf(n)
      BY <3>1 DEF ChatOf
    <3> QED
      BY <2>2, <3>1, <3>2 DEF Meets
  <2> QED
    BY <2>3, <1>2
<1>6. LoadsFirst(u)'
  BY <1>1 DEF TabInv, LoadsFirst
<1> QED
  BY <1>3, <1>4, <1>5, <1>6 DEF TabInv

\* A step of one tab or of a call of it.
LEMMA OneTabMoves ==
    ASSUME ShellInv, ShellTyped', AllPostsFit', NEW t \in Tabs, disturbed \subseteq disturbed',
           \A u \in Tabs \ {t} : /\ tab'[u] = tab[u] /\ CallsOf(u)' = CallsOf(u)
                                 /\ \A n \in CallsOf(u) : fetches'[n] = fetches[n],
           \A u \in Tabs \ (disturbed' \cup {t}) : \A p \in HomeOf(u) : workspace'[p] = workspace[p],
           t \notin disturbed' => TabInv(t)'
    PROVE  ShellInv'
<1>1. ASSUME NEW u \in Tabs \ disturbed' PROVE TabInv(u)'
  <2>1. CASE u = t
    BY <2>1, <1>1
  <2>2. CASE u # t
    BY <2>2, <1>1, OtherTab DEF ShellInv
  <2> QED
    BY <2>1, <2>2
<1> QED
  BY <1>1 DEF ShellInv

LEMMA PutSameBut ==
    ASSUME NEW G, NEW c, NEW x
    PROVE  /\ SameBut(c, G, Put(G, c, x)) /\ DOMAIN Put(G, c, x) = DOMAIN G \cup {c} /\ Put(G, c, x)[c] = x
           /\ \A k \in DOMAIN G \ {c} : Put(G, c, x)[k] = G[k]
           /\ Put(G, c, x) = [k \in DOMAIN G \cup {c} |-> Put(G, c, x)[k]]
BY DEF SameBut, Put

LEMMA ExceptSameBut ==
    ASSUME NEW G, G = [k \in DOMAIN G |-> G[k]], NEW c, NEW H, DOMAIN H = DOMAIN G,
           \A k \in DOMAIN G \ {c} : H[k] = G[k]
    PROVE  SameBut(c, G, H)
BY DEF SameBut, Put

\* Two tables that differ at c only, which has the second's value put in, are the same.
LEMMA SameButPut ==
    ASSUME NEW c, NEW F, NEW G, SameBut(c, F, G), G = [k \in DOMAIN G |-> G[k]], c \in DOMAIN G
    PROVE  Put(F, c, G[c]) = G
<1>1. DOMAIN F \cup {c} = DOMAIN G
  BY DEF SameBut, Put
<1>2. \A k \in DOMAIN G : k # c => F[k] = G[k]
  <2> SUFFICES ASSUME NEW k \in DOMAIN G, k # c PROVE F[k] = G[k]
    OBVIOUS
  <2>1. Put(F, c, EmptyChat)[k] = F[k] /\ Put(G, c, EmptyChat)[k] = G[k]
    BY <1>1 DEF Put
  <2> QED
    BY <2>1 DEF SameBut
<1> QED
  BY <1>1, <1>2 DEF Put

-----------------------------------------------------------------------------
(* What a handler makes of the state. *)

ChatFits(c, chat) ==
    \A i \in DOMAIN chat.posts :
        chat.posts[i][1] \in DOMAIN fetches /\ fetches[chat.posts[i][1]].meant \in {c, Anywhere}

\* A state with one chat replaced.
LEMMA ChatReplaced ==
    ASSUME NEW s, StateTyped(s), PostsFit(s), NEW c \in DOMAIN s.conversations,
           NEW r, NEW chat, ChatTyped(chat), ChatFits(c, chat),
           StateShaped(r),
           r.conversations = [s.conversations EXCEPT ![c] = chat],
           r.badges = [k \in DOMAIN s.conversations |-> r.badges[k]],
           r.chat \in DOMAIN s.conversations, r.project = s.project
    PROVE  StateTyped(r) /\ PostsFit(r) /\ SameBut(c, s.conversations, r.conversations)
           /\ DOMAIN r.conversations = DOMAIN s.conversations /\ r.conversations[c] = chat
<1>1. /\ DOMAIN r.conversations = DOMAIN s.conversations /\ r.conversations[c] = chat
      /\ \A k \in DOMAIN s.conversations : k # c => r.conversations[k] = s.conversations[k]
      /\ r.conversations = [k \in DOMAIN r.conversations |-> r.conversations[k]]
  BY DEF StateTyped
<1>2. StateTyped(r)
  BY <1>1 DEF StateTyped
<1>3. PostsFit(r)
  BY <1>1 DEF PostsFit, ChatFits
<1>4. SameBut(c, s.conversations, r.conversations)
  BY <1>1, ExceptSameBut DEF StateTyped
<1> QED
  BY <1>1, <1>2, <1>3, <1>4

LEMMA ChatIsTyped ==
    ASSUME NEW s, StateTyped(s), PostsFit(s), NEW c \in DOMAIN s.conversations
    PROVE  ChatTyped(s.conversations[c]) /\ ChatFits(c, s.conversations[c])
<1>1. ChatTyped(s.conversations[c])
  BY DEF StateTyped
<1>2. ChatFits(c, s.conversations[c])
  BY DEF PostsFit, ChatFits
<1> QED
  BY <1>1, <1>2

LEMMA OpenedState ==
    ASSUME NEW s, StateTyped(s), PostsFit(s), NEW c, NEW r, r = Opened(s, c)
    PROVE  /\ StateTyped(r) /\ PostsFit(r) /\ SameBut(c, s.conversations, r.conversations)
           /\ DOMAIN r.conversations = DOMAIN s.conversations \cup {c}
           /\ r.chat = c /\ r.microphone = s.microphone
<1>1. /\ r.conversations = Put(s.conversations, c, EmptyChat) /\ r.badges = Put(s.badges, c, 0)
      /\ r.chat = c /\ r.project = s.project /\ r.microphone = s.microphone
      /\ StateShaped(r)
  BY DEF Opened, StateTyped, StateShaped
<1>2. /\ DOMAIN r.conversations = DOMAIN s.conversations \cup {c} /\ r.conversations[c] = EmptyChat
      /\ \A k \in DOMAIN s.conversations \ {c} : r.conversations[k] = s.conversations[k]
      /\ r.conversations = [k \in DOMAIN r.conversations |-> r.conversations[k]]
      /\ SameBut(c, s.conversations, r.conversations)
  <2> DEFINE G == s.conversations
             P == Put(G, c, EmptyChat)
  <2>1. /\ DOMAIN P = DOMAIN G \cup {c} /\ P[c] = EmptyChat
        /\ \A k \in DOMAIN G \ {c} : P[k] = G[k]
    BY DEF Put
  <2>2. SameBut(c, G, P)
    BY PutSameBut
  <2>3. P = [k \in DOMAIN G \cup {c} |-> P[k]]
    BY DEF Put
  <2>4. r.conversations = P
    BY <1>1
  <2> HIDE DEF P
  <2> QED
    BY <2>1, <2>2, <2>3, <2>4
<1>3. DOMAIN s.badges = DOMAIN s.conversations
  BY DEF StateTyped
<1>4. r.badges = [k \in DOMAIN r.conversations |-> r.badges[k]]
  BY <1>1, <1>2, <1>3 DEF Put
<1>5. ChatTyped(EmptyChat) /\ DOMAIN EmptyChat.posts = {}
  BY DEF ChatTyped, EmptyChat
<1>6. StateTyped(r)
  BY <1>1, <1>2, <1>4, <1>5 DEF StateTyped
<1>7. PostsFit(r)
  BY <1>2, <1>5 DEF PostsFit
<1> QED
  BY <1>1, <1>2, <1>6, <1>7

LEMMA ActiveState ==
    ASSUME NEW s, StateTyped(s), PostsFit(s), NEW c \in DOMAIN s.conversations, NEW r, r = Active(s, c)
    PROVE  /\ StateTyped(r) /\ PostsFit(r) /\ r.conversations = s.conversations
           /\ r.chat = c /\ r.microphone = s.microphone
<1>1. /\ r.conversations = s.conversations /\ r.badges = [s.badges EXCEPT ![c] = 0]
      /\ r.chat = c /\ r.project = s.project /\ r.microphone = s.microphone
      /\ StateShaped(r)
  BY DEF Active, StateTyped, StateShaped
<1>2. r.badges = [k \in DOMAIN r.conversations |-> r.badges[k]]
  BY <1>1 DEF StateTyped
<1>3. StateTyped(r)
  BY <1>1, <1>2 DEF StateTyped
<1>4. PostsFit(r)
  BY <1>1 DEF PostsFit
<1> QED
  BY <1>1, <1>3, <1>4

LEMMA ChatEdited ==
    ASSUME NEW old, ChatTyped(old), NEW x
    PROVE  /\ [old EXCEPT !.posts = x] = [posts |-> x, files |-> old.files, notes |-> old.notes]
           /\ [old EXCEPT !.files = x] = [posts |-> old.posts, files |-> x, notes |-> old.notes]
           /\ [old EXCEPT !.notes = x] = [posts |-> old.posts, files |-> old.files, notes |-> x]
<1> DEFINE P == old.posts
           F == old.files
           N == old.notes
<1>1. old = [posts |-> P, files |-> F, notes |-> N]
  BY DEF ChatTyped
<1> HIDE DEF P, F, N
<1>2. /\ [old EXCEPT !.posts = x] = [posts |-> x, files |-> F, notes |-> N]
      /\ [old EXCEPT !.files = x] = [posts |-> P, files |-> x, notes |-> N]
      /\ [old EXCEPT !.notes = x] = [posts |-> P, files |-> F, notes |-> x]
  BY <1>1
<1> QED
  BY <1>2 DEF P, F, N

LEMMA PostedState ==
    ASSUME NEW s, StateTyped(s), PostsFit(s), NEW c, c \in DOMAIN s.conversations,
           NEW n \in DOMAIN fetches, n \in Nat, NEW who \in Writers, fetches[n].meant \in {c, Anywhere},
           NEW r, r = Posted(s, c, <<n, who>>)
    PROVE  /\ StateTyped(r) /\ PostsFit(r) /\ SameBut(c, s.conversations, r.conversations)
           /\ DOMAIN r.conversations = DOMAIN s.conversations
           /\ r.badges = s.badges /\ r.chat = s.chat /\ r.microphone = s.microphone
<1> DEFINE old == s.conversations[c]
           chat == [old EXCEPT !.posts = Append(old.posts, <<n, who>>)]
<1>1. ChatTyped(old) /\ ChatFits(c, old)
  BY ChatIsTyped
<1>2. /\ r.conversations = [s.conversations EXCEPT ![c] = chat] /\ r.badges = s.badges
      /\ r.chat = s.chat /\ r.project = s.project /\ r.microphone = s.microphone
      /\ StateShaped(r)
  BY DEF Posted, StateTyped, StateShaped
<1> HIDE DEF old
<1>3. /\ chat.posts = Append(old.posts, <<n, who>>)
      /\ chat = [posts |-> chat.posts, files |-> chat.files, notes |-> chat.notes]
  <2>1. chat = [posts |-> Append(old.posts, <<n, who>>), files |-> old.files, notes |-> old.notes]
    BY <1>1, ChatEdited
  <2> HIDE DEF chat
  <2> QED
    BY <2>1
<1>4. chat.posts \in Seq(Nat \X Writers)
  BY <1>1, <1>3 DEF ChatTyped
<1>5. \A i \in DOMAIN chat.posts : (i \in DOMAIN old.posts /\ chat.posts[i] = old.posts[i]) \/ chat.posts[i] = <<n, who>>
  <2> DEFINE l == old.posts
             e == <<n, who>>
  <2>1. l \in Seq(Nat \X Writers) /\ e \in Nat \X Writers
    BY <1>1 DEF ChatTyped
  <2>2. \A i \in DOMAIN Append(l, e) : (i \in DOMAIN l /\ Append(l, e)[i] = l[i]) \/ Append(l, e)[i] = e
    <3> HIDE DEF l, e
    <3> QED
      BY <2>1
  <2> QED
    BY <2>2, <1>3
<1>6. ChatFits(c, chat)
  <2> SUFFICES ASSUME NEW i \in DOMAIN chat.posts
               PROVE  chat.posts[i][1] \in DOMAIN fetches /\ fetches[chat.posts[i][1]].meant \in {c, Anywhere}
    BY DEF ChatFits
  <2>1. CASE i \in DOMAIN old.posts /\ chat.posts[i] = old.posts[i]
    <3> HIDE DEF chat, old
    <3> QED
      BY <2>1, <1>1 DEF ChatFits
  <2>2. CASE chat.posts[i] = <<n, who>>
    <3>1. chat.posts[i][1] = n
      BY <2>2
    <3> HIDE DEF chat, old
    <3> QED
      BY <3>1
  <2> QED
    BY <1>5, <2>1, <2>2
<1>7. ChatTyped(chat)
  BY <1>3, <1>4 DEF ChatTyped
<1>8. r.badges = [k \in DOMAIN s.conversations |-> r.badges[k]] /\ r.chat \in DOMAIN s.conversations
  BY <1>2 DEF StateTyped
<1> HIDE DEF chat, old
<1>9. /\ StateTyped(r) /\ PostsFit(r) /\ SameBut(c, s.conversations, r.conversations)
      /\ DOMAIN r.conversations = DOMAIN s.conversations
  BY <1>2, <1>6, <1>7, <1>8, ChatReplaced
<1> QED
  BY <1>2, <1>9

AttachedTo(s, c, f) == [s EXCEPT !.conversations[c].files = @ \cup {f}]
WithNote(s, c, n) == [s EXCEPT !.conversations[c].notes = Append(@, n), !.badges[c] = @ + 1]

LEMMA AttachedState ==
    ASSUME NEW s, StateTyped(s), PostsFit(s), NEW c, c \in DOMAIN s.conversations, NEW f,
           NEW r, r = AttachedTo(s, c, f)
    PROVE  /\ StateTyped(r) /\ PostsFit(r) /\ SameBut(c, s.conversations, r.conversations)
           /\ DOMAIN r.conversations = DOMAIN s.conversations
           /\ r.badges = s.badges /\ r.chat = s.chat /\ r.microphone = s.microphone
<1> DEFINE old == s.conversations[c]
           chat == [old EXCEPT !.files = old.files \cup {f}]
<1>1. ChatTyped(old) /\ ChatFits(c, old)
  BY ChatIsTyped
<1>2. /\ r.conversations = [s.conversations EXCEPT ![c] = chat] /\ r.badges = s.badges
      /\ r.chat = s.chat /\ r.project = s.project /\ r.microphone = s.microphone
      /\ StateShaped(r)
  BY DEF StateTyped, AttachedTo, WithNote, StateShaped
<1> HIDE DEF old
<1>3. /\ chat.posts = old.posts
      /\ chat = [posts |-> chat.posts, files |-> chat.files, notes |-> chat.notes]
  <2>1. chat = [posts |-> old.posts, files |-> old.files \cup {f}, notes |-> old.notes]
    BY <1>1, ChatEdited
  <2> HIDE DEF chat
  <2> QED
    BY <2>1
<1>4. r.badges = [k \in DOMAIN s.conversations |-> r.badges[k]] /\ r.chat \in DOMAIN s.conversations
  BY <1>2 DEF StateTyped
<1> HIDE DEF chat, old
<1>5. ChatTyped(chat) /\ ChatFits(c, chat)
  BY <1>1, <1>3 DEF ChatTyped, ChatFits
<1>6. /\ StateTyped(r) /\ PostsFit(r) /\ SameBut(c, s.conversations, r.conversations)
      /\ DOMAIN r.conversations = DOMAIN s.conversations
  BY <1>2, <1>4, <1>5, ChatReplaced
<1> QED
  BY <1>2, <1>6

LEMMA NotedState ==
    ASSUME NEW s, StateTyped(s), PostsFit(s), NEW c, c \in DOMAIN s.conversations, NEW n,
           NEW r, r = WithNote(s, c, n)
    PROVE  /\ StateTyped(r) /\ PostsFit(r) /\ SameBut(c, s.conversations, r.conversations)
           /\ DOMAIN r.conversations = DOMAIN s.conversations /\ r.chat = s.chat /\ r.microphone = s.microphone
<1> DEFINE old == s.conversations[c]
           chat == [old EXCEPT !.notes = Append(old.notes, n)]
<1>1. ChatTyped(old) /\ ChatFits(c, old)
  BY ChatIsTyped
<1>2. /\ r.conversations = [s.conversations EXCEPT ![c] = chat]
      /\ r.badges = [s.badges EXCEPT ![c] = @ + 1]
      /\ r.chat = s.chat /\ r.project = s.project /\ r.microphone = s.microphone
      /\ StateShaped(r)
  BY DEF StateTyped, AttachedTo, WithNote, StateShaped
<1> HIDE DEF old
<1>3. /\ chat.posts = old.posts
      /\ chat = [posts |-> chat.posts, files |-> chat.files, notes |-> chat.notes]
  <2>1. chat = [posts |-> old.posts, files |-> old.files, notes |-> Append(old.notes, n)]
    BY <1>1, ChatEdited
  <2> HIDE DEF chat
  <2> QED
    BY <2>1
<1>4. r.badges = [k \in DOMAIN s.conversations |-> r.badges[k]] /\ r.chat \in DOMAIN s.conversations
  BY <1>2 DEF StateTyped
<1> HIDE DEF chat, old
<1>5. ChatTyped(chat) /\ ChatFits(c, chat)
  BY <1>1, <1>3 DEF ChatTyped, ChatFits
<1>6. /\ StateTyped(r) /\ PostsFit(r) /\ SameBut(c, s.conversations, r.conversations)
      /\ DOMAIN r.conversations = DOMAIN s.conversations
  BY <1>2, <1>4, <1>5, ChatReplaced
<1> QED
  BY <1>2, <1>6

LEMMA ProjectState ==
    ASSUME NEW s, StateTyped(s), PostsFit(s), NEW r, NEW x,
           x \in ProjectIds /\ r = [s EXCEPT !.project = x]
    PROVE  /\ StateTyped(r) /\ PostsFit(r) /\ r.conversations = s.conversations
           /\ r.badges = s.badges /\ r.chat = s.chat
           /\ r.microphone = s.microphone
<1>1. /\ r.conversations = s.conversations /\ r.badges = s.badges /\ r.chat = s.chat
      /\ r.project \in ProjectIds /\ r.microphone = s.microphone
      /\ StateShaped(r)
  BY DEF StateTyped, StateShaped
<1> QED
  BY <1>1 DEF StateTyped, PostsFit

LEMMA MicrophoneState ==
    ASSUME NEW s, StateTyped(s), PostsFit(s), NEW r, NEW x,
           r = [s EXCEPT !.microphone = x]
    PROVE  /\ StateTyped(r) /\ PostsFit(r) /\ r.conversations = s.conversations
           /\ r.badges = s.badges /\ r.chat = s.chat
           /\ r.microphone = x
<1>1. /\ r.conversations = s.conversations /\ r.badges = s.badges /\ r.chat = s.chat
      /\ r.project \in ProjectIds /\ r.microphone = x
      /\ StateShaped(r)
  BY DEF StateTyped, StateShaped
<1> QED
  BY <1>1 DEF StateTyped, PostsFit

-----------------------------------------------------------------------------
\* Call n goes on; what calls ask for, and all the others, stay.
Moved(n) ==
    /\ n \in DOMAIN fetches /\ fetches' = [m \in DOMAIN fetches |-> fetches'[m]]
    /\ \A m \in DOMAIN fetches : SameCall(m)
    /\ \A m \in DOMAIN fetches \ {n} : fetches'[m] = fetches[m]
    /\ FetchShaped(fetches'[n])

LEMMA MovedCalls ==
    ASSUME NEW n, Moved(n), NEW u
    PROVE  /\ CallsOf(u)' = CallsOf(u) /\ CallsKept
           /\ u # fetches[n].tab => \A m \in CallsOf(u) : fetches'[m] = fetches[m]
<1>1. DOMAIN fetches' = DOMAIN fetches
  BY DEF Moved
<1> QED
  BY <1>1 DEF Moved, SameCall, CallsOf, CallsKept

LEMMA MovedTyped ==
    ASSUME ShellTyped, NEW n, Moved(n), StatesTyped', ViewsTyped', Up' = Up,
           \A q \in Up : DOMAIN workspace[q].conversations \subseteq DOMAIN workspace'[q].conversations,
           fetches'[n].at \in Up \cup {Unset}, StageFits(fetches[n])',
           events' \in 0 .. MaxEvents, disturbed' \subseteq Tabs
    PROVE  ShellTyped'
<1>1. IsList(fetches') /\ DOMAIN fetches' = DOMAIN fetches
  BY SameList DEF Moved, ShellTyped, FetchesTyped
<1>2. ASSUME NEW m \in DOMAIN fetches PROVE FetchTyped(fetches[m])' /\ StageFits(fetches[m])'
  <2>1. FetchTyped(fetches[m]) /\ StageFits(fetches[m])
    BY DEF ShellTyped, FetchesTyped
  <2>2. CASE m = n
    <3>1. FetchTyped(fetches[n])'
      BY <2>1, <2>2 DEF FetchTyped, Moved, SameCall
    <3> QED
      BY <2>2, <3>1
  <2>3. CASE m # n
    <3>1. fetches'[m] = fetches[m]
      BY <2>3 DEF Moved
    <3>2. FetchTyped(fetches[m])'
      BY <2>1, <3>1 DEF FetchTyped
    <3>3. fetches[m].stage \in {"posted", "chosen"} => fetches[m].at \in Up
      BY <2>1 DEF StageFits, FetchOver
    <3>4. StageFits(fetches[m])'
      BY <2>1, <3>1, <3>3 DEF StageFits
    <3> QED
      BY <3>2, <3>4
  <2> QED
    BY <2>2, <2>3
<1> QED
  BY <1>1, <1>2 DEF ShellTyped, FetchesTyped

\* The only call of a tab goes on, at the only server.
LEMMA OwnMoves ==
    ASSUME NEW t \in Tabs, TabInv(t), NEW n \in UnderWay(t), Moved(n), fetches'[n].stage \notin FetchOver,
           tab'[t] = tab[t], NEW p, p # Unset, fetches'[n].at = p, HomeOf(t) \subseteq {p},
           Meets(n, tab[t], workspace[p])'
    PROVE  TabInv(t)'
<1>1. CallsOf(t)' = CallsOf(t) /\ n \in CallsOf(t) /\ DOMAIN fetches' = DOMAIN fetches
  BY MovedCalls DEF UnderWay, CallsOf, Moved
<1>2. UnderWay(t) = {n}
  BY DEF TabInv, OneCall
<1>3. UnderWay(t)' = {n}
  BY <1>1, <1>2 DEF UnderWay, CallsOf, FetchOver, Moved, SameCall
<1>4. HomeOf(t)' = {p}
  <2>1. p \in HomeOf(t)'
    BY <1>1 DEF HomeOf
  <2>2. ASSUME NEW q \in HomeOf(t)' PROVE q = p
    <3>1. PICK m \in CallsOf(t) : q = fetches'[m].at /\ q # Unset
      BY <2>2, <1>1 DEF HomeOf
    <3>2. CASE m = n
      BY <3>1, <3>2
    <3>3. CASE m # n
      <4>1. fetches'[m] = fetches[m]
        BY <3>3, <3>1 DEF Moved, CallsOf
      <4> QED
        BY <4>1, <3>1 DEF HomeOf
    <3> QED
      BY <3>2, <3>3
  <2> QED
    BY <2>1, <2>2
<1>5. OneCall(t)' /\ OneHome(t)' /\ RestAgrees(t)'
  BY <1>3, <1>4 DEF OneCall, OneHome, RestAgrees, Awaiting
<1>6. NoneFailed(t)'
  BY <1>1 DEF TabInv, NoneFailed, Moved, FetchOver, CallsOf
<1>7. MeantIsShown(t)'
  BY DEF TabInv, MeantIsShown
<1>8. CallMeets(t)'
  BY <1>3, <1>4 DEF CallMeets
<1>9. LoadsFirst(t)'
  <2>1. fetches'[n].op = fetches[n].op
    BY DEF Moved, SameCall
  <2> QED
    BY <1>1, <1>2, <1>3, <2>1 DEF TabInv, LoadsFirst
<1> QED
  BY <1>5, <1>6, <1>7, <1>8, <1>9 DEF TabInv

LEMMA ChangeMoves ==
    ASSUME ShellTyped, NEW n \in DOMAIN fetches, NEW p \in Up, NEW stage, NEW state, Change(n, p, stage, state)
    PROVE  /\ Moved(n) /\ fetches'[n].stage = stage /\ fetches'[n].at = p
           /\ workspace'[p] = state /\ Up' = Up /\ \A q \in Up \ {p} : workspace'[q] = workspace[q]
           /\ tab' = tab
<1>1. FetchShaped(fetches[n])
  BY DEF ShellTyped, FetchesTyped, FetchTyped
<1>2. /\ fetches' = [fetches EXCEPT ![n].stage = stage, ![n].at = p]
      /\ workspace' = [workspace EXCEPT ![p] = state] /\ tab' = tab
  BY DEF Change
<1>3. /\ fetches'[n].stage = stage /\ fetches'[n].at = p /\ SameCall(n)
      /\ FetchShaped(fetches'[n])
  BY <1>1, <1>2 DEF FetchShaped, SameCall
<1>4. /\ fetches' = [m \in DOMAIN fetches |-> fetches'[m]]
      /\ \A m \in DOMAIN fetches \ {n} : fetches'[m] = fetches[m]
  BY <1>2
<1>5. workspace'[p] = state /\ Up' = Up /\ \A q \in Up \ {p} : workspace'[q] = workspace[q]
  BY <1>2 DEF Up
<1> QED
  BY <1>2, <1>3, <1>4, <1>5 DEF Moved, SameCall

\* A server that a tab is the only one to have used, or uses first.
LEMMA AtHome ==
    ASSUME ShellTyped, NEW t, NEW p \in Up, Stray(t, p) = {}
    PROVE  HomeOf(t) \subseteq {p}
<1> SUFFICES ASSUME NEW m \in CallsOf(t), fetches[m].at # Unset PROVE fetches[m].at = p
  BY DEF HomeOf
<1>1. fetches[m].at \in Up /\ m \in DOMAIN fetches /\ fetches[m].tab = t
  BY DEF ShellTyped, FetchesTyped, FetchTyped, CallsOf
<1> QED
  BY <1>1 DEF Stray, Served

LEMMA ServedIsHome ==
    ASSUME NEW u, NEW p, ~Served(u, p)
    PROVE  p \notin HomeOf(u)
BY DEF Served, HomeOf, CallsOf

LEMMA UpIsSet == ASSUME ShellTyped, NEW p \in Up PROVE p # Unset
BY ShellAssumption DEF ShellTyped, StatesTyped

\* A handler of call n changes the state of process p.
LEMMA ChangeKeeps ==
    ASSUME ShellInv, NEW n \in DOMAIN fetches, NEW p \in Up, NEW stage \in {"posted", "handled"}, NEW state,
           Change(n, p, stage, state), fetches[n].stage \in {"sent", "posted", "chosen"},
           fetches[n].at \in {Unset, p}, fetches[n].op # "shell",
           stage = "posted" => fetches[n].op = "message" /\ fetches[n].chat \in DOMAIN state.conversations,
           StateTyped(state), PostsFit(state),
           DOMAIN workspace[p].conversations \subseteq DOMAIN state.conversations,
           Meets(n, tab[fetches[n].tab], workspace[p]) =>
               Meets(n, tab[fetches[n].tab], workspace[p])'
    PROVE  ShellInv'
<1>1. /\ Moved(n) /\ fetches'[n].stage = stage /\ fetches'[n].at = p
      /\ workspace'[p] = state /\ Up' = Up /\ \A q \in Up \ {p} : workspace'[q] = workspace[q]
  BY ChangeMoves DEF ShellInv
<1>0. PICK t \in Tabs : t = fetches[n].tab
  BY DEF ShellInv, ShellTyped, FetchesTyped, FetchTyped
<1>2. /\ disturbed' = disturbed \cup Stray(t, p) \cup {u \in Tabs \ {t} : Served(u, p)}
      /\ tab' = tab /\ events' = events
  BY <1>0 DEF Change
<1>3. ShellTyped /\ fetches'[n].tab = t /\ fetches'[n].op = fetches[n].op /\ fetches'[n].chat = fetches[n].chat
  BY <1>0, <1>1 DEF ShellInv, Moved, SameCall
<1>4. StatesTyped'
  BY <1>1, <1>3 DEF ShellTyped, StatesTyped
<1>5. disturbed' \subseteq Tabs /\ disturbed \subseteq disturbed'
  BY <1>2, <1>3 DEF ShellTyped, Stray
<1>6. StageFits(fetches[n])'
  BY <1>1, <1>3 DEF StageFits, ShellStages, FetchOver
<1>7. ShellTyped'
  <2>1. \A q \in Up : DOMAIN workspace[q].conversations \subseteq DOMAIN workspace'[q].conversations
    BY <1>1
  <2>2. ViewsTyped' /\ events' \in 0 .. MaxEvents
    BY <1>2, <1>3 DEF ShellTyped, ViewsTyped
  <2> QED
    BY <1>1, <1>3, <1>4, <1>5, <1>6, <2>1, <2>2, MovedTyped
<1>8. AllPostsFit'
  <2> SUFFICES ASSUME NEW q \in Up PROVE PostsFit(workspace[q])'
    BY <1>1 DEF AllPostsFit
  <2>1. PostsFit(workspace'[q])
    BY <1>1 DEF ShellInv, AllPostsFit
  <2>2. CallsKept
    BY <1>1, MovedCalls
  <2> QED
    BY <2>1, <2>2, PostsStay
<1>9. ASSUME t \notin disturbed' PROVE TabInv(t)'
  <2>1. TabInv(t) /\ Stray(t, p) = {}
    BY <1>9, <1>2, <1>3 DEF ShellInv, Stray
  <2>2. HomeOf(t) \subseteq {p} /\ p # Unset
    BY <2>1, <1>3, AtHome, UpIsSet
  <2>3. n \in UnderWay(t) /\ ~FirstSent(n)
    BY <1>0 DEF UnderWay, FirstSent
  <2>4. Meets(n, tab[t], workspace[p])
    BY <2>1, <2>2, <2>3 DEF TabInv, CallMeets
  <2>5. Meets(n, tab[t], workspace[p])'
    BY <2>4, <1>0, <1>3
  <2>6. fetches'[n].stage \notin FetchOver /\ tab'[t] = tab[t]
    BY <1>1, <1>2 DEF FetchOver
  <2> QED
    BY <1>1, <1>3, <2>1, <2>2, <2>3, <2>5, <2>6, OwnMoves
<1>10. \A u \in Tabs \ {t} : /\ tab'[u] = tab[u] /\ CallsOf(u)' = CallsOf(u)
                             /\ \A m \in CallsOf(u) : fetches'[m] = fetches[m]
  BY <1>0, <1>1, <1>2, MovedCalls
<1>11. \A u \in Tabs \ (disturbed' \cup {t}) : \A q \in HomeOf(u) : workspace'[q] = workspace[q]
  <2> SUFFICES ASSUME NEW u \in Tabs \ (disturbed' \cup {t}), NEW q \in HomeOf(u)
               PROVE  workspace'[q] = workspace[q]
    OBVIOUS
  <2>1. q # p
    BY <1>2, ServedIsHome
  <2>2. q \in Up
    BY <1>3 DEF HomeOf, CallsOf, ShellTyped, FetchesTyped, FetchTyped
  <2> QED
    BY <2>1, <2>2, <1>1
<1> QED
  BY <1>3, <1>5, <1>7, <1>8, <1>9, <1>10, <1>11, OneTabMoves

-----------------------------------------------------------------------------
(* The handlers, one by one. *)

LEMMA StateOf ==
    ASSUME ShellInv, NEW p \in Up
    PROVE  StateTyped(workspace[p]) /\ PostsFit(workspace[p])
BY DEF ShellInv, ShellTyped, StatesTyped, AllPostsFit

LEMMA CallOf ==
    ASSUME ShellInv, NEW n \in DOMAIN fetches
    PROVE  FetchTyped(fetches[n]) /\ StageFits(fetches[n]) /\ n \in Nat /\ ShellTyped
<1>1. n \in Nat
  BY DEF ShellInv, ShellTyped, FetchesTyped, IsList
<1> QED
  BY <1>1 DEF ShellInv, ShellTyped, FetchesTyped

LEMMA ChatStays ==
    ASSUME NEW n \in DOMAIN fetches, Moved(n)
    PROVE  /\ ChatOf(n)' = ChatOf(n)
           /\ fetches'[n].op = fetches[n].op /\ fetches'[n].tab = fetches[n].tab
           /\ fetches'[n].arg = fetches[n].arg /\ fetches'[n].chat = fetches[n].chat
BY DEF ChatOf, Moved, SameCall

LEMMA SetActiveProjectStep ==
    ASSUME ShellInv, NEW n \in DOMAIN fetches, NEW p \in Up, SetActiveProject(n, p)
    PROVE  ShellInv'
<1> DEFINE s == workspace[p]
           r == [s EXCEPT !.project = fetches[n].arg]
<1>1. /\ fetches[n].stage = "sent" /\ fetches[n].op = "project" /\ Change(n, p, "handled", r)
      /\ fetches[n].at = Unset /\ fetches[n].arg \in ProjectIds
  BY CallOf DEF SetActiveProject, Serves, FetchTyped, StageFits
<1> HIDE DEF r
<1>2. /\ Moved(n) /\ fetches'[n].stage = "handled" /\ workspace'[p] = r /\ tab' = tab
  BY <1>1, CallOf, ChangeMoves
<1>3. StateTyped(r) /\ PostsFit(r) /\ r.conversations = s.conversations /\ r.chat = s.chat
  BY <1>1, StateOf, ProjectState DEF r
<1>4. ASSUME Meets(n, tab[fetches[n].tab], s)
      PROVE  Meets(n, tab[fetches[n].tab], s)'
  BY <1>1, <1>2, <1>3, <1>4, ChatStays DEF Meets
<1> QED
  BY <1>1, <1>3, <1>4, ChangeKeeps

LEMMA CreateChatStep ==
    ASSUME ShellInv, NEW n \in DOMAIN fetches, NEW p \in Up, CreateChat(n, p)
    PROVE  ShellInv'
<1> DEFINE s == workspace[p]
           r == Opened(s, Draft(n))
<1>1. /\ fetches[n].stage = "sent" /\ fetches[n].op = "create" /\ Change(n, p, "handled", r)
      /\ fetches[n].at = Unset /\ ChatOf(n) = Draft(n)
  BY CallOf DEF CreateChat, Serves, StageFits, ChatOf
<1> HIDE DEF r
<1>2. /\ Moved(n) /\ fetches'[n].stage = "handled" /\ workspace'[p] = r /\ tab' = tab
  BY <1>1, CallOf, ChangeMoves
<1>3. /\ StateTyped(r) /\ PostsFit(r) /\ SameBut(Draft(n), s.conversations, r.conversations)
      /\ DOMAIN r.conversations = DOMAIN s.conversations \cup {Draft(n)}
      /\ r.chat = Draft(n) /\ r.microphone = s.microphone
  BY StateOf, OpenedState DEF r
<1>4. ASSUME Meets(n, tab[fetches[n].tab], s)
      PROVE  Meets(n, tab[fetches[n].tab], s)'
  BY <1>1, <1>2, <1>3, <1>4, ChatStays DEF Meets, SameBut
<1> QED
  BY <1>1, <1>3, <1>4, ChangeKeeps

LEMMA MarkChatReadStep ==
    ASSUME ShellInv, NEW n \in DOMAIN fetches, NEW p \in Up, MarkChatRead(n, p)
    PROVE  ShellInv'
<1> DEFINE s == workspace[p]
           c == fetches[n].chat
           r == Active(s, c)
<1>1. /\ fetches[n].stage = "sent" /\ fetches[n].op = "read" /\ Change(n, p, "handled", r)
      /\ fetches[n].at = Unset /\ ChatOf(n) = c /\ c \in DOMAIN s.conversations
  BY CallOf DEF MarkChatRead, Serves, StageFits, ChatOf, Known
<1> HIDE DEF r
<1>2. /\ Moved(n) /\ fetches'[n].stage = "handled" /\ workspace'[p] = r /\ tab' = tab
  BY <1>1, CallOf, ChangeMoves
<1>3. /\ StateTyped(r) /\ PostsFit(r) /\ r.conversations = s.conversations
      /\ r.chat = c /\ r.microphone = s.microphone
  BY <1>1, StateOf, ActiveState DEF r
<1>4. ASSUME Meets(n, tab[fetches[n].tab], s)
      PROVE  Meets(n, tab[fetches[n].tab], s)'
  BY <1>1, <1>2, <1>3, <1>4, ChatStays DEF Meets
<1> QED
  BY <1>1, <1>3, <1>4, ChangeKeeps

LEMMA SubmitMessageStep ==
    ASSUME ShellInv, NEW n \in DOMAIN fetches, NEW p \in Up, SubmitMessage(n, p)
    PROVE  ShellInv'
<1> DEFINE s == workspace[p]
           c == fetches[n].chat
           r == Posted(s, c, <<n, "user">>)
<1>1. /\ fetches[n].stage = "sent" /\ fetches[n].op = "message" /\ Change(n, p, "posted", r)
      /\ fetches[n].at = Unset /\ ChatOf(n) = c /\ c \in DOMAIN s.conversations
      /\ fetches[n].meant \in {c, Anywhere} /\ n \in Nat
  BY CallOf DEF SubmitMessage, Serves, StageFits, FetchTyped, ChatOf, Known
<1> HIDE DEF r
<1>2. /\ Moved(n) /\ fetches'[n].stage = "posted" /\ workspace'[p] = r /\ tab' = tab
  BY <1>1, CallOf, ChangeMoves
<1>3. /\ StateTyped(r) /\ PostsFit(r) /\ SameBut(c, s.conversations, r.conversations)
      /\ DOMAIN r.conversations = DOMAIN s.conversations
      /\ r.badges = s.badges /\ r.chat = s.chat /\ r.microphone = s.microphone
  <2>1. "user" \in Writers
    BY DEF Writers
  <2> QED
    BY <1>1, <2>1, StateOf, PostedState DEF r
<1>4. ASSUME Meets(n, tab[fetches[n].tab], s)
      PROVE  Meets(n, tab[fetches[n].tab], s)'
  BY <1>1, <1>2, <1>3, <1>4, ChatStays DEF Meets, SameBut
<1> QED
  BY <1>1, <1>3, <1>4, ChangeKeeps

LEMMA AssistantReplyStep ==
    ASSUME ShellInv, NEW n \in DOMAIN fetches, AssistantReply(n)
    PROVE  ShellInv'
<1> DEFINE p == fetches[n].at
           s == workspace[p]
           c == fetches[n].chat
           r == Posted(s, c, <<n, "assistant">>)
<1>1. /\ fetches[n].stage = "posted" /\ fetches[n].op = "message" /\ Change(n, p, "handled", r)
      /\ ChatOf(n) = c /\ c \in DOMAIN s.conversations /\ p \in Up
      /\ fetches[n].meant \in {c, Anywhere} /\ n \in Nat
  BY CallOf DEF AssistantReply, StageFits, FetchOver, FetchTyped, ChatOf
<1> HIDE DEF r
<1>2. /\ Moved(n) /\ fetches'[n].stage = "handled" /\ fetches'[n].at = p
      /\ workspace'[p] = r /\ tab' = tab
  BY <1>1, CallOf, ChangeMoves
<1>3. /\ StateTyped(r) /\ PostsFit(r) /\ SameBut(c, s.conversations, r.conversations)
      /\ DOMAIN r.conversations = DOMAIN s.conversations
      /\ r.badges = s.badges /\ r.chat = s.chat /\ r.microphone = s.microphone
  <2>1. "assistant" \in Writers
    BY DEF Writers
  <2> QED
    BY <1>1, <2>1, StateOf, PostedState DEF r
<1>4. ASSUME Meets(n, tab[fetches[n].tab], s)
      PROVE  Meets(n, tab[fetches[n].tab], s)'
  BY <1>1, <1>2, <1>3, <1>4, ChatStays DEF Meets, SameBut
<1> QED
  BY <1>1, <1>2, <1>3, <1>4, ChangeKeeps

LEMMA RegisterAttachmentStep ==
    ASSUME ShellInv, NEW n \in DOMAIN fetches, NEW p \in Up, RegisterAttachment(n, p)
    PROVE  ShellInv'
<1> DEFINE s == workspace[p]
           c == fetches[n].chat
           r == AttachedTo(s, c, fetches[n].arg)
<1>1. /\ fetches[n].stage = "sent" /\ fetches[n].op = "attach" /\ Change(n, p, "handled", r)
      /\ fetches[n].at = Unset /\ ChatOf(n) = c /\ c \in DOMAIN s.conversations
  BY CallOf DEF RegisterAttachment, Serves, StageFits, ChatOf, Known, AttachedTo
<1> HIDE DEF r
<1>2. /\ Moved(n) /\ fetches'[n].stage = "handled" /\ workspace'[p] = r /\ tab' = tab
  BY <1>1, CallOf, ChangeMoves
<1>3. /\ StateTyped(r) /\ PostsFit(r) /\ SameBut(c, s.conversations, r.conversations)
      /\ DOMAIN r.conversations = DOMAIN s.conversations
      /\ r.badges = s.badges /\ r.chat = s.chat /\ r.microphone = s.microphone
  BY <1>1, StateOf, AttachedState DEF r
<1>4. ASSUME Meets(n, tab[fetches[n].tab], s)
      PROVE  Meets(n, tab[fetches[n].tab], s)'
  BY <1>1, <1>2, <1>3, <1>4, ChatStays DEF Meets, SameBut
<1> QED
  BY <1>1, <1>3, <1>4, ChangeKeeps

LEMMA SetMicrophoneStep ==
    ASSUME ShellInv, NEW n \in DOMAIN fetches, NEW p \in Up, SetMicrophone(n, p)
    PROVE  ShellInv'
<1> DEFINE s == workspace[p]
           r == [s EXCEPT !.microphone = fetches[n].arg]
<1>1. /\ fetches[n].stage = "sent" /\ fetches[n].op = "microphone" /\ Change(n, p, "handled", r)
      /\ fetches[n].at = Unset
  BY CallOf DEF SetMicrophone, Serves, StageFits
<1> HIDE DEF r
<1>2. /\ Moved(n) /\ fetches'[n].stage = "handled" /\ workspace'[p] = r /\ tab' = tab
  BY <1>1, CallOf, ChangeMoves
<1>3. /\ StateTyped(r) /\ PostsFit(r) /\ r.conversations = s.conversations /\ r.chat = s.chat
      /\ r.badges = s.badges /\ r.microphone = fetches[n].arg
  BY StateOf, MicrophoneState DEF r
<1>4. ASSUME Meets(n, tab[fetches[n].tab], s)
      PROVE  Meets(n, tab[fetches[n].tab], s)'
  BY <1>1, <1>2, <1>3, <1>4, ChatStays DEF Meets
<1> QED
  BY <1>1, <1>3, <1>4, ChangeKeeps

LEMMA RecordActionStep ==
    ASSUME ShellInv, NEW n \in DOMAIN fetches, RecordAction(n)
    PROVE  ShellInv'
<1> DEFINE p == fetches[n].at
           s == workspace[p]
           c == fetches[n].caught
           r == WithNote(s, c, n)
<1>1. /\ fetches[n].stage = "chosen" /\ fetches[n].op = "action" /\ Change(n, p, "handled", r)
      /\ ChatOf(n) = fetches[n].chat /\ c \in DOMAIN s.conversations /\ p \in Up
  BY CallOf DEF RecordAction, StageFits, FetchOver, ChatOf, WithNote
<1> HIDE DEF r
<1>2. /\ Moved(n) /\ fetches'[n].stage = "handled" /\ fetches'[n].at = p
      /\ workspace'[p] = r /\ tab' = tab
  BY <1>1, CallOf, ChangeMoves
<1>3. /\ StateTyped(r) /\ PostsFit(r) /\ SameBut(c, s.conversations, r.conversations)
      /\ DOMAIN r.conversations = DOMAIN s.conversations
      /\ r.chat = s.chat /\ r.microphone = s.microphone
  BY <1>1, StateOf, NotedState DEF r
<1>4. ASSUME Meets(n, tab[fetches[n].tab], s)
      PROVE  Meets(n, tab[fetches[n].tab], s)'
  <2>1. c = ChatOf(n)
    BY <1>1, <1>4 DEF Meets
  <2> QED
    BY <1>1, <1>2, <1>3, <1>4, <2>1, ChatStays DEF Meets, SameBut
<1> QED
  BY <1>1, <1>2, <1>3, <1>4, ChangeKeeps

\* A call goes on and no state changes.
LEMMA CallKeeps ==
    ASSUME ShellInv, NEW n \in DOMAIN fetches, Moved(n), UNCHANGED <<workspace, tab>>,
           events' \in 0 .. MaxEvents, disturbed \subseteq disturbed', disturbed' \subseteq Tabs,
           fetches'[n].at \in Up \cup {Unset}, StageFits(fetches[n])',
           NEW t \in Tabs, t = fetches[n].tab, t \notin disturbed' => TabInv(t)'
    PROVE  ShellInv'
<1>1. Up' = Up
  BY DEF Up
<1>2. StatesTyped' /\ ViewsTyped'
  BY <1>1 DEF ShellInv, ShellTyped, StatesTyped, ViewsTyped
<1>3. ShellTyped'
  BY <1>1, <1>2, MovedTyped DEF ShellInv
<1>4. AllPostsFit'
  BY <1>1, MovedCalls, PostsStay DEF ShellInv, AllPostsFit
<1>5. \A u \in Tabs \ {t} : /\ tab'[u] = tab[u] /\ CallsOf(u)' = CallsOf(u)
                            /\ \A m \in CallsOf(u) : fetches'[m] = fetches[m]
  BY MovedCalls
<1> QED
  BY <1>3, <1>4, <1>5, OneTabMoves

LEMMA ChooseActiveStep ==
    ASSUME ShellInv, NEW n \in DOMAIN fetches, NEW p \in Up, ChooseActive(n, p)
    PROVE  ShellInv'
<1>0. PICK t \in Tabs : t = fetches[n].tab
  BY DEF ShellInv, ShellTyped, FetchesTyped, FetchTyped
<1>1. /\ fetches[n].stage = "sent" /\ fetches[n].op = "action"
      /\ fetches' = [fetches EXCEPT ![n].stage = "chosen", ![n].at = p, ![n].caught = workspace[p].chat]
      /\ disturbed' = disturbed \cup Stray(t, p) \cup {u \in Tabs \ {t} : Served(u, p)}
      /\ UNCHANGED <<workspace, tab, events>>
  BY <1>0 DEF ChooseActive, Serves
<1>2. /\ Moved(n) /\ fetches'[n].stage = "chosen" /\ fetches'[n].at = p
      /\ fetches'[n].caught = workspace[p].chat
  <2>1. FetchShaped(fetches[n])
    BY CallOf DEF FetchTyped
  <2>2. /\ fetches'[n].stage = "chosen" /\ fetches'[n].at = p /\ SameCall(n)
        /\ FetchShaped(fetches'[n]) /\ fetches'[n].caught = workspace[p].chat
    BY <1>1, <2>1 DEF FetchShaped, SameCall
  <2>3. fetches' = [m \in DOMAIN fetches |-> fetches'[m]] /\ \A m \in DOMAIN fetches \ {n} : fetches'[m] = fetches[m]
    BY <1>1
  <2> QED
    BY <2>2, <2>3 DEF Moved, SameCall
<1>3. StageFits(fetches[n])'
  <2>1. fetches'[n].op = "action" /\ fetches'[n].caught \in DOMAIN workspace[p].conversations
    BY <1>1, <1>2, ChatStays, StateOf DEF StateTyped
  <2> QED
    BY <1>1, <1>2, <2>1 DEF StageFits, ShellStages, FetchOver, Up
<1>4. disturbed \subseteq disturbed' /\ disturbed' \subseteq Tabs /\ events' \in 0 .. MaxEvents
  BY <1>0, <1>1 DEF ShellInv, ShellTyped, Stray
<1>5. ASSUME t \notin disturbed' PROVE TabInv(t)'
  <2>1. TabInv(t) /\ HomeOf(t) \subseteq {p} /\ p # Unset
    BY <1>1, <1>5, AtHome, UpIsSet DEF ShellInv, Stray
  <2>2. n \in UnderWay(t) /\ ~FirstSent(n)
    BY <1>0, <1>1 DEF UnderWay, FirstSent
  <2>3. Meets(n, tab[t], workspace[p])
    BY <2>1, <2>2 DEF TabInv, CallMeets
  <2>4. Meets(n, tab[t], workspace[p])'
    BY <1>1, <1>2, <2>3, ChatStays DEF Meets
  <2>5. fetches'[n].stage \notin FetchOver /\ tab'[t] = tab[t]
    BY <1>1, <1>2 DEF FetchOver
  <2> QED
    BY <1>2, <2>1, <2>2, <2>4, <2>5, OwnMoves
<1> QED
  BY <1>0, <1>1, <1>2, <1>3, <1>4, <1>5, CallKeeps

LEMMA SnapshotStep ==
    ASSUME ShellInv, NEW n \in DOMAIN fetches, NEW p \in Up, Snapshot(n, p)
    PROVE  ShellInv'
<1>0. PICK t \in Tabs : t = fetches[n].tab
  BY DEF ShellInv, ShellTyped, FetchesTyped, FetchTyped
<1> DEFINE seen == SnapshotOf(workspace[p])
<1>1. /\ \/ fetches[n].stage = "sent" /\ fetches[n].op = "shell"
         \/ fetches[n].stage = "handled" /\ fetches[n].op = "project" /\ fetches[n].at = p
      /\ fetches' = [fetches EXCEPT ![n].stage = "caught", ![n].at = p, ![n].caught = seen]
      /\ disturbed' = disturbed \cup Stray(t, p)
      /\ UNCHANGED <<workspace, tab, events>>
  BY <1>0 DEF Snapshot, Serves, SnapshotOf
<1> HIDE DEF seen
<1>2. /\ Moved(n) /\ fetches'[n].stage = "caught" /\ fetches'[n].at = p
      /\ fetches'[n].caught = seen
  <2>1. FetchShaped(fetches[n])
    BY CallOf DEF FetchTyped
  <2>2. /\ fetches'[n].stage = "caught" /\ fetches'[n].at = p /\ SameCall(n)
        /\ FetchShaped(fetches'[n]) /\ fetches'[n].caught = seen
    BY <1>1, <2>1 DEF FetchShaped, SameCall
  <2>3. fetches' = [m \in DOMAIN fetches |-> fetches'[m]] /\ \A m \in DOMAIN fetches \ {n} : fetches'[m] = fetches[m]
    BY <1>1
  <2> QED
    BY <2>2, <2>3 DEF Moved, SameCall
<1>3. StageFits(fetches[n])'
  <2>1. fetches'[n].op \in {"shell", "project"}
    BY <1>1, <1>2, ChatStays
  <2> QED
    BY <1>1, <1>2, <2>1 DEF StageFits, ShellStages, FetchOver, Up
<1>4. disturbed \subseteq disturbed' /\ disturbed' \subseteq Tabs /\ events' \in 0 .. MaxEvents
  BY <1>0, <1>1 DEF ShellInv, ShellTyped, Stray
<1>5. ASSUME t \notin disturbed' PROVE TabInv(t)'
  <2>1. TabInv(t) /\ HomeOf(t) \subseteq {p} /\ p # Unset
    BY <1>1, <1>5, AtHome, UpIsSet DEF ShellInv, Stray
  <2>2. n \in UnderWay(t)
    BY <1>0, <1>1 DEF UnderWay
  <2>3. fetches[n].op = "project" => Meets(n, tab[t], workspace[p])
    BY <1>1, <2>1, <2>2 DEF TabInv, CallMeets, FirstSent
  <2>4. Meets(n, tab[t], workspace[p])'
    BY <1>1, <1>2, <2>3, ChatStays DEF Meets, seen
  <2>5. fetches'[n].stage \notin FetchOver /\ tab'[t] = tab[t]
    BY <1>1, <1>2 DEF FetchOver
  <2> QED
    BY <1>2, <2>1, <2>2, <2>4, <2>5, OwnMoves
<1> QED
  BY <1>0, <1>1, <1>2, <1>3, <1>4, <1>5, CallKeeps

\* The references of a snapshot lead to the state that it was taken of.
LEMMA SnapshotIsState ==
    ASSUME NEW s, StateTyped(s), NEW seen, seen = SnapshotOf(s)
    PROVE  [seen EXCEPT !.badges = s.badges, !.conversations = [c \in @ |-> s.conversations[c]]] = s
<1> DEFINE C == s.conversations
           B == s.badges
           P == s.project
           K == s.chat
           M == s.microphone
<1>1. s = [conversations |-> C, badges |-> B, project |-> P, chat |-> K, microphone |-> M]
  BY DEF StateTyped, StateShaped
<1>2. C = [c \in DOMAIN C |-> C[c]]
  BY DEF StateTyped
<1> HIDE DEF C, B, P, K, M
<1>3. seen = [conversations |-> DOMAIN C, badges |-> {}, project |-> P, chat |-> K, microphone |-> M]
  BY <1>1 DEF SnapshotOf
<1>4. [seen EXCEPT !.badges = B, !.conversations = [c \in @ |-> C[c]]]
        = [conversations |-> [c \in DOMAIN C |-> C[c]], badges |-> B, project |-> P, chat |-> K, microphone |-> M]
  <2> DEFINE X == [c \in DOMAIN C |-> C[c]]
  <2>1. seen.conversations = DOMAIN C
    BY <1>3
  <2>2. [c \in seen.conversations |-> C[c]] = X
    BY <2>1
  <2> HIDE DEF X
  <2>3. [seen EXCEPT !.badges = B, !.conversations = X]
          = [conversations |-> X, badges |-> B, project |-> P, chat |-> K, microphone |-> M]
    <3> DEFINE one == [seen EXCEPT !.badges = B]
               D == DOMAIN C
    <3>1. seen = [conversations |-> D, badges |-> {}, project |-> P, chat |-> K, microphone |-> M]
      BY <1>3
    <3> HIDE DEF D
    <3>2. one = [conversations |-> D, badges |-> B, project |-> P, chat |-> K, microphone |-> M]
      BY <3>1
    <3> HIDE DEF one
    <3>3. [one EXCEPT !.conversations = X]
            = [conversations |-> X, badges |-> B, project |-> P, chat |-> K, microphone |-> M]
      BY <3>2
    <3> QED
      BY <3>3 DEF one
  <2> QED
    BY <2>2, <2>3 DEF X
<1>5. [seen EXCEPT !.badges = B, !.conversations = [c \in @ |-> C[c]]] = s
  BY <1>1, <1>2, <1>4
<1> QED
  BY <1>5 DEF C, B

LEMMA RespondStep ==
    ASSUME ShellInv, NEW n \in DOMAIN fetches, Respond(n)
    PROVE  ShellInv'
<1>0. PICK t \in Tabs, p \in Up : t = fetches[n].tab /\ p = fetches[n].at
  BY CallOf DEF FetchTyped, StageFits, Respond, FetchOver
<1> DEFINE answer == Rendering(n, workspace[p])
<1>1. /\ fetches[n].stage = IF fetches[n].op \in {"shell", "project"} THEN "caught" ELSE "handled"
      /\ fetches' = [fetches EXCEPT ![n].stage = "answered", ![n].caught = Unset, ![n].answer = answer]
      /\ UNCHANGED <<workspace, tab, events, disturbed>>
  BY <1>0 DEF Respond
<1> HIDE DEF answer
<1>2. /\ Moved(n) /\ fetches'[n].stage = "answered" /\ fetches'[n].at = p
      /\ fetches'[n].answer = answer
  <2>1. FetchShaped(fetches[n])
    BY CallOf DEF FetchTyped
  <2>2. /\ fetches'[n].stage = "answered" /\ fetches'[n].at = p /\ SameCall(n)
        /\ FetchShaped(fetches'[n]) /\ fetches'[n].answer = answer
    BY <1>0, <1>1, <2>1 DEF FetchShaped, SameCall
  <2>3. fetches' = [m \in DOMAIN fetches |-> fetches'[m]] /\ \A m \in DOMAIN fetches \ {n} : fetches'[m] = fetches[m]
    BY <1>1
  <2> QED
    BY <2>2, <2>3 DEF Moved, SameCall
<1>3. StageFits(fetches[n])'
  BY <1>1, <1>2 DEF StageFits, ShellStages, FetchOver, Up
<1>4. disturbed' \subseteq Tabs /\ events' \in 0 .. MaxEvents
  BY <1>1 DEF ShellInv, ShellTyped
<1>5. ASSUME t \notin disturbed' PROVE TabInv(t)'
  <2>1. TabInv(t) /\ p # Unset
    BY <1>1, <1>5, UpIsSet DEF ShellInv
  <2>2. n \in UnderWay(t) /\ ~FirstSent(n)
    BY <1>0, <1>1 DEF UnderWay, FirstSent
  <2>3. HomeOf(t) \subseteq {p}
    <3>1. p \in HomeOf(t)
      BY <1>0, <2>1 DEF HomeOf, CallsOf
    <3> QED
      BY <3>1, <2>1 DEF TabInv, OneHome
  <2>4. Meets(n, tab[t], workspace[p])
    BY <2>1, <2>2, <2>3 DEF TabInv, CallMeets
  <2>5. /\ fetches[n].op \in {"shell", "project"} => answer = workspace[p]
        /\ fetches[n].op \in {"create", "read", "message", "attach"} =>
              answer.conversation = workspace[p].conversations[ChatOf(n)]
        /\ fetches[n].op \in {"create", "read", "message"} => answer.badges = workspace[p].badges
    <3>1. CASE fetches[n].op \in {"shell", "project"}
      <4>1. /\ fetches[n].caught = SnapshotOf(workspace[p])
            /\ StateTyped(workspace[p])
        BY <1>1, <3>1, <2>4, StateOf DEF Meets
      <4>2. answer = [fetches[n].caught EXCEPT !.badges = workspace[p].badges,
                                 !.conversations = [c \in @ |-> workspace[p].conversations[c]]]
        BY <3>1 DEF answer, Rendering
      <4>3. answer = workspace[p]
        BY <4>1, <4>2, SnapshotIsState
      <4> QED
        BY <3>1, <4>3
    <3>2. CASE fetches[n].op \in {"create", "read", "message"}
      <4>1. answer = [conversation |-> workspace[p].conversations[ChatOf(n)], badges |-> workspace[p].badges]
        BY <3>2 DEF answer, Rendering
      <4> QED
        BY <3>2, <4>1
    <3>3. CASE fetches[n].op = "attach"
      <4>1. answer = [conversation |-> workspace[p].conversations[ChatOf(n)]]
        BY <3>3 DEF answer, Rendering
      <4> QED
        BY <3>3, <4>1
    <3> QED
      BY <3>1, <3>2, <3>3
  <2>6. Meets(n, tab[t], workspace[p])'
    BY <1>1, <1>2, <2>4, <2>5, ChatStays, ZenonT(40) DEF Meets
  <2>7. fetches'[n].stage \notin FetchOver /\ tab'[t] = tab[t]
    BY <1>1, <1>2 DEF FetchOver
  <2> QED
    BY <1>2, <2>1, <2>2, <2>3, <2>6, <2>7, OwnMoves
<1> QED
  BY <1>0, <1>1, <1>2, <1>3, <1>4, <1>5, CallKeeps

LEMMA FailedStep ==
    ASSUME ShellInv, NEW n \in DOMAIN fetches, (\E p \in Up : NotFound(n, p)) \/ Lose(n)
    PROVE  ShellInv'
<1>0. PICK t \in Tabs : t = fetches[n].tab
  BY DEF ShellInv, ShellTyped, FetchesTyped, FetchTyped
<1>1. /\ \/ fetches' = [fetches EXCEPT ![n].stage = "failed"]
         \/ fetches' = [fetches EXCEPT ![n].stage = "failed", ![n].caught = Unset, ![n].answer = Unset]
      /\ disturbed' = disturbed \cup {t} /\ UNCHANGED <<workspace, tab>>
  BY <1>0 DEF NotFound, Lose
<1>2. events' \in 0 .. MaxEvents
  BY ShellAssumption DEF NotFound, Lose, ShellInv, ShellTyped
<1>3. FetchShaped(fetches[n]) /\ fetches[n].at \in Up \cup {Unset}
  BY CallOf DEF FetchTyped
<1>4. Moved(n) /\ fetches'[n].stage = "failed" /\ fetches'[n].at \in Up \cup {Unset}
  <2>1. fetches'[n].stage = "failed" /\ fetches'[n].at = fetches[n].at /\ SameCall(n) /\ FetchShaped(fetches'[n])
    BY <1>1, <1>3 DEF FetchShaped, SameCall
  <2>2. fetches' = [m \in DOMAIN fetches |-> fetches'[m]] /\ \A m \in DOMAIN fetches \ {n} : fetches'[m] = fetches[m]
    BY <1>1
  <2> QED
    BY <1>3, <2>1, <2>2 DEF Moved, SameCall
<1>5. StageFits(fetches[n])'
  BY <1>4 DEF StageFits, ShellStages, FetchOver
<1>6. disturbed \subseteq disturbed' /\ disturbed' \subseteq Tabs
  BY <1>1 DEF ShellInv, ShellTyped
<1> QED
  BY <1>0, <1>1, <1>2, <1>4, <1>5, <1>6, CallKeeps

-----------------------------------------------------------------------------
(* What a user does and what a tab is told. *)

LEMMA RenderedIs ==
    ASSUME NEW v, ViewTyped(v)
    PROVE  LET r == Rendered(v)
           IN /\ ViewTyped(r) /\ r.conversations = v.conversations /\ r.badges = v.badges
              /\ r.chat = v.chat /\ r.microphone = v.microphone /\ r.meant \in {v.meant, Unset}
BY DEF ViewTyped, Rendered

\* A user does something that the server is told.
LEMMA SendKeeps ==
    ASSUME ShellInv, NEW t \in Tabs, NEW op \in ShellOps \ {"shell"}, NEW chat, NEW arg, NEW meant, NEW view,
           Send(t, op, chat, arg, meant, view), ViewTyped(view), tab[t] # NotLoaded,
           op = "project" => arg \in ProjectIds, op = "message" => meant \in {chat, Anywhere},
           view.conversations = tab[t].conversations, view.badges = tab[t].badges,
           view.microphone = tab[t].microphone, op # "read" => view.chat = tab[t].chat,
           op \in {"read", "message", "action"} => view.chat = chat,
           op = "create" => view.meant \in {Unset, Anywhere},
           t \notin disturbed /\ ~Awaiting(t) => view.meant \in {Unset, view.chat, Anywhere}
    PROVE  ShellInv'
<1> DEFINE e == FetchOf(t, op, chat, arg, meant)
           v == Rendered(view)
<1>0. PICK N : N = Len(fetches) + 1
  OBVIOUS
<1>1. /\ fetches' = Append(fetches, e) /\ tab' = [tab EXCEPT ![t] = v] /\ workspace' = workspace
      /\ events < MaxEvents /\ events' = events + 1
      /\ disturbed' = IF Awaiting(t) THEN disturbed \cup {t} ELSE disturbed
  BY DEF Send
<1>2. /\ ViewTyped(v) /\ v.conversations = view.conversations /\ v.badges = view.badges
      /\ v.chat = view.chat /\ v.microphone = view.microphone /\ v.meant \in {view.meant, Unset}
  BY RenderedIs
<1>3. /\ e.tab = t /\ e.op = op /\ e.chat = chat /\ e.arg = arg /\ e.meant = meant
      /\ e.stage = "sent" /\ e.at = Unset /\ FetchShaped(e)
  BY DEF FetchOf, FetchShaped
<1> HIDE DEF e, v
<1>4. ShellTyped
  BY DEF ShellInv
<1>5. /\ IsList(fetches') /\ DOMAIN fetches' = DOMAIN fetches \cup {N} /\ N \notin DOMAIN fetches
      /\ fetches'[N] = e /\ \A m \in DOMAIN fetches : fetches'[m] = fetches[m]
  BY <1>0, <1>1, <1>4, AppendList DEF ShellTyped, FetchesTyped
<1>6. Up' = Up /\ CallsKept /\ \A u : CallsOf(u)' = IF u = t THEN CallsOf(u) \cup {N} ELSE CallsOf(u)
  BY <1>1, <1>3, <1>5 DEF Up, CallsKept, SameCall, CallsOf
<1>7. ShellTyped'
  <2>1. StatesTyped'
    BY <1>1, <1>4, <1>6 DEF ShellTyped, StatesTyped
  <2>2. ViewsTyped'
    BY <1>1, <1>2, <1>4 DEF ShellTyped, ViewsTyped
  <2>3. FetchTyped(e)' /\ StageFits(e)'
    BY <1>3 DEF FetchTyped, StageFits, ShellStages, FetchOver
  <2>4. ASSUME NEW m \in DOMAIN fetches PROVE FetchTyped(fetches[m])' /\ StageFits(fetches[m])'
    <3>1. FetchTyped(fetches[m]) /\ StageFits(fetches[m]) /\ fetches'[m] = fetches[m]
      BY <1>4, <1>5 DEF ShellTyped, FetchesTyped
    <3> QED
      BY <1>1, <1>6, <3>1 DEF FetchTyped, StageFits
  <2>5. FetchesTyped'
    <3> SUFFICES ASSUME NEW m \in DOMAIN fetches' PROVE FetchTyped(fetches[m])' /\ StageFits(fetches[m])'
      BY <1>5 DEF FetchesTyped
    <3>1. CASE m = N
      BY <3>1, <1>5, <2>3 DEF FetchTyped, StageFits
    <3> QED
      BY <3>1, <1>5, <2>4
  <2>6. events' \in 0 .. MaxEvents /\ disturbed' \subseteq Tabs
    BY <1>1, <1>4, ShellAssumption DEF ShellTyped
  <2> QED
    BY <2>1, <2>2, <2>5, <2>6 DEF ShellTyped
<1>8. AllPostsFit'
  BY <1>1, <1>6, PostsStay DEF ShellInv, AllPostsFit
<1>9. ASSUME t \notin disturbed' PROVE TabInv(t)'
  <2>1. t \notin disturbed /\ ~Awaiting(t) /\ TabInv(t)
    BY <1>1, <1>9 DEF ShellInv
  <2>2. CallsOf(t) # {}
    BY <2>1 DEF TabInv, LoadsFirst
  <2>3. PICK p \in HomeOf(t) : SameShell(tab[t], workspace[p])
    BY <2>1, <2>2 DEF TabInv, RestAgrees
  <2>4. tab'[t] = v
    BY <1>1, <1>4 DEF ShellTyped, ViewsTyped
  <2>5. UnderWay(t)' = {N}
    BY <1>3, <1>5, <2>1 DEF UnderWay, Awaiting
  <2>6. HomeOf(t)' = HomeOf(t)
    <3>1. \A m \in CallsOf(t) : fetches'[m] = fetches[m]
      BY <1>5 DEF CallsOf
    <3>2. CallsOf(t)' = CallsOf(t) \cup {N} /\ fetches'[N].at = Unset
      BY <1>3, <1>5, <1>6
    <3> QED
      BY <3>1, <3>2 DEF HomeOf
  <2>7. OneCall(t)' /\ OneHome(t)' /\ RestAgrees(t)'
    BY <2>1, <2>5, <2>6 DEF TabInv, OneCall, OneHome, RestAgrees, Awaiting
  <2>8. NoneFailed(t)'
    BY <1>3, <1>5, <1>6, <2>1 DEF TabInv, NoneFailed, CallsOf
  <2>9. MeantIsShown(t)'
    BY <1>2, <2>1, <2>4 DEF MeantIsShown
  <2>10. CallMeets(t)'
    <3>1. ChatOf(N)' = IF op = "create" THEN Draft(N) ELSE chat
      BY <1>3, <1>5 DEF ChatOf
    <3>2. workspace'[p] = workspace[p] /\ fetches'[N] = e
      BY <1>1, <1>5
    <3>3. Meets(N, tab[t], workspace[p])'
      BY <1>2, <1>3, <2>3, <2>4, <3>1, <3>2 DEF Meets, SameShell, SameBut
    <3> QED
      BY <2>5, <2>6, <3>3 DEF CallMeets
  <2>11. LoadsFirst(t)'
    BY <1>3, <1>5, <1>6, <2>2, <2>5 DEF LoadsFirst
  <2> QED
    BY <2>7, <2>8, <2>9, <2>10, <2>11 DEF TabInv
<1>10. disturbed \subseteq disturbed'
  BY <1>1
<1>11. \A u \in Tabs \ {t} : /\ tab'[u] = tab[u] /\ CallsOf(u)' = CallsOf(u)
                             /\ \A m \in CallsOf(u) : fetches'[m] = fetches[m]
  BY <1>1, <1>4, <1>5, <1>6 DEF CallsOf, ShellTyped, ViewsTyped
<1> QED
  BY <1>1, <1>7, <1>8, <1>9, <1>10, <1>11, OneTabMoves

LEMMA ViewOf ==
    ASSUME ShellInv, NEW t \in Tabs
    PROVE  /\ ViewTyped(tab[t]) /\ (t \notin disturbed => MeantIsShown(t))
           /\ Shows(tab[t]) => tab[t] # NotLoaded
           /\ tab[t].project # Unset => tab[t] # NotLoaded
           /\ DOMAIN tab[t].badges # {} => tab[t] # NotLoaded
<1>1. ViewTyped(tab[t]) /\ (t \notin disturbed => MeantIsShown(t))
  BY DEF ShellInv, ShellTyped, ViewsTyped, TabInv
<1>2. DOMAIN NotLoaded.conversations = {} /\ DOMAIN NotLoaded.badges = {} /\ NotLoaded.project = Unset
  BY DEF NotLoaded
<1> QED
  BY <1>1, <1>2 DEF Shows

LEMMA BegunIsShown ==
    ASSUME NEW t, ~Awaiting(t), MeantIsShown(t)
    PROVE  Begun(t) \in {Unset, tab[t].chat, Anywhere}
BY DEF Begun, Opening, Awaiting, MeantIsShown

LEMMA UserSendStep ==
    ASSUME ShellInv, NEW t \in Tabs,
           \/ NewChat(t) \/ SubmitText(t) \/ ToggleMicrophone(t) \/ ActOnMessage(t)
           \/ \E p \in ProjectIds : ChangeProject(t, p)
           \/ \E c \in DOMAIN tab[t].badges : SelectChat(t, c)
           \/ \E f \in Files : AttachFile(t, f)
    PROVE  ShellInv'
<1>1. ViewTyped(tab[t]) /\ (t \notin disturbed => MeantIsShown(t))
  BY ViewOf
<1>2. CASE NewChat(t)
  <2> DEFINE view == [tab[t] EXCEPT !.meant = IF @ = Unset THEN Unset ELSE Anywhere]
  <2>1. Send(t, "create", Unset, tab[t].project, Unset, view) /\ tab[t] # NotLoaded
    BY <1>2, ViewOf DEF NewChat
  <2>2. /\ ViewTyped(view) /\ view.conversations = tab[t].conversations /\ view.badges = tab[t].badges
        /\ view.microphone = tab[t].microphone /\ view.chat = tab[t].chat
        /\ view.meant \in {Unset, Anywhere}
    BY <1>1 DEF ViewTyped
  <2> HIDE DEF view
  <2>3. "create" \in ShellOps \ {"shell"}
    BY DEF ShellOps
  <2> QED
    BY <2>1, <2>2, <2>3, SendKeeps
<1>3. CASE SubmitText(t)
  <2> DEFINE view == [tab[t] EXCEPT !.meant = Unset]
             meant == IF t \in disturbed THEN Anywhere ELSE tab[t].meant
  <2>1. /\ Send(t, "message", tab[t].chat, tab[t].project, meant, view)
        /\ tab[t] # NotLoaded /\ tab[t].meant # Unset
    BY <1>3, ViewOf DEF SubmitText
  <2>2. /\ ViewTyped(view) /\ view.conversations = tab[t].conversations /\ view.badges = tab[t].badges
        /\ view.microphone = tab[t].microphone /\ view.chat = tab[t].chat /\ view.meant = Unset
    BY <1>1 DEF ViewTyped
  <2>3. meant \in {tab[t].chat, Anywhere}
    BY <1>1, <2>1 DEF MeantIsShown
  <2> HIDE DEF view, meant
  <2>4. "message" \in ShellOps \ {"shell"}
    BY DEF ShellOps
  <2> QED
    BY <2>1, <2>2, <2>3, <2>4, SendKeeps
<1>4. CASE ToggleMicrophone(t)
  <2>1. Send(t, "microphone", Unset, ~tab[t].microphone, Unset, tab[t]) /\ tab[t] # NotLoaded
    BY <1>4, ViewOf DEF ToggleMicrophone
  <2>2. "microphone" \in ShellOps \ {"shell"}
    BY DEF ShellOps
  <2> QED
    BY <1>1, <2>1, <2>2, SendKeeps DEF MeantIsShown
<1>5. CASE ActOnMessage(t)
  <2>1. Send(t, "action", tab[t].chat, Unset, Unset, tab[t]) /\ tab[t] # NotLoaded
    BY <1>5, ViewOf DEF ActOnMessage
  <2>2. "action" \in ShellOps \ {"shell"}
    BY DEF ShellOps
  <2> QED
    BY <1>1, <2>1, <2>2, SendKeeps DEF MeantIsShown
<1>6. ASSUME NEW p \in ProjectIds, ChangeProject(t, p) PROVE ShellInv'
  <2> DEFINE view == [tab[t] EXCEPT !.project = p]
  <2>1. Send(t, "project", Unset, p, Unset, view) /\ tab[t] # NotLoaded
    BY <1>6, ViewOf DEF ChangeProject
  <2>2. /\ ViewTyped(view) /\ view.conversations = tab[t].conversations /\ view.badges = tab[t].badges
        /\ view.microphone = tab[t].microphone /\ view.chat = tab[t].chat /\ view.meant = tab[t].meant
    BY <1>1 DEF ViewTyped
  <2> HIDE DEF view
  <2>3. "project" \in ShellOps \ {"shell"}
    BY DEF ShellOps
  <2> QED
    BY <1>1, <2>1, <2>2, <2>3, SendKeeps DEF MeantIsShown
<1>7. ASSUME NEW c \in DOMAIN tab[t].badges, SelectChat(t, c) PROVE ShellInv'
  <2> DEFINE view == Selected(tab[t], c)
  <2>1. Send(t, "read", c, Unset, Unset, view) /\ tab[t] # NotLoaded
    BY <1>7, ViewOf DEF SelectChat
  <2>2. /\ ViewTyped(view) /\ view.conversations = tab[t].conversations /\ view.badges = tab[t].badges
        /\ view.microphone = tab[t].microphone /\ view.chat = c /\ view.meant \in {Unset, c}
    BY <1>1 DEF ViewTyped, Selected
  <2> HIDE DEF view
  <2>3. "read" \in ShellOps \ {"shell"}
    BY DEF ShellOps
  <2> QED
    BY <2>1, <2>2, <2>3, SendKeeps
<1>8. ASSUME NEW f \in Files, AttachFile(t, f) PROVE ShellInv'
  <2> DEFINE view == [tab[t] EXCEPT !.meant = Begun(t)]
  <2>1. Send(t, "attach", tab[t].chat, f, Unset, view) /\ tab[t] # NotLoaded
    BY <1>8, ViewOf DEF AttachFile
  <2>2. /\ ViewTyped(view) /\ view.conversations = tab[t].conversations /\ view.badges = tab[t].badges
        /\ view.microphone = tab[t].microphone /\ view.chat = tab[t].chat /\ view.meant = Begun(t)
    BY <1>1 DEF ViewTyped
  <2>3. t \notin disturbed /\ ~Awaiting(t) => view.meant \in {Unset, view.chat, Anywhere}
    BY <1>1, <2>2, BegunIsShown
  <2> HIDE DEF view
  <2>4. "attach" \in ShellOps \ {"shell"}
    BY DEF ShellOps
  <2> QED
    BY <2>1, <2>2, <2>3, <2>4, SendKeeps
<1> QED
  BY <1>2, <1>3, <1>4, <1>5, <1>6, <1>7, <1>8

LEMMA TypeStep ==
    ASSUME ShellInv, NEW t \in Tabs, Type(t)
    PROVE  ShellInv'
<1>1. /\ tab' = [tab EXCEPT ![t].meant = Begun(t)]
      /\ UNCHANGED <<workspace, fetches, events, disturbed>>
      /\ Shows(tab[t]) /\ tab[t].meant = Unset
  BY DEF Type
<1>2. ViewTyped(tab[t]) /\ tab[t] # NotLoaded /\ ShellTyped
  BY <1>1, ViewOf DEF ShellInv
<1>3. /\ tab'[t] = [tab[t] EXCEPT !.meant = Begun(t)]
      /\ tab' = [u \in Tabs |-> tab'[u]] /\ \A u \in Tabs \ {t} : tab'[u] = tab[u]
  BY <1>1, <1>2 DEF ShellTyped, ViewsTyped
<1>4. /\ ViewTyped(tab'[t]) /\ tab'[t].conversations = tab[t].conversations
      /\ tab'[t].badges = tab[t].badges /\ tab'[t].chat = tab[t].chat
      /\ tab'[t].microphone = tab[t].microphone /\ tab'[t].meant = Begun(t)
  BY <1>2, <1>3 DEF ViewTyped
<1>5. /\ Up' = Up /\ \A u : CallsOf(u)' = CallsOf(u) /\ UnderWay(u)' = UnderWay(u) /\ HomeOf(u)' = HomeOf(u)
      /\ \A n : ChatOf(n)' = ChatOf(n) /\ (FirstSent(n)' <=> FirstSent(n))
  BY <1>1 DEF Up, CallsOf, UnderWay, HomeOf, ChatOf, FirstSent
<1>6. ShellTyped'
  <2>1. StatesTyped'
    BY <1>1, <1>2, <1>5 DEF ShellTyped, StatesTyped
  <2>2. ViewsTyped'
    BY <1>2, <1>3, <1>4 DEF ShellTyped, ViewsTyped
  <2>3. FetchesTyped'
    BY <1>1, <1>2, <1>5 DEF ShellTyped, FetchesTyped, FetchTyped, StageFits
  <2> QED
    BY <1>1, <1>2, <2>1, <2>2, <2>3 DEF ShellTyped
<1>7. AllPostsFit'
  BY <1>1, <1>5, SMTT(30) DEF ShellInv, AllPostsFit, PostsFit
<1>8. ASSUME t \notin disturbed' PROVE TabInv(t)'
  <2>1. TabInv(t)
    BY <1>1, <1>8 DEF ShellInv
  <2>2. OneCall(t)' /\ NoneFailed(t)' /\ OneHome(t)'
    BY <1>1, <1>5, <2>1 DEF TabInv, OneCall, NoneFailed, OneHome
  <2>3. LoadsFirst(t)'
    BY <1>1, <1>2, <1>5, <2>1 DEF TabInv, LoadsFirst
  <2>4. RestAgrees(t)'
    BY <1>1, <1>4, <1>5, <2>1 DEF TabInv, RestAgrees, Awaiting, SameShell
  <2>5. MeantIsShown(t)'
    BY <1>1, <1>4, <2>1 DEF MeantIsShown, Begun
  <2>6. CallMeets(t)'
    <3> SUFFICES ASSUME NEW n \in UnderWay(t)', ~FirstSent(n)'
                 PROVE  \E p \in HomeOf(t)' : Meets(n, tab[t], workspace[p])'
      BY DEF CallMeets
    <3>1. PICK p \in HomeOf(t) : Meets(n, tab[t], workspace[p])
      BY <1>5, <2>1 DEF TabInv, CallMeets
    <3>2. fetches[n].op = "create" => Begun(t) = Anywhere
      BY <1>1, <1>5 DEF Begun, Opening
    <3>3. Meets(n, tab[t], workspace[p])'
      BY <1>1, <1>4, <1>5, <3>1, <3>2 DEF Meets
    <3> QED
      BY <1>5, <3>3
  <2> QED
    BY <2>1, <2>2, <2>3, <2>4, <2>5, <2>6 DEF TabInv
<1> QED
  BY <1>1, <1>3, <1>5, <1>6, <1>7, <1>8, OneTabMoves

\* What the answer to the only call of a tab makes of its view.
LEMMA AppliedIs ==
    ASSUME NEW n \in DOMAIN fetches, fetches[n].stage = "answered", fetches[n].op \in ShellOps,
           NEW v, ViewTyped(v), NEW s, StateTyped(s), Meets(n, v, s),
           v.meant \in {Unset, v.chat, Anywhere}, fetches[n].op = "shell" => v.meant = Unset,
           NEW r, r = Applied(n, v)
    PROVE  /\ r.meant \in {Unset, r.chat, Anywhere}
           /\ fetches[n].op # "action" => SameShell(r, s)
           /\ fetches[n].op = "action" =>
                /\ r.conversations = v.conversations /\ r.microphone = v.microphone
                /\ r.chat = v.chat
<1>1. CASE fetches[n].op \in {"shell", "project"}
  <2>1. fetches[n].answer = s /\ (fetches[n].op = "project" => v.chat = s.chat)
    BY <1>1 DEF Meets
  <2>2. r = SynchroniseShell(v, s)
    BY <1>1, <2>1 DEF Applied
  <2>3. /\ r.conversations = s.conversations /\ r.badges = s.badges /\ r.chat = s.chat
        /\ r.microphone = s.microphone /\ r.meant = v.meant
    BY <2>2 DEF SynchroniseShell, ViewTyped
  <2> QED
    BY <1>1, <2>1, <2>3 DEF SameShell
<1>2. CASE fetches[n].op \in {"create", "read", "message"}
  <2> DEFINE c == ChatOf(n)
  <2>1. /\ fetches[n].answer.conversation = s.conversations[c] /\ fetches[n].answer.badges = s.badges
        /\ SameBut(c, v.conversations, s.conversations) /\ c \in DOMAIN s.conversations
        /\ v.microphone = s.microphone /\ s.chat = c
        /\ v.chat = c \/ v.meant \in {Unset, Anywhere}
    BY <1>2 DEF Meets
  <2>2. r = ApplyConversationUpdate(v, c, fetches[n].answer)
    BY <1>2 DEF Applied
  <2>3. s.conversations = [k \in DOMAIN s.conversations |-> s.conversations[k]]
    BY DEF StateTyped
  <2> HIDE DEF c
  <2>4. Put(v.conversations, c, s.conversations[c]) = s.conversations
    BY <2>1, <2>3, SameButPut
  <2>5. /\ r.conversations = s.conversations /\ r.badges = s.badges /\ r.chat = c
        /\ r.microphone = v.microphone /\ r.meant = v.meant
    BY <2>1, <2>2, <2>4 DEF ApplyConversationUpdate, ViewTyped
  <2> QED
    BY <1>2, <2>1, <2>5 DEF SameShell
<1>3. CASE fetches[n].op = "attach"
  <2> DEFINE c == ChatOf(n)
  <2>1. /\ fetches[n].answer.conversation = s.conversations[c]
        /\ SameBut(c, v.conversations, s.conversations) /\ c \in DOMAIN s.conversations
        /\ v.microphone = s.microphone /\ v.chat = s.chat /\ v.badges = s.badges
    BY <1>3 DEF Meets
  <2>2. r = [v EXCEPT !.conversations = Put(@, c, fetches[n].answer.conversation)]
    BY <1>3 DEF Applied
  <2>3. s.conversations = [k \in DOMAIN s.conversations |-> s.conversations[k]]
    BY DEF StateTyped
  <2> HIDE DEF c
  <2>4. Put(v.conversations, c, s.conversations[c]) = s.conversations
    BY <2>1, <2>3, SameButPut
  <2>5. /\ r.conversations = s.conversations /\ r.badges = v.badges /\ r.chat = v.chat
        /\ r.microphone = v.microphone /\ r.meant = v.meant
    BY <2>1, <2>2, <2>4 DEF ViewTyped
  <2> QED
    BY <1>3, <2>1, <2>5 DEF SameShell
<1>4. CASE fetches[n].op = "microphone"
  <2>1. /\ v.conversations = s.conversations /\ v.badges = s.badges /\ v.chat = s.chat
        /\ s.microphone = fetches[n].arg
    BY <1>4 DEF Meets
  <2>2. r = [v EXCEPT !.microphone = fetches[n].arg]
    BY <1>4 DEF Applied
  <2>3. /\ r.conversations = v.conversations /\ r.badges = v.badges /\ r.chat = v.chat
        /\ r.microphone = fetches[n].arg /\ r.meant = v.meant
    BY <2>2 DEF ViewTyped
  <2> QED
    BY <1>4, <2>1, <2>3 DEF SameShell
<1>5. CASE fetches[n].op = "action"
  <2>1. v.chat = fetches[n].chat
    BY <1>5 DEF Meets, ChatOf
  <2>2. r = [v EXCEPT !.chat = fetches[n].chat]
    BY <1>5 DEF Applied
  <2>3. /\ r.conversations = v.conversations /\ r.chat = v.chat
        /\ r.microphone = v.microphone /\ r.meant = v.meant
    BY <2>1, <2>2 DEF ViewTyped
  <2> QED
    BY <1>5, <2>3
<1> QED
  BY <1>1, <1>2, <1>3, <1>4, <1>5 DEF ShellOps

LEMMA AppliedTyped ==
    ASSUME NEW n, NEW v, ViewTyped(v)
    PROVE  ViewTyped(Applied(n, v))
<1>1. \A a : ViewTyped(SynchroniseShell(v, a))
  BY DEF ViewTyped, SynchroniseShell
<1>2. \A c, a : ViewTyped(ApplyConversationUpdate(v, c, a))
  BY DEF ViewTyped, ApplyConversationUpdate
<1>3. \A x : /\ ViewTyped([v EXCEPT !.conversations = x]) /\ ViewTyped([v EXCEPT !.microphone = x])
             /\ ViewTyped([v EXCEPT !.chat = x])
  BY DEF ViewTyped
<1> QED
  BY <1>1, <1>2, <1>3, Zenon DEF Applied

LEMMA ReceiveStep ==
    ASSUME ShellInv, NEW n \in DOMAIN fetches, Receive(n)
    PROVE  ShellInv'
<1>0. PICK t \in Tabs, p \in Up : t = fetches[n].tab /\ p = fetches[n].at
  BY CallOf DEF FetchTyped, StageFits, Receive, FetchOver
<1> DEFINE done == [fetches EXCEPT ![n].stage = "done", ![n].answer = Unset]
           e == FetchOf(t, "read", fetches[n].chat, Unset, Unset)
           r == Applied(n, tab[t])
           v == Rendered(r)
<1>1. /\ fetches[n].stage = "answered" /\ tab' = [tab EXCEPT ![t] = v]
      /\ fetches' = IF fetches[n].op = "action" THEN Append(done, e) ELSE done
      /\ UNCHANGED <<workspace, events, disturbed>>
  BY <1>0 DEF Receive
<1>2. ShellTyped /\ ViewTyped(tab[t]) /\ FetchTyped(fetches[n]) /\ IsList(fetches)
  BY CallOf, ViewOf DEF ShellInv, ShellTyped, FetchesTyped
<1>3. /\ DOMAIN done = DOMAIN fetches /\ done[n].stage = "done" /\ done[n].at = p /\ done[n].tab = t
      /\ done[n].op = fetches[n].op /\ done[n].chat = fetches[n].chat /\ done[n].arg = fetches[n].arg
      /\ done[n].meant = fetches[n].meant /\ FetchShaped(done[n])
      /\ \A m \in DOMAIN fetches \ {n} : done[m] = fetches[m]
      /\ done = [m \in DOMAIN fetches |-> done[m]]
  BY <1>0, <1>2 DEF FetchTyped, FetchShaped
<1>4. /\ e.tab = t /\ e.op = "read" /\ e.chat = fetches[n].chat /\ e.meant = Unset
      /\ e.stage = "sent" /\ e.at = Unset /\ FetchShaped(e)
  BY DEF FetchOf, FetchShaped
<1>5. ViewTyped(r) /\ ViewTyped(v) /\ v.conversations = r.conversations /\ v.badges = r.badges
      /\ v.chat = r.chat /\ v.microphone = r.microphone /\ v.meant \in {r.meant, Unset}
  BY <1>2, AppliedTyped, RenderedIs
<1> HIDE DEF done, e, r, v
<1>6. IsList(done)
  <2>1. PICK k \in Nat : fetches = [i \in 1 .. k |-> fetches[i]]
    BY <1>2 DEF IsList
  <2>2. done = [i \in 1 .. k |-> done[i]]
    BY <1>3, <2>1
  <2> QED
    BY <2>2 DEF IsList
<1>7. PICK N : N = Len(done) + 1
  OBVIOUS
<1>8. /\ IsList(fetches') /\ DOMAIN fetches \subseteq DOMAIN fetches' /\ N \notin DOMAIN fetches
      /\ \A m \in DOMAIN fetches : fetches'[m] = done[m]
      /\ fetches[n].op # "action" => DOMAIN fetches' = DOMAIN fetches
      /\ fetches[n].op = "action" => DOMAIN fetches' = DOMAIN fetches \cup {N} /\ fetches'[N] = e
  <2>1. /\ IsList(Append(done, e)) /\ DOMAIN Append(done, e) = DOMAIN fetches \cup {N} /\ N \notin DOMAIN fetches
        /\ Append(done, e)[N] = e /\ \A m \in DOMAIN fetches : Append(done, e)[m] = done[m]
    BY <1>3, <1>6, <1>7, AppendList
  <2> QED
    BY <1>1, <1>3, <1>6, <2>1
<1>9. CallsKept /\ Up' = Up /\ \A u \in Tabs \ {t} : CallsOf(u)' = CallsOf(u)
  <2>1. CallsKept
    BY <1>0, <1>3, <1>8 DEF CallsKept, SameCall
  <2>2. \A m \in DOMAIN fetches' \ DOMAIN fetches : fetches'[m].tab = t
    BY <1>4, <1>8
  <2> QED
    BY <1>1, <2>1, <2>2 DEF CallsKept, SameCall, CallsOf, Up
<1>10. ASSUME NEW m \in DOMAIN fetches' PROVE FetchTyped(fetches[m])' /\ StageFits(fetches[m])'
  <2>1. CASE m \notin DOMAIN fetches
    <3>1. fetches'[m] = e
      BY <1>8, <2>1
    <3> QED
      BY <1>0, <1>4, <3>1 DEF FetchTyped, StageFits, ShellOps, ShellStages, FetchOver
  <2>2. CASE m = n
    <3>1. fetches'[m] = done[n]
      BY <1>8, <2>2
    <3>2. FetchTyped(fetches[m])'
      BY <1>0, <1>1, <1>2, <1>3, <1>9, <3>1 DEF FetchTyped
    <3>3. StageFits(fetches[m])'
      BY <1>3, <3>1 DEF StageFits, ShellStages, FetchOver
    <3> QED
      BY <3>2, <3>3
  <2>3. CASE m \in DOMAIN fetches /\ m # n
    <3>1. fetches'[m] = fetches[m] /\ FetchTyped(fetches[m]) /\ StageFits(fetches[m])
      BY <1>3, <1>8, <2>3, CallOf
    <3> QED
      BY <1>1, <1>9, <3>1 DEF FetchTyped, StageFits
  <2> QED
    BY <2>1, <2>2, <2>3
<1>11. ShellTyped'
  <2>1. StatesTyped'
    BY <1>1, <1>2, <1>9 DEF ShellTyped, StatesTyped
  <2>2. ViewsTyped'
    BY <1>1, <1>2, <1>5 DEF ShellTyped, ViewsTyped
  <2> QED
    BY <1>1, <1>2, <1>8, <1>10, <2>1, <2>2 DEF ShellTyped, FetchesTyped
<1>12. AllPostsFit'
  BY <1>1, <1>9, PostsStay DEF ShellInv, AllPostsFit
<1>13. ASSUME t \notin disturbed' PROVE TabInv(t)'
  <2>1. TabInv(t) /\ p # Unset
    BY <1>1, <1>2, <1>13, UpIsSet DEF ShellInv
  <2>2. n \in UnderWay(t) /\ ~FirstSent(n)
    BY <1>0, <1>1 DEF UnderWay, FirstSent
  <2>3. HomeOf(t) = {p}
    <3>1. p \in HomeOf(t)
      BY <1>0, <2>1 DEF HomeOf, CallsOf
    <3> QED
      BY <3>1, <2>1 DEF TabInv, OneHome
  <2>4. Meets(n, tab[t], workspace[p])
    BY <2>1, <2>2, <2>3 DEF TabInv, CallMeets
  <2>5. fetches[n].op = "shell" => tab[t].meant = Unset
    <3>1. NotLoaded.meant = Unset
      BY DEF NotLoaded
    <3> QED
      BY <2>1, <2>2, <3>1 DEF TabInv, LoadsFirst
  <2>6. /\ r.meant \in {Unset, r.chat, Anywhere}
        /\ fetches[n].op # "action" => SameShell(r, workspace[p])
        /\ fetches[n].op = "action" =>
             /\ r.conversations = tab[t].conversations /\ r.microphone = tab[t].microphone
             /\ r.chat = tab[t].chat
    <3>1. fetches[n].op \in ShellOps /\ StateTyped(workspace[p]) /\ tab[t].meant \in {Unset, tab[t].chat, Anywhere}
      BY <1>2, <2>1, StateOf DEF FetchTyped, TabInv, MeantIsShown
    <3>2. r = Applied(n, tab[t])
      BY DEF r
    <3> QED
      BY <1>1, <1>2, <2>4, <2>5, <3>1, <3>2, AppliedIs
  <2>7. tab'[t] = v /\ workspace'[p] = workspace[p]
    BY <1>1, <1>2 DEF ShellTyped, ViewsTyped
  <2>8. UnderWay(t) = {n}
    BY <2>1, <2>2 DEF TabInv, OneCall
  <2>9. CallsOf(t)' = CallsOf(t) \cup (DOMAIN fetches' \ DOMAIN fetches) /\ n \in CallsOf(t)
    BY <1>0, <1>4, <1>8, <1>9 DEF CallsOf, CallsKept, SameCall
  <2>10. \A m \in CallsOf(t) \ {n} : fetches'[m] = fetches[m] /\ fetches[m].stage \in FetchOver
    BY <1>3, <1>8, <2>8 DEF UnderWay, CallsOf, FetchOver
  <2>11. UnderWay(t)' = DOMAIN fetches' \ DOMAIN fetches
    <3>1. \A m \in CallsOf(t) : fetches'[m].stage \in FetchOver /\ m \in DOMAIN fetches
      BY <1>3, <1>8, <2>9, <2>10 DEF FetchOver, CallsOf
    <3>2. \A m \in DOMAIN fetches' \ DOMAIN fetches : fetches'[m].stage = "sent"
      BY <1>4, <1>8
    <3>3. UnderWay(t)' = {m \in CallsOf(t)' : fetches'[m].stage \notin FetchOver}
      BY DEF UnderWay, CallsOf, FetchOver
    <3> QED
      BY <2>9, <3>1, <3>2, <3>3 DEF FetchOver
  <2>12. HomeOf(t)' = {p}
    <3>1. \A m \in CallsOf(t) : fetches'[m].at = fetches[m].at
      BY <1>0, <1>3, <1>8, <2>10 DEF CallsOf
    <3>2. \A m \in DOMAIN fetches' \ DOMAIN fetches : fetches'[m].at = Unset
      BY <1>4, <1>8
    <3> QED
      BY <2>3, <2>9, <3>1, <3>2 DEF HomeOf
  <2>13. NoneFailed(t)'
    <3>1. \A m \in CallsOf(t) : fetches'[m].stage # "failed"
      BY <1>3, <1>8, <2>1, <2>9, <2>10 DEF TabInv, NoneFailed, CallsOf
    <3>2. \A m \in DOMAIN fetches' \ DOMAIN fetches : fetches'[m].stage = "sent"
      BY <1>4, <1>8
    <3> QED
      BY <2>9, <3>1, <3>2 DEF NoneFailed
  <2>14. MeantIsShown(t)'
    BY <1>5, <2>6, <2>7 DEF MeantIsShown
  <2>15. OneHome(t)'
    BY <2>12 DEF OneHome
  <2>16. CASE fetches[n].op # "action"
    <3>1. UnderWay(t)' = {} /\ CallsOf(t)' # {}
      BY <1>8, <2>9, <2>11, <2>16
    <3>2. SameShell(tab[t], workspace[p])'
      BY <1>5, <2>6, <2>7, <2>16 DEF SameShell
    <3> QED
      BY <2>12, <2>13, <2>14, <2>15, <3>1, <3>2
      DEF TabInv, OneCall, RestAgrees, CallMeets, LoadsFirst, Awaiting
  <2>17. CASE fetches[n].op = "action"
    <3>1. UnderWay(t)' = {N} /\ CallsOf(t)' # {} /\ fetches'[N] = e
      BY <1>8, <2>9, <2>11, <2>17
    <3>2. ChatOf(N)' = fetches[n].chat /\ ChatOf(n) = fetches[n].chat
      BY <1>4, <2>17, <3>1 DEF ChatOf
    <3>3. /\ tab[t].chat = ChatOf(n) /\ tab[t].microphone = workspace[p].microphone
          /\ SameBut(ChatOf(n), tab[t].conversations, workspace[p].conversations)
      BY <2>4, <2>17 DEF Meets
    <3>4. Meets(N, tab[t], workspace[p])'
      BY <1>4, <1>5, <2>6, <2>7, <2>17, <3>1, <3>2, <3>3 DEF Meets
    <3>5. CallMeets(t)' /\ LoadsFirst(t)'
      BY <1>4, <2>12, <3>1, <3>4 DEF CallMeets, LoadsFirst
    <3> QED
      BY <2>12, <2>13, <2>14, <2>15, <3>1, <3>5 DEF TabInv, OneCall, RestAgrees, Awaiting
  <2> QED
    BY <2>16, <2>17
<1>14. \A u \in Tabs \ {t} : /\ tab'[u] = tab[u] /\ CallsOf(u)' = CallsOf(u)
                             /\ \A m \in CallsOf(u) : fetches'[m] = fetches[m]
  BY <1>0, <1>1, <1>2, <1>3, <1>8, <1>9 DEF CallsOf, ShellTyped, ViewsTyped
<1> QED
  BY <1>1, <1>11, <1>12, <1>13, <1>14, OneTabMoves

-----------------------------------------------------------------------------
(* Restarts, and the first state. *)

LEMMA SeedFits == StateTyped(Seed) /\ PostsFit(Seed)
<1> DEFINE C == [c \in SeedChats |-> EmptyChat]
           B == [c \in SeedChats |-> SeedUnread(c)]
<1>1. /\ StateShaped(Seed) /\ Seed.conversations = C /\ Seed.badges = B
      /\ Seed.chat = FirstChat /\ Seed.project = FirstProject
  BY DEF StateShaped, Seed
<1>2. ChatTyped(EmptyChat) /\ EmptyChat.posts = <<>>
  BY DEF ChatTyped, EmptyChat
<1>3. /\ DOMAIN C = SeedChats /\ C = [c \in SeedChats |-> C[c]] /\ B = [c \in SeedChats |-> B[c]]
      /\ \A c \in SeedChats : C[c] = EmptyChat
  OBVIOUS
<1> HIDE DEF C, B
<1>4. StateTyped(Seed)
  BY <1>1, <1>2, <1>3, ShellAssumption DEF StateTyped
<1>5. PostsFit(Seed)
  BY <1>1, <1>2, <1>3 DEF PostsFit
<1> QED
  BY <1>4, <1>5

LEMMA RestartStep ==
    ASSUME ShellInv, NEW p \in Up, Restart(p)
    PROVE  ShellInv'
<1> DEFINE hit == {"posted", "chosen", "handled", "caught"}
<1>1. /\ workspace' = [workspace EXCEPT ![p] = Seed]
      /\ fetches' = [n \in DOMAIN fetches |->
                      IF fetches[n].at = p /\ fetches[n].stage \in hit
                      THEN [fetches[n] EXCEPT !.stage = "failed", !.caught = Unset] ELSE fetches[n]]
      /\ disturbed' = disturbed \cup {t \in Tabs : Served(t, p)}
      /\ tab' = tab
  BY DEF Restart
<1>10. ShellTyped /\ events' \in 0 .. MaxEvents
  <2>1. events < MaxEvents /\ events' = events + 1
    BY DEF Restart
  <2>2. ShellTyped /\ events \in 0 .. MaxEvents
    BY DEF ShellInv, ShellTyped
  <2> QED
    BY <2>1, <2>2, ShellAssumption
<1>2. /\ Up' = Up /\ workspace'[p] = Seed /\ \A q \in Up \ {p} : workspace'[q] = workspace[q]
      /\ DOMAIN fetches' = DOMAIN fetches /\ fetches' = [n \in DOMAIN fetches |-> fetches'[n]]
      /\ \A n \in DOMAIN fetches : fetches[n].at # p => fetches'[n] = fetches[n]
  BY <1>1 DEF Up
<1>3. ASSUME NEW n \in DOMAIN fetches
      PROVE  /\ SameCall(n) /\ FetchTyped(fetches[n])' /\ StageFits(fetches[n])'
             /\ fetches'[n].at = fetches[n].at
  <2>1. FetchTyped(fetches[n]) /\ StageFits(fetches[n])
    BY CallOf
  <2>2. CASE fetches[n].at = p /\ fetches[n].stage \in hit
    <3>1. /\ fetches'[n].stage = "failed" /\ fetches'[n].at = fetches[n].at /\ SameCall(n)
          /\ FetchShaped(fetches'[n])
      BY <1>1, <2>1, <2>2 DEF FetchTyped, FetchShaped, SameCall
    <3>2. FetchTyped(fetches[n])'
      BY <1>2, <2>1, <3>1 DEF FetchTyped, SameCall
    <3>3. StageFits(fetches[n])'
      BY <3>1 DEF StageFits, ShellStages, FetchOver
    <3> QED
      BY <3>1, <3>2, <3>3
  <2>3. CASE ~(fetches[n].at = p /\ fetches[n].stage \in hit)
    <3>1. fetches'[n] = fetches[n]
      BY <1>1, <2>3
    <3>2. FetchTyped(fetches[n])'
      BY <1>2, <2>1, <3>1 DEF FetchTyped
    <3>3. fetches[n].stage \in {"posted", "chosen"} =>
             fetches[n].at \in Up /\ workspace'[fetches[n].at] = workspace[fetches[n].at]
      BY <1>2, <2>1, <2>3 DEF StageFits, FetchOver
    <3>4. StageFits(fetches[n])'
      BY <1>2, <2>1, <3>1, <3>3 DEF StageFits
    <3> QED
      BY <3>1, <3>2, <3>4 DEF SameCall
  <2> QED
    BY <2>2, <2>3
<1> HIDE DEF hit
<1>4. CallsKept /\ \A u : CallsOf(u)' = CallsOf(u)
  BY <1>2, <1>3 DEF CallsKept, CallsOf, SameCall
<1>5. ShellTyped'
  <2>1. StatesTyped'
    BY <1>1, <1>2, <1>10, SeedFits DEF ShellTyped, StatesTyped
  <2>2. ViewsTyped' /\ disturbed' \subseteq Tabs
    BY <1>1, <1>10 DEF ShellTyped, ViewsTyped
  <2>3. FetchesTyped'
    BY <1>1, <1>2, <1>3, <1>10, SameList DEF ShellTyped, FetchesTyped
  <2> QED
    BY <1>10, <2>1, <2>2, <2>3 DEF ShellTyped
<1>6. AllPostsFit'
  <2> SUFFICES ASSUME NEW q \in Up PROVE PostsFit(workspace[q])'
    BY <1>2 DEF AllPostsFit
  <2>1. PostsFit(workspace'[q])
    BY <1>2, SeedFits, StateOf
  <2> QED
    BY <2>1, <1>4, PostsStay
<1>7. ASSUME NEW u \in Tabs \ disturbed' PROVE TabInv(u)'
  <2>1. TabInv(u) /\ ~Served(u, p)
    BY <1>1, <1>7 DEF ShellInv
  <2>2. \A n \in CallsOf(u) : fetches'[n] = fetches[n]
    BY <1>2, <2>1 DEF Served, CallsOf
  <2>3. \A q \in HomeOf(u) : workspace'[q] = workspace[q]
    <3>1. p \notin HomeOf(u) /\ HomeOf(u) \subseteq Up
      BY <1>10, <2>1, ServedIsHome DEF HomeOf, CallsOf, ShellTyped, FetchesTyped, FetchTyped
    <3> QED
      BY <1>2, <3>1
  <2> QED
    BY <1>1, <1>4, <2>1, <2>2, <2>3, OtherTab
<1> QED
  BY <1>5, <1>6, <1>7 DEF ShellInv

\* As many tabs as calls: none of them asks for the shell twice.
LEMMA NoTabTwice ==
    ASSUME NEW k \in Nat, NEW f \in [1 .. k -> Tabs], Cardinality({f[i] : i \in DOMAIN f}) = k,
           NEW i \in 1 .. k, NEW j \in 1 .. k, f[i] = f[j]
    PROVE  i = j
<1> DEFINE S == 1 .. k
           T == {f[m] : m \in S}
<1>1. IsFiniteSet(S) /\ Cardinality(S) = k
  <2>1. k \in Int /\ 1 \in Int
    OBVIOUS
  <2>2. IsFiniteSet(1 .. k) /\ Cardinality(1 .. k) = IF 1 > k THEN 0 ELSE k - 1 + 1
    BY <2>1, FS_Interval, Zenon
  <2> QED
    BY <2>2
<1>2. f \in Surjection(S, T) /\ Cardinality(T) = k
  <2>1. DOMAIN f = S
    OBVIOUS
  <2> QED
    BY <2>1 DEF Surjection
<1>3. f \in Injection(S, T)
  <2> HIDE DEF S, T
  <2> QED
    BY <1>1, <1>2, FS_Surjection
<1>4. \A a, b \in S : f[a] = f[b] => a = b
  <2> HIDE DEF S, T
  <2> QED
    BY <1>3 DEF Injection, IsInjective
<1> QED
  BY <1>4

LEMMA ShellInvInit ==
    ASSUME ShellInit
    PROVE  ShellInv
<1>1. PICK up \in SUBSET Servers : workspace = [p \in up |-> Seed]
  BY DEF ShellInit
<1>2. PICK k \in Nat : \E order \in [1 .. k -> Tabs] :
         /\ Cardinality({order[i] : i \in DOMAIN order}) = k
         /\ fetches = [i \in 1 .. k |-> FetchOf(order[i], "shell", Unset, Unset, Unset)]
  <2>1. PICK order \in UNION {[1 .. n -> Tabs] : n \in 1 .. Cardinality(Tabs)} :
          /\ Cardinality({order[i] : i \in DOMAIN order}) = Len(order)
          /\ fetches = [i \in DOMAIN order |-> FetchOf(order[i], "shell", Unset, Unset, Unset)]
    BY DEF ShellInit
  <2>2. PICK k \in 1 .. Cardinality(Tabs) : order \in [1 .. k -> Tabs]
    BY <2>1
  <2>3. k \in Nat /\ DOMAIN order = 1 .. k
    BY <2>2
  <2>4. Len(order) = k
    BY <2>2, <2>3
  <2> QED
    BY <2>1, <2>2, <2>3, <2>4
<1>20. PICK order \in [1 .. k -> Tabs] :
         /\ Cardinality({order[i] : i \in DOMAIN order}) = k
         /\ fetches = [i \in 1 .. k |-> FetchOf(order[i], "shell", Unset, Unset, Unset)]
  BY <1>2
<1>3. tab = [t \in Tabs |-> NotLoaded] /\ events \in 0 .. MaxEvents /\ disturbed = {} /\ Up = up
  BY <1>1 DEF ShellInit, Up
<1>4. DOMAIN fetches = 1 .. k /\ fetches = [i \in 1 .. k |-> fetches[i]]
  BY <1>20
<1>5. ASSUME NEW i \in 1 .. k
      PROVE  /\ fetches[i].tab = order[i] /\ fetches[i].op = "shell" /\ fetches[i].stage = "sent"
             /\ fetches[i].at = Unset /\ FetchShaped(fetches[i])
  BY <1>20 DEF FetchOf, FetchShaped
<1>6. ShellTyped
  <2>1. StatesTyped
    BY <1>1, <1>3, SeedFits DEF StatesTyped
  <2>2. ViewsTyped
    BY <1>3 DEF ViewsTyped, ViewTyped, NotLoaded
  <2>3. ASSUME NEW i \in 1 .. k PROVE FetchTyped(fetches[i]) /\ StageFits(fetches[i])
    BY <1>20, <1>5 DEF FetchTyped, StageFits, ShellOps, ShellStages, FetchOver
  <2>4. FetchesTyped
    BY <1>4, <2>3 DEF FetchesTyped, IsList
  <2> QED
    BY <1>3, <2>1, <2>2, <2>4 DEF ShellTyped
<1>7. AllPostsFit
  BY <1>1, <1>3, SeedFits DEF AllPostsFit
<1>8. ASSUME NEW t \in Tabs PROVE TabInv(t)
  <2>1. UnderWay(t) = CallsOf(t)
    BY <1>4, <1>5 DEF UnderWay, CallsOf
  <2>2. OneCall(t)
    BY <1>20, <1>4, <1>5, NoTabTwice DEF OneCall, UnderWay
  <2>3. NoneFailed(t) /\ OneHome(t)
    BY <1>4, <1>5 DEF NoneFailed, OneHome, HomeOf, CallsOf
  <2>4. MeantIsShown(t) /\ LoadsFirst(t)
    BY <1>3 DEF MeantIsShown, LoadsFirst, NotLoaded
  <2>5. RestAgrees(t)
    BY <2>1 DEF RestAgrees, Awaiting
  <2>6. CallMeets(t)
    BY <1>4, <1>5, <2>1 DEF CallMeets, FirstSent, CallsOf
  <2> QED
    BY <2>2, <2>3, <2>4, <2>5, <2>6 DEF TabInv
<1> QED
  BY <1>6, <1>7, <1>8 DEF ShellInv

LEMMA ShellInvStutter ==
    ASSUME ShellInv, UNCHANGED shellVars
    PROVE  ShellInv'
<1>1. /\ workspace' = workspace /\ tab' = tab /\ fetches' = fetches /\ events' = events
      /\ disturbed' = disturbed /\ Up' = Up
  BY DEF shellVars, Up
<1>2. ShellTyped'
  BY <1>1 DEF ShellInv, ShellTyped, StatesTyped, ViewsTyped, FetchesTyped, FetchTyped, StageFits
<1>3. AllPostsFit'
  BY <1>1, SMTT(30) DEF ShellInv, AllPostsFit, PostsFit
<1>4. ASSUME NEW u \in Tabs \ disturbed' PROVE TabInv(u)'
  <2>1. TabInv(u) /\ CallsOf(u)' = CallsOf(u)
    BY <1>1, <1>4 DEF ShellInv, CallsOf
  <2> QED
    BY <1>1, <2>1, OtherTab
<1> QED
  BY <1>2, <1>3, <1>4 DEF ShellInv

LEMMA ShellInvStep ==
    ASSUME ShellInv, ShellNext
    PROVE  ShellInv'
<1>1. ASSUME NEW t \in Tabs, User(t) PROVE ShellInv'
  BY <1>1, TypeStep, UserSendStep DEF User
<1>2. ASSUME NEW n \in DOMAIN fetches, AssistantReply(n) \/ RecordAction(n) \/ Respond(n) \/ Receive(n) \/ Lose(n)
      PROVE  ShellInv'
  BY <1>2, AssistantReplyStep, RecordActionStep, RespondStep, ReceiveStep, FailedStep
<1>3. ASSUME NEW n \in DOMAIN fetches, NEW p \in Up, Handle(n, p) PROVE ShellInv'
  <2>1. CASE NotFound(n, p)
    BY <2>1, FailedStep
  <2>2. CASE SetActiveProject(n, p) \/ CreateChat(n, p) \/ MarkChatRead(n, p) \/ SubmitMessage(n, p)
    BY <2>2, SetActiveProjectStep, CreateChatStep, MarkChatReadStep, SubmitMessageStep
  <2>3. CASE RegisterAttachment(n, p) \/ SetMicrophone(n, p) \/ ChooseActive(n, p) \/ Snapshot(n, p)
    BY <2>3, RegisterAttachmentStep, SetMicrophoneStep, ChooseActiveStep, SnapshotStep
  <2> QED
    BY <1>3, <2>1, <2>2, <2>3 DEF Handle
<1> QED
  BY <1>1, <1>2, <1>3, RestartStep DEF ShellNext

LEMMA ShellInvAlways == ShellSpec => []ShellInv
<1>1. ShellInv /\ [ShellNext]_shellVars => ShellInv'
  BY ShellInvStep, ShellInvStutter
<1> QED
  BY ShellInvInit, <1>1, PTL DEF ShellSpec

LEMMA PostsFitMeans == ShellInv => PostedWhereTyped
BY DEF ShellInv, AllPostsFit, PostsFit, PostedWhereTyped

LEMMA RestMeans == ShellInv => TabsAgree
<1> SUFFICES ASSUME ShellInv, NEW t \in {fetches[n].tab : n \in DOMAIN fetches} \ disturbed, ~Awaiting(t)
             PROVE  \E p \in Up : [workspace[p] EXCEPT !.project = tab[t].project]
                                     = [conversations |-> tab[t].conversations, badges |-> tab[t].badges,
                                        project |-> tab[t].project, chat |-> tab[t].chat,
                                        microphone |-> tab[t].microphone]
  BY DEF TabsAgree
<1>1. t \in Tabs /\ CallsOf(t) # {} /\ HomeOf(t) \subseteq Up
  BY DEF ShellInv, ShellTyped, FetchesTyped, FetchTyped, CallsOf, HomeOf
<1>2. PICK p \in HomeOf(t) : SameShell(tab[t], workspace[p])
  BY <1>1 DEF ShellInv, TabInv, RestAgrees
<1> DEFINE C == tab[t].conversations
           B == tab[t].badges
           P == tab[t].project
           K == tab[t].chat
           M == tab[t].microphone
           Q == workspace[p].project
<1>3. workspace[p] = [conversations |-> C, badges |-> B, project |-> Q, chat |-> K, microphone |-> M]
  BY <1>1, <1>2, StateOf, ZenonT(40) DEF StateTyped, StateShaped, SameShell
<1> HIDE DEF C, B, P, K, M, Q
<1>4. [workspace[p] EXCEPT !.project = P]
        = [conversations |-> C, badges |-> B, project |-> P, chat |-> K, microphone |-> M]
  BY <1>3
<1> QED
  BY <1>1, <1>4 DEF C, B, P, K, M

\* For every set of tabs, processes, chats and files, and every bound: a message is posted in
\* the chat it was typed for, and a tab at rest shows what its server has, unless calls of
\* the tab overlapped or failed or somebody else changed the workspace (App.jsx:31-160,
\* ChatUI.jsx:172, workspace.py:90-330).
THEOREM ShellAlwaysHolds == ShellSpec => []ShellHolds
<1>1. ShellInv => ShellHolds
  BY PostsFitMeans, RestMeans DEF ShellHolds
<1> QED
  BY ShellInvAlways, <1>1, PTL

-----------------------------------------------------------------------------
(* WorkspaceShell: every chat that a tab shows or a call is about has been  *)
(* seeded or created, which the types need and disturbed tabs too.          *)

ChatsKnown == \A p \in Up : DOMAIN workspace[p].conversations \subseteq Chats

ViewKnown(v, C) ==
    /\ DOMAIN v.conversations \subseteq C /\ DOMAIN v.badges \subseteq C
    /\ v.meant \in C \cup {Unset, Anywhere} /\ (v.meant # Unset => Shows(v))

\* What an answer of call n may add to a view.
AnswerKnown(f, C) ==
    /\ f.op \in {"shell", "project"} => DOMAIN f.answer.conversations \subseteq C
    /\ f.op \in {"shell", "project", "create", "read", "message"} => DOMAIN f.answer.badges \subseteq C
CallKnown(f, C) ==
    /\ f.op \in {"read", "message", "attach", "action"} => f.chat \in C
    /\ f.stage = "caught" => StateShaped(f.caught) /\ f.caught.conversations \subseteq C
    /\ f.stage = "answered" => AnswerKnown(f, C)

KnownInv ==
    /\ ChatsKnown /\ \A t \in Tabs : ViewKnown(tab[t], Chats)
    /\ \A n \in DOMAIN fetches : CallKnown(fetches[n], Chats)

\* A call goes on, at a process that knows no chat it should not.
LEMMA KnownGoesOn ==
    ASSUME KnownInv, NEW n \in DOMAIN fetches, Moved(n), Up' = Up, tab' = tab,
           \A q \in Up : DOMAIN workspace'[q].conversations \subseteq Chats,
           CallKnown(fetches'[n], Chats)
    PROVE  KnownInv'
<1>1. DOMAIN fetches' = DOMAIN fetches /\ \A m \in DOMAIN fetches \ {n} : fetches'[m] = fetches[m]
  BY DEF Moved
<1>2. Chats' = Chats
  BY <1>1 DEF Chats
<1>3. ChatsKnown'
  BY <1>2 DEF ChatsKnown
<1>4. \A t \in Tabs : ViewKnown(tab[t], Chats)'
  BY <1>2 DEF KnownInv, ViewKnown, Shows
<1>5. ASSUME NEW m \in DOMAIN fetches' PROVE CallKnown(fetches[m], Chats)'
  <2>1. CallKnown(fetches'[m], Chats)
    BY <1>1 DEF KnownInv
  <2> QED
    BY <1>2, <2>1 DEF CallKnown, AnswerKnown, StateShaped
<1> QED
  BY <1>3, <1>4, <1>5 DEF KnownInv

\* A handler changes the state of its process.
LEMMA KnownChange ==
    ASSUME KnownInv, ShellInv, NEW n \in DOMAIN fetches, NEW p \in Up, NEW stage \in {"posted", "handled"},
           NEW state, Change(n, p, stage, state), DOMAIN state.conversations \subseteq Chats
    PROVE  KnownInv'
<1>1. /\ Moved(n) /\ fetches'[n].stage = stage /\ Up' = Up /\ tab' = tab
      /\ workspace'[p] = state /\ \A q \in Up \ {p} : workspace'[q] = workspace[q]
  BY ChangeMoves DEF ShellInv
<1>2. CallKnown(fetches'[n], Chats)
  <2>1. fetches'[n].op = fetches[n].op /\ fetches'[n].chat = fetches[n].chat
    BY <1>1, ChatStays
  <2> QED
    BY <1>1, <2>1 DEF KnownInv, CallKnown
<1>3. \A q \in Up : DOMAIN workspace'[q].conversations \subseteq Chats
  BY <1>1 DEF KnownInv, ChatsKnown
<1> QED
  BY <1>1, <1>2, <1>3, KnownGoesOn

\* The handlers that change the state keep the chats there are, but for the one that is created.
LEMMA KnownHandlers ==
    ASSUME KnownInv, ShellInv, NEW n \in DOMAIN fetches, NEW p \in Up,
           \/ SetActiveProject(n, p) \/ CreateChat(n, p) \/ MarkChatRead(n, p) \/ SubmitMessage(n, p)
           \/ RegisterAttachment(n, p) \/ SetMicrophone(n, p)
    PROVE  KnownInv'
<1>0. /\ DOMAIN workspace[p].conversations \subseteq Chats /\ Draft(n) \in Chats
      /\ StateTyped(workspace[p]) /\ PostsFit(workspace[p]) /\ FetchTyped(fetches[n]) /\ n \in Nat
  BY StateOf, CallOf DEF KnownInv, ChatsKnown, Chats
<1>1. CASE SetActiveProject(n, p)
  <2>1. PICK r : r = [workspace[p] EXCEPT !.project = fetches[n].arg]
    OBVIOUS
  <2>2. Change(n, p, "handled", r) /\ fetches[n].arg \in ProjectIds
    BY <1>0, <1>1, <2>1 DEF SetActiveProject, Serves, FetchTyped
  <2>3. r.conversations = workspace[p].conversations
    BY <1>0, <2>1, <2>2, ProjectState
  <2> QED
    BY <1>0, <2>2, <2>3, KnownChange
<1>2. CASE CreateChat(n, p)
  <2>1. PICK r : r = Opened(workspace[p], Draft(n))
    OBVIOUS
  <2>2. Change(n, p, "handled", r)
    BY <1>2, <2>1 DEF CreateChat
  <2>3. DOMAIN r.conversations = DOMAIN workspace[p].conversations \cup {Draft(n)}
    BY <1>0, <2>1, OpenedState
  <2> QED
    BY <1>0, <2>2, <2>3, KnownChange
<1>3. CASE MarkChatRead(n, p)
  <2>1. PICK r : r = Active(workspace[p], fetches[n].chat)
    OBVIOUS
  <2>2. Change(n, p, "handled", r) /\ fetches[n].chat \in DOMAIN workspace[p].conversations
    BY <1>3, <2>1 DEF MarkChatRead, Known
  <2>3. r.conversations = workspace[p].conversations
    BY <1>0, <2>1, <2>2, ActiveState
  <2> QED
    BY <1>0, <2>2, <2>3, KnownChange
<1>4. CASE SubmitMessage(n, p)
  <2>1. PICK r : r = Posted(workspace[p], fetches[n].chat, <<n, "user">>)
    OBVIOUS
  <2>2. Change(n, p, "posted", r) /\ fetches[n].chat \in DOMAIN workspace[p].conversations
    BY <1>4, <2>1 DEF SubmitMessage, Known
  <2>3. fetches[n].meant \in {fetches[n].chat, Anywhere} /\ "user" \in Writers
    BY <1>0, <1>4 DEF SubmitMessage, Serves, FetchTyped, Writers
  <2>4. DOMAIN r.conversations = DOMAIN workspace[p].conversations
    BY <1>0, <2>1, <2>2, <2>3, PostedState
  <2> QED
    BY <1>0, <2>2, <2>4, KnownChange
<1>5. CASE RegisterAttachment(n, p)
  <2>1. PICK r : r = AttachedTo(workspace[p], fetches[n].chat, fetches[n].arg)
    OBVIOUS
  <2>2. Change(n, p, "handled", r) /\ fetches[n].chat \in DOMAIN workspace[p].conversations
    BY <1>5, <2>1 DEF RegisterAttachment, Known, AttachedTo
  <2>3. DOMAIN r.conversations = DOMAIN workspace[p].conversations
    BY <1>0, <2>1, <2>2, AttachedState
  <2> QED
    BY <1>0, <2>2, <2>3, KnownChange
<1>6. CASE SetMicrophone(n, p)
  <2>1. PICK r : r = [workspace[p] EXCEPT !.microphone = fetches[n].arg]
    OBVIOUS
  <2>2. Change(n, p, "handled", r)
    BY <1>6, <2>1 DEF SetMicrophone
  <2>3. r.conversations = workspace[p].conversations
    BY <1>0, <2>1, <2>2, MicrophoneState
  <2> QED
    BY <1>0, <2>2, <2>3, KnownChange
<1> QED
  BY <1>1, <1>2, <1>3, <1>4, <1>5, <1>6

\* The second halves of two handlers.
LEMMA KnownSecondHalves ==
    ASSUME KnownInv, ShellInv, NEW n \in DOMAIN fetches, AssistantReply(n) \/ RecordAction(n)
    PROVE  KnownInv'
<1>1. PICK p : p = fetches[n].at
  OBVIOUS
<1>2. fetches[n].stage \in {"posted", "chosen"} /\ FetchTyped(fetches[n]) /\ StageFits(fetches[n]) /\ n \in Nat
  BY CallOf DEF AssistantReply, RecordAction
<1>3. p \in Up
  BY <1>1, <1>2 DEF StageFits, FetchOver
<1>4. DOMAIN workspace[p].conversations \subseteq Chats /\ StateTyped(workspace[p]) /\ PostsFit(workspace[p])
  BY <1>3, StateOf DEF KnownInv, ChatsKnown
<1>5. CASE AssistantReply(n)
  <2>1. PICK r : r = Posted(workspace[p], fetches[n].chat, <<n, "assistant">>)
    OBVIOUS
  <2>2. Change(n, p, "handled", r) /\ fetches[n].stage = "posted"
    BY <1>1, <1>5, <2>1 DEF AssistantReply
  <2>3. fetches[n].chat \in DOMAIN workspace[p].conversations /\ fetches[n].op = "message"
    BY <1>1, <1>2, <2>2 DEF StageFits
  <2>4. fetches[n].meant \in {fetches[n].chat, Anywhere} /\ "assistant" \in Writers
    BY <1>2, <2>3 DEF FetchTyped, Writers
  <2>5. DOMAIN r.conversations = DOMAIN workspace[p].conversations
    BY <1>2, <1>4, <2>1, <2>3, <2>4, PostedState
  <2> QED
    BY <1>3, <1>4, <2>2, <2>5, KnownChange
<1>6. CASE RecordAction(n)
  <2>1. PICK r : r = WithNote(workspace[p], fetches[n].caught, n)
    OBVIOUS
  <2>2. Change(n, p, "handled", r) /\ fetches[n].stage = "chosen"
    BY <1>1, <1>6, <2>1 DEF RecordAction, WithNote
  <2>3. fetches[n].caught \in DOMAIN workspace[p].conversations
    BY <1>1, <1>2, <2>2 DEF StageFits
  <2>4. DOMAIN r.conversations = DOMAIN workspace[p].conversations
    BY <1>4, <2>1, <2>3, NotedState
  <2> QED
    BY <1>3, <1>4, <2>2, <2>4, KnownChange
<1> QED
  BY <1>5, <1>6

\* A call that goes on changes neither a state nor a view.
LEMMA KnownCall ==
    ASSUME KnownInv, ShellInv, NEW n \in DOMAIN fetches, UNCHANGED <<workspace, tab>>,
           NEW f, fetches' = [fetches EXCEPT ![n] = f], FetchShaped(f),
           f.tab = fetches[n].tab, f.op = fetches[n].op, f.chat = fetches[n].chat,
           f.arg = fetches[n].arg, f.meant = fetches[n].meant,
           f.stage = "caught" => StateShaped(f.caught) /\ f.caught.conversations \subseteq Chats,
           f.stage = "answered" => AnswerKnown(f, Chats)
    PROVE  KnownInv'
<1>1. /\ fetches'[n] = f /\ fetches' = [m \in DOMAIN fetches |-> fetches'[m]]
      /\ \A m \in DOMAIN fetches \ {n} : fetches'[m] = fetches[m]
  OBVIOUS
<1>2. Moved(n)
  BY <1>1 DEF Moved, SameCall
<1>3. CallKnown(fetches'[n], Chats)
  BY <1>1 DEF KnownInv, CallKnown
<1>4. Up' = Up /\ \A q \in Up : DOMAIN workspace'[q].conversations \subseteq Chats
  BY DEF Up, KnownInv, ChatsKnown
<1> QED
  BY <1>2, <1>3, <1>4, KnownGoesOn

LEMMA KnownChooses ==
    ASSUME KnownInv, ShellInv, NEW n \in DOMAIN fetches, NEW p \in Up, ChooseActive(n, p)
    PROVE  KnownInv'
<1>1. PICK f : f = [fetches[n] EXCEPT !.stage = "chosen", !.at = p, !.caught = workspace[p].chat]
  OBVIOUS
<1>2. fetches' = [fetches EXCEPT ![n] = f] /\ UNCHANGED <<workspace, tab>>
  BY <1>1 DEF ChooseActive
<1>3. FetchShaped(fetches[n])
  BY CallOf DEF FetchTyped
<1>4. /\ FetchShaped(f) /\ f.stage = "chosen" /\ f.tab = fetches[n].tab /\ f.op = fetches[n].op
      /\ f.chat = fetches[n].chat /\ f.arg = fetches[n].arg /\ f.meant = fetches[n].meant
  BY <1>1, <1>3 DEF FetchShaped
<1> QED
  BY <1>2, <1>4, KnownCall

LEMMA KnownFails ==
    ASSUME KnownInv, ShellInv, NEW n \in DOMAIN fetches, (\E p \in Up : NotFound(n, p)) \/ Lose(n)
    PROVE  KnownInv'
<1>1. PICK f : /\ \/ f = [fetches[n] EXCEPT !.stage = "failed"]
                  \/ f = [fetches[n] EXCEPT !.stage = "failed", !.caught = Unset, !.answer = Unset]
               /\ fetches' = [fetches EXCEPT ![n] = f]
  BY DEF NotFound, Lose
<1>2. UNCHANGED <<workspace, tab>>
  BY DEF NotFound, Lose
<1>3. FetchShaped(fetches[n])
  BY CallOf DEF FetchTyped
<1>4. /\ FetchShaped(f) /\ f.stage = "failed" /\ f.tab = fetches[n].tab /\ f.op = fetches[n].op
      /\ f.chat = fetches[n].chat /\ f.arg = fetches[n].arg /\ f.meant = fetches[n].meant
  BY <1>1, <1>3 DEF FetchShaped
<1> QED
  BY <1>1, <1>2, <1>4, KnownCall

LEMMA KnownSnapshot ==
    ASSUME KnownInv, ShellInv, NEW n \in DOMAIN fetches, NEW p \in Up, Snapshot(n, p)
    PROVE  KnownInv'
<1>1. PICK seen : seen = SnapshotOf(workspace[p])
  OBVIOUS
<1>2. PICK f : f = [fetches[n] EXCEPT !.stage = "caught", !.at = p, !.caught = seen]
  OBVIOUS
<1>3. fetches' = [fetches EXCEPT ![n] = f] /\ UNCHANGED <<workspace, tab>>
  BY <1>1, <1>2 DEF Snapshot, SnapshotOf
<1>4. FetchShaped(fetches[n]) /\ StateShaped(workspace[p])
  BY CallOf, StateOf DEF FetchTyped, StateTyped
<1>5. /\ FetchShaped(f) /\ f.stage = "caught" /\ f.tab = fetches[n].tab /\ f.op = fetches[n].op
      /\ f.chat = fetches[n].chat /\ f.arg = fetches[n].arg /\ f.meant = fetches[n].meant
      /\ f.caught = seen
  BY <1>2, <1>4 DEF FetchShaped
<1>6. StateShaped(seen) /\ seen.conversations = DOMAIN workspace[p].conversations
  BY <1>1, <1>4 DEF StateShaped, SnapshotOf
<1>7. seen.conversations \subseteq Chats
  BY <1>6 DEF KnownInv, ChatsKnown
<1> QED
  BY <1>3, <1>5, <1>6, <1>7, KnownCall

\* The answer tells of chats there are.
LEMMA KnownRendering ==
    ASSUME KnownInv, ShellInv, NEW n \in DOMAIN fetches, NEW p \in Up, NEW answer,
           answer = Rendering(n, workspace[p]),
           fetches[n].op \in {"shell", "project"} => fetches[n].stage = "caught"
    PROVE  /\ fetches[n].op \in {"shell", "project"} => DOMAIN answer.conversations \subseteq Chats
           /\ fetches[n].op \in {"shell", "project", "create", "read", "message"} =>
                DOMAIN answer.badges \subseteq Chats
<1>1. /\ DOMAIN workspace[p].badges = DOMAIN workspace[p].conversations
      /\ DOMAIN workspace[p].conversations \subseteq Chats
  BY StateOf DEF StateTyped, KnownInv, ChatsKnown
<1>2. PICK B, C, seen : B = workspace[p].badges /\ C = workspace[p].conversations /\ seen = fetches[n].caught
  OBVIOUS
<1>3. CASE fetches[n].op \in {"shell", "project"}
  <2>1. StateShaped(seen) /\ seen.conversations \subseteq Chats
    BY <1>2, <1>3 DEF KnownInv, CallKnown
  <2>2. PICK X : X = [c \in seen.conversations |-> C[c]]
    OBVIOUS
  <2>3. answer = [seen EXCEPT !.badges = B, !.conversations = [c \in @ |-> C[c]]]
    BY <1>2, <1>3, Zenon DEF Rendering
  <2>4. PICK one : one = [seen EXCEPT !.badges = B]
    OBVIOUS
  <2>5. one.conversations = seen.conversations /\ DOMAIN one = DOMAIN seen /\ one.badges = B
        /\ DOMAIN seen = {"conversations", "badges", "project", "chat", "microphone"}
    BY <2>1, <2>4 DEF StateShaped
  <2>6. answer = [one EXCEPT !.conversations = X]
    BY <2>2, <2>3, <2>4, <2>5
  <2>7. answer.conversations = X /\ answer.badges = B
    BY <2>5, <2>6
  <2>8. DOMAIN X = seen.conversations
    BY <2>2
  <2> QED
    BY <1>1, <1>2, <2>1, <2>7, <2>8
<1>4. CASE fetches[n].op \in {"create", "read", "message"}
  <2>1. answer = [conversation |-> workspace[p].conversations[ChatOf(n)], badges |-> workspace[p].badges]
    BY <1>4, Zenon DEF Rendering
  <2> QED
    BY <1>1, <1>4, <2>1
<1> QED
  BY <1>3, <1>4

LEMMA KnownResponds ==
    ASSUME KnownInv, ShellInv, NEW n \in DOMAIN fetches, Respond(n)
    PROVE  KnownInv'
<1>0. PICK p \in Up : p = fetches[n].at
  BY CallOf DEF StageFits, Respond, FetchOver
<1>1. PICK answer : answer = Rendering(n, workspace[p])
  OBVIOUS
<1>2. PICK f : f = [fetches[n] EXCEPT !.stage = "answered", !.caught = Unset, !.answer = answer]
  OBVIOUS
<1>3. /\ fetches' = [fetches EXCEPT ![n] = f] /\ UNCHANGED <<workspace, tab>>
      /\ fetches[n].op \in {"shell", "project"} => fetches[n].stage = "caught"
  BY <1>0, <1>1, <1>2 DEF Respond
<1>4. FetchShaped(fetches[n])
  BY CallOf DEF FetchTyped
<1>5. /\ FetchShaped(f) /\ f.stage = "answered" /\ f.tab = fetches[n].tab /\ f.op = fetches[n].op
      /\ f.chat = fetches[n].chat /\ f.arg = fetches[n].arg /\ f.meant = fetches[n].meant
      /\ f.answer = answer
  BY <1>2, <1>4 DEF FetchShaped
<1>6. AnswerKnown(f, Chats)
  BY <1>1, <1>3, <1>5, KnownRendering DEF AnswerKnown
<1> QED
  BY <1>3, <1>5, <1>6, KnownCall

LEMMA KnownRestart ==
    ASSUME KnownInv, ShellInv, NEW p \in Up, Restart(p)
    PROVE  KnownInv'
<1>1. /\ workspace' = [workspace EXCEPT ![p] = Seed] /\ tab' = tab
      /\ fetches' = [n \in DOMAIN fetches |->
                      IF fetches[n].at = p /\ fetches[n].stage \in {"posted", "chosen", "handled", "caught"}
                      THEN [fetches[n] EXCEPT !.stage = "failed", !.caught = Unset] ELSE fetches[n]]
  BY DEF Restart
<1>2. DOMAIN fetches' = DOMAIN fetches /\ Chats' = Chats /\ Up' = Up
  BY <1>1 DEF Chats, Up
<1>3. ChatsKnown'
  <2>1. DOMAIN Seed.conversations = SeedChats /\ SeedChats \subseteq Chats
    BY DEF Seed, Chats
  <2> QED
    BY <1>1, <1>2, <2>1 DEF Up, KnownInv, ChatsKnown
<1>4. \A t \in Tabs : ViewKnown(tab[t], Chats)'
  BY <1>1, <1>2 DEF KnownInv, ViewKnown, Shows
<1>5. ASSUME NEW n \in DOMAIN fetches PROVE CallKnown(fetches[n], Chats)'
  <2>1. CallKnown(fetches[n], Chats) /\ FetchShaped(fetches[n])
    BY CallOf DEF KnownInv, FetchTyped
  <2>2. CASE fetches'[n] = fetches[n]
    BY <1>2, <2>1, <2>2 DEF CallKnown, AnswerKnown, StateShaped
  <2>3. CASE fetches'[n] = [fetches[n] EXCEPT !.stage = "failed", !.caught = Unset]
    <3>1. fetches'[n].op = fetches[n].op /\ fetches'[n].chat = fetches[n].chat /\ fetches'[n].stage = "failed"
      BY <2>1, <2>3 DEF FetchShaped
    <3> QED
      BY <1>2, <2>1, <3>1 DEF CallKnown
  <2> QED
    BY <1>1, <2>2, <2>3
<1> QED
  BY <1>2, <1>3, <1>4, <1>5 DEF KnownInv
\* What is known stays known when there are more calls.
LEMMA KnownGrows ==
    ASSUME KnownInv, NEW C, Chats \subseteq C
    PROVE  /\ \A p \in Up : DOMAIN workspace[p].conversations \subseteq C
           /\ \A t \in Tabs : ViewKnown(tab[t], C)
           /\ \A n \in DOMAIN fetches : CallKnown(fetches[n], C)
BY DEF KnownInv, ChatsKnown, ViewKnown, CallKnown, AnswerKnown

\* A view of known chats, as it is shown.
LEMMA KnownRendered ==
    ASSUME NEW v, ViewTyped(v), NEW C, DOMAIN v.conversations \subseteq C, DOMAIN v.badges \subseteq C,
           v.meant \in C \cup {Unset, Anywhere}, NEW r, r = Rendered(v)
    PROVE  ViewKnown(r, C)
<1>1. CASE Shows(v)
  BY <1>1 DEF Rendered, ViewKnown
<1>2. CASE ~Shows(v)
  <2>1. r = [v EXCEPT !.meant = Unset]
    BY <1>2 DEF Rendered
  <2>2. r.conversations = v.conversations /\ r.badges = v.badges /\ r.meant = Unset
    BY <2>1 DEF ViewTyped
  <2> QED
    BY <2>2 DEF ViewKnown
<1> QED
  BY <1>1, <1>2

\* A tab sends a call.
LEMMA KnownSend ==
    ASSUME KnownInv, ShellInv, NEW t \in Tabs, NEW op, NEW chat, NEW arg, NEW meant, NEW view,
           Send(t, op, chat, arg, meant, view), ViewTyped(view),
           op \in {"read", "message", "attach", "action"} => chat \in Chats,
           view.conversations = tab[t].conversations, view.badges = tab[t].badges,
           view.meant \in Chats \cup {Unset, Anywhere}
    PROVE  KnownInv'
<1>1. PICK e, N : e = FetchOf(t, op, chat, arg, meant) /\ N = Len(fetches) + 1
  OBVIOUS
<1>2. fetches' = Append(fetches, e) /\ tab' = [tab EXCEPT ![t] = Rendered(view)] /\ workspace' = workspace
  BY <1>1 DEF Send
<1>3. e.op = op /\ e.chat = chat /\ e.stage = "sent"
  BY <1>1 DEF FetchOf
<1>4. DOMAIN fetches' = DOMAIN fetches \cup {N} /\ fetches'[N] = e
      /\ \A m \in DOMAIN fetches : fetches'[m] = fetches[m]
  BY <1>1, <1>2, AppendList DEF ShellInv, ShellTyped, FetchesTyped
<1>5. Chats \subseteq Chats' /\ Up' = Up
  BY <1>2, <1>4 DEF Chats, Up
<1>6. /\ \A p \in Up : DOMAIN workspace[p].conversations \subseteq Chats'
      /\ \A u \in Tabs : ViewKnown(tab[u], Chats')
      /\ \A n \in DOMAIN fetches : CallKnown(fetches[n], Chats')
  BY <1>5, KnownGrows
<1>7. ChatsKnown'
  BY <1>2, <1>5, <1>6 DEF ChatsKnown
<1>8. ASSUME NEW u \in Tabs PROVE ViewKnown(tab[u], Chats)'
  <2>1. ViewKnown(tab'[u], Chats')
    <3>1. CASE u = t
      <4>1. tab'[t] = Rendered(view)
        BY <1>2 DEF ShellInv, ShellTyped, ViewsTyped
      <4>2. DOMAIN view.conversations \subseteq Chats' /\ DOMAIN view.badges \subseteq Chats'
        BY <1>6 DEF ViewKnown
      <4>3. view.meant \in Chats' \cup {Unset, Anywhere}
        BY <1>5
      <4> QED
        BY <3>1, <4>1, <4>2, <4>3, KnownRendered
    <3>2. CASE u # t
      BY <1>2, <1>6, <3>2 DEF ShellInv, ShellTyped, ViewsTyped
    <3> QED
      BY <3>1, <3>2
  <2> QED
    BY <2>1 DEF ViewKnown, Shows
<1>9. ASSUME NEW n \in DOMAIN fetches' PROVE CallKnown(fetches[n], Chats)'
  <2>1. CallKnown(fetches'[n], Chats')
    <3>1. CASE n = N
      BY <1>3, <1>4, <1>5, <3>1 DEF CallKnown
    <3>2. CASE n \in DOMAIN fetches
      BY <1>4, <1>6, <3>2
    <3> QED
      BY <1>4, <3>1, <3>2
  <2> QED
    BY <2>1 DEF CallKnown, AnswerKnown, StateShaped
<1> QED
  BY <1>7, <1>8, <1>9 DEF KnownInv

\* What is typed is meant for a chat there is.
LEMMA KnownBegun ==
    ASSUME KnownInv, NEW t \in Tabs, Shows(tab[t])
    PROVE  tab[t].chat \in Chats /\ Begun(t) \in Chats \cup {Unset, Anywhere}
BY DEF KnownInv, ViewKnown, Shows, Begun

LEMMA KnownUser ==
    ASSUME KnownInv, ShellInv, NEW t \in Tabs,
           \/ NewChat(t) \/ SubmitText(t) \/ ToggleMicrophone(t) \/ ActOnMessage(t)
           \/ \E p \in ProjectIds : ChangeProject(t, p)
           \/ \E c \in DOMAIN tab[t].badges : SelectChat(t, c)
           \/ \E f \in Files : AttachFile(t, f)
    PROVE  KnownInv'
<1>1. /\ ViewTyped(tab[t]) /\ tab[t].meant \in Chats \cup {Unset, Anywhere}
      /\ DOMAIN tab[t].badges \subseteq Chats
  BY ViewOf DEF KnownInv, ViewKnown
<1>2. CASE NewChat(t)
  <2>1. PICK view : view = [tab[t] EXCEPT !.meant = IF @ = Unset THEN Unset ELSE Anywhere]
    OBVIOUS
  <2>2. Send(t, "create", Unset, tab[t].project, Unset, view)
    BY <1>2, <2>1 DEF NewChat
  <2>3. /\ ViewTyped(view) /\ view.conversations = tab[t].conversations /\ view.badges = tab[t].badges
        /\ view.meant \in {Unset, Anywhere}
    BY <1>1, <2>1 DEF ViewTyped
  <2> QED
    BY <2>2, <2>3, KnownSend
<1>3. CASE SubmitText(t)
  <2>1. PICK view, meant : /\ view = [tab[t] EXCEPT !.meant = Unset]
                           /\ meant = IF t \in disturbed THEN Anywhere ELSE tab[t].meant
    OBVIOUS
  <2>2. Send(t, "message", tab[t].chat, tab[t].project, meant, view) /\ Shows(tab[t])
    BY <1>3, <2>1 DEF SubmitText
  <2>3. /\ ViewTyped(view) /\ view.conversations = tab[t].conversations /\ view.badges = tab[t].badges
        /\ view.meant = Unset
    BY <1>1, <2>1 DEF ViewTyped
  <2> QED
    BY <2>2, <2>3, KnownBegun, KnownSend
<1>4. CASE ToggleMicrophone(t)
  BY <1>1, <1>4, KnownSend DEF ToggleMicrophone
<1>5. CASE ActOnMessage(t)
  <2>1. Send(t, "action", tab[t].chat, Unset, Unset, tab[t]) /\ Shows(tab[t])
    BY <1>5 DEF ActOnMessage
  <2> QED
    BY <1>1, <2>1, KnownBegun, KnownSend
<1>6. ASSUME NEW p \in ProjectIds, ChangeProject(t, p) PROVE KnownInv'
  <2>1. PICK view : view = [tab[t] EXCEPT !.project = p]
    OBVIOUS
  <2>2. Send(t, "project", Unset, p, Unset, view)
    BY <1>6, <2>1 DEF ChangeProject
  <2>3. /\ ViewTyped(view) /\ view.conversations = tab[t].conversations /\ view.badges = tab[t].badges
        /\ view.meant = tab[t].meant
    BY <1>1, <2>1 DEF ViewTyped
  <2> QED
    BY <1>1, <2>2, <2>3, KnownSend
<1>7. ASSUME NEW c \in DOMAIN tab[t].badges, SelectChat(t, c) PROVE KnownInv'
  <2>1. PICK view : view = Selected(tab[t], c)
    OBVIOUS
  <2>2. Send(t, "read", c, Unset, Unset, view) /\ c \in Chats
    BY <1>1, <1>7, <2>1 DEF SelectChat
  <2>3. /\ ViewTyped(view) /\ view.conversations = tab[t].conversations /\ view.badges = tab[t].badges
        /\ view.meant \in {Unset, c}
    BY <1>1, <2>1 DEF ViewTyped, Selected
  <2> QED
    BY <2>2, <2>3, KnownSend
<1>8. ASSUME NEW f \in Files, AttachFile(t, f) PROVE KnownInv'
  <2>1. PICK view : view = [tab[t] EXCEPT !.meant = Begun(t)]
    OBVIOUS
  <2>2. Send(t, "attach", tab[t].chat, f, Unset, view) /\ Shows(tab[t])
    BY <1>8, <2>1 DEF AttachFile
  <2>3. /\ ViewTyped(view) /\ view.conversations = tab[t].conversations /\ view.badges = tab[t].badges
        /\ view.meant = Begun(t)
    BY <1>1, <2>1 DEF ViewTyped
  <2> QED
    BY <2>2, <2>3, KnownBegun, KnownSend
<1> QED
  BY <1>2, <1>3, <1>4, <1>5, <1>6, <1>7, <1>8

LEMMA KnownType ==
    ASSUME KnownInv, ShellInv, NEW t \in Tabs, Type(t)
    PROVE  KnownInv'
<1>1. PICK v : v = [tab[t] EXCEPT !.meant = Begun(t)]
  OBVIOUS
<1>2. tab' = [tab EXCEPT ![t] = v] /\ UNCHANGED <<workspace, fetches>> /\ Shows(tab[t])
  BY <1>1 DEF Type
<1>3. Chats' = Chats /\ Up' = Up
  BY <1>2 DEF Chats, Up
<1>4. ViewKnown(v, Chats)
  <2>1. /\ v.conversations = tab[t].conversations /\ v.badges = tab[t].badges /\ v.meant = Begun(t)
        /\ v.project = tab[t].project /\ v.chat = tab[t].chat
    BY <1>1, ViewOf DEF ViewTyped
  <2> QED
    BY <1>2, <2>1, KnownBegun DEF KnownInv, ViewKnown, Shows
<1>5. ASSUME NEW u \in Tabs PROVE ViewKnown(tab[u], Chats)'
  <2>1. ViewKnown(tab'[u], Chats)
    BY <1>2, <1>4 DEF KnownInv, ShellInv, ShellTyped, ViewsTyped
  <2> QED
    BY <1>3, <2>1 DEF ViewKnown, Shows
<1>6. ChatsKnown' /\ \A n \in DOMAIN fetches' : CallKnown(fetches[n], Chats)'
  BY <1>2, <1>3 DEF KnownInv, ChatsKnown, CallKnown, AnswerKnown, StateShaped
<1> QED
  BY <1>5, <1>6 DEF KnownInv
\* What an answer makes of a view of known chats.
LEMMA KnownApplied ==
    ASSUME NEW n \in DOMAIN fetches, CallKnown(fetches[n], Chats), fetches[n].stage = "answered",
           fetches[n].op \in ShellOps, NEW v, ViewTyped(v), ViewKnown(v, Chats), NEW r, r = Applied(n, v)
    PROVE  /\ DOMAIN r.conversations \subseteq Chats /\ DOMAIN r.badges \subseteq Chats
           /\ r.meant = v.meant
<1>1. PICK f, c : f = fetches[n] /\ c = ChatOf(n)
  OBVIOUS
<1>2. f.op \in {"create", "read", "message", "attach"} => c \in Chats
  BY <1>1 DEF ChatOf, CallKnown, Chats
<1>3. AnswerKnown(f, Chats) /\ DOMAIN v.conversations \subseteq Chats /\ DOMAIN v.badges \subseteq Chats
  BY <1>1 DEF CallKnown, ViewKnown
<1>4. CASE f.op \in {"shell", "project"}
  <2>1. r = SynchroniseShell(v, f.answer)
    BY <1>1, <1>4, Zenon DEF Applied
  <2>2. r.conversations = f.answer.conversations /\ r.badges = f.answer.badges /\ r.meant = v.meant
    BY <2>1 DEF SynchroniseShell, ViewTyped
  <2> QED
    BY <1>3, <1>4, <2>2 DEF AnswerKnown
<1>5. CASE f.op \in {"create", "read", "message"}
  <2>1. r = ApplyConversationUpdate(v, c, f.answer)
    BY <1>1, <1>5, Zenon DEF Applied
  <2>2. PICK x : x = Put(v.conversations, c, f.answer.conversation)
    OBVIOUS
  <2>3. r.conversations = x /\ r.badges = f.answer.badges /\ r.meant = v.meant
    BY <2>1, <2>2 DEF ApplyConversationUpdate, ViewTyped
  <2>4. DOMAIN x = DOMAIN v.conversations \cup {c}
    BY <2>2, PutSameBut
  <2> QED
    BY <1>2, <1>3, <1>5, <2>3, <2>4 DEF AnswerKnown
<1>6. CASE f.op = "attach"
  <2>1. PICK x : x = Put(v.conversations, c, f.answer.conversation)
    OBVIOUS
  <2>2. r = [v EXCEPT !.conversations = x]
    BY <1>1, <1>6, <2>1, Zenon DEF Applied
  <2>3. r.conversations = x /\ r.badges = v.badges /\ r.meant = v.meant
    BY <2>2 DEF ViewTyped
  <2>4. DOMAIN x = DOMAIN v.conversations \cup {c}
    BY <2>1, PutSameBut
  <2> QED
    BY <1>2, <1>3, <1>6, <2>3, <2>4
<1>7. CASE f.op = "microphone"
  <2>1. r = [v EXCEPT !.microphone = f.arg]
    BY <1>1, <1>7, Zenon DEF Applied
  <2> QED
    BY <1>3, <2>1 DEF ViewTyped
<1>8. CASE f.op = "action"
  <2>1. r = [v EXCEPT !.chat = f.chat]
    BY <1>1, <1>8, Zenon DEF Applied
  <2> QED
    BY <1>3, <2>1 DEF ViewTyped
<1> QED
  BY <1>1, <1>4, <1>5, <1>6, <1>7, <1>8 DEF ShellOps

LEMMA KnownReceive ==
    ASSUME KnownInv, ShellInv, NEW n \in DOMAIN fetches, Receive(n)
    PROVE  KnownInv'
<1>0. PICK t \in Tabs : t = fetches[n].tab
  BY CallOf DEF FetchTyped
<1>1. PICK d, done, e, r, N :
        /\ d = [fetches[n] EXCEPT !.stage = "done", !.answer = Unset]
        /\ done = [fetches EXCEPT ![n] = d]
        /\ e = FetchOf(t, "read", fetches[n].chat, Unset, Unset)
        /\ r = Applied(n, tab[t]) /\ N = Len(fetches) + 1
  OBVIOUS
<1>2. /\ fetches[n].stage = "answered" /\ tab' = [tab EXCEPT ![t] = Rendered(r)] /\ workspace' = workspace
      /\ fetches' = IF fetches[n].op = "action" THEN Append(done, e) ELSE done
  BY <1>0, <1>1 DEF Receive
<1>3. /\ ShellTyped /\ ViewTyped(tab[t]) /\ FetchShaped(fetches[n]) /\ fetches[n].op \in ShellOps
      /\ IsList(fetches)
  BY CallOf, ViewOf DEF ShellInv, ShellTyped, FetchesTyped, FetchTyped
<1>4. d.stage = "done" /\ d.op = fetches[n].op /\ d.chat = fetches[n].chat
  BY <1>1, <1>3 DEF FetchShaped
<1>5. e.op = "read" /\ e.chat = fetches[n].chat /\ e.stage = "sent"
  BY <1>1 DEF FetchOf
<1>6. /\ DOMAIN done = DOMAIN fetches /\ done[n] = d
      /\ \A m \in DOMAIN fetches \ {n} : done[m] = fetches[m]
  BY <1>1
<1>7. IsList(done) /\ Len(done) = Len(fetches)
  <2>1. PICK k \in Nat : fetches = [i \in 1 .. k |-> fetches[i]]
    BY <1>3 DEF IsList
  <2>2. done = [i \in 1 .. k |-> done[i]]
    BY <1>1, <2>1
  <2> QED
    BY <2>1, <2>2 DEF IsList
<1>8. /\ DOMAIN fetches \subseteq DOMAIN fetches' /\ \A m \in DOMAIN fetches : fetches'[m] = done[m]
      /\ \A m \in DOMAIN fetches' \ DOMAIN fetches : fetches'[m] = e /\ fetches[n].op = "action"
  <2>1. /\ DOMAIN Append(done, e) = DOMAIN fetches \cup {N}
        /\ Append(done, e)[N] = e /\ \A m \in DOMAIN fetches : Append(done, e)[m] = done[m]
    BY <1>1, <1>6, <1>7, AppendList
  <2> QED
    BY <1>2, <1>6, <2>1
<1>9. Chats \subseteq Chats' /\ Up' = Up
  BY <1>2, <1>8 DEF Chats, Up
<1>10. /\ \A p \in Up : DOMAIN workspace[p].conversations \subseteq Chats'
       /\ \A u \in Tabs : ViewKnown(tab[u], Chats')
       /\ \A m \in DOMAIN fetches : CallKnown(fetches[m], Chats')
  BY <1>9, KnownGrows
<1>11. ChatsKnown'
  BY <1>2, <1>9, <1>10 DEF ChatsKnown
<1>12. CallKnown(fetches[n], Chats) /\ ViewKnown(tab[t], Chats)
  BY DEF KnownInv
<1>13. /\ ViewTyped(r) /\ DOMAIN r.conversations \subseteq Chats /\ DOMAIN r.badges \subseteq Chats
       /\ r.meant \in Chats \cup {Unset, Anywhere}
  <2>1. ViewTyped(r)
    BY <1>1, <1>3, AppliedTyped
  <2> QED
    BY <1>1, <1>2, <1>3, <1>12, <2>1, KnownApplied DEF ViewKnown
<1>14. ASSUME NEW u \in Tabs PROVE ViewKnown(tab[u], Chats)'
  <2>1. ViewKnown(tab'[u], Chats')
    <3>1. CASE u = t
      <4>1. tab'[t] = Rendered(r)
        BY <1>2, <1>3 DEF ShellTyped, ViewsTyped
      <4>2. /\ DOMAIN r.conversations \subseteq Chats' /\ DOMAIN r.badges \subseteq Chats'
            /\ r.meant \in Chats' \cup {Unset, Anywhere}
        BY <1>9, <1>13
      <4> QED
        BY <1>13, <3>1, <4>1, <4>2, KnownRendered
    <3>2. CASE u # t
      BY <1>2, <1>3, <1>10, <3>2 DEF ShellTyped, ViewsTyped
    <3> QED
      BY <3>1, <3>2
  <2> QED
    BY <2>1 DEF ViewKnown, Shows
<1>15. ASSUME NEW m \in DOMAIN fetches' PROVE CallKnown(fetches[m], Chats)'
  <2>1. CallKnown(fetches'[m], Chats')
    <3>1. CASE m = n
      <4>1. fetches'[m] = d /\ CallKnown(fetches[n], Chats')
        BY <1>6, <1>8, <1>10, <3>1
      <4> QED
        BY <1>4, <4>1 DEF CallKnown
    <3>2. CASE m \in DOMAIN fetches \ {n}
      BY <1>6, <1>8, <1>10, <3>2
    <3>3. CASE m \notin DOMAIN fetches
      <4>1. fetches'[m] = e /\ fetches[n].op = "action" /\ CallKnown(fetches[n], Chats')
        BY <1>8, <1>10, <3>3
      <4> QED
        BY <1>5, <4>1 DEF CallKnown
    <3> QED
      BY <3>1, <3>2, <3>3
  <2> QED
    BY <2>1 DEF CallKnown, AnswerKnown, StateShaped
<1> QED
  BY <1>11, <1>14, <1>15 DEF KnownInv

LEMMA KnownStarts == ASSUME ShellInit PROVE KnownInv
<1>1. PICK up \in SUBSET Servers : workspace = [p \in up |-> Seed]
  BY DEF ShellInit
<1>2. PICK order : fetches = [i \in DOMAIN order |-> FetchOf(order[i], "shell", Unset, Unset, Unset)]
  BY DEF ShellInit
<1>3. ChatsKnown
  <2>1. DOMAIN Seed.conversations = SeedChats
    BY DEF Seed
  <2> QED
    BY <1>1, <2>1 DEF ChatsKnown, Up, Chats
<1>4. \A t \in Tabs : ViewKnown(tab[t], Chats)
  <2>1. DOMAIN NotLoaded.conversations = {} /\ DOMAIN NotLoaded.badges = {} /\ NotLoaded.meant = Unset
    BY DEF NotLoaded
  <2> QED
    BY <2>1 DEF ShellInit, ViewKnown
<1>5. ASSUME NEW n \in DOMAIN fetches PROVE CallKnown(fetches[n], Chats)
  <2>1. fetches[n].op = "shell" /\ fetches[n].stage = "sent"
    BY <1>2 DEF FetchOf
  <2> QED
    BY <2>1 DEF CallKnown
<1> QED
  BY <1>3, <1>4, <1>5 DEF KnownInv

LEMMA KnownStutters == ASSUME KnownInv, UNCHANGED shellVars PROVE KnownInv'
<1>1. workspace' = workspace /\ tab' = tab /\ fetches' = fetches /\ Up' = Up /\ Chats' = Chats
  BY DEF shellVars, Up, Chats
<1> QED
  BY <1>1 DEF KnownInv, ChatsKnown, ViewKnown, CallKnown, AnswerKnown, Shows, StateShaped

LEMMA KnownStep == ASSUME KnownInv, ShellInv, ShellNext PROVE KnownInv'
<1>1. ASSUME NEW t \in Tabs, User(t) PROVE KnownInv'
  BY <1>1, KnownType, KnownUser DEF User
<1>2. ASSUME NEW n \in DOMAIN fetches, AssistantReply(n) \/ RecordAction(n) \/ Respond(n) \/ Receive(n) \/ Lose(n)
      PROVE  KnownInv'
  BY <1>2, KnownSecondHalves, KnownResponds, KnownReceive, KnownFails
<1>3. ASSUME NEW n \in DOMAIN fetches, NEW p \in Up, Handle(n, p) PROVE KnownInv'
  BY <1>3, KnownHandlers, KnownChooses, KnownFails, KnownSnapshot DEF Handle
<1> QED
  BY <1>1, <1>2, <1>3, KnownRestart DEF ShellNext

LEMMA KnownMeans == ShellInv /\ KnownInv => ShellTypeOK
<1> SUFFICES ASSUME ShellInv, KnownInv PROVE ShellTypeOK
  OBVIOUS
<1>1. ASSUME NEW p \in Up
      PROVE  /\ DOMAIN workspace[p].conversations = DOMAIN workspace[p].badges
             /\ workspace[p].chat \in DOMAIN workspace[p].conversations
             /\ SeedChats \subseteq DOMAIN workspace[p].conversations /\ workspace[p].project \in ProjectIds
  BY StateOf DEF StateTyped
<1>2. \A n \in DOMAIN fetches : fetches[n].stage \in ShellStages
  BY CallOf DEF StageFits
<1>3. events \in 0 .. MaxEvents /\ disturbed \subseteq Tabs
  BY DEF ShellInv, ShellTyped
<1> QED
  BY <1>1, <1>2, <1>3 DEF ShellTypeOK, KnownInv, ViewKnown, ShellStages

\* What a tab shows and what is typed in it names seeded or created chats, and every call is in
\* a stage of its handler, whatever calls overlap, fail or are answered after a restart
\* (WorkspaceShell.ShellTypeOK; App.jsx:31-160, workspace.py:90-330).
THEOREM ShellTypes == ShellSpec => []ShellTypeOK
<1>1. ShellInit => ShellInv /\ KnownInv
  BY ShellInvInit, KnownStarts
<1>2. ShellInv /\ KnownInv /\ [ShellNext]_shellVars => ShellInv' /\ KnownInv'
  BY ShellInvStep, ShellInvStutter, KnownStep, KnownStutters
<1> QED
  BY <1>1, <1>2, KnownMeans, PTL DEF ShellSpec
-----------------------------------------------------------------------------
(* WebPanels: the types                                                     *)

\* A panel, its requests and its flags are well formed (WebPanels.PanelTypeOK).
LEMMA PanelTypesFollow == PanelInv => PanelTypeOK
<1> SUFFICES ASSUME PanelInv PROVE PanelTypeOK
  OBVIOUS
<1>1. PanelTypes /\ FieldSets(crossing, fallen) /\ SpinInv
  BY DEF PanelInv
<1>2. panel \in {p.name : p \in Panels}
  BY <1>1 DEF PanelTypes
<1>3. \A r \in flights : r.op \in DOMAIN It.ops /\ r.key \in PanelKeys /\ r.hold \in Holds
  BY <1>1 DEF PanelTypes, FlightsTyped
<1>4. busy \subseteq (UNION {{op.flag, op.hold} : op \in Ops(It)}) \ {"none"}
  <2>1. CASE key = "unmounted"
    <3>1. busy = It.starts /\ StartsEnd(It)
      BY <1>1, <1>2, <2>1, ItHasFacts DEF SpinInv, PanelFacts
    <3> SUFFICES ASSUME NEW b \in busy
                 PROVE  b # "none" /\ \E op \in Ops(It) : b \in {op.flag, op.hold}
      OBVIOUS
    <3>2. b = "loading" /\ \E o \in DOMAIN It.ops : It.ops[o].flag = "loading"
      BY <3>1 DEF StartsEnd
    <3> QED
      BY <3>2 DEF Ops
  <2>2. CASE key # "unmounted"
    <3> SUFFICES ASSUME NEW b \in busy
                 PROVE  b # "none" /\ \E op \in Ops(It) : b \in {op.flag, op.hold}
      OBVIOUS
    <3>1. b # "none" /\ \E r \in flights : b \in {OpOf(r).flag, r.hold}
      BY <1>1, <2>2 DEF SpinInv, SpinsFor
    <3>2. PICK r \in flights : b \in {OpOf(r).flag, r.hold}
      BY <3>1
    <3>3. OpOf(r) \in Ops(It)
      BY <1>3 DEF OpOf, Ops
    <3>4. r.hold = "none" \/ \E op \in Ops(It) : r.hold = op.hold
      BY <1>3 DEF Holds
    <3> QED
      BY <3>1, <3>2, <3>3, <3>4
  <2> QED
    BY <2>1, <2>2
<1>5. DOMAIN shown = FieldsOf(It) /\ DOMAIN newest = FieldsOf(It)
  BY <1>1 DEF PanelTypes, StampsTyped
<1>6. crossing \cup fallen \subseteq FieldsOf(It)
  BY <1>1 DEF FieldSets, FieldsOf
<1> QED
  BY <1>1, <1>3, <1>4, <1>5, <1>6 DEF PanelTypes, PanelKeys, PanelTypeOK

-----------------------------------------------------------------------------
(* The components of MCDocuments side by side                               *)

\* Every behaviour of the components side by side is one of each of them, which rests or takes
\* its steps; the shell starts with nothing where it rests.
LEMMA EachRunsItsSteps ==
    /\ DocumentsInit => /\ VectorInit /\ EngineInit /\ ConsoleInit /\ SearchInit /\ PanelInit
                        /\ RowsInit /\ ReportInit /\ DriveInit
                        /\ part = "shell" => ShellInit
                        /\ part # "shell" => workspace = <<>> /\ fetches = <<>>
    /\ [DocumentsNext]_<<part, indexVars, viewVars, numberVars>> =>
         /\ part' = part /\ (part # "shell" => UNCHANGED shellVars)
         /\ [VectorNext]_vectorVars /\ [EngineNext]_engineVars /\ [ConsoleNext]_consoleVars
         /\ [SearchNext]_searchVars /\ [PanelNext]_panelVars /\ [RowsNext]_rowsVars
         /\ [ReportNext]_reportVars /\ [DriveNext]_driveVars /\ [ShellNext]_shellVars
<1>1. DocumentsInit => /\ VectorInit /\ EngineInit /\ ConsoleInit /\ SearchInit /\ PanelInit
                       /\ RowsInit /\ ReportInit /\ DriveInit
                       /\ part = "shell" => ShellInit
                       /\ part # "shell" => workspace = <<>> /\ fetches = <<>>
  BY DEF DocumentsInit
<1>2. ASSUME [DocumentsNext]_<<part, indexVars, viewVars, numberVars>>
      PROVE  /\ part' = part /\ (part # "shell" => UNCHANGED shellVars)
             /\ [VectorNext]_vectorVars /\ [EngineNext]_engineVars /\ [ConsoleNext]_consoleVars
             /\ [SearchNext]_searchVars /\ [PanelNext]_panelVars /\ [RowsNext]_rowsVars
             /\ [ReportNext]_reportVars /\ [DriveNext]_driveVars /\ [ShellNext]_shellVars
  BY <1>2 DEF DocumentsNext, indexVars, viewVars, numberVars
<1> QED
  BY <1>1, <1>2

LEMMA EachIsItself ==
    DocumentsSpec => /\ VectorSpec /\ EngineSpec /\ ConsoleSpec /\ SearchSpec
                     /\ PanelSpec /\ RowsSpec /\ ReportSpec /\ DriveSpec
<1>1. DocumentsSpec => VectorSpec /\ EngineSpec /\ ConsoleSpec /\ SearchSpec
  BY EachRunsItsSteps, PTL DEF DocumentsSpec, VectorSpec, EngineSpec, ConsoleSpec, SearchSpec
<1>2. DocumentsSpec => PanelSpec /\ RowsSpec /\ ReportSpec /\ DriveSpec
  BY EachRunsItsSteps, PTL DEF DocumentsSpec, PanelSpec, RowsSpec, ReportSpec, DriveSpec
<1> QED
  BY <1>1, <1>2

\* The shell, which runs or has neither processes nor calls.
ShellPart ==
    /\ part = "shell" => ShellInv /\ KnownInv
    /\ part # "shell" => workspace = <<>> /\ fetches = <<>>

LEMMA ShellPartAlways == DocumentsSpec => []ShellPart
<1>1. DocumentsInit => ShellPart
  BY EachRunsItsSteps, ShellInvInit, KnownStarts DEF ShellPart
<1>2. ASSUME ShellPart, [DocumentsNext]_<<part, indexVars, viewVars, numberVars>> PROVE ShellPart'
  <2>1. part' = part /\ (part # "shell" => UNCHANGED shellVars) /\ [ShellNext]_shellVars
    BY <1>2, EachRunsItsSteps
  <2>2. CASE part = "shell"
    BY <1>2, <2>1, <2>2, ShellInvStep, ShellInvStutter, KnownStep, KnownStutters DEF ShellPart
  <2>3. CASE part # "shell"
    BY <1>2, <2>1, <2>3 DEF ShellPart, shellVars
  <2> QED
    BY <2>2, <2>3
<1> QED
  BY <1>1, <1>2, PTL DEF DocumentsSpec

\* The variables of the components keep their types, in whichever of them the behaviour is.
THEOREM DocumentsTypeCorrect == DocumentsSpec => []DocumentsTypeOK
<1>1. PanelSpec => []PanelTypeOK
  BY PanelStarts, PanelKept, PanelTypesFollow, PTL DEF PanelSpec
<1>2. VectorTypeOK /\ EngineTypeOK /\ ConsoleTypeOK /\ SearchTypeOK /\ PanelTypeOK /\ RowsTypeOK
      /\ ReportTypeOK /\ DriveTypeOK /\ ShellPart => DocumentsTypeOK
  BY KnownMeans DEF DocumentsTypeOK, ShellPart
<1> QED
  BY <1>1, <1>2, EachIsItself, ShellPartAlways, VectorTyped, EngineTypes, ConsoleTyped, SearchTyped,
     RowsTypes, ReportsTyped, DriveTypes, PTL

\* What the theorems about the components say of each of them holds of a behaviour of all of them,
\* which is what the run documents checks (all but FiguresHold).
THEOREM DocumentsHold ==
    DocumentsSpec => /\ []VectorsHold /\ []LinksHold /\ []ConsoleHolds /\ []AnswersHaveCauses
                     /\ []PanelsHold /\ []RowsHaveCauses /\ []ShellHolds /\ []ReportsHold
                     /\ []DriveHolds
<1>1. ShellPart => ShellHolds
  <2> SUFFICES ASSUME ShellPart PROVE ShellHolds
    OBVIOUS
  <2>1. CASE part = "shell"
    BY <2>1, PostsFitMeans, RestMeans DEF ShellHolds, ShellPart
  <2>2. CASE part # "shell"
    <3>1. Up = {} /\ DOMAIN fetches = {}
      BY <2>2 DEF ShellPart, Up
    <3> QED
      BY <3>1 DEF ShellHolds, PostedWhereTyped, TabsAgree
  <2> QED
    BY <2>1, <2>2
<1> QED
  BY <1>1, EachIsItself, ShellPartAlways, VectorStoreHolds, LinksAlwaysHold, ConsoleAlwaysHolds,
     AnswersAlwaysHaveCauses, PanelsAlwaysHold, RowsComeFromTexts, ReportsAlwaysHold,
     DriveAlwaysHolds, PTL
==============================================================================
