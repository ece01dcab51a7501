------------------------- MODULE EventProjectionProofs -------------------------
(***************************************************************************)
(* Proofs about EventProjection, for every number of events, projectors    *)
(* and faults, and both replies of XAUTOCLAIM.                             *)
(***************************************************************************)
EXTENDS EventProjection, TLAPS

\* The first state is typed.
LEMMA InitTyped == Init => TypeOK
<1>1. Absent \in Rows
  BY ConstantsAssumption DEF Absent, Rows, Events
<1>2. Init => GroupTyped /\ TablesTyped /\ WorkersTyped
  BY <1>1, ConstantsAssumption DEF Init, GroupTyped, TablesTyped, WorkersTyped, Events
<1> QED
  BY <1>2, ConstantsAssumption DEF Init, TypeOK

\* Emitters and time keep the types.
LEMMA EmissionTyped ==
    ASSUME TypeOK, \/ \E e \in Events : Emission(e)
                   \/ \E i \in 1 .. Len(stream) : GrowIdle(i)
                   \/ UNCHANGED vars
    PROVE  TypeOK'
<1> USE ConstantsAssumption DEF TypeOK, TablesTyped, groupVars, tableVars, workerVars,
        boundVars, Advance
<1>1. ASSUME NEW e \in Events, Emission(e) PROVE TypeOK'
  <2>1. UNCHANGED <<groupVars, workerVars, again>>
    BY <1>1 DEF Emission, Build, XaddGlobal, XaddWorkspace, XaddRaises, WriteEventLog,
       WriteEventLogRaises
  <2>2. stream' \in {stream, Append(stream, e)}
    BY <1>1 DEF Emission, Build, XaddGlobal, XaddWorkspace, XaddRaises, WriteEventLog,
       WriteEventLogRaises
  <2>a. UNCHANGED <<group, since, delivered, pel, idle>>
    BY <2>1
  <2>b. stream' \in Seq(Events) /\ Len(stream) <= Len(stream') /\ Len(stream') \in Nat
    BY <2>2, SMTT(30) DEF GroupTyped
  <2>3. GroupTyped'
    BY <2>a, <2>b DEF GroupTyped
  <2>4. WorkersTyped'
    BY <2>1 DEF WorkersTyped
  <2>5. TablesTyped'
    <3>1. UNCHANGED <<row, applied>> /\ (UNCHANGED log \/ log' = log \cup {e})
      BY <1>1 DEF Emission, Build, XaddGlobal, XaddWorkspace, XaddRaises,
         WriteEventLog, WriteEventLogRaises
    <3>2. \E q \in {"built", "shared", "fallback", "done"} : emit' = [emit EXCEPT ![e] = q]
      BY <1>1 DEF Emission, Build, XaddGlobal, XaddWorkspace, XaddRaises,
         WriteEventLog, WriteEventLogRaises
    <3> QED
      BY <3>1, <3>2
  <2>6. faults' \in 0 .. MaxFaults /\ emitFaults' \in 0 .. MaxEmitFaults
    BY <1>1 DEF Emission, Build, XaddGlobal, XaddWorkspace, XaddRaises, WriteEventLog,
       WriteEventLogRaises, EmitFault
  <2> QED
    BY <2>1, <2>3, <2>4, <2>5, <2>6
<1>2. ASSUME NEW i \in 1 .. Len(stream), GrowIdle(i) PROVE TypeOK'
  BY <1>2 DEF GrowIdle, GroupTyped, WorkersTyped
<1>3. CASE UNCHANGED vars
  BY <1>3 DEF vars, GroupTyped, WorkersTyped
<1> QED
  BY <1>1, <1>2, <1>3

\* What is folded and stored is a row.
LEMMA RowTyped ==
    ASSUME NEW r \in Rows, NEW now \in Rows, NEW e \in Events
    PROVE  Folded(r, e) \in Rows /\ Stored(now, r, Folded(r, e)) \in Rows
<1>1. Folded(r, e) \in Rows
  BY ConstantsAssumption DEF Folded, Rows, Events
<1>2. ASSUME NEW f \in Rows PROVE Stored(now, r, f) \in Rows
  BY ConstantsAssumption DEF Stored, Rows, Events
<1> QED
  BY <1>1, <1>2

\* Letting go of an entry.
LEMMA NextEntryTyped ==
    ASSUME WorkersTyped, NEW p \in Projectors, NEW from, from # "connect",
           NextEntry(p, from), UNCHANGED <<group, since, delivered>>, delivered \in Nat
    PROVE  WorkersTyped'
<1>1. Absent \in Rows
  BY ConstantsAssumption DEF Absent, Rows, Events
<1>2. pc[p] = from /\ \E q \in {"connect", "check"} : pc' = [pc EXCEPT ![p] = q]
  BY DEF NextEntry, Move
<1>3. group = "made"
  BY <1>2 DEF WorkersTyped
<1>4. cur' = [cur EXCEPT ![p] = 0] /\ seen' = [seen EXCEPT ![p] = Absent] /\ batch' = batch
  BY DEF NextEntry
<1> QED
  BY <1>1, <1>2, <1>3, <1>4 DEF WorkersTyped

\* Every step of a projector keeps the types.
LEMMA ProjectTyped ==
    ASSUME TypeOK, NEW p \in Projectors, Project(p) \/ AckRaises(p) \/ Interrupt(p)
    PROVE  TypeOK'
<1> USE ConstantsAssumption DEF TypeOK, groupVars, tableVars, workerVars, boundVars, Move
<1>1. delivered \in Nat /\ since \in Nat /\ since <= delivered
  BY DEF GroupTyped
<1>2. Absent \in Rows
  BY DEF Absent, Rows, Events
<1>3. CASE Connect(p)
  <2>1. /\ UNCHANGED <<stream, pel, idle, batch, cur, seen, again>> /\ group' = "made"
        /\ pc' = [pc EXCEPT ![p] = "claim"] /\ pc[p] = "connect"
    BY <1>3 DEF Connect
  <2>2. CASE group = "made"
    <3>1. UNCHANGED <<since, delivered>>
      BY <1>3, <2>2 DEF Connect, GroupStart
    <3> QED
      BY <1>3, <2>1, <3>1 DEF Connect, GroupTyped, TablesTyped, WorkersTyped
  <2>3. CASE group # "made"
    <3>1. since' = Len(stream) /\ delivered' = Len(stream) /\ delivered = 0 /\ since = 0
      BY <1>3, <2>3 DEF Connect, GroupStart, GroupTyped
    <3>2. pel = {} /\ idle = {} /\ again = {}
      BY <3>1 DEF GroupTyped
    <3>3. \A q \in Projectors : batch[q] = {} /\ cur[q] = 0
      BY <3>1 DEF WorkersTyped
    <3>4. GroupTyped'
      BY <2>1, <3>1, <3>2 DEF GroupTyped
    <3>5. batch' \in [Projectors -> SUBSET (since' + 1 .. delivered')]
      BY <2>1, <3>3 DEF WorkersTyped
    <3>6. cur' \in [Projectors -> 0 .. delivered']
      BY <2>1, <3>1, <3>3 DEF WorkersTyped, GroupTyped
    <3>7. WorkersTyped'
      BY <2>1, <3>3, <3>5, <3>6 DEF WorkersTyped
    <3> QED
      BY <1>3, <2>1, <3>2, <3>4, <3>7 DEF Connect, TablesTyped
  <2> QED
    BY <2>2, <2>3
<1>4. CASE Claim(p)
  <2>1. Claimed \subseteq idle /\ idle \subseteq 1 .. delivered
    BY DEF Claimed, GroupTyped
  <2>2. idle \subseteq since + 1 .. delivered
    BY DEF GroupTyped
  <2>3. \E b \in {Claimed, {}} : batch' = [batch EXCEPT ![p] = b]
    BY <1>4 DEF Claim
  <2>4. \E q \in {"read", "connect"} : pc[p] = "claim" /\ pc' = [pc EXCEPT ![p] = q]
    BY <1>4 DEF Claim
  <2>5. WorkersTyped'
    BY <1>4, <2>1, <2>2, <2>3, <2>4 DEF Claim, WorkersTyped
  <2> QED
    BY <1>4, <2>1, <2>5 DEF Claim, GroupTyped, TablesTyped
<1>5. CASE Read(p)
  <2>1. PICK last : /\ last = IF Len(stream) < delivered + BatchSize
                                THEN Len(stream) ELSE delivered + BatchSize
                    /\ batch' = [batch EXCEPT ![p] = @ \cup (delivered + 1 .. last)]
                    /\ delivered' = last
                    /\ pel' = pel \cup (delivered + 1 .. last)
    BY <1>5 DEF Read
  <2>2. last \in Nat /\ delivered <= last /\ last <= Len(stream)
    BY <2>1 DEF GroupTyped
  <2>3. \E q \in {"check", "connect"} : pc[p] = "read" /\ pc' = [pc EXCEPT ![p] = q]
    BY <1>5 DEF Read
  <2>4. UNCHANGED <<stream, group, since, idle, tableVars, cur, seen, again, boundVars, emit>>
    BY <1>5 DEF Read
  <2>5. batch' \in [Projectors -> SUBSET (since + 1 .. last)]
    BY <1>1, <2>1, <2>2 DEF WorkersTyped
  <2>6. cur \in [Projectors -> 0 .. last]
    BY <1>1, <2>2 DEF WorkersTyped
  <2>7. WorkersTyped'
    <3>1. group = "made" /\ group' = "made" /\ since' = since
      BY <2>3, <2>4 DEF WorkersTyped
    <3>2. cur'[p] = 0 /\ cur' = cur /\ seen' = seen
      BY <2>3, <2>4 DEF WorkersTyped
    <3> QED
      BY <2>1, <2>3, <2>5, <2>6, <3>1, <3>2 DEF WorkersTyped
  <2>8. pel' \subseteq since + 1 .. last
    <3>1. pel \subseteq since + 1 .. delivered
      BY DEF GroupTyped
    <3>2. delivered + 1 .. last \subseteq since + 1 .. last
      BY <1>1, <2>2
    <3>3. since + 1 .. delivered \subseteq since + 1 .. last
      BY <1>1, <2>2
    <3>4. pel' = pel \cup (delivered + 1 .. last)
      BY <2>1
    <3> QED
      BY <3>1, <3>2, <3>3, <3>4
  <2>9. GroupTyped'
    <3>1. group = "made" /\ group' = "made" /\ since' = since /\ since \in 0 .. last
      BY <1>1, <2>2, <2>3, <2>4 DEF WorkersTyped, GroupTyped
    <3>2. idle' \subseteq pel' /\ stream' = stream
      BY <2>1, <2>4 DEF GroupTyped
    <3> QED
      BY <2>1, <2>2, <2>8, <3>1, <3>2 DEF GroupTyped
  <2> QED
    BY <1>1, <2>1, <2>2, <2>4, <2>7, <2>9 DEF TablesTyped
<1>6. CASE Check(p)
  <2>1. PICK i \in batch[p] :
          /\ \E q \in {"ack", "load"} : pc[p] = "check" /\ pc' = [pc EXCEPT ![p] = q]
          /\ batch' = [batch EXCEPT ![p] = @ \ {i}]
          /\ cur' = [cur EXCEPT ![p] = i]
    BY <1>6 DEF Check
  <2>2. i \in since + 1 .. delivered
    BY <2>1 DEF WorkersTyped
  <2>3. i \in 1 .. delivered
    BY <2>2, <1>1 DEF GroupTyped
  <2>4. UNCHANGED <<stream, groupVars, tableVars, seen, again, boundVars, emit>>
    BY <1>6 DEF Check
  <2>5. WorkersTyped'
    BY <1>1, <2>1, <2>2, <2>3, <2>4 DEF WorkersTyped
  <2> QED
    BY <2>4, <2>5 DEF GroupTyped, TablesTyped
<1>7. CASE Load(p)
  <2>1. \E r \in Rows : seen' = [seen EXCEPT ![p] = r]
    <3>1. cur[p] \in 1 .. Len(stream)
      BY <1>1, <1>7 DEF Load, WorkersTyped, GroupTyped
    <3>2. Current(p) \in Events
      BY <3>1 DEF Current, GroupTyped
    <3>3. WorkspaceOf[Current(p)] # Nowhere => row[WorkspaceOf[Current(p)]] \in Rows
      BY <3>2 DEF TablesTyped
    <3> QED
      BY <1>2, <1>7, <3>3 DEF Load
  <2>2. WorkersTyped'
    BY <1>7, <2>1 DEF Load, WorkersTyped
  <2> QED
    BY <1>7, <2>2 DEF Load, GroupTyped, TablesTyped
<1>8. CASE Commit(p)
  <2>1. cur[p] \in 1 .. Len(stream)
    BY <1>1, <1>8 DEF Commit, WorkersTyped, GroupTyped
  <2>2. PICK e \in Events : e = Current(p)
    BY <2>1 DEF Current, GroupTyped
  <2>3. row' = [t \in Workspaces |-> IF t = WorkspaceOf[e]
                   THEN Stored(row[t], seen[p], Folded(seen[p], e)) ELSE row[t]]
    BY <1>8, <2>2 DEF Commit
  <2>4. row' \in [Workspaces -> Rows]
    BY <2>3, RowTyped DEF TablesTyped, WorkersTyped
  <2>5. log' \subseteq Events /\ applied' \in Seq(Events)
    BY <1>8, <2>2 DEF Commit, TablesTyped
  <2>6. WorkersTyped'
    BY <1>8 DEF Commit, WorkersTyped
  <2> QED
    BY <1>8, <2>4, <2>5, <2>6 DEF Commit, GroupTyped, TablesTyped
<1>9. CASE CommitRaises(p)
  <2>1. WorkersTyped'
    BY <1>1, <1>9, NextEntryTyped DEF CommitRaises
  <2> QED
    BY <1>9, <2>1 DEF CommitRaises, Fault, GroupTyped, TablesTyped
<1>10. CASE Ack(p) \/ AckRaises(p)
  <2>1. WorkersTyped'
    BY <1>1, <1>10, NextEntryTyped DEF Ack, AckRaises
  <2>2. CASE Ack(p)
    BY <2>1, <2>2 DEF Ack, GroupTyped, TablesTyped
  <2>3. CASE AckRaises(p)
    BY <2>1, <2>3 DEF AckRaises, Fault, GroupTyped, TablesTyped
  <2> QED
    BY <1>10, <2>2, <2>3
<1>11. CASE Interrupt(p)
  <2>1. WorkersTyped'
    BY <1>1, <1>2, <1>11 DEF Interrupt, WorkersTyped
  <2> QED
    BY <1>11, <2>1 DEF Interrupt, Fault, GroupTyped, TablesTyped
<1> QED
  BY <1>3, <1>4, <1>5, <1>6, <1>7, <1>8, <1>9, <1>10, <1>11 DEF Project

\* The types hold in every reachable state.
THEOREM EventTypeCorrect == Spec => []TypeOK
<1>1. TypeOK /\ [Next]_vars => TypeOK'
  BY EmissionTyped, ProjectTyped DEF Next
<1> QED
  BY <1>1, InitTyped, PTL DEF Spec

-------------------------------------------------------------------------------
\* A projector acknowledges only what event_log holds.
AcksLogged == \A p \in Projectors : pc[p] = "ack" => stream[cur[p]] \in log

LoggedInv == AckedIsLogged /\ AcksLogged

\* Steps that acknowledge nothing and start no acknowledgement keep LoggedInv if
\* they forget nothing: neither entries nor rows of the event log.
LEMMA LoggedFrame ==
    ASSUME TypeOK, LoggedInv, log \subseteq log', since' = since, pel \subseteq pel',
           \A i \in Entries : i \in Entries' /\ stream'[i] = stream[i],
           \A i \in Entries' : i <= delivered' => i <= delivered \/ i \in pel',
           Len(stream') \in Nat,
           \A p \in Projectors : pc'[p] = "ack" =>
               \/ pc[p] = "ack" /\ cur'[p] = cur[p]
               \/ cur'[p] \in Entries /\ stream[cur'[p]] \in log'
    PROVE  LoggedInv'
<1>1. \A p \in Projectors : pc[p] = "ack" => cur[p] \in Entries
  BY DEF TypeOK, GroupTyped, WorkersTyped, Entries
<1>2. AcksLogged'
  BY <1>1 DEF LoggedInv, AcksLogged
<1>3. Acked' \subseteq Acked
  BY DEF Acked, Entries, TypeOK, GroupTyped
<1>4. AckedIsLogged'
  BY <1>3 DEF LoggedInv, AckedIsLogged, Acked
<1> QED
  BY <1>2, <1>4 DEF LoggedInv

\* Every step keeps LoggedInv.
LEMMA LoggedStep ==
    ASSUME TypeOK, LoggedInv, [Next]_vars PROVE LoggedInv'
<1> USE DEF groupVars, tableVars, workerVars, boundVars
<1>1. ASSUME NEW e \in Events, Emission(e) PROVE LoggedInv'
  <2>1. UNCHANGED <<since, delivered, pel, pc, cur>> /\ log \subseteq log'
    BY <1>1 DEF Emission, Build, XaddGlobal, XaddWorkspace, XaddRaises, WriteEventLog,
       WriteEventLogRaises
  <2>2. stream' \in {stream, Append(stream, e)}
    BY <1>1 DEF Emission, Build, XaddGlobal, XaddWorkspace, XaddRaises, WriteEventLog,
       WriteEventLogRaises
  <2>3. \A i \in Entries : i \in Entries' /\ stream'[i] = stream[i]
    BY <2>2 DEF Entries, TypeOK, GroupTyped
  <2>4. Len(stream') \in Nat
    BY <2>2 DEF TypeOK, GroupTyped
  <2> QED
    BY <2>1, <2>3, <2>4, LoggedFrame
<1>2. CASE (\E i \in 1 .. Len(stream) : GrowIdle(i)) \/ UNCHANGED vars
  <2>1. UNCHANGED <<since, delivered, pel, pc, cur, log, stream>>
    BY <1>2 DEF GrowIdle, vars
  <2> QED
    BY <2>1, LoggedFrame DEF Entries, TypeOK, GroupTyped
<1>3. ASSUME NEW p \in Projectors, Connect(p) PROVE LoggedInv'
  <2>1. UNCHANGED <<stream, pel, cur, log>> /\ pc' = [pc EXCEPT ![p] = "claim"]
    BY <1>3 DEF Connect, Move
  <2>2. AcksLogged'
    BY <2>1 DEF LoggedInv, AcksLogged, TypeOK, WorkersTyped
  <2>3. CASE group = "made"
    BY <1>3, <2>1, <2>2, <2>3 DEF Connect, GroupStart, LoggedInv, AckedIsLogged, Acked,
       Entries
  <2>4. CASE group # "made"
    <3>1. since' = Len(stream) /\ delivered' = Len(stream)
      BY <1>3, <2>4 DEF Connect, GroupStart
    <3>2. Acked' = {}
      BY <2>1, <3>1 DEF Acked, Entries
    <3> QED
      BY <2>2, <3>2 DEF LoggedInv, AckedIsLogged
  <2> QED
    BY <2>3, <2>4
<1>4. ASSUME NEW p \in Projectors, Read(p) PROVE LoggedInv'
  <2>1. PICK last : /\ last = IF Len(stream) < delivered + BatchSize
                                THEN Len(stream) ELSE delivered + BatchSize
                    /\ delivered' = last
                    /\ pel' = pel \cup (delivered + 1 .. last)
    BY <1>4 DEF Read
  <2>2. UNCHANGED <<stream, since, cur, log>> /\ \A q \in Projectors : pc'[q] = "ack" => pc[q] = "ack"
    BY <1>4 DEF Read, Move, TypeOK, WorkersTyped
  <2>3. last \in Nat /\ delivered \in Nat
    BY <2>1, ConstantsAssumption DEF TypeOK, GroupTyped
  <2>4. \A i \in Entries' : i <= delivered' => i <= delivered \/ i \in pel'
    BY <2>1, <2>3 DEF Entries
  <2> QED
    BY <2>1, <2>2, <2>4, LoggedFrame DEF Entries, TypeOK, GroupTyped
<1>5. ASSUME NEW p \in Projectors,
             Claim(p) \/ Check(p) \/ Load(p) \/ CommitRaises(p) \/ AckRaises(p)
             \/ Interrupt(p)
      PROVE  LoggedInv'
  <2>1. UNCHANGED <<stream, since, delivered, pel, log>>
    BY <1>5 DEF Claim, Check, Load, CommitRaises, AckRaises, Interrupt
  <2>2. ASSUME NEW q \in Projectors, pc'[q] = "ack"
        PROVE  \/ pc[q] = "ack" /\ cur'[q] = cur[q]
               \/ cur'[q] \in Entries /\ stream[cur'[q]] \in log'
    <3>1. CASE q # p
      BY <1>5, <2>2, <3>1 DEF Claim, Check, Load, CommitRaises, AckRaises, Interrupt,
         NextEntry, Move, TypeOK, WorkersTyped
    <3>2. CASE q = p
      <4>1. Check(p)
        BY <1>5, <2>2, <3>2 DEF Claim, Load, CommitRaises, AckRaises, Interrupt,
           NextEntry, Move, TypeOK, WorkersTyped
      <4>2. PICK i \in batch[p] : /\ pc' = [pc EXCEPT ![p] = IF stream[i] \in log
                                                              THEN "ack" ELSE "load"]
                                  /\ cur' = [cur EXCEPT ![p] = i]
        BY <4>1 DEF Check, Move
      <4>3. cur'[p] = i /\ stream[i] \in log
        BY <2>2, <3>2, <4>2 DEF TypeOK, WorkersTyped
      <4>4. i \in since + 1 .. delivered
        BY <4>2 DEF TypeOK, WorkersTyped
      <4>5. i \in Entries
        BY <4>4 DEF Entries, TypeOK, GroupTyped
      <4> QED
        BY <2>1, <3>2, <4>3, <4>5
    <3> QED
      BY <3>1, <3>2
  <2> QED
    BY <2>1, <2>2, LoggedFrame DEF Entries, TypeOK, GroupTyped
<1>6. ASSUME NEW p \in Projectors, Commit(p) PROVE LoggedInv'
  <2>1. UNCHANGED <<stream, since, delivered, pel, cur>> /\ pc[p] = "commit"
        /\ log' = log \cup {stream[cur[p]]} /\ pc' = [pc EXCEPT ![p] = "ack"]
    BY <1>6 DEF Commit, Move, Current
  <2>2. cur[p] \in Entries
    BY <2>1 DEF TypeOK, WorkersTyped, GroupTyped, Entries
  <2>3. \A q \in Projectors : pc'[q] = "ack" =>
            \/ pc[q] = "ack" /\ cur'[q] = cur[q]
            \/ cur'[q] \in Entries /\ stream[cur'[q]] \in log'
    BY <2>1, <2>2 DEF TypeOK, WorkersTyped
  <2> QED
    BY <2>1, <2>3, LoggedFrame DEF Entries, TypeOK, GroupTyped
<1>7. ASSUME NEW p \in Projectors, Ack(p) PROVE LoggedInv'
  <2>1. UNCHANGED <<stream, since, delivered, log>> /\ pel' = pel \ {cur[p]}
        /\ pc[p] = "ack"
    BY <1>7 DEF Ack, NextEntry, Move
  <2>2. AckedIsLogged'
    BY <2>1 DEF LoggedInv, AckedIsLogged, AcksLogged, Acked, Entries
  <2>3. \A q \in Projectors : pc'[q] = "ack" => pc[q] = "ack" /\ cur'[q] = cur[q]
    BY <1>7 DEF Ack, NextEntry, Move, TypeOK, WorkersTyped
  <2> QED
    BY <2>1, <2>2, <2>3 DEF LoggedInv, AcksLogged
<1> QED
  BY <1>1, <1>2, <1>3, <1>4, <1>5, <1>6, <1>7 DEF Next, Project

\* An acknowledged entry's event is in event_log.
THEOREM EventAckedIsLogged == Spec => []AckedIsLogged
<1>1. Init => LoggedInv
  BY DEF Init, LoggedInv, AckedIsLogged, AcksLogged, Acked, Entries
<1>2. TypeOK /\ LoggedInv /\ [Next]_vars => LoggedInv'
  BY LoggedStep
<1>3. LoggedInv => AckedIsLogged
  BY DEF LoggedInv
<1> QED
  BY <1>1, <1>2, <1>3, EventTypeCorrect, PTL DEF Spec

\* What has been folded is in event_log, so that its key keeps it from coming again.
FoldedLogged == \A n \in 1 .. Len(applied) : applied[n] \in log

\* However often an entry is delivered, and to whom, its event is folded once.
THEOREM EventAppliedOnce == Spec => []AppliedOnce
<1>1. Init => AppliedOnce /\ FoldedLogged
  BY DEF Init, AppliedOnce, FoldedLogged
<1>2. ASSUME TypeOK, AppliedOnce, FoldedLogged, [Next]_vars
      PROVE  AppliedOnce' /\ FoldedLogged'
  <2>1. CASE \E p \in Projectors : Commit(p)
    <3>1. PICK p \in Projectors : Commit(p)
      BY <2>1
    <3>2. cur[p] \in 1 .. Len(stream)
      <4>1. pc[p] = "commit"
        BY <3>1 DEF Commit, Move
      <4> QED
        BY <1>2, <4>1 DEF TypeOK, WorkersTyped, GroupTyped
    <3>3. PICK e \in Events : e = Current(p)
      BY <1>2, <3>2 DEF Current, TypeOK, GroupTyped
    <3>4. e \notin log /\ log' = log \cup {e} /\ applied' = Append(applied, e)
      BY <3>1, <3>3 DEF Commit, Rejected
    <3>5. /\ applied \in Seq(Events) /\ Len(applied') = Len(applied) + 1
          /\ applied'[Len(applied) + 1] = e
          /\ \A n \in 1 .. Len(applied) : applied'[n] = applied[n]
      <4>1. applied \in Seq(Events)
        BY <1>2 DEF TypeOK, TablesTyped
      <4> QED
        BY <3>4, <4>1
    <3>6. \A n \in 1 .. Len(applied) : applied[n] # e
      BY <1>2, <3>4 DEF FoldedLogged
    <3>7. \A n \in 1 .. Len(applied') : n \in 1 .. Len(applied) \/ n = Len(applied) + 1
      BY <3>5
    <3>8. AppliedOnce'
      BY <1>2, <3>5, <3>6, <3>7 DEF AppliedOnce
    <3>9. FoldedLogged'
      BY <1>2, <3>4, <3>5, <3>7 DEF FoldedLogged
    <3> QED
      BY <3>8, <3>9
  <2>2. CASE ~ \E p \in Projectors : Commit(p)
    <3>1. applied' = applied /\ log \subseteq log'
      BY <1>2, <2>2 DEF Next, Emission, Build, XaddGlobal, XaddWorkspace, XaddRaises,
         WriteEventLog, WriteEventLogRaises, GrowIdle, Project, Connect, Claim, Read,
         Check, Load, CommitRaises, Ack, AckRaises, Interrupt, tableVars, vars
    <3> QED
      BY <1>2, <3>1 DEF AppliedOnce, FoldedLogged
  <2> QED
    BY <2>1, <2>2
<1> QED
  BY <1>1, <1>2, EventTypeCorrect, PTL DEF Spec

-----------------------------------------------------------------------------
\* What was folded.
Folds(e) == \E n \in 1 .. Len(applied) : applied[n] = e

\* Without a fault of an emitter nobody but the projectors writes event_log.
OnlyProjected ==
    emitFaults = 0 =>
        /\ \A e \in log : Folds(e)
        /\ \A e \in Events : emit[e] # "fallback"

\* Only a commit folds an event.
LEMMA FoldedByCommit ==
    ASSUME TypeOK, [Next]_vars, ~ \E p \in Projectors : Commit(p)
    PROVE  UNCHANGED <<applied, row>>
BY DEF Next, Emission, Build, XaddGlobal, XaddWorkspace, XaddRaises, WriteEventLog,
   WriteEventLogRaises, GrowIdle, Project, Connect, Claim, Read, Check, Load, CommitRaises,
   Ack, AckRaises, Interrupt, tableVars, vars

\* What a commit folds is an event of the stream.
LEMMA CommitFolds ==
    ASSUME TypeOK, NEW p \in Projectors, Commit(p)
    PROVE  /\ cur[p] \in Entries /\ Current(p) \in Events /\ Current(p) = stream[cur[p]]
           /\ applied \in Seq(Events) /\ applied' = Append(applied, Current(p))
           /\ \A n \in 1 .. Len(applied') :
                \/ n \in 1 .. Len(applied) /\ applied'[n] = applied[n]
                \/ n = Len(applied) + 1 /\ applied'[n] = Current(p)
           /\ Folds(Current(p))' /\ \A e \in Events : Folds(e) => Folds(e)'
<1>1. pc[p] = "commit" /\ applied' = Append(applied, Current(p))
  BY DEF Commit, Move
<1>2. cur[p] \in Entries
  BY <1>1 DEF TypeOK, WorkersTyped, GroupTyped, Entries
<1>3. Current(p) \in Events /\ applied \in Seq(Events)
  BY <1>2 DEF TypeOK, TablesTyped, GroupTyped, Current, Entries
<1>4. /\ Len(applied') = Len(applied) + 1 /\ applied'[Len(applied) + 1] = Current(p)
      /\ \A n \in 1 .. Len(applied) : applied'[n] = applied[n]
      /\ Len(applied) \in Nat
  BY <1>1, <1>3
<1>5. Folds(Current(p))' /\ \A e \in Events : Folds(e) => Folds(e)'
  <2>1. Folds(Current(p))'
    <3>1. Current(p)' = Current(p)
      BY DEF Commit, Current
    <3> QED
      BY <1>4, <3>1 DEF Folds
  <2> QED
    BY <1>4, <2>1 DEF Folds
<1> QED
  BY <1>1, <1>2, <1>3, <1>4, <1>5 DEF Current

LEMMA OnlyProjectedStep == TypeOK /\ OnlyProjected /\ [Next]_vars => OnlyProjected'
<1> SUFFICES ASSUME TypeOK, OnlyProjected, [Next]_vars, emitFaults' = 0
             PROVE  /\ \A e \in log' : Folds(e)'
                    /\ \A e \in Events : emit'[e] # "fallback"
  BY DEF OnlyProjected
<1>1. emitFaults \in Nat /\ emit \in [Events -> {"new", "built", "shared", "fallback", "done"}]
      /\ log \subseteq Events
  BY DEF TypeOK, TablesTyped
<1>2. ASSUME NEW e \in Events, Emission(e)
      PROVE  /\ UNCHANGED <<log, applied>> /\ \A d \in Events : emit'[d] # "fallback"
             /\ emitFaults = 0
  <2>1. ~XaddRaises(e) /\ ~WriteEventLogRaises(e)
    BY <1>1 DEF XaddRaises, WriteEventLogRaises, EmitFault
  <2>2. emitFaults = 0
    BY <1>2, <2>1 DEF Emission, Build, XaddGlobal, XaddWorkspace, WriteEventLog, boundVars
  <2>3. ~WriteEventLog(e)
    BY <2>2 DEF WriteEventLog, Advance, OnlyProjected
  <2> QED
    BY <1>1, <1>2, <2>1, <2>2, <2>3
       DEF Emission, Build, XaddGlobal, XaddWorkspace, Advance, OnlyProjected, tableVars
<1>3. ASSUME NEW p \in Projectors, Commit(p)
      PROVE  UNCHANGED <<emit, emitFaults>> /\ \A e \in log' : Folds(e)'
  <2>1. UNCHANGED <<emit, emitFaults, stream, cur>> /\ log' = log \cup {Current(p)}
    BY <1>3 DEF Commit, boundVars
  <2>2. Current(p)' = Current(p)
    BY <2>1 DEF Current
  <2> QED
    BY <1>1, <1>3, <2>1, <2>2, CommitFolds DEF OnlyProjected
<1>4. CASE ~(\E p \in Projectors : Commit(p)) /\ ~(\E e \in Events : Emission(e))
  BY <1>4 DEF OnlyProjected, Folds, Next, GrowIdle, Project, Connect, Claim, Read, Check, Load,
     CommitRaises, Ack, AckRaises, Interrupt, tableVars, boundVars, Fault, vars
<1> QED
  BY <1>2, <1>3, <1>4 DEF OnlyProjected, Folds

\* As long as no emitter has failed, the event of an acknowledged entry has been folded into
\* its row, however many projectors there are and whatever fails in them
\* (event_projector_worker.py's docstring).
THEOREM EventAckedIsApplied == Spec => [](emitFaults = 0 => AckedIsApplied)
<1>1. Init => OnlyProjected
  BY DEF Init, OnlyProjected
<1>2. AckedIsLogged /\ OnlyProjected => (emitFaults = 0 => AckedIsApplied)
  BY DEF AckedIsLogged, OnlyProjected, AckedIsApplied, Folds
<1> QED
  BY <1>1, <1>2, OnlyProjectedStep, EventTypeCorrect, EventAckedIsLogged, PTL DEF Spec

-----------------------------------------------------------------------------
(* One projector.  What it has read of a row is the row until it commits, and  *)
(* it takes the entries it reads in the order of the stream.                   *)

\* The row in the session is the row.
SeenIsRow ==
    \A p \in Projectors : pc[p] = "commit" /\ WorkspaceOf[Current(p)] # Nowhere =>
        seen[p] = row[WorkspaceOf[Current(p)]]

\* Entries in the hands of a projector that it has not folded.
InHands(p) == batch[p] \cup (IF pc[p] \in {"load", "commit"} THEN {cur[p]} ELSE {})

\* An event is sent to the stream once.
SentOnce ==
    /\ \A i, j \in Entries : stream[i] = stream[j] => i = j
    /\ \A i \in Entries : emit[stream[i]] \notin {"new", "built"}

\* The entry in a projector's hands is before those of its batch.
FirstInHands == \A p \in Projectors : cur[p] # 0 => \A i \in batch[p] : cur[p] < i

\* What was folded was before all that is in the projector's hands for the first time.
FoldedBefore ==
    \A n \in 1 .. Len(applied) :
        \E k \in 1 .. delivered :
            /\ stream[k] = applied[n]
            /\ \A p \in Projectors : \A i \in InHands(p) : i \in again \/ k < i

\* A column is the ts of an event that was folded.
ColumnsFolded == \A s \in Workspaces, k \in Tracked : row[s].at[k] = 0 \/ Folds(row[s].at[k])

\* What the projectors fold is in the order in which they read it.
FoldInv == SentOnce /\ FirstInHands /\ FoldedBefore /\ ColumnsFolded

\* An event is appended to the stream by its emission only, and once.
LEMMA SentOnceStep == TypeOK /\ SentOnce /\ [Next]_vars => SentOnce'
<1> SUFFICES ASSUME TypeOK, SentOnce, [Next]_vars PROVE SentOnce'
  OBVIOUS
<1> USE DEF SentOnce
<1>1. /\ stream \in Seq(Events)
      /\ emit \in [Events -> {"new", "built", "shared", "fallback", "done"}]
      /\ \A i \in Entries : stream[i] \in Events
  BY DEF TypeOK, GroupTyped, TablesTyped, Entries
<1>2. ASSUME NEW e \in Events, Emission(e) PROVE SentOnce'
  <2>1. CASE emit[e] = "built" /\ emit'[e] \notin {"new", "built"} /\ stream' = Append(stream, e)
             /\ \A d \in Events \ {e} : emit'[d] = emit[d]
    <3> DEFINE new == Len(stream) + 1
    <3>1. Entries' = Entries \cup {new} /\ stream'[new] = e /\ \A i \in Entries : stream'[i] = stream[i]
      BY <1>1, <2>1 DEF Entries
    <3>2. \A i \in Entries : stream[i] # e
      BY <2>1
    <3> HIDE DEF new
    <3>3. \A i, j \in Entries' : stream'[i] = stream'[j] => i = j
      BY <3>1, <3>2
    <3>4. \A i \in Entries' : emit'[stream'[i]] \notin {"new", "built"}
      <4>1. ASSUME NEW i \in Entries PROVE emit'[stream[i]] \notin {"new", "built"}
        BY <1>1, <2>1, <3>2
      <4> QED
        BY <2>1, <3>1, <4>1
    <3> QED
      BY <3>3, <3>4
  <2>2. CASE UNCHANGED stream /\ (emit'[e] \notin {"new", "built"} \/ emit[e] = "new")
             /\ \A d \in Events \ {e} : emit'[d] = emit[d]
    BY <1>1, <2>2 DEF Entries
  <2>3. \/ stream' = Append(stream, e) /\ emit[e] = "built"
        \/ UNCHANGED stream
    BY <1>2 DEF Emission, Build, XaddGlobal, XaddWorkspace, XaddRaises, WriteEventLog,
       WriteEventLogRaises, Advance
  <2>4. /\ emit'[e] \notin {"new", "built"} \/ (emit[e] = "new" /\ UNCHANGED stream)
        /\ \A d \in Events \ {e} : emit'[d] = emit[d]
    <3>1. CASE Build(e)
      BY <1>1, <3>1 DEF Build, Advance
    <3>2. CASE ~Build(e)
      BY <1>1, <1>2, <3>2 DEF Emission, XaddGlobal, XaddWorkspace, XaddRaises, WriteEventLog,
         WriteEventLogRaises, Advance
    <3> QED
      BY <3>1, <3>2
  <2> QED
    BY <2>1, <2>2, <2>3, <2>4
<1>3. CASE UNCHANGED <<stream, emit>>
  BY <1>3 DEF Entries
<1> QED
  BY <1>2, <1>3 DEF Next, GrowIdle, Project, Connect, Claim, Read, Check, Load, Commit, CommitRaises,
     Ack, AckRaises, Interrupt, vars

\* Steps after which the projectors hold less, or what was claimed, or what was not delivered yet.
LEMMA FoldFrame ==
    ASSUME TypeOK, FoldedBefore, ColumnsFolded, UNCHANGED <<applied, row>>,
           \A i \in Entries : i \in Entries' /\ stream'[i] = stream[i],
           delivered' \in Nat, delivered <= delivered', again \subseteq again',
           \A p \in Projectors : \A i \in InHands(p)' :
               i \in InHands(p) \/ i \in again' \/ i \in delivered + 1 .. delivered'
    PROVE  FoldedBefore' /\ ColumnsFolded'
<1>1. delivered \in Nat /\ \A k \in 1 .. delivered : k \in Entries /\ k \in 1 .. delivered'
  BY DEF TypeOK, GroupTyped, Entries
<1>2. ASSUME NEW n \in 1 .. Len(applied)
      PROVE  \E k \in 1 .. delivered' :
                /\ stream'[k] = applied'[n]
                /\ \A p \in Projectors : \A i \in InHands(p)' : i \in again' \/ k < i
  <2>1. PICK k \in 1 .. delivered :
            /\ stream[k] = applied[n]
            /\ \A p \in Projectors : \A i \in InHands(p) : i \in again \/ k < i
    BY DEF FoldedBefore
  <2>2. \A i \in delivered + 1 .. delivered' : k < i
    BY <1>1
  <2> QED
    BY <1>1, <2>1, <2>2
<1> QED
  BY <1>2 DEF FoldedBefore, ColumnsFolded, Folds

LEMMA FirstInHandsStep == TypeOK /\ FirstInHands /\ [Next]_vars => FirstInHands'
<1> SUFFICES ASSUME TypeOK, FirstInHands, [Next]_vars PROVE FirstInHands'
  OBVIOUS
<1> USE DEF FirstInHands
<1>1. WorkersTyped /\ \A p \in Projectors : batch[p] \subseteq Int
  <2>1. since + 1 .. delivered \subseteq Int
    OBVIOUS
  <2> QED
    BY <2>1 DEF TypeOK, WorkersTyped
<1>2. ASSUME NEW p \in Projectors, Project(p) \/ AckRaises(p) \/ Interrupt(p) PROVE FirstInHands'
  <2>1. CASE cur'[p] = 0 /\ \A q \in Projectors \ {p} : cur'[q] = cur[q] /\ batch'[q] = batch[q]
    BY <2>1
  <2>2. CASE Check(p)
    <3>1. PICK i \in batch[p] :
            /\ \A j \in batch[p] : i <= j
            /\ batch' = [batch EXCEPT ![p] = @ \ {i}] /\ cur' = [cur EXCEPT ![p] = i]
      BY <2>2 DEF Check
    <3>2. \A j \in batch'[p] : i < j
      BY <1>1, <3>1 DEF WorkersTyped
    <3> QED
      BY <1>1, <3>1, <3>2 DEF WorkersTyped
  <2>3. CASE Load(p) \/ Commit(p)
    BY <2>3 DEF Load, Commit
  <2>4. CASE Connect(p) \/ Claim(p) \/ Read(p)
    BY <1>1, <2>1, <2>4 DEF Connect, Claim, Read, Move, WorkersTyped
  <2>5. CASE CommitRaises(p) \/ Ack(p) \/ AckRaises(p) \/ Interrupt(p)
    BY <1>1, <2>1, <2>5 DEF CommitRaises, Ack, AckRaises, Interrupt, NextEntry, WorkersTyped
  <2> QED
    BY <1>2, <2>2, <2>3, <2>4, <2>5 DEF Project
<1>3. CASE UNCHANGED <<cur, batch>>
  BY <1>3
<1> QED
  BY <1>2, <1>3 DEF Next, Emission, Build, XaddGlobal, XaddWorkspace, XaddRaises,
     WriteEventLog, WriteEventLogRaises, GrowIdle, vars, workerVars

\* What a commit stores in a column is what was there or the event.
LEMMA ColumnStored ==
    ASSUME NEW now \in Rows, NEW old \in Rows, NEW e \in Events, NEW k \in Tracked
    PROVE  Stored(now, old, Folded(old, e)).at[k] \in {now.at[k], e}
BY DEF Stored, Folded, Rows

\* A commit of the only projector, whose batch comes after what it folds.
LEMMA FoldCommit ==
    ASSUME TypeOK, FoldInv, NEW p \in Projectors, \A q \in Projectors : q = p, Commit(p)
    PROVE  FoldedBefore' /\ ColumnsFolded'
<1>0. PICK e \in Events : e = Current(p)
  BY CommitFolds
<1>1. /\ cur[p] \in 1 .. delivered /\ cur[p] # 0 /\ pc'[p] = "ack"
      /\ UNCHANGED <<stream, delivered, cur, batch, again>>
  BY DEF Commit, Move, TypeOK, WorkersTyped, groupVars, boundVars
<1>2. \A q \in Projectors : \A i \in InHands(q)' : q = p /\ i \in batch[p] /\ i \in InHands(p)
  BY <1>1 DEF InHands
<1>3. FoldedBefore'
  <2>1. ASSUME NEW n \in 1 .. Len(applied')
        PROVE  \E k \in 1 .. delivered :
                  /\ stream[k] = applied'[n]
                  /\ \A q \in Projectors : \A i \in InHands(q)' : i \in again \/ k < i
    <3>1. CASE n \in 1 .. Len(applied) /\ applied'[n] = applied[n]
      BY <1>2, <3>1 DEF FoldInv, FoldedBefore
    <3>2. CASE applied'[n] = Current(p)
      BY <1>1, <1>2, <3>2 DEF FoldInv, FirstInHands, Current
    <3> QED
      BY <3>1, <3>2, CommitFolds
  <2> QED
    BY <1>1, <2>1 DEF FoldedBefore
<1>4. ColumnsFolded'
  <2>1. ASSUME NEW s \in Workspaces, NEW k \in Tracked
        PROVE  row'[s].at[k] \in {row[s].at[k], e} /\ row[s].at[k] \in 0 .. N
    <3>1. row[s] \in Rows /\ seen[p] \in Rows /\ e \in Events
      BY DEF TypeOK, TablesTyped, WorkersTyped
    <3>2. row'[s] \in {row[s], Stored(row[s], seen[p], Folded(seen[p], e))}
      BY <1>0 DEF Commit
    <3> QED
      BY <3>1, <3>2, ColumnStored DEF Rows
  <2>2. (\A d \in Events : Folds(d) => Folds(d)') /\ Folds(e)'
    <3>1. Current(p)' = e
      BY <1>0, <1>1 DEF Current
    <3> QED
      BY <3>1, CommitFolds DEF Folds
  <2> QED
    BY <2>1, <2>2, ConstantsAssumption DEF FoldInv, ColumnsFolded, Events
<1> QED
  BY <1>3, <1>4

\* With one projector every step keeps the order.
LEMMA FoldStep ==
    ASSUME TypeOK, TypeOK', FoldInv, [Next]_vars, NEW p \in Projectors, \A q \in Projectors : q = p
    PROVE  FoldInv'
<1> USE DEF FoldInv
<1>1. SentOnce' /\ FirstInHands'
  BY SentOnceStep, FirstInHandsStep
<1>2. delivered \in Nat /\ delivered' \in Nat /\ Len(stream) \in Nat
  BY DEF TypeOK, GroupTyped
<1>3. CASE Commit(p)
  BY <1>1, <1>3, FoldCommit
<1>4. CASE ~Commit(p)
  <2>1. UNCHANGED <<applied, row>>
    BY <1>4, FoldedByCommit
  <2>2. \A i \in Entries : i \in Entries' /\ stream'[i] = stream[i]
    <3>1. ASSUME NEW e \in Events, Emission(e) PROVE stream' \in {stream, Append(stream, e)}
      BY <3>1 DEF Emission, Build, XaddGlobal, XaddWorkspace, XaddRaises, WriteEventLog,
         WriteEventLogRaises
    <3>2. UNCHANGED stream \/ \E e \in Events : stream' = Append(stream, e)
      BY <3>1 DEF Next, GrowIdle, Project, Connect, Claim, Read, Check, Load, Commit, CommitRaises,
         Ack, AckRaises, Interrupt, vars
    <3> QED
      BY <3>2 DEF Entries, TypeOK, GroupTyped
  <2>3. delivered <= delivered' /\ again \subseteq again'
    <3>1. CASE Connect(p)
      BY <3>1 DEF Connect, GroupStart, TypeOK, GroupTyped
    <3>2. CASE Read(p)
      BY <3>2, <1>2, ConstantsAssumption DEF Read, TypeOK, GroupTyped
    <3>3. CASE ~Connect(p) /\ ~Read(p)
      <4>1. ASSUME NEW e \in Events, Emission(e) PROVE UNCHANGED <<delivered, again>>
        BY <4>1 DEF Emission, Build, XaddGlobal, XaddWorkspace, XaddRaises, WriteEventLog,
           WriteEventLogRaises, groupVars
      <4>2. UNCHANGED delivered /\ again \subseteq again'
        BY <3>3, <4>1 DEF Next, GrowIdle, Project, Claim, Check, Load, Commit, CommitRaises,
           Ack, AckRaises, Interrupt, vars, groupVars
      <4> QED
        BY <1>2, <4>2
    <3> QED
      BY <3>1, <3>2, <3>3
  <2>4. \A i \in InHands(p)' : i \in InHands(p) \/ i \in again' \/ i \in delivered + 1 .. delivered'
    <3> USE DEF InHands, Move, TypeOK, WorkersTyped
    <3>1. CASE Connect(p) \/ Load(p)
      BY <3>1 DEF Connect, Load
    <3>2. CASE Claim(p)
      BY <3>2 DEF Claim
    <3>3. CASE Read(p)
      <4>1. batch'[p] = batch[p] \cup (delivered + 1 .. delivered') /\ pc'[p] \in {"connect", "check"}
        BY <3>3 DEF Read
      <4> QED
        BY <4>1
    <3>4. CASE Check(p)
      BY <3>4 DEF Check
    <3>5. CASE CommitRaises(p) \/ Ack(p) \/ AckRaises(p) \/ Interrupt(p)
      BY <3>5 DEF CommitRaises, Ack, AckRaises, Interrupt, NextEntry
    <3>6. CASE UNCHANGED <<pc, cur, batch>>
      BY <3>6
    <3> QED
      BY <1>4, <3>1, <3>2, <3>3, <3>4, <3>5, <3>6 DEF Next, Project, Emission, Build, XaddGlobal,
         XaddWorkspace, XaddRaises, WriteEventLog, WriteEventLogRaises, GrowIdle, vars, workerVars
  <2> QED
    BY <1>1, <1>2, <2>1, <2>2, <2>3, <2>4, FoldFrame
<1> QED
  BY <1>3, <1>4

\* With one projector a column goes back in time only if the events came into the stream out
\* of order or the older one was delivered again after a failure (projector.py:64-70).
THEOREM EventForwardUnlessLate ==
    ASSUME NEW CONSTANT p0, Projectors = {p0}
    PROVE  Spec => ForwardUnlessLate
<1>1. Init => FoldInv
  BY DEF Init, FoldInv, SentOnce, FirstInHands, FoldedBefore, ColumnsFolded, Entries, Absent, Tracked
<1>2. TypeOK /\ TypeOK' /\ FoldInv /\ [Next]_vars => FoldInv'
  BY FoldStep
<1>3. ASSUME TypeOK, FoldInv, [Next]_vars, NEW s \in Workspaces, NEW k \in Tracked,
             row'[s].at[k] < row[s].at[k]
      PROVE  LET old == row[s].at[k]  new == row'[s].at[k] IN
             Position(new) > Position(old) \/ Position(new) \in again
  <2> DEFINE old == row[s].at[k]
             e == Current(p0)
  <2>1. Commit(p0)
    <3>1. row[s].at[k] \in 0 .. N
      BY <1>3 DEF TypeOK, TablesTyped, Rows
    <3>2. row' # row
      BY <1>3, <3>1
    <3> QED
      BY <1>3, <3>2, FoldedByCommit
  <2>2. /\ cur[p0] \in Entries /\ e \in Events /\ e = stream[cur[p0]]
        /\ pc[p0] = "commit"
    BY <1>3, <2>1, CommitFolds DEF Commit, Move
  <2>3. row'[s].at[k] = e /\ old # 0
    <3>1. row[s] \in Rows /\ seen[p0] \in Rows
      BY <1>3 DEF TypeOK, TablesTyped, WorkersTyped
    <3>2. row'[s] \in {row[s], Stored(row[s], seen[p0], Folded(seen[p0], e))}
      BY <2>1 DEF Commit
    <3>3. row'[s].at[k] \in {old, e} /\ old \in 0 .. N
      BY <2>2, <3>1, <3>2, ColumnStored DEF Rows
    <3> QED
      BY <1>3, <2>2, <3>3, ConstantsAssumption DEF Events
  <2>4. PICK i \in 1 .. delivered : stream[i] = old /\ (cur[p0] \in again \/ i < cur[p0])
    <3>1. PICK n \in 1 .. Len(applied) : applied[n] = old
      BY <1>3, <2>3 DEF FoldInv, ColumnsFolded, Folds
    <3> QED
      BY <1>3, <2>2, <3>1 DEF FoldInv, FoldedBefore, InHands
  <2>5. i \in Entries
    BY <1>3 DEF Entries, TypeOK, GroupTyped
  <2>6. Position(e) = cur[p0] /\ Position(old) = i
    BY <1>3, <2>2, <2>4, <2>5 DEF Position, FoldInv, SentOnce
  <2> QED
    BY <2>2, <2>3, <2>4, <2>5, <2>6 DEF Entries
<1>4. TypeOK /\ FoldInv /\ [Next]_vars =>
        [\A s \in Workspaces, k \in Tracked :
          LET old == row[s].at[k]  new == row'[s].at[k] IN
          new < old =>
              Position(new) > Position(old) \/ Position(new) \in again]_vars
  BY <1>3
<1> QED
  BY <1>1, <1>2, <1>4, EventTypeCorrect, PTL DEF Spec, ForwardUnlessLate

\* What is folded into a row as it is.
LEMMA StoredFresh ==
    ASSUME NEW r \in Rows, NEW e \in Events
    PROVE  LET t == Stored(r, r, Folded(r, e)) IN
           \/ t.at[Hydrated] = e /\ t.job = JobOf[e]
           \/ t.at[Hydrated] = r.at[Hydrated] /\ t.job = r.job
<1>1. Hydrated \in Tracked /\ r.at \in [Tracked -> 0 .. N]
  BY DEF Tracked, Rows
<1>2. CASE Kind[e] = Hydrated
  <2>1. Folded(r, e).at[Hydrated] = e /\ Folded(r, e).job = JobOf[e]
    BY <1>1, <1>2 DEF Folded
  <2> QED
    BY <1>1, <2>1 DEF Stored
<1>3. CASE Kind[e] # Hydrated
  <2>1. Folded(r, e).at[Hydrated] = r.at[Hydrated] /\ Folded(r, e).job = r.job
    BY <1>1, <1>3 DEF Folded
  <2> QED
    BY <1>1, <2>1 DEF Stored
<1> QED
  BY <1>2, <1>3

\* The only projector commits on what it has read.
LEMMA SeenIsRowStep ==
    ASSUME TypeOK, SeenIsRow, [Next]_vars, NEW p \in Projectors, \A q \in Projectors : q = p
    PROVE  SeenIsRow'
<1> USE DEF SeenIsRow
<1>1. WorkersTyped
  BY DEF TypeOK
<1>2. CASE Load(p)
  <2>1. /\ seen' = [seen EXCEPT ![p] = IF WorkspaceOf[Current(p)] = Nowhere THEN Absent
                                       ELSE row[WorkspaceOf[Current(p)]]]
        /\ Current(p)' = Current(p) /\ UNCHANGED row
    BY <1>2 DEF Load, Current, tableVars
  <2> QED
    BY <1>1, <2>1 DEF WorkersTyped
<1>3. CASE ~Load(p) /\ (Project(p) \/ AckRaises(p) \/ Interrupt(p))
  <2>1. pc'[p] # "commit"
    BY <1>1, <1>3 DEF Project, Connect, Claim, Read, Check, Commit, CommitRaises, Ack, AckRaises,
       Interrupt, NextEntry, Move, WorkersTyped
  <2> QED
    BY <2>1
<1>4. ASSUME UNCHANGED <<workerVars, row>>, \A i \in Entries : stream'[i] = stream[i] PROVE SeenIsRow'
  <2>1. pc[p] = "commit" => cur[p] \in Entries
    BY DEF TypeOK, WorkersTyped, GroupTyped, Entries
  <2> QED
    BY <1>4, <2>1 DEF workerVars, Current
<1>5. ASSUME NEW e \in Events, Emission(e) PROVE SeenIsRow'
  <2>1. UNCHANGED <<workerVars, row>> /\ stream' \in {stream, Append(stream, e)}
    BY <1>5 DEF Emission, Build, XaddGlobal, XaddWorkspace, XaddRaises, WriteEventLog,
       WriteEventLogRaises, tableVars
  <2>2. \A i \in Entries : stream'[i] = stream[i]
    BY <2>1 DEF Entries, TypeOK, GroupTyped
  <2> QED
    BY <1>4, <2>1, <2>2
<1>6. CASE UNCHANGED <<workerVars, row, stream>>
  BY <1>4, <1>6
<1> QED
  BY <1>2, <1>3, <1>5, <1>6 DEF Next, GrowIdle, vars, tableVars

\* With one projector last_hydration_at and last_hydration_job_id are from the same event,
\* whatever fails and however often an entry comes (projector.py:65-66).
THEOREM EventColumnsAgree ==
    ASSUME NEW CONSTANT p0, Projectors = {p0}
    PROVE  Spec => []ColumnsAgree
<1>1. Init => SeenIsRow /\ ColumnsAgree
  BY DEF Init, SeenIsRow, ColumnsAgree, Absent, Tracked
<1>2. TypeOK /\ SeenIsRow /\ [Next]_vars => SeenIsRow'
  BY SeenIsRowStep
<1>3. ASSUME TypeOK, SeenIsRow, ColumnsAgree, [Next]_vars PROVE ColumnsAgree'
  <2>1. CASE Commit(p0)
    <3>1. PICK e \in Events : e = Current(p0)
      BY <1>3, <2>1, CommitFolds
    <3>2. ASSUME NEW s \in Workspaces, row'[s].at[Hydrated] # 0
          PROVE  row'[s].job = JobOf[row'[s].at[Hydrated]]
      <4>1. row[s] \in Rows
        BY <1>3 DEF TypeOK, TablesTyped
      <4>2. row'[s] = row[s] \/ row'[s] = Stored(row[s], row[s], Folded(row[s], e))
        <5>1. s = WorkspaceOf[e] => seen[p0] = row[s]
          BY <1>3, <2>1, <3>1, ConstantsAssumption DEF SeenIsRow, Commit, Move
        <5> QED
          BY <2>1, <3>1, <5>1 DEF Commit
      <4> QED
        BY <1>3, <3>2, <4>1, <4>2, StoredFresh DEF ColumnsAgree
    <3> QED
      BY <3>2 DEF ColumnsAgree
  <2>2. CASE ~Commit(p0)
    BY <1>3, <2>2, FoldedByCommit DEF ColumnsAgree
  <2> QED
    BY <2>1, <2>2
<1> QED
  BY <1>1, <1>2, <1>3, EventTypeCorrect, PTL DEF Spec
================================================================================
