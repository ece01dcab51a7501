------------------------------ MODULE PdpProofs -------------------------------
(***************************************************************************)
(* Proofs about backend/backend/pdp, for every set of users, projects and  *)
(* processes and every bound: the way of a request (PolicyGate), the       *)
(* access control list (AccessControl), the rate limiter (RateLimiter),    *)
(* the table of policies (PolicyTable) and the scanner of texts            *)
(* (ContentScanner); and, with RecordsProofs, about the components of      *)
(* MCServices side by side.                                                *)
(***************************************************************************)
EXTENDS MCServices, RecordsProofs, SequenceTheorems

-----------------------------------------------------------------------------
(* PolicyGate: each fact about an answered request rests on what is known   *)
(* of it at each place on its way, which Course states                      *)

\* The entries a web request has when nothing failed, by place and decision.
SoFar(d) ==
    IF place \in {"limiter", "rules", "log"} \/ d # verdict THEN 0
    ELSE IF place = "record" THEN IF d = "rate_limit_exceeded" THEN 0 ELSE 1
    ELSE IF d = "rate_limit_exceeded" THEN 1 ELSE 2

\* What is known of a request at each place, of its answer and of its entries.
Course ==
    /\ place \in {"limiter", "rules"} => verdict = "none"
    /\ place \in {"limiter", "rules", "log"} => audit = NoEntries
    /\ place \in {"limiter", "rules", "log", "record"} => ran = 0 /\ ~raised /\ kind # "public"
    /\ place \in {"log", "record"} => verdict \in Decisions
    /\ place = "limiter" => call \in 1 .. LastCall
    /\ place = "record" => kind # "evaluate"
    /\ place = "log" => verdict # "rate_limit_exceeded"
    /\ place = "record" => \A d \in Decisions : audit[d] <= 1
    /\ place = "serve" =>
        /\ kind \in {"web", "public"}
        /\ kind = "web" => verdict = "allow" \/ upset \/ mode = "aware"
        /\ ran = 0 \/ (ran = 1 /\ raised /\ kind = "web")

\* The entries agree with the decision so far.
Trail ==
    /\ kind = "web" /\ ~upset => \A d \in Decisions : audit[d] = SoFar(d)
    /\ audit["allow"] > 0 => verdict = "allow" \/ (kind \in {"service", "project"} /\ upset)

\* The type invariant in two parts, since no prover does numbers and flags together.
Flags == hasRow \in BOOLEAN /\ raised \in BOOLEAN /\ upset \in BOOLEAN
Places ==
    /\ mode \in {"redis", "naive", "aware"}
    /\ place \in {"done", "limiter", "rules", "log", "record", "serve"}
    /\ kind \in Kinds /\ call \in 0 .. 3
    /\ verdict \in Decisions \cup {"none"}
    /\ ran \in 0 .. 2
    /\ audit \in [Decisions -> 0 .. 2]
    /\ mishaps \in 0 .. MaxMishaps

GateInv == GateTypeOK /\ Course /\ Trail /\ ServedOnlyIfAllowed /\ HandlerReruns

\* The type invariant is the two parts.
LEMMA GateParts == (GateTypeOK <=> Flags /\ Places) /\ (GateTypeOK' <=> Flags' /\ Places')
BY DEF GateTypeOK, Flags, Places

\* The first state satisfies the inductive invariant.
LEMMA GateInitInv == GateInit => GateInv
<1>1. GateInit => GateTypeOK
  <2>1. GateInit => Flags
    BY DEF GateInit, Flags
  <2>2. GateInit => Places
    BY GateAssumption DEF GateInit, Places, Kinds, Decisions, NoEntries
  <2> QED
    BY <2>1, <2>2, GateParts
<1>2. GateInit => Course /\ Trail /\ ServedOnlyIfAllowed /\ HandlerReruns
  BY DEF GateInit, Course, LastCall, Trail, SoFar, ServedOnlyIfAllowed, HandlerReruns, Decisions, NoEntries
<1> QED
  BY <1>1, <1>2 DEF GateInv

\* A failure is counted up to the bound.
LEMMA MishapType ==
    ASSUME GateTypeOK, Mishap \/ Smooth
    PROVE  mishaps' \in 0 .. MaxMishaps /\ upset' \in BOOLEAN
<1>1. CASE Mishap
  BY <1>1, GateAssumption DEF GateTypeOK, Mishap
<1>2. CASE Smooth
  BY <1>2 DEF GateTypeOK, Smooth
<1> QED
  BY <1>1, <1>2

\* Every step of a request preserves the inductive invariant.
LEMMA GateStep == GateInv /\ [GateNext]_gateVars => GateInv'
<1> SUFFICES ASSUME GateInv, [GateNext]_gateVars PROVE GateInv'
  OBVIOUS
<1> USE GateAssumption, MishapType
        DEF GateInv, GateTypeOK, Course, Trail, SoFar, ServedOnlyIfAllowed, HandlerReruns, Kinds,
            Decisions, NoEntries, LastCall
<1>1. ASSUME NEW k \in Kinds, Arrive(k) PROVE GateInv'
  <2>1. GateTypeOK'
    <3>1. Flags'
      BY <1>1, GateParts DEF Flags, Arrive
    <3>2. Places'
      BY <1>1, GateParts DEF Places, Arrive
    <3> QED
      BY <3>1, <3>2, GateParts
  <2>2. Course'
    BY <1>1 DEF Arrive
  <2>3. Trail'
    BY <1>1 DEF Arrive
  <2>4. (ServedOnlyIfAllowed /\ HandlerReruns)'
    BY <1>1 DEF Arrive
  <2> QED
    BY <2>1, <2>2, <2>3, <2>4
<1>2. CASE LoadRaises
  BY <1>2 DEF LoadRaises, Mishap
<1>3. CASE LimiterPasses
  <2>1. GateTypeOK'
    <3>1. Flags'
      BY <1>3, GateParts DEF Flags, LimiterPasses, Smooth, IsIncrement
    <3>2. Places'
      <4>1. call' \in 0 .. 3
        BY <1>3 DEF LimiterPasses, IsIncrement
      <4> QED
        BY <1>3, <4>1, GateParts DEF Places, LimiterPasses, Smooth
    <3> QED
      BY <3>1, <3>2, GateParts
  <2>2. Course'
    BY <1>3 DEF LimiterPasses, Smooth, IsIncrement
  <2>3. Trail'
    BY <1>3 DEF LimiterPasses, Smooth, IsIncrement
  <2>4. (ServedOnlyIfAllowed /\ HandlerReruns)'
    BY <1>3 DEF LimiterPasses, Smooth, IsIncrement
  <2> QED
    BY <2>1, <2>2, <2>3, <2>4
<1>4. CASE ServiceDenies
  BY <1>4 DEF ServiceDenies, Smooth
<1>5. CASE LimiterRefuses
  BY <1>5 DEF LimiterRefuses, Smooth, Caller
<1>6. CASE LimiterRaises
  <2>1. GateTypeOK'
    <3>1. Flags'
      BY <1>6, GateParts DEF Flags, LimiterRaises, Smooth, Caller
    <3>2. Places'
      BY <1>6, GateParts DEF Places, LimiterRaises, Smooth, Caller
    <3> QED
      BY <3>1, <3>2, GateParts
  <2>2. Course'
    BY <1>6 DEF LimiterRaises, Smooth, Caller
  <2>3. Trail'
    BY <1>6 DEF LimiterRaises, Smooth, Caller
  <2>4. (ServedOnlyIfAllowed /\ HandlerReruns)'
    BY <1>6 DEF LimiterRaises, Smooth, Caller
  <2> QED
    BY <2>1, <2>2, <2>3, <2>4
<1>7. CASE Decide
  BY <1>7 DEF Decide, Smooth
<1>8. CASE Log
  <2>1. GateTypeOK'
    <3>1. Flags'
      BY <1>8, GateParts DEF Flags, Log, Logged, Entered, AfterLog, Smooth, Mishap
    <3>2. Places'
      BY <1>8, GateParts DEF Places, Log, Logged, Entered, AfterLog, Smooth, Mishap
    <3> QED
      BY <3>1, <3>2, GateParts
  <2>2. Course'
    BY <1>8 DEF Log, Logged, Entered, AfterLog, Smooth, Mishap
  <2>3. Trail'
    BY <1>8 DEF Log, Logged, Entered, AfterLog, Smooth, Mishap
  <2>4. (ServedOnlyIfAllowed /\ HandlerReruns)'
    BY <1>8 DEF Log, Logged, Entered, AfterLog, Smooth, Mishap
  <2> QED
    BY <2>1, <2>2, <2>3, <2>4
<1>9. CASE LogRaises
  BY <1>9 DEF LogRaises, Entered, AfterLog, Mishap
<1>10. CASE Record
  <2>1. GateTypeOK'
    <3>1. Flags'
      BY <1>10, GateParts DEF Flags, Record, Logged, Entered, AfterRecord, Smooth, Mishap
    <3>2. Places'
      BY <1>10, GateParts DEF Places, Record, Logged, Entered, AfterRecord, Smooth, Mishap
    <3> QED
      BY <3>1, <3>2, GateParts
  <2>2. Course'
    BY <1>10 DEF Record, Logged, Entered, AfterRecord, Smooth, Mishap
  <2>3. Trail'
    BY <1>10 DEF Record, Logged, Entered, AfterRecord, Smooth, Mishap
  <2>4. (ServedOnlyIfAllowed /\ HandlerReruns)'
    BY <1>10 DEF Record, Logged, Entered, AfterRecord, Smooth, Mishap
  <2> QED
    BY <2>1, <2>2, <2>3, <2>4
<1>11. CASE RecordRaises
  <2>1. GateTypeOK'
    <3>1. Flags'
      BY <1>11, GateParts DEF Flags, RecordRaises, Mishap
    <3>2. Places'
      BY <1>11, GateParts DEF Places, RecordRaises, Mishap
    <3> QED
      BY <3>1, <3>2, GateParts
  <2>2. Course'
    BY <1>11 DEF RecordRaises, Mishap
  <2>3. Trail'
    <3>1. upset' /\ UNCHANGED <<audit, kind>>
      BY <1>11 DEF RecordRaises, Mishap
    <3>2. kind = "web" => UNCHANGED verdict
      BY <1>11 DEF RecordRaises
    <3>3. place = "record"
      BY <1>11 DEF RecordRaises
    <3> QED
      BY <3>1, <3>2, <3>3
  <2>4. (ServedOnlyIfAllowed /\ HandlerReruns)'
    BY <1>11 DEF RecordRaises, Mishap
  <2> QED
    BY <2>1, <2>2, <2>3, <2>4
<1>12. CASE Serve
  <2>1. GateTypeOK'
    <3>1. Flags'
      BY <1>12, GateParts DEF Flags, Serve, InTry, Smooth
    <3>2. Places'
      BY <1>12, GateParts DEF Places, Serve, InTry, Smooth
    <3> QED
      BY <3>1, <3>2, GateParts
  <2>2. Course'
    BY <1>12 DEF Serve, InTry, Smooth
  <2>3. Trail'
    BY <1>12 DEF Serve, InTry, Smooth
  <2>4. (ServedOnlyIfAllowed /\ HandlerReruns)'
    BY <1>12 DEF Serve, InTry, Smooth
  <2> QED
    BY <2>1, <2>2, <2>3, <2>4
<1>13. CASE UNCHANGED gateVars
  BY <1>13 DEF gateVars
<1> QED
  BY <1>1, <1>2, <1>3, <1>4, <1>5, <1>6, <1>7, <1>8, <1>9, <1>10, <1>11, <1>12, <1>13
     DEF GateNext

\* The inductive invariant holds in every reachable state.
LEMMA GateAlways == GateSpec => []GateInv
BY GateInitInv, GateStep, PTL DEF GateSpec

\* The type invariant of the way of a request.
THEOREM GateTypeCorrect == GateSpec => []GateTypeOK
<1>1. GateInv => GateTypeOK
  BY DEF GateInv
<1> QED
  BY <1>1, GateAlways, PTL

\* The middleware calls the handler of a request that was not allowed only when something
\* failed on the way, or where the limiter cannot compare its datetimes.
THEOREM HandlerNeedsAllow == GateSpec => []ServedOnlyIfAllowed
<1>1. GateInv => ServedOnlyIfAllowed
  BY DEF GateInv
<1> QED
  BY <1>1, GateAlways, PTL

\* A handler runs at most twice, and twice only after an exception of a web request.
THEOREM HandlerRunsTwiceAtMost == GateSpec => []HandlerReruns
<1>1. GateInv => HandlerReruns
  BY DEF GateInv
<1> QED
  BY <1>1, GateAlways, PTL

\* Every decision of a web request on which nothing failed is in the trail.
THEOREM AuditComplete == GateSpec => []DecisionsAreAudited
<1>1. GateInv => DecisionsAreAudited
  BY DEF GateInv, GateTypeOK, Trail, SoFar, DecisionsAreAudited, Decisions
<1> QED
  BY <1>1, GateAlways, PTL

\* An entry of the trail that says a request was allowed is true.
THEOREM AuditTrue == GateSpec => []AllowedEntriesAreTrue
<1>1. GateInv => AllowedEntriesAreTrue
  BY DEF GateInv, Trail, AllowedEntriesAreTrue
<1> QED
  BY <1>1, GateAlways, PTL

-----------------------------------------------------------------------------
(* AccessControl: the last call decides, and every reader agrees            *)

Entries == [role : Roles \cup {"none"}, perms : SUBSET Permissions, left : Nat]
RowEntries == [role : Roles, perms : SUBSET Permissions, left : Nat]
AclRows == [id : Nat \ {0}, user : Users, project : Projects, entry : RowEntries]
AclOps == {"idle", "grant", "revoke", "update"}
AclCalls == [op : AclOps, user : Users \cup {"-"}, project : Projects \cup {"-"}, entry : Entries,
             id : Nat, seen : Entries]
BusyOnes == {a \in Admins : Busy(a)}

AclTyped ==
    /\ roleOf \in [Users -> Roles]
    /\ acl \subseteq AclRows
    /\ lastId \in Nat /\ changes \in 0 .. MaxChanges
    /\ overlapped \in BOOLEAN
    /\ promised \in [Users -> [Projects -> Entries]]

CallsTyped ==
    /\ doing \in [Admins -> AclCalls]
    /\ \A a \in Admins : Busy(a) =>
          /\ doing[a].user \in Users /\ doing[a].project \in Projects
          /\ doing[a].op = "grant" => doing[a].entry.role \in Roles

\* An id is one row's, and was given out.
IdsAreRows ==
    /\ \A r \in acl : r.id <= lastId
    /\ \A r, s \in acl : r.id = s.id => r = s

\* An id is given out for a call, once.
IdsAreCounted == IsFiniteSet(BusyOnes) /\ lastId + Cardinality(BusyOnes) <= changes

OneBusy == ~overlapped => \A a, b \in Admins : Busy(a) /\ Busy(b) => a = b

\* Without an overlap, what a call has loaded is still in the table.
LoadedIsThere ==
    ~overlapped => \A a \in Admins : Busy(a) =>
        \/ doing[a].id = 0 /\ RowsFor(doing[a].user, doing[a].project) = {}
        \/ \E r \in RowsFor(doing[a].user, doing[a].project) : r.id = doing[a].id /\ r.entry = doing[a].seen

\* Without an overlap, a user has one row on a project, with what was promised.
RowsAsPromised ==
    ~overlapped => \A u \in Users, p \in Projects :
        /\ \A r, s \in RowsFor(u, p) : r = s
        /\ \A r \in RowsFor(u, p) : r.entry = promised[u][p]
        /\ RowsFor(u, p) = {} => promised[u][p] = None

AclInv ==
    /\ AclTyped /\ CallsTyped /\ IdsAreRows /\ IdsAreCounted
    /\ OneBusy /\ LoadedIsThere /\ RowsAsPromised

LEMMA NoneIs == None \in Entries /\ None.role = "none" /\ None.left = 0 /\ None.perms = {}
BY DEF None, Entries

LEMMA NoCallIs == NoCall \in AclCalls /\ NoCall.op = "idle"
BY NoneIs DEF NoCall, AclCall, AclCalls, AclOps

LEMMA RowEntriesAre == RowEntries \subseteq Entries /\ None \notin RowEntries
BY NoneIs DEF RowEntries, Entries, Roles

LEMMA AclCallIs ==
    ASSUME NEW op \in AclOps, NEW u \in Users, NEW p \in Projects, NEW e \in Entries
    PROVE  /\ AclCall(op, u, p, e) \in AclCalls
           /\ AclCall(op, u, p, e).op = op /\ AclCall(op, u, p, e).user = u
           /\ AclCall(op, u, p, e).project = p /\ AclCall(op, u, p, e).entry = e
BY NoneIs DEF AclCall, AclCalls

LEMMA AclInitInv == AclInit => AclInv
<1> SUFFICES ASSUME AclInit PROVE AclInv
  OBVIOUS
<1> USE AccessAssumption DEF AclInit
<1>1. \A a \in Admins : ~Busy(a)
  BY NoCallIs DEF Busy
<1>2. AclTyped
  <2>1. roleOf \in [Users -> Roles] /\ promised \in [Users -> [Projects -> Entries]]
    BY NoneIs DEF Roles
  <2>2. 0 \in 0 .. MaxChanges
    OBVIOUS
  <2> QED
    BY <2>1, <2>2 DEF AclTyped
<1>3. CallsTyped
  BY <1>1, NoCallIs DEF CallsTyped
<1>4. IdsAreRows
  BY DEF IdsAreRows
<1>5. OneBusy /\ LoadedIsThere
  BY <1>1 DEF OneBusy, LoadedIsThere
<1>6. IdsAreCounted
  <2>1. BusyOnes = {}
    BY <1>1 DEF BusyOnes
  <2> QED
    BY <2>1, FS_EmptySet DEF IdsAreCounted
<1>7. RowsAsPromised
  BY DEF RowsAsPromised, RowsFor
<1> QED
  BY <1>2, <1>3, <1>4, <1>5, <1>6, <1>7 DEF AclInv

\* A call that loads a row changes no row.
LEMMA LoadStep ==
    ASSUME AclInv, NEW a \in Admins, NEW asked \in AclCalls, Load(a, asked),
           asked.op # "idle", asked.user \in Users, asked.project \in Projects,
           asked.op = "grant" => asked.entry.role \in Roles
    PROVE  AclInv'
<1> USE AccessAssumption DEF AclInv
<1>1. /\ UNCHANGED <<roleOf, acl, lastId, promised>>
      /\ ~Busy(a) /\ changes' = changes + 1 /\ changes < MaxChanges
      /\ overlapped' = (overlapped \/ \E b \in Admins : Busy(b))
  BY DEF Load
<1>2. PICK r \in First(asked.user, asked.project) :
          doing' = [doing EXCEPT ![a] = [asked EXCEPT !.id = r.id, !.seen = r.entry]]
  BY DEF Load
<1>3. /\ r.id \in Nat /\ r.entry \in Entries
      /\ \/ r.id = 0 /\ RowsFor(asked.user, asked.project) = {}
         \/ r \in RowsFor(asked.user, asked.project)
  <2>1. CASE RowsFor(asked.user, asked.project) = {}
    BY <1>2, <2>1, NoneIs DEF First, Missing
  <2>2. CASE RowsFor(asked.user, asked.project) # {}
    <3>1. r \in RowsFor(asked.user, asked.project) /\ r \in acl
      BY <1>2, <2>2 DEF First, RowsFor
    <3>2. r \in AclRows
      BY <3>1 DEF AclTyped
    <3> QED
      BY <3>1, <3>2, RowEntriesAre DEF AclRows
  <2> QED
    BY <2>1, <2>2
<1>4. PICK new \in AclCalls : /\ new = [asked EXCEPT !.id = r.id, !.seen = r.entry]
                              /\ new.op = asked.op /\ new.user = asked.user /\ new.project = asked.project
                              /\ new.entry = asked.entry /\ new.id = r.id /\ new.seen = r.entry
  <2>1. PICK i \in Nat, e \in Entries : i = r.id /\ e = r.entry
    BY <1>3
  <2>2. [asked EXCEPT !.id = i, !.seen = e] \in AclCalls
    BY DEF AclCalls
  <2>3. PICK new \in AclCalls : new = [asked EXCEPT !.id = i, !.seen = e]
    BY <2>2
  <2>4. /\ new.op = asked.op /\ new.user = asked.user /\ new.project = asked.project
        /\ new.entry = asked.entry /\ new.id = i /\ new.seen = e
    BY <2>3 DEF AclCalls
  <2> QED
    BY <2>1, <2>3, <2>4
<1>5. doing' \in [Admins -> AclCalls] /\ doing'[a] = new /\ \A b \in Admins : b # a => doing'[b] = doing[b]
  BY <1>2, <1>4 DEF CallsTyped
<1>6. \A b \in Admins : Busy(b)' <=> Busy(b) \/ b = a
  BY <1>4, <1>5 DEF Busy
<1>7. AclTyped'
  BY <1>1 DEF AclTyped
<1>8. CallsTyped'
  BY <1>4, <1>5, <1>6 DEF CallsTyped
<1>9. IdsAreRows'
  BY <1>1 DEF IdsAreRows
<1>10. IdsAreCounted'
  <2>1. BusyOnes' = BusyOnes \cup {a} /\ a \notin BusyOnes
    BY <1>1, <1>6 DEF BusyOnes
  <2>2. /\ IsFiniteSet(BusyOnes') /\ Cardinality(BusyOnes') = Cardinality(BusyOnes) + 1
        /\ Cardinality(BusyOnes) \in Nat
    BY <2>1, FS_AddElement, FS_CardinalityType DEF IdsAreCounted
  <2> QED
    BY <1>1, <2>2 DEF IdsAreCounted, AclTyped
<1>11. ~overlapped' => ~overlapped /\ \A b \in Admins : ~Busy(b)
  BY <1>1
<1>12. OneBusy'
  BY <1>6, <1>11 DEF OneBusy
<1>13. LoadedIsThere'
  <2>1. \A b \in Admins : Busy(b)' /\ ~overlapped' => b = a
    BY <1>6, <1>11
  <2>2. \A u, p : RowsFor(u, p)' = RowsFor(u, p)
    BY <1>1 DEF RowsFor
  <2>3. \/ doing'[a].id = 0 /\ RowsFor(doing'[a].user, doing'[a].project) = {}
        \/ \E x \in RowsFor(doing'[a].user, doing'[a].project) : x.id = doing'[a].id /\ x.entry = doing'[a].seen
    BY <1>3, <1>4, <1>5
  <2> QED
    BY <1>1, <2>1, <2>3 DEF LoadedIsThere, RowsFor
<1>14. RowsAsPromised'
  BY <1>1, <1>11 DEF RowsAsPromised, RowsFor
<1> QED
  BY <1>7, <1>8, <1>9, <1>10, <1>12, <1>13, <1>14

\* A call that ends: the administrator is free, and if nothing overlaps so are the others.
LEMMA CallEnds ==
    ASSUME AclInv, NEW a \in Admins, Busy(a), Free(a), UNCHANGED <<roleOf, changes, overlapped>>
    PROVE  /\ CallsTyped' /\ OneBusy' /\ LoadedIsThere'
           /\ IsFiniteSet(BusyOnes') /\ Cardinality(BusyOnes) = Cardinality(BusyOnes') + 1
           /\ Cardinality(BusyOnes') \in Nat
           /\ doing[a] \in AclCalls /\ doing[a].user \in Users /\ doing[a].project \in Projects
           /\ doing[a].op = "grant" => doing[a].entry \in RowEntries
<1> USE DEF AclInv
<1>1. /\ doing' \in [Admins -> AclCalls] /\ doing'[a] = NoCall
      /\ \A b \in Admins : b # a => doing'[b] = doing[b]
  BY NoCallIs DEF Free, CallsTyped
<1>2. \A b \in Admins : Busy(b)' <=> Busy(b) /\ b # a
  BY <1>1, NoCallIs DEF Busy
<1>3. CallsTyped'
  BY <1>1, <1>2 DEF CallsTyped
<1>4. OneBusy' /\ LoadedIsThere'
  BY <1>2 DEF OneBusy, LoadedIsThere
<1>5. /\ IsFiniteSet(BusyOnes') /\ Cardinality(BusyOnes) = Cardinality(BusyOnes') + 1
      /\ Cardinality(BusyOnes') \in Nat
  <2>1. BusyOnes' = BusyOnes \ {a} /\ a \in BusyOnes
    BY <1>2 DEF BusyOnes
  <2>2. IsFiniteSet(BusyOnes \ {a}) /\ Cardinality(BusyOnes \ {a}) = Cardinality(BusyOnes) - 1
    BY <2>1, FS_RemoveElement DEF IdsAreCounted
  <2>3. Cardinality(BusyOnes) \in Nat /\ Cardinality(BusyOnes \ {a}) \in Nat
    BY <2>2, FS_CardinalityType DEF IdsAreCounted
  <2> QED
    BY <2>1, <2>2, <2>3
<1>6. /\ doing[a] \in AclCalls /\ doing[a].user \in Users /\ doing[a].project \in Projects
      /\ doing[a].op = "grant" => doing[a].entry \in RowEntries
  BY DEF CallsTyped, AclCalls, Entries, RowEntries
<1> QED
  BY <1>3, <1>4, <1>5, <1>6

LEMMA CommitInsertStep == ASSUME AclInv, NEW a \in Admins, CommitInsert(a) PROVE AclInv'
<1> USE AccessAssumption DEF AclInv
<1>1. /\ Busy(a) /\ Free(a) /\ UNCHANGED <<roleOf, changes, overlapped>>
      /\ doing[a].op = "grant" /\ doing[a].id = 0 /\ lastId' = lastId + 1
  BY DEF CommitInsert, Insert, FreshId
<1>2. /\ CallsTyped' /\ OneBusy' /\ LoadedIsThere'
      /\ IsFiniteSet(BusyOnes') /\ Cardinality(BusyOnes) = Cardinality(BusyOnes') + 1
      /\ Cardinality(BusyOnes') \in Nat
      /\ doing[a] \in AclCalls /\ doing[a].user \in Users /\ doing[a].project \in Projects
      /\ doing[a].entry \in RowEntries
  BY <1>1, CallEnds
<1>3. PICK u \in Users, p \in Projects, e \in RowEntries :
          doing[a].user = u /\ doing[a].project = p /\ doing[a].entry = e
  BY <1>2
<1>4. PICK new \in AclRows : /\ new = [id |-> lastId + 1, user |-> u, project |-> p, entry |-> e]
                             /\ new.id = lastId + 1 /\ new.user = u /\ new.project = p /\ new.entry = e
  <2>1. lastId + 1 \in Nat \ {0}
    BY DEF AclTyped
  <2>2. [id |-> lastId + 1, user |-> u, project |-> p, entry |-> e] \in AclRows
    BY <2>1 DEF AclRows
  <2> QED
    BY <2>2
<1>5. acl' = acl \cup {new} /\ promised' = [promised EXCEPT ![u][p] = e]
  BY <1>3, <1>4 DEF CommitInsert, FreshId, Promise
<1>6. AclTyped'
  <2>1. promised' \in [Users -> [Projects -> Entries]]
    BY <1>5, RowEntriesAre DEF AclTyped
  <2> QED
    BY <1>1, <1>4, <1>5, <2>1 DEF AclTyped
<1>7. IdsAreRows'
  <2>1. \A r \in acl : r.id \in Nat /\ r.id <= lastId
    BY DEF IdsAreRows, AclTyped, AclRows
  <2> QED
    BY <1>1, <1>4, <1>5, <2>1 DEF IdsAreRows, AclTyped
<1>8. IdsAreCounted'
  BY <1>1, <1>2 DEF IdsAreCounted, AclTyped
<1>9. RowsAsPromised'
  <2> SUFFICES ASSUME ~overlapped, NEW v \in Users, NEW q \in Projects
               PROVE  (/\ \A r, s \in RowsFor(v, q) : r = s
                       /\ \A r \in RowsFor(v, q) : r.entry = promised[v][q]
                       /\ RowsFor(v, q) = {} => promised[v][q] = None)'
    BY <1>1 DEF RowsAsPromised
  <2>1. RowsFor(u, p) = {}
    <3>1. \A r \in acl : r.id # 0
      BY DEF AclTyped, AclRows
    <3> QED
      BY <1>1, <1>3, <3>1 DEF LoadedIsThere, RowsFor
  <2>2. CASE v = u /\ q = p
    <3>1. RowsFor(v, q)' = {new}
      BY <1>4, <1>5, <2>1, <2>2 DEF RowsFor
    <3>2. promised'[v][q] = e
      BY <1>5, <2>2 DEF AclTyped
    <3> QED
      BY <1>4, <3>1, <3>2
  <2>3. CASE ~(v = u /\ q = p)
    <3>1. RowsFor(v, q)' = RowsFor(v, q)
      BY <1>4, <1>5, <2>3 DEF RowsFor
    <3>2. promised'[v][q] = promised[v][q]
      BY <1>5, <2>3 DEF AclTyped
    <3> QED
      BY <3>1, <3>2 DEF RowsAsPromised
  <2> QED
    BY <2>2, <2>3
<1> QED
  BY <1>2, <1>6, <1>7, <1>8, <1>9

LEMMA CommitUpdateStep == ASSUME AclInv, NEW a \in Admins, CommitUpdate(a) PROVE AclInv'
<1> USE AccessAssumption DEF AclInv
<1>1. /\ Busy(a) /\ Free(a) /\ UNCHANGED <<roleOf, lastId, changes, overlapped>>
      /\ doing[a].op \in {"grant", "update"}
  BY DEF CommitUpdate
<1>2. /\ CallsTyped' /\ OneBusy' /\ LoadedIsThere'
      /\ IsFiniteSet(BusyOnes') /\ Cardinality(BusyOnes) = Cardinality(BusyOnes') + 1
      /\ Cardinality(BusyOnes') \in Nat
      /\ doing[a] \in AclCalls /\ doing[a].user \in Users /\ doing[a].project \in Projects
      /\ doing[a].op = "grant" => doing[a].entry \in RowEntries
  BY <1>1, CallEnds
<1>3. PICK u \in Users, p \in Projects, d \in AclCalls :
          d = doing[a] /\ d.user = u /\ d.project = p
  BY <1>2
<1>4. PICK r \in acl :
          /\ r.id = d.id
          /\ acl' = (acl \ {r}) \cup {[r EXCEPT !.entry = Written(d, @)]}
          /\ Promise(u, p, IF d.op = "grant" THEN d.entry ELSE [promised[u][p] EXCEPT !.perms = d.entry.perms])
  BY <1>3 DEF CommitUpdate
<1>5. PICK e \in RowEntries : e = Written(d, r.entry)
  <2>1. r.entry \in RowEntries /\ d.entry \in Entries /\ (d.op = "grant" => d.entry \in RowEntries)
    BY <1>2, <1>3 DEF AclTyped, AclRows, AclCalls
  <2> QED
    BY <2>1 DEF Written, RowEntries, Entries
<1>6. PICK new \in AclRows : /\ new = [r EXCEPT !.entry = e]
                             /\ new.id = r.id /\ new.user = r.user /\ new.project = r.project /\ new.entry = e
  <2>1. r \in AclRows
    BY DEF AclTyped
  <2>2. [r EXCEPT !.entry = e] \in AclRows
    BY <2>1 DEF AclRows
  <2>3. PICK new \in AclRows : new = [r EXCEPT !.entry = e]
    BY <2>2
  <2>4. new.id = r.id /\ new.user = r.user /\ new.project = r.project /\ new.entry = e
    BY <2>1, <2>3 DEF AclRows
  <2> QED
    BY <2>3, <2>4
<1>7. acl' = (acl \ {r}) \cup {new}
  BY <1>4, <1>5, <1>6
<1>8. PICK said \in Entries :
          /\ said = IF d.op = "grant" THEN d.entry ELSE [promised[u][p] EXCEPT !.perms = d.entry.perms]
          /\ promised' = [promised EXCEPT ![u][p] = said]
  <2>1. d.entry \in Entries /\ promised[u][p] \in Entries
    BY <1>3 DEF AclCalls, AclTyped
  <2>2. [promised[u][p] EXCEPT !.perms = d.entry.perms] \in Entries
    BY <2>1 DEF Entries
  <2> QED
    BY <1>4, <2>1, <2>2 DEF Promise
<1>9. AclTyped'
  <2>1. promised' \in [Users -> [Projects -> Entries]]
    BY <1>8 DEF AclTyped
  <2> QED
    BY <1>1, <1>7, <2>1 DEF AclTyped
<1>10. IdsAreRows'
  <2>1. \A x \in acl' : x = new \/ (x \in acl /\ x # r)
    BY <1>7
  <2>2. \A x \in acl' : x.id <= lastId
    BY <1>6, <2>1 DEF IdsAreRows
  <2>3. \A x, y \in acl' : x.id = y.id => x = y
    BY <1>6, <2>1 DEF IdsAreRows
  <2> QED
    BY <1>1, <2>2, <2>3 DEF IdsAreRows
<1>11. IdsAreCounted'
  BY <1>1, <1>2 DEF IdsAreCounted, AclTyped
<1>12. RowsAsPromised'
  <2> SUFFICES ASSUME ~overlapped, NEW v \in Users, NEW q \in Projects
               PROVE  (/\ \A x, s \in RowsFor(v, q) : x = s
                       /\ \A x \in RowsFor(v, q) : x.entry = promised[v][q]
                       /\ RowsFor(v, q) = {} => promised[v][q] = None)'
    BY <1>1 DEF RowsAsPromised
  <2>1. r \in RowsFor(u, p) /\ r.entry = d.seen
    <3>1. r.id # 0
      BY DEF AclTyped, AclRows
    <3>2. PICK x \in RowsFor(u, p) : x.id = d.id /\ x.entry = d.seen
      BY <1>1, <1>3, <1>4, <3>1 DEF LoadedIsThere
    <3> QED
      BY <1>4, <3>2 DEF IdsAreRows, RowsFor
  <2>2. CASE v = u /\ q = p
    <3>1. RowsFor(u, p) = {r} /\ r.entry = promised[u][p]
      BY <2>1 DEF RowsAsPromised
    <3>2. RowsFor(v, q)' = {new}
      BY <1>6, <1>7, <2>1, <2>2, <3>1 DEF RowsFor
    <3>3. promised'[v][q] = said
      BY <1>8, <2>2 DEF AclTyped
    <3>4. e = said
      <4>1. r.entry \in RowEntries /\ d.entry \in Entries
        BY DEF AclTyped, AclRows, AclCalls
      <4>2. CASE d.op = "grant"
        BY <1>5, <1>8, <2>1, <4>1, <4>2 DEF Written, RowEntries, Entries
      <4>3. CASE d.op # "grant"
        BY <1>5, <1>8, <2>1, <3>1, <4>1, <4>3 DEF Written, RowEntries, Entries
      <4> QED
        BY <4>2, <4>3
    <3> QED
      BY <1>6, <3>2, <3>3, <3>4
  <2>3. CASE ~(v = u /\ q = p)
    <3>1. RowsFor(v, q)' = RowsFor(v, q)
      BY <1>6, <1>7, <2>1, <2>3 DEF RowsFor
    <3>2. promised'[v][q] = promised[v][q]
      BY <1>8, <2>3 DEF AclTyped
    <3> QED
      BY <3>1, <3>2 DEF RowsAsPromised
  <2> QED
    BY <2>2, <2>3
<1> QED
  BY <1>2, <1>9, <1>10, <1>11, <1>12

LEMMA CommitRevokeStep == ASSUME AclInv, NEW a \in Admins, CommitRevoke(a) PROVE AclInv'
<1> USE AccessAssumption DEF AclInv
<1>1. Busy(a) /\ Free(a) /\ UNCHANGED <<roleOf, lastId, changes, overlapped>>
  BY DEF CommitRevoke
<1>2. /\ CallsTyped' /\ OneBusy' /\ LoadedIsThere'
      /\ IsFiniteSet(BusyOnes') /\ Cardinality(BusyOnes) = Cardinality(BusyOnes') + 1
      /\ Cardinality(BusyOnes') \in Nat
      /\ doing[a].user \in Users /\ doing[a].project \in Projects
  BY <1>1, CallEnds
<1>3. PICK u \in Users, p \in Projects : doing[a].user = u /\ doing[a].project = p
  BY <1>2
<1>4. PICK r \in acl : r.id = doing[a].id /\ acl' = acl \ {r}
  BY DEF CommitRevoke
<1>5. promised' = [promised EXCEPT ![u][p] = None]
  BY <1>3 DEF CommitRevoke, Promise
<1>6. AclTyped'
  <2>1. promised' \in [Users -> [Projects -> Entries]]
    BY <1>5, NoneIs DEF AclTyped
  <2> QED
    BY <1>1, <1>4, <2>1 DEF AclTyped
<1>7. IdsAreRows'
  BY <1>1, <1>4 DEF IdsAreRows
<1>8. IdsAreCounted'
  BY <1>1, <1>2 DEF IdsAreCounted, AclTyped
<1>9. RowsAsPromised'
  <2> SUFFICES ASSUME ~overlapped, NEW v \in Users, NEW q \in Projects
               PROVE  (/\ \A x, s \in RowsFor(v, q) : x = s
                       /\ \A x \in RowsFor(v, q) : x.entry = promised[v][q]
                       /\ RowsFor(v, q) = {} => promised[v][q] = None)'
    BY <1>1 DEF RowsAsPromised
  <2>1. r \in RowsFor(u, p)
    <3>1. r.id # 0
      BY DEF AclTyped, AclRows
    <3>2. PICK x \in RowsFor(u, p) : x.id = r.id
      BY <1>1, <1>3, <1>4, <3>1 DEF LoadedIsThere
    <3> QED
      BY <3>2 DEF IdsAreRows, RowsFor
  <2>2. CASE v = u /\ q = p
    <3>1. RowsFor(v, q)' = {}
      BY <1>4, <2>1, <2>2 DEF RowsFor, RowsAsPromised
    <3>2. promised'[v][q] = None
      BY <1>5, <2>2 DEF AclTyped
    <3> QED
      BY <3>1, <3>2
  <2>3. CASE ~(v = u /\ q = p)
    <3>1. RowsFor(v, q)' = RowsFor(v, q)
      BY <1>4, <2>1, <2>3 DEF RowsFor
    <3>2. promised'[v][q] = promised[v][q]
      BY <1>5, <2>3 DEF AclTyped
    <3> QED
      BY <3>1, <3>2 DEF RowsAsPromised
  <2> QED
    BY <2>2, <2>3
<1> QED
  BY <1>2, <1>6, <1>7, <1>8, <1>9

LEMMA CommitNothingStep == ASSUME AclInv, NEW a \in Admins, CommitNothing(a) PROVE AclInv'
<1> USE AccessAssumption DEF AclInv
<1>1. Busy(a) /\ Free(a) /\ UNCHANGED <<roleOf, acl, lastId, changes, overlapped, promised>>
  BY DEF CommitNothing
<1>2. /\ CallsTyped' /\ OneBusy' /\ LoadedIsThere'
      /\ IsFiniteSet(BusyOnes') /\ Cardinality(BusyOnes) = Cardinality(BusyOnes') + 1
      /\ Cardinality(BusyOnes') \in Nat
  BY <1>1, CallEnds
<1>3. AclTyped' /\ IdsAreRows' /\ RowsAsPromised'
  BY <1>1 DEF AclTyped, IdsAreRows, RowsAsPromised, RowsFor
<1>4. IdsAreCounted'
  BY <1>1, <1>2 DEF IdsAreCounted, AclTyped
<1> QED
  BY <1>2, <1>3, <1>4

LEMMA AgedIs ==
    /\ \A e \in Entries : Aged(e) \in Entries /\ Aged(e).role = e.role /\ Aged(e).perms = e.perms
    /\ \A e \in RowEntries : Aged(e) \in RowEntries
    /\ Aged(None) = None
BY AccessAssumption, NoneIs DEF Aged, Entries, RowEntries

LEMMA DayStep == ASSUME AclInv, Day PROVE AclInv'
<1> USE AccessAssumption DEF AclInv
<1>1. /\ \A a \in Admins : ~Busy(a)
      /\ UNCHANGED <<roleOf, lastId, doing, changes, overlapped>>
      /\ acl' = {[r EXCEPT !.entry = Aged(@)] : r \in acl}
      /\ promised' = [u \in Users |-> [p \in Projects |-> Aged(promised[u][p])]]
  BY DEF Day
<1>2. \A r \in acl : /\ [r EXCEPT !.entry = Aged(@)] \in AclRows
                     /\ [r EXCEPT !.entry = Aged(@)].id = r.id
                     /\ [r EXCEPT !.entry = Aged(@)].user = r.user
                     /\ [r EXCEPT !.entry = Aged(@)].project = r.project
                     /\ [r EXCEPT !.entry = Aged(@)].entry = Aged(r.entry)
  <2> SUFFICES ASSUME NEW r \in acl
               PROVE  /\ [r EXCEPT !.entry = Aged(@)] \in AclRows
                      /\ [r EXCEPT !.entry = Aged(@)].id = r.id
                      /\ [r EXCEPT !.entry = Aged(@)].user = r.user
                      /\ [r EXCEPT !.entry = Aged(@)].project = r.project
                      /\ [r EXCEPT !.entry = Aged(@)].entry = Aged(r.entry)
    OBVIOUS
  <2>1. r \in AclRows /\ Aged(r.entry) \in RowEntries
    BY AgedIs DEF AclTyped, AclRows
  <2> QED
    BY <2>1 DEF AclRows
<1>3. \A x \in acl' : \E r \in acl : /\ x = [r EXCEPT !.entry = Aged(@)] /\ x \in AclRows /\ x.id = r.id
                                     /\ x.user = r.user /\ x.project = r.project /\ x.entry = Aged(r.entry)
  BY <1>1, <1>2
<1>4. \A u \in Users : \A p \in Projects : promised'[u][p] = Aged(promised[u][p]) /\ promised[u][p] \in Entries
  BY <1>1 DEF AclTyped
<1>5. AclTyped'
  <2>1. promised' \in [Users -> [Projects -> Entries]]
    BY <1>1, <1>4, AgedIs
  <2>2. acl' \subseteq AclRows
    BY <1>3
  <2> QED
    BY <1>1, <2>1, <2>2 DEF AclTyped
<1>6. CallsTyped' /\ OneBusy' /\ LoadedIsThere'
  BY <1>1 DEF CallsTyped, OneBusy, LoadedIsThere, Busy
<1>7. IdsAreRows'
  BY <1>1, <1>3 DEF IdsAreRows
<1>8. IdsAreCounted'
  <2>1. BusyOnes' = BusyOnes
    BY <1>1 DEF BusyOnes, Busy
  <2> QED
    BY <1>1, <2>1 DEF IdsAreCounted
<1>9. RowsAsPromised'
  <2> SUFFICES ASSUME ~overlapped, NEW u \in Users, NEW p \in Projects
               PROVE  (/\ \A x, y \in RowsFor(u, p) : x = y
                       /\ \A x \in RowsFor(u, p) : x.entry = promised[u][p]
                       /\ RowsFor(u, p) = {} => promised[u][p] = None)'
    BY <1>1 DEF RowsAsPromised
  <2>1. \A x \in RowsFor(u, p)' : \E r \in RowsFor(u, p) : x = [r EXCEPT !.entry = Aged(@)] /\ x.entry = Aged(r.entry)
    BY <1>3 DEF RowsFor
  <2>2. RowsFor(u, p)' = {} => RowsFor(u, p) = {}
    <3> SUFFICES ASSUME NEW r \in RowsFor(u, p) PROVE RowsFor(u, p)' # {}
      OBVIOUS
    <3>1. PICK x : x = [r EXCEPT !.entry = Aged(@)]
      OBVIOUS
    <3>2. r \in acl /\ r.user = u /\ r.project = p
      BY DEF RowsFor
    <3>3. x \in acl' /\ x.user = u /\ x.project = p
      BY <1>1, <1>2, <3>1, <3>2
    <3> QED
      BY <3>3 DEF RowsFor
  <2>3. /\ \A r, s \in RowsFor(u, p) : r = s
        /\ \A r \in RowsFor(u, p) : r.entry = promised[u][p]
        /\ RowsFor(u, p) = {} => promised[u][p] = None
    BY DEF RowsAsPromised
  <2>4. \A x, y \in RowsFor(u, p)' : x = y
    BY <2>1, <2>3
  <2> QED
    BY <1>4, <2>1, <2>2, <2>3, <2>4, AgedIs
<1> QED
  BY <1>5, <1>6, <1>7, <1>8, <1>9

LEMMA AclStep == AclInv /\ [AclNext]_aclVars => AclInv'
<1> SUFFICES ASSUME AclInv, [AclNext]_aclVars PROVE AclInv'
  OBVIOUS
<1>1. ASSUME NEW a \in Admins, NEW u \in Users, NEW p \in Projects, LoadGrant(a, u, p) PROVE AclInv'
  <2>1. PICK role \in GrantRoles, left \in Lifetimes : Load(a, AclCall("grant", u, p, Entry(role, RolePermissions(role), left)))
    BY <1>1 DEF LoadGrant
  <2>2. role \in Roles /\ left \in Nat
    BY AccessAssumption
  <2>3. RolePermissions(role) \subseteq Permissions
    BY <2>2 DEF RolePermissions, Roles, Permissions
  <2>4. PICK e \in RowEntries : e = Entry(role, RolePermissions(role), left)
    BY <2>2, <2>3 DEF Entry, RowEntries
  <2>5. PICK asked \in AclCalls : /\ asked = AclCall("grant", u, p, e) /\ asked.op = "grant" /\ asked.user = u
                                  /\ asked.project = p /\ asked.entry = e
    BY AclCallIs, RowEntriesAre DEF AclOps
  <2>6. e.role \in Roles
    BY DEF RowEntries
  <2> QED
    BY <2>1, <2>4, <2>5, <2>6, LoadStep
<1>2. ASSUME NEW a \in Admins, NEW u \in Users, NEW p \in Projects, LoadRevoke(a, u, p) PROVE AclInv'
  <2>1. PICK asked \in AclCalls : /\ asked = AclCall("revoke", u, p, None) /\ asked.op = "revoke" /\ asked.user = u
                                  /\ asked.project = p
    BY AclCallIs, NoneIs DEF AclOps
  <2> QED
    BY <1>2, <2>1, LoadStep DEF LoadRevoke
<1>3. ASSUME NEW a \in Admins, NEW u \in Users, NEW p \in Projects, LoadUpdate(a, u, p) PROVE AclInv'
  <2>1. PICK perms \in CustomSets : Load(a, AclCall("update", u, p, [None EXCEPT !.perms = perms \cap Permissions]))
    BY <1>3 DEF LoadUpdate
  <2>2. PICK e \in Entries : e = [None EXCEPT !.perms = perms \cap Permissions]
    BY NoneIs DEF Entries
  <2>3. PICK asked \in AclCalls : /\ asked = AclCall("update", u, p, e) /\ asked.op = "update" /\ asked.user = u
                                  /\ asked.project = p
    BY AclCallIs DEF AclOps
  <2> QED
    BY <2>1, <2>2, <2>3, LoadStep
<1>4. ASSUME NEW a \in Admins, CommitInsert(a) \/ CommitUpdate(a) \/ CommitRevoke(a) \/ CommitNothing(a) PROVE AclInv'
  BY <1>4, CommitInsertStep, CommitUpdateStep, CommitRevokeStep, CommitNothingStep
<1>5. CASE UNCHANGED aclVars
  <2> USE <1>5 DEF aclVars, AclInv
  <2>1. AclTyped' /\ CallsTyped' /\ IdsAreRows' /\ OneBusy'
    BY DEF AclTyped, CallsTyped, IdsAreRows, OneBusy, Busy
  <2>2. LoadedIsThere' /\ RowsAsPromised'
    BY DEF LoadedIsThere, RowsAsPromised, RowsFor, Busy
  <2>3. IdsAreCounted'
    BY DEF IdsAreCounted, BusyOnes, Busy
  <2> QED
    BY <2>1, <2>2, <2>3
<1> QED
  BY <1>1, <1>2, <1>3, <1>4, <1>5, DayStep DEF AclNext

LEMMA AclAlways == AclSpec => []AclInv
BY AclInitInv, AclStep, PTL DEF AclSpec

\* The access control list keeps its types, and no more ids are given out than calls are made.
THEOREM AclTypeCorrect == AclSpec => []AclTypeOK
<1>1. AclInv => AclTypeOK
  <2> SUFFICES ASSUME AclInv PROVE AclTypeOK
    OBVIOUS
  <2> USE AccessAssumption DEF AclInv
  <2>1. Cardinality(BusyOnes) \in Nat /\ lastId + Cardinality(BusyOnes) <= changes
    BY FS_CardinalityType DEF IdsAreCounted
  <2>2. lastId \in Nat /\ changes \in 0 .. MaxChanges
    BY DEF AclTyped
  <2>3. lastId \in 0 .. MaxChanges
    BY <2>1, <2>2
  <2>4. \A r \in acl : r \in AclRows /\ r.id \in 1 .. MaxChanges
    BY <2>3 DEF AclTyped, AclRows, IdsAreRows
  <2>5. acl \subseteq [id : 1 .. MaxChanges, user : Users, project : Projects,
                       entry : [role : Roles, perms : SUBSET Permissions, left : Nat]]
    BY <2>4 DEF AclRows, RowEntries
  <2> QED
    BY <2>2, <2>3, <2>5 DEF AclTypeOK, AclTyped
<1> QED
  BY <1>1, AclAlways, PTL

LEMMA PromiseIsKept == AclInv => LastCallDecides
<1> SUFFICES ASSUME AclInv, ~overlapped, NEW u \in Users, NEW p \in Projects
             PROVE  /\ {r.entry : r \in RowsFor(u, p)} = {promised[u][p]} \ {None}
                    /\ Cardinality(RowsFor(u, p)) <= 1
  BY DEF LastCallDecides
<1>1. /\ \A r, s \in RowsFor(u, p) : r = s
      /\ \A r \in RowsFor(u, p) : r.entry = promised[u][p]
      /\ RowsFor(u, p) = {} => promised[u][p] = None
  BY DEF AclInv, RowsAsPromised
<1>2. CASE RowsFor(u, p) = {}
  BY <1>1, <1>2, FS_EmptySet
<1>3. CASE RowsFor(u, p) # {}
  <2>1. PICK r : r \in RowsFor(u, p)
    BY <1>3
  <2>2. RowsFor(u, p) = {r} /\ r.entry = promised[u][p]
    BY <1>1, <2>1
  <2>3. r.entry # None
    <3>1. r.entry \in RowEntries
      BY <2>1 DEF AclInv, AclTyped, AclRows, RowsFor
    <3> QED
      BY <3>1, RowEntriesAre
  <2>4. {x.entry : x \in RowsFor(u, p)} = {promised[u][p]} \ {None}
    BY <2>2, <2>3
  <2>5. Cardinality(RowsFor(u, p)) = 1
    BY <2>2, FS_Singleton
  <2> QED
    BY <2>4, <2>5
<1> QED
  BY <1>2, <1>3

LEMMA ClearanceOfGrants == \A role \in Roles : ClearanceFrom(RolePermissions(role)) = Clearance(role)
<1> SUFFICES ASSUME NEW role \in Roles PROVE ClearanceFrom(RolePermissions(role)) = Clearance(role)
  OBVIOUS
<1> USE DEF ClearanceFrom, RolePermissions, Clearance, Permissions
<1>1. CASE role = "admin"
  BY <1>1
<1>2. CASE role = "director"
  BY <1>2
<1>3. CASE role = "engineer"
  BY <1>3
<1>4. CASE role = "commercial"
  BY <1>4
<1>5. CASE role = "safety_officer"
  BY <1>5
<1>6. CASE role = "viewer"
  BY <1>6
<1> QED
  BY <1>1, <1>2, <1>3, <1>4, <1>5, <1>6 DEF Roles

\* What a query for the row of a user and a project finds.
LEMMA FirstIs ==
    ASSUME AclInv, NEW u, NEW p, NEW r \in First(u, p)
    PROVE  \/ r.id = 0 /\ RowsFor(u, p) = {}
           \/ r.id # 0 /\ r \in RowsFor(u, p)
<1>1. CASE RowsFor(u, p) = {}
  BY <1>1 DEF First, Missing
<1>2. CASE RowsFor(u, p) # {}
  <2>1. r \in RowsFor(u, p) /\ r \in acl
    BY <1>2 DEF First, RowsFor
  <2> QED
    BY <2>1 DEF AclInv, AclTyped, AclRows
<1> QED
  BY <1>1, <1>2

LEMMA Views == AclInv => ViewsAgree
<1> SUFFICES ASSUME AclInv, NEW u \in Users, NEW p \in Projects
             PROVE  /\ p \in ListedProjects(u) <=> u \in ListedUsers(p)
                    /\ \A r \in First(u, p) :
                        /\ UserPermissions(u, r) # {} => ProjectRule(u, r)
                        /\ ProjectRule(u, r) /\ UserPermissions(u, r) = {} => r.entry.perms = {} /\ ~Expired(r)
                        /\ ProjectRule(u, r) => p \in ListedProjects(u)
                        /\ p \in ListedProjects(u) /\ ~ProjectRule(u, r) =>
                            overlapped \/ (IsGlobal(u) /\ Expired(r))
                        /\ \A action \in Permissions :
                            MayAct(u, r, action) => action \in RolePermissions(roleOf[u])
                        /\ r.id # 0 /\ Expired(r) => \A c \in DOMAIN Levels : ~MayExport(u, r, c)
  BY ClearanceOfGrants DEF ViewsAgree
<1>1. p \in ListedProjects(u) <=> IsGlobal(u) \/ \E r \in RowsFor(u, p) : ~Expired(r)
  BY DEF ListedProjects, RowsFor
<1>2. u \in ListedUsers(p) <=> IsGlobal(u) \/ \E r \in RowsFor(u, p) : ~Expired(r)
  BY DEF ListedUsers, RowsFor
<1>3. IsGlobal(u) => RolePermissions(roleOf[u]) # {}
  BY DEF IsGlobal, RolePermissions, Permissions
<1>4. ASSUME NEW r \in First(u, p)
      PROVE  /\ UserPermissions(u, r) # {} => ProjectRule(u, r)
             /\ ProjectRule(u, r) /\ UserPermissions(u, r) = {} => r.entry.perms = {} /\ ~Expired(r)
             /\ ProjectRule(u, r) => p \in ListedProjects(u)
             /\ p \in ListedProjects(u) /\ ~ProjectRule(u, r) =>
                    overlapped \/ (IsGlobal(u) /\ Expired(r))
             /\ \A action \in Permissions :
                    MayAct(u, r, action) => action \in RolePermissions(roleOf[u])
             /\ r.id # 0 /\ Expired(r) => \A c \in DOMAIN Levels : ~MayExport(u, r, c)
  <2>1. \/ r.id = 0 /\ RowsFor(u, p) = {}
        \/ r.id # 0 /\ r \in RowsFor(u, p)
    BY FirstIs
  <2>2. UserPermissions(u, r) # {} => ProjectRule(u, r)
    BY DEF UserPermissions, ProjectRule
  <2>3. ProjectRule(u, r) /\ UserPermissions(u, r) = {} => r.entry.perms = {} /\ ~Expired(r)
    BY <1>3 DEF UserPermissions, ProjectRule
  <2>4. ProjectRule(u, r) => p \in ListedProjects(u)
    BY <1>1, <2>1 DEF ProjectRule
  <2>5. p \in ListedProjects(u) /\ ~ProjectRule(u, r) => overlapped \/ (IsGlobal(u) /\ Expired(r))
    <3> SUFFICES ASSUME p \in ListedProjects(u), ~ProjectRule(u, r), ~overlapped
                 PROVE  IsGlobal(u) /\ Expired(r)
      OBVIOUS
    <3>1. r \in RowsFor(u, p) /\ Expired(r)
      BY <1>1, <2>1 DEF ProjectRule
    <3>2. \A s \in RowsFor(u, p) : s = r
      BY <3>1 DEF AclInv, RowsAsPromised
    <3> QED
      BY <1>1, <3>1, <3>2
  <2>6. \A action \in Permissions : MayAct(u, r, action) => action \in RolePermissions(roleOf[u])
    BY DEF MayAct, EvaluateRules, RoleRule, RolePermissions
  <2>7. r.id # 0 /\ Expired(r) => \A c \in DOMAIN Levels : ~MayExport(u, r, c)
    BY DEF MayExport, EvaluateRules, ProjectRule
  <2> QED
    BY <2>2, <2>3, <2>4, <2>5, <2>6, <2>7
<1> QED
  BY <1>1, <1>2, <1>4

\* While administrators do not overlap the last completed grant, revoke or update decides, and
\* at all times the project rule, the two listings, the permissions and the clearance read the
\* same out of the table.
THEOREM AccessDecided == AclSpec => []AccessHolds
<1>1. AclInv => AccessHolds
  BY PromiseIsKept, Views DEF AccessHolds
<1> QED
  BY <1>1, AclAlways, PTL

-----------------------------------------------------------------------------
(* RateLimiter: limits hold while nothing fails and nobody overlaps.  Redis  *)
(* and the table are argued apart: Counters is about the one, Quiet about    *)
(* the other                                                                 *)

\* A request is within its program, EXPIRE is sent to Redis only, and the row a caller is
\* about to update is a row of its endpoint.
Placed ==
    /\ \A c \in Callers : at[c] # "done" => request[c].calls < Len(ProgramOf(c))
    /\ \A c \in Callers : at[c] = "expire" => store.redis
    /\ \A c \in Callers : at[c] = "commit" /\ pending[c].row # 0 => pending[c].row \in RowsOf(Target(c))

Expiring(c, e) == at[c] = "expire" /\ Target(c) = e

\* What one counter is worth: it counted every check it let through, and one more while its
\* first caller has yet to give it an expiry.
CounterAt(e) ==
    /\ passes[e] <= counter[e].count /\ passes[e] <= LimitOf[e]
    /\ counter[e].ttl > 0 => counter[e].count > 0
    /\ counter[e].count > 0 /\ counter[e].ttl = 0 =>
          e \in orphaned \/ \E c \in Callers : Expiring(c, e)
    /\ \A c \in Callers : Expiring(c, e) =>
          counter[e].ttl = 0 /\ passes[e] < counter[e].count /\ passes[e] < LimitOf[e]
    /\ \A c, d \in Callers : Expiring(c, e) /\ Expiring(d, e) => c = d

Counters == \A e \in Endpoints : CounterAt(e)

\* A caller that checked an endpoint and has yet to count itself there, or is about to write.
Engaged(c, e) ==
    /\ Target(c) = e
    /\ at[c] = "commit" \/ (at[c] = "call" /\ Current(c).op = "increment")

\* The change a caller computed still fits the row it computed it from.
PlanFits(c, e) ==
    /\ pending[c].row = 0 => RowsOf(e) = {}
    /\ pending[c].row # 0 => rows[pending[c].row].count = pending[c].seen
    /\ pending[c].restart => pending[c].count = FirstCount(c)
    /\ ~pending[c].restart =>
          pending[c].row # 0 /\ Current(c).op = "increment" /\ pending[c].count = pending[c].seen + 1

\* An endpoint nobody used while another was busy: one caller at a time, one row, and who is
\* about to count itself finds the limit not reached.
QuietAt(e) ==
    /\ \A c, d \in Callers : Engaged(c, e) /\ Engaged(d, e) => c = d
    /\ \A i, j \in RowsOf(e) : i = j
    /\ \A i \in RowsOf(e) : admitted[e] <= rows[i].count
    /\ admitted[e] <= LimitOf[e]
    /\ \A c \in Callers : Engaged(c, e) /\ Current(c).op = "increment" => admitted[e] < LimitOf[e]
    /\ \A c \in Callers : at[c] = "commit" /\ Target(c) = e => PlanFits(c, e)

Quiet ==
    failures = 0 =>
        /\ \A c \in Callers : at[c] # "table"
        /\ store.redis => (\A c \in Callers : at[c] # "commit") /\ \A e \in Endpoints : admitted[e] = 0
        /\ ~store.redis => \A e \in Endpoints \ crowded : QuietAt(e)

LimiterInv == LimiterTypeOK /\ Placed /\ Counters /\ Quiet

RequestKinds == {"web", "evaluate", "service", "status"}
Steps == [op : {"check", "increment"}, endpoint : Endpoints]
Handled == [kind : RequestKinds, endpoint : Endpoints, calls : 0 .. 2]
Changes == [row : Nat, seen : Nat, count : Nat, restart : BOOLEAN]
Rows == [endpoint : Endpoints, count : Nat, age : 0 .. Window]

LEMMA CallIs ==
    ASSUME NEW op \in {"check", "increment"}, NEW e \in Endpoints
    PROVE  Call(op, e) \in Steps /\ Call(op, e).op = op /\ Call(op, e).endpoint = e
BY DEF Call, Steps

LEMMA OneThenTwo == \A a, b, d \in Steps : <<a>> \o <<b, d>> = <<a, b, d>>
<1> SUFFICES ASSUME NEW a \in Steps, NEW b \in Steps, NEW d \in Steps
             PROVE  <<a>> \o <<b, d>> = <<a, b, d>>
  OBVIOUS
<1>1. <<a>> \in Seq(Steps) /\ <<b, d>> \in Seq(Steps) /\ <<a, b, d>> \in Seq(Steps)
  OBVIOUS
<1>2. <<a>> \o <<b, d>> \in Seq(Steps) /\ Len(<<a>> \o <<b, d>>) = 3
  BY <1>1
<1>3. (<<a>> \o <<b, d>>)[1] = a /\ (<<a>> \o <<b, d>>)[2] = b /\ (<<a>> \o <<b, d>>)[3] = d
  BY <1>1, ConcatProperties
<1>4. \A i \in 1 .. 3 : (<<a>> \o <<b, d>>)[i] = <<a, b, d>>[i]
  BY <1>3
<1> QED
  BY <1>1, <1>2, <1>4, SeqEqual

LEMMA ProgramIs ==
    ASSUME NEW e \in Endpoints
    PROVE  /\ Program("web", e) = <<Call("check", e), Call("check", e), Call("increment", e)>>
           /\ Program("evaluate", e) = <<Call("check", e), Call("increment", e)>>
           /\ Program("service", e) = <<Call("check", ServiceEndpoint), Call("check", ResourceEndpoint),
                                        Call("increment", ResourceEndpoint)>>
           /\ Program("status", e) = <<Call("check", e)>>
<1>1. \A a, b, d \in Endpoints : <<Call("check", a)>> \o <<Call("check", b), Call("increment", d)>>
                                    = <<Call("check", a), Call("check", b), Call("increment", d)>>
  BY CallIs, OneThenTwo
<1> QED
  BY <1>1, LimiterAssumption DEF Program, Evaluate

\* A program begins with a check, and an increment follows a check of the same endpoint.
LEMMA ProgramCalls ==
    ASSUME NEW k \in RequestKinds, NEW e \in Endpoints, NEW P, P = Program(k, e)
    PROVE  /\ Len(P) \in 1 .. 3
           /\ \A i \in 1 .. Len(P) : P[i] \in Steps
           /\ P[1].op = "check"
           /\ \A i \in 1 .. Len(P) : i + 1 <= Len(P) /\ P[i + 1].op = "increment" =>
                  P[i].op = "check" /\ P[i].endpoint = P[i + 1].endpoint
<1> USE LimiterAssumption
<1>1. CASE k = "web"
  <2>1. PICK a \in Steps, b \in Steps : /\ P = <<a, a, b>> /\ a.op = "check" /\ b.op = "increment"
                                        /\ a.endpoint = b.endpoint
    BY <1>1, ProgramIs, CallIs
  <2> QED
    BY <2>1
<1>2. CASE k = "evaluate"
  <2>1. PICK a \in Steps, b \in Steps : /\ P = <<a, b>> /\ a.op = "check" /\ b.op = "increment"
                                        /\ a.endpoint = b.endpoint
    BY <1>2, ProgramIs, CallIs
  <2> QED
    BY <2>1
<1>3. CASE k = "service"
  <2>1. PICK s \in Steps, a \in Steps, b \in Steps :
            /\ P = <<s, a, b>> /\ s.op = "check" /\ a.op = "check" /\ b.op = "increment"
            /\ a.endpoint = b.endpoint
    BY <1>3, ProgramIs, CallIs
  <2> QED
    BY <2>1
<1>4. CASE k = "status"
  <2>1. PICK a \in Steps : P = <<a>> /\ a.op = "check"
    BY <1>4, ProgramIs, CallIs
  <2> QED
    BY <2>1
<1> QED
  BY <1>1, <1>2, <1>3, <1>4 DEF RequestKinds

LEMMA HandledIs ==
    ASSUME LimiterTypeOK, NEW c \in Callers
    PROVE  /\ request[c] \in Handled /\ request[c].kind \in RequestKinds /\ request[c].endpoint \in Endpoints
           /\ request[c].calls \in 0 .. 2
           /\ Len(ProgramOf(c)) \in 1 .. 3
           /\ \A i \in 1 .. Len(ProgramOf(c)) : ProgramOf(c)[i] \in Steps
           /\ ProgramOf(c)[1].op = "check"
           /\ \A i \in 1 .. Len(ProgramOf(c)) : i + 1 <= Len(ProgramOf(c)) /\ ProgramOf(c)[i + 1].op = "increment" =>
                  /\ ProgramOf(c)[i].op = "check"
                  /\ ProgramOf(c)[i].endpoint = ProgramOf(c)[i + 1].endpoint
<1>1. request[c] \in Handled /\ request[c].kind \in RequestKinds /\ request[c].endpoint \in Endpoints
      /\ request[c].calls \in 0 .. 2
  BY DEF LimiterTypeOK, Handled, RequestKinds
<1>2. PICK P : P = ProgramOf(c)
  OBVIOUS
<1> QED
  BY <1>1, <1>2, ProgramCalls DEF ProgramOf

LEMMA CallerIs ==
    ASSUME LimiterTypeOK, Placed, NEW c \in Callers, at[c] # "done"
    PROVE  Current(c) \in Steps /\ Target(c) \in Endpoints /\ Current(c).op \in {"check", "increment"}
<1>1. Current(c) \in Steps
  <2>1. request[c].calls + 1 \in 1 .. Len(ProgramOf(c))
    BY HandledIs DEF Placed
  <2> QED
    BY <2>1, HandledIs DEF Current
<1> QED
  BY <1>1 DEF Target, Steps

\* What a caller does leaves the others where they are.
OthersAsBefore(c) == \A d \in Callers : d # c => /\ at'[d] = at[d] /\ request'[d] = request[d] /\ pending'[d] = pending[d]

LEMMA OthersStay ==
    ASSUME NEW c \in Callers, OthersAsBefore(c), NEW d \in Callers, d # c
    PROVE  /\ ProgramOf(d)' = ProgramOf(d) /\ Current(d)' = Current(d) /\ Target(d)' = Target(d)
           /\ FirstCount(d)' = FirstCount(d)
<1>1. request'[d] = request[d]
  BY DEF OthersAsBefore
<1>2. ProgramOf(d)' = ProgramOf(d)
  BY <1>1 DEF ProgramOf
<1>3. Current(d)' = Current(d)
  BY <1>1, <1>2 DEF Current
<1> QED
  BY <1>2, <1>3 DEF Target, FirstCount

\* A caller that waits for its present call is still at it.
LEMMA SameCall ==
    ASSUME NEW c \in Callers, request'[c] = request[c]
    PROVE  /\ ProgramOf(c)' = ProgramOf(c) /\ Current(c)' = Current(c) /\ Target(c)' = Target(c)
           /\ FirstCount(c)' = FirstCount(c)
<1>1. ProgramOf(c)' = ProgramOf(c)
  BY DEF ProgramOf
<1>2. Current(c)' = Current(c)
  BY <1>1 DEF Current
<1> QED
  BY <1>1, <1>2 DEF Target, FirstCount

\* Where a caller is whose call has ended: at the next one, which is an increment only after
\* the check of the same endpoint, or done.
Moved(c) ==
    /\ at' \in [Callers -> {"done", "call", "expire", "table", "commit"}]
    /\ request' \in [Callers -> Handled]
    /\ at'[c] \in {"call", "done"}
    /\ at'[c] # "done" => (request[c].calls < Len(ProgramOf(c)))'
    /\ at'[c] = "call" /\ (Current(c).op)' = "increment" => Current(c).op = "check" /\ Target(c)' = Target(c)
    /\ \A d \in Callers : d # c => at'[d] = at[d] /\ request'[d] = request[d]

LEMMA StoppedMoves == ASSUME LimiterTypeOK, NEW c \in Callers, Stopped(c) PROVE Moved(c) /\ at'[c] = "done"
<1>1. NoRequest \in Handled
  BY LimiterAssumption DEF NoRequest, Handled, RequestKinds
<1>2. request' \in [Callers -> Handled]
  BY <1>1 DEF Stopped, LimiterTypeOK, Handled, RequestKinds
<1> QED
  BY <1>2 DEF Stopped, Go, Moved, LimiterTypeOK

LEMMA PassedMoves == ASSUME LimiterTypeOK, Placed, NEW c \in Callers, Passed(c), at[c] # "done" PROVE Moved(c)
<1>1. CASE ~(request[c].calls + 1 < Len(ProgramOf(c)))
  BY <1>1, StoppedMoves DEF Passed
<1>2. CASE request[c].calls + 1 < Len(ProgramOf(c))
  <2>1. at' = [at EXCEPT ![c] = "call"] /\ request' = [request EXCEPT ![c].calls = @ + 1]
    BY <1>2 DEF Passed, Go
  <2>2. PICK P : P = ProgramOf(c)
    OBVIOUS
  <2>3. PICK k \in 0 .. 2 : k = request[c].calls
    BY HandledIs
  <2>4. k + 1 < Len(P) /\ k + 1 \in 0 .. 2 /\ k + 1 \in 1 .. Len(P)
    BY <1>2, <2>2, <2>3, HandledIs, SMTT(30)
  <2>5. [request[c] EXCEPT !.calls = k + 1] \in Handled
    BY <2>4, HandledIs DEF Handled
  <2>6. request' \in [Callers -> Handled] /\ request'[c] = [request[c] EXCEPT !.calls = k + 1]
    BY <2>1, <2>3, <2>5 DEF LimiterTypeOK, Handled, RequestKinds
  <2>7. request'[c].kind = request[c].kind /\ request'[c].endpoint = request[c].endpoint /\ request'[c].calls = k + 1
    BY <2>6, HandledIs DEF Handled
  <2>8. ProgramOf(c)' = P
    BY <2>2, <2>7 DEF ProgramOf
  <2>9. Current(c)' = P[k + 1 + 1] /\ Current(c) = P[k + 1]
    BY <2>2, <2>3, <2>7, <2>8 DEF Current
  <2>10. P[k + 1 + 1].op = "increment" => P[k + 1].op = "check" /\ P[k + 1].endpoint = P[k + 1 + 1].endpoint
    BY <2>2, <2>4, HandledIs
  <2>11. (Current(c).op)' = "increment" => Current(c).op = "check" /\ Target(c)' = Target(c)
    BY <2>9, <2>10 DEF Target
  <2>12. (request[c].calls < Len(ProgramOf(c)))'
    BY <2>4, <2>7, <2>8
  <2>13. /\ at' \in [Callers -> {"done", "call", "expire", "table", "commit"}] /\ at'[c] = "call"
         /\ \A d \in Callers : d # c => at'[d] = at[d] /\ request'[d] = request[d]
    BY <2>1 DEF LimiterTypeOK
  <2> QED
    BY <2>6, <2>11, <2>12, <2>13 DEF Moved
<1> QED
  BY <1>1, <1>2

\* Counters hold when the counter is left alone and nobody comes to or goes from between INCR
\* and EXPIRE, but for a caller that leaves an orphan.
LEMMA CountersFrame ==
    ASSUME Counters, NEW c \in Callers, OthersAsBefore(c), UNCHANGED <<counter, passes>>,
           orphaned \subseteq orphaned', at'[c] # "expire", at[c] = "expire" => Target(c) \in orphaned'
    PROVE  Counters'
<1> SUFFICES ASSUME NEW e \in Endpoints PROVE CounterAt(e)'
  BY DEF Counters
<1>1. \A d \in Callers : Expiring(d, e)' => Expiring(d, e)
  BY OthersStay DEF Expiring, OthersAsBefore
<1>2. \A d \in Callers : Expiring(d, e) => Expiring(d, e)' \/ e \in orphaned'
  BY OthersStay DEF Expiring, OthersAsBefore
<1> QED
  BY <1>1, <1>2 DEF Counters, CounterAt

LEMMA PlacedFrame ==
    ASSUME Placed, NEW c \in Callers, OthersAsBefore(c), UNCHANGED store,
           at'[c] # "done" => (request[c].calls < Len(ProgramOf(c)))',
           at'[c] = "expire" => store.redis,
           at'[c] = "commit" /\ pending'[c].row # 0 => pending'[c].row \in RowsOf(Target(c))',
           \A e \in Endpoints : RowsOf(e) \subseteq RowsOf(e)',
           \A d \in Callers : at[d] # "done" => Target(d) \in Endpoints
    PROVE  Placed'
<1>1. \A d \in Callers : (at[d] # "done" => request[d].calls < Len(ProgramOf(d)))'
  BY OthersStay DEF OthersAsBefore, Placed
<1>2. \A d \in Callers : at'[d] = "expire" => store'.redis
  BY DEF OthersAsBefore, Placed
<1>3. \A d \in Callers : d # c /\ at'[d] = "commit" /\ pending'[d].row # 0 => pending'[d].row \in RowsOf(Target(d))'
  <2> SUFFICES ASSUME NEW d \in Callers, d # c, at'[d] = "commit", pending'[d].row # 0
               PROVE  pending'[d].row \in RowsOf(Target(d))'
    OBVIOUS
  <2>1. at[d] = "commit" /\ pending'[d].row \in RowsOf(Target(d)) /\ Target(d) \in Endpoints
    BY DEF OthersAsBefore, Placed
  <2>2. Target(d)' = Target(d)
    BY OthersStay
  <2>3. PICK e \in Endpoints : e = Target(d) /\ Target(d)' = e
    BY <2>1, <2>2
  <2> QED
    BY <2>1, <2>3 DEF RowsOf
<1> QED
  BY <1>1, <1>2, <1>3 DEF Placed

\* An endpoint stays quiet while nobody touches its rows and the caller that moves does not
\* become engaged with it.
LEMMA QuietFrame ==
    ASSUME LimiterTypeOK, Placed, NEW e \in Endpoints, QuietAt(e), NEW c \in Callers, OthersAsBefore(c),
           RowsOf(e)' = RowsOf(e), \A i \in RowsOf(e) : rows'[i].count = rows[i].count,
           admitted'[e] = admitted[e], ~Engaged(c, e)'
    PROVE  QuietAt(e)'
<1>1. \A d \in Callers : Engaged(d, e)' => d # c
  OBVIOUS
<1>2. \A d \in Callers : d # c => /\ at'[d] = at[d] /\ pending'[d] = pending[d] /\ Target(d)' = Target(d)
                                  /\ Current(d)' = Current(d) /\ FirstCount(d)' = FirstCount(d)
  BY OthersStay DEF OthersAsBefore
<1>3. \A d \in Callers : Engaged(d, e)' => Engaged(d, e)
  BY <1>1, <1>2 DEF Engaged
<1>4. \A d \in Callers : at'[d] = "commit" /\ Target(d)' = e => d # c /\ at[d] = "commit" /\ Target(d) = e
  BY <1>1, <1>2 DEF Engaged
<1>5. \A d \in Callers : at'[d] = "commit" /\ Target(d)' = e => PlanFits(d, e)'
  <2> SUFFICES ASSUME NEW d \in Callers, at'[d] = "commit", Target(d)' = e PROVE PlanFits(d, e)'
    OBVIOUS
  <2>1. d # c /\ at[d] = "commit" /\ Target(d) = e
    BY <1>4
  <2>2. PlanFits(d, e) /\ (pending[d].row # 0 => pending[d].row \in RowsOf(e))
    BY <2>1 DEF QuietAt, Placed
  <2> QED
    BY <1>2, <2>1, <2>2 DEF PlanFits
<1>6. \A d \in Callers : Engaged(d, e)' /\ (Current(d).op)' = "increment" => admitted'[e] < LimitOf[e]
  BY <1>1, <1>2, <1>3 DEF QuietAt
<1> QED
  BY <1>3, <1>5, <1>6 DEF QuietAt

LEMMA QuietGlobal ==
    ASSUME Quiet, NEW c \in Callers, OthersAsBefore(c), UNCHANGED <<store, failures>>, crowded \subseteq crowded',
           at'[c] # "table",
           store.redis => at'[c] # "commit" /\ admitted' = admitted,
           failures = 0 /\ ~store.redis => \A e \in Endpoints \ crowded' : QuietAt(e) => QuietAt(e)'
    PROVE  Quiet'
BY DEF Quiet, OthersAsBefore

LEMMA LimiterInitInv == LimiterInit => LimiterInv
<1> SUFFICES ASSUME LimiterInit PROVE LimiterInv
  OBVIOUS
<1> USE LimiterAssumption DEF LimiterInit
<1>1. LimiterTypeOK
  <2>1. NoRequest \in Handled /\ NoChange \in Changes
    BY DEF NoRequest, Handled, RequestKinds, NoChange, Changes
  <2>2. /\ request \in [Callers -> Handled] /\ pending \in [Callers -> Changes]
    BY <2>1
  <2>3. 0 \in 0 .. Window /\ 0 \in 0 .. MaxRequests /\ 0 \in 0 .. MaxFaults
    OBVIOUS
  <2>4. counter \in [Endpoints -> [count : Nat, ttl : 0 .. Window]]
    BY <2>3
  <2>5. rows \in Seq([endpoint : Endpoints, count : Nat, age : 0 .. Window])
    OBVIOUS
  <2> QED
    BY <2>2, <2>3, <2>4, <2>5 DEF LimiterTypeOK, Handled, RequestKinds, Changes
<1>2. \A c \in Callers : at[c] = "done"
  OBVIOUS
<1>3. \A e \in Endpoints : RowsOf(e) = {}
  BY DEF RowsOf
<1>4. Placed
  BY <1>2 DEF Placed
<1>5. \A e \in Endpoints : LimitOf[e] \in Nat \ {0}
  OBVIOUS
<1>6. Counters
  BY <1>2, <1>5 DEF Counters, CounterAt, Expiring
<1>7. \A e \in Endpoints : QuietAt(e)
  BY <1>2, <1>3, <1>5 DEF QuietAt, Engaged
<1>8. Quiet
  BY <1>2, <1>7 DEF Quiet
<1> QED
  BY <1>1, <1>4, <1>6, <1>8 DEF LimiterInv

LEMMA BeginStep == ASSUME LimiterInv, NEW c \in Callers, NEW r \in Requests, Begin(c, r) PROVE LimiterInv'
<1> USE LimiterAssumption DEF LimiterInv
<1>1. /\ at' = [at EXCEPT ![c] = "call"] /\ begun' = begun + 1 /\ begun < MaxRequests /\ at[c] = "done"
      /\ UNCHANGED <<store, counter, rows, pending, failures, orphaned, passes, admitted, crowded>>
  BY DEF Begin, Go, histories
<1>2. PICK new \in Handled : /\ request' = [request EXCEPT ![c] = new]
                             /\ new.kind \in RequestKinds /\ new.endpoint \in Endpoints /\ new.calls = 0
  <2>1. PICK k \in RequestKinds, e \in Endpoints : r.kind = k /\ r.endpoint = e
    BY DEF RequestKinds
  <2>2. [kind |-> k, endpoint |-> e, calls |-> 0] \in Handled
    BY DEF Handled
  <2> QED
    BY <2>1, <2>2 DEF Begin
<1>3. OthersAsBefore(c) /\ at'[c] = "call" /\ request'[c] = new
  BY <1>1, <1>2 DEF OthersAsBefore, LimiterTypeOK
<1>4. LimiterTypeOK'
  <2>1. request' \in [Callers -> Handled] /\ begun' \in 0 .. MaxRequests
    BY <1>1, <1>2 DEF LimiterTypeOK, Handled, RequestKinds
  <2> QED
    BY <1>1, <2>1 DEF LimiterTypeOK, Handled, RequestKinds
<1>5. 0 < Len(ProgramOf(c)') /\ (Current(c).op)' = "check" /\ (request[c].calls < Len(ProgramOf(c)))'
  <2>1. PICK P : P = Program(new.kind, new.endpoint)
    OBVIOUS
  <2>2. ProgramOf(c)' = P /\ request'[c].calls = 0
    BY <1>2, <1>3, <2>1 DEF ProgramOf
  <2>3. Len(P) \in 1 .. 3 /\ P[1].op = "check"
    BY <1>2, <2>1, ProgramCalls
  <2>4. Current(c)' = P[0 + 1]
    BY <2>2 DEF Current
  <2> QED
    BY <2>2, <2>3, <2>4
<1>6. Placed'
  BY <1>1, <1>3, <1>5, PlacedFrame, CallerIs DEF RowsOf
<1>7. Counters'
  BY <1>1, <1>3, CountersFrame
<1>8. Quiet'
  <2>1. ASSUME NEW e \in Endpoints, QuietAt(e) PROVE QuietAt(e)'
    <3>1. ~Engaged(c, e)'
      BY <1>3, <1>5 DEF Engaged
    <3> QED
      BY <1>1, <1>3, <2>1, <3>1, QuietFrame DEF RowsOf
  <2> QED
    BY <1>1, <1>3, <2>1, QuietGlobal
<1> QED
  BY <1>4, <1>6, <1>7, <1>8

LEMMA CountersTyped ==
    ASSUME LimiterTypeOK, NEW e \in Endpoints
    PROVE  /\ counter[e].count \in Nat /\ counter[e].ttl \in 0 .. Window
           /\ Charged(e) \in [Endpoints -> [count : Nat, ttl : 0 .. Window]]
           /\ [counter EXCEPT ![e].ttl = Window] \in [Endpoints -> [count : Nat, ttl : 0 .. Window]]
           /\ [passes EXCEPT ![e] = @ + 1] \in [Endpoints -> Nat]
<1>1. counter \in [Endpoints -> [count : Nat, ttl : 0 .. Window]] /\ passes \in [Endpoints -> Nat]
  BY DEF LimiterTypeOK
<1>2. counter[e] \in [count : Nat, ttl : 0 .. Window] /\ passes[e] + 1 \in Nat
  BY <1>1
<1>3. PICK n \in Nat, t \in 0 .. Window : counter[e].count = n /\ counter[e].ttl = t
  BY <1>2
<1>4. n + 1 \in Nat /\ Window \in 0 .. Window
  BY LimiterAssumption
<1>5. [counter[e] EXCEPT !.count = n + 1] \in [count : Nat, ttl : 0 .. Window]
  BY <1>2, <1>4
<1>6. [counter[e] EXCEPT !.ttl = Window] \in [count : Nat, ttl : 0 .. Window]
  BY <1>2, <1>4
<1>7. Charged(e) \in [Endpoints -> [count : Nat, ttl : 0 .. Window]]
  BY <1>1, <1>3, <1>5 DEF Charged
<1>8. [counter EXCEPT ![e].ttl = Window] \in [Endpoints -> [count : Nat, ttl : 0 .. Window]]
  BY <1>1, <1>6
<1> QED
  BY <1>1, <1>2, <1>3, <1>7, <1>8

\* One more call on the counter of a caller that goes on: it let a check through only within
\* the limit, and a counter that starts here without an expiry is an orphan.
LEMMA CountersCharged ==
    ASSUME LimiterTypeOK, Placed, Counters, NEW c \in Callers, OthersAsBefore(c), at[c] = "call", at'[c] # "expire",
           NEW e0 \in Endpoints, Target(c) = e0, counter' = Charged(e0), orphaned \subseteq orphaned',
           counter[e0].count = 0 => e0 \in orphaned',
           \/ passes' = passes
           \/ passes' = [passes EXCEPT ![e0] = @ + 1] /\ counter[e0].count + 1 <= LimitOf[e0]
    PROVE  Counters'
<1> SUFFICES ASSUME NEW e \in Endpoints PROVE CounterAt(e)'
  BY DEF Counters
<1>1. \A d \in Callers : Expiring(d, e)' <=> Expiring(d, e)
  BY OthersStay DEF Expiring, OthersAsBefore
<1>2. CounterAt(e) /\ passes[e] \in Nat /\ counter[e].count \in Nat /\ counter[e].ttl \in 0 .. Window
      /\ LimitOf[e] \in Nat
  BY LimiterAssumption DEF Counters, LimiterTypeOK
<1>3. CASE e # e0
  <2>1. counter'[e] = counter[e] /\ passes'[e] = passes[e]
    BY <1>3 DEF Charged, LimiterTypeOK
  <2> QED
    BY <1>1, <1>2, <2>1 DEF CounterAt
<1>4. CASE e = e0
  <2>1. counter'[e].count = counter[e].count + 1 /\ counter'[e].ttl = counter[e].ttl
    BY <1>4 DEF Charged, LimiterTypeOK
  <2>2. \/ passes'[e] = passes[e]
        \/ passes'[e] = passes[e] + 1 /\ counter[e].count + 1 <= LimitOf[e]
    BY <1>4 DEF LimiterTypeOK
  <2>3. passes'[e] <= counter'[e].count /\ passes'[e] <= LimitOf[e]
    BY <1>2, <2>1, <2>2 DEF CounterAt
  <2>4. (counter[e].ttl > 0 => counter[e].count > 0)'
    BY <1>2, <2>1
  <2>5. counter'[e].ttl = 0 => e \in orphaned' \/ \E d \in Callers : Expiring(d, e)'
    BY <1>1, <1>2, <1>4, <2>1 DEF CounterAt
  <2>6. \A d \in Callers : Expiring(d, e)' =>
            counter'[e].ttl = 0 /\ passes'[e] < counter'[e].count /\ passes'[e] < LimitOf[e]
    BY <1>1, <1>2, <2>1, <2>2 DEF CounterAt
  <2> QED
    BY <1>1, <1>2, <2>3, <2>4, <2>5, <2>6 DEF CounterAt
<1> QED
  BY <1>3, <1>4

\* The caller that began a counter gives it its expiry.
LEMMA CountersExpiry ==
    ASSUME LimiterTypeOK, Placed, Counters, NEW c \in Callers, OthersAsBefore(c), at[c] = "expire", at'[c] # "expire",
           NEW e0 \in Endpoints, Target(c) = e0, SetExpiry(e0), UNCHANGED orphaned,
           passes' = passes \/ passes' = [passes EXCEPT ![e0] = @ + 1]
    PROVE  Counters'
<1> SUFFICES ASSUME NEW e \in Endpoints PROVE CounterAt(e)'
  BY DEF Counters
<1>1. \A d \in Callers : Expiring(d, e)' <=> d # c /\ Expiring(d, e)
  BY OthersStay DEF Expiring, OthersAsBefore
<1>2. CounterAt(e) /\ passes[e] \in Nat /\ counter[e].count \in Nat /\ counter[e].ttl \in 0 .. Window
      /\ LimitOf[e] \in Nat /\ Window \in Nat \ {0}
  BY LimiterAssumption DEF Counters, LimiterTypeOK
<1>3. CASE e # e0
  <2>1. counter'[e] = counter[e] /\ passes'[e] = passes[e] /\ ~Expiring(c, e)
    BY <1>3 DEF SetExpiry, LimiterTypeOK, Expiring
  <2> QED
    BY <1>1, <1>2, <2>1 DEF CounterAt
<1>4. CASE e = e0
  <2>1. counter'[e].count = counter[e].count /\ counter'[e].ttl = Window
    BY <1>4 DEF SetExpiry, LimiterTypeOK
  <2>2. passes'[e] = passes[e] \/ passes'[e] = passes[e] + 1
    BY <1>4 DEF LimiterTypeOK
  <2>3. Expiring(c, e)
    BY <1>4 DEF Expiring
  <2>4. \A d \in Callers : ~Expiring(d, e)'
    BY <1>1, <1>2, <2>3 DEF CounterAt
  <2>5. passes[e] < counter[e].count /\ passes[e] < LimitOf[e]
    BY <1>2, <2>3 DEF CounterAt
  <2> QED
    BY <1>2, <2>1, <2>2, <2>4, <2>5 DEF CounterAt
<1> QED
  BY <1>3, <1>4

LEMMA IncrStep == ASSUME LimiterInv, NEW c \in Callers, Incr(c) PROVE LimiterInv'
<1> USE LimiterAssumption DEF LimiterInv
<1>1. /\ at[c] = "call" /\ store.redis /\ counter' = Charged(Target(c))
      /\ UNCHANGED <<store, rows, pending, orphaned, failures, begun, admitted, crowded>>
  BY DEF Incr, NoFault, histories, CountPass
<1>2. PICK e0 \in Endpoints : e0 = Target(c)
  BY <1>1, CallerIs
<1>3. PICK n \in Nat : n = counter[e0].count + 1
  <2>1. counter[e0].count \in Nat
    BY CountersTyped
  <2>2. counter[e0].count + 1 \in Nat
    BY <2>1
  <2> QED
    BY <2>2
<1>4. \/ n = 1 /\ Go(c, "expire") /\ UNCHANGED <<request, passes>>
      \/ n # 1 /\ Within(c, n) /\ Passed(c) /\ CountPass(c)
      \/ n # 1 /\ Stopped(c) /\ UNCHANGED passes
  BY <1>2, <1>3 DEF Incr, histories
<1>5. counter' \in [Endpoints -> [count : Nat, ttl : 0 .. Window]]
  BY <1>1, <1>2, CountersTyped
<1>6. CASE n = 1 /\ Go(c, "expire") /\ UNCHANGED <<request, passes>>
  <2>1. OthersAsBefore(c) /\ at'[c] = "expire" /\ request'[c] = request[c]
    BY <1>1, <1>6 DEF OthersAsBefore, Go, LimiterTypeOK
  <2>2. LimiterTypeOK'
    BY <1>1, <1>5, <1>6 DEF LimiterTypeOK, Go
  <2>3. Placed'
    <3>1. (request[c].calls < Len(ProgramOf(c)))'
      BY <1>1, <2>1, SameCall DEF Placed
    <3> QED
      BY <1>1, <2>1, <3>1, PlacedFrame, CallerIs DEF RowsOf
  <2>4. Counters'
    <3> SUFFICES ASSUME NEW e \in Endpoints PROVE CounterAt(e)'
      BY DEF Counters
    <3>1. CounterAt(e) /\ passes[e] \in Nat /\ counter[e].count \in Nat /\ counter[e].ttl \in 0 .. Window
          /\ LimitOf[e] \in Nat \ {0}
      BY DEF Counters, LimiterTypeOK
    <3>2. Expiring(c, e)' <=> e = e0
      BY <1>2, <2>1, SameCall DEF Expiring
    <3>3. \A d \in Callers : d # c => (Expiring(d, e)' <=> Expiring(d, e))
      BY <2>1, OthersStay DEF Expiring, OthersAsBefore
    <3>4. CASE e # e0
      <4>1. counter'[e] = counter[e] /\ passes'[e] = passes[e] /\ ~Expiring(c, e)
        BY <1>1, <1>2, <1>6, <3>4 DEF Charged, LimiterTypeOK, Expiring
      <4> QED
        BY <1>1, <3>1, <3>2, <3>3, <3>4, <4>1 DEF CounterAt
    <3>5. CASE e = e0
      <4>1. counter[e].count = 0 /\ passes[e] = 0 /\ counter[e].ttl = 0
        BY <1>3, <1>6, <3>1, <3>5 DEF CounterAt
      <4>2. counter'[e].count = 1 /\ counter'[e].ttl = 0 /\ passes'[e] = 0
        BY <1>1, <1>2, <1>6, <3>5, <4>1 DEF Charged, LimiterTypeOK
      <4>3. \A d \in Callers : ~Expiring(d, e)
        BY <3>1, <4>1 DEF CounterAt
      <4> QED
        BY <3>1, <3>2, <3>3, <3>5, <4>2, <4>3 DEF CounterAt
    <3> QED
      BY <3>4, <3>5
  <2>5. Quiet'
    BY <1>1, <2>1, QuietGlobal
  <2> QED
    BY <2>2, <2>3, <2>4, <2>5
<1>7. CASE \/ n # 1 /\ Within(c, n) /\ Passed(c) /\ CountPass(c)
           \/ n # 1 /\ Stopped(c) /\ UNCHANGED passes
  <2>1. Moved(c)
    BY <1>1, <1>7, PassedMoves, StoppedMoves
  <2>2. OthersAsBefore(c) /\ at'[c] \in {"call", "done"}
    BY <1>1, <2>1 DEF OthersAsBefore, Moved
  <2>3. passes' = passes \/ (passes' = [passes EXCEPT ![e0] = @ + 1] /\ n <= LimitOf[e0])
    <3>1. CASE n # 1 /\ Stopped(c) /\ UNCHANGED passes
      BY <3>1
    <3>2. CASE Within(c, n) /\ CountPass(c)
      <4>1. CASE Current(c).op = "check"
        BY <1>2, <3>2, <4>1 DEF Within, CountPass
      <4>2. CASE Current(c).op # "check"
        <5>1. passes' = [passes EXCEPT ![e0] = @ + 0]
          BY <1>2, <3>2, <4>2 DEF CountPass
        <5>2. passes' = passes
          BY <5>1 DEF LimiterTypeOK
        <5> QED
          BY <5>2
      <4> QED
        BY <4>1, <4>2
    <3> QED
      BY <1>7, <3>1, <3>2
  <2>4. LimiterTypeOK'
    <3>1. passes' \in [Endpoints -> Nat]
      <4>1. passes \in [Endpoints -> Nat] /\ [passes EXCEPT ![e0] = @ + 1] \in [Endpoints -> Nat]
        BY CountersTyped DEF LimiterTypeOK
      <4> QED
        BY <2>3, <4>1
    <3> QED
      BY <1>1, <1>5, <2>1, <3>1 DEF LimiterTypeOK, Moved, Handled, RequestKinds
  <2>5. Placed'
    <3>1. at'[c] # "done" => (request[c].calls < Len(ProgramOf(c)))'
      BY <2>1 DEF Moved
    <3> QED
      BY <1>1, <2>2, <3>1, PlacedFrame, CallerIs DEF RowsOf
  <2>6. Counters'
    <3>1. counter[e0].count # 0 /\ n = counter[e0].count + 1
      BY <1>3, <1>7
    <3>2. at'[c] # "expire" /\ Target(c) = e0 /\ counter' = Charged(e0) /\ orphaned \subseteq orphaned'
      BY <1>1, <1>2, <2>2
    <3>3. passes' = passes \/ (passes' = [passes EXCEPT ![e0] = @ + 1] /\ counter[e0].count + 1 <= LimitOf[e0])
      BY <2>3, <3>1
    <3> QED
      BY <1>1, <2>2, <3>1, <3>2, <3>3, CountersCharged
  <2>7. Quiet'
    BY <1>1, <2>2, QuietGlobal
  <2> QED
    BY <2>4, <2>5, <2>6, <2>7
<1> QED
  BY <1>4, <1>6, <1>7

LEMMA ExpireKeyStep == ASSUME LimiterInv, NEW c \in Callers, ExpireKey(c) PROVE LimiterInv'
<1> USE LimiterAssumption DEF LimiterInv
<1>1. /\ at[c] = "expire" /\ SetExpiry(Target(c)) /\ Passed(c) /\ CountPass(c)
      /\ UNCHANGED <<store, rows, pending, orphaned, failures, begun, admitted, crowded>>
  BY DEF ExpireKey, NoFault, CountPass
<1>2. PICK e0 \in Endpoints : e0 = Target(c)
  BY <1>1, CallerIs
<1>3. Moved(c)
  BY <1>1, PassedMoves
<1>4. OthersAsBefore(c) /\ at'[c] \in {"call", "done"}
  BY <1>1, <1>3 DEF OthersAsBefore, Moved
<1>5. passes' = passes \/ passes' = [passes EXCEPT ![e0] = @ + 1]
  <2>1. CASE Current(c).op = "check"
    BY <1>1, <1>2, <2>1 DEF CountPass
  <2>2. CASE Current(c).op # "check"
    <3>1. passes' = [passes EXCEPT ![e0] = @ + 0]
      BY <1>1, <1>2, <2>2 DEF CountPass
    <3> QED
      BY <3>1 DEF LimiterTypeOK
  <2> QED
    BY <2>1, <2>2
<1>6. LimiterTypeOK'
  <2>1. passes' \in [Endpoints -> Nat]
    <3>1. passes \in [Endpoints -> Nat] /\ [passes EXCEPT ![e0] = @ + 1] \in [Endpoints -> Nat]
      BY CountersTyped DEF LimiterTypeOK
    <3> QED
      BY <1>5, <3>1
  <2>2. counter' \in [Endpoints -> [count : Nat, ttl : 0 .. Window]]
    BY <1>1, <1>2, CountersTyped DEF SetExpiry
  <2> QED
    BY <1>1, <1>3, <2>1, <2>2 DEF LimiterTypeOK, Moved, Handled, RequestKinds
<1>7. Placed'
  <2>1. at'[c] # "done" => (request[c].calls < Len(ProgramOf(c)))'
    BY <1>3 DEF Moved
  <2> QED
    BY <1>1, <1>4, <2>1, PlacedFrame, CallerIs DEF RowsOf
<1>8. Counters'
  <2>1. at'[c] # "expire" /\ Target(c) = e0 /\ SetExpiry(e0)
    BY <1>1, <1>2, <1>4
  <2> QED
    BY <1>1, <1>4, <1>5, <2>1, CountersExpiry
<1>9. Quiet'
  <2>1. store.redis
    BY <1>1 DEF Placed
  <2> QED
    BY <1>1, <1>4, <2>1, QuietGlobal
<1> QED
  BY <1>6, <1>7, <1>8, <1>9

LEMMA RedisRaisesStep == ASSUME LimiterInv, NEW c \in Callers, RedisRaises(c) PROVE LimiterInv'
<1> USE LimiterAssumption DEF LimiterInv
<1>1. /\ at' = [at EXCEPT ![c] = "table"] /\ at[c] \in {"call", "expire"} /\ failures' = failures + 1 /\ failures < MaxFaults
      /\ UNCHANGED <<store, rows, pending, request, begun, passes, admitted, crowded>>
  BY DEF RedisRaises, Fault, Go, histories
<1>2. PICK e0 \in Endpoints : e0 = Target(c)
  BY <1>1, CallerIs
<1>3. \/ UNCHANGED counter /\ orphaned \subseteq orphaned' /\ (at[c] = "expire" => e0 \in orphaned')
      \/ /\ at[c] = "call" /\ counter' = Charged(e0) /\ orphaned \subseteq orphaned'
         /\ counter[e0].count = 0 => e0 \in orphaned'
      \/ at[c] = "expire" /\ SetExpiry(e0) /\ UNCHANGED orphaned
  BY <1>2 DEF RedisRaises, Orphan
<1>4. orphaned' \subseteq Endpoints
  BY <1>2 DEF RedisRaises, Orphan, LimiterTypeOK
<1>5. OthersAsBefore(c) /\ at'[c] = "table" /\ request'[c] = request[c]
  BY <1>1 DEF OthersAsBefore, LimiterTypeOK
<1>6. LimiterTypeOK'
  <2>1. counter' \in [Endpoints -> [count : Nat, ttl : 0 .. Window]]
    <3>1. counter \in [Endpoints -> [count : Nat, ttl : 0 .. Window]]
      BY DEF LimiterTypeOK
    <3>2. Charged(e0) \in [Endpoints -> [count : Nat, ttl : 0 .. Window]]
      BY CountersTyped
    <3>3. [counter EXCEPT ![e0].ttl = Window] \in [Endpoints -> [count : Nat, ttl : 0 .. Window]]
      BY CountersTyped
    <3> QED
      BY <1>3, <3>1, <3>2, <3>3 DEF SetExpiry
  <2>2. failures' \in 0 .. MaxFaults
    BY <1>1 DEF LimiterTypeOK
  <2> QED
    BY <1>1, <1>4, <2>1, <2>2 DEF LimiterTypeOK
<1>7. Placed'
  <2>1. (request[c].calls < Len(ProgramOf(c)))'
    BY <1>1, <1>5, SameCall DEF Placed
  <2> QED
    BY <1>1, <1>5, <2>1, PlacedFrame, CallerIs DEF RowsOf
<1>8. Counters'
  <2>1. at'[c] # "expire" /\ Target(c) = e0 /\ passes' = passes
    BY <1>1, <1>2, <1>5
  <2>2. CASE UNCHANGED counter /\ orphaned \subseteq orphaned' /\ (at[c] = "expire" => e0 \in orphaned')
    BY <1>5, <2>1, <2>2, CountersFrame
  <2>3. CASE /\ at[c] = "call" /\ counter' = Charged(e0) /\ orphaned \subseteq orphaned'
             /\ counter[e0].count = 0 => e0 \in orphaned'
    BY <1>5, <2>1, <2>3, CountersCharged
  <2>4. CASE at[c] = "expire" /\ SetExpiry(e0) /\ UNCHANGED orphaned
    BY <1>5, <2>1, <2>4, CountersExpiry
  <2> QED
    BY <1>3, <2>2, <2>3, <2>4
<1>9. Quiet'
  <2>1. failures' # 0
    BY <1>1 DEF LimiterTypeOK
  <2> QED
    BY <2>1 DEF Quiet
<1> QED
  BY <1>6, <1>7, <1>8, <1>9

\* What a row that is written becomes.
LEMMA ApplyIs ==
    ASSUME LimiterTypeOK, NEW change \in Changes, NEW e0 \in Endpoints, rows' = Apply(change, e0),
           change.row # 0 => change.row \in RowsOf(e0)
    PROVE  /\ rows' \in Seq(Rows)
           /\ \A e \in Endpoints : RowsOf(e) \subseteq RowsOf(e)'
           /\ \A e \in Endpoints : e # e0 => RowsOf(e)' = RowsOf(e)
           /\ \A e \in Endpoints : e # e0 => \A i \in RowsOf(e) : rows'[i].count = rows[i].count
           /\ change.row = 0 /\ RowsOf(e0) = {} =>
                  \E n : RowsOf(e0)' = {n} /\ rows'[n].count = change.count
           /\ change.row # 0 => RowsOf(e0)' = RowsOf(e0)
           /\ change.row # 0 /\ rows[change.row].count = change.seen => rows'[change.row].count = change.count
<1> USE LimiterAssumption
<1>1. rows \in Seq(Rows)
  BY DEF LimiterTypeOK, Rows
<1>2. PICK r \in Nat, s \in Nat, n \in Nat : change.row = r /\ change.seen = s /\ change.count = n
  BY DEF Changes
<1>3. CASE r = 0
  <2>1. PICK new \in Rows : /\ new = [endpoint |-> e0, count |-> n, age |-> 0]
                            /\ new.endpoint = e0 /\ new.count = n
    <3>1. 0 \in 0 .. Window
      OBVIOUS
    <3>2. [endpoint |-> e0, count |-> n, age |-> 0] \in Rows
      BY <3>1 DEF Rows
    <3> QED
      BY <3>2
  <2>2. rows' = Append(rows, new)
    BY <1>2, <1>3, <2>1 DEF Apply
  <2>3. PICK l \in Nat : l = Len(rows) /\ DOMAIN rows = 1 .. l
    BY <1>1
  <2>4. /\ rows' \in Seq(Rows) /\ DOMAIN rows' = 1 .. l + 1 /\ rows'[l + 1] = new
        /\ \A i \in 1 .. l : rows'[i] = rows[i]
    BY <1>1, <2>2, <2>3, AppendProperties
  <2>5. \A e \in Endpoints : RowsOf(e)' = IF e = e0 THEN RowsOf(e) \cup {l + 1} ELSE RowsOf(e)
    <3> SUFFICES ASSUME NEW e \in Endpoints
                 PROVE  \A i : i \in RowsOf(e)' <=> i \in RowsOf(e) \/ (e = e0 /\ i = l + 1)
      OBVIOUS
    <3>1. \A i \in 1 .. l + 1 : i \in 1 .. l \/ i = l + 1
      OBVIOUS
    <3>2. \A i \in 1 .. l : i \in 1 .. l + 1
      OBVIOUS
    <3>3. l + 1 \in 1 .. l + 1
      OBVIOUS
    <3> QED
      BY <2>1, <2>3, <2>4, <3>1, <3>2, <3>3 DEF RowsOf
  <2>6. \A e \in Endpoints : \A i \in RowsOf(e) : rows'[i] = rows[i]
    BY <2>3, <2>4 DEF RowsOf
  <2> QED
    BY <1>2, <1>3, <2>1, <2>4, <2>5, <2>6
<1>4. CASE r # 0
  <2>1. r \in DOMAIN rows /\ rows[r].endpoint = e0 /\ rows[r] \in Rows
    BY <1>1, <1>2, <1>4 DEF RowsOf
  <2>2. PICK c0 \in Nat, a0 \in 0 .. Window : rows[r].count = c0 /\ rows[r].age = a0
    BY <2>1 DEF Rows
  <2>3. PICK c1 \in Nat, a1 \in 0 .. Window : /\ c1 = IF n = s THEN c0 ELSE n
                                              /\ a1 = IF change.restart THEN 0 ELSE a0
    OBVIOUS
  <2>4. PICK new \in Rows : /\ new = [rows[r] EXCEPT !.count = c1, !.age = a1]
                            /\ new.endpoint = e0 /\ new.count = c1
    <3>1. [rows[r] EXCEPT !.count = c1, !.age = a1] \in Rows
      BY <2>1 DEF Rows
    <3>2. PICK new \in Rows : new = [rows[r] EXCEPT !.count = c1, !.age = a1]
      BY <3>1
    <3>3. new.endpoint = e0 /\ new.count = c1
      BY <2>1, <3>2 DEF Rows
    <3> QED
      BY <3>2, <3>3
  <2>5. rows' = [rows EXCEPT ![r].count = c1, ![r].age = a1]
    BY <1>2, <1>4, <2>1, <2>2, <2>3 DEF Apply
  <2>6. rows' = [rows EXCEPT ![r] = new]
    BY <2>1, <2>4, <2>5
  <2>7. rows' \in Seq(Rows) /\ DOMAIN rows' = DOMAIN rows /\ \A i \in DOMAIN rows : rows'[i] = IF i = r THEN new ELSE rows[i]
    BY <1>1, <2>1, <2>6, ExceptSeq
  <2>8. \A e \in Endpoints : RowsOf(e)' = RowsOf(e)
    BY <2>1, <2>4, <2>7 DEF RowsOf
  <2>9. \A e \in Endpoints : e # e0 => \A i \in RowsOf(e) : rows'[i] = rows[i]
    BY <2>1, <2>7 DEF RowsOf
  <2>10. rows[r].count = s => rows'[r].count = n
    BY <2>1, <2>2, <2>3, <2>4, <2>7
  <2> QED
    BY <1>2, <1>4, <2>7, <2>8, <2>9, <2>10
<1> QED
  BY <1>3, <1>4

\* The table is read: what is known while nothing has failed.
LEMMA LookedIs ==
    ASSUME LimiterInv, NEW c \in Callers, Looked(c)
    PROVE  /\ at[c] \in {"call", "table"} /\ Target(c) \in Endpoints
           /\ UNCHANGED <<store, counter, rows, orphaned, passes, admitted, failures, begun>>
           /\ crowded \subseteq crowded' /\ crowded' \subseteq Endpoints
           /\ failures = 0 => at[c] = "call" /\ ~store.redis
           /\ Target(c) \notin crowded' => \A d \in Callers : d # c => at[d] = "done"
<1>1. at[c] \in {"call", "table"} /\ (at[c] = "table" \/ ~store.redis)
  BY DEF Looked, Atop
<1>2. Target(c) \in Endpoints
  BY <1>1, CallerIs DEF LimiterInv
<1>3. failures = 0 => at[c] = "call" /\ ~store.redis
  BY <1>1 DEF LimiterInv, Quiet
<1>4. crowded \subseteq crowded' /\ crowded' \subseteq Endpoints
  BY <1>2 DEF Looked, LimiterInv, LimiterTypeOK
<1>5. Target(c) \notin crowded' => \A d \in Callers : d # c => at[d] = "done"
  BY DEF Looked
<1> QED
  BY <1>1, <1>2, <1>3, <1>4, <1>5 DEF Looked, NoFault

LEMMA PlanStep ==
    ASSUME LimiterInv, NEW c \in Callers, Looked(c), NEW change \in Changes, Plan(c, change),
           change.row = 0 => RowsOf(Target(c)) = {},
           change.row # 0 => change.row \in RowsOf(Target(c)),
           change.row # 0 => rows[change.row].count = change.seen,
           change.restart => change.count = FirstCount(c),
           ~change.restart => change.row # 0 /\ Current(c).op = "increment" /\ change.count = change.seen + 1
    PROVE  LimiterInv'
<1> USE LimiterAssumption DEF LimiterInv
<1>1. /\ at[c] \in {"call", "table"}
      /\ UNCHANGED <<store, counter, rows, orphaned, passes, admitted, failures, begun, request>>
      /\ crowded \subseteq crowded' /\ crowded' \subseteq Endpoints
      /\ failures = 0 => at[c] = "call" /\ ~store.redis
      /\ Target(c) \notin crowded' => \A d \in Callers : d # c => at[d] = "done"
  BY LookedIs DEF Plan
<1>2. PICK e0 \in Endpoints : e0 = Target(c)
  BY LookedIs
<1>3. at' = [at EXCEPT ![c] = "commit"] /\ pending' = [pending EXCEPT ![c] = change]
  BY DEF Plan, Go
<1>4. OthersAsBefore(c) /\ at'[c] = "commit" /\ request'[c] = request[c] /\ pending'[c] = change
  BY <1>1, <1>3 DEF OthersAsBefore, LimiterTypeOK
<1>5. ProgramOf(c)' = ProgramOf(c) /\ Current(c)' = Current(c) /\ Target(c)' = e0 /\ FirstCount(c)' = FirstCount(c)
  BY <1>2, <1>4, SameCall
<1>6. LimiterTypeOK'
  <2>1. pending' \in [Callers -> Changes]
    BY <1>3 DEF LimiterTypeOK, Changes
  <2> QED
    BY <1>1, <1>3, <2>1 DEF LimiterTypeOK, Changes
<1>7. Placed'
  <2>1. (request[c].calls < Len(ProgramOf(c)))'
    BY <1>1, <1>4, <1>5 DEF Placed
  <2>2. pending'[c].row # 0 => pending'[c].row \in RowsOf(Target(c))'
    BY <1>1, <1>2, <1>4, <1>5 DEF RowsOf
  <2> QED
    BY <1>1, <1>4, <2>1, <2>2, PlacedFrame, CallerIs DEF RowsOf
<1>8. Counters'
  BY <1>1, <1>4, CountersFrame
<1>9. Quiet'
  <2>1. ASSUME failures = 0, NEW e \in Endpoints, e \notin crowded', QuietAt(e), ~store.redis PROVE QuietAt(e)'
    <3>1. CASE e # e0
      <4>1. ~Engaged(c, e)'
        BY <1>5, <3>1 DEF Engaged
      <4> QED
        BY <1>1, <1>4, <2>1, <4>1, QuietFrame DEF RowsOf
    <3>2. CASE e = e0
      <4>1. \A d \in Callers : d # c => at'[d] = "done"
        BY <1>1, <1>2, <1>4, <2>1, <3>2 DEF OthersAsBefore
      <4>2. \A d \in Callers : Engaged(d, e)' => d = c
        BY <4>1 DEF Engaged
      <4>3. RowsOf(e)' = RowsOf(e) /\ admitted'[e] = admitted[e] /\ rows' = rows
        BY <1>1 DEF RowsOf
      <4>4. (Current(c).op)' = "increment" => admitted'[e] < LimitOf[e]
        BY <1>1, <1>2, <1>5, <2>1, <3>2, <4>3 DEF QuietAt, Engaged
      <4>5. PlanFits(c, e)'
        BY <1>1, <1>2, <1>4, <1>5, <3>2, <4>3 DEF PlanFits
      <4> QED
        BY <2>1, <4>1, <4>2, <4>3, <4>4, <4>5 DEF QuietAt
    <3> QED
      BY <3>1, <3>2
  <2>2. store.redis => failures # 0
    BY <1>1
  <2> QED
    BY <1>1, <1>4, <2>1, <2>2 DEF Quiet, OthersAsBefore
<1> QED
  BY <1>6, <1>7, <1>8, <1>9

LEMMA RowIs ==
    ASSUME LimiterTypeOK, NEW i \in DOMAIN rows
    PROVE  i \in Nat /\ i # 0 /\ rows[i] \in Rows /\ rows[i].count \in Nat /\ rows[i].age \in 0 .. Window
<1>1. rows \in Seq(Rows)
  BY DEF LimiterTypeOK, Rows
<1>2. PICK l \in Nat : DOMAIN rows = 1 .. l
  BY <1>1
<1>3. i \in Nat /\ i # 0
  BY <1>2
<1>4. rows[i] \in Rows
  BY <1>1
<1> QED
  BY <1>3, <1>4 DEF Rows

LEMMA PlansStep ==
    ASSUME LimiterInv, NEW c \in Callers, PlanInsert(c) \/ PlanRestart(c) \/ PlanIncrement(c)
    PROVE  LimiterInv'
<1>1. FirstCount(c) \in Nat
  BY DEF FirstCount
<1>2. \A i \in DOMAIN rows : i \in Nat /\ i # 0 /\ rows[i].count \in Nat
  BY RowIs DEF LimiterInv
<1>3. CASE PlanInsert(c)
  <2>1. [row |-> 0, seen |-> 0, count |-> FirstCount(c), restart |-> TRUE] \in Changes
    BY <1>1 DEF Changes
  <2>2. PICK change \in Changes : /\ change = [row |-> 0, seen |-> 0, count |-> FirstCount(c), restart |-> TRUE]
                                  /\ change.row = 0 /\ change.count = FirstCount(c) /\ change.restart
    BY <2>1
  <2>3. Looked(c) /\ RowsOf(Target(c)) = {} /\ Plan(c, change)
    BY <1>3, <2>2 DEF PlanInsert
  <2> QED
    BY <2>2, <2>3, PlanStep
<1>4. CASE PlanRestart(c)
  <2>1. PICK i \in RowsOf(Target(c)) :
            Plan(c, [row |-> i, seen |-> rows[i].count, count |-> FirstCount(c), restart |-> TRUE])
    BY <1>4 DEF PlanRestart
  <2>2. i \in Nat /\ i # 0 /\ rows[i].count \in Nat
    BY <1>2 DEF RowsOf
  <2>3. [row |-> i, seen |-> rows[i].count, count |-> FirstCount(c), restart |-> TRUE] \in Changes
    BY <1>1, <2>2 DEF Changes
  <2>4. PICK change \in Changes :
            /\ change = [row |-> i, seen |-> rows[i].count, count |-> FirstCount(c), restart |-> TRUE]
            /\ change.row = i /\ change.seen = rows[i].count /\ change.count = FirstCount(c) /\ change.restart
    BY <2>3
  <2>5. Looked(c) /\ Plan(c, change)
    BY <1>4, <2>1, <2>4 DEF PlanRestart
  <2> QED
    BY <2>2, <2>4, <2>5, PlanStep
<1>5. CASE PlanIncrement(c)
  <2>1. PICK i \in RowsOf(Target(c)) :
            Plan(c, [row |-> i, seen |-> rows[i].count, count |-> rows[i].count + 1, restart |-> FALSE])
    BY <1>5 DEF PlanIncrement
  <2>2. i \in Nat /\ i # 0 /\ rows[i].count \in Nat /\ rows[i].count + 1 \in Nat
    BY <1>2 DEF RowsOf
  <2>3. [row |-> i, seen |-> rows[i].count, count |-> rows[i].count + 1, restart |-> FALSE] \in Changes
    BY <2>2 DEF Changes
  <2>4. PICK change \in Changes :
            /\ change = [row |-> i, seen |-> rows[i].count, count |-> rows[i].count + 1, restart |-> FALSE]
            /\ change.row = i /\ change.seen = rows[i].count /\ change.count = change.seen + 1 /\ ~change.restart
    BY <2>3
  <2>5. Looked(c) /\ Plan(c, change) /\ Current(c).op = "increment"
    BY <1>5, <2>1, <2>4 DEF PlanIncrement
  <2> QED
    BY <2>2, <2>4, <2>5, PlanStep
<1> QED
  BY <1>3, <1>4, <1>5

\* A call that reads the table and writes nothing: it passes a row that is not spent, or stops.
LEMMA ReadStep ==
    ASSUME LimiterInv, NEW c \in Callers, CheckRow(c) \/ SubtractRaises(c)
    PROVE  LimiterInv'
<1> USE LimiterAssumption DEF LimiterInv
<1>1. Looked(c) /\ UNCHANGED pending
  BY DEF CheckRow, SubtractRaises
<1>2. /\ at[c] \in {"call", "table"}
      /\ UNCHANGED <<store, counter, rows, orphaned, passes, admitted, failures, begun>>
      /\ crowded \subseteq crowded' /\ crowded' \subseteq Endpoints
      /\ failures = 0 => at[c] = "call" /\ ~store.redis
      /\ Target(c) \notin crowded' => \A d \in Callers : d # c => at[d] = "done"
  BY <1>1, LookedIs
<1>3. PICK e0 \in Endpoints : e0 = Target(c)
  BY <1>1, LookedIs
<1>4. \/ Stopped(c)
      \/ Passed(c) /\ \E i \in RowsOf(e0) : ~Spent(rows[i])
  BY <1>3 DEF CheckRow, SubtractRaises
<1>5. Moved(c)
  BY <1>2, <1>4, StoppedMoves, PassedMoves
<1>6. OthersAsBefore(c) /\ at'[c] \in {"call", "done"}
  BY <1>1, <1>5 DEF OthersAsBefore, Moved
<1>7. LimiterTypeOK'
  BY <1>1, <1>2, <1>5 DEF LimiterTypeOK, Moved, Handled, RequestKinds
<1>8. Placed'
  <2>1. at'[c] # "done" => (request[c].calls < Len(ProgramOf(c)))'
    BY <1>5 DEF Moved
  <2> QED
    BY <1>2, <1>6, <2>1, PlacedFrame, CallerIs DEF RowsOf
<1>9. Counters'
  BY <1>2, <1>6, CountersFrame
<1>10. Quiet'
  <2>1. ASSUME failures = 0, NEW e \in Endpoints, e \notin crowded', QuietAt(e), ~store.redis PROVE QuietAt(e)'
    <3>1. CASE ~Engaged(c, e)'
      BY <1>2, <1>6, <2>1, <3>1, QuietFrame DEF RowsOf
    <3>2. CASE Engaged(c, e)'
      <4>1. at'[c] = "call" /\ (Current(c).op)' = "increment" /\ Target(c)' = e
        BY <1>6, <3>2 DEF Engaged
      <4>2. e = e0
        BY <1>3, <1>5, <4>1 DEF Moved
      <4>3. \A d \in Callers : d # c => at'[d] = "done"
        BY <1>2, <1>3, <1>6, <2>1, <4>2 DEF OthersAsBefore
      <4>4. \A d \in Callers : Engaged(d, e)' => d = c
        BY <4>3 DEF Engaged
      <4>5. \A d \in Callers : at'[d] # "commit"
        BY <4>1, <4>3
      <4>6. RowsOf(e)' = RowsOf(e) /\ admitted'[e] = admitted[e] /\ rows' = rows
        BY <1>2 DEF RowsOf
      <4>7. Passed(c)
        BY <1>4, <4>1, StoppedMoves
      <4>8. PICK i \in RowsOf(e0) : ~Spent(rows[i])
        BY <1>4, <4>1, StoppedMoves
      <4>9. rows[i].count < LimitOf[e]
        <5>1. rows[i].count \in Nat /\ rows[i].endpoint = e /\ LimitOf[e] \in Nat
          BY <4>2, <4>8, RowIs DEF RowsOf
        <5> QED
          BY <4>8, <5>1 DEF Spent
      <4>10. admitted'[e] < LimitOf[e]
        <5>1. admitted[e] \in Nat /\ rows[i].count \in Nat /\ LimitOf[e] \in Nat
          BY <4>8, RowIs DEF RowsOf, LimiterTypeOK
        <5>2. admitted[e] <= rows[i].count
          BY <2>1, <4>2, <4>8 DEF QuietAt
        <5> QED
          BY <4>6, <4>9, <5>1, <5>2
      <4> QED
        BY <2>1, <4>4, <4>5, <4>6, <4>10 DEF QuietAt
    <3> QED
      BY <3>1, <3>2
  <2>2. store.redis => failures # 0
    BY <1>2
  <2> QED
    BY <1>2, <1>6, <2>1, <2>2 DEF Quiet, OthersAsBefore
<1> QED
  BY <1>7, <1>8, <1>9, <1>10

LEMMA CommitRowStep == ASSUME LimiterInv, NEW c \in Callers, CommitRow(c) PROVE LimiterInv'
<1> USE LimiterAssumption DEF LimiterInv
<1>1. /\ at[c] = "commit" /\ Passed(c) /\ pending' = [pending EXCEPT ![c] = NoChange]
      /\ UNCHANGED <<store, counter, orphaned, passes, crowded, failures, begun>>
  BY DEF CommitRow, Forget, NoFault
<1>2. PICK e0 \in Endpoints : e0 = Target(c)
  BY <1>1, CallerIs
<1>3. PICK change \in Changes : change = pending[c]
  BY DEF LimiterTypeOK, Changes
<1>4. rows' = Apply(change, e0) /\ (change.row # 0 => change.row \in RowsOf(e0))
  BY <1>1, <1>2, <1>3 DEF CommitRow, Placed
<1>5. /\ rows' \in Seq(Rows)
      /\ \A e \in Endpoints : RowsOf(e) \subseteq RowsOf(e)'
      /\ \A e \in Endpoints : e # e0 => RowsOf(e)' = RowsOf(e)
      /\ \A e \in Endpoints : e # e0 => \A i \in RowsOf(e) : rows'[i].count = rows[i].count
      /\ change.row = 0 /\ RowsOf(e0) = {} =>
             \E n : RowsOf(e0)' = {n} /\ rows'[n].count = change.count
      /\ change.row # 0 => RowsOf(e0)' = RowsOf(e0)
      /\ change.row # 0 /\ rows[change.row].count = change.seen => rows'[change.row].count = change.count
  BY <1>4, ApplyIs
<1>6. PICK before \in Nat, one \in {0, 1} :
          /\ before = IF change.restart THEN 0 ELSE admitted[e0]
          /\ one = IF Current(c).op = "increment" /\ before <= LimitOf[e0] THEN 1 ELSE 0
          /\ admitted' = [admitted EXCEPT ![e0] = before + one]
  <2>1. admitted[e0] \in Nat
    BY DEF LimiterTypeOK
  <2>2. PICK before \in Nat : before = IF change.restart THEN 0 ELSE admitted[e0]
    BY <2>1
  <2> QED
    BY <1>2, <1>3, <2>2 DEF CommitRow, CountAdmitted
<1>7. admitted' \in [Endpoints -> Nat] /\ admitted'[e0] = before + one
      /\ \A e \in Endpoints : e # e0 => admitted'[e] = admitted[e]
  <2>1. before + one \in Nat
    OBVIOUS
  <2> QED
    BY <1>6, <2>1 DEF LimiterTypeOK
<1>8. Moved(c)
  BY <1>1, PassedMoves
<1>9. OthersAsBefore(c) /\ at'[c] \in {"call", "done"}
  BY <1>1, <1>8 DEF OthersAsBefore, Moved, LimiterTypeOK
<1>10. LimiterTypeOK'
  <2>1. NoChange \in Changes
    BY DEF NoChange, Changes
  <2>2. pending' \in [Callers -> Changes]
    BY <1>1, <2>1 DEF LimiterTypeOK, Changes
  <2> QED
    BY <1>1, <1>5, <1>7, <1>8, <2>2 DEF LimiterTypeOK, Moved, Handled, RequestKinds, Changes, Rows
<1>11. Placed'
  <2>1. at'[c] # "done" => (request[c].calls < Len(ProgramOf(c)))'
    BY <1>8 DEF Moved
  <2> QED
    BY <1>1, <1>5, <1>9, <2>1, PlacedFrame, CallerIs
<1>12. Counters'
  BY <1>1, <1>9, CountersFrame
<1>13. Quiet'
  <2>1. ASSUME failures = 0, NEW e \in Endpoints, QuietAt(e), ~store.redis PROVE QuietAt(e)'
    <3>1. CASE e # e0
      <4>1. ~Engaged(c, e)'
        BY <1>2, <1>8, <1>9, <3>1 DEF Engaged, Moved
      <4> QED
        BY <1>5, <1>7, <1>9, <2>1, <3>1, <4>1, QuietFrame
    <3>2. CASE e = e0
      <4>1. Engaged(c, e)
        BY <1>1, <1>2, <3>2 DEF Engaged
      <4>2. \A d \in Callers : Engaged(d, e) => d = c
        BY <2>1, <4>1 DEF QuietAt
      <4>3. \A d \in Callers : d # c => ~Engaged(d, e)'
        BY <1>9, <4>2, OthersStay DEF Engaged, OthersAsBefore
      <4>4. PlanFits(c, e)
        BY <1>1, <1>2, <2>1, <3>2 DEF QuietAt
      <4>5. PICK n : RowsOf(e)' = {n} /\ rows'[n].count = change.count
        <5>1. CASE change.row = 0
          BY <1>3, <1>5, <3>2, <4>4, <5>1 DEF PlanFits
        <5>2. CASE change.row # 0
          <6>1. rows[change.row].count = change.seen /\ change.row \in RowsOf(e)
            BY <1>3, <1>4, <3>2, <4>4, <5>2 DEF PlanFits
          <6>2. RowsOf(e) = {change.row}
            BY <2>1, <6>1 DEF QuietAt
          <6> QED
            BY <1>5, <3>2, <5>2, <6>1, <6>2
        <5> QED
          BY <5>1, <5>2
      <4>6. admitted'[e] <= change.count /\ admitted'[e] <= LimitOf[e]
            /\ (Current(c).op = "check" => admitted'[e] = 0)
        <5>1. LimitOf[e] \in Nat \ {0} /\ admitted[e] \in Nat /\ change.count \in Nat /\ change.seen \in Nat
          BY DEF LimiterTypeOK, Changes
        <5>2. CASE change.restart
          <6>1. before = 0 /\ change.count = FirstCount(c)
            BY <1>3, <1>6, <4>4, <5>2 DEF PlanFits
          <6>2. Current(c).op \in {"check", "increment"}
            BY <1>1, CallerIs
          <6>3. one = FirstCount(c) /\ (Current(c).op = "check" => one = 0)
            BY <1>6, <3>2, <5>1, <6>1, <6>2 DEF FirstCount
          <6> QED
            BY <1>7, <3>2, <5>1, <6>1, <6>3
        <5>3. CASE ~change.restart
          <6>1. change.row # 0 /\ Current(c).op = "increment" /\ change.count = change.seen + 1
            BY <1>3, <4>4, <5>3 DEF PlanFits
          <6>2. rows[change.row].count = change.seen /\ change.row \in RowsOf(e)
            BY <1>3, <1>4, <3>2, <4>4, <6>1 DEF PlanFits
          <6>3. admitted[e] <= change.seen /\ admitted[e] < LimitOf[e]
            BY <2>1, <4>1, <6>1, <6>2 DEF QuietAt
          <6>4. before = admitted[e]
            BY <1>6, <3>2, <5>3
          <6> QED
            BY <1>7, <3>2, <5>1, <6>1, <6>3, <6>4
        <5> QED
          BY <5>2, <5>3
      <4>7. Engaged(c, e)' => admitted'[e] < LimitOf[e] /\ at'[c] # "commit"
        <5>1. Engaged(c, e)' => Current(c).op = "check"
          BY <1>8, <1>9 DEF Engaged, Moved
        <5>2. LimitOf[e] \in Nat \ {0}
          OBVIOUS
        <5> QED
          BY <1>9, <4>6, <5>1, <5>2
      <4>8. \A d \in Callers : at'[d] = "commit" /\ Target(d)' = e => Engaged(d, e)'
        BY DEF Engaged
      <4>9. \A d \in Callers : ~(at'[d] = "commit" /\ Target(d)' = e)
        BY <1>9, <4>3, <4>8
      <4>10. \A d, f \in Callers : Engaged(d, e)' /\ Engaged(f, e)' => d = f
        BY <4>3
      <4>11. \A i \in RowsOf(e)' : admitted'[e] <= rows'[i].count
        BY <4>5, <4>6
      <4>12. \A d \in Callers : Engaged(d, e)' => admitted'[e] < LimitOf[e]
        BY <4>3, <4>7
      <4> QED
        BY <4>5, <4>6, <4>9, <4>10, <4>11, <4>12 DEF QuietAt
    <3> QED
      BY <3>1, <3>2
  <2>2. store.redis => failures # 0
    BY <1>1 DEF Quiet
  <2> QED
    BY <1>1, <1>9, <2>1, <2>2 DEF Quiet, OthersAsBefore
<1> QED
  BY <1>10, <1>11, <1>12, <1>13

\* A failure of the table, or the death of a caller.
LEMMA FailStep ==
    ASSUME LimiterInv, NEW c \in Callers, TableRaises(c) \/ Die(c)
    PROVE  LimiterInv'
<1> USE LimiterAssumption DEF LimiterInv
<1>1. /\ at[c] # "done" /\ failures' = failures + 1 /\ failures < MaxFaults
      /\ pending' = [pending EXCEPT ![c] = NoChange]
      /\ UNCHANGED <<store, counter, rows, begun, passes, admitted, crowded>>
      /\ Passed(c) \/ Stopped(c)
      /\ orphaned \subseteq orphaned' /\ (at[c] = "expire" => Target(c) \in orphaned')
  BY DEF TableRaises, Die, Fault, Forget, histories, Atop, Orphan
<1>2. Moved(c)
  BY <1>1, StoppedMoves, PassedMoves
<1>3. OthersAsBefore(c) /\ at'[c] \in {"call", "done"}
  BY <1>1, <1>2 DEF OthersAsBefore, Moved, LimiterTypeOK
<1>4. LimiterTypeOK'
  <2>1. NoChange \in Changes
    BY DEF NoChange, Changes
  <2>2. pending' \in [Callers -> Changes] /\ failures' \in 0 .. MaxFaults
    BY <1>1, <2>1 DEF LimiterTypeOK, Changes
  <2>3. orphaned' \subseteq Endpoints
    <3>1. orphaned' \subseteq orphaned \cup {Target(c)}
      BY DEF TableRaises, Die, Orphan, histories
    <3>2. Target(c) \in Endpoints
      BY <1>1, CallerIs
    <3> QED
      BY <3>1, <3>2 DEF LimiterTypeOK
  <2> QED
    BY <1>1, <1>2, <2>2, <2>3 DEF LimiterTypeOK, Moved, Handled, RequestKinds, Changes
<1>5. Placed'
  <2>1. at'[c] # "done" => (request[c].calls < Len(ProgramOf(c)))'
    BY <1>2 DEF Moved
  <2> QED
    BY <1>1, <1>3, <2>1, PlacedFrame, CallerIs DEF RowsOf
<1>6. Counters'
  BY <1>1, <1>3, CountersFrame
<1>7. Quiet'
  <2>1. failures' # 0
    BY <1>1 DEF LimiterTypeOK
  <2> QED
    BY <2>1 DEF Quiet
<1> QED
  BY <1>4, <1>5, <1>6, <1>7

LEMMA SecondStep == ASSUME LimiterInv, Second PROVE LimiterInv'
<1> USE LimiterAssumption DEF LimiterInv
<1>1. UNCHANGED <<store, at, request, pending, begun, failures, orphaned, admitted, crowded>>
  BY DEF Second
<1>2. \A c \in Callers : /\ ProgramOf(c)' = ProgramOf(c) /\ Current(c)' = Current(c) /\ Target(c)' = Target(c)
                         /\ FirstCount(c)' = FirstCount(c)
  BY <1>1, SameCall
<1>3. /\ rows' \in Seq(Rows) /\ DOMAIN rows' = DOMAIN rows
      /\ \A i \in DOMAIN rows : rows'[i].endpoint = rows[i].endpoint /\ rows'[i].count = rows[i].count
  <2>1. rows' = [i \in DOMAIN rows |-> [rows[i] EXCEPT !.age = IF @ < Window THEN @ + 1 ELSE @]]
    BY DEF Second
  <2>2. ASSUME NEW i \in DOMAIN rows
        PROVE  /\ rows'[i] \in Rows
               /\ rows'[i].endpoint = rows[i].endpoint /\ rows'[i].count = rows[i].count
    <3>1. PICK a \in 0 .. Window : a = IF rows[i].age < Window THEN rows[i].age + 1 ELSE rows[i].age
      BY RowIs
    <3>2. rows'[i] = [rows[i] EXCEPT !.age = a]
      BY <2>1, <3>1
    <3> QED
      BY <3>2, RowIs DEF Rows
  <2>3. PICK l \in Nat : DOMAIN rows = 1 .. l
    BY DEF LimiterTypeOK
  <2>4. rows' \in [1 .. l -> Rows]
    BY <2>1, <2>2, <2>3
  <2>5. rows' \in Seq(Rows)
    BY <2>4
  <2> QED
    BY <2>1, <2>2, <2>5
<1>4. \A e \in Endpoints :
        /\ passes'[e] = IF counter[e].ttl = 1 THEN 0 ELSE passes[e]
        /\ counter'[e].count = IF counter[e].ttl = 1 THEN 0 ELSE counter[e].count
        /\ counter'[e].ttl = IF counter[e].ttl = 0 THEN 0 ELSE counter[e].ttl - 1
        /\ counter'[e] \in [count : Nat, ttl : 0 .. Window]
  <2> SUFFICES ASSUME NEW e \in Endpoints
               PROVE  /\ passes'[e] = IF counter[e].ttl = 1 THEN 0 ELSE passes[e]
                      /\ counter'[e].count = IF counter[e].ttl = 1 THEN 0 ELSE counter[e].count
                      /\ counter'[e].ttl = IF counter[e].ttl = 0 THEN 0 ELSE counter[e].ttl - 1
                      /\ counter'[e] \in [count : Nat, ttl : 0 .. Window]
    OBVIOUS
  <2>1. counter[e] \in [count : Nat, ttl : 0 .. Window]
    BY DEF LimiterTypeOK
  <2>2. PICK n \in Nat, t \in 0 .. Window : counter[e].count = n /\ counter[e].ttl = t
    BY <2>1
  <2>3. PICK u \in 0 .. Window : u = IF t = 0 THEN 0 ELSE t - 1
    OBVIOUS
  <2>4. counter'[e] = IF t = 1 THEN [count |-> 0, ttl |-> 0] ELSE [counter[e] EXCEPT !.ttl = u]
    BY <2>2, <2>3 DEF Second
  <2>5. passes'[e] = IF t = 1 THEN 0 ELSE passes[e]
    BY <2>2 DEF Second
  <2>6. CASE t = 1
    BY <2>2, <2>4, <2>5, <2>6
  <2>7. CASE t # 1
    <3>1. counter'[e] = [counter[e] EXCEPT !.ttl = u]
      BY <2>4, <2>7
    <3> QED
      BY <2>1, <2>2, <2>3, <2>5, <2>7, <3>1
  <2> QED
    BY <2>6, <2>7
<1>5. LimiterTypeOK'
  <2>1. counter' \in [Endpoints -> [count : Nat, ttl : 0 .. Window]]
    BY <1>4 DEF Second
  <2>2. passes' \in [Endpoints -> Nat]
    BY <1>4 DEF Second, LimiterTypeOK
  <2> QED
    BY <1>1, <1>3, <2>1, <2>2 DEF LimiterTypeOK, Rows
<1>6. \A e \in Endpoints : RowsOf(e)' = RowsOf(e)
  BY <1>3 DEF RowsOf
<1>7. Placed'
  <2>1. \A c \in Callers : at[c] = "commit" /\ pending[c].row # 0 => pending[c].row \in RowsOf(Target(c))'
    <3> SUFFICES ASSUME NEW c \in Callers, at[c] = "commit", pending[c].row # 0
                 PROVE  pending[c].row \in RowsOf(Target(c))'
      OBVIOUS
    <3>1. PICK e \in Endpoints : e = Target(c) /\ Target(c)' = e
      BY <1>2, CallerIs
    <3>2. pending[c].row \in RowsOf(e)
      BY <3>1 DEF Placed
    <3> QED
      BY <1>6, <3>1, <3>2 DEF RowsOf
  <2> QED
    BY <1>1, <1>2, <2>1 DEF Placed
<1>8. Counters'
  <2> SUFFICES ASSUME NEW e \in Endpoints PROVE CounterAt(e)'
    BY DEF Counters
  <2>1. CounterAt(e) /\ passes[e] \in Nat /\ counter[e].count \in Nat /\ counter[e].ttl \in 0 .. Window
        /\ LimitOf[e] \in Nat
    BY CountersTyped DEF Counters, LimiterTypeOK
  <2>2. \A c \in Callers : Expiring(c, e)' <=> Expiring(c, e)
    BY <1>1, <1>2 DEF Expiring
  <2>3. /\ passes'[e] = IF counter[e].ttl = 1 THEN 0 ELSE passes[e]
        /\ counter'[e].count = IF counter[e].ttl = 1 THEN 0 ELSE counter[e].count
        /\ counter'[e].ttl = IF counter[e].ttl = 0 THEN 0 ELSE counter[e].ttl - 1
    BY <1>4
  <2> QED
    BY <1>1, <2>1, <2>2, <2>3 DEF CounterAt
<1>9. Quiet'
  <2>1. ASSUME NEW e \in Endpoints, QuietAt(e) PROVE QuietAt(e)'
    <3>1. \A c \in Callers : Engaged(c, e)' <=> Engaged(c, e)
      BY <1>1, <1>2 DEF Engaged
    <3>2. \A i \in RowsOf(e) : rows'[i].count = rows[i].count
      BY <1>3 DEF RowsOf
    <3>3. \A c \in Callers : at[c] = "commit" /\ Target(c) = e => PlanFits(c, e)'
      <4> SUFFICES ASSUME NEW c \in Callers, at[c] = "commit", Target(c) = e PROVE PlanFits(c, e)'
        OBVIOUS
      <4>1. PlanFits(c, e) /\ (pending[c].row # 0 => pending[c].row \in RowsOf(e))
        BY <2>1 DEF QuietAt, Placed
      <4> QED
        BY <1>1, <1>2, <1>6, <3>2, <4>1 DEF PlanFits
    <3> QED
      BY <1>1, <1>2, <1>6, <2>1, <3>1, <3>2, <3>3 DEF QuietAt
  <2> QED
    BY <1>1, <2>1 DEF Quiet
<1> QED
  BY <1>5, <1>7, <1>8, <1>9

LEMMA LimiterStep == LimiterInv /\ [LimiterNext]_limiterVars => LimiterInv'
<1> SUFFICES ASSUME LimiterInv, [LimiterNext]_limiterVars PROVE LimiterInv'
  OBVIOUS
<1>1. ASSUME NEW c \in Callers, Answer(c) PROVE LimiterInv'
  BY <1>1, IncrStep, ExpireKeyStep, PlansStep, ReadStep, CommitRowStep DEF Answer
<1>2. ASSUME NEW c \in Callers, RedisRaises(c) \/ TableRaises(c) \/ Die(c) PROVE LimiterInv'
  BY <1>2, RedisRaisesStep, FailStep
<1>3. ASSUME NEW c \in Callers, NEW r \in Requests, Begin(c, r) PROVE LimiterInv'
  BY <1>3, BeginStep
<1>4. CASE UNCHANGED limiterVars
  <2> USE <1>4 DEF limiterVars, histories, LimiterInv
  <2>1. LimiterTypeOK'
    BY DEF LimiterTypeOK
  <2>2. \A c \in Callers : /\ ProgramOf(c)' = ProgramOf(c) /\ Current(c)' = Current(c) /\ Target(c)' = Target(c)
                           /\ FirstCount(c)' = FirstCount(c)
    BY SameCall
  <2>3. \A e : RowsOf(e)' = RowsOf(e)
    BY DEF RowsOf
  <2>4. Placed'
    BY <2>2 DEF Placed, RowsOf
  <2>5. Counters'
    BY <2>2 DEF Counters, CounterAt, Expiring
  <2>6. \A e \in Endpoints : QuietAt(e) => QuietAt(e)'
    BY <2>2, <2>3 DEF QuietAt, Engaged, PlanFits
  <2>7. Quiet'
    BY <2>6 DEF Quiet
  <2> QED
    BY <2>1, <2>4, <2>5, <2>7
<1> QED
  BY <1>1, <1>2, <1>3, <1>4, SecondStep DEF LimiterNext

LEMMA LimiterAlways == LimiterSpec => []LimiterInv
BY LimiterInitInv, LimiterStep, PTL DEF LimiterSpec

\* Every counter, row, request and planned change of the rate limiter keeps its type.
THEOREM LimiterTyped == LimiterSpec => []LimiterTypeOK
<1>1. LimiterInv => LimiterTypeOK
  BY DEF LimiterInv
<1> QED
  BY <1>1, LimiterAlways, PTL

\* No life of a Redis counter lets more through than the limit, only a failure between INCR and
\* EXPIRE leaves a counter that never ends, and in the table only an overlap of callers or a
\* failure admits more than the limit: for any callers, limits, window and programs of calls.
THEOREM LimitsAlwaysHold == LimiterSpec => []LimitsHold
<1>1. LimiterInv => LimitsHold
  <2> SUFFICES ASSUME LimiterInv PROVE LimitsHold
    OBVIOUS
  <2>1. RedisLimitHolds
    BY DEF LimiterInv, Counters, CounterAt, RedisLimitHolds
  <2>2. NoImmortalCounter
    BY DEF LimiterInv, Counters, CounterAt, Expiring, NoImmortalCounter
  <2>3. OverAdmissionNeedsOverlap
    <3> SUFFICES ASSUME NEW e \in Endpoints, e \notin crowded, ~(failures > 0) PROVE ~(admitted[e] > LimitOf[e])
      BY DEF OverAdmissionNeedsOverlap
    <3>1. failures = 0 /\ admitted[e] \in Nat /\ LimitOf[e] \in Nat \ {0}
      BY LimiterAssumption DEF LimiterInv, LimiterTypeOK
    <3>2. admitted[e] <= LimitOf[e]
      BY <3>1 DEF LimiterInv, Quiet, QuietAt
    <3> QED
      BY <3>1, <3>2
  <2> QED
    BY <2>1, <2>2, <2>3 DEF LimitsHold
<1> QED
  BY <1>1, LimiterAlways, PTL

-----------------------------------------------------------------------------
(* PolicyTable: what a request asked for is in the table, unless requests    *)
(* for the same row overlapped                                               *)

PolicyEdits == [at : {"commit", "refresh"}, op : {"create", "update", "delete"}, id : Nat \ {0}, body : Bodies,
                loaded : Bodies, crossed : BOOLEAN]

TableTyped ==
    /\ DOMAIN policies \subseteq 1 .. lastPolicyId
    /\ DOMAIN askedFor = DOMAIN policies
    /\ \A id \in DOMAIN policies : policies[id] \in Bodies /\ askedFor[id] \in Bodies
    /\ lastPolicyId \in 0 .. MaxPolicies /\ reuses \in BOOLEAN
    /\ rowEdits \in 0 .. MaxEdits /\ dbErrors \in 0 .. MaxDbErrors
    /\ edit \in [Editors -> PolicyEdits \cup {NoEdit}]

\* A request that shares its row with another one knows it.
CrossedIsSeen ==
    \A e, f \in Editors : e # f /\ edit[e] # NoEdit /\ edit[f] # NoEdit /\ edit[e].id = edit[f].id =>
        edit[e].crossed

\* Until another request comes to its row, a request commits over what it loaded, and reads
\* what it committed.
LoadedIsCurrent ==
    \A e \in Editors : edit[e] # NoEdit /\ ~edit[e].crossed /\ edit[e].id \in DOMAIN policies =>
        policies[edit[e].id] = IF edit[e].at = "commit" THEN edit[e].loaded ELSE edit[e].body

PolicyInv == TableTyped /\ CrossedIsSeen /\ LoadedIsCurrent /\ AnswersAreRows

LEMMA NextIdIs ==
    ASSUME TableTyped
    PROVE  NextPolicyId \in Nat \ {0} /\ NextPolicyId \notin DOMAIN policies
           /\ \A id \in DOMAIN policies : id < NextPolicyId
<1> USE PolicyTableAssumption
<1>1. lastPolicyId \in Nat /\ \A id \in DOMAIN policies : id \in 1 .. lastPolicyId
  BY DEF TableTyped
<1>2. CASE reuses
  <2>1. (DOMAIN policies \cup {0}) \in SUBSET (0 .. lastPolicyId) /\ DOMAIN policies \cup {0} # {}
    BY <1>1
  <2>2. PICK m : m = Max(DOMAIN policies \cup {0})
    OBVIOUS
  <2>3. m \in DOMAIN policies \cup {0} /\ \A x \in DOMAIN policies \cup {0} : x <= m
    BY <1>1, <2>1, <2>2, MaxOf
  <2>4. m \in Nat /\ NextPolicyId = m + 1
    BY <1>1, <1>2, <2>2, <2>3 DEF NextPolicyId
  <2> QED
    BY <1>1, <2>3, <2>4
<1>3. CASE ~reuses
  BY <1>1, <1>3 DEF NextPolicyId
<1> QED
  BY <1>2, <1>3

LEMMA NoEditIs == NoEdit.at = "none" /\ NoEdit \notin PolicyEdits
BY DEF NoEdit, PolicyEdits

LEMMA PolicyInitInv == PolicyTableInit => PolicyInv
<1> SUFFICES ASSUME PolicyTableInit PROVE PolicyInv
  OBVIOUS
<1> USE PolicyTableAssumption DEF PolicyTableInit
<1>1. DOMAIN policies = {} /\ DOMAIN askedFor = {}
  OBVIOUS
<1>2. 0 \in 0 .. MaxPolicies /\ 0 \in 0 .. MaxEdits /\ 0 \in 0 .. MaxDbErrors
  OBVIOUS
<1>3. TableTyped
  BY <1>1, <1>2 DEF TableTyped
<1>4. CrossedIsSeen /\ LoadedIsCurrent
  BY DEF CrossedIsSeen, LoadedIsCurrent
<1>5. AnswersAreRows
  BY <1>1 DEF AnswersAreRows
<1> QED
  BY <1>3, <1>4, <1>5 DEF PolicyInv

\* A request begins at a row: whoever is there already sees it, and it sees them.
BeginsAt(e, new) ==
    /\ new.crossed = (On(new.id) # {})
    /\ edit' = [d \in Editors |-> IF d = e THEN new
                                  ELSE IF d \in On(new.id) THEN [edit[d] EXCEPT !.crossed = TRUE] ELSE edit[d]]

BegunAt(e, new) ==
    /\ edit' \in [Editors -> PolicyEdits \cup {NoEdit}]
    /\ edit'[e] = new
    /\ \A d \in Editors : d # e =>
         /\ edit'[d] = NoEdit <=> edit[d] = NoEdit
         /\ edit[d] # NoEdit => /\ edit'[d].id = edit[d].id /\ edit'[d].at = edit[d].at
                                /\ edit'[d].loaded = edit[d].loaded /\ edit'[d].body = edit[d].body
                                /\ ~edit'[d].crossed => ~edit[d].crossed /\ edit[d].id # new.id

LEMMA BeginsAtRow ==
    ASSUME TableTyped, CrossedIsSeen, NEW e \in Editors, NEW new \in PolicyEdits, edit[e] = NoEdit,
           BeginsAt(e, new)
    PROVE  BegunAt(e, new) /\ CrossedIsSeen'
<1> USE DEF BeginsAt
<1>1. ASSUME NEW d \in Editors, d # e
      PROVE  /\ edit'[d] \in PolicyEdits \cup {NoEdit}
             /\ edit'[d] = NoEdit <=> edit[d] = NoEdit
             /\ edit[d] # NoEdit => /\ edit'[d].id = edit[d].id /\ edit'[d].at = edit[d].at
                                    /\ edit'[d].loaded = edit[d].loaded /\ edit'[d].body = edit[d].body
                                    /\ (~edit'[d].crossed => ~edit[d].crossed /\ edit[d].id # new.id)
                                    /\ (edit[d].crossed => edit'[d].crossed)
  <2>1. edit[d] \in PolicyEdits \cup {NoEdit}
    BY DEF TableTyped
  <2>2. CASE edit[d] = NoEdit
    BY <1>1, <2>2 DEF On
  <2>3. CASE edit[d] # NoEdit /\ edit[d].id # new.id
    BY <1>1, <2>1, <2>3 DEF On
  <2>4. CASE edit[d] # NoEdit /\ edit[d].id = new.id
    <3>1. edit[d] \in PolicyEdits /\ edit'[d] = [edit[d] EXCEPT !.crossed = TRUE]
      BY <1>1, <2>1, <2>4 DEF On
    <3>2. edit'[d] \in PolicyEdits
      BY <3>1 DEF PolicyEdits
    <3> QED
      BY <2>4, <3>1, <3>2, NoEditIs DEF PolicyEdits
  <2> QED
    BY <2>2, <2>3, <2>4
<1>2. edit'[e] = new
  OBVIOUS
<1>3. edit' \in [Editors -> PolicyEdits \cup {NoEdit}]
  BY <1>1, <1>2
<1>4. CrossedIsSeen'
  <2> SUFFICES ASSUME NEW d \in Editors, NEW f \in Editors, d # f, edit'[d] # NoEdit, edit'[f] # NoEdit,
                      edit'[d].id = edit'[f].id
               PROVE  edit'[d].crossed
    BY DEF CrossedIsSeen
  <2>1. CASE d = e
    <3>1. edit[f] # NoEdit /\ edit[f].id = new.id
      BY <1>1, <1>2, <2>1
    <3> QED
      BY <1>2, <2>1, <3>1 DEF On
  <2>2. CASE f = e
    <3>1. edit[d] # NoEdit /\ edit[d].id = new.id /\ d # e
      BY <1>1, <1>2, <2>2
    <3>2. edit[d] \in PolicyEdits /\ edit'[d] = [edit[d] EXCEPT !.crossed = TRUE]
      BY <3>1 DEF On, TableTyped
    <3> QED
      BY <3>2 DEF PolicyEdits
  <2>3. CASE d # e /\ f # e
    <3>1. edit[d] # NoEdit /\ edit[f] # NoEdit
      BY <1>1, <2>3
    <3>2. edit[d].id = edit[f].id
      BY <1>1, <2>3, <3>1
    <3>3. edit[d].crossed
      BY <3>1, <3>2 DEF CrossedIsSeen
    <3> QED
      BY <1>1, <2>3, <3>1, <3>3
  <2> QED
    BY <2>1, <2>2, <2>3
<1> QED
  BY <1>1, <1>2, <1>3, <1>4 DEF BegunAt

LEMMA CreateStep ==
    ASSUME PolicyInv, NEW e \in Editors, NEW body \in Bodies, CreatePolicy(e, body)
    PROVE  PolicyInv'
<1> USE PolicyTableAssumption DEF PolicyInv
<1>1. PICK n \in Nat \ {0} : n = NextPolicyId /\ n \notin DOMAIN policies /\ \A id \in DOMAIN policies : id < n
  BY NextIdIs
<1>2. /\ edit[e] = NoEdit /\ rowEdits < MaxEdits /\ n <= MaxPolicies /\ rowEdits' = rowEdits + 1
      /\ lastPolicyId' = n
      /\ policies' = PutRow(policies, n, body) /\ askedFor' = PutRow(askedFor, n, body)
      /\ mixed' = IF On(n) = {} THEN mixed \ {n} ELSE mixed \cup {n}
      /\ UNCHANGED <<reuses, replies, dbErrors>>
  BY <1>1 DEF CreatePolicy
<1>3. PICK new \in PolicyEdits : /\ new = [at |-> "refresh", op |-> "create", id |-> n, body |-> body,
                                           loaded |-> body, crossed |-> On(n) # {}]
                                 /\ new.at = "refresh" /\ new.id = n /\ new.body = body
                                 /\ new.crossed = (On(n) # {})
  <2>1. PICK b \in BOOLEAN : b = (On(n) # {})
    OBVIOUS
  <2>2. [at |-> "refresh", op |-> "create", id |-> n, body |-> body, loaded |-> body, crossed |-> b] \in PolicyEdits
    BY DEF PolicyEdits
  <2> QED
    BY <2>1, <2>2
<1>4. BeginsAt(e, new)
  BY <1>1, <1>3 DEF CreatePolicy, BeginsAt
<1>5. BegunAt(e, new) /\ CrossedIsSeen'
  BY <1>2, <1>4, BeginsAtRow
<1>6. /\ DOMAIN policies' = DOMAIN policies \cup {n} /\ policies'[n] = body
      /\ \A x \in DOMAIN policies : policies'[x] = policies[x]
      /\ DOMAIN askedFor' = DOMAIN policies \cup {n} /\ askedFor'[n] = body
      /\ \A x \in DOMAIN policies : askedFor'[x] = askedFor[x]
  <2>1. /\ DOMAIN policies' = DOMAIN policies \cup {n} /\ policies'[n] = body
        /\ \A x \in DOMAIN policies : x # n => policies'[x] = policies[x]
    <3>1. policies' = [x \in DOMAIN policies \cup {n} |-> IF x = n THEN body ELSE policies[x]]
      BY <1>2 DEF PutRow
    <3> QED
      BY <3>1
  <2>2. /\ DOMAIN askedFor' = DOMAIN askedFor \cup {n} /\ askedFor'[n] = body
        /\ \A x \in DOMAIN askedFor : x # n => askedFor'[x] = askedFor[x]
    <3>1. askedFor' = [x \in DOMAIN askedFor \cup {n} |-> IF x = n THEN body ELSE askedFor[x]]
      BY <1>2 DEF PutRow
    <3> QED
      BY <3>1
  <2>3. DOMAIN askedFor = DOMAIN policies /\ \A x \in DOMAIN policies : x # n
    BY <1>1 DEF TableTyped
  <2> QED
    BY <2>1, <2>2, <2>3
<1>7. TableTyped'
  <2>1. DOMAIN policies' \subseteq 1 .. lastPolicyId'
    <3>1. \A id \in DOMAIN policies : id \in 1 .. n
      BY <1>1 DEF TableTyped
    <3> QED
      BY <1>2, <1>6, <3>1
  <2>2. rowEdits' \in 0 .. MaxEdits /\ lastPolicyId' \in 0 .. MaxPolicies
    BY <1>2 DEF TableTyped
  <2> QED
    BY <1>2, <1>5, <1>6, <2>1, <2>2 DEF TableTyped, BegunAt
<1>8. LoadedIsCurrent'
  <2> SUFFICES ASSUME NEW d \in Editors, edit'[d] # NoEdit, ~edit'[d].crossed, edit'[d].id \in DOMAIN policies'
               PROVE  policies'[edit'[d].id] = IF edit'[d].at = "commit" THEN edit'[d].loaded ELSE edit'[d].body
    BY DEF LoadedIsCurrent
  <2>1. CASE d = e
    BY <1>3, <1>5, <1>6, <2>1 DEF BegunAt
  <2>2. CASE d # e
    <3>1. /\ edit[d] # NoEdit /\ ~edit[d].crossed /\ edit[d].id # n /\ edit'[d].id = edit[d].id
          /\ edit'[d].at = edit[d].at /\ edit'[d].loaded = edit[d].loaded /\ edit'[d].body = edit[d].body
      BY <1>3, <1>5, <2>2 DEF BegunAt
    <3>2. edit[d].id \in DOMAIN policies
      BY <1>6, <3>1
    <3> QED
      BY <1>6, <3>1, <3>2 DEF LoadedIsCurrent
  <2> QED
    BY <2>1, <2>2
<1>9. AnswersAreRows'
  BY <1>2, <1>6 DEF AnswersAreRows, TableTyped
<1> QED
  BY <1>5, <1>7, <1>8, <1>9

LEMMA LoadPolicyStep ==
    ASSUME PolicyInv, NEW e \in Editors, NEW op \in {"update", "delete"}, NEW id \in 1 .. MaxPolicies, NEW body,
           body \in Bodies \/ id \notin DOMAIN policies, LoadPolicy(e, op, id, body)
    PROVE  PolicyInv'
<1> USE PolicyTableAssumption DEF PolicyInv
<1>1. /\ edit[e] = NoEdit /\ rowEdits < MaxEdits /\ rowEdits' = rowEdits + 1
      /\ UNCHANGED <<reuses, policies, lastPolicyId, askedFor, mixed, replies, dbErrors>>
  BY DEF LoadPolicy
<1>2. rowEdits' \in 0 .. MaxEdits
  BY <1>1 DEF TableTyped
<1>3. AnswersAreRows'
  BY <1>1 DEF AnswersAreRows
<1>4. CASE id \notin DOMAIN policies
  <2>1. UNCHANGED edit
    BY <1>4 DEF LoadPolicy
  <2>2. TableTyped'
    BY <1>1, <1>2, <2>1 DEF TableTyped
  <2>3. CrossedIsSeen' /\ LoadedIsCurrent'
    BY <1>1, <2>1 DEF CrossedIsSeen, LoadedIsCurrent
  <2> QED
    BY <1>3, <2>2, <2>3
<1>5. CASE id \in DOMAIN policies
  <2>1. PICK new \in PolicyEdits : /\ new = [at |-> "commit", op |-> op, id |-> id, body |-> body,
                                             loaded |-> policies[id], crossed |-> On(id) # {}]
                                   /\ new.at = "commit" /\ new.id = id /\ new.loaded = policies[id]
                                   /\ new.crossed = (On(id) # {})
    <3>1. PICK b \in BOOLEAN : b = (On(id) # {})
      OBVIOUS
    <3>2. body \in Bodies /\ policies[id] \in Bodies /\ id \in Nat \ {0}
      BY <1>5 DEF TableTyped
    <3>3. [at |-> "commit", op |-> op, id |-> id, body |-> body, loaded |-> policies[id], crossed |-> b] \in PolicyEdits
      BY <3>2 DEF PolicyEdits
    <3> QED
      BY <3>1, <3>3
  <2>2. BeginsAt(e, new)
    BY <1>5, <2>1 DEF LoadPolicy, BeginsAt
  <2>3. BegunAt(e, new) /\ CrossedIsSeen'
    BY <1>1, <2>2, BeginsAtRow
  <2>4. TableTyped'
    BY <1>1, <1>2, <2>3 DEF TableTyped, BegunAt
  <2>5. LoadedIsCurrent'
    <3> SUFFICES ASSUME NEW d \in Editors, edit'[d] # NoEdit, ~edit'[d].crossed, edit'[d].id \in DOMAIN policies
                 PROVE  policies[edit'[d].id] = IF edit'[d].at = "commit" THEN edit'[d].loaded ELSE edit'[d].body
      BY <1>1 DEF LoadedIsCurrent
    <3>1. CASE d = e
      BY <2>1, <2>3, <3>1 DEF BegunAt
    <3>2. CASE d # e
      <4>1. /\ edit[d] # NoEdit /\ ~edit[d].crossed /\ edit'[d].id = edit[d].id
            /\ edit'[d].at = edit[d].at /\ edit'[d].loaded = edit[d].loaded /\ edit'[d].body = edit[d].body
        BY <2>3, <3>2 DEF BegunAt
      <4> QED
        BY <4>1 DEF LoadedIsCurrent
    <3> QED
      BY <3>1, <3>2
  <2> QED
    BY <1>3, <2>3, <2>4, <2>5
<1> QED
  BY <1>4, <1>5

\* A request that ends leaves the others as they are.
LEMMA ReportedIs ==
    ASSUME TableTyped, CrossedIsSeen, NEW e \in Editors, edit[e] # NoEdit, edit' = [edit EXCEPT ![e] = NoEdit]
    PROVE  /\ edit' \in [Editors -> PolicyEdits \cup {NoEdit}] /\ CrossedIsSeen' /\ edit'[e] = NoEdit
           /\ \A d \in Editors : d # e => edit'[d] = edit[d]
           /\ edit[e] \in PolicyEdits
BY DEF TableTyped, CrossedIsSeen

\* What an uncrossed UPDATE makes of the row is what was asked.
LEMMA WrittenIs ==
    ASSUME NEW d \in PolicyEdits, NEW old \in Bodies, NEW row,
           row = [c \in {"name", "on"} |-> IF c \in WrittenRow(d) THEN d.body[c] ELSE old[c]]
    PROVE  row \in Bodies /\ (d.loaded = old => row = d.body)
<1>1. PICK b \in Bodies, l \in Bodies : d.body = b /\ d.loaded = l
  BY DEF PolicyEdits
<1>2. row = [name |-> row.name, on |-> row.on]
  OBVIOUS
<1>3. row.name = (IF b.name # l.name THEN b.name ELSE old.name) /\ row.on = (IF b.on # l.on THEN b.on ELSE old.on)
  BY <1>1 DEF WrittenRow
<1>4. b.name \in PolicyNames /\ b.on \in BOOLEAN /\ old.name \in PolicyNames /\ old.on \in BOOLEAN
      /\ b = [name |-> b.name, on |-> b.on] /\ old = [name |-> old.name, on |-> old.on]
  BY DEF Bodies
<1>5. row \in Bodies
  BY <1>2, <1>3, <1>4 DEF Bodies
<1>6. d.loaded = old => row = b
  BY <1>1, <1>2, <1>3, <1>4
<1> QED
  BY <1>1, <1>5, <1>6

LEMMA CommitPolicyStep == ASSUME PolicyInv, NEW e \in Editors, CommitPolicy(e) PROVE PolicyInv'
<1> USE PolicyTableAssumption DEF PolicyInv
<1>1. PICK d \in PolicyEdits : d = edit[e] /\ d.at = "commit" /\ d.op = "update" /\ edit[e] # NoEdit
  BY NoEditIs DEF CommitPolicy, TableTyped
<1>2. PICK k \in Nat \ {0}, body \in Bodies : k = d.id /\ body = d.body
  BY DEF PolicyEdits
<1>3. UNCHANGED <<reuses, lastPolicyId, rowEdits, dbErrors>>
  BY DEF CommitPolicy
\* the row is gone: the request fails
<1>4. CASE WrittenRow(d) # {} /\ k \notin DOMAIN policies
  <2>1. Reported(e, 500, {}) /\ UNCHANGED <<policies, askedFor, mixed>>
    BY <1>1, <1>2, <1>4 DEF CommitPolicy
  <2>2. edit' = [edit EXCEPT ![e] = NoEdit]
    BY <2>1 DEF Reported
  <2>3. /\ edit' \in [Editors -> PolicyEdits \cup {NoEdit}] /\ CrossedIsSeen' /\ edit'[e] = NoEdit
        /\ \A f \in Editors : f # e => edit'[f] = edit[f]
    BY <1>1, <2>2, ReportedIs
  <2>4. TableTyped'
    BY <1>3, <2>1, <2>3 DEF TableTyped
  <2>5. LoadedIsCurrent'
    BY <2>1, <2>3 DEF LoadedIsCurrent
  <2>6. AnswersAreRows'
    <3>1. \A a \in replies' : a \in replies \/ a.code = 500
      BY <2>1 DEF Reported
    <3> QED
      BY <2>1, <3>1 DEF AnswersAreRows
  <2> QED
    BY <2>3, <2>4, <2>5, <2>6
<1>5. CASE ~(WrittenRow(d) # {} /\ k \notin DOMAIN policies)
  <2>1. edit' = [edit EXCEPT ![e].at = "refresh"] /\ UNCHANGED replies
    BY <1>1, <1>2, <1>5 DEF CommitPolicy
  <2>2. PICK new \in PolicyEdits : /\ new = [d EXCEPT !.at = "refresh"] /\ new.at = "refresh" /\ new.id = k
                                   /\ new.body = body /\ new.crossed = d.crossed
    <3>1. [d EXCEPT !.at = "refresh"] \in PolicyEdits
      BY DEF PolicyEdits
    <3>2. PICK new \in PolicyEdits : new = [d EXCEPT !.at = "refresh"]
      BY <3>1
    <3>3. new.at = "refresh" /\ new.id = d.id /\ new.body = d.body /\ new.crossed = d.crossed
      BY <3>2 DEF PolicyEdits
    <3> QED
      BY <1>2, <3>2, <3>3
  <2>3. /\ edit' \in [Editors -> PolicyEdits \cup {NoEdit}] /\ edit'[e] = new /\ new # NoEdit
        /\ \A f \in Editors : f # e => edit'[f] = edit[f]
    BY <1>1, <2>1, <2>2, NoEditIs DEF TableTyped
  <2>4. CrossedIsSeen'
    <3> SUFFICES ASSUME NEW f \in Editors, NEW g \in Editors, f # g, edit'[f] # NoEdit, edit'[g] # NoEdit,
                        edit'[f].id = edit'[g].id
                 PROVE  edit'[f].crossed
      BY DEF CrossedIsSeen
    <3>1. \A h \in Editors : edit'[h] # NoEdit =>
              edit[h] # NoEdit /\ edit'[h].id = edit[h].id /\ edit'[h].crossed = edit[h].crossed
      BY <1>1, <1>2, <2>2, <2>3, ZenonT(40)
    <3>2. edit[f] # NoEdit /\ edit[g] # NoEdit /\ edit[f].id = edit[g].id
      BY <3>1
    <3>3. edit[f].crossed
      BY <3>2 DEF CrossedIsSeen
    <3> QED
      BY <3>1, <3>3
  <2>5. CASE k \notin DOMAIN policies
    <3>1. UNCHANGED <<policies, askedFor, mixed>>
      BY <1>1, <1>2, <1>5, <2>5 DEF CommitPolicy
    <3>2. TableTyped'
      BY <1>3, <2>3, <3>1 DEF TableTyped
    <3>3. LoadedIsCurrent'
      BY <2>2, <2>3, <2>5, <3>1 DEF LoadedIsCurrent
    <3>4. AnswersAreRows'
      BY <2>1, <3>1 DEF AnswersAreRows
    <3> QED
      BY <2>4, <3>2, <3>3, <3>4
  <2>6. CASE k \in DOMAIN policies
    <3>1. PICK row \in Bodies : /\ policies' = [policies EXCEPT ![k] = row]
                                /\ d.loaded = policies[k] => row = body
      <4>1. PICK old \in Bodies : old = policies[k]
        BY <2>6 DEF TableTyped
      <4>2. PICK row : row = [c \in {"name", "on"} |-> IF c \in WrittenRow(d) THEN d.body[c] ELSE old[c]]
        OBVIOUS
      <4>3. policies' = [policies EXCEPT ![k] = row]
        BY <1>1, <1>2, <1>5, <2>6, <4>1, <4>2 DEF CommitPolicy, Acknowledged
      <4>4. row \in Bodies /\ (d.loaded = old => row = d.body)
        BY <4>2, WrittenIs
      <4> QED
        BY <1>2, <4>1, <4>3, <4>4
    <3>2. askedFor' = PutRow(askedFor, k, body) /\ mixed' = IF d.crossed THEN mixed \cup {k} ELSE mixed \ {k}
      BY <1>1, <1>2, <1>5, <2>6 DEF CommitPolicy, Acknowledged
    <3>3. /\ DOMAIN policies' = DOMAIN policies /\ policies'[k] = row
          /\ \A x \in DOMAIN policies : x # k => policies'[x] = policies[x]
      BY <2>6, <3>1
    <3>4. /\ DOMAIN askedFor' = DOMAIN policies /\ askedFor'[k] = body
          /\ \A x \in DOMAIN policies : x # k => askedFor'[x] = askedFor[x]
      <4>1. askedFor' = [x \in DOMAIN askedFor \cup {k} |-> IF x = k THEN body ELSE askedFor[x]]
        BY <3>2 DEF PutRow
      <4>2. DOMAIN askedFor = DOMAIN policies
        BY DEF TableTyped
      <4> QED
        BY <2>6, <4>1, <4>2
    <3>5. ~d.crossed => row = body
      BY <1>1, <1>2, <2>6, <3>1 DEF LoadedIsCurrent
    <3>6. TableTyped'
      BY <1>3, <2>3, <3>3, <3>4 DEF TableTyped
    <3>7. LoadedIsCurrent'
      <4> SUFFICES ASSUME NEW f \in Editors, edit'[f] # NoEdit, ~edit'[f].crossed, edit'[f].id \in DOMAIN policies
                   PROVE  policies'[edit'[f].id] = IF edit'[f].at = "commit" THEN edit'[f].loaded ELSE edit'[f].body
        BY <3>3 DEF LoadedIsCurrent
      <4>1. CASE f = e
        BY <2>2, <2>3, <3>3, <3>5, <4>1
      <4>2. CASE f # e
        <5>1. edit'[f] = edit[f]
          BY <2>3, <4>2
        <5>2. edit[f].id # k
          BY <1>1, <1>2, <4>2, <5>1 DEF CrossedIsSeen
        <5> QED
          BY <3>3, <5>1, <5>2 DEF LoadedIsCurrent
      <4> QED
        BY <4>1, <4>2
    <3>8. AnswersAreRows'
      <4>1. \A x \in DOMAIN askedFor' \ mixed' : policies'[x] = askedFor'[x]
        <5> SUFFICES ASSUME NEW x \in DOMAIN policies, x \notin mixed' PROVE policies'[x] = askedFor'[x]
          BY <3>4
        <5>1. CASE x = k
          BY <3>2, <3>3, <3>4, <3>5, <5>1
        <5>2. CASE x # k
          <6>1. x \in DOMAIN askedFor \ mixed
            BY <3>2, <5>2 DEF TableTyped
          <6> QED
            BY <3>3, <3>4, <5>2, <6>1 DEF AnswersAreRows
        <5> QED
          BY <5>1, <5>2
      <4> QED
        BY <2>1, <4>1 DEF AnswersAreRows
    <3> QED
      BY <2>4, <3>6, <3>7, <3>8
  <2> QED
    BY <2>5, <2>6
<1> QED
  BY <1>4, <1>5

\* A request whose answer is given: the row is as it is.
LEMMA EndsStep ==
    ASSUME PolicyInv, NEW e \in Editors, edit[e] # NoEdit, NEW code, NEW row, Reported(e, code, row),
           edit[e].op # "delete" /\ ~edit[e].crossed => code = 500 \/ row = {edit[e].body},
           UNCHANGED <<reuses, policies, lastPolicyId, askedFor, mixed, rowEdits>>, dbErrors' \in 0 .. MaxDbErrors
    PROVE  PolicyInv'
<1> USE PolicyTableAssumption DEF PolicyInv
<1>1. edit' = [edit EXCEPT ![e] = NoEdit]
  BY DEF Reported
<1>2. /\ edit' \in [Editors -> PolicyEdits \cup {NoEdit}] /\ CrossedIsSeen' /\ edit'[e] = NoEdit
      /\ \A d \in Editors : d # e => edit'[d] = edit[d]
  BY <1>1, ReportedIs
<1>3. TableTyped'
  BY <1>2 DEF TableTyped
<1>4. LoadedIsCurrent'
  BY <1>2 DEF LoadedIsCurrent
<1>5. AnswersAreRows'
  <2>1. \A a \in replies' : a \in replies \/ /\ a.op = edit[e].op /\ a.code = code /\ a.asked = edit[e].body
                                             /\ a.row = row /\ a.crossed = edit[e].crossed
    BY DEF Reported
  <2>2. \A a \in replies' : a.op # "delete" /\ ~a.crossed => (a.code = 500 \/ a.row = {a.asked})
    BY <2>1 DEF AnswersAreRows
  <2> QED
    BY <2>2 DEF AnswersAreRows
<1> QED
  BY <1>2, <1>3, <1>4, <1>5

LEMMA RefreshStep == ASSUME PolicyInv, NEW e \in Editors, RefreshPolicy(e) PROVE PolicyInv'
<1> USE PolicyTableAssumption DEF PolicyInv
<1>1. edit[e] # NoEdit /\ edit[e].at = "refresh" /\ dbErrors' \in 0 .. MaxDbErrors
      /\ UNCHANGED <<reuses, policies, lastPolicyId, askedFor, mixed, rowEdits>>
  BY NoEditIs DEF RefreshPolicy, TableTyped
<1>2. CASE edit[e].id \in DOMAIN policies
  <2>1. Reported(e, 200, {policies[edit[e].id]})
    BY <1>2 DEF RefreshPolicy
  <2>2. ~edit[e].crossed => {policies[edit[e].id]} = {edit[e].body}
    BY <1>1, <1>2 DEF LoadedIsCurrent
  <2> QED
    BY <1>1, <2>1, <2>2, EndsStep
<1>3. CASE edit[e].id \notin DOMAIN policies
  <2>1. Reported(e, 500, {})
    BY <1>3 DEF RefreshPolicy
  <2> QED
    BY <1>1, <2>1, EndsStep
<1> QED
  BY <1>2, <1>3

LEMMA CommitFailsStep == ASSUME PolicyInv, NEW e \in Editors, CommitFails(e) PROVE PolicyInv'
<1>1. edit[e] # NoEdit /\ Reported(e, 500, {}) /\ dbErrors' \in 0 .. MaxDbErrors
      /\ UNCHANGED <<reuses, policies, lastPolicyId, askedFor, mixed, rowEdits>>
  BY PolicyTableAssumption, NoEditIs DEF CommitFails, PolicyInv, TableTyped
<1> QED
  BY <1>1, EndsStep

LEMMA DeletePolicyStep == ASSUME PolicyInv, NEW e \in Editors, DeletePolicy(e) PROVE PolicyInv'
<1> USE PolicyTableAssumption DEF PolicyInv
<1>1. PICK d \in PolicyEdits : d = edit[e] /\ d.at = "commit" /\ d.op = "delete" /\ edit[e] # NoEdit
  BY NoEditIs DEF DeletePolicy, TableTyped
<1>2. PICK k \in Nat \ {0} : k = d.id
  BY DEF PolicyEdits
<1>3. /\ policies' = Drop(policies, k) /\ askedFor' = Drop(askedFor, k)
      /\ mixed' = IF d.crossed THEN mixed \cup {k} ELSE mixed \ {k}
      /\ Reported(e, 200, {}) /\ UNCHANGED <<reuses, lastPolicyId, rowEdits, dbErrors>>
  BY <1>1, <1>2 DEF DeletePolicy, Acknowledged
<1>4. edit' = [edit EXCEPT ![e] = NoEdit]
  BY <1>3 DEF Reported
<1>5. /\ edit' \in [Editors -> PolicyEdits \cup {NoEdit}] /\ CrossedIsSeen' /\ edit'[e] = NoEdit
      /\ \A f \in Editors : f # e => edit'[f] = edit[f]
  BY <1>1, <1>4, ReportedIs
<1>6. /\ DOMAIN policies' = DOMAIN policies \ {k} /\ \A x \in DOMAIN policies' : policies'[x] = policies[x]
      /\ DOMAIN askedFor' = DOMAIN askedFor \ {k} /\ \A x \in DOMAIN askedFor' : askedFor'[x] = askedFor[x]
  BY <1>3 DEF Drop
<1>7. TableTyped'
  BY <1>3, <1>5, <1>6 DEF TableTyped
<1>8. LoadedIsCurrent'
  BY <1>5, <1>6 DEF LoadedIsCurrent
<1>9. AnswersAreRows'
  <2>1. \A a \in replies' : a \in replies \/ a.op = "delete"
    BY <1>1, <1>3 DEF Reported
  <2>2. \A x \in DOMAIN askedFor' \ mixed' : policies'[x] = askedFor'[x]
    BY <1>3, <1>6 DEF AnswersAreRows, TableTyped
  <2> QED
    BY <2>1, <2>2 DEF AnswersAreRows
<1> QED
  BY <1>5, <1>7, <1>8, <1>9

LEMMA PolicyStep == PolicyInv /\ [PolicyTableNext]_policyTableVars => PolicyInv'
<1> SUFFICES ASSUME PolicyInv, [PolicyTableNext]_policyTableVars PROVE PolicyInv'
  OBVIOUS
<1>1. ASSUME NEW e \in Editors, NEW body \in Bodies, CreatePolicy(e, body) PROVE PolicyInv'
  BY <1>1, CreateStep
<1>2. ASSUME NEW e \in Editors, NEW body \in Bodies, NEW id \in 1 .. MaxPolicies, LoadPolicy(e, "update", id, body)
      PROVE  PolicyInv'
  BY <1>2, LoadPolicyStep
<1>3. ASSUME NEW e \in Editors, NEW id \in 1 .. MaxPolicies, LoadPolicy(e, "delete", id, CHOOSE body \in Bodies : TRUE)
      PROVE  PolicyInv'
  <2>1. PICK b : b = CHOOSE body \in Bodies : TRUE
    OBVIOUS
  <2>2. b \in Bodies \/ id \notin DOMAIN policies
    BY <2>1 DEF PolicyInv, TableTyped
  <2>3. LoadPolicy(e, "delete", id, b)
    BY <1>3, <2>1
  <2> QED
    BY <2>2, <2>3, LoadPolicyStep
<1>4. ASSUME NEW e \in Editors, CommitPolicy(e) \/ RefreshPolicy(e) \/ DeletePolicy(e) \/ CommitFails(e)
      PROVE  PolicyInv'
  BY <1>4, CommitPolicyStep, RefreshStep, DeletePolicyStep, CommitFailsStep
<1>5. CASE UNCHANGED policyTableVars
  BY <1>5 DEF policyTableVars, PolicyInv, TableTyped, CrossedIsSeen, LoadedIsCurrent, AnswersAreRows
<1> QED
  BY <1>1, <1>2, <1>3, <1>4, <1>5 DEF PolicyTableNext

LEMMA PolicyAlways == PolicyTableSpec => []PolicyInv
BY PolicyInitInv, PolicyStep, PTL DEF PolicyTableSpec

\* Every row of the table of policies is a policy, under an id that was given out, and every
\* thread is somewhere in a request.
THEOREM PoliciesTyped == PolicyTableSpec => []PolicyTableTypeOK
<1>1. PolicyInv => PolicyTableTypeOK
  <2> SUFFICES ASSUME PolicyInv PROVE PolicyTableTypeOK
    OBVIOUS
  <2>1. DOMAIN policies \subseteq 1 .. MaxPolicies
    BY PolicyTableAssumption DEF PolicyInv, TableTyped
  <2>2. \A e \in Editors : edit[e].at \in {"none", "commit", "refresh"}
    <3> SUFFICES ASSUME NEW e \in Editors PROVE edit[e].at \in {"none", "commit", "refresh"}
      OBVIOUS
    <3>1. edit[e] \in PolicyEdits \/ edit[e] = NoEdit
      BY DEF PolicyInv, TableTyped
    <3> QED
      BY <3>1, NoEditIs DEF PolicyEdits
  <2> QED
    BY <2>1, <2>2 DEF PolicyInv, TableTyped, PolicyTableTypeOK
<1> QED
  BY <1>1, PolicyAlways, PTL

\* Unless requests for the row overlapped, a policy is listed as its newest acknowledged request
\* asked, one deleted is not listed, and an answer shows what was asked: for any number of threads,
\* and whether the database gives an id again or not.
THEOREM PoliciesAreAsAsked == PolicyTableSpec => []PoliciesAsAsked
<1>1. PolicyInv => PoliciesAsAsked
  <2> SUFFICES ASSUME PolicyInv PROVE PoliciesAsAsked
    OBVIOUS
  <2>1. \A id \in DOMAIN askedFor \ mixed : policies[id] = askedFor[id]
    BY DEF PolicyInv, AnswersAreRows
  <2>2. ListedAsAsked
    BY <2>1 DEF ListedAsAsked, Listed, PolicyInv, TableTyped
  <2> QED
    BY <2>2 DEF PolicyInv, PoliciesAsAsked
<1> QED
  BY <1>1, PolicyAlways, PTL

-----------------------------------------------------------------------------
(* ContentScanner: what a process enforces is what it has been given since  *)
(* it started, and a scan that has gone over a type has met every rule it   *)
(* owed there whose name is still its own.  In what follows a process has   *)
(* held I and enforces F, and the rows in W have been enabled.              *)

\* What a thread that loads holds; what it has put in is in the tables of its process.
Loading(d, W, I) ==
    /\ d = [at |-> "load", op |-> "scan", content |-> d.content, found |-> d.found, rows |-> d.rows, left |-> d.left]
    /\ d.left \subseteq DOMAIN d.rows
    /\ \A i \in DOMAIN d.rows : d.rows[i] \in W /\ (i \notin d.left => d.rows[i] \in I)

\* A type that is done was searched for every rule owed whose name is still its own.
Searched(d, I) ==
    \A x \in Owed(d.owed, I) : \A i \in DOMAIN PatternTypes :
        i < d.type /\ x.type = PatternTypes[i] /\ d.content \in x.regex.hits => d.found

\* What a thread that goes over the types holds.
UnderWay(d, I) ==
    /\ d = [at |-> d.at, op |-> d.op, content |-> d.content, found |-> d.found, type |-> d.type,
            owed |-> d.owed, size |-> d.size, seen |-> d.seen]
    /\ d.found \in BOOLEAN /\ d.type \in Nat \ {0}
    /\ d.at = "inside" => d.type \in DOMAIN PatternTypes
    /\ d.owed \subseteq I /\ d.seen \subseteq I

\* A dictionary changes its size under a scan only when another thread loads a row.
Crowded(W) == W # {} /\ Cardinality(Scanners) > 1
Sized(d, W, F) == d.at = "inside" => Cardinality(DOMAIN F[PatternTypes[d.type]]) = d.size \/ Crowded(W)

Thread(d, W, I, F) ==
    /\ d.at \in {"idle", "load", "between", "inside"}
    /\ d.at = "idle" => d = NotScanning
    /\ d.at = "load" => Loading(d, W, I)
    /\ d.at \in {"between", "inside"} => UnderWay(d, I) /\ Searched(d, I) /\ Sized(d, W, F)

ThreadsHold ==
    /\ scan = [s \in Scanners |-> scan[s]]
    /\ \A s \in Scanners : Thread(scan[s], wasEnabled, inserted[ProcessFor[s]], inForce[ProcessFor[s]])

\* What is in force has been put there, and a name that has been put there stays.
Tables(F, I) ==
    /\ F = [t \in Checked |-> F[t]]
    /\ \A t \in Checked : \A n \in DOMAIN F[t] : [type |-> t, name |-> n, regex |-> F[t][n]] \in I
    /\ \A x \in I : x.type \in Checked => x.name \in DOMAIN F[x.type]

ProcessesHold ==
    /\ inForce = [p \in WebProcesses |-> inForce[p]]
    /\ inserted = [p \in WebProcesses |-> inserted[p]]
    /\ learned = [p \in WebProcesses |-> learned[p]]
    /\ \A p \in WebProcesses :
          /\ Tables(inForce[p], inserted[p])
          /\ learned[p] \subseteq inserted[p] /\ inserted[p] \subseteq BuiltinRules \cup wasEnabled

TableRows == [rule : PatternRows, on : BOOLEAN]

RowsHold ==
    /\ table \in Seq(TableRows) /\ Len(table) <= MaxRows
    /\ \A i \in DOMAIN table : table[i].on => table[i].rule \in wasEnabled
    /\ wasEnabled \subseteq PatternRows

\* What is true of an outcome.
Justified(v, W) ==
    /\ v.outcome \in {"passed", "denied", "500"} /\ v.why \in {"none", "pattern", "odd", "resized", "broken"}
    /\ v.outcome = "passed" => ~v.owed
    /\ v.foreign = {}
    /\ v.why = "broken" => \E r \in W : ~r.regex.good
    /\ v.why = "resized" => Crowded(W)

VerdictsHold == \A v \in verdicts : Justified(v, wasEnabled)

ScanCounts == tableEdits \in 0 .. MaxTableEdits /\ scans \in 0 .. MaxScans /\ reboots \in 0 .. MaxReboots

\* A verdict rests on what the thread holds, this on the tables of its process, and these on the rows.
ScannerInv == ThreadsHold /\ ProcessesHold /\ RowsHold /\ VerdictsHold /\ ScanCounts

-----------------------------------------------------------------------------
LEMMA BuiltinIs == \A x \in BuiltinRules : /\ x.type \in Checked /\ x.regex.good
                                           /\ x = [type |-> x.type, name |-> x.name, regex |-> x.regex]
BY ScannerAssumption DEF BuiltinRules

LEMMA FreshHolds == Tables(Fresh, BuiltinRules)
BY DEF Tables, Fresh, BuiltinRules

LEMMA OwedShrinks ==
    ASSUME NEW K, NEW I, NEW J, I \subseteq J  PROVE Owed(K, J) \subseteq Owed(K, I)
BY DEF Owed

\* A thread holds what it held while what its process has held and the enabled rows only grow.
LEMMA ThreadKept ==
    ASSUME NEW d, NEW W, NEW V, NEW I, NEW J, NEW F, NEW G, Thread(d, W, I, F), W \subseteq V, I \subseteq J,
           Crowded(V) \/ \A t \in Checked : DOMAIN G[t] = DOMAIN F[t]
    PROVE  Thread(d, V, J, G)
<1>1. Crowded(W) => Crowded(V)
  BY DEF Crowded
<1>2. d.at = "load" => Loading(d, V, J)
  BY DEF Thread, Loading
<1>3. ASSUME d.at \in {"between", "inside"}  PROVE UnderWay(d, J) /\ Searched(d, J) /\ Sized(d, V, G)
  <2>1. UnderWay(d, I) /\ Searched(d, I) /\ Sized(d, W, F)
    BY <1>3 DEF Thread
  <2>2. UnderWay(d, J)
    BY <2>1 DEF UnderWay
  <2>3. Searched(d, J)
    BY <2>1, OwedShrinks DEF Searched
  <2>4. d.at = "inside" => PatternTypes[d.type] \in Checked
    BY <2>1 DEF UnderWay, Checked
  <2>5. Sized(d, V, G)
    BY <2>1, <2>4, <1>1 DEF Sized
  <2>6. QED  BY <2>2, <2>3, <2>5
<1>4. QED  BY <1>2, <1>3 DEF Thread

LEMMA JustifiedKept ==
    ASSUME NEW v, NEW W, NEW V, W \subseteq V, Justified(v, W)  PROVE Justified(v, V)
BY DEF Justified, Crowded

LEMMA ScannerInitInv == ScannerInit => ScannerInv
<1> SUFFICES ASSUME ScannerInit PROVE ScannerInv
  OBVIOUS
<1>1. ThreadsHold
  BY DEF ScannerInit, ThreadsHold, Thread, NotScanning
<1>2. ProcessesHold
  BY FreshHolds DEF ScannerInit, ProcessesHold
<1>3. RowsHold
  BY ScannerAssumption DEF ScannerInit, RowsHold
<1>4. VerdictsHold /\ ScanCounts
  BY ScannerAssumption DEF ScannerInit, VerdictsHold, ScanCounts
<1>5. QED  BY <1>1, <1>2, <1>3, <1>4 DEF ScannerInv

\* A change of the table of rows leaves the threads and the processes as they are.
LEMMA TableChanges ==
    ASSUME ScannerInv, UNCHANGED <<inForce, scan, inserted, learned, verdicts>>, wasEnabled \subseteq wasEnabled'
    PROVE  ThreadsHold' /\ ProcessesHold' /\ VerdictsHold'
<1>1. ThreadsHold'
  <2> SUFFICES ASSUME NEW s \in Scanners
               PROVE  Thread(scan'[s], wasEnabled', inserted'[ProcessFor[s]], inForce'[ProcessFor[s]])
    BY DEF ScannerInv, ThreadsHold
  <2>1. Thread(scan[s], wasEnabled, inserted[ProcessFor[s]], inForce[ProcessFor[s]])
    BY DEF ScannerInv, ThreadsHold
  <2>2. Thread(scan[s], wasEnabled', inserted[ProcessFor[s]], inForce[ProcessFor[s]])
    BY <2>1, ThreadKept
  <2>3. QED  BY <2>2
<1>2. ProcessesHold'
  BY DEF ScannerInv, ProcessesHold
<1>3. VerdictsHold'
  BY JustifiedKept DEF ScannerInv, VerdictsHold
<1>4. QED  BY <1>1, <1>2, <1>3

LEMMA AddRowStep == ASSUME ScannerInv, NEW row \in PatternRows, NEW on \in BOOLEAN, AddRow(row, on) PROVE ScannerInv'
<1> DEFINE r == [rule |-> row, on |-> on]
<1>1. r \in TableRows /\ r.rule = row /\ r.on = on
  BY DEF TableRows
<1>2. table \in Seq(TableRows) /\ Len(table) < MaxRows /\ table' = Append(table, r)
  BY DEF ScannerInv, RowsHold, AddRow
<1>3. /\ table' \in Seq(TableRows) /\ Len(table') = Len(table) + 1 /\ table'[Len(table) + 1] = r
      /\ \A i \in 1 .. Len(table) : table'[i] = table[i]
  <2> HIDE DEF r
  <2> QED  BY <1>1, <1>2, AppendProperties
<1>4. wasEnabled \subseteq wasEnabled' /\ wasEnabled' \subseteq PatternRows /\ (on => row \in wasEnabled')
  BY DEF ScannerInv, RowsHold, AddRow
<1>5. RowsHold'
  <2>1. Len(table') <= MaxRows
    BY <1>2, <1>3, ScannerAssumption
  <2>2. ASSUME NEW i \in DOMAIN table', table'[i].on  PROVE table'[i].rule \in wasEnabled'
    <3>1. CASE i = Len(table) + 1
      BY <3>1, <2>2, <1>1, <1>3, <1>4
    <3>2. CASE i \in 1 .. Len(table)
      <4>1. table[i].on => table[i].rule \in wasEnabled
        BY <3>2, <1>2 DEF ScannerInv, RowsHold
      <4>2. QED  BY <4>1, <3>2, <2>2, <1>3, <1>4
    <3>3. QED  BY <3>1, <3>2, <1>2, <1>3, <2>2
  <2>3. QED  BY <2>1, <2>2, <1>3, <1>4 DEF RowsHold
<1>6. ScanCounts'
  BY ScannerAssumption DEF ScannerInv, ScanCounts, AddRow
<1>7. ThreadsHold' /\ ProcessesHold' /\ VerdictsHold'
  BY <1>4, TableChanges DEF AddRow
<1>8. QED  BY <1>5, <1>6, <1>7 DEF ScannerInv

LEMMA SwitchRowStep == ASSUME ScannerInv, NEW i \in DOMAIN table, SwitchRow(i) PROVE ScannerInv'
<1>1. table \in Seq(TableRows) /\ table[i] \in TableRows /\ table' = [table EXCEPT ![i].on = ~@]
  BY ElementOfSeq DEF ScannerInv, RowsHold, SwitchRow
<1>2. table[i].rule \in PatternRows /\ table[i].on \in BOOLEAN
  BY <1>1 DEF TableRows
<1>3. PICK r : r = [table[i] EXCEPT !.on = ~@]
  OBVIOUS
<1>4. r \in TableRows /\ r.rule = table[i].rule
  BY <1>1, <1>3 DEF TableRows
<1>5. table' = [table EXCEPT ![i] = r]
  BY <1>1, <1>3
<1>6. table' \in Seq(TableRows) /\ Len(table') = Len(table) /\ DOMAIN table' = DOMAIN table
      /\ \A j \in DOMAIN table : table'[j] = IF j = i THEN r ELSE table[j]
  BY <1>1, <1>4, <1>5, ExceptSeq
<1>7. wasEnabled' = wasEnabled \cup {table[i].rule}
  BY DEF SwitchRow
<1>8. RowsHold'
  BY <1>2, <1>4, <1>6, <1>7 DEF ScannerInv, RowsHold
<1>9. ScanCounts'
  BY ScannerAssumption DEF ScannerInv, ScanCounts, SwitchRow
<1>10. ThreadsHold' /\ ProcessesHold' /\ VerdictsHold'
  BY <1>7, TableChanges DEF SwitchRow
<1>11. QED  BY <1>8, <1>9, <1>10 DEF ScannerInv

\* A thread takes d up while the tables and what has been held and enabled stay.
LEMMA ThreadMoves ==
    ASSUME ScannerInv, UNCHANGED <<inForce, inserted, wasEnabled>>, NEW s \in Scanners, NEW d,
           scan' = [scan EXCEPT ![s] = d],
           Thread(d, wasEnabled, inserted[ProcessFor[s]], inForce[ProcessFor[s]])
    PROVE  ThreadsHold'
BY DEF ScannerInv, ThreadsHold

LEMMA GoingHolds ==
    ASSUME NEW d, NEW K, NEW W, NEW I, NEW F, K \subseteq I  PROVE Thread(Going(d, K), W, I, F)
<1>0. PICK g : g = Going(d, K)
  OBVIOUS
<1>1. g.at = "between" /\ g.type = 1 /\ g.found \in BOOLEAN /\ g.owed = K /\ g.seen = {}
      /\ g = [at |-> g.at, op |-> g.op, content |-> g.content, found |-> g.found, type |-> g.type,
              owed |-> g.owed, size |-> g.size, seen |-> g.seen]
  BY <1>0 DEF Going
<1>2. \A i \in DOMAIN PatternTypes : ~(i < 1)
  BY ScannerAssumption
<1>3. UnderWay(g, I)
  BY <1>1 DEF UnderWay
<1>6. Sized(g, W, F)
  BY <1>1 DEF Sized
<1>4. Searched(g, I)
  BY <1>1, <1>2 DEF Searched
<1>5. QED  BY <1>0, <1>1, <1>3, <1>4, <1>6 DEF Thread

LEMMA ScanRequestStep ==
    ASSUME ScannerInv, NEW s \in Scanners, NEW content \in Contents, ScanRequest(s, content)  PROVE ScannerInv'
<1>1. PICK d : d = [at |-> "load", op |-> "scan", content |-> content, found |-> FALSE,
                    rows |-> [i \in EnabledRows |-> table[i].rule], left |-> EnabledRows]
  OBVIOUS
<1>2. scan' = [scan EXCEPT ![s] = d]
  BY <1>1 DEF ScanRequest
<1>3. \A i \in EnabledRows : table[i].rule \in wasEnabled
  BY DEF ScannerInv, RowsHold, EnabledRows
<1>4. /\ d.at = "load" /\ d.left = EnabledRows /\ DOMAIN d.rows = EnabledRows
      /\ \A i \in EnabledRows : d.rows[i] = table[i].rule
      /\ d = [at |-> "load", op |-> "scan", content |-> d.content, found |-> d.found, rows |-> d.rows, left |-> d.left]
  BY <1>1
<1>5. Thread(d, wasEnabled, inserted[ProcessFor[s]], inForce[ProcessFor[s]])
  BY <1>3, <1>4 DEF Thread, Loading
<1>6. ThreadsHold'
  BY <1>2, <1>5, ThreadMoves DEF ScanRequest
<1>7. ProcessesHold' /\ RowsHold' /\ VerdictsHold'
  BY DEF ScanRequest, ScannerInv, ProcessesHold, RowsHold, VerdictsHold
<1>8. ScanCounts'
  BY ScannerAssumption DEF ScannerInv, ScanCounts, ScanRequest
<1>9. QED  BY <1>6, <1>7, <1>8 DEF ScannerInv

LEMMA EvaluateTextStep ==
    ASSUME ScannerInv, NEW s \in Scanners, NEW content \in Contents, EvaluateText(s, content)  PROVE ScannerInv'
<1>1. PICK d : d = Going([op |-> "evaluate", content |-> content], learned[ProcessFor[s]])
  OBVIOUS
<1>2. scan' = [scan EXCEPT ![s] = d]
  BY <1>1 DEF EvaluateText
<1>3. learned[ProcessFor[s]] \subseteq inserted[ProcessFor[s]]
  BY ScannerAssumption DEF ScannerInv, ProcessesHold
<1>4. Thread(d, wasEnabled, inserted[ProcessFor[s]], inForce[ProcessFor[s]])
  BY <1>1, <1>3, GoingHolds
<1>5. ThreadsHold'
  BY <1>2, <1>4, ThreadMoves DEF EvaluateText
<1>6. ProcessesHold' /\ RowsHold' /\ VerdictsHold'
  BY DEF EvaluateText, ScannerInv, ProcessesHold, RowsHold, VerdictsHold
<1>7. ScanCounts'
  BY ScannerAssumption DEF ScannerInv, ScanCounts, EvaluateText
<1>8. QED  BY <1>5, <1>6, <1>7 DEF ScannerInv

\* A process puts an enabled row in its tables.
LEMMA PutInForceIs ==
    ASSUME ScannerInv, NEW p \in WebProcesses, NEW rule \in PatternRows, PutInForce(p, rule)
    PROVE  /\ inForce' = [q \in WebProcesses |-> inForce'[q]]
           /\ \A q \in WebProcesses \ {p} : inForce'[q] = inForce[q]
           /\ Tables(inForce'[p], inserted[p] \cup {rule})
<1>1. Tables(inForce[p], inserted[p]) /\ inForce = [q \in WebProcesses |-> inForce[q]]
  BY DEF ScannerInv, ProcessesHold
<1>2. rule = [type |-> rule.type, name |-> rule.name, regex |-> rule.regex]
  BY ScannerAssumption
<1>3. CASE rule.type \notin Checked
  BY <1>1, <1>3 DEF PutInForce, Tables
<1>4. CASE rule.type \in Checked
  <2>1. PICK F : F = inForce[p]
    OBVIOUS
  <2>2. PICK G : G = [n \in DOMAIN F[rule.type] \cup {rule.name} |->
                          IF n = rule.name THEN rule.regex ELSE F[rule.type][n]]
    OBVIOUS
  <2>3. inForce' = [inForce EXCEPT ![p] = [F EXCEPT ![rule.type] = G]]
    BY <1>4, <2>1, <2>2 DEF PutInForce
  <2>4. PICK H : H = [F EXCEPT ![rule.type] = G]
    OBVIOUS
  <2>5. Tables(F, inserted[p]) /\ F = [t \in Checked |-> F[t]]
    BY <1>1, <2>1 DEF Tables
  <2>6. H = [t \in Checked |-> H[t]] /\ H[rule.type] = G /\ \A t \in Checked : t # rule.type => H[t] = F[t]
    BY <2>4, <2>5, <1>4
  <2>7. DOMAIN G = DOMAIN F[rule.type] \cup {rule.name} /\ G[rule.name] = rule.regex
        /\ \A n \in DOMAIN F[rule.type] : n # rule.name => G[n] = F[rule.type][n]
    BY <2>2
  <2>8. ASSUME NEW t \in Checked, NEW n \in DOMAIN H[t]
        PROVE  [type |-> t, name |-> n, regex |-> H[t][n]] \in inserted[p] \cup {rule}
    <3>1. CASE t # rule.type
      BY <3>1, <2>5, <2>6 DEF Tables
    <3>2. CASE t = rule.type /\ n = rule.name
      BY <3>2, <2>6, <2>7, <1>2
    <3>3. CASE t = rule.type /\ n # rule.name
      BY <3>3, <2>5, <2>6, <2>7 DEF Tables
    <3>4. QED  BY <3>1, <3>2, <3>3
  <2>9. ASSUME NEW x \in inserted[p] \cup {rule}, x.type \in Checked  PROVE x.name \in DOMAIN H[x.type]
    BY <2>9, <2>5, <2>6, <2>7 DEF Tables
  <2>10. Tables(H, inserted[p] \cup {rule})
    BY <2>6, <2>8, <2>9 DEF Tables
  <2>11. QED  BY <2>3, <2>4, <2>10, <1>1
<1>5. QED  BY <1>3, <1>4

\* Two threads make a crowd.
LEMMA TwoAreACrowd ==
    ASSUME NEW s \in Scanners, NEW q \in Scanners, s # q, NEW W, W # {}  PROVE Crowded(W)
<1>1. IsFiniteSet({s, q}) /\ Cardinality({s, q}) = 2
  <2>1. PICK Q : Q = {q}
    OBVIOUS
  <2>2. IsFiniteSet(Q) /\ Cardinality(Q) = 1
    BY <2>1, FS_Singleton
  <2>3. s \notin Q /\ Q \cup {s} = {s, q}
    BY <2>1
  <2>4. IsFiniteSet(Q \cup {s}) /\ Cardinality(Q \cup {s}) = Cardinality(Q) + 1
    BY <2>2, <2>3, FS_AddElement
  <2>5. QED  BY <2>2, <2>3, <2>4
<1>2. {s, q} \subseteq Scanners /\ IsFiniteSet(Scanners)
  BY ScannerAssumption
<1>3. Cardinality({s, q}) <= Cardinality(Scanners) /\ Cardinality(Scanners) \in Nat
  BY <1>2, FS_Subset, FS_CardinalityType
<1>4. QED  BY <1>1, <1>3 DEF Crowded

LEMMA LoadRowStep ==
    ASSUME ScannerInv, NEW s \in Scanners, scan[s].at = "load", NEW i \in scan[s].left, LoadRow(s, i)
    PROVE  ScannerInv'
<1>1. PICK d, p, rule : d = scan[s] /\ p = ProcessFor[s] /\ rule = scan[s].rows[i]
  OBVIOUS
<1>2. PICK I, J : I = inserted[p] /\ J = inserted[p] \cup {rule}
  OBVIOUS
<1>3. p \in WebProcesses
  BY <1>1, ScannerAssumption
<1>4. Loading(d, wasEnabled, I) /\ i \in d.left /\ i \in DOMAIN d.rows /\ rule = d.rows[i] /\ d.at = "load"
  BY <1>1, <1>2 DEF ScannerInv, ThreadsHold, Thread, Loading
<1>5. rule \in wasEnabled /\ rule \in PatternRows
  BY <1>4 DEF Loading, ScannerInv, RowsHold
<1>6. /\ PutInForce(p, rule) /\ inserted' = [inserted EXCEPT ![p] = @ \cup {rule}]
      /\ scan' = [scan EXCEPT ![s] = [d EXCEPT !.left = @ \ {i}]]
      /\ UNCHANGED <<table, learned, wasEnabled, verdicts, tableEdits, scans, reboots>>
  BY <1>1 DEF LoadRow
<1>7. /\ inForce' = [q \in WebProcesses |-> inForce'[q]]
      /\ \A q \in WebProcesses \ {p} : inForce'[q] = inForce[q]
      /\ Tables(inForce'[p], J)
  BY <1>2, <1>3, <1>5, <1>6, PutInForceIs
<1>8. inserted' = [q \in WebProcesses |-> inserted'[q]] /\ inserted'[p] = J
      /\ \A q \in WebProcesses \ {p} : inserted'[q] = inserted[q]
  BY <1>2, <1>3, <1>6 DEF ScannerInv, ProcessesHold
<1>9. PICK e : e = [d EXCEPT !.left = @ \ {i}]
  OBVIOUS
<1>10. Loading(e, wasEnabled, J) /\ e.at = "load"
  <2>1. /\ e.left = d.left \ {i} /\ e.rows = d.rows /\ e.at = "load"
        /\ e = [at |-> "load", op |-> "scan", content |-> e.content, found |-> e.found, rows |-> e.rows, left |-> e.left]
    <3>1. d = [at |-> "load", op |-> "scan", content |-> d.content, found |-> d.found, rows |-> d.rows, left |-> d.left]
      BY <1>4 DEF Loading
    <3>2. PICK l : l = d.left \ {i}
      OBVIOUS
    <3>3. e = [at |-> "load", op |-> "scan", content |-> d.content, found |-> d.found, rows |-> d.rows, left |-> l]
      BY <3>1, <3>2, <1>9
    <3>4. QED  BY <3>2, <3>3
  <2>2. QED  BY <2>1, <1>2, <1>4 DEF Loading
<1>11. ThreadsHold'
  <2> SUFFICES ASSUME NEW q \in Scanners
               PROVE  Thread(scan'[q], wasEnabled', inserted'[ProcessFor[q]], inForce'[ProcessFor[q]])
    BY <1>6 DEF ScannerInv, ThreadsHold
  <2>1. ProcessFor[q] \in WebProcesses
    BY ScannerAssumption
  <2>2. CASE q = s
    <3>1. scan'[q] = e
      BY <2>2, <1>6, <1>9 DEF ScannerInv, ThreadsHold
    <3>2. Thread(e, wasEnabled, J, inForce'[p])
      BY <1>10 DEF Thread
    <3>3. QED  BY <3>1, <3>2, <2>2, <1>1, <1>6, <1>8
  <2>3. CASE q # s
    <3>1. scan'[q] = scan[q] /\ Thread(scan[q], wasEnabled, inserted[ProcessFor[q]], inForce[ProcessFor[q]])
      BY <2>3, <1>6 DEF ScannerInv, ThreadsHold
    <3>2. Crowded(wasEnabled)
      BY <2>3, <1>5, TwoAreACrowd
    <3>3. inserted[ProcessFor[q]] \subseteq inserted'[ProcessFor[q]]
      BY <2>1, <1>2, <1>8
    <3>4. Thread(scan[q], wasEnabled, inserted'[ProcessFor[q]], inForce'[ProcessFor[q]])
      BY <3>1, <3>2, <3>3, ThreadKept
    <3>5. QED  BY <3>1, <3>4, <1>6
  <2>4. QED  BY <2>2, <2>3
<1>12. ProcessesHold'
  <2>1. learned' = [q \in WebProcesses |-> learned'[q]]
    BY <1>6 DEF ScannerInv, ProcessesHold
  <2>2. ASSUME NEW q \in WebProcesses
        PROVE  /\ Tables(inForce'[q], inserted'[q])
               /\ learned'[q] \subseteq inserted'[q] /\ inserted'[q] \subseteq BuiltinRules \cup wasEnabled'
    <3>1. /\ Tables(inForce[q], inserted[q]) /\ learned[q] \subseteq inserted[q]
          /\ inserted[q] \subseteq BuiltinRules \cup wasEnabled
      BY DEF ScannerInv, ProcessesHold
    <3>2. CASE q = p
      BY <3>1, <3>2, <1>2, <1>5, <1>6, <1>7, <1>8
    <3>3. CASE q # p
      BY <3>1, <3>3, <1>6, <1>7, <1>8
    <3>4. QED  BY <3>2, <3>3
  <2>3. BuiltinRules' = BuiltinRules
    BY DEF BuiltinRules
  <2>4. QED  BY <2>1, <2>2, <1>7, <1>8 DEF ProcessesHold
<1>13. RowsHold' /\ VerdictsHold' /\ ScanCounts'
  BY <1>6 DEF ScannerInv, RowsHold, VerdictsHold, ScanCounts
<1>14. QED  BY <1>11, <1>12, <1>13 DEF ScannerInv

LEMMA LoadEndsStep == ASSUME ScannerInv, NEW s \in Scanners, LoadEnds(s) PROVE ScannerInv'
<1>1. PICK p, K : p = ProcessFor[s] /\ K = learned[p] \cup {scan[s].rows[i] : i \in DOMAIN scan[s].rows}
  OBVIOUS
<1>2. p \in WebProcesses
  BY <1>1, ScannerAssumption
<1>3. PICK e : e = Going(scan[s], K)
  OBVIOUS
<1>4. /\ scan[s].at = "load" /\ scan[s].left = {} /\ learned' = [learned EXCEPT ![p] = K]
      /\ scan' = [scan EXCEPT ![s] = e]
      /\ UNCHANGED <<table, inForce, inserted, wasEnabled, verdicts, tableEdits, scans, reboots>>
  BY <1>1, <1>3 DEF LoadEnds
<1>5. K \subseteq inserted[p]
  <2>1. Loading(scan[s], wasEnabled, inserted[p])
    BY <1>1, <1>4 DEF ScannerInv, ThreadsHold, Thread
  <2>2. \A i \in DOMAIN scan[s].rows : scan[s].rows[i] \in inserted[p]
    BY <2>1, <1>4 DEF Loading
  <2>3. learned[p] \subseteq inserted[p]
    BY <1>2 DEF ScannerInv, ProcessesHold
  <2>4. QED  BY <2>2, <2>3, <1>1
<1>6. Thread(e, wasEnabled, inserted[ProcessFor[s]], inForce[ProcessFor[s]])
  BY <1>1, <1>3, <1>5, GoingHolds
<1>7. ThreadsHold'
  BY <1>4, <1>6, ThreadMoves
<1>8. ProcessesHold'
  <2>1. learned' = [q \in WebProcesses |-> learned'[q]] /\ \A q \in WebProcesses : learned'[q] \subseteq inserted[q]
    BY <1>2, <1>4, <1>5 DEF ScannerInv, ProcessesHold
  <2>2. QED  BY <2>1, <1>4 DEF ScannerInv, ProcessesHold
<1>9. RowsHold' /\ VerdictsHold' /\ ScanCounts'
  BY <1>4 DEF ScannerInv, RowsHold, VerdictsHold, ScanCounts
<1>10. QED  BY <1>7, <1>8, <1>9 DEF ScannerInv

\* A thread of the process p goes over the types and ends with an outcome that is justified.
LEMMA VerdictIs ==
    ASSUME ScannerInv, NEW s \in Scanners, NEW outcome, NEW why, Verdict(s, outcome, why),
           UNCHANGED <<table, inForce, inserted, learned, wasEnabled>>,
           scan[s].at \in {"between", "inside"},
           outcome \in {"passed", "denied", "500"}, why \in {"none", "pattern", "odd", "resized", "broken"},
           outcome = "passed" => ~scan[s].found /\ \A i \in DOMAIN PatternTypes : i < scan[s].type,
           why = "broken" => \E r \in wasEnabled : ~r.regex.good,
           why = "resized" => Crowded(wasEnabled)
    PROVE  ThreadsHold' /\ ProcessesHold' /\ RowsHold' /\ VerdictsHold'
<1>1. PICK d, p, I : d = scan[s] /\ p = ProcessFor[s] /\ I = inserted[p]
  OBVIOUS
<1>2. p \in WebProcesses /\ I \subseteq BuiltinRules \cup wasEnabled
  BY <1>1, ScannerAssumption DEF ScannerInv, ProcessesHold
<1>3. UnderWay(d, I) /\ Searched(d, I)
  BY <1>1 DEF ScannerInv, ThreadsHold, Thread
<1>4. PICK owed : owed = (\E x \in Owed(d.owed, I) : x.type \in Checked /\ d.content \in x.regex.hits)
  OBVIOUS
<1>5. PICK foreign : foreign = {x \in d.seen : d.content \in x.regex.hits} \ (BuiltinRules \cup wasEnabled)
  OBVIOUS
<1>6. PICK v : v = [op |-> d.op, outcome |-> outcome, why |-> why, owed |-> owed, foreign |-> foreign]
  OBVIOUS
<1>7. verdicts' = verdicts \cup {v} /\ scan' = [scan EXCEPT ![s] = NotScanning]
  BY <1>1, <1>4, <1>5, <1>6 DEF Verdict
<1>8. foreign = {}
  BY <1>2, <1>3, <1>5 DEF UnderWay
<1>9. ASSUME outcome = "passed"  PROVE ~owed
  <2>1. ASSUME NEW x \in Owed(d.owed, I), x.type \in Checked, d.content \in x.regex.hits  PROVE FALSE
    <3>1. PICK i \in DOMAIN PatternTypes : x.type = PatternTypes[i]
      BY <2>1 DEF Checked
    <3>2. i < d.type /\ ~d.found
      BY <1>1, <1>9
    <3>3. QED  BY <3>1, <3>2, <2>1, <1>3 DEF Searched
  <2>2. QED  BY <2>1, <1>4
<1>10. Justified(v, wasEnabled)
  <2>1. v.outcome = outcome /\ v.why = why /\ v.foreign = foreign /\ v.owed = owed
    BY <1>6
  <2>2. QED  BY <2>1, <1>8, <1>9 DEF Justified
<1>11. Thread(NotScanning, wasEnabled, inserted[ProcessFor[s]], inForce[ProcessFor[s]])
  BY DEF Thread, NotScanning
<1>12. ThreadsHold'
  BY <1>7, <1>11, ThreadMoves
<1>13. VerdictsHold'
  BY <1>7, <1>10 DEF ScannerInv, VerdictsHold
<1>14. ProcessesHold' /\ RowsHold'
  BY DEF ScannerInv, ProcessesHold, RowsHold
<1>15. QED  BY <1>12, <1>13, <1>14

LEMMA RaisedIs ==
    ASSUME ScannerInv, NEW s \in Scanners, NEW why \in {"resized", "broken"}, Raised(s, why),
           UNCHANGED <<table, inForce, inserted, learned, wasEnabled>>, scan[s].at \in {"between", "inside"},
           why = "broken" => \E r \in wasEnabled : ~r.regex.good,
           why = "resized" => Crowded(wasEnabled)
    PROVE  ThreadsHold' /\ ProcessesHold' /\ RowsHold' /\ VerdictsHold'
<1>1. PICK outcome : outcome = IF scan[s].op = "scan" THEN "500" ELSE "denied"
  OBVIOUS
<1>2. Verdict(s, outcome, why) /\ outcome \in {"denied", "500"}
  BY <1>1 DEF Raised
<1>3. QED  BY <1>2, VerdictIs

LEMMA EndScanStep == ASSUME ScannerInv, NEW s \in Scanners, EndScan(s) PROVE ScannerInv'
<1>1. /\ scan[s].at = "between" /\ scan[s].type > Len(PatternTypes)
      /\ UNCHANGED <<table, inForce, inserted, learned, wasEnabled, tableEdits, scans, reboots>>
  BY DEF EndScan
<1>2. scan[s].type \in Nat
  BY <1>1 DEF ScannerInv, ThreadsHold, Thread, UnderWay
<1>3. \A i \in DOMAIN PatternTypes : i < scan[s].type
  BY <1>1, <1>2, ScannerAssumption
<1>4. \/ scan[s].found /\ Verdict(s, "denied", "pattern")
      \/ Verdict(s, "denied", "odd")
      \/ ~scan[s].found /\ Verdict(s, "passed", "none")
  BY DEF EndScan
<1>5. ThreadsHold' /\ ProcessesHold' /\ RowsHold' /\ VerdictsHold'
  <2>1. CASE Verdict(s, "denied", "pattern")
    BY <2>1, <1>1, VerdictIs
  <2>2. CASE Verdict(s, "denied", "odd")
    BY <2>2, <1>1, VerdictIs
  <2>3. CASE ~scan[s].found /\ Verdict(s, "passed", "none")
    BY <2>3, <1>1, <1>3, VerdictIs
  <2>4. QED  BY <1>4, <2>1, <2>2, <2>3
<1>6. ScanCounts'
  BY <1>1 DEF ScannerInv, ScanCounts
<1>7. QED  BY <1>5, <1>6 DEF ScannerInv

LEMMA RulesInserted ==
    ASSUME ScannerInv, NEW p \in WebProcesses, NEW type \in Checked
    PROVE  \A x \in Rules(p, type) : x \in inserted[p] /\ x.type = type
<1>1. Tables(inForce[p], inserted[p])
  BY DEF ScannerInv, ProcessesHold
<1>2. QED  BY <1>1 DEF Rules, Tables

LEMMA BeginTypeStep == ASSUME ScannerInv, NEW s \in Scanners, BeginType(s) PROVE ScannerInv'
<1>1. PICK d, p, I, type : d = scan[s] /\ p = ProcessFor[s] /\ I = inserted[p] /\ type = PatternTypes[d.type]
  OBVIOUS
<1>2. PICK e : e = [d EXCEPT !.at = "inside", !.size = Cardinality(DOMAIN inForce[p][type]),
                             !.seen = @ \cup Rules(p, type)]
  OBVIOUS
<1>3. /\ d.at = "between" /\ d.type <= Len(PatternTypes) /\ scan' = [scan EXCEPT ![s] = e]
      /\ UNCHANGED <<table, inForce, inserted, learned, wasEnabled, verdicts, tableEdits, scans, reboots>>
  BY <1>1, <1>2 DEF BeginType
<1>4. UnderWay(d, I) /\ Searched(d, I)
  BY <1>1, <1>3 DEF ScannerInv, ThreadsHold, Thread
<1>5. /\ e.at = "inside" /\ e.size = Cardinality(DOMAIN inForce[p][type]) /\ e.seen = d.seen \cup Rules(p, type)
      /\ e.type = d.type /\ e.owed = d.owed /\ e.content = d.content /\ e.found = d.found
      /\ e = [at |-> e.at, op |-> e.op, content |-> e.content, found |-> e.found, type |-> e.type,
              owed |-> e.owed, size |-> e.size, seen |-> e.seen]
  BY <1>2, <1>4 DEF UnderWay
<1>6. d.type \in DOMAIN PatternTypes /\ type \in Checked
  <2>1. d.type \in Nat /\ d.type # 0
    BY <1>4 DEF UnderWay
  <2>2. QED  BY <2>1, <1>1, <1>3, ScannerAssumption DEF Checked
<1>7. Rules(p, type) \subseteq I
  BY <1>1, <1>6, RulesInserted, ScannerAssumption
<1>8. UnderWay(e, I)
  BY <1>4, <1>5, <1>6, <1>7 DEF UnderWay
<1>9. Searched(e, I)
  BY <1>4, <1>5 DEF Searched
<1>10. Sized(e, wasEnabled, inForce[p])
  BY <1>1, <1>5 DEF Sized
<1>11. Thread(e, wasEnabled, inserted[ProcessFor[s]], inForce[ProcessFor[s]])
  BY <1>1, <1>5, <1>8, <1>9, <1>10 DEF Thread
<1>12. ThreadsHold'
  BY <1>3, <1>11, ThreadMoves
<1>13. ProcessesHold' /\ RowsHold' /\ VerdictsHold' /\ ScanCounts'
  BY <1>3 DEF ScannerInv, ProcessesHold, RowsHold, VerdictsHold, ScanCounts
<1>14. QED  BY <1>12, <1>13 DEF ScannerInv

\* The rules a thread may have used for a type that it ends: before are those it met when it began.
LEMMA UsedIs ==
    ASSUME ScannerInv, NEW s \in Scanners, scan[s].at = "inside",
           NEW before, before = {x \in scan[s].seen : x.type = PatternTypes[scan[s].type]},
           NEW used, used \subseteq before \cup Rules(ProcessFor[s], PatternTypes[scan[s].type])
    PROVE  \A x \in used : x \in inserted[ProcessFor[s]] /\ x.type = PatternTypes[scan[s].type]
<1>1. UnderWay(scan[s], inserted[ProcessFor[s]])
  BY DEF ScannerInv, ThreadsHold, Thread
<1>2. PatternTypes[scan[s].type] \in Checked
  BY <1>1 DEF UnderWay, Checked
<1>3. ProcessFor[s] \in WebProcesses
  BY ScannerAssumption
<1>4. \A x \in Rules(ProcessFor[s], PatternTypes[scan[s].type]) :
          x \in inserted[ProcessFor[s]] /\ x.type = PatternTypes[scan[s].type]
  BY <1>2, <1>3, RulesInserted
<1>5. QED  BY <1>1, <1>4 DEF UnderWay

LEMMA EndTypeStep == ASSUME ScannerInv, NEW s \in Scanners, EndType(s) PROVE ScannerInv'
<1>1. PICK d, p, I, type, F : d = scan[s] /\ p = ProcessFor[s] /\ I = inserted[p] /\ type = PatternTypes[d.type]
                              /\ F = inForce[p]
  OBVIOUS
<1>2. PICK before : before = {x \in d.seen : x.type = type}
  OBVIOUS
<1>3. before = {x \in scan[s].seen : x.type = PatternTypes[scan[s].type]}
  BY <1>1, <1>2
<1>4. d.at = "inside" /\ UNCHANGED <<table, inForce, inserted, learned, wasEnabled, tableEdits, scans, reboots>>
  BY <1>1 DEF EndType
<1>5. UnderWay(d, I) /\ Searched(d, I) /\ Sized(d, wasEnabled, F)
  BY <1>1, <1>4 DEF ScannerInv, ThreadsHold, Thread
<1>6. p \in WebProcesses /\ type \in Checked /\ Tables(F, I) /\ I \subseteq BuiltinRules \cup wasEnabled
  BY <1>1, <1>4, <1>5, ScannerAssumption DEF UnderWay, Checked, ScannerInv, ProcessesHold
<1>7. ScanCounts'
  BY <1>4 DEF ScannerInv, ScanCounts
<1>8. CASE Cardinality(DOMAIN F[type]) # d.size /\ Raised(s, "resized")
  <2>1. Crowded(wasEnabled)
    BY <1>1, <1>4, <1>5, <1>8 DEF Sized
  <2>2. ThreadsHold' /\ ProcessesHold' /\ RowsHold' /\ VerdictsHold'
    BY <1>1, <1>4, <1>8, <2>1, RaisedIs
  <2>3. QED  BY <2>2, <1>7 DEF ScannerInv
<1>9. ASSUME NEW used \in SUBSET (before \cup Rules(p, type)),
             \A n \in DOMAIN F[type] : \E x \in used : x.name = n,
             IF \E x \in used : ~x.regex.good THEN Raised(s, "broken")
             ELSE /\ scan' = [scan EXCEPT ![s].at = "between", ![s].type = @ + 1,
                                          ![s].seen = (@ \ before) \cup used,
                                          ![s].found = @ \/ \E x \in used : d.content \in x.regex.hits]
                  /\ UNCHANGED verdicts
      PROVE  ScannerInv'
  <2>1. \A x \in used : x \in I /\ x.type = type
    <3>1. used \subseteq before \cup Rules(ProcessFor[s], PatternTypes[scan[s].type]) /\ scan[s].at = "inside"
      BY <1>1, <1>4
    <3>2. \A x \in used : x \in inserted[ProcessFor[s]] /\ x.type = PatternTypes[scan[s].type]
      BY <1>3, <3>1, UsedIs
    <3>3. QED  BY <3>2, <1>1
  <2>2. CASE \E x \in used : ~x.regex.good
    <3>1. \E r \in wasEnabled : ~r.regex.good
      BY <2>1, <2>2, <1>6, BuiltinIs
    <3>2. Raised(s, "broken")
      BY <2>2, <1>9
    <3>3. ThreadsHold' /\ ProcessesHold' /\ RowsHold' /\ VerdictsHold'
      BY <1>1, <1>4, <3>1, <3>2, RaisedIs
    <3>4. QED  BY <3>3, <1>7 DEF ScannerInv
  <2>3. CASE ~\E x \in used : ~x.regex.good
    <3>1. PICK hit : hit = (\E x \in used : d.content \in x.regex.hits)
      OBVIOUS
    <3>2. PICK e : e = [d EXCEPT !.at = "between", !.type = @ + 1, !.seen = (@ \ before) \cup used,
                                 !.found = @ \/ hit]
      OBVIOUS
    <3>3. scan' = [scan EXCEPT ![s] = e] /\ UNCHANGED verdicts
      BY <1>1, <1>9, <2>3, <3>1, <3>2, ZenonT(40)
    <3>4. /\ e.at = "between" /\ e.type = d.type + 1 /\ e.seen = (d.seen \ before) \cup used
          /\ e.found = (d.found \/ hit) /\ e.owed = d.owed /\ e.content = d.content
          /\ e = [at |-> e.at, op |-> e.op, content |-> e.content, found |-> e.found, type |-> e.type,
                  owed |-> e.owed, size |-> e.size, seen |-> e.seen]
      BY <1>5, <3>2 DEF UnderWay
    <3>5. e.found \in BOOLEAN
      BY <3>4
    <3>6. UnderWay(e, I)
      BY <1>5, <2>1, <3>4, <3>5 DEF UnderWay
    <3>7. Searched(e, I)
      <4> SUFFICES ASSUME NEW x \in Owed(d.owed, I), NEW i \in DOMAIN PatternTypes, i < d.type + 1,
                          x.type = PatternTypes[i], d.content \in x.regex.hits
                   PROVE  d.found \/ hit
        BY <3>4 DEF Searched
      <4>1. CASE i < d.type
        BY <4>1, <1>5 DEF Searched
      <4>2. CASE i = d.type
        <5>1. x \in I /\ x.type = type /\ \A y \in I : y.type = x.type /\ y.name = x.name => y = x
          BY <4>2, <1>1, <1>5 DEF Owed, UnderWay
        <5>2. x.name \in DOMAIN F[type]
          BY <5>1, <1>6 DEF Tables
        <5>3. PICK y \in used : y.name = x.name
          BY <5>2, <1>9
        <5>4. y = x
          BY <5>1, <5>3, <2>1
        <5>5. QED  BY <5>3, <5>4, <3>1
      <4>3. i < d.type \/ i = d.type
        BY <1>5, ScannerAssumption DEF UnderWay
      <4>4. QED  BY <4>1, <4>2, <4>3
    <3>8. Sized(e, wasEnabled, F)
      BY <3>4 DEF Sized
    <3>9. Thread(e, wasEnabled, inserted[ProcessFor[s]], inForce[ProcessFor[s]])
      BY <1>1, <3>4, <3>6, <3>7, <3>8 DEF Thread
    <3>10. ThreadsHold'
      BY <1>4, <3>3, <3>9, ThreadMoves
    <3>11. ProcessesHold' /\ RowsHold' /\ VerdictsHold'
      BY <1>4, <3>3 DEF ScannerInv, ProcessesHold, RowsHold, VerdictsHold
    <3>12. QED  BY <3>10, <3>11, <1>7 DEF ScannerInv
  <2>4. QED  BY <2>2, <2>3
<1>10. \/ Cardinality(DOMAIN F[type]) # d.size /\ Raised(s, "resized")
       \/ \E used \in SUBSET (before \cup Rules(p, type)) :
             /\ \A n \in DOMAIN F[type] : \E x \in used : x.name = n
             /\ IF \E x \in used : ~x.regex.good THEN Raised(s, "broken")
                ELSE /\ scan' = [scan EXCEPT ![s].at = "between", ![s].type = @ + 1,
                                             ![s].seen = (@ \ before) \cup used,
                                             ![s].found = @ \/ \E x \in used : d.content \in x.regex.hits]
                     /\ UNCHANGED verdicts
  BY <1>1, <1>3 DEF EndType
<1>11. QED  BY <1>8, <1>9, <1>10

LEMMA RebootStep == ASSUME ScannerInv, NEW p \in WebProcesses, Reboot(p) PROVE ScannerInv'
<1>1. /\ inForce' = [inForce EXCEPT ![p] = Fresh]
      /\ scan' = [s \in Scanners |-> IF ProcessFor[s] = p THEN NotScanning ELSE scan[s]]
      /\ inserted' = [inserted EXCEPT ![p] = BuiltinRules] /\ learned' = [learned EXCEPT ![p] = BuiltinRules]
      /\ UNCHANGED <<table, wasEnabled, verdicts, tableEdits, scans>>
  BY DEF Reboot
<1>2. /\ inForce' = [q \in WebProcesses |-> inForce'[q]] /\ inForce'[p] = Fresh
      /\ inserted' = [q \in WebProcesses |-> inserted'[q]] /\ inserted'[p] = BuiltinRules
      /\ learned' = [q \in WebProcesses |-> learned'[q]] /\ learned'[p] = BuiltinRules
      /\ \A q \in WebProcesses \ {p} : inForce'[q] = inForce[q] /\ inserted'[q] = inserted[q] /\ learned'[q] = learned[q]
  BY <1>1 DEF ScannerInv, ProcessesHold
<1>3. ThreadsHold'
  <2> SUFFICES ASSUME NEW s \in Scanners
               PROVE  Thread(scan'[s], wasEnabled', inserted'[ProcessFor[s]], inForce'[ProcessFor[s]])
    BY <1>1 DEF ThreadsHold
  <2>1. CASE ProcessFor[s] = p
    <3>1. scan'[s] = NotScanning
      BY <2>1, <1>1
    <3>2. Thread(NotScanning, wasEnabled', inserted'[ProcessFor[s]], inForce'[ProcessFor[s]])
      BY DEF Thread, NotScanning
    <3>3. QED  BY <3>1, <3>2
  <2>2. CASE ProcessFor[s] # p
    <3>1. scan'[s] = scan[s] /\ inserted'[ProcessFor[s]] = inserted[ProcessFor[s]]
          /\ inForce'[ProcessFor[s]] = inForce[ProcessFor[s]] /\ wasEnabled' = wasEnabled
      BY <2>2, <1>1, <1>2, ScannerAssumption
    <3>2. Thread(scan[s], wasEnabled, inserted[ProcessFor[s]], inForce[ProcessFor[s]])
      BY DEF ScannerInv, ThreadsHold
    <3>3. QED  BY <3>1, <3>2
  <2>3. QED  BY <2>1, <2>2
<1>4. ProcessesHold'
  <2>1. BuiltinRules' = BuiltinRules
    BY DEF BuiltinRules
  <2>2. ASSUME NEW q \in WebProcesses
        PROVE  /\ Tables(inForce'[q], inserted'[q])
               /\ learned'[q] \subseteq inserted'[q] /\ inserted'[q] \subseteq BuiltinRules \cup wasEnabled'
    <3>1. CASE q = p
      BY <3>1, <1>1, <1>2, FreshHolds
    <3>2. CASE q # p
      BY <3>2, <1>1, <1>2 DEF ScannerInv, ProcessesHold
    <3>3. QED  BY <3>1, <3>2
  <2>3. QED  BY <2>1, <2>2, <1>2 DEF ProcessesHold
<1>5. RowsHold' /\ VerdictsHold'
  BY <1>1 DEF ScannerInv, RowsHold, VerdictsHold
<1>6. ScanCounts'
  BY ScannerAssumption DEF ScannerInv, ScanCounts, Reboot
<1>7. QED  BY <1>3, <1>4, <1>5, <1>6 DEF ScannerInv

LEMMA ScannerStep == ScannerInv /\ [ScannerNext]_scannerVars => ScannerInv'
<1> SUFFICES ASSUME ScannerInv, [ScannerNext]_scannerVars PROVE ScannerInv'
  OBVIOUS
<1>1. CASE \E row \in PatternRows, on \in BOOLEAN : AddRow(row, on)
  BY <1>1, AddRowStep
<1>2. CASE \E i \in DOMAIN table : SwitchRow(i)
  BY <1>2, SwitchRowStep
<1>3. ASSUME NEW s \in Scanners,
             \/ \E content \in Contents : ScanRequest(s, content) \/ EvaluateText(s, content)
             \/ scan[s].at = "load" /\ \E i \in scan[s].left : LoadRow(s, i)
             \/ LoadEnds(s) \/ BeginType(s) \/ EndType(s) \/ EndScan(s)
      PROVE  ScannerInv'
  BY <1>3, ScanRequestStep, EvaluateTextStep, LoadRowStep, LoadEndsStep, BeginTypeStep, EndTypeStep, EndScanStep
<1>4. CASE \E p \in WebProcesses : Reboot(p)
  BY <1>4, RebootStep
<1>5. CASE UNCHANGED scannerVars
  <2>1. UNCHANGED <<inForce, scan, inserted, learned, verdicts, wasEnabled>>
    BY <1>5 DEF scannerVars
  <2>2. ThreadsHold' /\ ProcessesHold' /\ VerdictsHold'
    BY <2>1, TableChanges
  <2>3. RowsHold' /\ ScanCounts'
    BY <1>5 DEF scannerVars, ScannerInv, RowsHold, ScanCounts
  <2>4. QED  BY <2>2, <2>3 DEF ScannerInv
<1>6. QED  BY <1>1, <1>2, <1>3, <1>4, <1>5 DEF ScannerNext

LEMMA ScannerAlways == ScannerSpec => []ScannerInv
<1>1. QED  BY ScannerInitInv, ScannerStep, PTL DEF ScannerSpec

\* The table of rows, the dictionaries of each process, its threads and the outcomes of their scans
\* have their types, and what a process has learned it has held.
THEOREM ScannerTyped == ScannerSpec => []ScannerTypeOK
<1>1. ScannerInv => ScannerTypeOK
  <2> SUFFICES ASSUME ScannerInv PROVE ScannerTypeOK
    OBVIOUS
  <2>1. ASSUME NEW i \in DOMAIN table  PROVE table[i].rule \in PatternRows /\ table[i].on \in BOOLEAN
    <3>1. table[i] \in TableRows
      BY ElementOfSeq DEF ScannerInv, RowsHold
    <3>2. QED  BY <3>1 DEF TableRows
  <2>2. \A p \in WebProcesses : DOMAIN inForce[p] = Checked /\ learned[p] \subseteq inserted[p]
    BY DEF ScannerInv, ProcessesHold, Tables
  <2>3. inserted \in [WebProcesses -> SUBSET (BuiltinRules \cup PatternRows)]
    <3>1. \A p \in WebProcesses : inserted[p] \in SUBSET (BuiltinRules \cup PatternRows)
      BY DEF ScannerInv, ProcessesHold, RowsHold
    <3>2. inserted = [p \in WebProcesses |-> inserted[p]]
      BY DEF ScannerInv, ProcessesHold
    <3>3. QED  BY <3>1, <3>2
  <2>4. \A s \in Scanners : scan[s].at \in {"idle", "load", "between", "inside"}
    BY DEF ScannerInv, ThreadsHold, Thread
  <2>5. \A v \in verdicts : v.outcome \in {"passed", "denied", "500"}
                            /\ v.why \in {"none", "pattern", "odd", "resized", "broken"}
    BY DEF ScannerInv, VerdictsHold, Justified
  <2>6. Len(table) <= MaxRows /\ ScanCounts
    BY DEF ScannerInv, RowsHold
  <2>7. QED  BY <2>1, <2>2, <2>3, <2>4, <2>5, <2>6 DEF ScannerTypeOK, ScanCounts
<1>2. QED  BY <1>1, ScannerAlways, PTL

\* A content that passes is matched by no rule its scan owed it, and whatever a content is denied for
\* was built in or has been enabled, or its scan met a row that does not compile or a concurrent load:
\* in any number of processes and threads, for any rows.
THEOREM ScansAlwaysHaveCauses == ScannerSpec => []ScansHaveCauses
<1>1. ScannerInv => ScansHaveCauses
  BY DEF ScannerInv, VerdictsHold, Justified, Crowded, ScansHaveCauses, NothingOwedPasses, DenialsHaveCauses
<1>2. QED  BY <1>1, ScannerAlways, PTL

-----------------------------------------------------------------------------
(* The components of MCServices side by side                                *)

\* Every behaviour of the components side by side is one of each of them, which rests or takes
\* its steps.
LEMMA ServicesRunTheirSteps ==
    /\ Init => /\ LimiterInit /\ AclInit /\ GateInit /\ PolicyTableInit /\ ScannerInit
               /\ PromotionInit /\ ExportInit /\ ApprovalInit /\ RuntimeInit
    /\ [Next]_<<part, accessVars, recordVars, runtimeVars, policyVars>> =>
         /\ [LimiterNext]_limiterVars /\ [AclNext]_aclVars /\ [GateNext]_gateVars
         /\ [PolicyTableNext]_policyTableVars /\ [ScannerNext]_scannerVars
         /\ [PromotionNext]_promotionVars /\ [ExportNext]_exportVars
         /\ [ApprovalNext]_approvalVars /\ [RuntimeNext]_runtimeVars
<1>1. Init => /\ LimiterInit /\ AclInit /\ GateInit /\ PolicyTableInit /\ ScannerInit
              /\ PromotionInit /\ ExportInit /\ ApprovalInit /\ RuntimeInit
  BY DEF Init
<1>2. ASSUME [Next]_<<part, accessVars, recordVars, runtimeVars, policyVars>>
      PROVE  /\ [LimiterNext]_limiterVars /\ [AclNext]_aclVars /\ [GateNext]_gateVars
             /\ [PolicyTableNext]_policyTableVars /\ [ScannerNext]_scannerVars
             /\ [PromotionNext]_promotionVars /\ [ExportNext]_exportVars
             /\ [ApprovalNext]_approvalVars /\ [RuntimeNext]_runtimeVars
  BY <1>2 DEF Next, accessVars, recordVars, policyVars
<1> QED
  BY <1>1, <1>2

\* What the theorems about the components say of each of them holds of a behaviour of all of them:
\* all that the run services checks.
THEOREM ServicesHold ==
    Spec => /\ []LimitsHold /\ []AccessHolds /\ []DecisionsAreAudited /\ []PoliciesAsAsked
            /\ []ScansHaveCauses /\ []PromotionsHold /\ []DatasetsHaveFiles
            /\ []DispatchedIsApproved /\ []AnswersHold
<1>1. Spec => LimiterSpec /\ AclSpec /\ GateSpec /\ PolicyTableSpec /\ ScannerSpec
  BY ServicesRunTheirSteps, PTL
     DEF Spec, LimiterSpec, AclSpec, GateSpec, PolicyTableSpec, ScannerSpec
<1>2. Spec => PromotionSpec /\ ExportSpec /\ ApprovalSpec /\ RuntimeSpec
  BY ServicesRunTheirSteps, PTL DEF Spec, PromotionSpec, ExportSpec, ApprovalSpec, RuntimeSpec
<1> QED
  BY <1>1, <1>2, LimitsAlwaysHold, AccessDecided, AuditComplete, PoliciesAreAsAsked,
     ScansAlwaysHaveCauses, PromotionsAlwaysHold, DatasetsAlwaysHaveFiles, DispatchesAreApproved,
     AnswersAlwaysHold, PTL
==============================================================================
