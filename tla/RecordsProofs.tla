---------------------------- MODULE RecordsProofs ----------------------------
(***************************************************************************)
(* Proofs about what is kept and released, for every set of processes and  *)
(* every bound: requests of the regression guard (Promotion), exports of   *)
(* learning data (DatasetExport), approvals of deployments                 *)
(* (DeployApprovals) and executions of code (CodeRuntime).                 *)
(***************************************************************************)
EXTENDS Promotion, DatasetExport, DeployApprovals, CodeRuntime, FiniteSetTheorems, WellFoundedInduction,
        TLAPS

-----------------------------------------------------------------------------
(* Promotion: what is current is safe because nothing in the code takes    *)
(* back an approval or a check; that the status tells the newest check     *)
(* needs that a call on a request is the only one, which `raced` records   *)

Serving(g) == serving[g].op # "idle"
GuardOps == {"idle", "check", "approve", "promote", "install", "announce"}
GuardCall == [op : GuardOps, id : RequestIds \cup {0}, began : 0 .. MaxChecks]
RequestRow == [status : Statuses, part : Parts \cup {"-"}, baseline : RequestIds \cup {0}]

\* The type invariant without the calls and the requests.
GuardsTyped ==
    /\ current \in [Parts -> RequestIds \cup {0}]
    /\ announced \in [Parts -> RequestIds \cup {0}]
    /\ threshold \in [Parts -> BOOLEAN]
    /\ checks \subseteq [id : RequestIds, began : 1 .. MaxChecks, passed : BOOLEAN]
    /\ dlq \in BOOLEAN
    /\ clock \in 0 .. MaxChecks /\ calls \in 0 .. MaxCalls /\ troubles \in 0 .. MaxTroubles
    /\ approvals \subseteq RequestIds
    /\ raced \subseteq RequestIds \cup Parts

RequestsTyped == requests \in [RequestIds -> RequestRow] /\ serving \in [Guards -> GuardCall] /\ GuardsTyped
PassedCheck(i) == \E k \in ChecksOf(i) : k.passed

\* A request that exists is of a component, and a call works on a request that exists.
CallsHaveRequests ==
    /\ \A i \in RequestIds : requests[i].status # "none" => requests[i].part \in Parts
    /\ \A g \in Guards : Serving(g) =>
        serving[g].id \in RequestIds /\ requests[serving[g].id].status # "none"

\* What is approved was approved after a check that passed, and a promotion under way
\* is that of such a request.
ApprovalsAreKept ==
    /\ \A i \in RequestIds : requests[i].status = "approved" => i \in approvals
    /\ \A g \in Guards : serving[g].op \in {"promote", "install", "announce"} =>
            serving[g].id \in approvals /\ PassedCheck(serving[g].id)

\* A version that is current belongs to a request that exists.
CurrentExists ==
    \A p \in Parts : current[p] # 0 => requests[current[p]].status # "none"

\* Two calls on one request, or on one component, are recorded.
RacesAreSeen ==
    \A g, h \in Guards : g # h /\ Serving(g) /\ Serving(h) =>
        /\ serving[g].id = serving[h].id => serving[g].id \in raced
        /\ requests[serving[g].id].part = requests[serving[h].id].part
                => requests[serving[g].id].part \in raced

\* A check under way has begun.
ChecksBegan == \A g \in Guards : serving[g].op = "check" => serving[g].began \in 1 .. clock

\* A check under way is newer than those of its request, unless it is not alone.
ChecksInOrder ==
    /\ \A k \in checks : k.began <= clock
    /\ \A g \in Guards : serving[g].op = "check" /\ serving[g].id \notin raced =>
            \A k \in ChecksOf(serving[g].id) : k.began < serving[g].began

\* What approve and promote read is still so when they write, unless they are not alone.
ReadsHold ==
    \A g \in Guards :
        serving[g].op \in {"approve", "promote", "install"} /\ serving[g].id \notin raced
            => LatestPassed(serving[g].id)

PromotionInv == /\ PromotionTypeOK /\ CallsHaveRequests /\ ApprovalsAreKept /\ CurrentExists
        /\ OnlyApprovedIsCurrent /\ RacesAreSeen /\ ChecksBegan /\ ChecksInOrder
        /\ ReadsHold /\ StatusIsOfNewestCheck

\* The type invariant in parts.
LEMMA PromotionParts == (PromotionTypeOK <=> RequestsTyped) /\ (PromotionTypeOK' <=> RequestsTyped')
BY DEF PromotionTypeOK, RequestsTyped, GuardsTyped, RequestRow, GuardCall, GuardOps

\* The first state satisfies the inductive invariant.
LEMMA PromotionInitInv == PromotionInit => PromotionInv
<1> SUFFICES ASSUME PromotionInit PROVE PromotionInv
  OBVIOUS
<1> USE PromotionAssumption DEF PromotionInit
<1>1. PromotionTypeOK
  <2>1. NotServing \in GuardCall /\ NoPromotion \in RequestRow
    BY DEF NotServing, NoPromotion, Statuses, GuardCall, GuardOps, RequestRow
  <2>2. serving \in [Guards -> GuardCall] /\ requests \in [RequestIds -> RequestRow]
    BY <2>1
  <2>3. clock \in 0 .. MaxChecks /\ calls \in 0 .. MaxCalls /\ troubles \in 0 .. MaxTroubles
    OBVIOUS
  <2>4. GuardsTyped
    BY <2>3 DEF GuardsTyped
  <2> QED
    BY <2>2, <2>4, PromotionParts DEF RequestsTyped
<1>2. CallsHaveRequests /\ ApprovalsAreKept /\ CurrentExists /\ OnlyApprovedIsCurrent
  BY DEF CallsHaveRequests, ApprovalsAreKept, CurrentExists, OnlyApprovedIsCurrent, Serving,
       NotServing, NoPromotion
<1>3. RacesAreSeen /\ ChecksBegan /\ ChecksInOrder /\ ReadsHold /\ StatusIsOfNewestCheck
  BY DEF RacesAreSeen, ChecksBegan, ChecksInOrder, ReadsHold, StatusIsOfNewestCheck, Serving, NotServing,
       NoPromotion
<1> QED
  BY <1>1, <1>2, <1>3 DEF PromotionInv

\* A call that is entered, continued or left keeps the type of the calls.
LEMMA CallTypes ==
    ASSUME PromotionTypeOK, NEW g \in Guards
    PROVE  /\ Leave(g) => serving' \in [Guards -> GuardCall]
           /\ \A op \in GuardOps : Continue(g, op) => serving' \in [Guards -> GuardCall]
           /\ \A op \in GuardOps, i \in RequestIds, b \in 0 .. MaxChecks :
                 requests[i].part \in Parts /\ Enter(g, op, i, b) => /\ serving' \in [Guards -> GuardCall]
                                       /\ raced' \subseteq RequestIds \cup Parts
<1> USE PromotionAssumption
<1>1. serving \in [Guards -> GuardCall]
  BY DEF PromotionTypeOK, GuardCall, GuardOps
<1>2. NotServing \in GuardCall
  BY DEF NotServing, GuardCall, GuardOps
<1>3. ASSUME NEW op \in GuardOps PROVE [serving[g] EXCEPT !.op = op] \in GuardCall
  BY <1>1, <1>3 DEF GuardCall
<1>4. ASSUME NEW op \in GuardOps, NEW i \in RequestIds, NEW b \in 0 .. MaxChecks
      PROVE [op |-> op, id |-> i, began |-> b] \in GuardCall
  BY DEF GuardCall
<1> QED
  BY <1>1, <1>2, <1>3, <1>4 DEF Leave, Continue, Enter, PromotionTypeOK

\* Every step preserves the types.
LEMMA PromotionTypeStep == PromotionInv /\ [PromotionNext]_promotionVars => PromotionTypeOK'
<1> SUFFICES ASSUME PromotionInv, [PromotionNext]_promotionVars PROVE PromotionTypeOK'
  OBVIOUS
<1> USE PromotionAssumption
<1>0. PromotionTypeOK /\ CallsHaveRequests
  BY DEF PromotionInv
<1>a. requests \in [RequestIds -> RequestRow] /\ serving \in [Guards -> GuardCall]
  BY <1>0 DEF PromotionTypeOK, RequestRow, GuardCall, GuardOps
<1>b. GuardsTyped /\ (RequestsTyped' => PromotionTypeOK')
  BY <1>0, PromotionParts DEF RequestsTyped
<1>c. ASSUME NEW i \in RequestIds, NEW s \in Statuses, SetStatus(i, s)
      PROVE requests' \in [RequestIds -> RequestRow]
  <2>1. [requests[i] EXCEPT !.status = s] \in RequestRow
    BY <1>a DEF RequestRow
  <2> QED
    BY <1>a, <1>c, <2>1 DEF SetStatus
<1>d. ASSUME NEW g \in Guards, Serving(g) PROVE serving[g].id \in RequestIds
  BY <1>0, <1>d DEF CallsHaveRequests
<1>1. ASSUME NEW g \in Guards, NEW i \in RequestIds,
             BeginCheck(g, i) \/ BeginApprove(g, i) \/ BeginPromote(g, i) PROVE PromotionTypeOK'
  <2>1. requests[i].part \in Parts
    BY <1>0, <1>1 DEF BeginCheck, BeginApprove, BeginPromote, MayApprove, MayPromote,
         CallsHaveRequests
  <2>2. serving' \in [Guards -> GuardCall] /\ raced' \subseteq RequestIds \cup Parts
    BY <1>0, <1>1, <2>1, CallTypes
       DEF BeginCheck, BeginApprove, BeginPromote, GuardOps, PromotionTypeOK
  <2>3. requests' \in [RequestIds -> RequestRow]
    BY <1>1, <1>a, <1>c DEF BeginCheck, BeginApprove, BeginPromote, Statuses
  <2>4. clock' \in 0 .. MaxChecks /\ calls' \in 0 .. MaxCalls
    BY <1>1, <1>b DEF BeginCheck, BeginApprove, BeginPromote, GuardsTyped
  <2> QED
    BY <1>1, <1>b, <2>2, <2>3, <2>4 DEF BeginCheck, BeginApprove, BeginPromote, RequestsTyped, GuardsTyped
<1>2. ASSUME NEW g \in Guards, NEW passed \in BOOLEAN, EndCheck(g, passed) PROVE PromotionTypeOK'
  <2>1. serving[g].id \in RequestIds /\ serving[g].began \in 1 .. MaxChecks
    BY <1>0, <1>2, <1>b, <1>d DEF EndCheck, PromotionInv, ChecksBegan, Serving, GuardsTyped
  <2>2. requests' \in [RequestIds -> RequestRow]
    BY <1>2, <1>c, <2>1 DEF EndCheck, Statuses
  <2>3. serving' \in [Guards -> GuardCall]
    BY <1>0, <1>2, CallTypes DEF EndCheck
  <2> QED
    BY <1>0, <1>2, <1>b, <2>1, <2>2, <2>3 DEF EndCheck, RequestsTyped, GuardsTyped
<1>3. ASSUME NEW g \in Guards, Denied(g) \/ AskGate(g) \/ GuardStops(g) PROVE PromotionTypeOK'
  <2>1. serving' \in [Guards -> GuardCall]
    BY <1>0, <1>3, CallTypes DEF Denied, AskGate, GuardStops, GuardOps
  <2>2. troubles' \in 0 .. MaxTroubles
    BY <1>3, <1>b DEF Denied, AskGate, GuardStops, Trouble, GuardsTyped
  <2> QED
    BY <1>3, <1>a, <1>b, <2>1, <2>2 DEF Denied, AskGate, GuardStops, RequestsTyped, GuardsTyped
<1>4. ASSUME NEW g \in Guards, CommitApprove(g) \/ CommitPromote(g) \/ Announce(g)
      PROVE PromotionTypeOK'
  <2>1. serving[g].id \in RequestIds
    BY <1>4, <1>d DEF CommitApprove, CommitPromote, Announce, Serving
  <2>2. requests' \in [RequestIds -> RequestRow]
    BY <1>4, <1>a, <1>c, <2>1 DEF CommitApprove, CommitPromote, Announce, Statuses
  <2>3. serving' \in [Guards -> GuardCall]
    BY <1>0, <1>4, CallTypes DEF CommitApprove, CommitPromote, Announce, GuardOps
  <2>4. /\ current' \in [Parts -> RequestIds \cup {0}]
        /\ announced' \in [Parts -> RequestIds \cup {0}]
        /\ approvals' \subseteq RequestIds
    BY <1>0, <1>4, <2>1 DEF CommitApprove, CommitPromote, Announce, Install, PromotionTypeOK
  <2> QED
    BY <1>0, <1>4, <1>b, <2>2, <2>3, <2>4
       DEF CommitApprove, CommitPromote, Announce, RequestsTyped, GuardsTyped
<1>5. ASSUME NEW i \in RequestIds, NEW p \in Parts, Request(i, p) PROVE PromotionTypeOK'
  <2>1. [status |-> "requested", part |-> p, baseline |-> current[p]] \in RequestRow
    BY <1>0 DEF RequestRow, Statuses, PromotionTypeOK
  <2> QED
    BY <1>0, <1>5, <1>a, <1>b, <2>1 DEF Request, RequestsTyped, GuardsTyped
<1>6. ASSUME NEW p \in Parts, NEW on \in BOOLEAN, Enable(p, on) PROVE PromotionTypeOK'
  BY <1>0, <1>6, <1>a, <1>b DEF Enable, RequestsTyped, GuardsTyped
<1>7. CASE DlqChanges \/ UNCHANGED promotionVars
  BY <1>0, <1>7, <1>a, <1>b DEF DlqChanges, promotionVars, RequestsTyped, GuardsTyped
<1> QED
  BY <1>1, <1>2, <1>3, <1>4, <1>5, <1>6, <1>7 DEF PromotionNext

\* The facts about types that the steps below use.
LEMMA Plain ==
    ASSUME PromotionTypeOK
    PROVE  /\ requests \in [RequestIds -> RequestRow] /\ serving \in [Guards -> GuardCall]
           /\ current \in [Parts -> RequestIds \cup {0}] /\ 0 \notin RequestIds
           /\ \A k \in checks : k.id \in RequestIds /\ k.began \in Nat /\ k.passed \in BOOLEAN
           /\ clock \in Nat
           /\ \A g \in Guards : serving[g].began \in Nat
           /\ \A i \in RequestIds : i \in Nat
BY PromotionAssumption, PromotionParts DEF RequestsTyped, GuardsTyped, GuardCall

\* A check that passed, and an approval, stay: what is current was approved.
LEMMA NextApproved ==
    PromotionInv /\ [PromotionNext]_promotionVars =>
        CallsHaveRequests' /\ ApprovalsAreKept' /\ CurrentExists' /\ OnlyApprovedIsCurrent'
<1> DEFINE Goal == CallsHaveRequests /\ ApprovalsAreKept /\ CurrentExists /\ OnlyApprovedIsCurrent
<1> SUFFICES ASSUME PromotionInv, [PromotionNext]_promotionVars PROVE Goal'
  OBVIOUS
<1>0. PromotionTypeOK /\ Goal
  BY DEF PromotionInv
<1> USE <1>0, Plain
        DEF CallsHaveRequests, ApprovalsAreKept, CurrentExists, OnlyApprovedIsCurrent, Serving,
            PassedCheck, ChecksOf
<1>1. ASSUME NEW g \in Guards, NEW i \in RequestIds,
             BeginCheck(g, i) \/ BeginApprove(g, i) \/ BeginPromote(g, i) PROVE Goal'
  <2>1. CASE BeginCheck(g, i)
    BY <2>1 DEF BeginCheck, Enter, SetStatus, AtRest, RequestRow, GuardCall
  <2>2. CASE BeginApprove(g, i)
    BY <2>2 DEF BeginApprove, MayApprove, Enter, AtRest, GuardCall
  <2>3. CASE BeginPromote(g, i)
    BY <2>3 DEF BeginPromote, MayPromote, LatestPassed, Enter, AtRest, GuardCall
  <2> QED
    BY <1>1, <2>1, <2>2, <2>3
<1>2. ASSUME NEW g \in Guards, NEW passed \in BOOLEAN, EndCheck(g, passed) PROVE Goal'
  BY <1>2 DEF EndCheck, SetStatus, Leave, NotServing, RequestRow, GuardCall
<1>3. ASSUME NEW g \in Guards, Denied(g) \/ AskGate(g) \/ GuardStops(g) PROVE Goal'
  BY <1>3 DEF Denied, AskGate, GuardStops, Leave, Continue, NotServing, AtRest, GuardCall
<1>4. ASSUME NEW g \in Guards, CommitApprove(g) PROVE Goal'
  BY <1>4 DEF CommitApprove, SetStatus, Leave, NotServing, RequestRow, GuardCall
<1>5. ASSUME NEW g \in Guards, CommitPromote(g) PROVE Goal'
  BY <1>5 DEF CommitPromote, SetStatus, Install, Continue, RequestRow, GuardCall
<1>6. ASSUME NEW g \in Guards, Announce(g) PROVE Goal'
  BY <1>6 DEF Announce, Leave, NotServing, GuardCall
<1>7. ASSUME NEW i \in RequestIds, NEW p \in Parts, Request(i, p) PROVE Goal'
  BY <1>7 DEF Request, RequestRow
<1>8. ASSUME NEW p \in Parts, NEW on \in BOOLEAN, Enable(p, on) PROVE Goal'
  BY <1>8 DEF Enable
<1>9. CASE DlqChanges \/ UNCHANGED promotionVars
  BY <1>9 DEF DlqChanges, promotionVars
<1> QED
  BY <1>1, <1>2, <1>3, <1>4, <1>5, <1>6, <1>7, <1>8, <1>9 DEF PromotionNext

\* As long as a call on a request is the only one, what it read stays true.
LEMMA NextOrdered ==
    PromotionInv /\ [PromotionNext]_promotionVars =>
        RacesAreSeen' /\ ChecksBegan' /\ ChecksInOrder' /\ ReadsHold' /\ StatusIsOfNewestCheck'
<1> DEFINE Goal == RacesAreSeen /\ ChecksBegan /\ ChecksInOrder /\ ReadsHold /\ StatusIsOfNewestCheck
<1> SUFFICES ASSUME PromotionInv, [PromotionNext]_promotionVars PROVE Goal'
  OBVIOUS
<1>0. PromotionTypeOK /\ CallsHaveRequests /\ Goal
  BY DEF PromotionInv
<1> USE <1>0, Plain
        DEF CallsHaveRequests, RacesAreSeen, ChecksBegan, ChecksInOrder, ReadsHold,
            StatusIsOfNewestCheck, Serving, LatestPassed, ChecksOf
<1>1. ASSUME NEW g \in Guards, NEW i \in RequestIds,
             BeginCheck(g, i) \/ BeginApprove(g, i) \/ BeginPromote(g, i) PROVE Goal'
  <2>1. RacesAreSeen'
    BY <1>1 DEF BeginCheck, BeginApprove, BeginPromote, Enter, SetStatus, AtRest, RequestRow, GuardCall,
         Others, Rivals
  <2>2. CASE BeginCheck(g, i)
    BY <2>1, <2>2 DEF BeginCheck, Enter, SetStatus, AtRest, RequestRow, GuardCall
  <2>3. CASE BeginApprove(g, i)
    BY <2>1, <2>3 DEF BeginApprove, MayApprove, Enter, AtRest, GuardCall
  <2>4. CASE BeginPromote(g, i)
    BY <2>1, <2>4 DEF BeginPromote, MayPromote, Enter, AtRest, GuardCall
  <2> QED
    BY <1>1, <2>2, <2>3, <2>4
<1>2. ASSUME NEW g \in Guards, NEW passed \in BOOLEAN, EndCheck(g, passed) PROVE Goal'
  <2>1. RacesAreSeen' /\ ChecksBegan'
    BY <1>2 DEF EndCheck, SetStatus, Leave, NotServing, RequestRow, GuardCall
  <2>2. ChecksInOrder' /\ ReadsHold'
    BY <1>2 DEF EndCheck, SetStatus, Leave, NotServing, RequestRow, GuardCall
  <2> DEFINE i == serving[g].id
             k == [id |-> i, began |-> serving[g].began, passed |-> passed]
  <2>3. i \in RequestIds /\ checks' = checks \cup {k} /\ raced' = raced
        /\ requests' = [requests EXCEPT ![i].status = IF passed THEN "pass" ELSE "fail"]
    BY <1>2 DEF EndCheck, SetStatus
  <2>4. ASSUME NEW j \in RequestIds, j \notin raced', requests'[j].status \in {"pass", "approved", "promoted"}
        PROVE LatestPassed(j)'
    <3>1. CASE j = i
      <4>1. passed
        BY <2>3, <2>4, <3>1 DEF RequestRow
      <4>2. \A m \in ChecksOf(j) : m.began < serving[g].began
        BY <1>2, <2>3, <2>4, <3>1 DEF EndCheck
      <4>3. k \in ChecksOf(j)' /\ k.passed /\ \A m \in ChecksOf(j)' : m.began <= k.began
        BY <2>3, <3>1, <4>1, <4>2
      <4> QED
        BY <4>3
    <3>2. CASE j # i
      <4>1. ChecksOf(j)' = ChecksOf(j) /\ requests'[j] = requests[j]
        BY <2>3, <3>2
      <4> QED
        BY <2>3, <2>4, <4>1, ZenonT(40)
    <3> QED
      BY <3>1, <3>2
  <2>5. StatusIsOfNewestCheck'
    BY <2>4
  <2> QED
    BY <2>1, <2>2, <2>5
<1>3. ASSUME NEW g \in Guards, Denied(g) \/ AskGate(g) \/ GuardStops(g) PROVE Goal'
  BY <1>3 DEF Denied, AskGate, GuardStops, Leave, Continue, NotServing, AtRest, GuardCall
<1>4. ASSUME NEW g \in Guards, CommitApprove(g) PROVE Goal'
  BY <1>4 DEF CommitApprove, SetStatus, Leave, NotServing, RequestRow, GuardCall
<1>5. ASSUME NEW g \in Guards, CommitPromote(g) PROVE Goal'
  BY <1>5 DEF CommitPromote, SetStatus, Continue, RequestRow, GuardCall
<1>6. ASSUME NEW g \in Guards, Announce(g) PROVE Goal'
  BY <1>6 DEF Announce, Leave, NotServing, GuardCall
<1>7. ASSUME NEW i \in RequestIds, NEW p \in Parts, Request(i, p) PROVE Goal'
  BY <1>7 DEF Request, RequestRow
<1>8. ASSUME NEW p \in Parts, NEW on \in BOOLEAN, Enable(p, on) PROVE Goal'
  BY <1>8 DEF Enable
<1>9. CASE DlqChanges \/ UNCHANGED promotionVars
  BY <1>9 DEF DlqChanges, promotionVars
<1> QED
  BY <1>1, <1>2, <1>3, <1>4, <1>5, <1>6, <1>7, <1>8, <1>9 DEF PromotionNext

\* The inductive invariant holds in every reachable state.
LEMMA PromotionAlways == PromotionSpec => []PromotionInv
<1>1. PromotionInv /\ [PromotionNext]_promotionVars => PromotionInv'
  BY PromotionTypeStep, NextApproved, NextOrdered DEF PromotionInv
<1> QED
  BY PromotionInitInv, <1>1, PTL DEF PromotionSpec

\* The type invariant of the promotion of versions.
THEOREM PromotionTypeCorrect == PromotionSpec => []PromotionTypeOK
<1>1. PromotionInv => PromotionTypeOK
  BY DEF PromotionInv
<1> QED
  BY <1>1, PromotionAlways, PTL

\* A version that is current is the baseline, or was checked, passed and was approved,
\* however many processes serve the calls and whatever of them raise or die.
THEOREM CurrentIsApproved == PromotionSpec => []OnlyApprovedIsCurrent
<1>1. PromotionInv => OnlyApprovedIsCurrent
  BY DEF PromotionInv
<1> QED
  BY <1>1, PromotionAlways, PTL

\* A request on which no two calls overlapped is approved and promoted on its newest check.
THEOREM StatusFollowsChecks == PromotionSpec => []StatusIsOfNewestCheck
<1>1. PromotionInv => StatusIsOfNewestCheck
  BY DEF PromotionInv
<1> QED
  BY <1>1, PromotionAlways, PTL

-----------------------------------------------------------------------------
(* AnnouncedIsCurrent.  Between the commit of a promotion and its event the call *)
(* holds the version that has become current.                                    *)

Announcing(g, p) == serving[g].op = "announce" /\ requests[serving[g].id].part = p

AnnouncedInv ==
    troubles = 0 => \A p \in Parts \ raced :
        /\ \A g \in Guards : Announcing(g, p) => serving[g].id = current[p]
        /\ (\A g \in Guards : ~Announcing(g, p)) => announced[p] = current[p]

\* A step that announces nothing and moves no call from or to an announcement.
LEMMA AnnouncedFrame ==
    ASSUME PromotionInv, AnnouncedInv, raced \subseteq raced', UNCHANGED <<current, announced>>,
           troubles' = 0 => troubles = 0,
           \A i \in RequestIds : requests[i].status # "none" => requests'[i].part = requests[i].part,
           \A g \in Guards : \/ serving'[g] = serving[g]
                             \/ serving[g].op # "announce" /\ serving'[g].op # "announce"
    PROVE  AnnouncedInv'
<1>1. \A g \in Guards : serving[g].op = "announce" =>
        serving[g].id \in RequestIds /\ requests[serving[g].id].status # "none"
  BY DEF PromotionInv, CallsHaveRequests, Serving
<1>2. \A g \in Guards, p \in Parts : Announcing(g, p)' <=> Announcing(g, p)
  BY <1>1 DEF Announcing
<1>3. \A g \in Guards, p \in Parts : Announcing(g, p) => serving'[g].id = serving[g].id
  BY DEF Announcing
<1> QED
  BY <1>2, <1>3 DEF AnnouncedInv

LEMMA AnnouncedStep == PromotionInv /\ AnnouncedInv /\ [PromotionNext]_promotionVars => AnnouncedInv'
<1> SUFFICES ASSUME PromotionInv, AnnouncedInv, [PromotionNext]_promotionVars PROVE AnnouncedInv'
  OBVIOUS
<1> USE PromotionAssumption
<1>0. PromotionTypeOK /\ CallsHaveRequests /\ RacesAreSeen
  BY DEF PromotionInv
<1>a. /\ requests \in [RequestIds -> RequestRow] /\ serving \in [Guards -> GuardCall]
      /\ current \in [Parts -> RequestIds \cup {0}] /\ announced \in [Parts -> RequestIds \cup {0}]
      /\ troubles \in Nat
  BY <1>0, PromotionParts DEF RequestsTyped, GuardsTyped
<1>b. ASSUME NEW i \in RequestIds, NEW s \in Statuses, SetStatus(i, s)
      PROVE  \A j \in RequestIds : requests'[j].part = requests[j].part
  BY <1>a, <1>b DEF SetStatus, RequestRow
<1>1. ASSUME NEW g \in Guards, NEW i \in RequestIds,
             BeginCheck(g, i) \/ BeginApprove(g, i) \/ BeginPromote(g, i) PROVE AnnouncedInv'
  <2>1. /\ UNCHANGED <<current, announced, troubles>> /\ raced \subseteq raced'
        /\ \E op \in {"check", "approve", "promote"} : \E n \in 0 .. MaxChecks :
                AtRest(g) /\ serving' = [serving EXCEPT ![g] = [op |-> op, id |-> i, began |-> n]]
    <3>1. clock \in 0 .. MaxChecks
      BY <1>0, PromotionParts DEF RequestsTyped, GuardsTyped
    <3>2. clock < MaxChecks => clock + 1 \in 0 .. MaxChecks
      BY <3>1
    <3> QED
      BY <1>1, <3>2 DEF BeginCheck, BeginApprove, BeginPromote, Enter
  <2>2. \A j \in RequestIds : requests'[j].part = requests[j].part
    BY <1>1, <1>b DEF BeginCheck, BeginApprove, BeginPromote, Statuses
  <2>3. \A h \in Guards : \/ serving'[h] = serving[h]
                          \/ serving[h].op # "announce" /\ serving'[h].op # "announce"
    BY <1>a, <2>1 DEF AtRest
  <2> QED
    BY <2>1, <2>2, <2>3, AnnouncedFrame
<1>2. ASSUME NEW g \in Guards,
             (\E passed \in BOOLEAN : EndCheck(g, passed)) \/ Denied(g) \/ CommitApprove(g) \/ AskGate(g)
      PROVE  AnnouncedInv'
  <2>1. UNCHANGED <<current, announced, troubles, raced>> /\ serving[g].op \in {"check", "approve", "promote"}
    BY <1>2 DEF EndCheck, Denied, CommitApprove, AskGate
  <2>2. \A j \in RequestIds : requests'[j].part = requests[j].part
    <3>1. serving[g].id \in RequestIds
      BY <1>0, <2>1 DEF CallsHaveRequests, Serving
    <3>2. UNCHANGED requests \/ \E s \in Statuses : SetStatus(serving[g].id, s)
      BY <1>2 DEF EndCheck, Denied, CommitApprove, AskGate, Statuses
    <3> QED
      BY <1>b, <3>1, <3>2
  <2>3. \A h \in Guards : \/ serving'[h] = serving[h]
                          \/ serving[h].op # "announce" /\ serving'[h].op # "announce"
    BY <1>2, <1>a, <2>1 DEF EndCheck, Denied, CommitApprove, AskGate, Leave, Continue, NotServing, GuardCall
  <2> QED
    BY <2>1, <2>2, <2>3, AnnouncedFrame
<1>3. ASSUME NEW g \in Guards, CommitPromote(g) PROVE AnnouncedInv'
  <2> DEFINE i == serving[g].id
  <2>1. i \in RequestIds /\ requests[i].part \in Parts /\ Serving(g) /\ serving[g].op = "install"
    BY <1>0, <1>3 DEF CommitPromote, CallsHaveRequests, Serving
  <2>2. PICK p \in Parts : p = requests[i].part
    BY <2>1
  <2>3. /\ current' = [current EXCEPT ![p] = i] /\ UNCHANGED <<announced, troubles, raced>>
        /\ serving'[g].op = "announce" /\ serving'[g].id = i
        /\ \A h \in Guards \ {g} : serving'[h] = serving[h]
        /\ \A j \in RequestIds : requests'[j].part = requests[j].part
    BY <1>3, <1>a, <1>b, <2>1, <2>2 DEF CommitPromote, Install, Continue, Statuses, GuardCall
  <2>4. \A h \in Guards \ {g} : Announcing(h, p) => p \in raced
    BY <1>0, <2>1, <2>2 DEF RacesAreSeen, Announcing, Serving
  <2>5. \A h \in Guards \ {g} : \A q \in Parts : Announcing(h, q)' <=> Announcing(h, q)
    BY <1>0, <2>3 DEF Announcing, CallsHaveRequests, Serving
  <2>6. \A q \in Parts : (Announcing(g, q)' <=> q = p) /\ ~Announcing(g, q)
    BY <2>1, <2>2, <2>3 DEF Announcing
  <2> QED
    BY <1>a, <2>3, <2>4, <2>5, <2>6 DEF AnnouncedInv
<1>4. ASSUME NEW g \in Guards, Announce(g) PROVE AnnouncedInv'
  <2> DEFINE i == serving[g].id
  <2>1. i \in RequestIds /\ requests[i].part \in Parts /\ serving[g].op = "announce"
    BY <1>0, <1>4 DEF Announce, CallsHaveRequests, Serving
  <2>2. PICK p \in Parts : p = requests[i].part
    BY <2>1
  <2>3. /\ announced' = [announced EXCEPT ![p] = i] /\ UNCHANGED <<current, requests, troubles, raced>>
        /\ serving'[g].op = "idle" /\ \A h \in Guards \ {g} : serving'[h] = serving[h]
    BY <1>4, <1>a, <2>2 DEF Announce, Leave, NotServing
  <2>4. \A h \in Guards \ {g} : \A q \in Parts : Announcing(h, q)' <=> Announcing(h, q)
    BY <2>3 DEF Announcing
  <2>5. \A q \in Parts : (Announcing(g, q) <=> q = p) /\ ~Announcing(g, q)'
    BY <2>1, <2>2, <2>3 DEF Announcing
  <2> QED
    BY <1>a, <2>3, <2>4, <2>5 DEF AnnouncedInv
<1>5. ASSUME NEW g \in Guards, GuardStops(g) PROVE AnnouncedInv'
  BY <1>5, <1>a DEF GuardStops, Trouble, AnnouncedInv
<1>6. ASSUME NEW i \in RequestIds, NEW p \in Parts, Request(i, p) PROVE AnnouncedInv'
  <2>1. UNCHANGED <<current, announced, troubles, raced, serving>>
        /\ \A j \in RequestIds : requests[j].status # "none" => requests'[j].part = requests[j].part
    BY <1>6, <1>a DEF Request
  <2> QED
    BY <2>1, AnnouncedFrame
<1>7. CASE DlqChanges \/ (\E p \in Parts, on \in BOOLEAN : Enable(p, on)) \/ UNCHANGED promotionVars
  BY <1>7, AnnouncedFrame DEF DlqChanges, Enable, promotionVars
<1> QED
  BY <1>1, <1>2, <1>3, <1>4, <1>5, <1>6, <1>7 DEF PromotionNext

\* The event of a promotion is sent after its commit (guard.py:241, :250): between calls,
\* and unless calls on a component overlapped or stopped in the middle, the last event of
\* every component tells its version.
THEOREM EventsTellVersions == PromotionSpec => []AnnouncedIsCurrent
<1>1. PromotionInit => AnnouncedInv
  BY DEF PromotionInit, AnnouncedInv, Announcing, NotServing
<1>2. AnnouncedInv => AnnouncedIsCurrent
  BY DEF AnnouncedInv, AnnouncedIsCurrent, Announcing
<1> QED
  BY <1>1, <1>2, AnnouncedStep, PromotionAlways, PTL DEF PromotionSpec

\* All that guard.py promises of its requests and versions: no version is current that was
\* not approved, no status outlives a newer failed check, and no event names another version.
THEOREM PromotionsAlwaysHold == PromotionSpec => []PromotionsHold
<1>1. OnlyApprovedIsCurrent /\ StatusIsOfNewestCheck /\ AnnouncedIsCurrent => PromotionsHold
  BY DEF PromotionsHold
<1> QED
  BY <1>1, CurrentIsApproved, StatusFollowsChecks, EventsTellVersions, PTL

-----------------------------------------------------------------------------
(* DeployApprovals: a vote is in the file only after its row is in the     *)
(* table, and a list has no voter twice, so a list that is long enough     *)
(* stands for that many rows                                               *)

VoteLists == [Commits -> [Buttons -> Seq(Voters)]]
ClickSteps == {"log", "post", "save", "dispatch", "reply"}
ClickRecord == [at : ClickSteps, voter : Voters, commit : Commits, decision : Buttons, loaded : VoteLists]

\* The types, with the whole record of a click; the table is finite.
VotesTyped ==
    /\ votes \in VoteLists
    /\ handler \in ClickRecord \cup {Waiting}
    /\ approvalRows \subseteq Commits \X Voters \X Buttons /\ IsFiniteSet(approvalRows)
    /\ dispatched \subseteq Commits
    /\ clicks \in 0 .. MaxClicks /\ losses \in 0 .. MaxLosses

NoVoterTwice(list) == \A i, j \in 1 .. Len(list) : list[i] = list[j] => i = j
Recorded(k, d) == {v \in Voters : <<k, v, d>> \in approvalRows}

\* Whose vote the click being handled has in memory before its row is written.
Unrecorded(k, d) ==
    IF handler.at = "log" /\ handler.commit = k /\ handler.decision = d THEN {handler.voter} ELSE {}

\* A list in the file has no voter twice, and everybody in it has a row.
FileIsRecorded ==
    \A k \in Commits, d \in Buttons :
        NoVoterTwice(votes[k][d]) /\ ToSet(votes[k][d]) \subseteq Recorded(k, d)

\* So has a list in memory, but for the vote that is to be logged.
LoadedIsRecorded ==
    handler # Waiting => \A k \in Commits, d \in Buttons :
        /\ NoVoterTwice(handler.loaded[k][d])
        /\ ToSet(handler.loaded[k][d]) \subseteq Recorded(k, d) \cup Unrecorded(k, d)

\* The workflow is dispatched by a click whose list is long enough.
EnoughToDispatch ==
    handler.at = "dispatch" => Approvers(handler.loaded[handler.commit]) >= RequiredApprovals

ApprovalInv == VotesTyped /\ FileIsRecorded /\ LoadedIsRecorded /\ EnoughToDispatch /\ DispatchedIsApproved

\* A click is at one of its steps, and a handler at one of those has a click.
LEMMA ClickIsHandled ==
    ASSUME VotesTyped
    PROVE  handler # Waiting <=> handler \in ClickRecord /\ handler.at \in ClickSteps
BY DEF VotesTyped, Waiting, ClickRecord, ClickSteps

\* A list of different voters with rows is no longer than the rows.
LEMMA ListsAreCounted ==
    ASSUME IsFiniteSet(approvalRows), NEW k \in Commits, NEW d \in Buttons,
           NEW list \in Seq(Voters), NoVoterTwice(list), ToSet(list) \subseteq Recorded(k, d)
    PROVE  IsFiniteSet(Recorded(k, d)) /\ Len(list) <= Cardinality(Recorded(k, d))
<1>1. [v \in Recorded(k, d) |-> <<k, v, d>>] \in Injection(Recorded(k, d), approvalRows)
  BY DEF Recorded, Injection, IsInjective
<1>2. IsFiniteSet(Recorded(k, d))
  BY <1>1, FS_Injection
<1>3. DOMAIN list = 1 .. Len(list) /\ list \in [1 .. Len(list) -> Recorded(k, d)]
  BY DEF ToSet
<1>4. list \in Injection(1 .. Len(list), Recorded(k, d))
  BY <1>3 DEF Injection, IsInjective, NoVoterTwice
<1>5. Cardinality(1 .. Len(list)) <= Cardinality(Recorded(k, d))
  BY <1>2, <1>4, FS_Injection
<1>6. Cardinality(1 .. Len(list)) = Len(list)
  <2>1. Len(list) \in Nat /\ 1 \in Int /\ Len(list) \in Int
    OBVIOUS
  <2>2. Cardinality(1 .. Len(list)) = IF 1 > Len(list) THEN 0 ELSE Len(list) - 1 + 1
    BY <2>1, FS_Interval, Zenon
  <2> QED
    BY <2>1, <2>2
<1> QED
  BY <1>2, <1>5, <1>6

\* A vote keeps a list without repetition, and adds nobody but the voter.
LEMMA VoteTypes ==
    ASSUME NEW list \in Seq(Voters), NEW v \in Voters, NoVoterTwice(list)
    PROVE  /\ Voted(list, v) \in Seq(Voters) /\ NoVoterTwice(Voted(list, v))
           /\ ToSet(Voted(list, v)) \subseteq ToSet(list) \cup {v}
<1>1. CASE v \in ToSet(list)
  BY <1>1 DEF Voted
<1>2. CASE v \notin ToSet(list)
  <2>1. Voted(list, v) = Append(list, v) /\ DOMAIN list = 1 .. Len(list)
    BY <1>2 DEF Voted
  <2>2. Append(list, v) \in Seq(Voters) /\ Len(Append(list, v)) = Len(list) + 1 /\ Len(list) \in Nat
    OBVIOUS
  <2>3. Append(list, v)[Len(list) + 1] = v /\ \A i \in 1 .. Len(list) : Append(list, v)[i] = list[i]
    OBVIOUS
  <2>4. \A i \in 1 .. Len(list) : list[i] # v
    BY <1>2, <2>1 DEF ToSet
  <2>5. \A i \in 1 .. Len(list) + 1 : i \in 1 .. Len(list) \/ i = Len(list) + 1
    OBVIOUS
  <2>6. NoVoterTwice(Append(list, v))
    BY <2>2, <2>3, <2>4, <2>5 DEF NoVoterTwice
  <2>7. DOMAIN Append(list, v) = 1 .. Len(list) + 1
    BY <2>2
  <2>8. ToSet(Append(list, v)) \subseteq ToSet(list) \cup {v}
    BY <2>1, <2>3, <2>5, <2>7 DEF ToSet
  <2> QED
    BY <2>1, <2>2, <2>6, <2>8
<1> QED
  BY <1>1, <1>2

\* The first state satisfies the inductive invariant.
LEMMA ApprovalInitInv == ApprovalInit => ApprovalInv
<1> SUFFICES ASSUME ApprovalInit PROVE ApprovalInv
  OBVIOUS
<1> USE ApprovalAssumption DEF ApprovalInit
<1>1. NoVotes \in VoteLists /\ FileIsRecorded
  BY DEF NoVotes, VoteLists, FileIsRecorded, NoVoterTwice, ToSet
<1>2. VotesTyped
  BY <1>1, FS_EmptySet DEF VotesTyped
<1>3. LoadedIsRecorded /\ EnoughToDispatch /\ DispatchedIsApproved
  BY DEF LoadedIsRecorded, EnoughToDispatch, DispatchedIsApproved, Waiting
<1> QED
  BY <1>1, <1>2, <1>3 DEF ApprovalInv

\* Every step preserves the inductive invariant.
LEMMA ApprovalStep == ApprovalInv /\ [ApprovalNext]_approvalVars => ApprovalInv'
<1> SUFFICES ASSUME ApprovalInv, [ApprovalNext]_approvalVars PROVE ApprovalInv'
  OBVIOUS
<1> USE ApprovalAssumption
<1>0. VotesTyped /\ FileIsRecorded /\ LoadedIsRecorded /\ EnoughToDispatch /\ DispatchedIsApproved
  BY DEF ApprovalInv
<1>a. Waiting.at = "waiting" /\ (handler.at \in ClickSteps => handler \in ClickRecord /\ handler # Waiting)
  BY <1>0 DEF VotesTyped, ClickSteps, Waiting
<1>b. ASSUME UNCHANGED <<approvalRows, dispatched>> PROVE DispatchedIsApproved'
  BY <1>0, <1>b DEF DispatchedIsApproved
<1>c. ASSUME UNCHANGED <<votes, approvalRows>> PROVE FileIsRecorded'
  BY <1>0, <1>c DEF FileIsRecorded, Recorded
<1>d. ASSUME handler' = Waiting PROVE LoadedIsRecorded' /\ EnoughToDispatch'
  BY <1>d, <1>a DEF LoadedIsRecorded, EnoughToDispatch
<1>e. ASSUME NEW here \in ClickSteps, NEW next \in ClickSteps, Goto(here, next)
      PROVE /\ handler \in ClickRecord /\ handler # Waiting /\ handler' \in ClickRecord
            /\ handler'.at = next /\ handler'.voter = handler.voter
            /\ handler'.commit = handler.commit /\ handler'.decision = handler.decision
            /\ handler'.loaded = handler.loaded
  BY <1>a, <1>e DEF Goto, ClickRecord
<1>1. ASSUME NEW v \in Voters, NEW k \in Commits, NEW d \in Buttons, Click(v, k, d) PROVE ApprovalInv'
  <2>1. UNCHANGED <<votes, approvalRows, dispatched, losses>> /\ clicks' \in 0 .. MaxClicks
    BY <1>0, <1>1 DEF Click, VotesTyped
  <2>2. PICK lists : lists = [votes EXCEPT ![k][d] = Voted(@, v)]
    OBVIOUS
  <2>3. PICK at : at = IF v \in ToSet(votes[k][d]) THEN "post" ELSE "log"
    OBVIOUS
  <2>4. handler' = [at |-> at, voter |-> v, commit |-> k, decision |-> d, loaded |-> lists]
    BY <1>1, <2>2, <2>3 DEF Click
  <2>5. votes[k][d] \in Seq(Voters) /\ NoVoterTwice(votes[k][d])
    BY <1>0 DEF VotesTyped, VoteLists, FileIsRecorded
  <2>6. /\ Voted(votes[k][d], v) \in Seq(Voters) /\ NoVoterTwice(Voted(votes[k][d], v))
        /\ ToSet(Voted(votes[k][d], v)) \subseteq ToSet(votes[k][d]) \cup {v}
    BY <2>5, VoteTypes
  <2>7. /\ lists \in VoteLists /\ lists[k][d] = Voted(votes[k][d], v)
        /\ \A kk \in Commits, dd \in Buttons : kk # k \/ dd # d => lists[kk][dd] = votes[kk][dd]
    BY <1>0, <2>2, <2>6 DEF VotesTyped, VoteLists
  <2>8. at \in ClickSteps /\ at # "dispatch" /\ (at # "log" => lists[k][d] = votes[k][d])
    BY <2>3, <2>7 DEF ClickSteps, Voted
  <2>9. handler' \in ClickRecord
    BY <2>4, <2>7, <2>8 DEF ClickRecord
  <2>10. /\ handler'.at = at /\ handler'.voter = v /\ handler'.commit = k /\ handler'.decision = d
         /\ handler'.loaded = lists
    BY <2>4
  <2>11. VotesTyped'
    BY <1>0, <2>1, <2>9 DEF VotesTyped
  <2>12. LoadedIsRecorded'
    <3> SUFFICES ASSUME NEW kk \in Commits, NEW dd \in Buttons
                 PROVE  /\ NoVoterTwice(lists[kk][dd])
                        /\ ToSet(lists[kk][dd]) \subseteq Recorded(kk, dd) \cup Unrecorded(kk, dd)'
      BY <2>1, <2>10 DEF LoadedIsRecorded, Recorded
    <3>1. NoVoterTwice(votes[kk][dd]) /\ ToSet(votes[kk][dd]) \subseteq Recorded(kk, dd)
      BY <1>0 DEF FileIsRecorded
    <3>2. CASE kk # k \/ dd # d
      BY <2>7, <3>1, <3>2
    <3>3. CASE kk = k /\ dd = d /\ at = "log"
      BY <2>6, <2>7, <2>10, <3>1, <3>3 DEF Unrecorded
    <3>4. CASE kk = k /\ dd = d /\ at # "log"
      BY <2>6, <2>7, <2>8, <3>1, <3>4
    <3> QED
      BY <3>2, <3>3, <3>4
  <2>13. EnoughToDispatch'
    BY <2>8, <2>10 DEF EnoughToDispatch
  <2> QED
    BY <1>b, <1>c, <2>1, <2>11, <2>12, <2>13 DEF ApprovalInv
<1>2. CASE LogApproval
  <2>1. UNCHANGED <<votes, dispatched, clicks, losses>> /\ Goto("log", "post")
        /\ approvalRows' = approvalRows \cup {<<handler.commit, handler.voter, handler.decision>>}
    BY <1>2 DEF LogApproval
  <2>2. /\ handler \in ClickRecord /\ handler # Waiting /\ handler' \in ClickRecord /\ handler.at = "log"
        /\ handler'.at = "post" /\ handler'.loaded = handler.loaded
    BY <1>e, <2>1 DEF ClickSteps, Goto
  <2>3. VotesTyped'
    <3>1. IsFiniteSet(approvalRows')
      BY <1>0, <2>1, FS_AddElement DEF VotesTyped
    <3>2. approvalRows' \subseteq Commits \X Voters \X Buttons
      BY <1>0, <2>1, <2>2 DEF VotesTyped, ClickRecord
    <3> QED
      BY <1>0, <2>1, <2>2, <3>1, <3>2 DEF VotesTyped
  <2>4. ASSUME NEW k \in Commits, NEW d \in Buttons
        PROVE  Recorded(k, d) \cup Unrecorded(k, d) \subseteq Recorded(k, d)'
    BY <2>1, <2>2 DEF Recorded, Unrecorded, ClickRecord
  <2>5. FileIsRecorded' /\ LoadedIsRecorded'
    BY <1>0, <2>1, <2>2, <2>4 DEF FileIsRecorded, LoadedIsRecorded
  <2>6. EnoughToDispatch'
    BY <2>2 DEF EnoughToDispatch
  <2>7. DispatchedIsApproved'
    <3> SUFFICES ASSUME NEW k \in dispatched
                 PROVE  Cardinality(Recorded(k, "approved")') >= RequiredApprovals
      BY <2>1 DEF DispatchedIsApproved, Recorded
    <3>1. k \in Commits /\ "approved" \in Buttons
      BY <1>0 DEF VotesTyped, Buttons
    <3>2. Cardinality(Recorded(k, "approved")) >= RequiredApprovals
      BY <1>0 DEF DispatchedIsApproved, Recorded
    <3>3. IsFiniteSet(Recorded(k, "approved")')
      <4>1. [v \in Recorded(k, "approved")' |-> <<k, v, "approved">>]
                \in Injection(Recorded(k, "approved")', approvalRows')
        BY DEF Recorded, Injection, IsInjective
      <4> QED
        BY <2>3, <4>1, FS_Injection DEF VotesTyped
    <3>4. Recorded(k, "approved") \subseteq Recorded(k, "approved")'
      BY <2>4, <3>1
    <3>5. /\ Cardinality(Recorded(k, "approved")) <= Cardinality(Recorded(k, "approved")')
          /\ IsFiniteSet(Recorded(k, "approved"))
      BY <3>3, <3>4, FS_Subset
    <3>6. Cardinality(Recorded(k, "approved")) \in Nat /\ Cardinality(Recorded(k, "approved")') \in Nat
      BY <3>3, <3>5, FS_CardinalityType
    <3> QED
      BY <3>2, <3>5, <3>6
  <2> QED
    BY <2>3, <2>5, <2>6, <2>7 DEF ApprovalInv
<1>3. CASE PostUpdate
  <2>1. UNCHANGED <<votes, approvalRows, dispatched, clicks, losses>> /\ Goto("post", "save")
    BY <1>3 DEF PostUpdate
  <2>2. /\ handler \in ClickRecord /\ handler # Waiting /\ handler' \in ClickRecord /\ handler.at = "post"
        /\ handler'.at = "save" /\ handler'.loaded = handler.loaded
    BY <1>e, <2>1 DEF ClickSteps, Goto
  <2>3. VotesTyped'
    BY <1>0, <2>1, <2>2 DEF VotesTyped
  <2>4. LoadedIsRecorded' /\ EnoughToDispatch'
    BY <1>0, <2>1, <2>2 DEF LoadedIsRecorded, EnoughToDispatch, Unrecorded, Recorded
  <2> QED
    BY <1>b, <1>c, <2>1, <2>3, <2>4 DEF ApprovalInv
<1>4. CASE SaveApprovals
  <2>1. UNCHANGED <<approvalRows, dispatched, clicks, losses>> /\ votes' = handler.loaded /\ handler.at = "save"
    BY <1>4 DEF SaveApprovals
  <2>2. handler \in ClickRecord /\ handler # Waiting
    BY <1>a, <2>1 DEF ClickSteps
  <2>3. PICK next : next = IF Approvers(handler.loaded[handler.commit]) >= RequiredApprovals
                           THEN "dispatch" ELSE "reply"
    OBVIOUS
  <2>4. next \in ClickSteps /\ next # "log" /\ handler' = [handler EXCEPT !.at = next]
    BY <1>4, <2>3 DEF SaveApprovals, ClickSteps
  <2>5. /\ handler' \in ClickRecord /\ handler'.at = next /\ handler'.loaded = handler.loaded
        /\ handler'.commit = handler.commit
    BY <2>2, <2>4 DEF ClickRecord
  <2>6. VotesTyped'
    BY <1>0, <2>1, <2>2, <2>5 DEF VotesTyped, ClickRecord
  <2>7. \A k \in Commits, d \in Buttons : Unrecorded(k, d) = {} /\ Recorded(k, d)' = Recorded(k, d)
    BY <2>1 DEF Unrecorded, Recorded
  <2>8. FileIsRecorded' /\ LoadedIsRecorded'
    BY <1>0, <2>1, <2>2, <2>5, <2>7 DEF FileIsRecorded, LoadedIsRecorded
  <2>9. EnoughToDispatch'
    BY <2>3, <2>5 DEF EnoughToDispatch
  <2> QED
    BY <1>b, <2>1, <2>6, <2>8, <2>9 DEF ApprovalInv
<1>5. CASE Dispatch
  <2>1. UNCHANGED <<votes, approvalRows, clicks, losses>> /\ handler' = Waiting /\ handler.at = "dispatch"
        /\ dispatched' = dispatched \cup {handler.commit}
    BY <1>5 DEF Dispatch
  <2>2. handler \in ClickRecord /\ handler # Waiting
    BY <1>a, <2>1 DEF ClickSteps
  <2>3. PICK k : k = handler.commit
    OBVIOUS
  <2>4. k \in Commits /\ "approved" \in Buttons /\ handler.loaded \in VoteLists
    BY <2>2, <2>3 DEF ClickRecord, Buttons
  <2>5. PICK list : list = handler.loaded[k]["approved"]
    OBVIOUS
  <2>6. /\ list \in Seq(Voters) /\ NoVoterTwice(list)
        /\ ToSet(list) \subseteq Recorded(k, "approved")
    BY <1>0, <2>1, <2>2, <2>4, <2>5 DEF LoadedIsRecorded, Unrecorded, VoteLists
  <2>7. IsFiniteSet(approvalRows)
    BY <1>0 DEF VotesTyped
  <2>8. IsFiniteSet(Recorded(k, "approved")) /\ Len(list) <= Cardinality(Recorded(k, "approved"))
    BY <2>4, <2>6, <2>7, ListsAreCounted
  <2>9. Cardinality(Recorded(k, "approved")) \in Nat /\ Len(list) \in Nat
    BY <2>6, <2>8, FS_CardinalityType
  <2>10. Len(list) >= RequiredApprovals
    BY <1>0, <2>1, <2>3, <2>5 DEF EnoughToDispatch, Approvers
  <2>11. Cardinality(Recorded(k, "approved")) >= RequiredApprovals
    BY <2>8, <2>9, <2>10
  <2>12. DispatchedIsApproved'
    BY <1>0, <2>1, <2>3, <2>11 DEF DispatchedIsApproved, Recorded
  <2>13. VotesTyped'
    BY <1>0, <2>1, <2>3, <2>4 DEF VotesTyped
  <2> QED
    BY <1>c, <1>d, <2>1, <2>12, <2>13 DEF ApprovalInv
<1>6. CASE Reply \/ HandlerRaises
  <2>1. UNCHANGED <<votes, approvalRows, dispatched, clicks, losses>> /\ handler' = Waiting
    BY <1>6 DEF Reply, HandlerRaises
  <2>2. VotesTyped'
    BY <1>0, <2>1 DEF VotesTyped
  <2> QED
    BY <1>b, <1>c, <1>d, <2>1, <2>2 DEF ApprovalInv
<1>7. CASE LoseFile
  <2>1. UNCHANGED <<approvalRows, dispatched, clicks>> /\ handler' = Waiting /\ votes' = NoVotes
        /\ losses' \in 0 .. MaxLosses
    BY <1>0, <1>7 DEF LoseFile, VotesTyped
  <2>2. NoVotes \in VoteLists /\ FileIsRecorded'
    BY <2>1 DEF NoVotes, VoteLists, FileIsRecorded, NoVoterTwice, ToSet
  <2>3. VotesTyped'
    BY <1>0, <2>1, <2>2 DEF VotesTyped
  <2> QED
    BY <1>b, <1>d, <2>1, <2>2, <2>3 DEF ApprovalInv
<1>8. CASE UNCHANGED approvalVars
  <2>1. UNCHANGED <<votes, handler, approvalRows, dispatched, clicks, losses>>
    BY <1>8 DEF approvalVars
  <2>2. VotesTyped' /\ LoadedIsRecorded' /\ EnoughToDispatch'
    BY <1>0, <2>1 DEF VotesTyped, LoadedIsRecorded, EnoughToDispatch, Recorded, Unrecorded
  <2> QED
    BY <1>b, <1>c, <2>1, <2>2 DEF ApprovalInv
<1> QED
  BY <1>1, <1>2, <1>3, <1>4, <1>5, <1>6, <1>7, <1>8 DEF ApprovalNext

\* The workflow is dispatched for a commit only when REQUIRED_APPROVALS different people have a
\* row of approval for it, whatever raised half way and whenever the file was lost.
THEOREM DispatchesAreApproved == ApprovalSpec => []DispatchedIsApproved
<1>1. ApprovalInv => DispatchedIsApproved
  BY DEF ApprovalInv
<1> QED
  BY <1>1, ApprovalInitInv, ApprovalStep, PTL DEF ApprovalSpec

\* A click is handled with the votes of some commits, wherever it raised before.
THEOREM ApprovalsTyped == ApprovalSpec => []ApprovalTypeOK
<1>1. ApprovalInv => ApprovalTypeOK
  BY DEF ApprovalInv, VotesTyped, ApprovalTypeOK, VoteLists, ClickRecord, ClickSteps
<1> QED
  BY <1>1, ApprovalInitInv, ApprovalStep, PTL DEF ApprovalSpec

-----------------------------------------------------------------------------
(* DatasetExport: nothing but the second keeps exports apart.  An export   *)
(* that began alone in its second stays alone on its tag, so what it finds *)
(* in its files is its own; begunAt tells who was not alone                *)

ExportSteps == {"idle", "labels", "open", "write", "manifest", "commit"}
Seconds == 0 .. MaxSeconds

\* What an export collects has at most one line for each piece of feedback.
Collections ==
    {S \in SUBSET (Feedback \X Labels) : IsFiniteSet(S) /\ Cardinality(S) <= Cardinality(Feedback)}
ExporterRecord == [step : ExportSteps, ws : Workspaces \cup {"-"}, most : Maxima \cup {0}, tag : Seconds,
                   approved : SUBSET Feedback, records : Collections]
ManifestRecord == [ws : Workspaces \cup {"-"}, count : 0 .. Cardinality(Feedback)]
DatasetRecord == [ws : Workspaces \cup {"-"}, tag : Seconds, records : Collections]

Exporting(e) == exporter[e].step # "idle"
TagOf(e) == exporter[e].tag

\* The types of what an export leaves alone and of what it writes.
FeedbackTyped ==
    /\ second \in Seconds
    /\ owner \in [Feedback -> Workspaces]
    /\ review \in [Feedback -> Reviews]
    /\ label \in [Feedback -> Labels]
    /\ edits \in 0 .. MaxReviews /\ exports \in 0 .. MaxExports
FilesTyped ==
    /\ file \in [Seconds -> SUBSET (Feedback \X Labels)]
    /\ manifest \in [Seconds -> ManifestRecord]
    /\ datasets \subseteq DatasetRecord
    /\ begunAt \in [Seconds -> Nat]
ExportersTyped == exporter \in [Exporters -> ExporterRecord]

\* An export, under way or kept, began in the second of its tag.
ExportsHaveBegun ==
    /\ \A e \in Exporters : Exporting(e) => begunAt[TagOf(e)] >= 1
    /\ \A d \in datasets : begunAt[d.tag] >= 1

\* Two exports with one tag, each under way or kept, both began in that second.
SharersHaveBegun ==
    /\ \A e, g \in Exporters : e # g /\ Exporting(e) /\ Exporting(g) /\ TagOf(e) = TagOf(g)
            => begunAt[TagOf(e)] > 1
    /\ \A e \in Exporters, d \in datasets : Exporting(e) /\ d.tag = TagOf(e) => begunAt[d.tag] > 1
    /\ \A c, d \in datasets : c # d /\ c.tag = d.tag => begunAt[d.tag] > 1

\* An export that is alone finds its files as it left them.
FilesOf(e) ==
    Exporting(e) /\ begunAt[TagOf(e)] <= 1 =>
        /\ At(e, "write") => file[TagOf(e)] = {}
        /\ At(e, "manifest") \/ At(e, "commit") => file[TagOf(e)] = exporter[e].records
        /\ At(e, "commit") => manifest[TagOf(e)] =
               [ws |-> exporter[e].ws, count |-> Cardinality(exporter[e].records)]

ExportInv ==
    /\ FeedbackTyped /\ FilesTyped /\ ExportersTyped
    /\ ExportsHaveBegun /\ SharersHaveBegun
    /\ (\A e \in Exporters : FilesOf(e)) /\ DatasetsHaveFiles

\* What is collected of some feedback is a collection.
LEMMA LabelsAreCollected ==
    ASSUME label \in [Feedback -> Labels], NEW S \in SUBSET Feedback
    PROVE  {<<f, label[f]>> : f \in S} \in Collections
<1>1. IsFiniteSet(Feedback)
  BY ExportAssumption
<1>2. IsFiniteSet(S) /\ Cardinality(S) <= Cardinality(Feedback)
  BY <1>1, FS_Subset
<1>3. PICK T : T = {<<f, label[f]>> : f \in S}
  OBVIOUS
<1>4. [f \in S |-> <<f, label[f]>>] \in Surjection(S, T)
  BY <1>3 DEF Surjection
<1>5. IsFiniteSet(T) /\ Cardinality(T) <= Cardinality(S)
  BY <1>2, <1>4, FS_Surjection
<1>6. Cardinality(T) \in Nat /\ Cardinality(S) \in Nat /\ Cardinality(Feedback) \in Nat
  BY <1>1, <1>2, <1>5, FS_CardinalityType
<1>7. Cardinality(T) <= Cardinality(Feedback)
  BY <1>2, <1>5, <1>6
<1>8. T \subseteq Feedback \X Labels
  BY <1>3
<1> QED
  BY <1>3, <1>5, <1>7, <1>8 DEF Collections

\* Nothing collected is a collection, and a collection can be counted.
LEMMA CollectionsCount ==
    {} \in Collections /\ \A S \in Collections : Cardinality(S) \in 0 .. Cardinality(Feedback)
<1>1. Cardinality(Feedback) \in Nat
  BY ExportAssumption, FS_CardinalityType
<1>2. {} \in Collections
  BY <1>1, FS_EmptySet DEF Collections
<1>3. ASSUME NEW S \in Collections PROVE Cardinality(S) \in 0 .. Cardinality(Feedback)
  <2>1. Cardinality(S) \in Nat /\ Cardinality(S) <= Cardinality(Feedback)
    BY <1>3, FS_CardinalityType DEF Collections
  <2> QED
    BY <1>1, <2>1
<1> QED
  BY <1>2, <1>3

\* The first state satisfies the inductive invariant.
LEMMA ExportInitInv == ExportInit => ExportInv
<1> SUFFICES ASSUME ExportInit PROVE ExportInv
  OBVIOUS
<1> USE ExportAssumption DEF ExportInit
<1>1. 0 \in Seconds /\ 0 \in 0 .. MaxReviews /\ 0 \in 0 .. MaxExports /\ 0 \in 0 .. Cardinality(Feedback)
  BY CollectionsCount, FS_CardinalityType DEF Seconds
<1>2. NotExporting \in ExporterRecord /\ NoManifest \in ManifestRecord
  BY <1>1, CollectionsCount DEF NotExporting, NoManifest, ExporterRecord, ManifestRecord, ExportSteps
<1>3. FeedbackTyped /\ FilesTyped /\ ExportersTyped
  BY <1>1, <1>2 DEF FeedbackTyped, FilesTyped, ExportersTyped, Seconds
<1>4. \A e \in Exporters : ~Exporting(e)
  BY DEF Exporting, NotExporting
<1>5. ExportsHaveBegun /\ SharersHaveBegun /\ (\A e \in Exporters : FilesOf(e)) /\ DatasetsHaveFiles
  BY <1>4 DEF ExportsHaveBegun, SharersHaveBegun, FilesOf, DatasetsHaveFiles
<1> QED
  BY <1>3, <1>5 DEF ExportInv

\* An exporter that is written has a record of its type, and the others stay as they are.
LEMMA ExporterWrites ==
    ASSUME ExportersTyped, NEW e \in Exporters, NEW x \in ExporterRecord,
           exporter' = [exporter EXCEPT ![e] = x]
    PROVE  /\ ExportersTyped' /\ exporter'[e] = x
           /\ \A g \in Exporters \ {e} : exporter'[g] = exporter[g]
BY DEF ExportersTyped

\* The step of an exporter changes and nothing else of it.
LEMMA ExporterGoes ==
    ASSUME ExportersTyped, NEW e \in Exporters, NEW next \in ExportSteps, To(e, next)
    PROVE  /\ ExportersTyped' /\ exporter'[e] = [exporter[e] EXCEPT !.step = next]
           /\ exporter'[e].step = next /\ exporter'[e].tag = exporter[e].tag
           /\ exporter'[e].ws = exporter[e].ws /\ exporter'[e].records = exporter[e].records
           /\ \A g \in Exporters \ {e} : exporter'[g] = exporter[g]
<1>1. exporter[e] \in ExporterRecord
  BY DEF ExportersTyped
<1>2. [exporter[e] EXCEPT !.step = next] \in ExporterRecord
  BY <1>1 DEF ExporterRecord
<1>3. exporter' = [exporter EXCEPT ![e] = [exporter[e] EXCEPT !.step = next]]
  BY <1>1 DEF To, ExportersTyped
<1>4. /\ ExportersTyped' /\ exporter'[e] = [exporter[e] EXCEPT !.step = next]
      /\ \A g \in Exporters \ {e} : exporter'[g] = exporter[g]
  BY <1>2, <1>3, ExporterWrites
<1> QED
  BY <1>1, <1>4 DEF ExporterRecord

\* An export that is at work on its files keeps what the others count on: it shares its tag
\* with none that is alone.
LEMMA ExportGoesOn ==
    ASSUME ExportInv, NEW e \in Exporters, Exporting(e),
           exporter'[e].tag = exporter[e].tag,
           \A g \in Exporters \ {e} : exporter'[g] = exporter[g],
           UNCHANGED <<datasets, begunAt>>,
           \A t \in Seconds \ {TagOf(e)} : file'[t] = file[t] /\ manifest'[t] = manifest[t],
           FilesOf(e)'
    PROVE  ExportsHaveBegun' /\ SharersHaveBegun' /\ (\A g \in Exporters : FilesOf(g)') /\ DatasetsHaveFiles'
<1>0. /\ FilesTyped /\ ExportersTyped /\ ExportsHaveBegun /\ SharersHaveBegun
      /\ (\A g \in Exporters : FilesOf(g)) /\ DatasetsHaveFiles
  BY DEF ExportInv
<1>1. \A g \in Exporters : Exporting(g)' => Exporting(g) /\ TagOf(g)' = TagOf(g)
  BY DEF Exporting, TagOf
<1>2. (\A g \in Exporters : TagOf(g) \in Seconds) /\ (\A d \in datasets : d.tag \in Seconds)
  BY <1>0 DEF ExportersTyped, FilesTyped, TagOf, ExporterRecord, DatasetRecord
<1>3. ExportsHaveBegun' /\ SharersHaveBegun'
  BY <1>0, <1>1 DEF ExportsHaveBegun, SharersHaveBegun
<1>a. \A t \in Seconds : begunAt[t] \in Nat
  BY <1>0 DEF FilesTyped
<1>4. ASSUME NEW g \in Exporters \ {e} PROVE FilesOf(g)'
  <2>1. CASE Exporting(g) /\ TagOf(g) = TagOf(e)
    <3>1. begunAt[TagOf(g)] > 1
      BY <1>0, <2>1 DEF SharersHaveBegun
    <3>2. ~(begunAt'[TagOf(g)'] <= 1)
      BY <1>1, <1>2, <1>a, <3>1 DEF TagOf
    <3> QED
      BY <3>2 DEF FilesOf, TagOf
  <2>2. CASE ~Exporting(g)
    BY <2>2 DEF FilesOf, Exporting
  <2>3. CASE TagOf(g) # TagOf(e)
    <3>1. file'[TagOf(g)] = file[TagOf(g)] /\ manifest'[TagOf(g)] = manifest[TagOf(g)] /\ TagOf(g)' = TagOf(g)
      BY <1>2, <2>3 DEF TagOf
    <3> QED
      BY <1>0, <3>1 DEF FilesOf, Exporting, At, TagOf
  <2> QED
    BY <2>1, <2>2, <2>3
<1>5. DatasetsHaveFiles'
  <2> SUFFICES ASSUME NEW d \in datasets
               PROVE  \/ /\ file'[d.tag] = d.records
                         /\ manifest'[d.tag] = [ws |-> d.ws, count |-> Cardinality(d.records)]
                      \/ begunAt'[d.tag] > 1
    BY DEF DatasetsHaveFiles
  <2>1. CASE d.tag = TagOf(e)
    BY <1>0, <2>1 DEF SharersHaveBegun
  <2>2. CASE d.tag # TagOf(e)
    BY <1>0, <1>2, <2>2 DEF DatasetsHaveFiles
  <2> QED
    BY <2>1, <2>2
<1> QED
  BY <1>3, <1>4, <1>5

\* A step that leaves the exports and their files alone.
LEMMA ExportsStay ==
    ASSUME ExportInv, UNCHANGED <<exporter, file, manifest, datasets, begunAt>>, FeedbackTyped'
    PROVE  ExportInv'
BY DEF ExportInv, FilesTyped, ExportersTyped, ExportsHaveBegun, SharersHaveBegun, FilesOf, DatasetsHaveFiles,
     Exporting, TagOf, At

\* Every step preserves the inductive invariant.
LEMMA ExportStep == ExportInv /\ [ExportNext]_exportVars => ExportInv'
<1> SUFFICES ASSUME ExportInv, [ExportNext]_exportVars PROVE ExportInv'
  OBVIOUS
<1> USE ExportAssumption
<1>0. /\ FeedbackTyped /\ FilesTyped /\ ExportersTyped /\ ExportsHaveBegun /\ SharersHaveBegun
      /\ (\A e \in Exporters : FilesOf(e)) /\ DatasetsHaveFiles
  BY DEF ExportInv
<1>a. /\ \A e \in Exporters : exporter[e] \in ExporterRecord /\ TagOf(e) \in Seconds
      /\ \A d \in datasets : d.tag \in Seconds
      /\ \A t \in Seconds : begunAt[t] \in Nat
  BY <1>0 DEF ExportersTyped, FilesTyped, ExporterRecord, DatasetRecord, TagOf
<1>1. ASSUME NEW f \in Feedback, NEW s \in Reviews \ {"none"}, ReviewFeedback(f, s) PROVE ExportInv'
  <2>1. FeedbackTyped'
    BY <1>0, <1>1 DEF ReviewFeedback, Edit, FeedbackTyped
  <2> QED
    BY <1>1, <2>1, ExportsStay DEF ReviewFeedback
<1>2. ASSUME NEW f \in Feedback, NEW l \in Labels \ {"none"}, LabelFeedback(f, l) PROVE ExportInv'
  <2>1. FeedbackTyped'
    BY <1>0, <1>2 DEF LabelFeedback, Edit, FeedbackTyped
  <2> QED
    BY <1>2, <2>1, ExportsStay DEF LabelFeedback
<1>3. ASSUME NEW e \in Exporters, NEW ws \in Workspaces, NEW most \in Maxima, BeginExport(e, ws, most)
      PROVE ExportInv'
  <2>1. UNCHANGED <<second, owner, review, label, file, manifest, datasets, edits>> /\ ~Exporting(e)
    BY <1>3 DEF BeginExport, At, Exporting
  <2>2. PICK approved : approved = {f \in Feedback : owner[f] = ws /\ review[f] = "approved"}
    OBVIOUS
  <2>3. PICK x : x = [step |-> "labels", ws |-> ws, most |-> most, tag |-> second,
                      approved |-> approved, records |-> {}]
    OBVIOUS
  <2>4. exporter' = [exporter EXCEPT ![e] = x]
    BY <1>3, <2>2, <2>3 DEF BeginExport
  <2>5. x \in ExporterRecord /\ x.step = "labels" /\ x.tag = second
    BY <1>0, <2>2, <2>3, CollectionsCount DEF ExporterRecord, ExportSteps, FeedbackTyped
  <2>6. /\ ExportersTyped' /\ exporter'[e] = x
        /\ \A g \in Exporters \ {e} : exporter'[g] = exporter[g]
    BY <1>0, <2>4, <2>5, ExporterWrites
  <2>7. second \in Seconds /\ begunAt[second] \in Nat
    BY <1>0, <1>a DEF FeedbackTyped
  <2>8. /\ begunAt' \in [Seconds -> Nat] /\ begunAt'[second] = begunAt[second] + 1
        /\ \A t \in Seconds : begunAt'[t] >= begunAt[t] /\ begunAt'[t] \in Nat
    BY <1>0, <1>3, <1>a, <2>7 DEF BeginExport, FilesTyped
  <2>9. FeedbackTyped' /\ FilesTyped'
    BY <1>0, <1>3, <2>1, <2>8 DEF BeginExport, FeedbackTyped, FilesTyped
  <2>10. \A g \in Exporters \ {e} : Exporting(g)' = Exporting(g) /\ TagOf(g)' = TagOf(g)
    BY <2>6 DEF Exporting, TagOf
  <2>11. TagOf(e)' = second /\ ~At(e, "write")' /\ ~At(e, "manifest")' /\ ~At(e, "commit")'
    BY <2>5, <2>6 DEF TagOf, At
  <2>12. ExportsHaveBegun'
    <3>1. \A g \in Exporters \ {e} : Exporting(g) => begunAt'[TagOf(g)] >= 1
      BY <1>0, <1>a, <2>8 DEF ExportsHaveBegun
    <3>2. \A d \in datasets : begunAt'[d.tag] >= 1
      BY <1>0, <1>a, <2>8 DEF ExportsHaveBegun
    <3>3. begunAt'[second] >= 1
      BY <2>7, <2>8
    <3> QED
      BY <2>1, <2>10, <2>11, <3>1, <3>2, <3>3 DEF ExportsHaveBegun
  <2>13. SharersHaveBegun'
    <3>1. \A t \in Seconds : begunAt[t] > 1 => begunAt'[t] > 1
      BY <1>a, <2>8
    <3>2. begunAt[second] >= 1 => begunAt'[second] > 1
      BY <2>7, <2>8
    <3>3. \A g \in Exporters \ {e} : Exporting(g) /\ TagOf(g) = second => begunAt'[second] > 1
      BY <1>0, <3>2 DEF ExportsHaveBegun
    <3>4. \A d \in datasets : d.tag = second => begunAt'[second] > 1
      BY <1>0, <3>2 DEF ExportsHaveBegun
    <3>5. \A g, h \in Exporters \ {e} : g # h /\ Exporting(g) /\ Exporting(h) /\ TagOf(g) = TagOf(h)
            => begunAt'[TagOf(g)] > 1
      BY <1>0, <1>a, <3>1 DEF SharersHaveBegun
    <3>6. \A g \in Exporters \ {e}, d \in datasets : Exporting(g) /\ d.tag = TagOf(g) => begunAt'[d.tag] > 1
      BY <1>0, <1>a, <3>1 DEF SharersHaveBegun
    <3>7. \A c, d \in datasets : c # d /\ c.tag = d.tag => begunAt'[d.tag] > 1
      BY <1>0, <1>a, <3>1 DEF SharersHaveBegun
    <3>8. \A g, h \in Exporters : g # h /\ Exporting(g)' /\ Exporting(h)' /\ TagOf(g)' = TagOf(h)'
            => begunAt'[TagOf(g)'] > 1
      BY <2>10, <2>11, <3>3, <3>5
    <3>9. \A g \in Exporters, d \in datasets : Exporting(g)' /\ d.tag = TagOf(g)' => begunAt'[d.tag] > 1
      BY <2>10, <2>11, <3>4, <3>6
    <3> QED
      BY <2>1, <3>7, <3>8, <3>9 DEF SharersHaveBegun
  <2>14. \A g \in Exporters : FilesOf(g)'
    <3>1. FilesOf(e)'
      BY <2>11 DEF FilesOf
    <3>2. ASSUME NEW g \in Exporters \ {e} PROVE FilesOf(g)'
      <4>1. begunAt'[TagOf(g)] <= 1 => begunAt[TagOf(g)] <= 1
        BY <1>a, <2>8
      <4>2. (At(g, "write")' <=> At(g, "write")) /\ (At(g, "manifest")' <=> At(g, "manifest"))
            /\ (At(g, "commit")' <=> At(g, "commit"))
        BY <2>6 DEF At
      <4> QED
        BY <1>0, <2>1, <2>6, <2>10, <4>1, <4>2 DEF FilesOf
    <3> QED
      BY <3>1, <3>2
  <2>15. DatasetsHaveFiles'
    <3>1. \A d \in datasets : begunAt[d.tag] > 1 => begunAt'[d.tag] > 1
      BY <1>a, <2>8
    <3> QED
      BY <1>0, <2>1, <3>1 DEF DatasetsHaveFiles
  <2> QED
    BY <2>6, <2>9, <2>12, <2>13, <2>14, <2>15 DEF ExportInv
<1>4. ASSUME NEW e \in Exporters, ReadLabels(e) PROVE ExportInv'
  <2>1. UNCHANGED <<second, owner, review, label, file, manifest, datasets, edits, exports, begunAt>>
        /\ exporter[e].step = "labels"
    BY <1>4 DEF ReadLabels, At
  <2>2. PICK S : S = Kept({f \in exporter[e].approved : Usable(f)}, exporter[e].most)
    OBVIOUS
  <2>3. PICK collected : collected = {<<f, label[f]>> : f \in S}
    OBVIOUS
  <2>4. S \in SUBSET Feedback
    BY <1>a, <2>2 DEF Kept, ExporterRecord
  <2>5. collected \in Collections
    BY <1>0, <2>3, <2>4, LabelsAreCollected DEF FeedbackTyped
  <2>6. PICK x : x = [exporter[e] EXCEPT !.step = "open", !.records = collected]
    OBVIOUS
  <2>7. x \in ExporterRecord /\ x.step = "open" /\ x.tag = exporter[e].tag
    BY <1>a, <2>5, <2>6 DEF ExporterRecord, ExportSteps
  <2>8. exporter' = [exporter EXCEPT ![e] = x]
    BY <1>0, <1>4, <2>2, <2>3, <2>6 DEF ReadLabels, ExportersTyped
  <2>9. /\ ExportersTyped' /\ exporter'[e] = x
        /\ \A g \in Exporters \ {e} : exporter'[g] = exporter[g]
    BY <1>0, <2>7, <2>8, ExporterWrites
  <2>10. Exporting(e) /\ FilesOf(e)' /\ exporter'[e].tag = exporter[e].tag
    BY <2>1, <2>7, <2>9 DEF Exporting, FilesOf, At
  <2>11. ExportsHaveBegun' /\ SharersHaveBegun' /\ (\A g \in Exporters : FilesOf(g)') /\ DatasetsHaveFiles'
    BY <2>1, <2>9, <2>10, ExportGoesOn
  <2> QED
    BY <1>0, <2>1, <2>9, <2>11 DEF ExportInv, FeedbackTyped, FilesTyped
<1>5. ASSUME NEW e \in Exporters, OpenFile(e) PROVE ExportInv'
  <2>1. UNCHANGED <<second, owner, review, label, manifest, datasets, edits, exports, begunAt>>
        /\ exporter[e].step = "open" /\ To(e, "write") /\ "write" \in ExportSteps
        /\ file' = [file EXCEPT ![TagOf(e)] = {}]
    BY <1>5 DEF OpenFile, At, ExportSteps, TagOf
  <2>2. /\ ExportersTyped' /\ exporter'[e].step = "write" /\ exporter'[e].tag = exporter[e].tag
        /\ \A g \in Exporters \ {e} : exporter'[g] = exporter[g]
    BY <1>0, <2>1, ExporterGoes
  <2>3. /\ file' \in [Seconds -> SUBSET (Feedback \X Labels)] /\ file'[TagOf(e)] = {}
        /\ \A t \in Seconds \ {TagOf(e)} : file'[t] = file[t]
    BY <1>0, <1>a, <2>1 DEF FilesTyped
  <2>4. Exporting(e) /\ FilesOf(e)'
    BY <2>1, <2>2, <2>3 DEF Exporting, FilesOf, At, TagOf
  <2>5. ExportsHaveBegun' /\ SharersHaveBegun' /\ (\A g \in Exporters : FilesOf(g)') /\ DatasetsHaveFiles'
    BY <2>1, <2>2, <2>3, <2>4, ExportGoesOn
  <2> QED
    BY <1>0, <2>1, <2>2, <2>3, <2>5 DEF ExportInv, FeedbackTyped, FilesTyped
<1>6. ASSUME NEW e \in Exporters, WriteFile(e) PROVE ExportInv'
  <2>1. UNCHANGED <<second, owner, review, label, manifest, datasets, edits, exports, begunAt>>
        /\ exporter[e].step = "write" /\ To(e, "manifest") /\ "manifest" \in ExportSteps
        /\ file' = [file EXCEPT ![TagOf(e)] = Overlaid(exporter[e].records, @)]
    BY <1>6 DEF WriteFile, At, ExportSteps, TagOf
  <2>2. /\ ExportersTyped' /\ exporter'[e].step = "manifest" /\ exporter'[e].tag = exporter[e].tag
        /\ exporter'[e].records = exporter[e].records
        /\ \A g \in Exporters \ {e} : exporter'[g] = exporter[g]
    BY <1>0, <2>1, ExporterGoes
  <2>3. exporter[e].records \in SUBSET (Feedback \X Labels) /\ file[TagOf(e)] \in SUBSET (Feedback \X Labels)
    BY <1>0, <1>a DEF ExporterRecord, Collections, FilesTyped
  <2>4. Overlaid(exporter[e].records, file[TagOf(e)]) \in SUBSET (Feedback \X Labels)
        /\ Overlaid(exporter[e].records, {}) = exporter[e].records
    BY <2>3 DEF Overlaid
  <2>5. /\ file' \in [Seconds -> SUBSET (Feedback \X Labels)]
        /\ file'[TagOf(e)] = Overlaid(exporter[e].records, file[TagOf(e)])
        /\ \A t \in Seconds \ {TagOf(e)} : file'[t] = file[t]
    BY <1>0, <1>a, <2>1, <2>4 DEF FilesTyped
  <2>6. Exporting(e) /\ FilesOf(e)'
    <3>1. begunAt[TagOf(e)] <= 1 => file[TagOf(e)] = {}
      BY <1>0, <2>1 DEF FilesOf, Exporting, At
    <3> QED
      BY <2>1, <2>2, <2>4, <2>5, <3>1 DEF Exporting, FilesOf, At, TagOf
  <2>7. ExportsHaveBegun' /\ SharersHaveBegun' /\ (\A g \in Exporters : FilesOf(g)') /\ DatasetsHaveFiles'
    BY <2>1, <2>2, <2>5, <2>6, ExportGoesOn
  <2> QED
    BY <1>0, <2>1, <2>2, <2>5, <2>7 DEF ExportInv, FeedbackTyped, FilesTyped
<1>7. ASSUME NEW e \in Exporters, WriteManifest(e) PROVE ExportInv'
  <2>1. PICK m : m = [ws |-> exporter[e].ws, count |-> Cardinality(exporter[e].records)]
    OBVIOUS
  <2>2. UNCHANGED <<second, owner, review, label, file, datasets, edits, exports, begunAt>>
        /\ exporter[e].step = "manifest" /\ To(e, "commit") /\ "commit" \in ExportSteps
        /\ manifest' = [manifest EXCEPT ![TagOf(e)] = m]
    BY <1>7, <2>1 DEF WriteManifest, Counted, At, ExportSteps, TagOf
  <2>3. /\ ExportersTyped' /\ exporter'[e].step = "commit" /\ exporter'[e].tag = exporter[e].tag
        /\ exporter'[e].records = exporter[e].records /\ exporter'[e].ws = exporter[e].ws
        /\ \A g \in Exporters \ {e} : exporter'[g] = exporter[g]
    BY <1>0, <2>2, ExporterGoes
  <2>4. m \in ManifestRecord
    BY <1>a, <2>1, CollectionsCount DEF ManifestRecord, ExporterRecord
  <2>5. /\ manifest' \in [Seconds -> ManifestRecord] /\ manifest'[TagOf(e)] = m
        /\ \A t \in Seconds \ {TagOf(e)} : manifest'[t] = manifest[t]
    BY <1>0, <1>a, <2>2, <2>4 DEF FilesTyped
  <2>6. Exporting(e) /\ FilesOf(e)'
    <3>1. begunAt[TagOf(e)] <= 1 => file[TagOf(e)] = exporter[e].records
      BY <1>0, <2>2 DEF FilesOf, Exporting, At
    <3> QED
      BY <2>1, <2>2, <2>3, <2>5, <3>1 DEF Exporting, FilesOf, At, TagOf
  <2>7. ExportsHaveBegun' /\ SharersHaveBegun' /\ (\A g \in Exporters : FilesOf(g)') /\ DatasetsHaveFiles'
    BY <2>2, <2>3, <2>5, <2>6, ExportGoesOn
  <2> QED
    BY <1>0, <2>2, <2>3, <2>5, <2>7 DEF ExportInv, FeedbackTyped, FilesTyped
<1>8. ASSUME NEW e \in Exporters, CommitDataset(e) \/ ExportStops(e) PROVE ExportInv'
  <2>1. PICK kept : kept = [ws |-> exporter[e].ws, tag |-> exporter[e].tag, records |-> exporter[e].records]
    OBVIOUS
  <2>2. /\ UNCHANGED <<second, owner, review, label, file, manifest, edits, exports, begunAt>>
        /\ Exporting(e) /\ exporter' = [exporter EXCEPT ![e] = NotExporting]
        /\ datasets' = datasets \/ (At(e, "commit") /\ datasets' = datasets \cup {kept})
    BY <1>8, <2>1 DEF CommitDataset, ExportStops, At, Exporting
  <2>3. NotExporting \in ExporterRecord /\ NotExporting.step = "idle"
    BY CollectionsCount DEF NotExporting, ExporterRecord, ExportSteps, Seconds
  <2>4. /\ ExportersTyped' /\ exporter'[e] = NotExporting
        /\ \A g \in Exporters \ {e} : exporter'[g] = exporter[g]
    BY <1>0, <2>2, <2>3, ExporterWrites
  <2>5. /\ ~Exporting(e)'
        /\ \A g \in Exporters \ {e} : Exporting(g)' = Exporting(g) /\ TagOf(g)' = TagOf(g)
    BY <2>3, <2>4 DEF Exporting, TagOf
  <2>6. kept \in DatasetRecord /\ kept.tag = TagOf(e)
    BY <1>a, <2>1 DEF DatasetRecord, ExporterRecord, TagOf
  <2>7. FeedbackTyped' /\ FilesTyped'
    BY <1>0, <2>2, <2>6 DEF FeedbackTyped, FilesTyped
  <2>8. \A d \in datasets' : d \in datasets \/ (d = kept /\ At(e, "commit"))
    BY <2>2
  <2>9. ExportsHaveBegun'
    BY <1>0, <2>2, <2>5, <2>6, <2>8 DEF ExportsHaveBegun
  <2>10. SharersHaveBegun'
    <3>1. \A g, h \in Exporters : g # h /\ Exporting(g)' /\ Exporting(h)' /\ TagOf(g)' = TagOf(h)'
            => begunAt'[TagOf(g)'] > 1
      BY <1>0, <2>2, <2>5 DEF SharersHaveBegun
    <3>2. \A g \in Exporters, d \in datasets' : Exporting(g)' /\ d.tag = TagOf(g)' => begunAt'[d.tag] > 1
      BY <1>0, <2>2, <2>5, <2>6, <2>8 DEF SharersHaveBegun
    <3>3. \A c, d \in datasets' : c # d /\ c.tag = d.tag => begunAt'[d.tag] > 1
      BY <1>0, <2>2, <2>6, <2>8 DEF SharersHaveBegun
    <3> QED
      BY <3>1, <3>2, <3>3 DEF SharersHaveBegun
  <2>11. \A g \in Exporters : FilesOf(g)'
    <3>1. FilesOf(e)'
      BY <2>5 DEF FilesOf
    <3>2. ASSUME NEW g \in Exporters \ {e} PROVE FilesOf(g)'
      BY <1>0, <2>2, <2>4, <3>2 DEF FilesOf, Exporting, At, TagOf
    <3> QED
      BY <3>1, <3>2
  <2>12. DatasetsHaveFiles'
    <3> SUFFICES ASSUME NEW d \in datasets'
                 PROVE  \/ /\ file[d.tag] = d.records
                           /\ manifest[d.tag] = [ws |-> d.ws, count |-> Cardinality(d.records)]
                        \/ begunAt[d.tag] > 1
      BY <2>2 DEF DatasetsHaveFiles
    <3>1. CASE d \in datasets
      BY <1>0, <3>1 DEF DatasetsHaveFiles
    <3>2. CASE d = kept /\ At(e, "commit")
      BY <1>0, <1>a, <2>1, <2>2, <3>2 DEF FilesOf, TagOf
    <3> QED
      BY <2>8, <3>1, <3>2
  <2> QED
    BY <2>4, <2>7, <2>9, <2>10, <2>11, <2>12 DEF ExportInv
<1>9. CASE SecondPasses
  <2>1. FeedbackTyped'
    BY <1>0, <1>9 DEF SecondPasses, FeedbackTyped, Seconds
  <2> QED
    BY <1>9, <2>1, ExportsStay DEF SecondPasses
<1>10. CASE UNCHANGED exportVars
  <2>1. FeedbackTyped'
    BY <1>0, <1>10 DEF exportVars, FeedbackTyped
  <2> QED
    BY <1>10, <2>1, ExportsStay DEF exportVars
<1> QED
  BY <1>1, <1>2, <1>3, <1>4, <1>5, <1>6, <1>7, <1>8, <1>9, <1>10 DEF ExportNext

\* What is exported is feedback with labels, and a manifest counts no more than there is.
THEOREM ExportsTyped == ExportSpec => []ExportTypeOK
<1>1. ExportInv => ExportTypeOK
  <2> SUFFICES ASSUME ExportInv PROVE ExportTypeOK
    OBVIOUS
  <2>1. FeedbackTyped /\ FilesTyped /\ ExportersTyped
    BY DEF ExportInv
  <2>2. Collections \subseteq SUBSET (Feedback \X Labels)
    BY DEF Collections
  <2>3. exporter \in [Exporters -> [step : {"idle", "labels", "open", "write", "manifest", "commit"},
            ws : Workspaces \cup {"-"}, most : Maxima \cup {0}, tag : 0 .. MaxSeconds,
            approved : SUBSET Feedback, records : SUBSET (Feedback \X Labels)]]
    BY <2>1, <2>2 DEF ExportersTyped, ExporterRecord, ExportSteps, Seconds
  <2> QED
    BY <2>1, <2>3 DEF ExportTypeOK, FeedbackTyped, FilesTyped, ManifestRecord, Seconds
<1> QED
  BY <1>1, ExportInitInv, ExportStep, PTL DEF ExportSpec

\* A dataset in the database has complete files with its own records, wherever exports stop,
\* unless another export began in the same second.
THEOREM DatasetsAlwaysHaveFiles == ExportSpec => []DatasetsHaveFiles
<1>1. ExportInv => DatasetsHaveFiles
  BY DEF ExportInv
<1> QED
  BY <1>1, ExportInitInv, ExportStep, PTL DEF ExportSpec

-----------------------------------------------------------------------------
(* CodeRuntime: a question is in one place at a time, with its process, in *)
(* its row or in its answer, and an id is of one of them too, although     *)
(* SQLite gives ids again.  Every id was given to a question that no       *)
(* process has before its flush any more, which bounds the ids             *)

FetchKinds == {"boq", "schedule", "cost", "payment", "variation"}
ServiceRecord ==
    [at : {"fetch", "flush", "commit"}, n : Nat, query : {q.query : q \in Asked}, project : ProjectKinds,
     given : GivenKinds, dry : {q.dry : q \in Asked},
     fetched : [FetchKinds -> {"nothing", "rows", "empty", "raises"}],
     id : Nat, left : SUBSET FetchKinds, raised : SUBSET {"fetch"}]
Answering(h) == service[h] # Unasked

RuntimeTyped ==
    /\ dialect \in {"postgres", "sqlite"}
    /\ service \in [Hosts -> ServiceRecord \cup {Unasked}]
    /\ sequence \in Nat /\ erased \subseteq 1 .. questions
    /\ questions \in 0 .. MaxQuestions /\ breaks \in 0 .. MaxBreaks

\* The question of a process is its own: no other process, row or answer has it.
OwnQuestions ==
    /\ \A h \in Hosts : Answering(h) => service[h].n \in 1 .. questions
    /\ \A g, h \in Hosts : g # h /\ Answering(g) /\ Answering(h) => service[g].n # service[h].n
    /\ \A h \in Hosts, i \in DOMAIN executions : Answering(h) => executions[i].n # service[h].n
    /\ \A h \in Hosts, a \in answers : Answering(h) => a.n # service[h].n
    /\ \A i \in DOMAIN executions : executions[i].n \in 1 .. questions
    /\ \A a \in answers : a.n \in 1 .. questions /\ a.id \in 0 .. MaxQuestions

\* So is the id that a flush gave to it.
OwnIds ==
    /\ \A i \in DOMAIN executions : i \in 1 .. sequence
    /\ \A h \in Hosts : service[h].at = "commit" =>
            service[h].id \in 1 .. sequence /\ service[h].id \notin DOMAIN executions
    /\ \A g, h \in Hosts : g # h /\ service[g].at = "commit" /\ service[h].at = "commit"
            => service[g].id # service[h].id

\* There are at least as many questions flushed as ids given.
BeforeFlush(h) == service[h].at \in {"fetch", "flush"}
Flushed(F) ==
    /\ F \subseteq 1 .. questions /\ sequence <= Cardinality(F)
    /\ \A h \in Hosts : BeforeFlush(h) => service[h].n \notin F
IdsAreOfFlushes == \E F : Flushed(F)

\* What was fetched is of a known project, what raised is remembered, and what a question
\* needs is fetched before the code is run.
FetchedHasCause(r) ==
    /\ \A k \in FetchKinds : r.fetched[k] = "rows" => r.project = "known"
    /\ \A k \in FetchKinds : r.fetched[k] = "raises" => "fetch" \in r.raised
    /\ \A k \in Required(r.query) : r.project = "known" => k \in r.left \/ r.fetched[k] # "nothing"
    /\ r.project = "none" \/ r.at # "fetch" => r.left = {}
FetchesHaveCauses == \A h \in Hosts : Answering(h) => FetchedHasCause(service[h])

RuntimeInv ==
    /\ RuntimeTyped /\ OwnQuestions /\ OwnIds /\ IdsAreOfFlushes /\ FetchesHaveCauses
    /\ AnswersAreRecorded /\ SamplesHaveCauses

\* An answer is recorded when what it says of the execution is so.
KeptUnder(n) == {i \in DOMAIN executions : executions[i].n = n}
AnswerIsRecorded(a) ==
    IF a.id # 0
    THEN a.n \in erased \/ (KeptUnder(a.n) = {a.id} /\ executions[a.id].logs = (a.status = "error"))
    ELSE /\ KeptUnder(a.n) # {} => "save" \in a.raised
         /\ \/ a.dry \/ "save" \in a.raised
            \/ dialect = "postgres" /\ ("fetch" \in a.raised \/ a.project = "unknown")
SampleHasCause(a) ==
    /\ a.used = "sample" => a.project # "known" \/ a.boq = "empty" \/ "fetch" \in a.raised
    /\ a.used = "rows" => a.project = "known" /\ a.boq = "rows"
AnswerTo(r, id, raised) ==
    [n |-> r.n, project |-> r.project, dry |-> r.dry, id |-> id, status |-> Status(r),
     used |-> Used(r), boq |-> r.fetched["boq"], raised |-> raised]

LEMMA RecordedOneByOne ==
    /\ AnswersAreRecorded <=> \A a \in answers : AnswerIsRecorded(a)
    /\ AnswersAreRecorded' <=> \A a \in answers' : AnswerIsRecorded(a)'
    /\ SamplesHaveCauses <=> \A a \in answers : SampleHasCause(a)
BY DEF AnswersAreRecorded, AnswerIsRecorded, KeptUnder, SamplesHaveCauses, SampleHasCause

LEMMA KindsAre == ToSet(DataKinds) = FetchKinds /\ DOMAIN DataKinds = 1 .. 5 /\ \A i \in 1 .. 5 : DataKinds[i] \in FetchKinds
<1>1. DOMAIN DataKinds = 1 .. 5 /\ \A i \in 1 .. 5 : i = 1 \/ i = 2 \/ i = 3 \/ i = 4 \/ i = 5
  BY DEF DataKinds
<1>2. DataKinds[1] = "boq" /\ DataKinds[2] = "schedule" /\ DataKinds[3] = "cost" /\ DataKinds[4] = "payment"
      /\ DataKinds[5] = "variation"
  BY DEF DataKinds
<1>3. ToSet(DataKinds) = {DataKinds[i] : i \in 1 .. 5}
  BY <1>1 DEF ToSet
<1>4. 1 \in 1 .. 5 /\ 2 \in 1 .. 5 /\ 3 \in 1 .. 5 /\ 4 \in 1 .. 5 /\ 5 \in 1 .. 5
  OBVIOUS
<1>5. ToSet(DataKinds) = FetchKinds
  BY <1>1, <1>2, <1>3, <1>4 DEF FetchKinds
<1> QED
  BY <1>1, <1>2, <1>5 DEF FetchKinds

LEMMA RequiredAreKinds == \A query : Required(query) \subseteq FetchKinds
BY KindsAre DEF Required, FetchKinds

\* A process that is not waiting has a record with a step, and the other way round.
LEMMA AnsweringIs ==
    ASSUME RuntimeTyped, NEW h \in Hosts
    PROVE  /\ Answering(h) => service[h] \in ServiceRecord
           /\ service[h].at \in {"fetch", "flush", "commit"} <=> Answering(h)
<1>1. service[h] \in ServiceRecord \cup {Unasked}
  BY DEF RuntimeTyped
<1>2. \A r \in ServiceRecord : r.at \in {"fetch", "flush", "commit"}
  BY DEF ServiceRecord
<1>3. Unasked.at = "free"
  BY DEF Unasked
<1> QED
  BY <1>1, <1>2, <1>3 DEF Answering

\* What an answer was computed from has a cause, once everything is fetched.
LEMMA UsedHasCause ==
    ASSUME NEW r \in ServiceRecord, FetchedHasCause(r), r.left = {},
           NEW id, NEW raised, r.raised \subseteq raised, NEW a, a = AnswerTo(r, id, raised)
    PROVE  SampleHasCause(a)
<1>1. a.used = Used(r) /\ a.project = r.project /\ a.boq = r.fetched["boq"] /\ a.raised = raised
  BY DEF AnswerTo
<1>2. "boq" \in FetchKinds /\ r.fetched["boq"] \in {"nothing", "rows", "empty", "raises"}
      /\ r.given \in {"nothing", "data", "broken"} /\ r.project \in ProjectKinds
  BY DEF ServiceRecord, FetchKinds, GivenKinds
<1>3. CASE r.given # "nothing" \/ ~("boq" \in Required(r.query) /\ Template(r.query) # "simple_sum")
  BY <1>1, <1>2, <1>3 DEF SampleHasCause, Used
<1>4. CASE r.given = "nothing" /\ "boq" \in Required(r.query) /\ Template(r.query) # "simple_sum"
  <2>1. Used(r) = IF r.fetched["boq"] = "rows" THEN "rows" ELSE "sample"
    BY <1>4 DEF Used, ContextOf
  <2>2. /\ r.fetched["boq"] = "rows" => r.project = "known"
        /\ r.fetched["boq"] = "raises" => "fetch" \in raised
        /\ r.project = "known" => r.fetched["boq"] # "nothing"
    BY <1>2, <1>4 DEF FetchedHasCause
  <2> QED
    BY <1>1, <1>2, <2>1, <2>2 DEF SampleHasCause
<1> QED
  BY <1>3, <1>4

\* A set of numbers has a least one, and a greatest one if it is bounded.
LEMMA LeastOf ==
    ASSUME NEW T \in SUBSET Nat, T # {}
    PROVE  \E x \in T : \A y \in T : x <= y
<1>1. PICK x \in T : \A y \in T : ~ (<<y, x>> \in OpToRel(<, Nat))
  BY NatLessThanWellFounded, WFMin
<1>2. ASSUME NEW y \in T, y < x PROVE FALSE
  <2> DEFINE p == <<y, x>>
  <2>1. p \in Nat \X Nat /\ p[1] = y /\ p[2] = x
    OBVIOUS
  <2>2. p \in OpToRel(<, Nat)
    <3> HIDE DEF p
    <3> QED
      BY <1>2, <2>1 DEF OpToRel
  <2> QED
    BY <1>1, <2>2
<1> QED
  BY <1>2

LEMMA MaxOf ==
    ASSUME NEW n \in Nat, NEW T \in SUBSET (0 .. n), T # {}
    PROVE  Max(T) \in T /\ \A x \in T : x <= Max(T)
<1>1. PICK D : D = {n - x : x \in T}
  OBVIOUS
<1>2. \A x \in T : n - x \in Nat /\ x \in Nat
  OBVIOUS
<1>3. D \in SUBSET Nat /\ D # {}
  BY <1>1, <1>2
<1>4. PICK k \in D : \A y \in D : k <= y
  BY <1>3, LeastOf
<1>5. PICK m \in T : k = n - m
  BY <1>1
<1>6. \A x \in T : m >= x
  BY <1>1, <1>2, <1>4, <1>5
<1>7. Max(T) \in T /\ \A x \in T : Max(T) >= x
  BY <1>6 DEF Max
<1> QED
  BY <1>2, <1>7

\* The id of a flush is of no row and of no other flush.
LEMMA NextIdIsOwn ==
    ASSUME RuntimeTyped, OwnIds, Unlocked
    PROVE  /\ NextId \in 1 .. sequence + 1 /\ NextId \notin DOMAIN executions
           /\ \A i \in DOMAIN executions : i \in 1 .. NextId
           /\ \A h \in Hosts : service[h].at = "commit" => service[h].id \in 1 .. (NextId - 1)
<1>1. sequence \in Nat /\ \A i \in DOMAIN executions : i \in 1 .. sequence
  BY DEF RuntimeTyped, OwnIds
<1>2. CASE dialect = "sqlite"
  <2>1. (DOMAIN executions \cup {0}) \in SUBSET (0 .. sequence) /\ DOMAIN executions \cup {0} # {}
    BY <1>1
  <2>2. PICK m : m = Max(DOMAIN executions \cup {0})
    OBVIOUS
  <2>3. m \in DOMAIN executions \cup {0} /\ \A x \in DOMAIN executions \cup {0} : x <= m
    BY <1>1, <2>1, <2>2, MaxOf
  <2>4. NextId = m + 1 /\ m \in 0 .. sequence
    BY <1>1, <1>2, <2>2, <2>3 DEF NextId
  <2>5. \A h \in Hosts : service[h].at # "commit"
    BY <1>2 DEF Unlocked
  <2> QED
    BY <1>1, <2>3, <2>4, <2>5
<1>3. CASE dialect # "sqlite"
  <2>1. NextId = sequence + 1
    BY <1>3 DEF NextId
  <2> QED
    BY <1>1, <2>1 DEF OwnIds
<1> QED
  BY <1>2, <1>3

\* The first state satisfies the inductive invariant.
LEMMA RuntimeInitInv == RuntimeInit => RuntimeInv
<1> SUFFICES ASSUME RuntimeInit PROVE RuntimeInv
  OBVIOUS
<1> USE RuntimeAssumption DEF RuntimeInit
<1>1. DOMAIN executions = {} /\ Unasked.at = "free" /\ \A h \in Hosts : service[h] = Unasked
  BY DEF Unasked
<1>2. RuntimeTyped
  BY DEF RuntimeTyped
<1>3. OwnQuestions /\ OwnIds /\ FetchesHaveCauses
  BY <1>1 DEF OwnQuestions, OwnIds, FetchesHaveCauses, Answering
<1>4. Flushed({})
  BY <1>1, FS_EmptySet DEF Flushed, BeforeFlush
<1>5. AnswersAreRecorded /\ SamplesHaveCauses
  BY DEF AnswersAreRecorded, SamplesHaveCauses
<1> QED
  BY <1>2, <1>3, <1>4, <1>5 DEF RuntimeInv, IdsAreOfFlushes

\* Ids stay below the bound of the questions.
LEMMA IdsAreFew == ASSUME RuntimeInv PROVE sequence \in 0 .. MaxQuestions
<1>1. PICK F : Flushed(F)
  BY DEF RuntimeInv, IdsAreOfFlushes
<1>2. questions \in 0 .. MaxQuestions /\ sequence \in Nat /\ MaxQuestions \in Nat
  BY RuntimeAssumption DEF RuntimeInv, RuntimeTyped
<1>3. IsFiniteSet(1 .. questions) /\ Cardinality(1 .. questions) = questions
  <2>1. 1 \in Int /\ questions \in Int
    BY <1>2
  <2>2. IsFiniteSet(1 .. questions) /\ Cardinality(1 .. questions) = IF 1 > questions THEN 0 ELSE questions - 1 + 1
    BY <2>1, FS_Interval, Zenon
  <2> QED
    BY <1>2, <2>2
<1>4. IsFiniteSet(F) /\ Cardinality(F) <= questions
  BY <1>1, <1>3, FS_Subset DEF Flushed
<1>5. Cardinality(F) \in Nat
  BY <1>4, FS_CardinalityType
<1> QED
  BY <1>1, <1>2, <1>4, <1>5 DEF Flushed

-----------------------------------------------------------------------------
(* A process that goes on with its question.                               *)

OthersServe(h) == \A g \in Hosts \ {h} : service'[g] = service[g]

LEMMA ServiceIsSet ==
    ASSUME RuntimeTyped, NEW h \in Hosts, NEW r \in ServiceRecord \cup {Unasked},
           service' = [service EXCEPT ![h] = r]
    PROVE  service' \in [Hosts -> ServiceRecord \cup {Unasked}] /\ service'[h] = r /\ OthersServe(h)
BY DEF RuntimeTyped, OthersServe

\* The answers are as good as they were.
LEMMA AnswersStay ==
    ASSUME AnswersAreRecorded, SamplesHaveCauses, UNCHANGED <<dialect, executions, erased, answers>>
    PROVE  AnswersAreRecorded' /\ SamplesHaveCauses'
BY DEF AnswersAreRecorded, SamplesHaveCauses

\* A process that fetches, or is done with fetching, keeps its question and has no id.
LEMMA ServiceGoesOn ==
    ASSUME RuntimeInv, NEW h \in Hosts, service[h].at = "fetch", NEW r \in ServiceRecord,
           service' = [service EXCEPT ![h] = r], r.at \in {"fetch", "flush"}, r.n = service[h].n,
           FetchedHasCause(r),
           UNCHANGED <<dialect, executions, sequence, answers, erased, questions, breaks>>
    PROVE  RuntimeInv'
<1>0. /\ RuntimeTyped /\ OwnQuestions /\ OwnIds /\ IdsAreOfFlushes /\ FetchesHaveCauses
      /\ AnswersAreRecorded /\ SamplesHaveCauses
  BY DEF RuntimeInv
<1>1. service' \in [Hosts -> ServiceRecord \cup {Unasked}] /\ service'[h] = r /\ OthersServe(h)
  BY <1>0, ServiceIsSet
<1>2. Answering(h) /\ Answering(h)' /\ \A g \in Hosts \ {h} : Answering(g)' = Answering(g)
  <2>1. Unasked.at = "free"
    BY DEF Unasked
  <2> QED
    BY <1>1, <2>1 DEF Answering, OthersServe
<1>3. RuntimeTyped'
  BY <1>0, <1>1 DEF RuntimeTyped
<1>4. \A g \in Hosts : Answering(g)' => Answering(g) /\ service'[g].n = service[g].n
  BY <1>1, <1>2 DEF OthersServe
<1>5. OwnQuestions'
  BY <1>0, <1>4 DEF OwnQuestions
<1>6. \A g \in Hosts : service'[g].at = "commit" => g # h /\ service[g].at = "commit" /\ service'[g].id = service[g].id
  BY <1>1 DEF OthersServe
<1>7. OwnIds'
  BY <1>0, <1>6 DEF OwnIds
<1>8. \A g \in Hosts : BeforeFlush(g)' => BeforeFlush(g) /\ service'[g].n = service[g].n
  BY <1>1 DEF OthersServe, BeforeFlush
<1>9. IdsAreOfFlushes'
  <2>1. PICK F : Flushed(F)
    BY <1>0 DEF IdsAreOfFlushes
  <2>2. Flushed(F)'
    BY <1>8, <2>1 DEF Flushed
  <2> QED
    BY <2>2 DEF IdsAreOfFlushes
<1>10. FetchesHaveCauses'
  BY <1>0, <1>1, <1>2 DEF FetchesHaveCauses, OthersServe
<1> QED
  BY <1>0, <1>3, <1>5, <1>7, <1>9, <1>10, AnswersStay DEF RuntimeInv

\* What becomes of the rows when a process ends with its question.
RowIsKept(h) ==
    \/ UNCHANGED executions
    \/ service[h].at = "commit" /\ Keep(service[h])

LEMMA RowsAfter ==
    ASSUME RuntimeInv, NEW h \in Hosts, Answering(h), RowIsKept(h)
    PROVE  /\ \A i \in DOMAIN executions : i \in DOMAIN executions' /\ executions'[i] = executions[i]
           /\ \A i \in DOMAIN executions' : i \notin DOMAIN executions =>
                  /\ service[h].at = "commit" /\ i = service[h].id
                  /\ executions'[i] = Row(service[h]) /\ executions'[i].n = service[h].n
           /\ \A a \in answers : KeptUnder(a.n)' = KeptUnder(a.n)
           /\ ~UNCHANGED executions => service[h].id \in DOMAIN executions'
<1>0. OwnIds /\ OwnQuestions
  BY DEF RuntimeInv
<1>1. Row(service[h]).n = service[h].n
  BY DEF Row
<1>2. CASE UNCHANGED executions
  BY <1>2 DEF KeptUnder
<1>3. CASE service[h].at = "commit" /\ Keep(service[h])
  <2>1. PICK id : id = service[h].id
    OBVIOUS
  <2>2. id \notin DOMAIN executions
    BY <1>0, <1>3, <2>1 DEF OwnIds
  <2>3. executions' = [i \in DOMAIN executions \cup {id} |-> IF i = id THEN Row(service[h]) ELSE executions[i]]
    BY <1>3, <2>1 DEF Keep
  <2>4. /\ DOMAIN executions' = DOMAIN executions \cup {id} /\ executions'[id] = Row(service[h])
        /\ \A i \in DOMAIN executions : executions'[i] = executions[i]
    BY <2>2, <2>3
  <2>5. ASSUME NEW a \in answers PROVE KeptUnder(a.n)' = KeptUnder(a.n)
    <3>1. a.n # service[h].n
      BY <1>0 DEF OwnQuestions
    <3> QED
      BY <1>1, <2>4, <3>1 DEF KeptUnder
  <2> QED
    BY <1>1, <1>3, <2>1, <2>4, <2>5
<1> QED
  BY <1>2, <1>3 DEF RowIsKept

\* A process that ends with its question leaves everything to the answer and the row.
LEMMA ServiceEnds ==
    ASSUME RuntimeInv, NEW h \in Hosts, Answering(h), service[h].left = {},
           NEW id \in 0 .. MaxQuestions, NEW raised, service[h].raised \subseteq raised,
           AnswerQuestion(h, id, raised), RowIsKept(h),
           UNCHANGED <<dialect, sequence, erased, questions>>, breaks' \in 0 .. MaxBreaks,
           NEW a, a = AnswerTo(service[h], id, raised), AnswerIsRecorded(a)'
    PROVE  RuntimeInv'
<1>0. /\ RuntimeTyped /\ OwnQuestions /\ OwnIds /\ IdsAreOfFlushes /\ FetchesHaveCauses
      /\ AnswersAreRecorded /\ SamplesHaveCauses
  BY DEF RuntimeInv
<1>1. service' = [service EXCEPT ![h] = Unasked] /\ answers' = answers \cup {a}
  BY DEF AnswerQuestion, AnswerTo
<1>2. service' \in [Hosts -> ServiceRecord \cup {Unasked}] /\ service'[h] = Unasked /\ OthersServe(h)
  BY <1>0, <1>1, ServiceIsSet
<1>3. /\ ~Answering(h)' /\ service'[h].at = "free"
      /\ \A g \in Hosts \ {h} : Answering(g)' = Answering(g)
  BY <1>2 DEF Answering, OthersServe, Unasked
<1>4. \A g \in Hosts : Answering(g)' => g # h /\ Answering(g) /\ service'[g] = service[g]
  BY <1>2, <1>3 DEF OthersServe
<1>5. service[h] \in ServiceRecord /\ service[h].n \in 1 .. questions
  BY <1>0, AnsweringIs DEF OwnQuestions
<1>6. a.n = service[h].n /\ a.id = id
  BY DEF AnswerTo
<1>7. /\ \A i \in DOMAIN executions : i \in DOMAIN executions' /\ executions'[i] = executions[i]
      /\ \A i \in DOMAIN executions' : i \notin DOMAIN executions =>
             /\ service[h].at = "commit" /\ i = service[h].id
             /\ executions'[i] = Row(service[h]) /\ executions'[i].n = service[h].n
      /\ \A b \in answers : KeptUnder(b.n)' = KeptUnder(b.n)
  BY RowsAfter
<1>8. RuntimeTyped'
  BY <1>0, <1>2 DEF RuntimeTyped
<1>9. OwnQuestions'
  <2>1. \A g \in Hosts : Answering(g)' => service'[g].n \in 1 .. questions' /\ service'[g].n # service[h].n
    BY <1>0, <1>4 DEF OwnQuestions
  <2>2. \A f, g \in Hosts : f # g /\ Answering(f)' /\ Answering(g)' => service'[f].n # service'[g].n
    BY <1>0, <1>4 DEF OwnQuestions
  <2>3. \A g \in Hosts, i \in DOMAIN executions' : Answering(g)' => executions'[i].n # service'[g].n
    BY <1>0, <1>4, <1>7, <2>1 DEF OwnQuestions
  <2>4. \A g \in Hosts, b \in answers' : Answering(g)' => b.n # service'[g].n
    BY <1>0, <1>1, <1>4, <1>6, <2>1 DEF OwnQuestions
  <2>5. \A i \in DOMAIN executions' : executions'[i].n \in 1 .. questions'
    BY <1>0, <1>5, <1>7 DEF OwnQuestions
  <2>6. \A b \in answers' : b.n \in 1 .. questions' /\ b.id \in 0 .. MaxQuestions
    BY <1>0, <1>1, <1>5, <1>6 DEF OwnQuestions
  <2> QED
    BY <2>1, <2>2, <2>3, <2>4, <2>5, <2>6 DEF OwnQuestions
<1>10. OwnIds'
  <2>1. \A g \in Hosts : service'[g].at = "commit" => g # h /\ service'[g] = service[g]
    BY <1>2, <1>3 DEF OthersServe
  <2>2. \A i \in DOMAIN executions' : i \in 1 .. sequence'
    BY <1>0, <1>7 DEF OwnIds
  <2>3. \A g \in Hosts : service'[g].at = "commit" =>
            service'[g].id \in 1 .. sequence' /\ service'[g].id \notin DOMAIN executions'
    BY <1>0, <1>7, <2>1 DEF OwnIds
  <2>4. \A f, g \in Hosts : f # g /\ service'[f].at = "commit" /\ service'[g].at = "commit"
            => service'[f].id # service'[g].id
    BY <1>0, <2>1 DEF OwnIds
  <2> QED
    BY <2>2, <2>3, <2>4 DEF OwnIds
<1>11. IdsAreOfFlushes'
  <2>1. PICK F : Flushed(F)
    BY <1>0 DEF IdsAreOfFlushes
  <2>2. \A g \in Hosts : BeforeFlush(g)' => BeforeFlush(g) /\ service'[g] = service[g]
    BY <1>2, <1>3 DEF BeforeFlush, OthersServe
  <2>3. Flushed(F)'
    BY <2>1, <2>2 DEF Flushed
  <2> QED
    BY <2>3 DEF IdsAreOfFlushes
<1>12. FetchesHaveCauses'
  BY <1>0, <1>4 DEF FetchesHaveCauses
<1>13. AnswersAreRecorded'
  <2>1. ASSUME NEW b \in answers PROVE AnswerIsRecorded(b)'
    <3>1. AnswerIsRecorded(b) /\ KeptUnder(b.n)' = KeptUnder(b.n)
      BY <1>0, <1>7, RecordedOneByOne
    <3>2. KeptUnder(b.n) = {b.id} => executions'[b.id] = executions[b.id]
      BY <1>7 DEF KeptUnder
    <3> QED
      BY <3>1, <3>2 DEF AnswerIsRecorded
  <2>2. \A b \in answers' : AnswerIsRecorded(b)'
    BY <1>1, <2>1
  <2> QED
    BY <2>2, RecordedOneByOne
<1>14. SamplesHaveCauses'
  <2>1. SampleHasCause(a)
    BY <1>0, <1>5, UsedHasCause DEF FetchesHaveCauses
  <2> QED
    BY <1>0, <1>1, <2>1 DEF SamplesHaveCauses, SampleHasCause
<1> QED
  BY <1>8, <1>9, <1>10, <1>11, <1>12, <1>13, <1>14 DEF RuntimeInv

\* A question whose row is not written has none.
LEMMA NothingKept ==
    ASSUME RuntimeInv, NEW h \in Hosts, Answering(h), UNCHANGED executions, NEW n, n = service[h].n
    PROVE  KeptUnder(n)' = {}
BY DEF RuntimeInv, OwnQuestions, KeptUnder

\* Every step preserves the inductive invariant.
LEMMA RuntimeStep == RuntimeInv /\ [RuntimeNext]_runtimeVars => RuntimeInv'
<1> SUFFICES ASSUME RuntimeInv, [RuntimeNext]_runtimeVars PROVE RuntimeInv'
  OBVIOUS
<1> USE RuntimeAssumption
<1>0. /\ RuntimeTyped /\ OwnQuestions /\ OwnIds /\ IdsAreOfFlushes /\ FetchesHaveCauses
      /\ AnswersAreRecorded /\ SamplesHaveCauses
  BY DEF RuntimeInv
<1>a. Unasked.at = "free" /\ 0 \in 0 .. MaxQuestions
  BY DEF Unasked
<1>b. ASSUME NEW h \in Hosts, service[h].at \in {"fetch", "flush", "commit"}
      PROVE  /\ Answering(h) /\ service[h] \in ServiceRecord /\ FetchedHasCause(service[h])
             /\ service[h].n \in 1 .. questions
             /\ service[h].at # "fetch" => service[h].left = {}
  <2>1. Answering(h) /\ service[h] \in ServiceRecord
    BY <1>0, <1>b, AnsweringIs
  <2>2. FetchedHasCause(service[h]) /\ service[h].n \in 1 .. questions
    BY <1>0, <2>1 DEF FetchesHaveCauses, OwnQuestions
  <2> QED
    BY <2>1, <2>2 DEF FetchedHasCause
<1>c. breaks \in 0 .. MaxBreaks /\ sequence \in 0 .. MaxQuestions
  BY <1>0, IdsAreFew DEF RuntimeTyped
<1>1. ASSUME NEW h \in Hosts, NEW q \in Asked, Ask(h, q) PROVE RuntimeInv'
  <2>1. UNCHANGED <<dialect, executions, sequence, answers, erased, breaks>> /\ ~Answering(h)
        /\ service[h].at = "free"
    BY <1>1, <1>a DEF Ask, Answering
  <2>2. PICK left : left = IF q.project = "none" THEN {} ELSE Required(q.query)
    OBVIOUS
  <2>3. PICK r : r = [at |-> "fetch", n |-> questions + 1, query |-> q.query, project |-> q.project,
                      given |-> q.given, dry |-> q.dry, fetched |-> [k \in FetchKinds |-> "nothing"], id |-> 0,
                      left |-> left, raised |-> {}]
    OBVIOUS
  <2>4. service' = [service EXCEPT ![h] = r] /\ questions' = questions + 1 /\ questions < MaxQuestions
    BY <1>1, <2>2, <2>3, KindsAre DEF Ask
  <2>5. left \in SUBSET FetchKinds /\ questions \in Nat
    BY <1>0, <2>2, RequiredAreKinds DEF RuntimeTyped
  <2>6. r \in ServiceRecord
    BY <2>3, <2>5 DEF ServiceRecord
  <2>7. /\ r.n = questions + 1 /\ r.at = "fetch" /\ r.project = q.project /\ r.query = q.query /\ r.left = left
        /\ \A k \in FetchKinds : r.fetched[k] = "nothing"
    BY <2>3
  <2>8. service' \in [Hosts -> ServiceRecord \cup {Unasked}] /\ service'[h] = r /\ OthersServe(h)
    BY <1>0, <2>4, <2>6, ServiceIsSet
  <2>9. \A g \in Hosts \ {h} : Answering(g)' = Answering(g) /\ service'[g] = service[g]
    BY <2>8 DEF Answering, OthersServe
  <2>10. RuntimeTyped'
    BY <1>0, <2>1, <2>4, <2>8 DEF RuntimeTyped
  <2>11. OwnQuestions'
    <3>1. /\ \A g \in Hosts : Answering(g) => service[g].n \in 1 .. questions /\ service[g].n # questions + 1
          /\ \A i \in DOMAIN executions : executions[i].n \in 1 .. questions /\ executions[i].n # questions + 1
          /\ \A a \in answers : a.n \in 1 .. questions /\ a.n # questions + 1
          /\ \A n \in 1 .. questions : n \in 1 .. questions + 1
      BY <1>0, <2>5 DEF OwnQuestions
    <3>2. questions' = questions + 1 /\ questions + 1 \in 1 .. questions + 1
      BY <2>4, <2>5
    <3>3. \A g \in Hosts : Answering(g)' => service'[g].n \in 1 .. questions'
      BY <2>7, <2>8, <2>9, <3>1, <3>2
    <3>4. \A f, g \in Hosts : f # g /\ Answering(f)' /\ Answering(g)' => service'[f].n # service'[g].n
      BY <1>0, <2>7, <2>8, <2>9, <3>1 DEF OwnQuestions
    <3>5. \A g \in Hosts, i \in DOMAIN executions : Answering(g)' => executions[i].n # service'[g].n
      BY <1>0, <2>7, <2>8, <2>9, <3>1 DEF OwnQuestions
    <3>6. \A g \in Hosts, a \in answers : Answering(g)' => a.n # service'[g].n
      BY <1>0, <2>7, <2>8, <2>9, <3>1 DEF OwnQuestions
    <3>7. /\ \A i \in DOMAIN executions : executions[i].n \in 1 .. questions'
          /\ \A a \in answers : a.n \in 1 .. questions' /\ a.id \in 0 .. MaxQuestions
      BY <1>0, <3>1, <3>2 DEF OwnQuestions
    <3> QED
      BY <2>1, <3>3, <3>4, <3>5, <3>6, <3>7 DEF OwnQuestions
  <2>12. OwnIds'
    <3>1. \A g \in Hosts : service'[g].at = "commit" => service[g].at = "commit" /\ service'[g] = service[g]
      BY <2>7, <2>8, <2>9
    <3> QED
      BY <1>0, <2>1, <3>1 DEF OwnIds
  <2>13. IdsAreOfFlushes'
    <3>1. PICK F : Flushed(F)
      BY <1>0 DEF IdsAreOfFlushes
    <3>2. F \subseteq 1 .. questions' /\ questions + 1 \notin F
      BY <2>4, <2>5, <3>1 DEF Flushed
    <3>3. Flushed(F)'
      BY <2>1, <2>7, <2>8, <2>9, <3>1, <3>2 DEF Flushed, BeforeFlush
    <3> QED
      BY <3>3 DEF IdsAreOfFlushes
  <2>14. FetchesHaveCauses'
    <3>1. FetchedHasCause(r)
      BY <2>2, <2>7, RequiredAreKinds DEF FetchedHasCause
    <3> QED
      BY <1>0, <2>8, <2>9, <3>1 DEF FetchesHaveCauses
  <2> QED
    BY <1>0, <2>1, <2>10, <2>11, <2>12, <2>13, <2>14, AnswersStay DEF RuntimeInv
<1>2. ASSUME NEW h \in Hosts, NEW i \in DOMAIN DataKinds, NEW got \in {"rows", "empty", "raises"},
             FetchData(h, i, got) PROVE RuntimeInv'
  <2>1. UNCHANGED <<dialect, executions, sequence, answers, erased, questions, breaks>>
        /\ service[h].at = "fetch"
    BY <1>2 DEF FetchData
  <2>2. service[h] \in ServiceRecord /\ FetchedHasCause(service[h])
    BY <1>b, <2>1
  <2>3. PICK k : k = DataKinds[i]
    OBVIOUS
  <2>4. k \in FetchKinds /\ k \in service[h].left
    BY <1>2, <2>3, KindsAre DEF FetchData, IsNext
  <2>5. PICK left : left = service[h].left \ {k}
    OBVIOUS
  <2>6. PICK fetched : fetched = [service[h].fetched EXCEPT ![k] = got]
    OBVIOUS
  <2>7. PICK raised : raised = IF got = "raises" THEN service[h].raised \cup {"fetch"} ELSE service[h].raised
    OBVIOUS
  <2>8. PICK r : r = [service[h] EXCEPT !.left = left, !.fetched = fetched, !.raised = raised]
    OBVIOUS
  <2>9. service' = [service EXCEPT ![h] = r]
    BY <1>0, <1>2, <2>2, <2>3, <2>5, <2>6, <2>7, <2>8 DEF FetchData, RuntimeTyped, ServiceRecord
  <2>10. /\ left \in SUBSET FetchKinds /\ raised \in SUBSET {"fetch"}
         /\ fetched \in [FetchKinds -> {"nothing", "rows", "empty", "raises"}] /\ fetched[k] = got
         /\ \A j \in FetchKinds \ {k} : fetched[j] = service[h].fetched[j]
    BY <2>2, <2>4, <2>5, <2>6, <2>7 DEF ServiceRecord
  <2>11. r \in ServiceRecord
    BY <2>2, <2>8, <2>10 DEF ServiceRecord
  <2>12. /\ r.at = "fetch" /\ r.n = service[h].n /\ r.left = left /\ r.fetched = fetched /\ r.raised = raised
         /\ r.query = service[h].query /\ r.project = service[h].project
    BY <2>1, <2>2, <2>8 DEF ServiceRecord
  <2>13. got = "rows" => service[h].project = "known"
    <3>1. service[h].project # "none"
      BY <2>2, <2>4 DEF FetchedHasCause
    <3>2. service[h].project \in {"none", "unknown", "known"}
      BY <2>2 DEF ServiceRecord, ProjectKinds
    <3> QED
      BY <1>2, <3>1, <3>2 DEF FetchData
  <2>14. FetchedHasCause(r)
    <3>1. \A j \in FetchKinds : r.fetched[j] = "rows" => r.project = "known"
      BY <2>2, <2>10, <2>12, <2>13 DEF FetchedHasCause
    <3>2. \A j \in FetchKinds : r.fetched[j] = "raises" => "fetch" \in r.raised
      BY <2>2, <2>7, <2>10, <2>12 DEF FetchedHasCause
    <3>3. \A j \in Required(r.query) : r.project = "known" => j \in r.left \/ r.fetched[j] # "nothing"
      BY <2>2, <2>5, <2>10, <2>12, RequiredAreKinds DEF FetchedHasCause
    <3>4. r.project = "none" \/ r.at # "fetch" => r.left = {}
      BY <2>2, <2>4, <2>12 DEF FetchedHasCause
    <3> QED
      BY <3>1, <3>2, <3>3, <3>4 DEF FetchedHasCause
  <2> QED
    BY <2>1, <2>9, <2>11, <2>12, <2>14, ServiceGoesOn
<1>3. ASSUME NEW h \in Hosts, AnswerCode(h) PROVE RuntimeInv'
  <2>1. UNCHANGED <<dialect, executions, sequence, erased, questions, breaks>>
        /\ service[h].at = "fetch" /\ service[h].left = {} /\ service[h].dry
        /\ AnswerQuestion(h, 0, service[h].raised)
    BY <1>3 DEF AnswerCode
  <2>2. Answering(h)
    BY <1>b, <2>1
  <2>3. PICK a : a = AnswerTo(service[h], 0, service[h].raised)
    OBVIOUS
  <2>4. a.id = 0 /\ a.n = service[h].n /\ a.dry
    BY <2>1, <2>3 DEF AnswerTo
  <2>5. AnswerIsRecorded(a)'
    BY <2>1, <2>2, <2>4, NothingKept DEF AnswerIsRecorded
  <2>6. breaks' \in 0 .. MaxBreaks /\ RowIsKept(h)
    BY <1>c, <2>1 DEF RowIsKept
  <2> QED
    BY <1>a, <2>1, <2>2, <2>3, <2>5, <2>6, ServiceEnds
<1>4. ASSUME NEW h \in Hosts, Execute(h) PROVE RuntimeInv'
  <2>1. UNCHANGED <<dialect, executions, sequence, answers, erased, questions, breaks>>
        /\ service[h].at = "fetch" /\ service[h].left = {}
    BY <1>4 DEF Execute
  <2>2. service[h] \in ServiceRecord /\ FetchedHasCause(service[h])
    BY <1>b, <2>1
  <2>3. PICK r : r = [service[h] EXCEPT !.at = "flush"]
    OBVIOUS
  <2>4. service' = [service EXCEPT ![h] = r]
    BY <1>0, <1>4, <2>3 DEF Execute, RuntimeTyped
  <2>5. r \in ServiceRecord /\ r.at = "flush" /\ r.n = service[h].n
    BY <2>2, <2>3 DEF ServiceRecord
  <2>6. FetchedHasCause(r)
    BY <2>1, <2>2, <2>3 DEF FetchedHasCause, ServiceRecord
  <2> QED
    BY <2>1, <2>4, <2>5, <2>6, ServiceGoesOn
<1>5. ASSUME NEW h \in Hosts, Flush(h) PROVE RuntimeInv'
  <2>1. UNCHANGED <<dialect, executions, answers, erased, questions, breaks>>
        /\ service[h].at = "flush" /\ Unlocked /\ sequence' = NextId
    BY <1>5 DEF Flush
  <2>2. service[h] \in ServiceRecord /\ FetchedHasCause(service[h]) /\ Answering(h)
        /\ service[h].n \in 1 .. questions
    BY <1>b, <2>1
  <2>3. PICK id : id = NextId
    OBVIOUS
  <2>4. /\ id \in 1 .. sequence + 1 /\ id \notin DOMAIN executions /\ sequence \in Nat
        /\ \A i \in DOMAIN executions : i \in 1 .. id
        /\ \A g \in Hosts : service[g].at = "commit" => service[g].id \in 1 .. (id - 1)
    BY <1>0, <1>c, <2>1, <2>3, NextIdIsOwn
  <2>5. PICK r : r = [service[h] EXCEPT !.at = "commit", !.id = id]
    OBVIOUS
  <2>6. service' = [service EXCEPT ![h] = r]
    BY <1>0, <1>5, <2>2, <2>3, <2>5 DEF Flush, RuntimeTyped, ServiceRecord
  <2>7. id \in Nat
    BY <2>4
  <2>8. r \in ServiceRecord /\ r.at = "commit" /\ r.id = id /\ r.n = service[h].n
    BY <2>2, <2>5, <2>7 DEF ServiceRecord
  <2>9. service' \in [Hosts -> ServiceRecord \cup {Unasked}] /\ service'[h] = r /\ OthersServe(h)
    BY <1>0, <2>6, <2>8, ServiceIsSet
  <2>10. Answering(h)' /\ \A g \in Hosts \ {h} : Answering(g)' = Answering(g) /\ service'[g] = service[g]
    BY <1>a, <2>8, <2>9 DEF Answering, OthersServe
  <2>11. RuntimeTyped'
    BY <1>0, <2>1, <2>3, <2>7, <2>9 DEF RuntimeTyped
  <2>12. OwnQuestions'
    <3>1. \A g \in Hosts : (Answering(g)' <=> Answering(g)) /\ service'[g].n = service[g].n
      BY <2>2, <2>8, <2>9, <2>10
    <3> QED
      BY <1>0, <2>1, <3>1 DEF OwnQuestions
  <2>13. OwnIds'
    <3>1. \A g \in Hosts \ {h} : service'[g].at = "commit" =>
              /\ service[g].at = "commit" /\ service'[g].id = service[g].id
              /\ service[g].id \in 1 .. id /\ service[g].id # id
      BY <2>4, <2>10
    <3>2. service'[h].id = id /\ id \in 1 .. sequence' /\ sequence' = id
      BY <2>1, <2>3, <2>4, <2>8, <2>9
    <3>3. \A i \in DOMAIN executions' : i \in 1 .. sequence'
      BY <2>1, <2>4, <3>2
    <3>4. \A g \in Hosts : service'[g].at = "commit" =>
              service'[g].id \in 1 .. sequence' /\ service'[g].id \notin DOMAIN executions'
      BY <1>0, <2>1, <2>4, <3>1, <3>2 DEF OwnIds
    <3>5. \A f, g \in Hosts : f # g /\ service'[f].at = "commit" /\ service'[g].at = "commit"
              => service'[f].id # service'[g].id
      BY <1>0, <3>1, <3>2 DEF OwnIds
    <3> QED
      BY <3>3, <3>4, <3>5 DEF OwnIds
  <2>14. IdsAreOfFlushes'
    <3>1. PICK F : Flushed(F)
      BY <1>0 DEF IdsAreOfFlushes
    <3>2. PICK n : n = service[h].n
      OBVIOUS
    <3>3. n \notin F /\ n \in 1 .. questions /\ F \subseteq 1 .. questions
      BY <2>1, <2>2, <3>1, <3>2 DEF Flushed, BeforeFlush
    <3>4. IsFiniteSet(F)
      <4>1. 1 \in Int /\ questions \in Int
        BY <1>0 DEF RuntimeTyped
      <4>2. IsFiniteSet(1 .. questions)
        BY <4>1, FS_Interval, Zenon
      <4> QED
        BY <3>3, <4>2, FS_Subset
    <3>5. Cardinality(F \cup {n}) = Cardinality(F) + 1 /\ Cardinality(F) \in Nat
      BY <3>3, <3>4, FS_AddElement, FS_CardinalityType
    <3>6. sequence' <= Cardinality(F \cup {n})
      BY <2>1, <2>3, <2>4, <3>1, <3>5 DEF Flushed
    <3>7. \A g \in Hosts : BeforeFlush(g)' => BeforeFlush(g) /\ service'[g].n \notin F /\ service'[g].n # n
      <4> SUFFICES ASSUME NEW g \in Hosts, BeforeFlush(g)'
                   PROVE  BeforeFlush(g) /\ service'[g].n \notin F /\ service'[g].n # n
        OBVIOUS
      <4>1. g # h /\ service'[g] = service[g]
        BY <2>8, <2>9, <2>10 DEF BeforeFlush
      <4>2. BeforeFlush(g) /\ Answering(g)
        BY <1>b, <4>1 DEF BeforeFlush
      <4> QED
        BY <1>0, <2>2, <3>1, <3>2, <4>1, <4>2 DEF Flushed, OwnQuestions
    <3>8. Flushed(F \cup {n})'
      BY <2>1, <3>3, <3>6, <3>7 DEF Flushed
    <3> QED
      BY <3>8 DEF IdsAreOfFlushes
  <2>15. FetchesHaveCauses'
    <3>1. service[h].left = {}
      BY <2>1, <2>2 DEF FetchedHasCause
    <3>2. FetchedHasCause(r)
      BY <2>2, <2>5, <3>1 DEF FetchedHasCause, ServiceRecord
    <3> QED
      BY <1>0, <2>9, <2>10, <3>2 DEF FetchesHaveCauses
  <2> QED
    BY <1>0, <2>1, <2>11, <2>12, <2>13, <2>14, <2>15, AnswersStay DEF RuntimeInv
<1>6. ASSUME NEW h \in Hosts, FlushRefused(h) PROVE RuntimeInv'
  <2>1. UNCHANGED <<dialect, executions, sequence, erased, questions, breaks>>
        /\ service[h].at = "flush" /\ ~MayInsert(service[h])
        /\ AnswerQuestion(h, 0, service[h].raised)
    BY <1>6 DEF FlushRefused
  <2>2. Answering(h) /\ service[h].left = {}
    BY <1>b, <2>1
  <2>3. PICK a : a = AnswerTo(service[h], 0, service[h].raised)
    OBVIOUS
  <2>4. a.id = 0 /\ a.n = service[h].n /\ a.raised = service[h].raised /\ a.project = service[h].project
    BY <2>1, <2>3 DEF AnswerTo
  <2>5. dialect = "postgres" /\ ("fetch" \in a.raised \/ a.project = "unknown")
    BY <2>1, <2>4 DEF MayInsert, Aborted
  <2>6. AnswerIsRecorded(a)'
    BY <2>1, <2>2, <2>4, <2>5, NothingKept DEF AnswerIsRecorded
  <2>7. breaks' \in 0 .. MaxBreaks /\ RowIsKept(h)
    BY <1>c, <2>1 DEF RowIsKept
  <2> QED
    BY <1>a, <2>1, <2>2, <2>3, <2>6, <2>7, ServiceEnds
<1>7. ASSUME NEW h \in Hosts, CommitExecution(h) PROVE RuntimeInv'
  <2>1. UNCHANGED <<dialect, sequence, erased, questions, breaks>>
        /\ service[h].at = "commit" /\ Keep(service[h])
    BY <1>7 DEF CommitExecution
  <2>2. PICK id : id = service[h].id
    OBVIOUS
  <2>3. AnswerQuestion(h, id, service[h].raised)
    BY <1>7, <2>2 DEF CommitExecution
  <2>4. Answering(h) /\ service[h].left = {}
    BY <1>b, <2>1
  <2>5. id \in 1 .. sequence /\ id \notin DOMAIN executions /\ id \in 0 .. MaxQuestions /\ id # 0
    BY <1>0, <1>c, <2>1, <2>2 DEF OwnIds
  <2>6. PICK a : a = AnswerTo(service[h], id, service[h].raised)
    OBVIOUS
  <2>7. a.id = id /\ a.n = service[h].n /\ a.status = Status(service[h])
    BY <2>6 DEF AnswerTo
  <2>8. executions' = [i \in DOMAIN executions \cup {id} |-> IF i = id THEN Row(service[h]) ELSE executions[i]]
    BY <2>1, <2>2 DEF Keep
  <2>9. /\ DOMAIN executions' = DOMAIN executions \cup {id} /\ executions'[id] = Row(service[h])
        /\ \A i \in DOMAIN executions : executions'[i] = executions[i]
    BY <2>5, <2>8
  <2>10. executions'[id].n = service[h].n /\ executions'[id].logs = (a.status = "error")
    BY <2>7, <2>9 DEF Row
  <2>11. KeptUnder(a.n)' = {id}
    BY <1>0, <2>4, <2>7, <2>9, <2>10 DEF KeptUnder, OwnQuestions
  <2>12. AnswerIsRecorded(a)'
    BY <2>5, <2>7, <2>10, <2>11 DEF AnswerIsRecorded
  <2>13. breaks' \in 0 .. MaxBreaks /\ RowIsKept(h)
    BY <1>c, <2>1 DEF RowIsKept
  <2> QED
    BY <2>1, <2>3, <2>4, <2>5, <2>6, <2>12, <2>13, ServiceEnds
<1>8. ASSUME NEW h \in Hosts, SaveRaises(h) PROVE RuntimeInv'
  <2>1. PICK raised : raised = service[h].raised \cup {"save"}
    OBVIOUS
  <2>2. UNCHANGED <<dialect, sequence, erased, questions>> /\ breaks' \in 0 .. MaxBreaks
        /\ service[h].at \in {"flush", "commit"} /\ RowIsKept(h) /\ AnswerQuestion(h, 0, raised)
    BY <1>8, <1>c, <2>1 DEF SaveRaises, RowIsKept, IdWhenRaised
  <2>3. Answering(h) /\ service[h].left = {}
    BY <1>b, <2>2
  <2>4. PICK a : a = AnswerTo(service[h], 0, raised)
    OBVIOUS
  <2>5. a.id = 0 /\ "save" \in a.raised
    BY <2>1, <2>4 DEF AnswerTo
  <2>6. AnswerIsRecorded(a)'
    BY <2>5 DEF AnswerIsRecorded
  <2>7. service[h].raised \subseteq raised
    BY <2>1
  <2> QED
    BY <1>a, <2>2, <2>3, <2>4, <2>6, <2>7, ServiceEnds
<1>9. ASSUME NEW h \in Hosts, NEW id \in DOMAIN executions, DeleteExecution(h, id) PROVE RuntimeInv'
  <2>1. UNCHANGED <<dialect, service, sequence, answers, questions, breaks>>
        /\ executions' = [i \in DOMAIN executions \ {id} |-> executions[i]]
        /\ erased' = erased \cup {executions[id].n}
    BY <1>9 DEF DeleteExecution
  <2>2. DOMAIN executions' = DOMAIN executions \ {id}
        /\ \A i \in DOMAIN executions \ {id} : executions'[i] = executions[i]
    BY <2>1
  <2>3. RuntimeTyped'
    BY <1>0, <2>1 DEF RuntimeTyped, OwnQuestions
  <2>4. OwnQuestions' /\ OwnIds' /\ FetchesHaveCauses'
    BY <1>0, <2>1, <2>2 DEF OwnQuestions, OwnIds, FetchesHaveCauses, Answering
  <2>5. IdsAreOfFlushes'
    BY <1>0, <2>1 DEF IdsAreOfFlushes, Flushed, BeforeFlush
  <2>6. SamplesHaveCauses'
    BY <1>0, <2>1 DEF SamplesHaveCauses
  <2>7. AnswersAreRecorded'
    <3>1. ASSUME NEW a \in answers PROVE AnswerIsRecorded(a)'
      <4>1. AnswerIsRecorded(a)
        BY <1>0, RecordedOneByOne
      <4>2. CASE executions[id].n = a.n
        <5>1. a.n \in erased' /\ KeptUnder(a.n)' \subseteq KeptUnder(a.n)
          BY <2>1, <2>2, <4>2 DEF KeptUnder
        <5> QED
          BY <2>1, <4>1, <5>1 DEF AnswerIsRecorded
      <4>3. CASE executions[id].n # a.n
        <5>1. KeptUnder(a.n)' = KeptUnder(a.n) /\ id \notin KeptUnder(a.n)
          BY <2>1, <2>2, <4>3 DEF KeptUnder
        <5>2. KeptUnder(a.n) = {a.id} => executions'[a.id] = executions[a.id]
          BY <2>2, <5>1 DEF KeptUnder
        <5> QED
          BY <2>1, <4>1, <5>1, <5>2 DEF AnswerIsRecorded
      <4> QED
        BY <4>2, <4>3
    <3>2. \A a \in answers' : AnswerIsRecorded(a)'
      BY <2>1, <3>1
    <3> QED
      BY <3>2, RecordedOneByOne
  <2> QED
    BY <2>3, <2>4, <2>5, <2>6, <2>7 DEF RuntimeInv
<1>10. CASE UNCHANGED runtimeVars
  <2>1. UNCHANGED <<dialect, service, executions, sequence, answers, erased, questions, breaks>>
    BY <1>10 DEF runtimeVars
  <2>2. RuntimeTyped' /\ OwnQuestions' /\ OwnIds' /\ FetchesHaveCauses'
    BY <1>0, <2>1 DEF RuntimeTyped, OwnQuestions, OwnIds, FetchesHaveCauses, Answering
  <2>3. IdsAreOfFlushes'
    BY <1>0, <2>1 DEF IdsAreOfFlushes, Flushed, BeforeFlush
  <2> QED
    BY <1>0, <2>1, <2>2, <2>3, AnswersStay DEF RuntimeInv
<1> QED
  BY <1>1, <1>2, <1>3, <1>4, <1>5, <1>6, <1>7, <1>8, <1>9, <1>10 DEF RuntimeNext

\* A process is at a step of a question that was asked, and no id exceeds the questions.
THEOREM RuntimeIsTyped == RuntimeSpec => []RuntimeTypeOK
<1>1. RuntimeInv => RuntimeTypeOK
  <2> SUFFICES ASSUME RuntimeInv PROVE RuntimeTypeOK
    OBVIOUS
  <2>1. RuntimeTyped /\ OwnQuestions /\ OwnIds /\ sequence \in 0 .. MaxQuestions
    BY IdsAreFew DEF RuntimeInv
  <2>2. \A h \in Hosts : Answering(h) => service[h].at \in {"fetch", "flush", "commit"}
            /\ service[h].n \in 1 .. questions /\ service[h].raised \subseteq {"fetch"}
    BY <2>1, AnsweringIs DEF OwnQuestions, ServiceRecord
  <2>3. \A i \in DOMAIN executions : i \in 1 .. MaxQuestions /\ executions[i].n \in 1 .. questions
    BY <2>1, RuntimeAssumption DEF OwnIds, OwnQuestions
  <2> QED
    BY <2>1, <2>2, <2>3 DEF RuntimeTypeOK, RuntimeTyped, OwnQuestions, Answering
<1> QED
  BY <1>1, RuntimeInitInv, RuntimeStep, PTL DEF RuntimeSpec

\* An answer with an id has its execution with the logs of an error until it is deleted, one
\* without has none but for a lost reply and lacks it for a reason, and sample data is used only
\* when the project has none to show.
THEOREM AnswersAlwaysHold == RuntimeSpec => []AnswersHold
<1>1. RuntimeInv => AnswersHold
  BY DEF RuntimeInv, AnswersHold
<1> QED
  BY <1>1, RuntimeInitInv, RuntimeStep, PTL DEF RuntimeSpec

=============================================================================
