------------------------------ MODULE Promotion ------------------------------
(***************************************************************************)
(* backend/regression: a candidate of a component is requested, checked    *)
(* against the baseline by an evaluation suite, approved and promoted.     *)
(* Every call is one of several processes; it reads the request, commits   *)
(* in between (the policy engine, the audit log and the gate of            *)
(* backend/ops/regression_guard.py do) and writes without reading again.   *)
(***************************************************************************)
EXTENDS Integers, FiniteSets

CONSTANTS
    Guards,         \* processes that serve /regression
    Parts,          \* components that are versioned
    RequestIds,     \* promotion requests, in the order of their ids
    MaxChecks,      \* bound: checks begun
    MaxCalls,       \* bound: approvals and promotions begun
    MaxTroubles     \* bound: calls that raise, processes that die

ASSUME PromotionAssumption ==
    /\ RequestIds \subseteq Nat \ {0}
    /\ MaxChecks \in Nat /\ MaxCalls \in Nat /\ MaxTroubles \in Nat

VARIABLES
    current,    \* current_component_versions: 0 is baseline:v1, else the request promoted
    threshold,  \* regression_thresholds: whether checks of a component are enabled
    requests,   \* promotion_requests, by id
    checks,     \* regression_checks: request, start of the transaction, passed
    dlq,        \* the workspace has a dlq job younger than a day
    serving,    \* the call each process is in
    clock,      \* transactions of checks begun
    calls, troubles,
    announced,  \* regression.promoted events: the last one of a component
    approvals,  \* history: requests approved after a check that passed
    raced       \* history: requests on which two calls overlapped, and their components

promotionVars == <<current, threshold, requests, checks, dlq, serving, clock, calls,
                   troubles, announced, approvals, raced>>

Statuses == {"none", "requested", "running", "pass", "fail", "approved", "promoted"}
NoPromotion == [status |-> "none", part |-> "-", baseline |-> 0]
NotServing == [op |-> "idle", id |-> 0, began |-> 0]

PromotionInit ==
    /\ current = [p \in Parts |-> 0]
    /\ threshold = [p \in Parts |-> TRUE]
    /\ requests = [i \in RequestIds |-> NoPromotion]
    /\ checks = {} /\ dlq = FALSE
    /\ serving = [g \in Guards |-> NotServing]
    /\ clock = 0 /\ calls = 0 /\ troubles = 0
    /\ announced = [p \in Parts |-> 0]
    /\ approvals = {} /\ raced = {}

AtRest(g) == serving[g].op = "idle"
Others(g, i) == {h \in Guards \ {g} : serving[h].op # "idle" /\ serving[h].id = i}
Rivals(g, p) == {h \in Guards \ {g} : serving[h].op # "idle" /\ requests[serving[h].id].part = p}

Enter(g, op, i, began) ==
    /\ AtRest(g)
    /\ serving' = [serving EXCEPT ![g] = [op |-> op, id |-> i, began |-> began]]
    /\ raced' = raced \cup (IF Others(g, i) = {} THEN {} ELSE {i})
                      \cup (IF Rivals(g, requests[i].part) = {} THEN {} ELSE {requests[i].part})
Continue(g, op) == serving' = [serving EXCEPT ![g].op = op]
Leave(g) == serving' = [serving EXCEPT ![g] = NotServing]
SetStatus(i, s) == requests' = [requests EXCEPT ![i].status = s]
Trouble == troubles < MaxTroubles /\ troubles' = troubles + 1

\* the baseline of a request is the version that is current when it is made
Request(i, p) ==
    /\ requests[i].status = "none"
    /\ \A j \in RequestIds : j < i => requests[j].status # "none"
    /\ requests' = [requests EXCEPT ![i] =
                        [status |-> "requested", part |-> p, baseline |-> current[p]]]
    /\ UNCHANGED <<current, threshold, checks, dlq, serving, clock, calls, troubles,
                   announced, approvals, raced>>

\* update_thresholds, by an administrator
Enable(p, on) ==
    /\ threshold[p] # on /\ calls < MaxCalls
    /\ threshold' = [threshold EXCEPT ![p] = on]
    /\ calls' = calls + 1
    /\ UNCHANGED <<current, requests, checks, dlq, serving, clock, troubles, announced,
                   approvals, raced>>

-----------------------------------------------------------------------------
\* run_check looks at no status: "running" is committed, then a transaction begins
BeginCheck(g, i) ==
    /\ requests[i].status # "none" /\ threshold[requests[i].part]
    /\ clock < MaxChecks
    /\ clock' = clock + 1
    /\ Enter(g, "check", i, clock + 1)
    /\ SetStatus(i, "running")
    /\ UNCHANGED <<current, threshold, checks, dlq, calls, troubles, announced, approvals>>

\* the row carries the start of its transaction in created_at
EndCheck(g, passed) ==
    LET i == serving[g].id IN
    /\ serving[g].op = "check"
    /\ checks' = checks \cup {[id |-> i, began |-> serving[g].began, passed |-> passed]}
    /\ SetStatus(i, IF passed THEN "pass" ELSE "fail")
    /\ Leave(g)
    /\ UNCHANGED <<current, threshold, dlq, clock, calls, troubles, announced, approvals, raced>>

-----------------------------------------------------------------------------
\* Faulty variant of MayApprove: a request that was not checked can be approved.
MayApproveRequested(i) == requests[i].status \in {"requested", "pass"}

MayApprove(i) == requests[i].status = "pass"

BeginApprove(g, i) ==
    /\ MayApprove(i) /\ calls < MaxCalls
    /\ Enter(g, "approve", i, 0)
    /\ calls' = calls + 1
    /\ UNCHANGED <<current, threshold, requests, checks, dlq, clock, troubles, announced, approvals>>

\* require_admin: the policy engine decides and both write the audit log
Denied(g) ==
    /\ serving[g].op \in {"approve", "promote"}
    /\ Leave(g)
    /\ UNCHANGED <<current, threshold, requests, checks, dlq, clock, calls, troubles,
                   announced, approvals, raced>>

CommitApprove(g) ==
    LET i == serving[g].id IN
    /\ serving[g].op = "approve"
    /\ SetStatus(i, "approved")
    /\ approvals' = approvals \cup {i}
    /\ Leave(g)
    /\ UNCHANGED <<current, threshold, checks, dlq, clock, calls, troubles, announced, raced>>

ChecksOf(i) == {k \in checks : k.id = i}

\* order_by(created_at.desc()).first()
LatestPassed(i) ==
    \E k \in ChecksOf(i) : k.passed /\ \A j \in ChecksOf(i) : j.began <= k.began

\* Faulty variant of MayPromote: the approval is not asked for.
MayPromoteUnapproved(i) == requests[i].status \in {"pass", "approved"} /\ LatestPassed(i)

MayPromote(i) == requests[i].status = "approved" /\ LatestPassed(i)

BeginPromote(g, i) ==
    /\ MayPromote(i) /\ calls < MaxCalls
    /\ Enter(g, "promote", i, 0)
    /\ calls' = calls + 1
    /\ UNCHANGED <<current, threshold, requests, checks, dlq, clock, troubles, announced, approvals>>

\* should_promote commits an event of its decision
GateOpen(d) == ~d

AskGate(g) ==
    /\ serving[g].op = "promote"
    /\ IF GateOpen(dlq) THEN Continue(g, "install") ELSE Leave(g)
    /\ UNCHANGED <<current, threshold, requests, checks, dlq, clock, calls, troubles,
                   announced, approvals, raced>>

\* Faulty variant of Install: only a promoted version is replaced, not the first baseline.
InstallLater(p, i) == current' = IF current[p] # 0 THEN [current EXCEPT ![p] = i] ELSE current

Install(p, i) == current' = [current EXCEPT ![p] = i]

\* create_request has made the row of the component; its tag is replaced unseen
CommitPromote(g) ==
    LET i == serving[g].id IN
    /\ serving[g].op = "install"
    /\ Install(requests[i].part, i)
    /\ SetStatus(i, "promoted")
    /\ Continue(g, "announce")
    /\ UNCHANGED <<threshold, checks, dlq, clock, calls, troubles, announced, approvals, raced>>

\* write_audit and emit_global, after the commit
Announce(g) ==
    LET i == serving[g].id IN
    /\ serving[g].op = "announce"
    /\ announced' = [announced EXCEPT ![requests[i].part] = i]
    /\ Leave(g)
    /\ UNCHANGED <<current, threshold, requests, checks, dlq, clock, calls, troubles, approvals, raced>>

\* the evaluation, the policy or the database raises, or the process dies
GuardStops(g) ==
    /\ ~AtRest(g) /\ Trouble
    /\ Leave(g)
    /\ UNCHANGED <<current, threshold, requests, checks, dlq, clock, calls, announced, approvals, raced>>

\* a job of the workspace ends in the dlq, or the last one turns a day old
DlqChanges ==
    /\ dlq' = ~dlq
    /\ UNCHANGED <<current, threshold, requests, checks, serving, clock, calls, troubles,
                   announced, approvals, raced>>

PromotionNext ==
    \/ \E g \in Guards :
        \/ \E i \in RequestIds : BeginCheck(g, i) \/ BeginApprove(g, i) \/ BeginPromote(g, i)
        \/ \E passed \in BOOLEAN : EndCheck(g, passed)
        \/ Denied(g) \/ CommitApprove(g) \/ AskGate(g) \/ CommitPromote(g) \/ Announce(g)
        \/ GuardStops(g)
    \/ \E i \in RequestIds, p \in Parts : Request(i, p)
    \/ \E p \in Parts, on \in BOOLEAN : Enable(p, on)
    \/ DlqChanges

PromotionSpec == PromotionInit /\ [][PromotionNext]_promotionVars

-----------------------------------------------------------------------------
PromotionTypeOK ==
    /\ current \in [Parts -> RequestIds \cup {0}]
    /\ announced \in [Parts -> RequestIds \cup {0}]
    /\ threshold \in [Parts -> BOOLEAN]
    /\ requests \in [RequestIds -> [status : Statuses, part : Parts \cup {"-"},
                                    baseline : RequestIds \cup {0}]]
    /\ checks \subseteq [id : RequestIds, began : 1 .. MaxChecks, passed : BOOLEAN]
    /\ dlq \in BOOLEAN
    /\ serving \in [Guards -> [op : {"idle", "check", "approve", "promote", "install", "announce"},
                               id : RequestIds \cup {0}, began : 0 .. MaxChecks]]
    /\ clock \in 0 .. MaxChecks /\ calls \in 0 .. MaxCalls /\ troubles \in 0 .. MaxTroubles
    /\ approvals \subseteq RequestIds
    /\ raced \subseteq RequestIds \cup Parts

\* Whatever calls overlap, raise or die: a version that is current is the baseline or the
\* candidate of a request for that component which passed a check and was approved.
OnlyApprovedIsCurrent ==
    \A p \in Parts : current[p] # 0 =>
        /\ requests[current[p]].part = p
        /\ current[p] \in approvals
        /\ \E k \in ChecksOf(current[p]) : k.passed

\* approve and promote write a status they read before the policy was asked
\* (guard.py:149, :193): as long as no two calls on a request overlap, its status is that
\* of its newest check, and nothing is approved or promoted against a newer failure.
StatusIsOfNewestCheck ==
    \A i \in RequestIds \ raced :
        requests[i].status \in {"pass", "approved", "promoted"} =>
            \E k \in ChecksOf(i) : k.passed /\ \A j \in ChecksOf(i) : j.began <= k.began

\* The event is sent after the commit (guard.py:241, :250): between calls, and as long as
\* none overlapped or stopped in the middle, the last event of a component tells its version.
AnnouncedIsCurrent ==
    \A p \in Parts \ raced :
        troubles = 0 /\ (\A g \in Guards : serving[g].op # "announce") => announced[p] = current[p]

\* What guard.py promises of a request and of the version it may make current, whatever
\* calls overlap: the three properties above.
PromotionsHold == OnlyApprovedIsCurrent /\ StatusIsOfNewestCheck /\ AnnouncedIsCurrent
==============================================================================
