----------------------------- MODULE MCServices -----------------------------
(***************************************************************************)
(* Services that share no variable: a behaviour is one of one of them,     *)
(* while the others rest.                                                  *)
(***************************************************************************)
EXTENDS RateLimiter, AccessControl, PolicyGate, Promotion, DatasetExport, DeployApprovals,
        CodeRuntime, PolicyTable, ContentScanner, TLC

VARIABLE part

accessVars == <<limiterVars, aclVars, gateVars>>
recordVars == <<promotionVars, exportVars, approvalVars>>
policyVars == <<policyTableVars, scannerVars>>

MCLimits == [e \in Endpoints |-> IF e = ServiceEndpoint THEN 1 ELSE 2]
MCRequests == {[kind |-> k, endpoint |-> ResourceEndpoint] : k \in {"web", "evaluate"}}
              \cup {[kind |-> k, endpoint |-> ServiceEndpoint] : k \in {"service", "status"}}
MCSets == {{}, {"read", "fly"}}
\* the words of a question, and what came with it
MCAsked ==
    {[query |-> {"boq", "total"}, project |-> p, given |-> "nothing", dry |-> FALSE] : p \in {"none", "known"}}
    \cup {[query |-> {"boq", "schedule"} \cup w, project |-> "known", given |-> "nothing", dry |-> FALSE]
            : w \in {{}, {"average"}}}
    \cup {[query |-> {"payment", "simulation"}, project |-> "unknown", given |-> g, dry |-> FALSE]
            : g \in {"data", "broken"}}
    \cup {[query |-> {"variance"}, project |-> "known", given |-> "nothing", dry |-> d] : d \in BOOLEAN}

\* patterns: what is built in and the rows administrators add
MCRegex(h) == [good |-> h # {}, hits |-> h]
MCBuiltin == [t \in {"pii", "sql"} |-> IF t = "pii" THEN [name |-> "email", regex |-> MCRegex({"mail"})]
                                        ELSE [name |-> "union", regex |-> MCRegex({"union"})]]
MCPatternRows == {[type |-> "pii", name |-> "email", regex |-> MCRegex({"plain"})],
                  [type |-> "pii", name |-> "iban", regex |-> MCRegex({"plain"})],
                  [type |-> "sql", name |-> "torn", regex |-> MCRegex({})]}
MCPatternTypes == <<"pii", "sql">>
MCProcessFor == [s \in Scanners |-> "p1"]

\* the values that may differ at the start, of the part that runs
Init ==
    /\ LimiterInit /\ AclInit /\ GateInit /\ PromotionInit /\ ExportInit /\ ApprovalInit /\ RuntimeInit
    /\ PolicyTableInit /\ ScannerInit
    /\ part \in {"limiter", "acl", "gate", "promotion", "export", "approvals", "runtime", "policies", "scanner"}
    /\ IF part = "limiter" THEN ~(store.redis /\ store.aware) ELSE store = [redis |-> TRUE, aware |-> FALSE]
    /\ part # "acl" => roleOf = [u \in Users |-> "viewer"]
    /\ part # "gate" => mode = "redis"
    /\ part # "runtime" => dialect = "postgres"
    /\ part # "policies" => reuses
    /\ IF part = "export"
       THEN owner[1] = "w1" /\ \A f \in Feedback : review[f] # "none" /\ label[f] # "none"
       ELSE \A f \in Feedback : owner[f] = "w1" /\ review[f] = "none" /\ label[f] = "none"

Next ==
    /\ UNCHANGED part
    /\ \/ part = "limiter" /\ LimiterNext /\ UNCHANGED <<aclVars, gateVars, recordVars, runtimeVars, policyVars>>
       \/ part = "acl" /\ AclNext /\ UNCHANGED <<limiterVars, gateVars, recordVars, runtimeVars, policyVars>>
       \/ part = "gate" /\ GateNext /\ UNCHANGED <<limiterVars, aclVars, recordVars, runtimeVars, policyVars>>
       \/ part = "promotion" /\ PromotionNext /\ UNCHANGED <<accessVars, exportVars, approvalVars, runtimeVars, policyVars>>
       \/ part = "export" /\ ExportNext /\ UNCHANGED <<accessVars, promotionVars, approvalVars, runtimeVars, policyVars>>
       \/ part = "approvals" /\ ApprovalNext /\ UNCHANGED <<accessVars, promotionVars, exportVars, runtimeVars, policyVars>>
       \/ part = "runtime" /\ RuntimeNext /\ UNCHANGED <<accessVars, recordVars, policyVars>>
       \/ part = "policies" /\ PolicyTableNext /\ UNCHANGED <<accessVars, recordVars, runtimeVars, scannerVars>>
       \/ part = "scanner" /\ ScannerNext /\ UNCHANGED <<accessVars, recordVars, runtimeVars, policyTableVars>>

Spec == Init /\ [][Next]_<<part, accessVars, recordVars, runtimeVars, policyVars>>

\* the processes of every part are the same two
MCSymmetry == Permutations(Callers)
==============================================================================
