----------------------------- MODULE PolicyGate -----------------------------
(***************************************************************************)
(* The way of a request through backend/backend/pdp: PDPMiddleware in      *)
(* front of the handlers, PolicyEngine.evaluate behind it, the endpoint    *)
(* /pdp/evaluate and PDPService; what each does when the limiter refuses   *)
(* or raises, when the audit log fails, and when the handler fails.        *)
(* Requests share nothing here but the rows of the rate limiter, whose     *)
(* counting is in module RateLimiter; the rules are in AccessControl.      *)
(***************************************************************************)
EXTENDS Integers, Sequences

CONSTANT MaxMishaps     \* bound: failures of the database or of a query

ASSUME GateAssumption == MaxMishaps \in Nat

VARIABLES
    mode,       \* where the limiter counts: "redis", "naive" or "aware" datetimes
    hasRow,     \* the table has the row of the endpoint
    place,      \* where the request is
    kind,       \* who asked
    call,       \* the limiter calls it made
    verdict,    \* the decision so far
    raised,     \* the middleware is in its except branch
    ran,        \* how often the handler ran
    audit,      \* entries of the request in pdp_audit_logs, by decision
    mishaps,    \* failures so far
    upset       \* a failure befell this request

gateVars == <<mode, hasRow, place, kind, call, verdict, raised, ran, audit, mishaps, upset>>

\* "web": the middleware; "evaluate": /pdp/evaluate; "service": PDPService with a limit of
\* its own (export, code); "project": PDPService without; "public": what is not checked
Kinds == {"web", "evaluate", "service", "project", "public"}
Decisions == {"allow", "deny", "rate_limit_exceeded"}
NoEntries == [d \in Decisions |-> 0]

GateInit ==
    /\ mode \in {"redis", "naive", "aware"}
    /\ hasRow = FALSE
    /\ place = "done" /\ kind = "public" /\ call = 0
    /\ verdict = "none" /\ raised = FALSE /\ ran = 0
    /\ audit = NoEntries
    /\ mishaps = 0 /\ upset = FALSE

Mishap == mishaps < MaxMishaps /\ mishaps' = mishaps + 1 /\ upset' = TRUE
Smooth == UNCHANGED <<mishaps, upset>>

Arrive(k) ==
    /\ place = "done"
    /\ kind' = k
    /\ place' = IF k = "public" THEN "serve" ELSE "limiter"
    /\ call' = 1
    /\ verdict' = "none" /\ raised' = FALSE /\ ran' = 0
    /\ audit' = NoEntries /\ upset' = FALSE
    /\ UNCHANGED <<mode, hasRow, mishaps>>

\* a missing policies table sends the request on inside the try, any other exception of
\* PolicyEngine(db) through the except branch; elsewhere it is an error or a denial
LoadRaises ==
    /\ place = "limiter" /\ call = 1
    /\ Mishap
    /\ \/ kind = "web" /\ place' = "serve" /\ raised' \in BOOLEAN /\ UNCHANGED verdict
       \/ kind # "web" /\ place' = "done" /\ verdict' = "deny" /\ UNCHANGED raised
    /\ UNCHANGED <<mode, hasRow, kind, call, ran, audit>>

-----------------------------------------------------------------------------
\* who makes the current limiter call: a check of its own before those of the engine
Caller ==
    IF call = 1 /\ kind = "web" THEN "middleware"
    ELSE IF call = 1 /\ kind = "service" THEN "service" ELSE "engine"
LastCall == IF kind \in {"web", "service"} THEN 3 ELSE 2
IsIncrement == call = LastCall

LimiterPasses ==
    /\ place = "limiter"
    /\ mode = "aware" => ~hasRow
    /\ hasRow' = (hasRow \/ mode # "redis")
    /\ IF IsIncrement THEN place' = "rules" /\ UNCHANGED call
                      ELSE call' = call + 1 /\ UNCHANGED place
    /\ Smooth /\ UNCHANGED <<mode, kind, verdict, raised, ran, audit>>

\* PDPService denies by itself, unlogged: the code scan or the ACL before, the clearance
\* after its own check of the limit
ServiceDenies ==
    /\ place = "limiter"
    /\ (kind = "project" /\ call = 1) \/ (kind = "service" /\ call <= 2)
    /\ verdict' = "deny" /\ place' = "done"
    /\ Smooth /\ UNCHANGED <<mode, hasRow, kind, call, raised, ran, audit>>

\* 429 with an entry of the middleware; a denial that evaluate logs; a denial of
\* PDPService, which is not logged
LimiterRefuses ==
    /\ place = "limiter" /\ mode # "aware" /\ ~IsIncrement
    /\ verdict' = IF Caller = "middleware" THEN "rate_limit_exceeded" ELSE "deny"
    /\ place' = CASE Caller = "middleware" -> "record" [] Caller = "engine" -> "log"
                  [] OTHER -> "done"
    /\ Smooth /\ UNCHANGED <<mode, hasRow, kind, call, raised, ran, audit>>

\* Faulty variant of LimiterRaises: the exception of the middleware's check is a denial.
LimiterRaisesClosed ==
    /\ place = "limiter" /\ mode = "aware" /\ hasRow
    /\ verdict' = "deny"
    /\ place' = CASE Caller = "middleware" -> "record" [] Caller = "engine" -> "log"
                  [] OTHER -> "done"
    /\ Smooth /\ UNCHANGED <<mode, hasRow, kind, call, raised, ran, audit>>

\* TypeError on an aware window_start: the except branch of the middleware calls the
\* handler, the one of evaluate denies and logs, the one of PDPService denies
LimiterRaises ==
    /\ place = "limiter" /\ mode = "aware" /\ hasRow
    /\ \/ /\ Caller = "middleware"
          /\ place' = "serve" /\ raised' = TRUE /\ UNCHANGED verdict
       \/ /\ Caller # "middleware"
          /\ verdict' = "deny" /\ UNCHANGED raised
          /\ place' = IF Caller = "engine" THEN "log" ELSE "done"
    /\ Smooth /\ UNCHANGED <<mode, hasRow, kind, call, ran, audit>>

\* check_content, check_access, apply_policy_chain
Decide ==
    /\ place = "rules"
    /\ verdict' \in {"allow", "deny"}
    /\ place' = "log"
    /\ Smooth /\ UNCHANGED <<mode, hasRow, kind, call, raised, ran, audit>>

-----------------------------------------------------------------------------
Entered(d) == audit' = [audit EXCEPT ![d] = @ + 1]

\* the audit logger swallows IntegrityError and OperationalError
Logged(d) == (Smooth /\ Entered(d)) \/ (Mishap /\ UNCHANGED audit)

AfterLog == IF kind = "evaluate" THEN "done" ELSE "record"

\* _log_decision of the engine
Log ==
    /\ place = "log"
    /\ Logged(verdict)
    /\ place' = AfterLog
    /\ UNCHANGED <<mode, hasRow, kind, call, verdict, raised, ran>>

\* the entry raises: evaluate denies instead and logs that; if this raises too it leaves
\* evaluate, and the middleware sends the request on, inside the try or after it
LogRaises ==
    /\ place = "log"
    /\ Mishap
    /\ \/ verdict' = "deny" /\ Entered("deny") /\ place' = AfterLog /\ UNCHANGED raised
       \/ kind = "web" /\ place' = "serve" /\ raised' \in BOOLEAN /\ UNCHANGED <<verdict, audit>>
       \/ kind # "web" /\ place' = "done" /\ verdict' = "deny" /\ UNCHANGED <<raised, audit>>
    /\ UNCHANGED <<mode, hasRow, kind, call, ran>>

AfterRecord == IF kind = "web" /\ verdict = "allow" THEN "serve" ELSE "done"

\* the entry of the middleware or of log_and_evaluate
Record ==
    /\ place = "record"
    /\ Logged(verdict)
    /\ place' = AfterRecord
    /\ UNCHANGED <<mode, hasRow, kind, call, verdict, raised, ran>>

RecordRaises ==
    /\ place = "record"
    /\ Mishap
    /\ \/ kind = "web" /\ place' = "serve" /\ raised' = TRUE /\ UNCHANGED verdict
       \/ kind # "web" /\ place' = "done" /\ verdict' = "deny" /\ UNCHANGED raised
    /\ UNCHANGED <<mode, hasRow, kind, call, ran, audit>>

InTry == kind = "web" /\ ~raised

\* call_next; an exception of the handler inside the try is answered by calling it again
Serve ==
    /\ place = "serve"
    /\ ran' = ran + 1
    /\ \/ place' = "done" /\ UNCHANGED raised
       \/ InTry /\ raised' = TRUE /\ UNCHANGED place
    /\ Smooth /\ UNCHANGED <<mode, hasRow, kind, call, verdict, audit>>

GateNext ==
    \/ \E k \in Kinds : Arrive(k)
    \/ LimiterPasses \/ LimiterRefuses \/ LimiterRaises \/ ServiceDenies \/ Decide
    \/ Log \/ Record \/ Serve
    \/ LoadRaises \/ LogRaises \/ RecordRaises

GateSpec == GateInit /\ [][GateNext]_gateVars

GateTypeOK ==
    /\ mode \in {"redis", "naive", "aware"} /\ hasRow \in BOOLEAN
    /\ place \in {"done", "limiter", "rules", "log", "record", "serve"}
    /\ kind \in Kinds /\ call \in 0 .. 3
    /\ verdict \in Decisions \cup {"none"}
    /\ raised \in BOOLEAN /\ upset \in BOOLEAN
    /\ ran \in 0 .. 2
    /\ audit \in [Decisions -> 0 .. 2]
    /\ mishaps \in 0 .. MaxMishaps

\* A checked request reaches its handler only with an allow decision, unless something
\* raised on the way: then the middleware lets it through (middleware.py:170-174).
ServedOnlyIfAllowed ==
    ran > 0 /\ kind = "web" => verdict = "allow" \/ upset \/ mode = "aware"

\* The except branch also catches what the handler itself raises, and runs it again: a
\* handler with side effects runs twice, never more, and only after an exception.
HandlerReruns == ran <= 2 /\ (ran = 2 => raised /\ kind = "web")

\* Every decision of a web request is in the audit trail once it is answered: one entry
\* for a limit spent at the middleware, two (engine, middleware) for the others.
DecisionsAreAudited ==
    place = "done" /\ kind = "web" /\ ~upset =>
        /\ audit["rate_limit_exceeded"] = IF verdict = "rate_limit_exceeded" THEN 1 ELSE 0
        /\ \A d \in {"allow", "deny"} : audit[d] = IF verdict = d THEN 2 ELSE 0

\* What is in the trail as allowed was allowed: no later failure turns an entry into a lie,
\* except that of the second entry of PDPService.
AllowedEntriesAreTrue ==
    place = "done" /\ audit["allow"] > 0 => verdict = "allow" \/ (kind \in {"service", "project"} /\ upset)
==============================================================================
