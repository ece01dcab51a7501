----------------------------- MODULE RateLimiter -----------------------------
(***************************************************************************)
(* backend/backend/pdp/rate_limiter.py and the calls made to it while a    *)
(* request is handled: by the middleware, by PolicyEngine.evaluate, by     *)
(* PDPService and by the status endpoint.  The requests of one user: each  *)
(* caller is a process that handles one request after another, and a       *)
(* request is a program of limiter calls that ends at the first refusal.   *)
(* Counters live in Redis or, without it or when it fails, in a table.     *)
(***************************************************************************)
EXTENDS Integers, Sequences

CONSTANTS
    Callers,            \* processes that handle requests
    Endpoints,          \* the keys of the rate limits
    ServiceEndpoint,    \* what PDPService checks for exports and code execution
    ResourceEndpoint,   \* the resource type it then hands to the engine
    Requests,           \* the requests users make: kind and endpoint
    LimitOf,            \* RATE_LIMITS: calls per window
    Window,             \* window_seconds
    MaxFaults,          \* bound: failures of Redis, of the database, of a process
    MaxRequests         \* bound: requests begun

ASSUME LimiterAssumption ==
    /\ ServiceEndpoint \in Endpoints /\ ResourceEndpoint \in Endpoints
    /\ Requests \subseteq [kind : {"web", "evaluate", "service", "status"}, endpoint : Endpoints]
    /\ LimitOf \in [Endpoints -> Nat \ {0}]
    /\ Window \in Nat \ {0}
    /\ MaxFaults \in Nat /\ MaxRequests \in Nat

VARIABLES
    store,      \* USE_REDIS_RATES; whether the database returns aware datetimes
    counter,    \* Redis: count of a key, and seconds to live (0: no expiry)
    rows,       \* rate_limits: endpoint, current_count, age of window_start
    at,         \* where each caller is
    request,    \* what it handles: kind, endpoint, and the limiter calls it made
    pending,    \* the row change it computed and has not committed
    begun,      \* requests so far
    failures,   \* faults so far
    orphaned,   \* history: endpoints whose EXPIRE was lost
    passes,     \* history: checks the Redis counter let through in its life
    admitted,   \* history: requests counted by the row of an endpoint in its window
    crowded     \* history: endpoints whose row was used while another caller was busy

histories == <<passes, admitted, crowded>>
limiterVars == <<store, counter, rows, at, request, pending, begun, failures, orphaned,
                 histories>>

NoChange == [row |-> 0, seen |-> 0, count |-> 0, restart |-> FALSE]
NoRequest == [kind |-> "status", endpoint |-> ServiceEndpoint, calls |-> 0]
Call(op, e) == [op |-> op, endpoint |-> e]

\* PolicyEngine.check_rate_limit
Evaluate(e) == <<Call("check", e), Call("increment", e)>>

\* The limiter calls of a request, in order.
Program(kind, e) ==
    CASE kind = "web" -> <<Call("check", e)>> \o Evaluate(e)
      [] kind = "evaluate" -> Evaluate(e)
      [] kind = "service" -> <<Call("check", ServiceEndpoint)>> \o Evaluate(ResourceEndpoint)
      [] kind = "status" -> <<Call("check", e)>>

ProgramOf(c) == Program(request[c].kind, request[c].endpoint)
Current(c) == ProgramOf(c)[request[c].calls + 1]
Target(c) == Current(c).endpoint

LimiterInit ==
    /\ store \in [redis : BOOLEAN, aware : BOOLEAN]
    /\ counter = [e \in Endpoints |-> [count |-> 0, ttl |-> 0]]
    /\ rows = <<>>
    /\ at = [c \in Callers |-> "done"]
    /\ request = [c \in Callers |-> NoRequest]
    /\ pending = [c \in Callers |-> NoChange]
    /\ begun = 0
    /\ failures = 0
    /\ orphaned = {}
    /\ passes = [e \in Endpoints |-> 0]
    /\ admitted = [e \in Endpoints |-> 0]
    /\ crowded = {}

Fault == failures < MaxFaults /\ failures' = failures + 1 /\ UNCHANGED begun
NoFault == UNCHANGED <<failures, begun>>
Go(c, place) == at' = [at EXCEPT ![c] = place]

Begin(c, r) ==
    /\ at[c] = "done" /\ begun < MaxRequests
    /\ request' = [request EXCEPT ![c] =
                    [kind |-> r.kind, endpoint |-> r.endpoint, calls |-> 0]]
    /\ Go(c, "call")
    /\ begun' = begun + 1
    /\ UNCHANGED <<store, counter, rows, pending, failures, orphaned, histories>>

\* the program ends: 429, a denial, the decision of the engine, or an exception
Stopped(c) == Go(c, "done") /\ request' = [request EXCEPT ![c] = NoRequest]

\* the next call of the program, or its end
Passed(c) ==
    IF request[c].calls + 1 < Len(ProgramOf(c))
    THEN Go(c, "call") /\ request' = [request EXCEPT ![c].calls = @ + 1]
    ELSE Stopped(c)

-----------------------------------------------------------------------------
\* INCR counts checks and increments alike
Charged(e) == [counter EXCEPT ![e].count = @ + 1]

\* increment returns the count, and nobody looks at it
Within(c, n) == Current(c).op = "increment" \/ n <= LimitOf[Target(c)]

CountPass(c) ==
    LET one == IF Current(c).op = "check" THEN 1 ELSE 0 IN
    /\ passes' = [passes EXCEPT ![Target(c)] = @ + one]
    /\ UNCHANGED <<admitted, crowded>>

Incr(c) ==
    LET n == counter[Target(c)].count + 1 IN
    /\ at[c] = "call" /\ store.redis
    /\ counter' = Charged(Target(c))
    /\ \/ n = 1 /\ Go(c, "expire") /\ UNCHANGED <<request, histories>>
       \/ n # 1 /\ Within(c, n) /\ Passed(c) /\ CountPass(c)
       \/ n # 1 /\ ~Within(c, n) /\ Stopped(c) /\ UNCHANGED histories
    /\ NoFault
    /\ UNCHANGED <<store, rows, pending, orphaned>>

\* Faulty variant of SetExpiry: none at all.
SetExpiryNever(e) == counter' = counter

SetExpiry(e) == counter' = [counter EXCEPT ![e].ttl = Window]

ExpireKey(c) ==
    /\ at[c] = "expire"
    /\ SetExpiry(Target(c))
    /\ Passed(c) /\ CountPass(c)
    /\ NoFault
    /\ UNCHANGED <<store, rows, pending, orphaned>>

Orphan(e) == orphaned' = orphaned \cup {e}

\* INCR or EXPIRE raises, before or after Redis executed it: the table is used
RedisRaises(c) ==
    LET e == Target(c) IN
    /\ Fault
    /\ Go(c, "table")
    /\ \/ at[c] = "call" /\ store.redis /\ UNCHANGED <<counter, orphaned>>
       \/ /\ at[c] = "call" /\ store.redis
          /\ counter' = Charged(e)
          /\ IF counter[e].count = 0 THEN Orphan(e) ELSE UNCHANGED orphaned
       \/ at[c] = "expire" /\ SetExpiry(e) /\ UNCHANGED orphaned
       \/ at[c] = "expire" /\ Orphan(e) /\ UNCHANGED counter
    /\ UNCHANGED <<store, rows, pending, request, histories>>

-----------------------------------------------------------------------------
RowsOf(e) == {i \in DOMAIN rows : rows[i].endpoint = e}
Atop(c) == at[c] = "table" \/ (at[c] = "call" /\ ~store.redis)

\* SELECT ... first() without an order: any row of the endpoint
Looked(c) ==
    /\ Atop(c) /\ NoFault
    /\ crowded' = IF \A d \in Callers \ {c} : at[d] = "done" THEN crowded
                  ELSE crowded \cup {Target(c)}
    /\ UNCHANGED <<store, counter, rows, orphaned, passes, admitted>>

Plan(c, change) ==
    /\ pending' = [pending EXCEPT ![c] = change]
    /\ Go(c, "commit")
    /\ UNCHANGED request

FirstCount(c) == IF Current(c).op = "check" THEN 0 ELSE 1

\* no row: both operations insert one
PlanInsert(c) ==
    /\ Looked(c)
    /\ RowsOf(Target(c)) = {}
    /\ Plan(c, [row |-> 0, seen |-> 0, count |-> FirstCount(c), restart |-> TRUE])

OutOfWindow(r) == r.age >= Window

\* the window is over: start a new one
PlanRestart(c) ==
    /\ Looked(c)
    /\ ~store.aware
    /\ \E i \in RowsOf(Target(c)) :
        /\ OutOfWindow(rows[i])
        /\ Plan(c, [row |-> i, seen |-> rows[i].count, count |-> FirstCount(c),
                    restart |-> TRUE])

\* current_count += 1 on the loaded value
PlanIncrement(c) ==
    /\ Looked(c)
    /\ ~store.aware /\ Current(c).op = "increment"
    /\ \E i \in RowsOf(Target(c)) :
        /\ ~OutOfWindow(rows[i])
        /\ Plan(c, [row |-> i, seen |-> rows[i].count, count |-> rows[i].count + 1,
                    restart |-> FALSE])

Spent(r) == r.count >= LimitOf[r.endpoint]

CheckRow(c) ==
    /\ Looked(c)
    /\ ~store.aware /\ Current(c).op = "check"
    /\ \E i \in RowsOf(Target(c)) :
        /\ ~OutOfWindow(rows[i])
        /\ IF Spent(rows[i]) THEN Stopped(c) ELSE Passed(c)
    /\ UNCHANGED pending

\* datetime.now() - window_start raises TypeError on an aware datetime, uncaught here
SubtractRaises(c) ==
    /\ Looked(c)
    /\ store.aware /\ RowsOf(Target(c)) # {}
    /\ Stopped(c)
    /\ UNCHANGED pending

\* INSERT, or an UPDATE of the attributes whose value changed since they were loaded
Apply(p, e) ==
    IF p.row = 0 THEN Append(rows, [endpoint |-> e, count |-> p.count, age |-> 0])
    ELSE [rows EXCEPT ![p.row].count = IF p.count = p.seen THEN @ ELSE p.count,
                      ![p.row].age = IF p.restart THEN 0 ELSE @]

\* admitted stops one above the limit
CountAdmitted(c) ==
    LET e == Target(c)
        before == IF pending[c].restart THEN 0 ELSE admitted[e]
        one == IF Current(c).op = "increment" /\ before <= LimitOf[e] THEN 1 ELSE 0
    IN  admitted' = [admitted EXCEPT ![e] = before + one]

Forget(c) == pending' = [pending EXCEPT ![c] = NoChange]

CommitRow(c) ==
    /\ at[c] = "commit"
    /\ rows' = Apply(pending[c], Target(c))
    /\ CountAdmitted(c)
    /\ Forget(c) /\ Passed(c) /\ NoFault
    /\ UNCHANGED <<store, counter, orphaned, passes, crowded>>

\* IntegrityError and OperationalError: rolled back, and the call passes
TableRaises(c) ==
    /\ Atop(c) \/ at[c] = "commit"
    /\ Fault
    /\ Forget(c) /\ Passed(c)
    /\ UNCHANGED <<store, counter, rows, orphaned, histories>>

\* the process of the caller dies
Die(c) ==
    /\ at[c] # "done"
    /\ Fault
    /\ IF at[c] = "expire" THEN Orphan(Target(c)) ELSE UNCHANGED orphaned
    /\ Forget(c) /\ Stopped(c)
    /\ UNCHANGED <<store, counter, rows, histories>>

\* a second: keys with a time to live run down to their expiry, rows grow old
Second ==
    LET dies(e) == counter[e].ttl = 1 IN
    /\ counter' = [e \in Endpoints |->
                    IF dies(e) THEN [count |-> 0, ttl |-> 0]
                    ELSE [counter[e] EXCEPT !.ttl = IF @ = 0 THEN 0 ELSE @ - 1]]
    /\ passes' = [e \in Endpoints |-> IF dies(e) THEN 0 ELSE passes[e]]
    /\ rows' = [i \in DOMAIN rows |->
                    [rows[i] EXCEPT !.age = IF @ < Window THEN @ + 1 ELSE @]]
    /\ UNCHANGED <<store, at, request, pending, begun, failures, orphaned, admitted, crowded>>

Answer(c) ==
    \/ Incr(c) \/ ExpireKey(c)
    \/ PlanInsert(c) \/ PlanRestart(c) \/ PlanIncrement(c) \/ CheckRow(c)
    \/ SubtractRaises(c) \/ CommitRow(c)

LimiterNext ==
    \/ \E c \in Callers :
        \/ \E r \in Requests : Begin(c, r)
        \/ Answer(c) \/ RedisRaises(c) \/ TableRaises(c) \/ Die(c)
    \/ Second

LimiterSpec == LimiterInit /\ [][LimiterNext]_limiterVars

LimiterTypeOK ==
    /\ store \in [redis : BOOLEAN, aware : BOOLEAN]
    /\ counter \in [Endpoints -> [count : Nat, ttl : 0 .. Window]]
    /\ rows \in Seq([endpoint : Endpoints, count : Nat, age : 0 .. Window])
    /\ at \in [Callers -> {"done", "call", "expire", "table", "commit"}]
    /\ request \in [Callers -> [kind : {"web", "evaluate", "service", "status"},
                              endpoint : Endpoints, calls : 0 .. 2]]
    /\ pending \in [Callers -> [row : Nat, seen : Nat, count : Nat, restart : BOOLEAN]]
    /\ begun \in 0 .. MaxRequests
    /\ failures \in 0 .. MaxFaults
    /\ orphaned \subseteq Endpoints
    /\ passes \in [Endpoints -> Nat]
    /\ admitted \in [Endpoints -> Nat]
    /\ crowded \subseteq Endpoints

\* No life of a Redis counter lets more checks through than the limit, whatever
\* callers do between INCR and EXPIRE and however calls fail.
RedisLimitHolds == \A e \in Endpoints : passes[e] <= LimitOf[e]

\* A counter without expiry blocks its user for ever once the limit is reached: only
\* a failure between INCR and EXPIRE may leave one (rate_limiter.py:86-88).
NoImmortalCounter ==
    \A e \in Endpoints : counter[e].count > 0 /\ counter[e].ttl = 0 =>
        e \in orphaned \/ \E c \in Callers : at[c] = "expire" /\ Target(c) = e

\* check_limit and increment are separate calls, and increment writes a value it read:
\* a row admits more than its limit only when two callers were busy at a time.
OverAdmissionNeedsOverlap ==
    \A e \in Endpoints : admitted[e] > LimitOf[e] => e \in crowded \/ failures > 0

\* No Redis counter lets more through than its limit in one life, only a failure between its
\* two commands leaves one that never ends, and on the database path only an overlap of
\* callers, or a failure, admits more than the limit (rate_limiter.py:82-130).
LimitsHold == RedisLimitHolds /\ NoImmortalCounter /\ OverAdmissionNeedsOverlap
=============================================================================
