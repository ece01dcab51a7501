------------------------------ MODULE PolicyTable ------------------------------
(***************************************************************************)
(* The policies that api/pdp.py lists, creates, changes and deletes.  A    *)
(* handler loads the row, sets every attribute and commits; the ORM writes *)
(* only the columns whose value differs from the one it loaded, and reads  *)
(* the row again for the answer.                                           *)
(***************************************************************************)
EXTENDS Integers, FiniteSets, FiniteSetsExt

CONSTANTS
    Editors,        \* threads that serve requests
    PolicyNames,    \* what stands for the name, type, rules and priority
    MaxPolicies,    \* bound: ids
    MaxEdits,       \* bound: requests
    MaxDbErrors     \* bound: commits that fail

ASSUME PolicyTableAssumption == {MaxPolicies, MaxEdits, MaxDbErrors} \subseteq Nat

VARIABLES
    reuses,         \* the database gives the id of a deleted newest row again (SQLite)
    policies,       \* the rows, by id
    lastPolicyId,   \* the newest id given
    edit,           \* what each thread is serving
    askedFor,       \* history: by id, what the newest acknowledged request asked the row to be
    mixed,          \* history: ids of which requests overlapped, until one that did not
    replies,        \* history: the replies with what they were asked
    rowEdits, dbErrors

policyTableVars == <<reuses, policies, lastPolicyId, edit, askedFor, mixed, replies, rowEdits, dbErrors>>

Bodies == [name : PolicyNames, on : BOOLEAN]
NoEdit == [at |-> "none"]

PolicyTableInit ==
    /\ reuses \in BOOLEAN /\ policies = <<>> /\ lastPolicyId = 0
    /\ edit = [e \in Editors |-> NoEdit]
    /\ askedFor = <<>> /\ mixed = {} /\ replies = {} /\ rowEdits = 0 /\ dbErrors = 0

PutRow(f, k, v) == [x \in DOMAIN f \cup {k} |-> IF x = k THEN v ELSE f[x]]
Drop(f, k) == [x \in DOMAIN f \ {k} |-> f[x]]

\* requests of the same row that are under way
On(id) == {e \in Editors : edit[e] # NoEdit /\ edit[e].id = id}

Reported(e, code, row) ==
    /\ replies' = replies \cup {[op |-> edit[e].op, code |-> code, asked |-> edit[e].body, row |-> row,
                                 crossed |-> edit[e].crossed]}
    /\ edit' = [edit EXCEPT ![e] = NoEdit]

\* external: SQLite gives one more than the largest id there is, a sequence never gives one again
NextPolicyId == IF reuses THEN Max(DOMAIN policies \cup {0}) + 1 ELSE lastPolicyId + 1

\* create_policy: the row is committed, then read again
CreatePolicy(e, body) ==
    /\ edit[e] = NoEdit /\ rowEdits < MaxEdits /\ NextPolicyId <= MaxPolicies
    /\ rowEdits' = rowEdits + 1 /\ lastPolicyId' = NextPolicyId
    /\ policies' = PutRow(policies, NextPolicyId, body) /\ askedFor' = PutRow(askedFor, NextPolicyId, body)
    /\ edit' = [d \in Editors |-> IF d = e THEN [at |-> "refresh", op |-> "create", id |-> NextPolicyId, body |-> body,
                                                 loaded |-> body, crossed |-> On(NextPolicyId) # {}]
                                  ELSE IF d \in On(NextPolicyId) THEN [edit[d] EXCEPT !.crossed = TRUE] ELSE edit[d]]
    /\ mixed' = IF On(NextPolicyId) = {} THEN mixed \ {NextPolicyId} ELSE mixed \cup {NextPolicyId}
    /\ UNCHANGED <<reuses, replies, dbErrors>>

\* update_policy and delete_policy load the row, or answer 404
LoadPolicy(e, op, id, body) ==
    /\ edit[e] = NoEdit /\ rowEdits < MaxEdits /\ rowEdits' = rowEdits + 1 /\ id <= lastPolicyId
    /\ IF id \in DOMAIN policies
       THEN edit' = [d \in Editors |-> IF d = e THEN [at |-> "commit", op |-> op, id |-> id, body |-> body,
                                                      loaded |-> policies[id], crossed |-> On(id) # {}]
                                       ELSE IF d \in On(id) THEN [edit[d] EXCEPT !.crossed = TRUE] ELSE edit[d]]
       ELSE UNCHANGED edit
    /\ UNCHANGED <<reuses, policies, lastPolicyId, askedFor, mixed, replies, dbErrors>>

\* Faulty variant of Written: the handler sets the switch only.
WrittenRowSwitch(d) == {c \in {"on"} : d.body[c] # d.loaded[c]}

\* the columns of the UPDATE: those whose value differs from the one loaded
WrittenRow(d) == {c \in {"name", "on"} : d.body[c] # d.loaded[c]}

Acknowledged(d, rows) ==
    /\ policies' = rows
    /\ mixed' = IF d.crossed THEN mixed \cup {d.id} ELSE mixed \ {d.id}

\* an UPDATE that matches no row raises; one of no column is not sent
CommitPolicy(e) ==
    LET d == edit[e]
    IN  /\ d.at = "commit" /\ d.op = "update"
        /\ IF WrittenRow(d) # {} /\ d.id \notin DOMAIN policies
           THEN Reported(e, 500, {}) /\ UNCHANGED <<policies, askedFor, mixed>>
           ELSE /\ edit' = [edit EXCEPT ![e].at = "refresh"]
                /\ IF d.id \notin DOMAIN policies THEN UNCHANGED <<policies, askedFor, mixed>>
                   ELSE /\ Acknowledged(d, [policies EXCEPT ![d.id] = [c \in {"name", "on"} |->
                                                         IF c \in WrittenRow(d) THEN d.body[c] ELSE @[c]]])
                        /\ askedFor' = PutRow(askedFor, d.id, d.body)
                /\ UNCHANGED replies
        /\ UNCHANGED <<reuses, lastPolicyId, rowEdits, dbErrors>>

\* db.refresh, in a transaction of its own; a row that is gone raises, and the caller gets 500
RefreshPolicy(e) ==
    /\ edit[e].at = "refresh"
    /\ IF edit[e].id \in DOMAIN policies THEN Reported(e, 200, {policies[edit[e].id]}) ELSE Reported(e, 500, {})
    /\ UNCHANGED <<reuses, policies, lastPolicyId, askedFor, mixed, rowEdits, dbErrors>>

\* a DELETE that matches no row is a warning
DeletePolicy(e) ==
    LET d == edit[e]
    IN  /\ d.at = "commit" /\ d.op = "delete"
        /\ Acknowledged(d, Drop(policies, d.id))
        /\ askedFor' = Drop(askedFor, d.id)
        /\ Reported(e, 200, {})
        /\ UNCHANGED <<reuses, lastPolicyId, rowEdits, dbErrors>>

\* the commit fails, and is rolled back
CommitFails(e) ==
    /\ edit[e].at = "commit" /\ dbErrors < MaxDbErrors /\ dbErrors' = dbErrors + 1
    /\ Reported(e, 500, {})
    /\ UNCHANGED <<reuses, policies, lastPolicyId, askedFor, mixed, rowEdits>>

PolicyTableNext ==
    \E e \in Editors :
       \/ \E body \in Bodies :
             CreatePolicy(e, body) \/ \E id \in 1 .. MaxPolicies : LoadPolicy(e, "update", id, body)
       \/ \E id \in 1 .. MaxPolicies : LoadPolicy(e, "delete", id, CHOOSE body \in Bodies : TRUE)
       \/ CommitPolicy(e) \/ RefreshPolicy(e) \/ DeletePolicy(e) \/ CommitFails(e)

PolicyTableSpec == PolicyTableInit /\ [][PolicyTableNext]_policyTableVars
-----------------------------------------------------------------------------
PolicyTableTypeOK ==
    /\ DOMAIN policies \subseteq 1 .. MaxPolicies /\ \A id \in DOMAIN policies : policies[id] \in Bodies
    /\ lastPolicyId \in 0 .. MaxPolicies /\ reuses \in BOOLEAN
    /\ \A e \in Editors : edit[e].at \in {"none", "commit", "refresh"}
    /\ rowEdits \in 0 .. MaxEdits /\ dbErrors \in 0 .. MaxDbErrors

\* list_policies with its filter
Listed(on) == {id \in DOMAIN policies : policies[id].on = on}

\* The policies listed as enabled, and as disabled, are those whose newest acknowledged request
\* said so, and one deleted is not listed, unless requests for the row overlapped.
ListedAsAsked ==
    \A on \in BOOLEAN :
        Listed(on) \ mixed = {id \in DOMAIN askedFor : askedFor[id].on = on} \ mixed

\* Every column of a row comes from a request, and an answer shows what was asked for unless
\* requests for the row overlapped, as it shows the row as it is by then.
AnswersAreRows ==
    /\ \A id \in DOMAIN askedFor \ mixed : policies[id] = askedFor[id]
    /\ \A a \in replies : a.op # "delete" /\ ~a.crossed => (a.code = 500 \/ a.row = {a.asked})

\* What administrators asked for is what the table holds, or their requests overlapped.
PoliciesAsAsked == ListedAsAsked /\ AnswersAreRows
==============================================================================
