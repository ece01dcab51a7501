----------------------------- MODULE CodeRuntime -----------------------------
(***************************************************************************)
(* backend/services/runtime_service.py and backend/runtime: a question is  *)
(* answered with code from a template, run on the data of a project, and   *)
(* the execution is kept.  A handler awaits nothing that suspends, so a    *)
(* process answers one question at a time; the statements of several       *)
(* processes interleave in the database.  The openai package required has  *)
(* no ChatCompletion any more, so code always comes from the templates.    *)
(***************************************************************************)
EXTENDS Integers, Sequences, SequencesExt, FiniteSets

CONSTANTS
    Hosts,          \* processes of the web server
    Asked,          \* questions: the words the code looks for, the project, the caller's context, dry_run
    MaxQuestions,   \* bound: questions
    MaxBreaks       \* bound: writes that fail or whose reply is lost

\* project_id: none, one without a row, or one with; what the caller gives to compute from
ProjectKinds == {"none", "unknown", "known"}
GivenKinds == {"nothing", "data", "broken"}

ASSUME RuntimeAssumption ==
    /\ MaxQuestions \in Nat /\ MaxBreaks \in Nat
    /\ \A q \in Asked : q.project \in ProjectKinds /\ q.given \in GivenKinds

\* the keys of DATA_KEYWORDS, in the order build_context fetches them
DataKinds == <<"boq", "schedule", "cost", "payment", "variation">>

VARIABLES
    dialect,        \* "postgres" or "sqlite"
    service,        \* the question each process is answering
    executions,     \* code_executions: by id, whose it is and whether its log rows are there
    sequence,         \* the sequence of their ids
    answers,        \* what was sent back
    erased,         \* history: questions whose execution was deleted
    questions, breaks

runtimeVars == <<dialect, service, executions, sequence, answers, erased, questions, breaks>>

Unasked == [at |-> "free"]

RuntimeInit ==
    /\ dialect \in {"postgres", "sqlite"}
    /\ service = [h \in Hosts |-> Unasked]
    /\ executions = <<>> /\ sequence = 0
    /\ answers = {} /\ erased = {}
    /\ questions = 0 /\ breaks = 0

-----------------------------------------------------------------------------
\* _detect_required_data; "variance" is a keyword of the cost data
Required(query) ==
    LET named == (query \cap ToSet(DataKinds)) \cup (IF "variance" \in query THEN {"cost"} ELSE {})
    IN  IF named = {} THEN {"boq", "cost"} ELSE named

\* _generate_fallback_code; "boq" stands for the quantity too
Template(query) ==
    IF "total" \in query THEN IF "boq" \in query THEN "boq_sum" ELSE "simple_sum"
    ELSE IF query \cap {"variance", "increase"} # {} THEN "variance"
    ELSE IF "simulation" \in query THEN "monte_carlo"
    ELSE IF "average" \in query THEN "average" ELSE "context_summary"

\* _check_violations: __name__ of the summary is a dunder, which generator's own check accepts
Violates(template) == template = "context_summary"

\* the answer of each _fetch, and the samples for what is missing or empty
ContextOf(r) ==
    [k \in Required(r.query) |->
        IF r.fetched[k] = "rows" THEN "rows"
        ELSE IF k \in {"boq", "schedule", "cost"} THEN "sample" ELSE "nothing"]

\* what the code computes from: the caller's values and items replace the others, and
\* boq_items and values default to [], whatever data the question made the builder fetch
Used(r) ==
    IF r.given # "nothing" THEN r.given
    ELSE IF "boq" \in Required(r.query) /\ Template(r.query) # "simple_sum" THEN ContextOf(r)["boq"]
    ELSE "nothing"

\* the except clause of the templates names Exception, which the sandbox does not provide
Status(r) == IF Violates(Template(r.query)) \/ Used(r) = "broken" THEN "error" ELSE "success"

-----------------------------------------------------------------------------
\* a new session, and the words and the options of a question
Ask(h, q) ==
    /\ service[h] = Unasked /\ questions < MaxQuestions
    /\ questions' = questions + 1
    /\ service' = [service EXCEPT ![h] =
           [at |-> "fetch", n |-> questions + 1, query |-> q.query, project |-> q.project, given |-> q.given,
            dry |-> q.dry, fetched |-> [k \in ToSet(DataKinds) |-> "nothing"], id |-> 0,
            left |-> IF q.project = "none" THEN {} ELSE Required(q.query),
            raised |-> {}]]
    /\ UNCHANGED <<dialect, executions, sequence, answers, erased, breaks>>

\* a statement that failed aborts the transaction of PostgreSQL, and nobody rolls it back
Aborted(r) == dialect = "postgres" /\ "fetch" \in r.raised

\* the kind that is fetched next, of those that are left
IsNext(r, i) == DataKinds[i] \in r.left /\ \A j \in 1 .. (i - 1) : DataKinds[j] \notin r.left

\* one _fetch: the table may be missing, for nothing in the backend defines it
FetchData(h, i, got) ==
    /\ service[h].at = "fetch" /\ IsNext(service[h], i)
    /\ Aborted(service[h]) => got = "raises"
    /\ service[h].project = "unknown" => got # "rows"
    /\ service' = [service EXCEPT ![h].left = @ \ {DataKinds[i]},
                                  ![h].fetched[DataKinds[i]] = got,
                                  ![h].raised = IF got = "raises" THEN @ \cup {"fetch"} ELSE @]
    /\ UNCHANGED <<dialect, executions, sequence, answers, erased, questions, breaks>>

AnswerQuestion(h, id, raised) ==
    LET r == service[h]
    IN  /\ service' = [service EXCEPT ![h] = Unasked]
        /\ answers' = answers \cup
               {[n |-> r.n, project |-> r.project, dry |-> r.dry, id |-> id, status |-> Status(r),
                 used |-> Used(r), boq |-> r.fetched["boq"], raised |-> raised]}

\* generate_code; dry_run and /runtime/generate answer without running the code
AnswerCode(h) ==
    /\ service[h].at = "fetch" /\ service[h].left = {} /\ service[h].dry
    /\ AnswerQuestion(h, 0, service[h].raised)
    /\ UNCHANGED <<dialect, executions, sequence, erased, questions, breaks>>

\* the code is run or refused, then saved
Execute(h) ==
    /\ service[h].at = "fetch" /\ service[h].left = {} /\ ~service[h].dry
    /\ service' = [service EXCEPT ![h].at = "flush"]
    /\ UNCHANGED <<dialect, executions, sequence, answers, erased, questions, breaks>>

\* PostgreSQL checks the reference to projects; a transaction of SQLite waits for the other
MayInsert(r) == ~Aborted(r) /\ (dialect = "postgres" => r.project # "unknown")
Unlocked == dialect = "sqlite" => \A h \in Hosts : service[h].at # "commit"

\* SQLite gives the largest id in the table plus one, PostgreSQL never gives an id twice
NextId == IF dialect = "sqlite" THEN Max(DOMAIN executions \cup {0}) + 1 ELSE sequence + 1

\* db.flush(), which gives the id
Flush(h) ==
    /\ service[h].at = "flush" /\ MayInsert(service[h]) /\ Unlocked
    /\ service' = [service EXCEPT ![h].at = "commit", ![h].id = NextId]
    /\ sequence' = NextId
    /\ UNCHANGED <<dialect, executions, answers, erased, questions, breaks>>

\* the insert is refused; rollback, and the answer has no id
FlushRefused(h) ==
    /\ service[h].at = "flush" /\ ~MayInsert(service[h])
    /\ AnswerQuestion(h, 0, service[h].raised)
    /\ UNCHANGED <<dialect, executions, sequence, erased, questions, breaks>>

Row(r) == [n |-> r.n, logs |-> Status(r) = "error"]
Keep(r) == executions' = [i \in DOMAIN executions \cup {r.id} |-> IF i = r.id THEN Row(r) ELSE executions[i]]

\* Faulty variant of IdWhenRaised: the id is given back although nothing was committed.
IdWhenFlushed(r) == r.id

\* the except branch returns None
IdWhenRaised(r) == 0

\* the log rows and db.commit()
CommitExecution(h) ==
    /\ service[h].at = "commit"
    /\ Keep(service[h]) /\ AnswerQuestion(h, service[h].id, service[h].raised)
    /\ UNCHANGED <<dialect, sequence, erased, questions, breaks>>

\* a flush or a commit raises, which for a commit may be after its effect
SaveRaises(h) ==
    /\ service[h].at \in {"flush", "commit"} /\ breaks < MaxBreaks /\ breaks' = breaks + 1
    /\ \/ UNCHANGED executions
       \/ service[h].at = "commit" /\ Keep(service[h])
    /\ AnswerQuestion(h, IdWhenRaised(service[h]), service[h].raised \cup {"save"})
    /\ UNCHANGED <<dialect, sequence, erased, questions>>

\* delete_execution: the row with its logs
DeleteExecution(h, id) ==
    /\ service[h] = Unasked /\ Unlocked /\ id \in DOMAIN executions
    /\ executions' = [i \in DOMAIN executions \ {id} |-> executions[i]]
    /\ erased' = erased \cup {executions[id].n}
    /\ UNCHANGED <<dialect, service, sequence, answers, questions, breaks>>

RuntimeNext ==
    \E h \in Hosts :
        \/ \E q \in Asked : Ask(h, q)
        \/ \E i \in DOMAIN DataKinds, got \in {"rows", "empty", "raises"} : FetchData(h, i, got)
        \/ AnswerCode(h) \/ Execute(h)
        \/ Flush(h) \/ FlushRefused(h) \/ CommitExecution(h) \/ SaveRaises(h)
        \/ \E id \in DOMAIN executions : DeleteExecution(h, id)

RuntimeSpec == RuntimeInit /\ [][RuntimeNext]_runtimeVars
-----------------------------------------------------------------------------
RuntimeTypeOK ==
    /\ dialect \in {"postgres", "sqlite"}
    /\ \A h \in Hosts : service[h] # Unasked =>
          /\ service[h].at \in {"fetch", "flush", "commit"}
          /\ service[h].n \in 1 .. questions
          /\ service[h].raised \subseteq {"fetch"}
    /\ \A i \in DOMAIN executions : i \in 1 .. MaxQuestions /\ executions[i].n \in 1 .. questions
    /\ sequence \in 0 .. MaxQuestions /\ erased \subseteq 1 .. questions
    /\ \A a \in answers : a.n \in 1 .. questions /\ a.id \in 0 .. MaxQuestions
    /\ questions \in 0 .. MaxQuestions /\ breaks \in 0 .. MaxBreaks

\* An answer with an id has its execution under that id, with the logs of an error, until it is
\* deleted, also when ids are given again; an answer without an id left none, unless the reply
\* of the commit was lost, and it lacks the id for a reason: the save failed, or PostgreSQL
\* refused it after a failed fetch or for an unknown project.
AnswersAreRecorded ==
    \A a \in answers :
        LET kept == {i \in DOMAIN executions : executions[i].n = a.n}
        IN  IF a.id # 0
            THEN a.n \in erased \/ (kept = {a.id} /\ executions[a.id].logs = (a.status = "error"))
            ELSE /\ kept # {} => "save" \in a.raised
                 /\ \/ a.dry \/ "save" \in a.raised
                    \/ dialect = "postgres" /\ ("fetch" \in a.raised \/ a.project = "unknown")

\* An answer is computed from sample data only when the project has no bill of quantities to
\* show: none was named, its rows were none, or a fetch failed, on PostgreSQL any earlier one.
SamplesHaveCauses ==
    \A a \in answers :
        /\ a.used = "sample" => a.project # "known" \/ a.boq = "empty" \/ "fetch" \in a.raised
        /\ a.used = "rows" => a.project = "known" /\ a.boq = "rows"

\* What an answer says and what it was computed from, together.
AnswersHold == AnswersAreRecorded /\ SamplesHaveCauses
==============================================================================
