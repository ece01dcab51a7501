----------------------------- MODULE AtLeastOnce -----------------------------
(***************************************************************************)
(* What the job queue promises who enqueues a job, apart from streams,     *)
(* entries, rows and locks.  A job that was accepted is open until a       *)
(* worker finishes or buries it.  While it is open a worker has it, or it  *)
(* is due for one, or a worker let it fall at a moment when it was not due *)
(* again.  Only who took a job while it was open writes its outcome, and   *)
(* what is buried has left a letter.  Two workers may have a job at once:  *)
(* then one of them may open again what the other has closed.              *)
(***************************************************************************)
CONSTANTS Jobs, Workers

VARIABLES
    outcome,    \* of each job: "new", "refused", "open", "success" or "dlq"
    hands,      \* the job each worker has, a set of one or none
    due,        \* jobs that will be handed out (again)
    letters,    \* jobs with a copy in the dead-letter queue
    lost        \* jobs let fall while they were not due

vars == <<outcome, hands, due, letters, lost>>

Closed == {"success", "dlq"}

Init ==
    /\ outcome = [j \in Jobs |-> "new"]
    /\ hands = [w \in Workers |-> {}]
    /\ due = {} /\ letters = {} /\ lost = {}

Accept(j) ==
    /\ outcome[j] = "new"
    /\ outcome' = [outcome EXCEPT ![j] = "open"]
    /\ due' = due \cup {j}
    /\ UNCHANGED <<hands, letters, lost>>

Refuse(j) ==
    /\ outcome[j] = "new"
    /\ outcome' = [outcome EXCEPT ![j] = "refused"]
    /\ UNCHANGED <<hands, due, letters, lost>>

\* Only an open job is begun.
Take(w, j) ==
    /\ hands[w] = {} /\ outcome[j] = "open"
    /\ hands' = [hands EXCEPT ![w] = {j}]
    /\ UNCHANGED <<outcome, due, letters, lost>>

\* A delivery is used up: nobody needs it, or a worker has the job.
UseUp(j) ==
    /\ outcome[j] \in Closed \/ \E w \in Workers : j \in hands[w]
    /\ due' = due \ {j}
    /\ UNCHANGED <<outcome, hands, letters, lost>>

\* A worker did not come to use it up.
ComeBack(j) ==
    /\ outcome[j] \notin {"new", "refused"}
    /\ due' = due \cup {j}
    /\ UNCHANGED <<outcome, hands, letters, lost>>

Complete(w, j) ==
    /\ j \in hands[w]
    /\ outcome' = [outcome EXCEPT ![j] = "success"]
    /\ due' \in {due, due \ {j}}
    /\ UNCHANGED <<hands, letters, lost>>

\* It writes back what it counts as a failure: another worker has closed the job
\* meanwhile, or its own acknowledgement raised after it had completed it.
Reopen(w, j) ==
    /\ j \in hands[w]
    /\ outcome' = [outcome EXCEPT ![j] = "open"]
    /\ UNCHANGED <<hands, due, letters, lost>>

PutBack(w, j) ==
    /\ j \in hands[w]
    /\ hands' = [hands EXCEPT ![w] = {}]
    /\ due' = due \cup {j}
    /\ UNCHANGED <<outcome, letters, lost>>

Write(w, j) ==
    /\ j \in hands[w]
    /\ letters' = letters \cup {j}
    /\ UNCHANGED <<outcome, hands, due, lost>>

Bury(w, j) ==
    /\ j \in hands[w] /\ j \in letters
    /\ outcome' = [outcome EXCEPT ![j] = "dlq"]
    /\ hands' = [hands EXCEPT ![w] = {}]
    /\ UNCHANGED <<due, letters, lost>>

\* It is done with the job, which is closed or somebody else's concern.
Leave(w, j) ==
    /\ j \in hands[w]
    /\ hands' = [hands EXCEPT ![w] = {}]
    /\ due' \in {due, due \cup {j}}
    /\ outcome[j] = "open" =>
         j \in due' \cup lost \/ \E v \in Workers \ {w} : j \in hands[v]
    /\ UNCHANGED <<outcome, letters, lost>>

\* It is interrupted and nothing brings the job back.
Lose(w, j) ==
    /\ j \in hands[w] /\ j \notin due
    /\ hands' = [hands EXCEPT ![w] = {}]
    /\ lost' = lost \cup {j}
    /\ UNCHANGED <<outcome, due, letters>>

Next ==
    \/ \E j \in Jobs : Accept(j) \/ Refuse(j) \/ UseUp(j) \/ ComeBack(j)
    \/ \E w \in Workers, j \in Jobs :
         \/ Take(w, j) \/ Complete(w, j) \/ Reopen(w, j) \/ PutBack(w, j)
         \/ Write(w, j) \/ Bury(w, j) \/ Leave(w, j) \/ Lose(w, j)

Spec == Init /\ [][Next]_vars
==============================================================================
