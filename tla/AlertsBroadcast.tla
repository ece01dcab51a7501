--------------------------- MODULE AlertsBroadcast ---------------------------
(***************************************************************************)
(* backend/api/alerts_ws.py: alerts go through one queue to a consumer     *)
(* task, which walks along the list of connections and awaits each send,   *)
(* while the same event loop connects and disconnects clients.  Alerts of  *)
(* other threads run an event loop of their own, with a consumer that is   *)
(* cancelled when that loop ends.                                          *)
(***************************************************************************)
EXTENDS Integers, Sequences, SequencesExt, FiniteSets

CONSTANTS
    Browsers,
    MaxAlerts,      \* bound: alerts
    MaxConnects     \* bound: connections accepted

ASSUME BroadcastAssumption == MaxAlerts \in Nat /\ MaxConnects \in Nat

VARIABLES
    connections,    \* active_connections
    pendingAlerts,  \* _broadcast_queue
    task,           \* _consumer_task: "none", "main", "thread" or "done"
    thread,         \* the thread: "out", or it has made sure of a consumer
    alert,          \* the alert the consumer sends, 0 while it waits in get
    cursor,         \* index of the iteration over the list
    staleOnes,      \* connections whose send raised
    alerts, connects,
    inbox,          \* history: the alerts each client got on its connection, in order
    present,        \* history: clients connected since the current alert was taken
    shifted,        \* history: a connection left the list during the current alert
    orphan          \* history: a connection relied on the consumer of a thread

broadcastVars == <<connections, pendingAlerts, task, thread, alert, cursor, staleOnes, alerts,
                   connects, inbox, present, shifted, orphan>>

BroadcastInit ==
    /\ connections = <<>> /\ pendingAlerts = <<>>
    /\ task = "none" /\ thread = "out"
    /\ alert = 0 /\ cursor = 0 /\ staleOnes = {}
    /\ alerts = 0 /\ connects = 0
    /\ inbox = [c \in Browsers |-> <<>>]
    /\ present = {} /\ shifted = FALSE /\ orphan = FALSE

Connected == ToSet(connections)
\* Faulty variant of Ensure: a task that is done is not replaced.
EnsureOnce == task' = IF task = "none" THEN "main" ELSE task

\* the main loop starts a consumer unless the task looks alive
Ensure == task' = IF task \in {"none", "done"} THEN "main" ELSE task

\* accept, append, _ensure_consumer
Connect(c) ==
    /\ c \notin Connected /\ connects < MaxConnects
    /\ connects' = connects + 1
    /\ connections' = Append(connections, c)
    /\ inbox' = [inbox EXCEPT ![c] = <<>>]
    /\ Ensure
    /\ orphan' = (orphan \/ task = "thread")
    /\ UNCHANGED <<pendingAlerts, thread, alert, cursor, staleOnes, alerts, present, shifted>>

\* list.remove of those in `gone' that are in the list, each of them once: the others
\* stay, in their order.
Rest(gone, rest) ==
    /\ ToSet(rest) = Connected \ gone /\ IsInjective(rest)
    /\ \A m, n \in DOMAIN rest : m < n =>
         \E i, k \in DOMAIN connections :
            i < k /\ connections[i] = rest[m] /\ connections[k] = rest[n]

RemoveEach(gone) ==
    \/ Connected \cap gone = {} /\ UNCHANGED connections
    \/ \E rest \in SeqOf(Connected \ gone, Len(connections) - 1) :
         Rest(gone, rest) /\ connections' = rest

Disconnect(c) ==
    /\ c \in Connected
    /\ RemoveEach({c})
    /\ present' = present \ {c}
    /\ shifted' = (shifted \/ alert # 0)
    /\ UNCHANGED <<pendingAlerts, task, thread, alert, cursor, staleOnes, alerts, connects, inbox, orphan>>

\* enqueue_alert on the main loop
Broadcast ==
    /\ alerts < MaxAlerts
    /\ alerts' = alerts + 1
    /\ pendingAlerts' = Append(pendingAlerts, alerts + 1)
    /\ Ensure
    /\ UNCHANGED <<connections, thread, alert, cursor, staleOnes, connects, inbox, present, shifted, orphan>>

\* enqueue_alert in a thread without a loop: asyncio.run makes sure of a consumer ...
ThreadEnters ==
    /\ thread = "out" /\ alerts < MaxAlerts
    /\ task' = IF task \in {"none", "done"} THEN "thread" ELSE task
    /\ thread' = "ensured"
    /\ UNCHANGED <<connections, pendingAlerts, alert, cursor, staleOnes, alerts, connects, inbox,
                   present, shifted, orphan>>

\* ... puts the alert, and cancels what it started
ThreadLeaves ==
    /\ thread = "ensured"
    /\ IF alerts < MaxAlerts
       THEN alerts' = alerts + 1 /\ pendingAlerts' = Append(pendingAlerts, alerts + 1)
       ELSE UNCHANGED <<alerts, pendingAlerts>>
    /\ task' = IF task = "thread" THEN "done" ELSE task
    /\ thread' = "out"
    /\ UNCHANGED <<connections, alert, cursor, staleOnes, connects, inbox, present, shifted, orphan>>

-----------------------------------------------------------------------------
Take ==
    /\ task = "main" /\ alert = 0 /\ pendingAlerts # <<>>
    /\ alert' = Head(pendingAlerts) /\ pendingAlerts' = Tail(pendingAlerts)
    /\ cursor' = 1 /\ staleOnes' = {}
    /\ present' = Connected /\ shifted' = FALSE
    /\ UNCHANGED <<connections, task, thread, alerts, connects, inbox, orphan>>

\* Faulty variant of Failed: the connection is removed in the middle of the iteration.
FailedRemoved(c) == staleOnes' = staleOnes \cup {c} /\ RemoveEach({c})

Failed(c) == staleOnes' = staleOnes \cup {c} /\ UNCHANGED connections

\* the list iterator counts; a removal before it moves the list under it
SendTo ==
    /\ alert # 0 /\ cursor <= Len(connections)
    /\ LET c == connections[cursor] IN
        \/ inbox' = [inbox EXCEPT ![c] = Append(@, alert)] /\ UNCHANGED <<staleOnes, connections>>
        \/ Failed(c) /\ UNCHANGED inbox
    /\ cursor' = cursor + 1
    /\ UNCHANGED <<pendingAlerts, task, thread, alert, alerts, connects, present,
                   shifted, orphan>>

Finish ==
    /\ alert # 0 /\ cursor > Len(connections)
    /\ RemoveEach(staleOnes)
    /\ alert' = 0 /\ cursor' = 0 /\ staleOnes' = {}
    /\ present' = {} /\ shifted' = FALSE
    /\ UNCHANGED <<pendingAlerts, task, thread, alerts, connects, inbox, orphan>>

Consume == Take \/ SendTo \/ Finish

BroadcastNext ==
    \/ \E c \in Browsers : Connect(c) \/ Disconnect(c)
    \/ Broadcast \/ ThreadEnters \/ ThreadLeaves
    \/ Take \/ SendTo \/ Finish

\* the event loop runs the consumer, threads finish what they began
BroadcastFairness == WF_broadcastVars(Consume) /\ WF_broadcastVars(ThreadLeaves)

BroadcastSpec == BroadcastInit /\ [][BroadcastNext]_broadcastVars /\ BroadcastFairness

-----------------------------------------------------------------------------
BroadcastTypeOK ==
    /\ Connected \subseteq Browsers /\ IsInjective(connections)
    /\ pendingAlerts \in Seq(1 .. MaxAlerts)
    /\ task \in {"none", "main", "thread", "done"} /\ thread \in {"out", "ensured"}
    /\ alert \in 0 .. MaxAlerts /\ cursor \in 0 .. MaxConnects + 1
    /\ staleOnes \subseteq Browsers /\ present \subseteq Browsers
    /\ alerts \in 0 .. MaxAlerts /\ connects \in 0 .. MaxConnects
    /\ inbox \in [Browsers -> Seq(1 .. MaxAlerts)]

\* A client that stays connected while an alert goes round gets it, or its send raised,
\* unless another connection left the list meanwhile: then the iteration skips one.
SkippedOnlyByShift ==
    (alert # 0 /\ cursor > Len(connections) /\ ~shifted) =>
        \A c \in present : c \in staleOnes \/ Last(<<0>> \o inbox[c]) = alert

\* Alerts that wait are sent as long as somebody is connected, unless a client connected
\* while the consumer of a thread looked alive: it is cancelled, and nobody replaces it.
AlertsLeave == (pendingAlerts # <<>> /\ connections # <<>>)
                ~> (pendingAlerts = <<>> \/ connections = <<>> \/ orphan)

\* Both of them: the alerts leave, and reach whom they should.
AlertsHold == []SkippedOnlyByShift /\ AlertsLeave
==============================================================================
