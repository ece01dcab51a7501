------------------------------- MODULE MCLoops -------------------------------
(***************************************************************************)
(* The distributed lock, the nightly scheduler and the broadcast of alerts *)
(* share no variable: a behaviour is one of one of them, while the others  *)
(* rest.                                                                   *)
(***************************************************************************)
EXTENDS DistributedLock, Scheduler, AlertsBroadcast

VARIABLE part

loopVars == <<part, vars, schedulerVars, broadcastVars>>

\* ttl 0 is rounded up to one second by the code, 2 lets a lease be extended
MCTtls == {0, 2}

LoopsInit ==
    Init /\ SchedulerInit /\ BroadcastInit /\ part \in {"lock", "scheduler", "broadcast"}

Locking(A) == part = "lock" /\ A /\ UNCHANGED <<part, schedulerVars, broadcastVars>>
Nightly(A) == part = "scheduler" /\ A /\ UNCHANGED <<part, vars, broadcastVars>>
Alerting(A) == part = "broadcast" /\ A /\ UNCHANGED <<part, vars, schedulerVars>>

LoopsNext == Locking(Next) \/ Nightly(SchedulerNext) \/ Alerting(BroadcastNext)

\* the fairness of each module, while it is the one that runs
LoopsFairness ==
    /\ WF_loopVars(Locking(Tick \/ Expire))
    /\ \A c \in Clients : WF_loopVars(Locking(AnswerAcquire(c)))
    /\ \A w \in Schedulers : WF_loopVars(Nightly(LoopSteps(w)))
    /\ WF_loopVars(Nightly(QueueHydrates))
    /\ WF_loopVars(Nightly(holder = "nobody" /\ WorkspaceLockExpires))
    /\ WF_loopVars(Alerting(Consume))
    /\ WF_loopVars(Alerting(ThreadLeaves))

LoopsSpec == LoopsInit /\ [][LoopsNext]_loopVars /\ LoopsFairness

\* Every variable of the three modules has its type.
LoopsTypeOK == TypeOK /\ SchedulerTypeOK /\ BroadcastTypeOK
==============================================================================
