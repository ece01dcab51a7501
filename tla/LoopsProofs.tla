----------------------------- MODULE LoopsProofs -----------------------------
(***************************************************************************)
(* Proofs about DistributedLock, for every set of clients and of tokens,   *)
(* about Scheduler, for every set of workers and sources, about            *)
(* AlertsBroadcast, for every set of browsers and number of alerts, and    *)
(* about the three side by side.                                           *)
(***************************************************************************)
EXTENDS MCLoops, TLAPS

-----------------------------------------------------------------------------
(* DistributedLock: exclusion is not inductive. It follows from the fact    *)
(* that the key holds the token of every protected client, and that tokens  *)
(* are not shared.                                                          *)

\* Two clients never hold the same uuid.
TokensDiffer ==
    \A c, d \in Clients :
        token[c] = token[d] /\ token[c] \in Tokens => c = d

\* A client that is trying has drawn a token that is not stored yet.
DraftNotStored ==
    \A c \in Clients : pc[c] = "trying" => token[c] \in Tokens /\ token[c] # key

\* What a client holds in each place; only a working client has lapsed.
TokenByPlace ==
    \A c \in Clients :
        /\ pc[c] = "idle" => token[c] = Null
        /\ pc[c] = "critical" => token[c] \in Tokens \cup {NoLockToken}
        /\ c \in lapsed => pc[c] = "critical"

\* The lease of a protected client is the one that is stored.
ProtectedOwns == \A c \in Clients : Protected(c) => key = token[c]

IInv == TypeOK /\ TokensDiffer /\ DraftNotStored /\ TokenByPlace /\ ProtectedOwns

\* A requested time to live is always at least one second.
LEMMA LeasePositive == \A ttl \in Ttls : LeaseOf(ttl) \in Nat /\ LeaseOf(ttl) # 0
BY TtlsAssumption DEF LeaseOf

\* The first state satisfies the inductive invariant.
LEMMA InitIInv == Init => IInv
BY TokensAssumption
   DEF Init, IInv, TypeOK, TokensDiffer, DraftNotStored, TokenByPlace,
       ProtectedOwns, Protected

\* Every step of a client or of Redis preserves the inductive invariant.
LEMMA NextIInv == IInv /\ [Next]_vars => IInv'
<1> SUFFICES ASSUME IInv, [Next]_vars PROVE IInv'
  OBVIOUS
<1> USE TokensAssumption DEF IInv, TypeOK, TokensDiffer, DraftNotStored,
          TokenByPlace, ProtectedOwns, Protected
<1>1. ASSUME NEW c \in Clients, Draw(c) PROVE IInv'
  BY <1>1 DEF Draw, Move, Keep
<1>2. ASSUME NEW c \in Clients, ProceedUnlocked(c) PROVE IInv'
  BY <1>2 DEF ProceedUnlocked, Move, Keep
<1>3. ASSUME NEW c \in Clients, NEW ttl \in Ttls, SetGranted(c, ttl) PROVE IInv'
  BY <1>3, LeasePositive DEF SetGranted, Move, StoreKey
<1>4. ASSUME NEW c \in Clients, GiveUp(c) PROVE IInv'
  BY <1>4 DEF GiveUp, Move, Keep
<1>5. ASSUME NEW c \in Clients, NEW ttl \in Ttls, SetRaises(c, ttl) PROVE IInv'
  BY <1>5, LeasePositive DEF SetRaises, Move, Keep, StoreKey
<1>6. ASSUME NEW c \in Clients, Release(c) PROVE IInv'
  BY <1>6 DEF Release, Stop, Move, Keep, DeleteKeyOf
<1>7. ASSUME NEW c \in Clients, Abandon(c) PROVE IInv'
  BY <1>7 DEF Abandon, Stop, Move, Keep
<1>8. ASSUME NEW c \in Clients, NEW ttl \in Ttls, Extend(c, ttl) PROVE IInv'
  BY <1>8, LeasePositive DEF Extend
<1>9. CASE Tick
  BY <1>9 DEF Tick
<1>10. CASE Expire
  BY <1>10 DEF Expire
<1>11. CASE UNCHANGED vars
  BY <1>11 DEF vars
<1> QED
  BY <1>1, <1>2, <1>3, <1>4, <1>5, <1>6, <1>7, <1>8, <1>9, <1>10, <1>11
     DEF Next, Step, AnswerAcquire

\* The inductive invariant holds in every reachable state.
LEMMA SpecIInv == Spec => []IInv
BY InitIInv, NextIInv, PTL DEF Spec

\* The type invariant of the lock: a key is stored exactly while its lease runs.
THEOREM LockTypeCorrect == Spec => []TypeOK
<1>1. IInv => TypeOK
  BY DEF IInv
<1> QED
  BY <1>1, SpecIInv, PTL

\* Mutual exclusion: two clients work at once only if one of them was given the
\* sentinel token or has outlived its lease.
THEOREM LockExclusion == Spec => []Exclusion
<1>1. IInv => Exclusion
  BY DEF IInv, TypeOK, TokensDiffer, TokenByPlace, ProtectedOwns, Exclusion,
         Protected
<1> QED
  BY <1>1, SpecIInv, PTL

\* The tokens of the clients that work under a lease.
Active == {token[c] : c \in {d \in Clients : pc[d] = "critical"}} \ {NoLockToken}

\* Every step of the lock is a step of the lease, or none: a release deletes the
\* key of its own token only, and the sentinel never touches the key.
LEMMA StepImplementsLease ==
    IInv /\ [Next]_vars => [Lease!Next]_(Lease!vars)
<1> SUFFICES ASSUME IInv, [Next]_vars PROVE [Lease!Next]_(Lease!vars)
  OBVIOUS
<1> USE TokensAssumption DEF IInv, TypeOK, TokensDiffer, DraftNotStored,
          TokenByPlace
<1>1. ASSUME NEW c \in Clients, Draw(c) PROVE UNCHANGED <<key, Active>>
  BY <1>1 DEF Draw, Move, Keep, Active
<1>2. ASSUME NEW c \in Clients, ProceedUnlocked(c) PROVE UNCHANGED <<key, Active>>
  BY <1>2 DEF ProceedUnlocked, Move, Keep, Active
<1>3. ASSUME NEW c \in Clients, NEW ttl \in Ttls, SetGranted(c, ttl)
      PROVE Lease!Grant(token[c])
  BY <1>3 DEF SetGranted, Move, StoreKey, Lease!Grant
<1>4. ASSUME NEW c \in Clients, GiveUp(c) PROVE UNCHANGED <<key, Active>>
  BY <1>4 DEF GiveUp, Move, Keep, Active
<1>5. ASSUME NEW c \in Clients, NEW ttl \in Ttls, SetRaises(c, ttl)
      PROVE UNCHANGED <<key, Active>> \/ Lease!Orphan(token[c])
  BY <1>5 DEF SetRaises, Move, Keep, StoreKey, Active, Lease!Orphan
<1>6. ASSUME NEW c \in Clients, Release(c) \/ Abandon(c)
      PROVE UNCHANGED <<key, Active>> \/ Lease!Finish(token[c])
  BY <1>6 DEF Release, Abandon, Stop, Move, Keep, DeleteKeyOf, Active, Lease!Finish
<1>7. ASSUME NEW c \in Clients, NEW ttl \in Ttls, Extend(c, ttl)
      PROVE UNCHANGED <<key, Active>>
  BY <1>7 DEF Extend, Active
<1>8. CASE Tick
  BY <1>8 DEF Tick, Lease!vars
<1>9. CASE Expire
  BY <1>9 DEF Expire, Lease!Next, Lease!Lapse
<1>10. CASE UNCHANGED vars
  BY <1>10 DEF vars, Lease!vars
<1>11. \A c \in Clients : pc[c] = "trying" => token[c] \in Tokens
  OBVIOUS
<1>12. ASSUME NEW c \in Clients, Step(c) PROVE [Lease!Next]_(Lease!vars)
  <2>1. UNCHANGED <<key, Active>> => UNCHANGED Lease!vars
    BY DEF Active, Lease!vars
  <2>2. token[c] \in Tokens
        /\ (Lease!Grant(token[c]) \/ Lease!Finish(token[c]) \/ Lease!Orphan(token[c]))
        => Lease!Next
    BY DEF Lease!Next, Lease!Grant, Lease!Finish, Lease!Orphan
  <2>3. CASE pc[c] = "critical" /\ token[c] = NoLockToken
    BY <1>12, <2>1, <2>3 DEF Step, AnswerAcquire, Draw, ProceedUnlocked, GiveUp,
       SetGranted, SetRaises, Release, Abandon, Extend, Stop, Move, Keep,
       DeleteKeyOf, Lease!vars
  <2>4. CASE ~(pc[c] = "critical" /\ token[c] = NoLockToken)
    <3>1. CASE Draw(c) \/ ProceedUnlocked(c) \/ GiveUp(c)
      BY <1>1, <1>2, <1>4, <2>1, <3>1
    <3>2. ASSUME NEW ttl \in Ttls, SetGranted(c, ttl) \/ SetRaises(c, ttl)
          PROVE [Lease!Next]_(Lease!vars)
      <4>1. token[c] \in Tokens
        BY <1>11, <3>2 DEF SetGranted, SetRaises, Move
      <4> QED
        BY <1>3, <1>5, <2>1, <2>2, <3>2, <4>1
    <3>3. CASE Release(c) \/ Abandon(c)
      <4>1. token[c] \in Tokens
        BY <2>4, <3>3 DEF Release, Abandon, Stop, Move
      <4> QED
        BY <1>6, <2>1, <2>2, <3>3, <4>1
    <3>4. ASSUME NEW ttl \in Ttls, Extend(c, ttl) PROVE [Lease!Next]_(Lease!vars)
      BY <1>7, <2>1, <3>4
    <3> QED
      BY <1>12, <3>1, <3>2, <3>3, <3>4 DEF Step, AnswerAcquire
  <2> QED
    BY <2>3, <2>4
<1> QED
  BY <1>8, <1>9, <1>10, <1>12 DEF Next

\* The lock implements the abstract lease.
THEOREM LockImplementsLease == Spec => ImplementsLease
<1>1. Init => Lease!Init
  BY DEF Init, Lease!Init
<1> QED
  BY <1>1, StepImplementsLease, SpecIInv, PTL DEF Spec, ImplementsLease, Lease!Spec

-----------------------------------------------------------------------------
(* Scheduler: a source is hydrated once a night                            *)

Undisturbed == ~overlap /\ breaks = 0

Steps == {"asleep", "next", "insert", "lock", "ask", "hydrate", "reschedule"}
Loop == [step : Steps, source : Sources \cup {"-"}, now : 0 .. MaxTime, left : SUBSET Sources]
Due == {"lock", "ask", "hydrate"}
OfSource == {"insert", "reschedule"} \cup Due
Awake(w) == loop[w].step # "asleep"

\* The type invariant without the loops.
OthersTyped ==
    /\ time \in 0 .. MaxTime
    /\ nextRun \in [Sources -> {NoRow, Never} \cup Nat]
    /\ holder \in {"free", "queue", "nobody"} \cup Schedulers
    /\ jobs \in 0 .. MaxJobs /\ breaks \in 0 .. MaxBreaks
    /\ nightly \in [Sources -> Nat]
    /\ overlap \in BOOLEAN

LoopsTyped == loop \in [Schedulers -> Loop]

\* A loop started in the past, and is at one of the sources.
LoopsArePlaced ==
    \A w \in Schedulers :
        /\ ~Awake(w) => loop[w] = Asleep
        /\ loop[w].now <= time
        /\ loop[w].step \in OfSource => loop[w].source \in Sources

\* The scheduled hours are odd.
HoursAreOdd == \A s \in Sources : nextRun[s] \in Nat => nextRun[s] % 2 = 1

\* While nothing overlaps, one scheduler at most is awake.
OneAwake == ~overlap => \A v, w \in Schedulers : v # w => ~Awake(v) \/ ~Awake(w)

\* A source that was hydrated in this night is not due before the next one, or is about to
\* get its next time.
HydratedIsScheduled ==
    Undisturbed => \A s \in Sources :
        \/ nightly[s] = 0
        \/ nightly[s] = 1 /\ nextRun[s] > time
        \/ nightly[s] = 1 /\ \E w \in Schedulers : loop[w].step = "reschedule" /\ loop[w].source = s

\* A source that a scheduler has found due was not hydrated yet in this night.
DueIsOpen ==
    Undisturbed => \A w \in Schedulers : loop[w].step \in Due => nightly[loop[w].source] = 0

NightInv ==
    /\ OthersTyped /\ LoopsTyped
    /\ LoopsArePlaced /\ HoursAreOdd /\ OneAwake /\ HydratedIsScheduled /\ DueIsOpen

\* The type invariant in parts.
LEMMA SchedulerTypeParts == SchedulerTypeOK <=> OthersTyped /\ LoopsTyped
BY DEF SchedulerTypeOK, OthersTyped, LoopsTyped, Loop, Steps

\* The next scheduled hour is later, and odd.
LEMMA NextHour ==
    ASSUME NEW t \in Nat
    PROVE  NextRunTime(t) \in Nat /\ NextRunTime(t) > t /\ NextRunTime(t) % 2 = 1
BY DEF NextRunTime

\* A step of one loop leaves the others where they are.
LEMMA OneLoop ==
    ASSUME LoopsTyped, NEW w \in Schedulers, NEW x \in Loop, loop' = [loop EXCEPT ![w] = x]
    PROVE  LoopsTyped' /\ loop'[w] = x /\ \A v \in Schedulers : v # w => loop'[v] = loop[v]
BY DEF LoopsTyped

\* What a loop may become: asleep, at a step of the same source, at the next source.
LEMMA LoopValues ==
    ASSUME LoopsTyped, NEW w \in Schedulers
    PROVE  /\ Asleep \in Loop /\ Asleep.step = "asleep" /\ Asleep.now = 0
           /\ Sleeps(w) => loop' = [loop EXCEPT ![w] = Asleep]
           /\ \A t \in Steps :
                /\ [loop[w] EXCEPT !.step = t] \in Loop
                /\ Moves(w, t) => loop' = [loop EXCEPT ![w] = [loop[w] EXCEPT !.step = t]]
           /\ [loop[w] EXCEPT !.step = "next", !.source = "-"] \in Loop
           /\ Proceeds(w) => loop' = [loop EXCEPT ![w] = [loop[w] EXCEPT !.step = "next", !.source = "-"]]
<1> USE SchedulerAssumption DEF LoopsTyped
<1>1. Asleep \in Loop /\ Asleep.step = "asleep" /\ Asleep.now = 0
  BY DEF Asleep, Loop, Steps
<1>2. loop[w] \in Loop
  OBVIOUS
<1>3. ASSUME NEW t \in Steps PROVE [loop[w] EXCEPT !.step = t] \in Loop
  BY <1>2 DEF Loop
<1>4. [loop[w] EXCEPT !.step = "next", !.source = "-"] \in Loop
  BY <1>2 DEF Loop, Steps
<1> QED
  BY <1>1, <1>3, <1>4 DEF Sleeps, Moves, Proceeds

LEMMA NightInit == SchedulerInit => NightInv
<1> SUFFICES ASSUME SchedulerInit PROVE NightInv
  OBVIOUS
<1> USE SchedulerAssumption DEF SchedulerInit
<1>1. Asleep \in Loop /\ Asleep.step = "asleep" /\ Asleep.now = 0
  BY DEF Asleep, Loop, Steps
<1>2. LoopsTyped
  BY <1>1 DEF LoopsTyped
<1>3. OthersTyped
  <2>1. 0 \in 0 .. MaxTime /\ 0 \in 0 .. MaxJobs /\ 0 \in 0 .. MaxBreaks
    OBVIOUS
  <2> QED
    BY <2>1 DEF OthersTyped
<1>4. LoopsArePlaced /\ OneAwake
  BY <1>1 DEF LoopsArePlaced, OneAwake, Awake, OfSource, Due
<1>5. HoursAreOdd /\ HydratedIsScheduled /\ DueIsOpen
  BY <1>1 DEF HoursAreOdd, HydratedIsScheduled, DueIsOpen, Due, NoRow
<1> QED
  BY <1>2, <1>3, <1>4, <1>5 DEF NightInv

\* A loop that goes back to sleep, or to the next source, before it has hydrated one.
LEMMA LoopEndsEarly ==
    ASSUME NightInv, NEW w \in Schedulers, NEW x \in Loop, loop' = [loop EXCEPT ![w] = x],
           x = Asleep \/ (x.step = "next" /\ x.now = loop[w].now /\ Awake(w)),
           loop[w].step # "reschedule" \/ breaks' > 0,
           UNCHANGED <<time, nextRun, nightly, overlap>>, breaks' \in {breaks, breaks + 1}
    PROVE  LoopsTyped' /\ LoopsArePlaced' /\ OneAwake' /\ HydratedIsScheduled' /\ DueIsOpen'
<1> USE DEF NightInv
<1>1. LoopsTyped' /\ loop'[w] = x /\ \A v \in Schedulers : v # w => loop'[v] = loop[v]
  BY OneLoop
<1>2. x.step \in {"asleep", "next"} /\ x.now <= time /\ (x.step = "asleep" => x = Asleep)
  <2>1. Asleep.step = "asleep" /\ Asleep.now = 0
    BY LoopValues
  <2>2. 0 <= time /\ loop[w].now <= time
    BY DEF LoopsArePlaced, OthersTyped
  <2> QED
    BY <2>1, <2>2
<1>3. LoopsArePlaced'
  BY <1>1, <1>2 DEF LoopsArePlaced, OfSource, Due, Awake
<1>4. OneAwake'
  <2>1. x.step = "asleep" \/ Awake(w)
    BY LoopValues
  <2> QED
    BY <1>1, <2>1 DEF OneAwake, Awake
<1>5. HydratedIsScheduled'
  BY <1>1, <1>2 DEF HydratedIsScheduled, Undisturbed, OthersTyped
<1>6. DueIsOpen'
  BY <1>1, <1>2 DEF DueIsOpen, Undisturbed, Due, OthersTyped
<1> QED
  BY <1>1, <1>3, <1>4, <1>5, <1>6

\* A scheduler that goes back to sleep.
LEMMA LoopSleeps ==
    ASSUME NightInv, NEW w \in Schedulers, Sleeps(w),
           loop[w].step # "reschedule" \/ breaks' > 0,
           UNCHANGED <<time, nextRun, nightly, overlap>>, breaks' \in {breaks, breaks + 1}
    PROVE  LoopsTyped' /\ LoopsArePlaced' /\ OneAwake' /\ HydratedIsScheduled' /\ DueIsOpen'
<1>1. PICK x \in Loop : x = Asleep /\ loop' = [loop EXCEPT ![w] = x]
  BY LoopValues DEF NightInv
<1> QED
  BY <1>1, LoopEndsEarly

\* A loop that goes on with its source, which is due and open.
LEMMA LoopGoesOn ==
    ASSUME NightInv, NEW w \in Schedulers, NEW t \in Due, Moves(w, t),
           loop[w].step \in Due,
           UNCHANGED <<time, nextRun, nightly, overlap>>, breaks' \in {breaks, breaks + 1}
    PROVE  LoopsTyped' /\ LoopsArePlaced' /\ OneAwake' /\ HydratedIsScheduled' /\ DueIsOpen'
<1> USE DEF NightInv
<1> DEFINE x == [loop[w] EXCEPT !.step = t]
<1>1. t \in Steps /\ x \in Loop /\ loop' = [loop EXCEPT ![w] = x]
  BY LoopValues DEF Due, Steps
<1>2. LoopsTyped' /\ loop'[w] = x /\ \A v \in Schedulers : v # w => loop'[v] = loop[v]
  BY <1>1, OneLoop
<1>3. x.step = t /\ x.source = loop[w].source /\ x.now = loop[w].now
  BY DEF LoopsTyped, Loop
<1> HIDE DEF x
<1>4. LoopsArePlaced'
  BY <1>2, <1>3 DEF LoopsArePlaced, OfSource, Due, Awake
<1>5. OneAwake'
  BY <1>2, <1>3 DEF OneAwake, Awake, Due
<1>6. HydratedIsScheduled'
  BY <1>2, <1>3 DEF HydratedIsScheduled, Undisturbed, OthersTyped, Due
<1>7. DueIsOpen'
  BY <1>2, <1>3 DEF DueIsOpen, Undisturbed, Due, OthersTyped
<1> QED
  BY <1>2, <1>4, <1>5, <1>6, <1>7

LEMMA NightStep == NightInv /\ [SchedulerNext]_schedulerVars => NightInv'
<1> SUFFICES ASSUME NightInv, [SchedulerNext]_schedulerVars PROVE NightInv'
  OBVIOUS
<1> USE SchedulerAssumption DEF NightInv
<1>1. ASSUME NEW w \in Schedulers, WakeUp(w) PROVE NightInv'
  <2> DEFINE x == [step |-> "next", source |-> "-", now |-> time, left |-> Sources]
  <2>1. x \in Loop /\ loop' = [loop EXCEPT ![w] = x] /\ x.step = "next" /\ x.now = time
    BY <1>1 DEF WakeUp, Loop, Steps, OthersTyped
  <2> HIDE DEF x
  <2>2. LoopsTyped' /\ loop'[w] = x /\ \A v \in Schedulers : v # w => loop'[v] = loop[v]
    BY <2>1, OneLoop
  <2>3. ~Awake(w) /\ UNCHANGED <<time, nextRun, holder, jobs, breaks, nightly>>
        /\ (overlap' = (overlap \/ \E v \in Schedulers \ {w} : Awake(v)))
    BY <1>1, LoopValues DEF WakeUp, LoopsArePlaced, Awake
  <2>4. OthersTyped' /\ HoursAreOdd'
    BY <2>3 DEF OthersTyped, HoursAreOdd
  <2>5. LoopsArePlaced'
    BY <2>1, <2>2, <2>3 DEF LoopsArePlaced, OfSource, Due, Awake, OthersTyped
  <2>6. OneAwake'
    <3>1. ~overlap' => ~overlap /\ \A v \in Schedulers : v # w => ~Awake(v)
      BY <2>3
    <3> QED
      BY <2>2, <3>1 DEF OneAwake, Awake
  <2>7. HydratedIsScheduled'
    BY <2>2, <2>3 DEF HydratedIsScheduled, Undisturbed, Awake, OthersTyped
  <2>8. DueIsOpen'
    BY <2>1, <2>2, <2>3 DEF DueIsOpen, Undisturbed, Due, OthersTyped
  <2> QED
    BY <2>2, <2>4, <2>5, <2>6, <2>7, <2>8
<1>2. ASSUME NEW w \in Schedulers, Look(w) PROVE NightInv'
  <2>1. PICK s \in loop[w].left :
            loop' = [loop EXCEPT ![w].left = @ \ {s}, ![w].source = s,
                       ![w].step = IF nextRun[s] = NoRow THEN "insert"
                                   ELSE IF IsDue(nextRun[s], loop[w].now) THEN "lock" ELSE "next"]
    BY <1>2 DEF Look
  <2> DEFINE t == IF nextRun[s] = NoRow THEN "insert"
                  ELSE IF IsDue(nextRun[s], loop[w].now) THEN "lock" ELSE "next"
             x == [loop[w] EXCEPT !.left = @ \ {s}, !.source = s, !.step = t]
  <2>2. loop[w] \in Loop /\ s \in Sources /\ t \in {"insert", "lock", "next"}
    BY DEF LoopsTyped, Loop
  <2>3. x \in Loop /\ loop' = [loop EXCEPT ![w] = x] /\ x.step = t /\ x.source = s /\ x.now = loop[w].now
    BY <2>1, <2>2 DEF Loop, Steps, LoopsTyped
  <2>4. t = "lock" => nextRun[s] <= loop[w].now
    BY DEF IsDue
  <2> HIDE DEF t, x
  <2>5. LoopsTyped' /\ loop'[w] = x /\ \A v \in Schedulers : v # w => loop'[v] = loop[v]
    BY <2>3, OneLoop
  <2>6. loop[w].step = "next" /\ UNCHANGED <<time, nextRun, holder, jobs, breaks, nightly, overlap>>
    BY <1>2 DEF Look
  <2>7. OthersTyped' /\ HoursAreOdd'
    BY <2>6 DEF OthersTyped, HoursAreOdd
  <2>8. LoopsArePlaced'
    BY <2>2, <2>3, <2>5, <2>6 DEF LoopsArePlaced, Awake
  <2>9. OneAwake'
    BY <2>5, <2>6 DEF OneAwake, Awake
  <2>10. HydratedIsScheduled'
    BY <2>5, <2>6 DEF HydratedIsScheduled, Undisturbed, OthersTyped
  <2>11. Undisturbed /\ t = "lock" => nightly[s] = 0
    <3>1. t = "lock" => nextRun[s] <= time
      BY <2>2, <2>4 DEF LoopsArePlaced, OthersTyped, Loop, NoRow, Never
    <3>2. Undisturbed => \A v \in Schedulers : loop[v].step # "reschedule"
      BY <2>6 DEF OneAwake, Undisturbed, Awake
    <3> QED
      BY <2>2, <3>1, <3>2 DEF HydratedIsScheduled, OthersTyped, NoRow, Never
  <2>12. DueIsOpen'
    BY <2>2, <2>3, <2>5, <2>6, <2>11 DEF DueIsOpen, Undisturbed, Due, OthersTyped
  <2> QED
    BY <2>5, <2>7, <2>8, <2>9, <2>10, <2>12
<1>3. ASSUME NEW w \in Schedulers, EndLoop(w) PROVE NightInv'
  <2>1. UNCHANGED <<time, nextRun, holder, jobs, breaks, nightly, overlap>>
    BY <1>3 DEF EndLoop
  <2>2. OthersTyped' /\ HoursAreOdd'
    BY <2>1 DEF OthersTyped, HoursAreOdd
  <2> QED
    BY <1>3, <2>1, <2>2, LoopSleeps DEF EndLoop
<1>4. ASSUME NEW w \in Schedulers, InsertState(w) PROVE NightInv'
  <2> DEFINE s == loop[w].source
             n == NextRunTime(loop[w].now)
  <2>1. loop[w].step = "insert" /\ s \in Sources /\ UNCHANGED <<time, holder, jobs, breaks, nightly, overlap>>
    BY <1>4 DEF InsertState, LoopsArePlaced, OfSource
  <2>2. n \in Nat /\ n % 2 = 1
    BY NextHour DEF LoopsTyped, Loop
  <2>3. Undisturbed => nightly[s] = 0 \/ nextRun[s] > time
    BY <2>1 DEF HydratedIsScheduled, OneAwake, Undisturbed, Awake
  <2> HIDE DEF n
  <2>4. CASE nextRun[s] = NoRow /\ nextRun' = [nextRun EXCEPT ![s] = n] /\ Proceeds(w)
    <3> DEFINE x == [loop[w] EXCEPT !.step = "next", !.source = "-"]
    <3>1. x \in Loop /\ loop' = [loop EXCEPT ![w] = x] /\ x.step = "next" /\ x.now = loop[w].now
      BY <2>4, LoopValues DEF LoopsTyped, Loop
    <3> HIDE DEF x
    <3>2. LoopsTyped' /\ loop'[w] = x /\ \A v \in Schedulers : v # w => loop'[v] = loop[v]
      BY <3>1, OneLoop
    <3>3. OthersTyped' /\ HoursAreOdd'
      BY <2>1, <2>2, <2>4 DEF OthersTyped, HoursAreOdd
    <3>4. LoopsArePlaced' /\ OneAwake'
      BY <2>1, <3>1, <3>2 DEF LoopsArePlaced, OneAwake, OfSource, Due, Awake
    <3>5. Undisturbed => nightly[s] = 0
      BY <2>1, <2>3, <2>4 DEF OthersTyped, NoRow
    <3>6. HydratedIsScheduled'
      BY <2>1, <2>4, <3>1, <3>2, <3>5 DEF HydratedIsScheduled, Undisturbed, OthersTyped
    <3>7. DueIsOpen'
      BY <2>1, <3>1, <3>2 DEF DueIsOpen, Undisturbed, Due, OthersTyped
    <3> QED
      BY <3>2, <3>3, <3>4, <3>6, <3>7
  <2>5. CASE Sleeps(w) /\ UNCHANGED nextRun
    <3>1. OthersTyped' /\ HoursAreOdd'
      BY <2>1, <2>5 DEF OthersTyped, HoursAreOdd
    <3> QED
      BY <2>1, <2>5, <3>1, LoopSleeps
  <2> QED
    BY <1>4, <2>4, <2>5 DEF InsertState, n
<1>5. ASSUME NEW w \in Schedulers, Acquires(w) PROVE NightInv'
  <2>1. loop[w].step = "lock" /\ UNCHANGED <<time, nextRun, jobs, breaks, nightly, overlap>>
        /\ holder' \in {holder, w}
    BY <1>5 DEF Acquires, TryLock
  <2>2. OthersTyped' /\ HoursAreOdd'
    BY <2>1 DEF OthersTyped, HoursAreOdd
  <2>3. CASE Moves(w, "ask")
    BY <2>1, <2>2, <2>3, LoopGoesOn DEF Due
  <2>4. CASE Proceeds(w)
    <3> DEFINE x == [loop[w] EXCEPT !.step = "next", !.source = "-"]
    <3>1. x \in Loop /\ loop' = [loop EXCEPT ![w] = x] /\ x.step = "next" /\ x.now = loop[w].now
      BY <2>4, LoopValues DEF LoopsTyped, Loop
    <3> HIDE DEF x
    <3> QED
      BY <2>1, <2>2, <3>1, LoopEndsEarly DEF Awake
  <2> QED
    BY <1>5, <2>3, <2>4 DEF Acquires, TryLock
<1>6. ASSUME NEW w \in Schedulers, Allowed(w) \/ AcquiresNothing(w) PROVE NightInv'
  <2>1. /\ loop[w].step \in Due /\ UNCHANGED <<time, nextRun, holder, jobs, nightly, overlap>>
        /\ breaks' \in {breaks, breaks + 1} /\ (breaks' = breaks \/ breaks < MaxBreaks)
    BY <1>6 DEF Allowed, AcquiresNothing, Break, Due
  <2>2. PICK t \in Due : Moves(w, t)
    BY <1>6 DEF Allowed, AcquiresNothing, Due
  <2>3. OthersTyped' /\ HoursAreOdd'
    BY <2>1 DEF OthersTyped, HoursAreOdd
  <2> QED
    BY <2>1, <2>2, <2>3, LoopGoesOn
<1>7. ASSUME NEW w \in Schedulers, HydrateSource(w) PROVE NightInv'
  <2> DEFINE s == loop[w].source
             x == [loop[w] EXCEPT !.step = "reschedule"]
  <2>1. /\ loop[w].step = "hydrate" /\ UNCHANGED <<time, nextRun, holder, jobs, breaks, overlap>>
        /\ s \in Sources /\ nightly' = [nightly EXCEPT ![s] = @ + 1]
    BY <1>7 DEF HydrateSource, LoopsArePlaced, OfSource, Due
  <2>2. x \in Loop /\ loop' = [loop EXCEPT ![w] = x]
    BY <1>7, LoopValues DEF HydrateSource, Steps
  <2>3. x.step = "reschedule" /\ x.source = s /\ x.now = loop[w].now
    BY DEF LoopsTyped, Loop
  <2> HIDE DEF x
  <2>4. LoopsTyped' /\ loop'[w] = x /\ \A v \in Schedulers : v # w => loop'[v] = loop[v]
    BY <2>2, OneLoop
  <2>5. OthersTyped' /\ HoursAreOdd'
    BY <2>1 DEF OthersTyped, HoursAreOdd
  <2>6. LoopsArePlaced' /\ OneAwake'
    BY <2>1, <2>3, <2>4 DEF LoopsArePlaced, OneAwake, OfSource, Due, Awake
  <2>7. Undisturbed => nightly'[s] = 1
    BY <2>1 DEF DueIsOpen, Due, OthersTyped
  <2>8. HydratedIsScheduled'
    BY <2>1, <2>3, <2>4, <2>7 DEF HydratedIsScheduled, Undisturbed, OthersTyped
  <2>9. DueIsOpen'
    <3>1. Undisturbed => \A v \in Schedulers : v # w => ~Awake(v)
      BY <2>1 DEF OneAwake, Undisturbed, Awake
    <3> QED
      BY <2>1, <2>3, <2>4, <3>1 DEF DueIsOpen, Undisturbed, Due, Awake
  <2> QED
    BY <2>4, <2>5, <2>6, <2>8, <2>9
<1>8. ASSUME NEW w \in Schedulers, Reschedule(w) \/ Refused(w) PROVE NightInv'
  <2> DEFINE s == loop[w].source
             x == [loop[w] EXCEPT !.step = "next", !.source = "-"]
  <2>1. /\ loop[w].step \in {"reschedule", "ask"} /\ s \in Sources
        /\ UNCHANGED <<time, jobs, nightly, overlap>> /\ holder' \in {holder, "free"}
    BY <1>8 DEF Reschedule, Refused, LoopsArePlaced, OfSource, Due, Unlock
  <2>2. \/ breaks' = breaks /\ loop[w].step = "reschedule"
        \/ breaks < MaxBreaks /\ breaks' = breaks + 1
    BY <1>8 DEF Reschedule, Refused, Break
  <2>3. PICK n \in Nat : /\ nextRun' = [nextRun EXCEPT ![s] = n] /\ n % 2 = 1
                         /\ breaks' = breaks => n > time
    <3>1. time \in Nat /\ loop[w].now \in Nat
      BY DEF OthersTyped, LoopsTyped, Loop
    <3>2. CASE Reschedule(w)
      BY <3>1, <3>2, NextHour DEF Reschedule, Rescheduled
    <3>3. CASE Refused(w)
      <4>1. breaks' # breaks
        BY <3>3 DEF Refused, Break, OthersTyped
      <4> QED
        BY <3>1, <3>3, <4>1, NextHour DEF Refused
    <3> QED
      BY <1>8, <3>2, <3>3
  <2>4. x \in Loop /\ loop' = [loop EXCEPT ![w] = x] /\ x.step = "next" /\ x.now = loop[w].now
    BY <1>8, LoopValues DEF Reschedule, Refused, LoopsTyped, Loop
  <2> HIDE DEF x
  <2>5. LoopsTyped' /\ loop'[w] = x /\ \A v \in Schedulers : v # w => loop'[v] = loop[v]
    BY <2>4, OneLoop
  <2>6. OthersTyped' /\ HoursAreOdd'
    BY <2>1, <2>2, <2>3 DEF OthersTyped, HoursAreOdd
  <2>7. LoopsArePlaced' /\ OneAwake'
    BY <2>1, <2>4, <2>5 DEF LoopsArePlaced, OneAwake, OfSource, Due, Awake
  <2>8. Undisturbed' => Undisturbed /\ nextRun'[s] > time
    BY <2>1, <2>2, <2>3 DEF Undisturbed, OthersTyped
  <2>9. HydratedIsScheduled'
    BY <2>1, <2>3, <2>4, <2>5, <2>8 DEF HydratedIsScheduled, OthersTyped
  <2>10. DueIsOpen'
    BY <2>1, <2>4, <2>5, <2>8 DEF DueIsOpen, Due
  <2> QED
    BY <2>5, <2>6, <2>7, <2>9, <2>10
<1>9. ASSUME NEW w \in Schedulers, LoopRaises(w) \/ SchedulerDies(w) PROVE NightInv'
  <2>1. /\ UNCHANGED <<time, nextRun, jobs, nightly, overlap>>
        /\ holder' \in {holder, "free", "nobody"} /\ breaks < MaxBreaks /\ breaks' = breaks + 1
    BY <1>9 DEF LoopRaises, SchedulerDies, Unlock, Break
  <2>2. OthersTyped' /\ HoursAreOdd' /\ breaks' > 0
    BY <2>1 DEF OthersTyped, HoursAreOdd
  <2>3. Sleeps(w)
    BY <1>9 DEF LoopRaises, SchedulerDies
  <2> QED
    BY <2>1, <2>2, <2>3, LoopSleeps
<1>10. CASE WorkspaceLockExpires \/ QueueLocks \/ QueueHydrates
  <2>1. /\ UNCHANGED <<time, loop, nightly, overlap>> /\ holder' \in {"free", "queue"}
        /\ breaks' = breaks \/ (breaks < MaxBreaks /\ breaks' = breaks + 1)
        /\ jobs' = jobs \/ (jobs < MaxJobs /\ jobs' = jobs + 1)
    BY <1>10 DEF WorkspaceLockExpires, QueueLocks, QueueHydrates, Break
  <2>2. /\ nextRun' \in [Sources -> {NoRow, Never} \cup Nat]
        /\ \A s \in Sources :
            nextRun'[s] = nextRun[s] \/ (nextRun[s] = NoRow /\ nextRun'[s] = Never)
    <3>1. CASE UNCHANGED nextRun
      BY <3>1 DEF OthersTyped
    <3>2. CASE QueueHydrates
      BY <3>2 DEF QueueHydrates, OthersTyped
    <3> QED
      BY <1>10, <3>1, <3>2 DEF WorkspaceLockExpires, QueueLocks
  <2>3. OthersTyped' /\ LoopsTyped'
    BY <2>1, <2>2 DEF OthersTyped, LoopsTyped
  <2>4. LoopsArePlaced' /\ OneAwake'
    BY <2>1 DEF LoopsArePlaced, OneAwake, Awake
  <2>5. HoursAreOdd'
    BY <2>2 DEF HoursAreOdd, Never
  <2>6. Undisturbed' => Undisturbed
    BY <2>1 DEF Undisturbed, OthersTyped
  <2>7. HydratedIsScheduled' /\ DueIsOpen'
    BY <2>1, <2>2, <2>6 DEF HydratedIsScheduled, DueIsOpen, OthersTyped, NoRow, Never
  <2> QED
    BY <2>3, <2>4, <2>5, <2>7
<1>11. CASE Pass
  <2>1. /\ UNCHANGED <<nextRun, holder, loop, jobs, breaks, overlap>>
        /\ time < MaxTime /\ time' = time + 1
    BY <1>11 DEF Pass
  <2>2. nightly' = [s \in Sources |-> 0] \/ (nightly' = nightly /\ time' % 2 # 1)
    BY <1>11 DEF Pass
  <2>3. OthersTyped' /\ LoopsTyped' /\ HoursAreOdd' /\ OneAwake'
    BY <2>1, <2>2 DEF OthersTyped, LoopsTyped, HoursAreOdd, OneAwake, Awake
  <2>4. LoopsArePlaced'
    BY <2>1 DEF LoopsArePlaced, LoopsTyped, Loop, Awake, OthersTyped
  <2>5. CASE nightly' = [s \in Sources |-> 0]
    BY <2>1, <2>3, <2>4, <2>5 DEF HydratedIsScheduled, DueIsOpen, Undisturbed, LoopsArePlaced, OfSource
  <2>6. CASE nightly' = nightly /\ time' % 2 # 1
    <3>1. \A s \in Sources : nextRun[s] > time => nextRun'[s] > time'
      BY <2>1, <2>6 DEF HoursAreOdd, OthersTyped, NoRow, Never
    <3>2. HydratedIsScheduled' /\ DueIsOpen'
      BY <2>1, <2>6, <3>1 DEF HydratedIsScheduled, DueIsOpen, Undisturbed
    <3> QED
      BY <2>3, <2>4, <3>2
  <2> QED
    BY <2>2, <2>5, <2>6
<1>12. CASE UNCHANGED schedulerVars
  BY <1>12 DEF schedulerVars, OthersTyped, LoopsTyped, LoopsArePlaced, HoursAreOdd, OneAwake,
               HydratedIsScheduled, DueIsOpen, Undisturbed, Awake
<1> QED
  BY <1>1, <1>2, <1>3, <1>4, <1>5, <1>6, <1>7, <1>8, <1>9, <1>10, <1>11, <1>12
     DEF SchedulerNext, LoopSteps

\* The model's variables keep their types, for any number of schedulers and sources
\* (hydration_worker.py:104-162).
THEOREM SchedulerTyped == SchedulerSpec => []SchedulerTypeOK
<1>1. NightInv => SchedulerTypeOK
  BY SchedulerTypeParts DEF NightInv
<1> QED
  BY <1>1, NightInit, NightStep, PTL DEF SchedulerSpec

\* A source is hydrated twice in a night only when two schedulers overlap or a hydration is
\* cut off before the new time is committed (hydration_worker.py:120, :154), for any number
\* of schedulers and sources.
THEOREM SchedulerOncePerNight == SchedulerSpec => []OncePerNight
<1>1. NightInv => OncePerNight
  BY DEF NightInv, HydratedIsScheduled, OncePerNight, Undisturbed, OthersTyped
<1> QED
  BY <1>1, NightInit, NightStep, PTL DEF SchedulerSpec

-----------------------------------------------------------------------------
(* AlertsBroadcast: who is skipped                                          *)

\* The list of connections: of browsers, each once, no more than were accepted.
ListTyped ==
    /\ connections \in Seq(Browsers) /\ IsInjective(connections)
    /\ connects \in 0 .. MaxConnects /\ Len(connections) <= connects

ConsumerTyped ==
    /\ pendingAlerts \in Seq(1 .. MaxAlerts)
    /\ alert \in 0 .. MaxAlerts /\ alerts \in 0 .. MaxAlerts
    /\ cursor \in 0 .. MaxConnects + 1
    /\ staleOnes \subseteq Browsers
    /\ inbox \in [Browsers -> Seq(1 .. MaxAlerts)]

TasksTyped == task \in {"none", "main", "thread", "done"} /\ thread \in {"out", "ensured"}

\* The alert went to c, or its send raised.
Served(c) == c \in staleOnes \/ Last(<<0>> \o inbox[c]) = alert

\* Who is present has its place in the list; as long as the list did not shift, the walk
\* has served those it has passed.
PresentAreServed ==
    /\ present \subseteq Connected
    /\ alert # 0 => cursor # 0
    /\ alert # 0 /\ ~shifted =>
         \A n \in 1 .. Len(connections) :
            connections[n] \in present /\ n < cursor => Served(connections[n])

AlertsInv == ListTyped /\ ConsumerTyped /\ TasksTyped /\ PresentAreServed

\* The elements of the list.
LEMMA ConnectedAre ==
    ASSUME connections \in Seq(Browsers)
    PROVE  /\ Connected \subseteq Browsers
           /\ \A c : c \in Connected <=> \E n \in 1 .. Len(connections) : connections[n] = c
BY DEF Connected, ToSet

\* What is left after a removal.
LEMMA RestTyped ==
    ASSUME ListTyped, NEW gone, RemoveEach(gone), UNCHANGED connects
    PROVE  ListTyped' /\ Connected' = Connected \ gone
<1>1. CASE Connected \cap gone = {} /\ UNCHANGED connections
  BY <1>1 DEF ListTyped, Connected
<1>2. ASSUME NEW rest \in SeqOf(Connected \ gone, Len(connections) - 1),
             Rest(gone, rest), connections' = rest
      PROVE  ListTyped' /\ Connected' = Connected \ gone
  <2>1. PICK n \in 0 .. Len(connections) - 1 : rest \in [1 .. n -> Connected \ gone]
    BY DEF SeqOf
  <2>2. Connected \subseteq Browsers /\ Len(connections) \in Nat
    BY ConnectedAre DEF ListTyped
  <2>3. rest \in [1 .. n -> Browsers] /\ n \in Nat
    BY <2>1, <2>2
  <2>4. rest \in Seq(Browsers) /\ Len(rest) = n
    BY <2>3
  <2> QED
    BY <1>2, <2>1, <2>2, <2>4 DEF ListTyped, Rest, Connected
<1> QED
  BY <1>1, <1>2 DEF RemoveEach

\* The last alert of a client.
LEMMA LastOf ==
    ASSUME NEW s \in Seq(1 .. MaxAlerts), NEW x \in 1 .. MaxAlerts
    PROVE  Last(<<0>> \o Append(s, x)) = x
<1>1. Append(s, x) \in Seq(Int) /\ Len(Append(s, x)) = Len(s) + 1 /\ Append(s, x)[Len(s) + 1] = x
  BY BroadcastAssumption
<1>2. <<0>> \in Seq(Int) /\ Len(<<0>>) = 1 /\ Len(s) \in Nat
  OBVIOUS
<1> DEFINE t == Append(s, x)
<1> HIDE DEF t
<1>3. t \in Seq(Int) /\ Len(t) = Len(s) + 1 /\ t[Len(s) + 1] = x
  BY <1>1 DEF t
<1>4. Len(<<0>> \o t) = Len(s) + 2 /\ (<<0>> \o t)[Len(s) + 2] = t[Len(s) + 1]
  BY <1>2, <1>3
<1>5. Last(<<0>> \o t) = x
  BY <1>3, <1>4 DEF Last
<1> QED
  BY <1>5 DEF t

LEMMA AlertsInit == BroadcastInit => AlertsInv
BY BroadcastAssumption
   DEF BroadcastInit, AlertsInv, ListTyped, ConsumerTyped, TasksTyped, PresentAreServed,
       Connected, ToSet, IsInjective

\* A client connects: nobody who was there moves.
LEMMA ConnectKeeps ==
    ASSUME AlertsInv, NEW c \in Browsers, Connect(c) PROVE AlertsInv'
<1> USE BroadcastAssumption DEF AlertsInv
<1>1. /\ c \notin Connected /\ connects < MaxConnects /\ connects' = connects + 1
      /\ connections' = Append(connections, c) /\ inbox' = [inbox EXCEPT ![c] = <<>>]
      /\ UNCHANGED <<pendingAlerts, thread, alert, cursor, staleOnes, alerts, present, shifted>>
  BY DEF Connect
<1>2. \A n \in 1 .. Len(connections) : connections[n] # c
  BY <1>1, ConnectedAre DEF ListTyped
<1>3. /\ connections' \in Seq(Browsers) /\ Len(connections') = Len(connections) + 1
      /\ connections'[Len(connections) + 1] = c
      /\ \A n \in 1 .. Len(connections) : connections'[n] = connections[n]
  BY <1>1 DEF ListTyped
<1>4. IsInjective(connections')
  <2>1. DOMAIN connections = 1 .. Len(connections) /\ DOMAIN connections' = 1 .. Len(connections) + 1
    BY <1>3 DEF ListTyped
  <2> QED
    BY <1>2, <1>3, <2>1 DEF IsInjective, ListTyped
<1>5. ListTyped'
  BY <1>1, <1>3, <1>4 DEF ListTyped
<1>6. ConsumerTyped'
  BY <1>1 DEF ConsumerTyped
<1>7. TasksTyped'
  BY <1>1 DEF Connect, Ensure, TasksTyped
<1>8. PresentAreServed'
  <2>1. present' \subseteq Connected'
    BY <1>1, <1>3, <1>5, ConnectedAre DEF PresentAreServed, ListTyped, Connected, ToSet
  <2>2. c \notin present
    BY <1>1 DEF PresentAreServed
  <2>3. \A d \in Browsers : d # c => inbox'[d] = inbox[d]
    BY <1>1 DEF ConsumerTyped
  <2>4. ASSUME alert' # 0, ~shifted', NEW n \in 1 .. Len(connections'), NEW d \in present',
               connections'[n] = d, n < cursor'
        PROVE  Served(d)'
    <3>1. n # Len(connections) + 1
      BY <1>1, <1>3, <2>2, <2>4
    <3>2. n \in 1 .. Len(connections) /\ connections'[n] = connections[n]
      BY <1>3, <3>1 DEF ListTyped
    <3>3. Served(d)
      BY <1>1, <2>4, <3>2 DEF PresentAreServed
    <3>4. d \in Browsers /\ d # c
      BY <1>2, <2>4, <3>2 DEF ListTyped
    <3> QED
      BY <1>1, <2>3, <3>2, <3>3, <3>4 DEF Served
  <2> QED
    BY <1>1, <2>1, <2>4 DEF PresentAreServed
<1> QED
  BY <1>5, <1>6, <1>7, <1>8

\* A client leaves: the list may shift, which is noted while an alert goes round.
LEMMA DisconnectKeeps ==
    ASSUME AlertsInv, NEW c \in Browsers, Disconnect(c) PROVE AlertsInv'
<1> USE DEF AlertsInv
<1>1. /\ RemoveEach({c}) /\ present' = present \ {c} /\ shifted' = (shifted \/ alert # 0)
      /\ UNCHANGED <<pendingAlerts, task, thread, alert, cursor, staleOnes, alerts, connects, inbox>>
  BY DEF Disconnect
<1>2. ListTyped' /\ Connected' = Connected \ {c}
  BY <1>1, RestTyped
<1>3. ConsumerTyped' /\ TasksTyped'
  BY <1>1 DEF ConsumerTyped, TasksTyped
<1>4. PresentAreServed'
  BY <1>1, <1>2 DEF PresentAreServed
<1> QED
  BY <1>2, <1>3, <1>4

\* The consumer takes an alert, sends it to the next connection, or drops the stale ones.
LEMMA TakeKeeps == ASSUME AlertsInv, Take PROVE AlertsInv'
<1> USE BroadcastAssumption DEF AlertsInv
<1>1. /\ pendingAlerts # <<>> /\ alert' = Head(pendingAlerts)
      /\ pendingAlerts' = Tail(pendingAlerts) /\ cursor' = 1 /\ staleOnes' = {}
      /\ present' = Connected /\ shifted' = FALSE
      /\ UNCHANGED <<connections, task, thread, alerts, connects, inbox>>
  BY DEF Take
<1>2. alert' \in 1 .. MaxAlerts /\ pendingAlerts' \in Seq(1 .. MaxAlerts)
  BY <1>1 DEF ConsumerTyped
<1>3. ListTyped' /\ TasksTyped' /\ Connected' = Connected
  BY <1>1 DEF ListTyped, TasksTyped, Connected
<1>4. ConsumerTyped'
  BY <1>1, <1>2 DEF ConsumerTyped
<1>5. PresentAreServed'
  BY <1>1, <1>3 DEF PresentAreServed
<1> QED
  BY <1>3, <1>4, <1>5

LEMMA SendKeeps == ASSUME AlertsInv, SendTo PROVE AlertsInv'
<1> USE BroadcastAssumption DEF AlertsInv
<1>1. PICK c : c = connections[cursor]
  OBVIOUS
<1>2. /\ alert # 0 /\ cursor <= Len(connections) /\ cursor' = cursor + 1
      /\ \/ inbox' = [inbox EXCEPT ![c] = Append(@, alert)] /\ UNCHANGED <<staleOnes, connections>>
         \/ staleOnes' = staleOnes \cup {c} /\ UNCHANGED <<connections, inbox>>
      /\ UNCHANGED <<pendingAlerts, task, thread, alert, alerts, connects, present, shifted>>
  BY <1>1 DEF SendTo, Failed
<1>3. cursor \in 1 .. Len(connections) /\ c \in Browsers
  BY <1>1, <1>2 DEF PresentAreServed, ListTyped, ConsumerTyped
<1>4. UNCHANGED <<connections, connects, task, thread, Connected>>
  BY <1>2 DEF Connected
<1>5. ListTyped' /\ TasksTyped'
  BY <1>4 DEF ListTyped, TasksTyped
<1>6. alert \in 1 .. MaxAlerts
  BY <1>2 DEF ConsumerTyped
<1>7. cursor' \in 0 .. MaxConnects + 1
  BY <1>2, <1>3 DEF ListTyped
<1>8. inbox' \in [Browsers -> Seq(1 .. MaxAlerts)] /\ staleOnes' \subseteq Browsers
  <2>1. inbox \in [Browsers -> Seq(1 .. MaxAlerts)] /\ staleOnes \subseteq Browsers
    BY DEF ConsumerTyped
  <2>2. inbox[c] \in Seq(1 .. MaxAlerts)
    BY <1>3, <2>1
  <2>3. Append(inbox[c], alert) \in Seq(1 .. MaxAlerts)
    BY <1>6, <2>2
  <2> QED
    BY <1>2, <1>3, <2>1, <2>3
<1>9. ConsumerTyped'
  BY <1>2, <1>7, <1>8 DEF ConsumerTyped
<1>10. \A d \in Browsers : Served(d) => Served(d)'
  <2>1. CASE inbox' = [inbox EXCEPT ![c] = Append(@, alert)] /\ UNCHANGED staleOnes
    <3>1. Last(<<0>> \o inbox'[c]) = alert
      BY <1>3, <1>6, <2>1, LastOf DEF ConsumerTyped
    <3>2. \A d \in Browsers : d # c => inbox'[d] = inbox[d]
      BY <2>1 DEF ConsumerTyped
    <3> QED
      BY <1>2, <2>1, <3>1, <3>2 DEF Served
  <2>2. CASE staleOnes' = staleOnes \cup {c} /\ UNCHANGED inbox
    BY <1>2, <2>2 DEF Served
  <2> QED
    BY <1>2, <2>1, <2>2
<1>11. Served(c)'
  <2>1. CASE inbox' = [inbox EXCEPT ![c] = Append(@, alert)]
    BY <1>2, <1>3, <1>6, <2>1, LastOf DEF Served, ConsumerTyped
  <2>2. CASE staleOnes' = staleOnes \cup {c}
    BY <2>2 DEF Served
  <2> QED
    BY <1>2, <2>1, <2>2
<1>12. PresentAreServed'
  <2>1. ASSUME alert' # 0, ~shifted', NEW n \in 1 .. Len(connections'), NEW d \in present',
               connections'[n] = d, n < cursor'
        PROVE  Served(d)'
    <3>1. n \in 1 .. Len(connections) /\ n <= cursor
      BY <1>2, <1>3, <1>4, <2>1 DEF ListTyped
    <3>2. CASE n = cursor
      BY <1>1, <1>4, <1>11, <2>1, <3>2
    <3>3. CASE n < cursor
      <4>1. Served(d) /\ d \in Browsers
        BY <1>2, <1>4, <2>1, <3>1, <3>3 DEF PresentAreServed, ListTyped
      <4> QED
        BY <1>4, <1>10, <4>1
    <3> QED
      BY <1>3, <3>1, <3>2, <3>3 DEF ListTyped
  <2>2. cursor' # 0
    BY <1>2, <1>3 DEF ListTyped
  <2> QED
    BY <1>2, <1>4, <2>1, <2>2 DEF PresentAreServed
<1> QED
  BY <1>5, <1>9, <1>12

LEMMA FinishKeeps == ASSUME AlertsInv, Finish PROVE AlertsInv'
<1> USE BroadcastAssumption DEF AlertsInv
<1>1. /\ RemoveEach(staleOnes) /\ alert' = 0 /\ cursor' = 0 /\ staleOnes' = {} /\ present' = {}
      /\ UNCHANGED <<pendingAlerts, task, thread, alerts, connects, inbox>>
  BY DEF Finish
<1>2. ListTyped'
  BY <1>1, RestTyped
<1>3. ConsumerTyped' /\ TasksTyped'
  BY <1>1 DEF ConsumerTyped, TasksTyped
<1>4. PresentAreServed'
  BY <1>1 DEF PresentAreServed
<1> QED
  BY <1>2, <1>3, <1>4

\* Alerts from the main loop and from a thread.
LEMMA AlertsArrive ==
    ASSUME AlertsInv, Broadcast \/ ThreadEnters \/ ThreadLeaves PROVE AlertsInv'
<1> USE BroadcastAssumption DEF AlertsInv
<1>1. UNCHANGED <<connections, alert, cursor, staleOnes, connects, inbox, present, shifted>>
  BY DEF Broadcast, ThreadEnters, ThreadLeaves
<1>2. ListTyped' /\ PresentAreServed'
  BY <1>1 DEF ListTyped, PresentAreServed, Connected, Served
<1>3. TasksTyped'
  BY DEF Broadcast, ThreadEnters, ThreadLeaves, Ensure, TasksTyped
<1>4. \/ UNCHANGED <<alerts, pendingAlerts>>
      \/ alerts < MaxAlerts /\ alerts' = alerts + 1 /\ pendingAlerts' = Append(pendingAlerts, alerts + 1)
  BY DEF Broadcast, ThreadEnters, ThreadLeaves
<1>5. alerts' \in 0 .. MaxAlerts /\ pendingAlerts' \in Seq(1 .. MaxAlerts)
  <2>1. CASE UNCHANGED <<alerts, pendingAlerts>>
    BY <2>1 DEF ConsumerTyped
  <2>2. CASE alerts < MaxAlerts /\ alerts' = alerts + 1 /\ pendingAlerts' = Append(pendingAlerts, alerts + 1)
    <3>1. alerts \in 0 .. MaxAlerts /\ pendingAlerts \in Seq(1 .. MaxAlerts)
      BY DEF ConsumerTyped
    <3>2. PICK x : x = alerts + 1
      OBVIOUS
    <3>3. x \in 1 .. MaxAlerts /\ alerts' = x /\ pendingAlerts' = Append(pendingAlerts, x)
      BY <2>2, <3>1, <3>2
    <3>4. Append(pendingAlerts, x) \in Seq(1 .. MaxAlerts)
      BY <3>1, <3>3
    <3> QED
      BY <3>3, <3>4
  <2> QED
    BY <1>4, <2>1, <2>2
<1>6. ConsumerTyped'
  BY <1>1, <1>5 DEF ConsumerTyped
<1> QED
  BY <1>2, <1>3, <1>6

LEMMA AlertsStep == AlertsInv /\ [BroadcastNext]_broadcastVars => AlertsInv'
<1> SUFFICES ASSUME AlertsInv, [BroadcastNext]_broadcastVars PROVE AlertsInv'
  OBVIOUS
<1>1. CASE UNCHANGED broadcastVars
  BY <1>1 DEF broadcastVars, AlertsInv, ListTyped, ConsumerTyped, TasksTyped, PresentAreServed,
     Connected, Served
<1> QED
  BY <1>1, ConnectKeeps, DisconnectKeeps, TakeKeeps, SendKeeps, FinishKeeps, AlertsArrive
     DEF BroadcastNext

LEMMA AlertsTyped == AlertsInv => BroadcastTypeOK
<1> SUFFICES ASSUME AlertsInv PROVE BroadcastTypeOK
  OBVIOUS
<1>1. Connected \subseteq Browsers
  BY ConnectedAre DEF AlertsInv, ListTyped
<1> QED
  BY <1>1 DEF AlertsInv, ListTyped, ConsumerTyped, TasksTyped, PresentAreServed, BroadcastTypeOK

\* A client that stays connected while an alert goes round gets it, or its send raised,
\* unless another connection left the list meanwhile (alerts_ws.py:25-31), for any
\* browsers, connections and alerts.
THEOREM AlertsSkipOnlyByShift == BroadcastSpec => []SkippedOnlyByShift
<1>1. AlertsInv => SkippedOnlyByShift
  <2> SUFFICES ASSUME AlertsInv, alert # 0, cursor > Len(connections), ~shifted, NEW c \in present
               PROVE  Served(c)
    BY DEF SkippedOnlyByShift, Served
  <2>1. PICK n \in 1 .. Len(connections) : connections[n] = c
    BY ConnectedAre DEF AlertsInv, ListTyped, PresentAreServed
  <2>2. n < cursor
    BY DEF AlertsInv, ListTyped, ConsumerTyped
  <2> QED
    BY <2>1, <2>2 DEF AlertsInv, PresentAreServed
<1> QED
  BY <1>1, AlertsInit, AlertsStep, PTL DEF BroadcastSpec

-----------------------------------------------------------------------------
(* The three modules side by side                                           *)

LEMMA LoopsKeepInv ==
    IInv /\ NightInv /\ AlertsInv /\ [LoopsNext]_loopVars => IInv' /\ NightInv' /\ AlertsInv'
<1> SUFFICES ASSUME IInv, NightInv, AlertsInv, [LoopsNext]_loopVars
             PROVE  IInv' /\ NightInv' /\ AlertsInv'
  OBVIOUS
<1>1. /\ [Next]_vars /\ [SchedulerNext]_schedulerVars /\ [BroadcastNext]_broadcastVars
  BY DEF LoopsNext, Locking, Nightly, Alerting, loopVars
<1> QED
  BY <1>1, NextIInv, NightStep, AlertsStep

\* The variables of the lock, the scheduler and the broadcast keep their types.
THEOREM LoopsTypeCorrect == LoopsSpec => []LoopsTypeOK
<1>1. LoopsInit => IInv /\ NightInv /\ AlertsInv
  BY InitIInv, NightInit, AlertsInit DEF LoopsInit
<1>2. IInv /\ NightInv /\ AlertsInv => LoopsTypeOK
  BY SchedulerTypeParts, AlertsTyped DEF IInv, NightInv, LoopsTypeOK
<1> QED
  BY <1>1, <1>2, LoopsKeepInv, PTL DEF LoopsSpec
===============================================================================
