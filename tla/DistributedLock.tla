--------------------------- MODULE DistributedLock ---------------------------
(***************************************************************************)
(* backend/redisx/locks.py: a Redis key holding the token of its owner,    *)
(* set with NX and an expiry, released and extended by scripts that first  *)
(* compare the token.  One key and the processes that compete for it.      *)
(* A Redis call may raise, before or after Redis has executed it; acquire  *)
(* then answers with the sentinel token and the caller proceeds unlocked.  *)
(***************************************************************************)
EXTENDS Integers

CONSTANTS
    Clients,        \* processes that use the key
    Tokens,         \* uuid4 values; one is reused only once nothing holds it
    Null,           \* no token
    NoLockToken,    \* DistributedLock._NO_LOCK_TOKEN
    Ttls            \* the ttl arguments of acquire and extend

ASSUME TokensAssumption ==
    /\ Null \notin Tokens
    /\ NoLockToken \notin Tokens
    /\ Null # NoLockToken

ASSUME TtlsAssumption == Ttls \subseteq Int

VARIABLES
    key,        \* the value stored under the Redis key
    left,       \* seconds until Redis expires the key
    pc,         \* where each client is
    token,      \* the token each client drew or was given
    lapsed      \* clients whose lease ran out while they worked (they cannot see it)

vars == <<key, left, pc, token, lapsed>>

Init ==
    /\ key = Null
    /\ left = 0
    /\ pc = [c \in Clients |-> "idle"]
    /\ token = [c \in Clients |-> Null]
    /\ lapsed = {}

\* Faulty variant of LeaseOf: the ttl is passed on as it is.
LeaseUnrounded(ttl) == ttl

\* max(int(ttl), 1)
LeaseOf(ttl) == IF ttl < 1 THEN 1 ELSE ttl

Move(c, from, to) == pc[c] = from /\ pc' = [pc EXCEPT ![c] = to]

Keep(c, t) == token' = [token EXCEPT ![c] = t]

\* Faulty variants of StoreKey: SET without NX, and SET without EX.
StoreAlways(t, ttl) == key' = t /\ left' = LeaseOf(ttl)
StoreWithoutExpiry(t, ttl) == key = Null /\ key' = t /\ left' = 0

StoreKey(t, ttl) == key = Null /\ key' = t /\ left' = LeaseOf(ttl)

\* Faulty variant of DeleteKeyOf: DEL without comparing the token.
DeleteAny(t) == key' = Null /\ left' = 0

DeleteKeyOf(t) ==
    /\ key' = IF key = t THEN Null ELSE key
    /\ left' = IF key = t THEN 0 ELSE left

Stop(c) ==
    /\ Move(c, "critical", "idle")
    /\ Keep(c, Null)
    /\ lapsed' = lapsed \ {c}

-----------------------------------------------------------------------------
\* acquire: draw a token
Draw(c) ==
    \E t \in Tokens :
        /\ t # key /\ \A d \in Clients : token[d] # t
        /\ Move(c, "idle", "trying")
        /\ Keep(c, t)
        /\ UNCHANGED <<key, left, lapsed>>

\* acquire in a process without a Redis client
ProceedUnlocked(c) ==
    /\ Move(c, "idle", "critical")
    /\ Keep(c, NoLockToken)
    /\ UNCHANGED <<key, left, lapsed>>

\* SET key token NX EX ttl
SetGranted(c, ttl) ==
    /\ Move(c, "trying", "critical")
    /\ StoreKey(token[c], ttl)
    /\ UNCHANGED <<token, lapsed>>

\* SET refused and no time left to wait.  A refusal with time left sleeps and
\* tries again, which changes nothing.
GiveUp(c) ==
    /\ key # Null
    /\ Move(c, "trying", "idle")
    /\ Keep(c, Null)
    /\ UNCHANGED <<key, left, lapsed>>

\* SET raises: acquire returns the sentinel even if Redis executed it
SetRaises(c, ttl) ==
    /\ Move(c, "trying", "critical")
    /\ Keep(c, NoLockToken)
    /\ UNCHANGED lapsed
    /\ \/ UNCHANGED <<key, left>>
       \/ StoreKey(token[c], ttl)

Release(c) ==
    /\ Stop(c)
    /\ DeleteKeyOf(token[c])

\* the release script raises unexecuted, or the process dies in the critical section
Abandon(c) ==
    /\ Stop(c)
    /\ UNCHANGED <<key, left>>

Extend(c, ttl) ==
    /\ pc[c] = "critical"
    /\ key = token[c]
    /\ left' = LeaseOf(ttl)
    /\ UNCHANGED <<key, pc, token, lapsed>>

\* Redis expires the key
Expire ==
    /\ left = 1
    /\ left' = 0
    /\ key' = Null
    /\ lapsed' = lapsed \cup {c \in Clients : pc[c] = "critical" /\ token[c] = key}
    /\ UNCHANGED <<pc, token>>

Tick ==
    /\ left > 1
    /\ left' = left - 1
    /\ UNCHANGED <<key, pc, token, lapsed>>

\* What acquire answers when Redis does not fail.
AnswerAcquire(c) == GiveUp(c) \/ \E ttl \in Ttls : SetGranted(c, ttl)

Step(c) ==
    \/ Draw(c) \/ ProceedUnlocked(c) \/ AnswerAcquire(c)
    \/ Release(c) \/ Abandon(c)
    \/ \E ttl \in Ttls : SetRaises(c, ttl) \/ Extend(c, ttl)

Next == (\E c \in Clients : Step(c)) \/ Tick \/ Expire

Spec == Init /\ [][Next]_vars

\* Time passes, a caller's waiting time is finite, and Redis answers.
FairSpec ==
    /\ Spec
    /\ WF_vars(Tick \/ Expire)
    /\ \A c \in Clients : WF_vars(AnswerAcquire(c))

-----------------------------------------------------------------------------
\* The types, and that a key is stored exactly while a lease is running.
TypeOK ==
    /\ key \in Tokens \cup {Null}
    /\ left \in Nat
    /\ pc \in [Clients -> {"idle", "trying", "critical"}]
    /\ token \in [Clients -> Tokens \cup {Null, NoLockToken}]
    /\ lapsed \subseteq Clients
    /\ (key = Null) <=> (left = 0)

\* A client that was granted the lock and whose lease has not run out.
Protected(c) ==
    pc[c] = "critical" /\ token[c] # NoLockToken /\ c \notin lapsed

\* Mutual exclusion, as far as acquire grants it: two clients are in the
\* critical section together only if one of them got the sentinel or outlived
\* its lease.
Exclusion ==
    \A c, d \in Clients : Protected(c) /\ Protected(d) => c = d

\* A key whose owner died or never learnt of it does not block the others for
\* ever.
OrphanFreed ==
    \A t \in Tokens :
        (key = t /\ \A c \in Clients : token[c] # t) ~> (key # t)

\* The lock implements the lease: the sentinel is outside it.
Lease == INSTANCE LeaseLock WITH
    owner <- key,
    active <- {token[c] : c \in {d \in Clients : pc[d] = "critical"}} \ {NoLockToken}

\* Every step of the lock is a step the lease allows.
ImplementsLease == Lease!Spec
==============================================================================
