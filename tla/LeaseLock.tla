------------------------------ MODULE LeaseLock ------------------------------
(***************************************************************************)
(* What a lease-based lock promises, apart from how Redis implements it.   *)
(* A lease is owned by one token at a time.  It is granted only while it   *)
(* is free and it ends when its own holder surrenders it or when it runs   *)
(* out, and in no other way.  A holder is not told that its lease ran out: *)
(* its token stays in `active' until it stops.                             *)
(***************************************************************************)
CONSTANTS
    Tokens,     \* the tokens drawn by the holders
    Null        \* no owner: not a token

VARIABLES
    owner,      \* the token the lease is granted to, or Null
    active      \* tokens whose holder works under the lease

vars == <<owner, active>>

Init == owner = Null /\ active = {}

Grant(t) ==
    /\ owner = Null
    /\ t \notin active
    /\ owner' = t
    /\ active' = active \cup {t}

\* The holder of t stops.  Its surrender may be lost: then the lease has to
\* run out by itself.  It never ends the lease of another token.
Finish(t) ==
    /\ t \in active
    /\ active' = active \ {t}
    /\ \/ owner' = IF owner = t THEN Null ELSE owner
       \/ UNCHANGED owner

Lapse ==
    /\ owner # Null
    /\ owner' = Null
    /\ UNCHANGED active

\* A grant whose answer is lost: nobody works under the lease.
Orphan(t) ==
    /\ owner = Null
    /\ t \notin active
    /\ owner' = t
    /\ UNCHANGED active

Next ==
    \/ \E t \in Tokens : Grant(t) \/ Finish(t) \/ Orphan(t)
    \/ Lapse

Spec == Init /\ [][Next]_vars
==============================================================================
