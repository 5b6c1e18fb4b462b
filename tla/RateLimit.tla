----------------------------- MODULE RateLimit -----------------------------
(***************************************************************************)
(* The token buckets in the hub's Durable Objects                          *)
(* (apps/edge/src/rate-limit.ts and the /limit route of index.ts): one for *)
(* each address that calls an auth route, one for each member that sends.  *)
(*                                                                         *)
(* A bucket of Capacity tokens fills up within a Window.  Here a token is  *)
(* Window parts, and Capacity parts come back at each tick of the clock,   *)
(* so that every amount is an integer.                                     *)
(***************************************************************************)
EXTENDS Integers

CONSTANTS
    Addresses,    \* hashes of the addresses auth routes are called from
    Members,      \* ids of the members that send
    AuthLimiter,  \* AUTH_LIMIT_USER_ID: the object of all auth buckets
    Invalid,      \* the name of a bucket whose key is not a hash
    Capacity,
    Window,
    MaxTime       \* bound: ticks

ASSUME LimitAssumption ==
    /\ AuthLimiter \notin Members /\ Addresses \cap Members = {}
    /\ Capacity \in Nat \ {0} /\ Window \in Nat \ {0} /\ MaxTime \in Nat

VARIABLES
    now,
    bucket,    \* the stored buckets; where none is yet, a full one
    watched    \* history: a key, and what it spent since some moment

vars == <<now, bucket, watched>>

Keys == Addresses \cup Members
Full == Capacity * Window

\* createHttpLimits: a member's sends are counted in the object of that member,
\* the calls of every address in one object.
OneObject(k) == AuthLimiter
Object(k)    == IF k \in Members THEN k ELSE AuthLimiter

\* limitStorageKey: an id is no hash, it has hyphens.
Name(k) == IF k \in Members THEN Invalid ELSE k

StorageKey(k) == <<Object(k), Name(k)>>
StorageKeys   == {StorageKey(k) : k \in Keys}

TypeOK ==
    /\ now \in 0..MaxTime
    /\ bucket \in [StorageKeys -> [tokens : 0..Full, updatedAt : 0..MaxTime]]
    /\ \A s \in StorageKeys : bucket[s].updatedAt <= now
    /\ watched \in [key : Keys, since : 0..MaxTime, spent : Nat]
    /\ watched.since <= now

Init ==
    /\ now = 0
    /\ bucket = [s \in StorageKeys |-> [tokens |-> Full, updatedAt |-> 0]]
    /\ watched \in [key : Keys, since : {0}, spent : {0}]

\* What a bucket holds by now.
Unbounded(b) == b.tokens + (now - b.updatedAt) * Capacity
Filled(b)    == LET t == b.tokens + (now - b.updatedAt) * Capacity
                IN  IF t <= Full THEN t ELSE Full

SomeLeft(b) == Filled(b) > 0
Enough(b)   == Filled(b) >= Window

\* What a call leaves in it: a refusal costs nothing.
Left(b) == IF Enough(b) THEN Filled(b) - Window ELSE Filled(b)

\* takeToken, between the get and the put of the object's storage: nothing
\* else runs in the object meanwhile.
TakeToken(k) ==
    LET s == StorageKey(k)
    IN  /\ bucket' = [bucket EXCEPT ![s] = [tokens |-> Left(@), updatedAt |-> now]]
        /\ watched' = IF Enough(bucket[s]) /\ watched.key = k
                      THEN [watched EXCEPT !.spent = @ + 1] ELSE watched
        /\ UNCHANGED now

Tick ==
    /\ now < MaxTime
    /\ now' = now + 1
    /\ UNCHANGED <<bucket, watched>>

\* From now on the spending of k is counted.
Watch(k) ==
    /\ watched' = [key |-> k, since |-> now, spent |-> 0]
    /\ UNCHANGED <<now, bucket>>

Next ==
    \/ \E k \in Keys : TakeToken(k) \/ Watch(k)
    \/ Tick

Spec == Init /\ [][Next]_vars

-----------------------------------------------------------------------------
(* Properties.                                                             *)

\* Between any two moments a key spends no more than a full bucket and what
\* came back in between.
LimitHeld ==
    watched.spent * Window <= Full + (now - watched.since) * Capacity

\* A key with no token left spent a whole bucket of its own within the last
\* window: neither refusals nor other keys empty it.
RefusedForCause ==
    ~Enough(bucket[StorageKey(watched.key)]) /\ now - watched.since >= Window
        => watched.spent >= Capacity

=============================================================================
