---------------------------- MODULE RateLimiter ----------------------------
(***************************************************************************)
(* LeakyBucketRateLimit for one key.  The script runs atomically in Redis, *)
(* but the time it works with is the clock of the application server that  *)
(* sends it: it is ahead of the slowest one's by an offset up to Spread.   *)
(*                                                                         *)
(* Tokens and refill rate are fractions in the code; here a token is Cost  *)
(* units and a unit of time refills Rate of them, all integers.            *)
(***************************************************************************)
EXTENDS Integers

CONSTANTS
    Spread,     \* how far a server's clock may be ahead of the slowest
    Capacity,   \* tokens of a full bucket
    Cost,       \* units in a token
    Rate,       \* units refilled per unit of time
    TTL,        \* time to live of the key
    None,       \* no key
    MaxTime     \* bound: the clock

ASSUME BucketAssumption ==
    /\ Spread \in Nat
    /\ Capacity \in Nat \ {0}
    /\ Cost \in Nat \ {0}
    /\ Rate \in Nat \ {0}
    /\ TTL \in Nat \ {0}
    /\ MaxTime \in Nat
    /\ None \notin [tokens: Nat, last: Nat]

Full == Capacity * Cost
Offsets == 0 .. Spread

\* Of every limit the routes install: a key lives long enough to fill up again.
ASSUME TTLAssumption == TTL * Rate >= Full

VARIABLES
    now,        \* the slowest server's clock
    bucket,     \* the hash: tokens and last_refill, None without the key
    expiresAt,  \* when Redis drops it
    admitted,   \* requests the script let pass (history)
    promise     \* the time named in the last Retry-After, while nothing was
                \* admitted since; None otherwise (history)

vars == <<now, bucket, expiresAt, admitted, promise>>

Init ==
    /\ now = 0
    /\ bucket = None
    /\ expiresAt = 0
    /\ admitted = 0
    /\ promise = None

----------------------------------------------------------------------------
(* The script *)

Tokens == IF bucket = None THEN Full ELSE bucket.tokens
LastRefill(clock) == IF bucket = None THEN clock ELSE bucket.last

Elapsed(clock) ==
    IF clock > LastRefill(clock) THEN clock - LastRefill(clock) ELSE 0

\* Mutant: without math.min.
RefilledUncapped(clock) == Tokens + Elapsed(clock) * Rate

Refilled(clock) ==
    IF Tokens + Elapsed(clock) * Rate > Full THEN Full
                                             ELSE Tokens + Elapsed(clock) * Rate

\* Mutant: rounded down.
RetryAfterFloor(clock) == (Cost - Refilled(clock)) \div Rate

\* math.ceil of what is missing over the rate.
RetryAfter(clock) == (Cost - Refilled(clock) + Rate - 1) \div Rate

\* Mutant: last_refill is only written with the key.
AdmitKeepsLast(offset) ==
    LET clock == now + offset IN
    /\ Refilled(clock) >= Cost
    /\ bucket' = [tokens |-> Refilled(clock) - Cost, last |-> LastRefill(clock)]
    /\ expiresAt' = now + TTL
    /\ admitted' = admitted + 1
    /\ promise' = None
    /\ UNCHANGED now

Admit(offset) ==
    LET clock == now + offset IN
    /\ Refilled(clock) >= Cost
    /\ bucket' = [tokens |-> Refilled(clock) - Cost, last |-> clock]
    /\ expiresAt' = now + TTL
    /\ admitted' = admitted + 1
    /\ promise' = None
    /\ UNCHANGED now

\* A refusal writes nothing, not even the refill; the header names the wait.
Refuse(offset) ==
    LET clock == now + offset IN
    /\ Refilled(clock) < Cost
    /\ promise' = now + RetryAfter(clock)
    /\ UNCHANGED <<now, bucket, expiresAt, admitted>>

\* Redis does not answer: the request passes and the bucket knows nothing of it.
FailOpen == UNCHANGED vars

\* Time passes; Redis drops the key when its time to live ends.
Tick ==
    /\ now < MaxTime
    /\ now' = now + 1
    /\ bucket' = IF now + 1 >= expiresAt THEN None ELSE bucket
    /\ UNCHANGED <<expiresAt, admitted, promise>>

Next ==
    \/ \E offset \in Offsets : Admit(offset) \/ Refuse(offset)
    \/ FailOpen
    \/ Tick

Spec == Init /\ [][Next]_vars

----------------------------------------------------------------------------
(* Properties *)

\* The variables keep their types; the tokens stored never exceed the capacity.
TypeOK ==
    /\ now \in 0 .. MaxTime
    /\ \/ bucket = None
       \/ bucket \in [tokens: 0 .. Full, last: Nat]
    /\ expiresAt \in Nat
    /\ admitted \in Nat
    /\ promise = None \/ promise \in Nat

\* Refilling only when a request is admitted, forgetting a key that was not used
\* for TTL and starting the next one full is the same as a bucket that refills
\* with time (TokenBucket).  With one clock lazy refill and expiry admit not one
\* request more or less; when a request moves from the server ahead to the one
\* behind, the time in between is refilled twice, at most once per admission.
\* The level is the one the server furthest ahead would compute.
Ideal == INSTANCE TokenBucket
            WITH level <- Refilled(now + Spread), Slack <- Spread * Rate

ImplementsTokenBucket == Ideal!Spec

\* A caller who waits as long as Retry-After says, and as much longer as the
\* clocks may differ, is admitted by every server if nobody else was.
RetryAfterHonoured ==
    promise # None /\ now >= promise + Spread =>
        \A offset \in Offsets : Refilled(now + offset) >= Cost

\* However requests are spread over the servers, all that is admitted was in the
\* bucket at first, or was refilled by time, or is the difference of the clocks:
\* half of what it refills for every request, as it takes two, one on a server
\* behind and one on a server ahead, to refill the time in between again.
AdmittedBounded ==
    2 * admitted * Cost <=
        2 * Full + 2 * (now * Rate) + admitted * (Spread * Rate)

=============================================================================
