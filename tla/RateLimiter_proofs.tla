------------------------- MODULE RateLimiter_proofs -------------------------
(***************************************************************************)
(* Proofs about RateLimiter, for every capacity, cost, rate, time to live  *)
(* and difference of the clocks that satisfy the assumptions: it           *)
(* implements TokenBucket, and keeps the two promises the runs check.      *)
(***************************************************************************)
EXTENDS RateLimiter, TLAPS

Cap(x) == IF x > Full THEN Full ELSE x

\* A key that is there was last written TTL before its end, at a moment that is
\* not in the future, by a clock no further ahead than Spread.
KeyAlive ==
    bucket # None =>
        /\ bucket.last <= now + Spread
        /\ TTL <= expiresAt
        /\ expiresAt - TTL <= now
        /\ expiresAt - TTL <= bucket.last
        /\ bucket.last <= expiresAt - TTL + Spread

BInv == TypeOK /\ KeyAlive

\* What server offset would find in the bucket now.
At(offset) == Refilled(now + offset)

\* How long ago that server thinks the key was written.
Since(offset) ==
    IF now + offset > bucket.last THEN now + offset - bucket.last ELSE 0

\* What every server finds, in words that survive a prime.
LevelKnown ==
    \A offset \in Offsets :
        /\ At(offset) \in 0 .. Full
        /\ bucket = None => At(offset) = Full
        /\ bucket # None =>
             /\ Since(offset) \in Nat
             /\ bucket.tokens \in 0 .. Full /\ bucket.last \in Nat
             /\ At(offset) = Cap(bucket.tokens + Since(offset) * Rate)

----------------------------------------------------------------------------
(* Numbers *)

\* The constants and what is built from them are natural numbers.
LEMMA Numbers ==
    /\ Full \in Nat /\ Cost \in Nat \ {0} /\ Rate \in Nat \ {0} /\ TTL \in Nat \ {0}
    /\ Spread \in Nat /\ MaxTime \in Nat /\ Cost <= Full
    /\ Spread * Rate \in Nat
<1>1. /\ Capacity \in Nat /\ Capacity >= 1 /\ Cost \in Nat \ {0} /\ Rate \in Nat \ {0}
      /\ TTL \in Nat \ {0} /\ Spread \in Nat /\ MaxTime \in Nat
  BY BucketAssumption
<1>2. Capacity * Cost \in Nat /\ Spread * Rate \in Nat
  BY <1>1, SMT
<1>3. PICK k \in Nat : Capacity = k + 1
  <2>1. Capacity - 1 \in Nat /\ Capacity = (Capacity - 1) + 1
    BY <1>1
  <2> QED BY <2>1
<1>4. Capacity * Cost = k * Cost + Cost /\ k * Cost \in Nat
  BY <1>1, <1>3, SMT
<1> QED BY <1>1, <1>2, <1>4 DEF Full

\* What a stretch of time refills: nothing in no time, more in a longer one, and
\* in two together what it refills in each.
LEMMA Refills ==
    ASSUME NEW d \in Nat, NEW e \in Nat
    PROVE  /\ d * Rate \in Nat
           /\ 0 * Rate = 0
           /\ (d + 1) * Rate = d * Rate + Rate
           /\ (d + e) * Rate = d * Rate + e * Rate
           /\ d <= e => d * Rate <= e * Rate
<1>1. Rate \in Nat
  BY Numbers
<1>2. /\ d * Rate \in Nat /\ 0 * Rate = 0 /\ (d + 1) * Rate = d * Rate + Rate
      /\ (d + e) * Rate = d * Rate + e * Rate
  BY <1>1, SMT
<1>3. ASSUME d <= e PROVE d * Rate <= e * Rate
  <2>1. PICK k \in Nat : e = d + k
    <3>1. e - d \in Nat /\ e = d + (e - d)
      BY <1>3
    <3> QED BY <3>1
  <2>2. e * Rate = d * Rate + k * Rate /\ k * Rate \in Nat /\ d * Rate \in Nat
    BY <1>1, <2>1, SMT
  <2> QED BY <2>2
<1> QED BY <1>2, <1>3

\* A wait rounded up refills at least what was missing.
LEMMA RoundedUp ==
    ASSUME NEW m \in Nat
    PROVE  LET w == (m + Rate - 1) \div Rate IN w \in Nat /\ m <= w * Rate
<1>. DEFINE w == (m + Rate - 1) \div Rate
            r == (m + Rate - 1) % Rate
<1>1. Rate \in Nat \ {0} /\ m + Rate - 1 \in Nat
  BY Numbers
<1>2. w \in Nat /\ r \in 0 .. Rate - 1 /\ m + Rate - 1 = Rate * w + r
  BY <1>1, SMT
<1>3. Rate * w = w * Rate /\ Rate * w \in Nat
  BY <1>1, <1>2, SMT
<1> QED BY <1>1, <1>2, <1>3

\* Capping a sum at every step is capping it once at the end.
LEMMA CapOnce ==
    ASSUME NEW t \in 0 .. Full, NEW x \in Nat, NEW y \in Nat
    PROVE  /\ Cap(t + (x + y)) = Cap(Cap(t + x) + y)
           /\ Full <= x + y => Full = Cap(Cap(t + x) + y)
           /\ Cap(t + x) \in 0 .. Full
  BY Numbers DEF Cap

----------------------------------------------------------------------------
(* The invariant *)

\* Every server finds what the stored tokens and its own clock make of them.
LEMMA Level == BInv => LevelKnown
<1> SUFFICES ASSUME BInv, NEW offset \in Offsets
             PROVE  /\ At(offset) \in 0 .. Full
                    /\ bucket = None => At(offset) = Full
                    /\ bucket # None =>
                         /\ Since(offset) \in Nat
                         /\ bucket.tokens \in 0 .. Full /\ bucket.last \in Nat
                         /\ At(offset) = Cap(bucket.tokens + Since(offset) * Rate)
  BY DEF LevelKnown
<1>1. now \in Nat /\ offset \in Nat /\ Full \in Nat /\ now + offset \in Nat
  BY Numbers DEF BInv, TypeOK, Offsets
<1>2. CASE bucket = None
  <2>1. Elapsed(now + offset) = 0
    BY <1>1, <1>2 DEF Elapsed, LastRefill
  <2>2. Elapsed(now + offset) * Rate = 0
    BY <2>1, Refills
  <2>3. At(offset) = Full
    BY <1>1, <1>2, <2>2 DEF At, Refilled, Tokens
  <2> QED BY <1>1, <1>2, <2>3
<1>3. CASE bucket # None
  <2>1. bucket.tokens \in 0 .. Full /\ bucket.last \in Nat
    BY <1>3 DEF BInv, TypeOK
  <2>2. Since(offset) \in Nat /\ Elapsed(now + offset) = Since(offset)
    BY <1>1, <1>3, <2>1 DEF Since, Elapsed, LastRefill
  <2>3. Since(offset) * Rate \in Nat
    BY <2>2, Refills
  <2>4. At(offset) = Cap(bucket.tokens + Since(offset) * Rate)
    BY <1>3, <2>2 DEF At, Refilled, Tokens, Cap
  <2> QED BY <1>1, <1>3, <2>1, <2>2, <2>3, <2>4 DEF Cap
<1> QED BY <1>2, <1>3

\* What an admission at server offset leaves behind.
LEMMA Admission ==
    ASSUME BInv, NEW offset \in Offsets, Admit(offset)
    PROVE  /\ bucket' # None
           /\ bucket' \in [tokens: 0 .. Full, last: Nat]
           /\ bucket'.tokens = At(offset) - Cost /\ bucket'.last = now + offset
           /\ At(offset) >= Cost
           /\ now' = now /\ expiresAt' = now + TTL /\ admitted' = admitted + 1
           /\ promise' = None
<1>1. now \in Nat /\ offset \in Nat /\ At(offset) \in 0 .. Full
  BY Level DEF BInv, TypeOK, LevelKnown, Offsets
<1>2. /\ bucket' = [tokens |-> At(offset) - Cost, last |-> now + offset]
      /\ At(offset) >= Cost
  BY DEF Admit, At
<1>3. At(offset) - Cost \in 0 .. Full /\ now + offset \in Nat
  BY <1>1, <1>2, Numbers
<1>4. bucket' \in [tokens: 0 .. Full, last: Nat] /\ bucket' \in [tokens: Nat, last: Nat]
  BY <1>2, <1>3
<1>5. bucket' # None
  BY <1>4, BucketAssumption
<1> QED BY <1>2, <1>4, <1>5 DEF Admit

\* What a refusal finds missing, and the wait it announces.
LEMMA Refusal ==
    ASSUME BInv, NEW offset \in Offsets, Refuse(offset)
    PROVE  /\ bucket # None
           /\ RetryAfter(now + offset) \in Nat
           /\ At(offset) = bucket.tokens + Since(offset) * Rate
           /\ Cost <= At(offset) + RetryAfter(now + offset) * Rate
           /\ promise' = now + RetryAfter(now + offset)
           /\ UNCHANGED <<now, bucket, expiresAt, admitted>>
<1>1. /\ At(offset) < Cost /\ promise' = now + RetryAfter(now + offset)
      /\ UNCHANGED <<now, bucket, expiresAt, admitted>>
  BY DEF Refuse, At
<1>2. At(offset) \in 0 .. Full /\ Cost \in Nat /\ Full \in Nat /\ Cost <= Full
  BY Level, Numbers DEF LevelKnown
<1>3. bucket # None
  BY <1>1, <1>2, Level DEF LevelKnown
<1>4. /\ At(offset) = Cap(bucket.tokens + Since(offset) * Rate)
      /\ bucket.tokens \in 0 .. Full /\ Since(offset) \in Nat
  BY <1>3, Level DEF LevelKnown
<1>5. Since(offset) * Rate \in Nat
  BY <1>4, Refills
<1>6. At(offset) = bucket.tokens + Since(offset) * Rate
  BY <1>1, <1>2, <1>4, <1>5 DEF Cap
<1>7. Cost - At(offset) \in Nat
  BY <1>1, <1>2
<1>8. RetryAfter(now + offset) = ((Cost - At(offset)) + Rate - 1) \div Rate
  BY DEF RetryAfter, At
<1>9. /\ RetryAfter(now + offset) \in Nat
      /\ Cost - At(offset) <= RetryAfter(now + offset) * Rate
  BY <1>7, <1>8, RoundedUp
<1>10. RetryAfter(now + offset) * Rate \in Nat
  BY <1>9, Refills
<1> QED BY <1>1, <1>2, <1>3, <1>6, <1>9, <1>10

\* Nothing is stored yet.
LEMMA InvInit == Init => BInv
  BY BucketAssumption DEF Init, BInv, TypeOK, KeyAlive

\* Every action keeps the type and what is known of the key.
LEMMA InvStep == BInv /\ [Next]_vars => BInv'
<1> SUFFICES ASSUME BInv, [Next]_vars PROVE BInv'
  OBVIOUS
<1>0. /\ now \in 0 .. MaxTime /\ now \in Nat /\ expiresAt \in Nat /\ admitted \in Nat
      /\ TTL \in Nat /\ Full \in Nat /\ Spread \in Nat /\ MaxTime \in Nat
  BY Numbers DEF BInv, TypeOK
<1>1. ASSUME NEW offset \in Offsets, Admit(offset) PROVE BInv'
  <2>1. /\ bucket' \in [tokens: 0 .. Full, last: Nat]
        /\ bucket'.last = now + offset
        /\ now' = now /\ expiresAt' = now + TTL /\ admitted' = admitted + 1
        /\ promise' = None
    BY <1>1, Admission
  <2>2. offset \in Nat /\ offset <= Spread
    BY <1>0 DEF Offsets
  <2>3. TypeOK'
    BY <1>0, <2>1 DEF TypeOK, Full
  <2>4. KeyAlive'
    BY <1>0, <2>1, <2>2 DEF KeyAlive
  <2> QED BY <2>3, <2>4 DEF BInv
<1>2. ASSUME NEW offset \in Offsets, Refuse(offset) PROVE BInv'
  BY <1>0, <1>2, Refusal DEF BInv, TypeOK, KeyAlive
<1>3. ASSUME Tick PROVE BInv'
  <2>1. /\ now' = now + 1 /\ now' \in 0 .. MaxTime /\ bucket' \in {None, bucket}
        /\ UNCHANGED <<expiresAt, admitted, promise>>
    BY <1>0, <1>3 DEF Tick
  <2>2. TypeOK'
    BY <1>0, <2>1 DEF BInv, TypeOK
  <2>3. ASSUME bucket' # None PROVE bucket' = bucket /\ bucket.last \in Nat
    BY <2>1, <2>3 DEF BInv, TypeOK
  <2>4. KeyAlive'
    BY <1>0, <2>1, <2>3 DEF BInv, KeyAlive
  <2> QED BY <2>2, <2>4 DEF BInv
<1>4. ASSUME FailOpen \/ UNCHANGED vars PROVE BInv'
  BY <1>4 DEF FailOpen, vars, BInv, TypeOK, KeyAlive
<1> QED BY <1>1, <1>2, <1>3, <1>4 DEF Next

\* What every server finds in the next state.
LEMMA LevelNext == BInv /\ [Next]_vars => LevelKnown'
<1>1. BInv' => LevelKnown'
  BY Level, PTL
<1> QED BY <1>1, InvStep

\* The type invariant holds of every reachable state, whatever the parameters.
THEOREM TypeCorrect == Spec => []TypeOK
<1>1. Spec => []BInv
  BY InvInit, InvStep, PTL DEF Spec
<1>2. BInv => TypeOK
  BY DEF BInv
<1> QED BY <1>1, <1>2, PTL

----------------------------------------------------------------------------
(* The token bucket *)

\* Time refills what the server furthest ahead finds as it refills the ideal
\* bucket, and a key that expires would have been full by now.
LEMMA TickRefills ==
    ASSUME BInv, Tick
    PROVE  At(Spread)' = Cap(At(Spread) + Rate)
<1>0. /\ now \in Nat /\ expiresAt \in Nat /\ Full \in Nat /\ Rate \in Nat
      /\ TTL \in Nat /\ Spread \in Nat /\ Spread \in Offsets
      /\ TTL * Rate \in Nat /\ TTL * Rate >= Full
  BY Numbers, Refills, TTLAssumption DEF BInv, TypeOK, Offsets
<1>1. now' = now + 1 /\ bucket' = IF now + 1 >= expiresAt THEN None ELSE bucket
  BY DEF Tick
<1>2. LevelKnown /\ LevelKnown'
  BY Level, LevelNext DEF Next
<1>3. CASE bucket = None
  <2>1. At(Spread) = Full /\ At(Spread)' = Full
    BY <1>0, <1>1, <1>2, <1>3 DEF LevelKnown
  <2> QED BY <1>0, <2>1 DEF Cap
<1>4. CASE bucket # None
  <2>. DEFINE e == now + Spread - bucket.last
  <2>1. /\ e \in Nat /\ Since(Spread) = e /\ bucket.last \in Nat
        /\ bucket.tokens \in 0 .. Full
        /\ At(Spread) = Cap(bucket.tokens + e * Rate)
        /\ bucket.last <= expiresAt - TTL + Spread
    <3>1. bucket.last \in Nat /\ bucket.last <= now + Spread
      BY <1>4 DEF BInv, TypeOK, KeyAlive
    <3>2. e \in Nat /\ Since(Spread) = e
      BY <1>0, <3>1 DEF Since
    <3> QED BY <1>0, <1>2, <1>4, <3>1, <3>2 DEF LevelKnown, BInv, KeyAlive
  <2>2. (e + 1) * Rate = e * Rate + Rate /\ e * Rate \in Nat
    BY <2>1, Refills
  <2>3. CASE bucket' # None
    <3>1. bucket' = bucket
      BY <1>1, <2>3
    <3>2. Since(Spread)' = e + 1
      BY <1>0, <1>1, <2>1, <3>1 DEF Since
    <3>3. At(Spread)' = Cap(bucket.tokens + (e + 1) * Rate)
      BY <1>0, <1>2, <2>3, <3>1, <3>2 DEF LevelKnown, Cap
    <3>. HIDE DEF e
    <3> QED BY <1>0, <2>1, <2>2, <3>3, CapOnce
  <2>4. CASE bucket' = None
    <3>1. TTL <= e + 1 /\ e + 1 \in Nat
      BY <1>0, <1>1, <1>4, <2>1, <2>4
    <3>2. TTL * Rate <= (e + 1) * Rate
      BY <1>0, <3>1, Refills
    <3>3. At(Spread)' = Full
      BY <1>0, <1>2, <2>4 DEF LevelKnown
    <3>. HIDE DEF e
    <3>4. Full <= e * Rate + Rate
      BY <1>0, <2>2, <3>2
    <3> QED BY <1>0, <2>1, <2>2, <3>3, <3>4, CapOnce
  <2> QED BY <2>3, <2>4
<1> QED BY <1>3, <1>4

\* What the server furthest ahead finds before and after an admission at another.
LEMMA AdmitLevels ==
    ASSUME BInv, NEW offset \in Offsets, Admit(offset)
    PROVE  /\ (Spread - offset) * Rate \in 0 .. Spread * Rate
           /\ At(offset) <= At(Spread)
           /\ At(Spread) <= At(offset) + (Spread - offset) * Rate
           /\ At(Spread)' = Cap(At(offset) - Cost + (Spread - offset) * Rate)
<1>0. /\ now \in Nat /\ offset \in Nat /\ Spread \in Nat /\ Spread \in Offsets
      /\ Full \in Nat /\ Spread - offset \in Nat /\ Spread - offset <= Spread
  BY Numbers DEF BInv, TypeOK, Offsets
<1>1. (Spread - offset) * Rate \in 0 .. Spread * Rate
  <2>. DEFINE d == Spread - offset
  <2>1. d \in Nat /\ d <= Spread /\ Spread \in Nat
    BY <1>0
  <2>. HIDE DEF d
  <2>2. d * Rate \in Nat /\ Spread * Rate \in Nat /\ d * Rate <= Spread * Rate
    BY <2>1, Refills
  <2>3. d * Rate \in 0 .. Spread * Rate
    BY <2>2
  <2> QED BY <2>3 DEF d
<1>2. LevelKnown /\ LevelKnown'
  BY Level, LevelNext DEF Next
<1>3. At(offset) <= At(Spread) /\ At(Spread) <= At(offset) + (Spread - offset) * Rate
  <2>1. CASE bucket = None
    BY <1>0, <1>1, <1>2, <2>1 DEF LevelKnown
  <2>2. CASE bucket # None
    <3>. DEFINE a == Since(offset)
                b == Since(Spread)
    <3>1. /\ a \in Nat /\ b \in Nat /\ bucket.tokens \in 0 .. Full /\ bucket.last \in Nat
          /\ At(offset) = Cap(bucket.tokens + a * Rate)
          /\ At(Spread) = Cap(bucket.tokens + b * Rate)
      BY <1>0, <1>2, <2>2 DEF LevelKnown
    <3>2. a <= b /\ b <= a + (Spread - offset)
      BY <1>0, <3>1 DEF Since
    <3>. HIDE DEF a, b
    <3>3. /\ a * Rate \in Nat /\ b * Rate \in Nat /\ a * Rate <= b * Rate
          /\ b * Rate <= (a + (Spread - offset)) * Rate
          /\ (a + (Spread - offset)) * Rate = a * Rate + (Spread - offset) * Rate
      <4>1. a + (Spread - offset) \in Nat
        BY <1>0, <3>1
      <4> QED BY <1>0, <3>1, <3>2, <4>1, Refills
    <3> QED BY <1>0, <1>1, <3>1, <3>3 DEF Cap
  <2> QED BY <2>1, <2>2
<1>4. At(Spread)' = Cap(At(offset) - Cost + (Spread - offset) * Rate)
  <2>1. /\ bucket' # None /\ bucket'.tokens = At(offset) - Cost
        /\ bucket'.last = now + offset /\ now' = now
    BY Admission
  <2>2. Since(Spread)' = Spread - offset
    BY <1>0, <2>1 DEF Since
  <2> QED BY <1>0, <1>2, <2>1, <2>2 DEF LevelKnown, Cap
<1> QED BY <1>1, <1>3, <1>4

\* An admission takes its cost from the ideal level and gives back no more than
\* what the difference of the clocks refills.
LEMMA AdmitPays ==
    ASSUME BInv, NEW offset \in Offsets, Admit(offset)
    PROVE  Ideal!Admit
<1>. DEFINE extra == At(Spread)' - (At(Spread) - Cost)
<1>1. /\ Full \in Nat /\ Cost \in Nat /\ Spread * Rate \in Nat /\ Spread \in Offsets
      /\ At(offset) \in 0 .. Full /\ At(Spread) \in 0 .. Full
  BY Numbers, Level DEF LevelKnown, Offsets
<1>2. At(offset) >= Cost /\ admitted' = admitted + 1
  BY Admission
<1>3. /\ extra \in 0 .. Spread * Rate
      /\ At(Spread) - Cost + extra <= Full
      /\ At(Spread)' = At(Spread) - Cost + extra
      /\ At(Spread) >= Cost
  BY <1>1, <1>2, AdmitLevels DEF Cap
<1> HIDE DEF extra
<1> QED BY <1>2, <1>3 DEF Ideal!Admit, At

\* rate_limit.go's script, which refills only when a request is admitted, writes
\* nothing when it refuses one and lets Redis forget an idle key, admits what a
\* bucket that refills with every unit of time admits: exactly that if the clocks
\* agree (Spread = 0), and what they differ by, once per admission, if not.
THEOREM LimiterRefinement == Spec => ImplementsTokenBucket
<1>1. Init => Ideal!Init
  <2> SUFFICES ASSUME Init PROVE Ideal!Init
    OBVIOUS
  <2>1. bucket = None /\ admitted = 0 /\ Spread \in Offsets
    BY Numbers DEF Init, Offsets
  <2>2. At(Spread) = Full
    BY <2>1, InvInit, Level DEF LevelKnown
  <2> QED BY <2>1, <2>2 DEF Ideal!Init, At
<1>2. BInv /\ [Next]_vars => [Ideal!Next]_(Ideal!vars)
  <2> SUFFICES ASSUME BInv, [Next]_vars PROVE [Ideal!Next]_(Ideal!vars)
    OBVIOUS
  <2>1. ASSUME NEW offset \in Offsets, Admit(offset) PROVE Ideal!Next
    BY <2>1, AdmitPays DEF Ideal!Next
  <2>2. CASE Tick
    <3>1. At(Spread)' = Cap(At(Spread) + Rate) /\ admitted' = admitted
      BY <2>2, TickRefills DEF Tick
    <3> QED BY <3>1 DEF Ideal!Next, Ideal!Refill, At, Cap
  <2>3. ASSUME UNCHANGED <<now, bucket, admitted>> PROVE UNCHANGED Ideal!vars
    BY <2>3 DEF Ideal!vars, Refilled, Tokens, Elapsed, LastRefill
  <2>4. ASSUME NEW offset \in Offsets, Refuse(offset) PROVE UNCHANGED Ideal!vars
    BY <2>3, <2>4 DEF Refuse
  <2>5. CASE FailOpen \/ UNCHANGED vars
    BY <2>3, <2>5 DEF FailOpen, vars
  <2> QED BY <2>1, <2>2, <2>4, <2>5 DEF Next
<1>3. Spec => []BInv
  BY InvInit, InvStep, PTL DEF Spec
<1> QED BY <1>1, <1>2, <1>3, PTL DEF Spec, ImplementsTokenBucket, Ideal!Spec

----------------------------------------------------------------------------
(* Retry-After *)

\* What keeps the promise: by the time announced, and the difference of the
\* clocks, the slowest server will have refilled what was missing.
PromiseKept ==
    promise # None /\ bucket # None =>
        /\ promise + Spread - bucket.last \in Nat
        /\ Cost <= bucket.tokens + (promise + Spread - bucket.last) * Rate

\* A refusal promises enough; later the bucket is only refilled or forgotten.
LEMMA PromiseStep == BInv /\ PromiseKept /\ [Next]_vars => PromiseKept'
<1> SUFFICES ASSUME BInv, PromiseKept, [Next]_vars PROVE PromiseKept'
  OBVIOUS
<1>1. ASSUME NEW offset \in Offsets, Admit(offset) PROVE PromiseKept'
  BY <1>1, Admission DEF PromiseKept
<1>2. ASSUME NEW offset \in Offsets, Refuse(offset) PROVE PromiseKept'
  <2>. DEFINE w == RetryAfter(now + offset)
              d == now + w + Spread - bucket.last
              s == Since(offset)
  <2>1. /\ bucket # None /\ w \in Nat /\ promise' = now + w /\ bucket' = bucket
        /\ At(offset) = bucket.tokens + s * Rate
        /\ Cost <= At(offset) + w * Rate
    BY <1>2, Refusal
  <2>2. /\ now \in Nat /\ offset \in 0 .. Spread /\ Spread \in Nat /\ Cost \in Nat
        /\ s \in Nat /\ bucket.tokens \in Nat /\ bucket.last \in Nat
        /\ bucket.last <= now + Spread
    BY <2>1, Level, Numbers DEF BInv, TypeOK, KeyAlive, LevelKnown, Offsets
  <2>3. d \in Nat /\ w + s \in Nat /\ w + s <= d
    BY <2>1, <2>2 DEF Since
  <2>. HIDE DEF w, s, d
  <2>4. /\ (w + s) * Rate = w * Rate + s * Rate /\ w * Rate \in Nat /\ s * Rate \in Nat
        /\ (w + s) * Rate <= d * Rate /\ d * Rate \in Nat
    BY <2>1, <2>2, <2>3, Refills
  <2>5. Cost <= bucket.tokens + d * Rate
    BY <2>1, <2>2, <2>4
  <2>6. promise' + Spread - bucket'.last = d
    BY <2>1, <2>2 DEF d
  <2> QED BY <2>1, <2>3, <2>5, <2>6 DEF PromiseKept
<1>3. ASSUME Tick PROVE PromiseKept'
  BY <1>3 DEF Tick, PromiseKept
<1>4. ASSUME FailOpen \/ UNCHANGED vars PROVE PromiseKept'
  BY <1>4 DEF FailOpen, vars, PromiseKept
<1> QED BY <1>1, <1>2, <1>3, <1>4 DEF Next

\* Whoever waits as long as the header of the refusal says, and as much longer as
\* the clocks may differ, is admitted by every server if nobody else was.
THEOREM WaitIsEnough == Spec => []RetryAfterHonoured
<1>1. Init => PromiseKept
  BY DEF Init, PromiseKept
<1>2. Spec => [](BInv /\ PromiseKept)
  BY <1>1, InvInit, InvStep, PromiseStep, PTL DEF Spec
<1>3. BInv /\ PromiseKept => RetryAfterHonoured
  <2> SUFFICES ASSUME BInv, PromiseKept, promise # None, now >= promise + Spread,
                      NEW offset \in Offsets
               PROVE  At(offset) >= Cost
    BY DEF RetryAfterHonoured, At
  <2>1. /\ now \in Nat /\ promise \in Nat /\ offset \in Nat /\ Spread \in Nat
        /\ Cost \in Nat /\ Full \in Nat /\ Cost <= Full
    BY Numbers DEF BInv, TypeOK, Offsets
  <2>2. CASE bucket = None
    BY <2>1, <2>2, Level DEF LevelKnown
  <2>3. CASE bucket # None
    <3>. DEFINE d == promise + Spread - bucket.last
                s == Since(offset)
    <3>1. d \in Nat /\ Cost <= bucket.tokens + d * Rate
      BY <2>3 DEF PromiseKept
    <3>2. /\ s \in Nat /\ bucket.tokens \in Nat /\ bucket.last \in Nat
          /\ At(offset) = Cap(bucket.tokens + s * Rate)
      BY <2>3, Level DEF LevelKnown
    <3>3. d <= s
      BY <2>1, <3>1, <3>2 DEF Since
    <3>. HIDE DEF d, s
    <3>4. d * Rate \in Nat /\ s * Rate \in Nat /\ d * Rate <= s * Rate
      BY <3>1, <3>2, <3>3, Refills
    <3> QED BY <2>1, <3>1, <3>2, <3>4 DEF Cap
  <2> QED BY <2>2, <2>3
<1> QED BY <1>2, <1>3, PTL

----------------------------------------------------------------------------
(* What disagreeing clocks give away *)

\* What is in the bucket if it refills from the moment it was last written: the
\* clock of the server that wrote it was at least that far.
Settled ==
    IF bucket = None THEN Full
                     ELSE Cap(bucket.tokens + (now - (expiresAt - TTL)) * Rate)

\* The bucket of the server furthest ahead and the settled one, together: an
\* admission takes its cost from both, and what it gains on the one it does not
\* gain on the other.
Account ==
    At(Spread) + Settled + 2 * (admitted * Cost)
        <= 2 * Full + 2 * (now * Rate) + admitted * (Spread * Rate)

\* What the settled bucket holds.
LEMMA SettledNat ==
    ASSUME BInv
    PROVE  /\ Settled \in 0 .. Full
           /\ bucket # None => now - (expiresAt - TTL) \in Nat
<1>1. now \in Nat /\ expiresAt \in Nat /\ TTL \in Nat /\ Full \in Nat
  BY Numbers DEF BInv, TypeOK
<1>2. ASSUME bucket # None
      PROVE  /\ now - (expiresAt - TTL) \in Nat /\ bucket.tokens \in 0 .. Full
             /\ (now - (expiresAt - TTL)) * Rate \in Nat
  <2>1. now - (expiresAt - TTL) \in Nat /\ bucket.tokens \in 0 .. Full
    BY <1>1, <1>2 DEF BInv, TypeOK, KeyAlive
  <2> QED BY <2>1, Refills
<1> QED BY <1>1, <1>2 DEF Settled, Cap

SettledOK == Settled \in Nat

\* The same in the next state.
LEMMA SettledNext == BInv /\ [Next]_vars => SettledOK'
<1>1. BInv => SettledOK
  BY SettledNat DEF SettledOK
<1>2. BInv' => SettledOK'
  BY <1>1, PTL
<1> QED BY <1>2, InvStep

\* Time refills the settled bucket; a key that expires would have been full.
LEMMA TickSettles ==
    ASSUME BInv, Tick
    PROVE  Settled' <= Cap(Settled + Rate)
<1>. DEFINE e == now - (expiresAt - TTL)
<1>0. /\ now \in Nat /\ expiresAt \in Nat /\ Full \in Nat /\ Rate \in Nat
      /\ TTL \in Nat /\ TTL * Rate \in Nat /\ TTL * Rate >= Full
  BY Numbers, Refills, TTLAssumption DEF BInv, TypeOK
<1>1. /\ now' = now + 1 /\ expiresAt' = expiresAt
      /\ bucket' = IF now + 1 >= expiresAt THEN None ELSE bucket
  BY DEF Tick
<1>2. CASE bucket = None
  BY <1>0, <1>1, <1>2 DEF Settled, Cap
<1>3. CASE bucket # None
  <2>1. /\ e \in Nat /\ e + 1 \in Nat /\ bucket.tokens \in 0 .. Full
        /\ now' - (expiresAt' - TTL) = e + 1
    BY <1>0, <1>1, <1>3, SettledNat DEF BInv, TypeOK
  <2>2. Settled = Cap(bucket.tokens + e * Rate)
    BY <1>3 DEF Settled
  <2>3. CASE bucket' # None
    <3>1. Settled' = Cap(bucket.tokens + (e + 1) * Rate)
      BY <1>1, <2>1, <2>3 DEF Settled, Cap
    <3>. HIDE DEF e
    <3>2. (e + 1) * Rate = e * Rate + Rate /\ e * Rate \in Nat
      BY <2>1, Refills
    <3> QED BY <1>0, <2>1, <2>2, <3>1, <3>2 DEF Cap
  <2>4. CASE bucket' = None
    <3>1. TTL <= e + 1
      BY <1>0, <1>1, <1>3, <2>1, <2>4
    <3>2. Settled' = Full
      BY <2>4 DEF Settled
    <3>. HIDE DEF e
    <3>3. (e + 1) * Rate = e * Rate + Rate /\ e * Rate \in Nat
      BY <2>1, Refills
    <3>4. Full <= e * Rate + Rate
      <4>1. TTL * Rate <= (e + 1) * Rate
        BY <1>0, <2>1, <3>1, Refills
      <4> QED BY <1>0, <3>3, <4>1
    <3> QED BY <1>0, <2>1, <2>2, <3>2, <3>3, <3>4 DEF Cap
  <2> QED BY <2>3, <2>4
<1> QED BY <1>2, <1>3

\* A server finds no more than the settled bucket and what it is ahead.
LEMMA AdmitSettles ==
    ASSUME BInv, NEW offset \in Offsets, Admit(offset)
    PROVE  /\ offset * Rate \in Nat
           /\ At(offset) <= Settled + offset * Rate
           /\ Settled' = At(offset) - Cost
<1>0. /\ now \in Nat /\ offset \in Nat /\ Full \in Nat /\ TTL \in Nat
      /\ expiresAt \in Nat /\ offset * Rate \in Nat /\ Cost \in Nat
  BY Numbers, Refills DEF BInv, TypeOK, Offsets
<1>1. At(offset) <= Settled + offset * Rate
  <2>1. CASE bucket = None
    BY <1>0, <2>1, Level DEF LevelKnown, Settled
  <2>2. CASE bucket # None
    <3>. DEFINE s == Since(offset)
                e == now - (expiresAt - TTL)
    <3>1. /\ s \in Nat /\ e \in Nat /\ bucket.tokens \in 0 .. Full
          /\ bucket.last \in Nat /\ expiresAt - TTL <= bucket.last
          /\ At(offset) = Cap(bucket.tokens + s * Rate)
          /\ Settled = Cap(bucket.tokens + e * Rate)
      BY <2>2, Level, SettledNat DEF LevelKnown, Settled, BInv, KeyAlive
    <3>2. s <= e + offset /\ e + offset \in Nat
      BY <1>0, <3>1 DEF Since
    <3>. HIDE DEF s, e
    <3>3. /\ s * Rate \in Nat /\ e * Rate \in Nat /\ s * Rate <= (e + offset) * Rate
          /\ (e + offset) * Rate = e * Rate + offset * Rate
      BY <1>0, <3>1, <3>2, Refills
    <3> QED BY <1>0, <3>1, <3>3 DEF Cap
  <2> QED BY <2>1, <2>2
<1>2. Settled' = At(offset) - Cost
  <2>1. /\ bucket' # None /\ bucket'.tokens = At(offset) - Cost
        /\ bucket'.tokens \in 0 .. Full /\ now' = now /\ expiresAt' = now + TTL
    BY Admission
  <2>2. now' - (expiresAt' - TTL) = 0 /\ 0 * Rate = 0
    BY <1>0, <2>1, Refills
  <2> QED BY <1>0, <2>1, <2>2 DEF Settled, Cap
<1> QED BY <1>0, <1>1, <1>2

\* Every action keeps the account.
LEMMA AccountStep == BInv /\ Account /\ [Next]_vars => Account'
<1> SUFFICES ASSUME BInv, Account, [Next]_vars PROVE Account'
  OBVIOUS
<1>. DEFINE paid == admitted * Cost
            gift == admitted * (Spread * Rate)
            given == now * Rate
<1>0. /\ now \in Nat /\ admitted \in Nat /\ Full \in Nat /\ Cost \in Nat /\ Rate \in Nat
      /\ Spread \in Nat /\ Spread * Rate \in Nat /\ Spread \in Offsets
  BY Numbers DEF BInv, TypeOK, Offsets
<1>1. /\ paid \in Nat /\ (admitted + 1) * Cost = paid + Cost
      /\ given \in Nat /\ (now + 1) * Rate = given + Rate
  BY <1>0, SMT
<1>2. gift \in Nat /\ (admitted + 1) * (Spread * Rate) = gift + Spread * Rate
  <2>. DEFINE g == Spread * Rate
  <2>1. g \in Nat
    BY <1>0
  <2>. HIDE DEF g
  <2>2. admitted * g \in Nat /\ (admitted + 1) * g = admitted * g + g
    BY <1>0, <2>1, SMT
  <2> QED BY <2>2 DEF g
<1>3. At(Spread) \in 0 .. Full /\ Settled \in 0 .. Full
  BY <1>0, Level, SettledNat DEF LevelKnown
<1>4. At(Spread) + Settled + 2 * paid <= 2 * Full + 2 * given + gift
  BY DEF Account
<1>5. ASSUME NEW offset \in Offsets, Admit(offset) PROVE Account'
  <2>. DEFINE ahead == (Spread - offset) * Rate
              back == offset * Rate
  <2>1. ahead \in Nat /\ back \in Nat /\ ahead + back = Spread * Rate
    <3>1. Spread - offset \in Nat /\ offset \in Nat
          /\ (Spread - offset) + offset = Spread
      BY <1>0 DEF Offsets
    <3>2. /\ ahead \in Nat /\ back \in Nat
          /\ ((Spread - offset) + offset) * Rate = ahead + back
      BY <3>1, Refills
    <3> QED BY <3>1, <3>2
  <2>2. At(offset) \in 0 .. Full /\ admitted' = admitted + 1 /\ now' = now
        /\ At(offset) >= Cost
    BY <1>5, Admission, Level DEF LevelKnown
  <2>3. /\ At(offset) <= At(Spread) /\ At(offset) <= Settled + back
        /\ At(Spread)' = Cap(At(offset) - Cost + ahead)
        /\ Settled' = At(offset) - Cost
    BY <1>5, AdmitLevels, AdmitSettles
  <2>. HIDE DEF ahead, back, paid, gift, given
  <2>4. At(Spread)' <= At(offset) - Cost + ahead /\ At(Spread)' \in Nat
    BY <1>0, <2>1, <2>2, <2>3 DEF Cap
  <2>5. At(Spread)' + Settled' + 2 * (paid + Cost)
          <= 2 * Full + 2 * given + (gift + Spread * Rate)
    BY <1>0, <1>1, <1>2, <1>3, <1>4, <2>1, <2>2, <2>3, <2>4
  <2> QED BY <1>1, <1>2, <2>2, <2>5 DEF Account, paid, gift, given
<1>6. ASSUME Tick PROVE Account'
  <2>1. now' = now + 1 /\ admitted' = admitted
    BY <1>6 DEF Tick
  <2>2. At(Spread)' = Cap(At(Spread) + Rate) /\ Settled' <= Cap(Settled + Rate)
    BY <1>6, TickRefills, TickSettles
  <2>3. Settled' \in Nat
    BY <1>6, SettledNext DEF Next, SettledOK
  <2>. HIDE DEF paid, gift, given
  <2>4. At(Spread)' + Settled' + 2 * paid <= 2 * Full + 2 * (given + Rate) + gift
    BY <1>0, <1>1, <1>2, <1>3, <1>4, <2>2, <2>3 DEF Cap
  <2> QED BY <1>1, <2>1, <2>4 DEF Account, paid, gift, given
<1>7. ASSUME UNCHANGED <<now, bucket, expiresAt, admitted>> PROVE Account'
  BY <1>7 DEF Account, At, Settled, Refilled, Tokens, Elapsed, LastRefill, Cap
<1>8. ASSUME NEW offset \in Offsets, Refuse(offset) PROVE Account'
  BY <1>7, <1>8 DEF Refuse
<1>9. ASSUME FailOpen \/ UNCHANGED vars PROVE Account'
  BY <1>7, <1>9 DEF FailOpen, vars
<1> QED BY <1>5, <1>6, <1>8, <1>9 DEF Next

\* However requests are spread over servers whose clocks differ, what they gain
\* by it is half of what the difference refills, per request.
THEOREM SkewBounded == Spec => []AdmittedBounded
<1>1. Init => Account
  <2> SUFFICES ASSUME Init PROVE Account
    OBVIOUS
  <2>1. /\ Spread \in Offsets /\ Full \in Nat /\ Spread * Rate \in Nat
        /\ Cost \in Nat /\ Rate \in Nat
    BY Numbers DEF Offsets
  <2>2. At(Spread) = Full /\ Settled = Full /\ now = 0 /\ admitted = 0
    BY <2>1, InvInit, Level DEF Init, LevelKnown, Settled
  <2>3. admitted * Cost = 0 /\ now * Rate = 0 /\ admitted * (Spread * Rate) = 0
    BY <2>1, <2>2, SMT
  <2> QED BY <2>1, <2>2, <2>3 DEF Account
<1>2. Spec => [](BInv /\ Account)
  BY <1>1, InvInit, InvStep, AccountStep, PTL DEF Spec
<1>3. BInv /\ Account => AdmittedBounded
  <2> SUFFICES ASSUME BInv, Account PROVE AdmittedBounded
    OBVIOUS
  <2>. DEFINE paid == admitted * Cost
              gift == admitted * (Spread * Rate)
              given == now * Rate
  <2>1. /\ At(Spread) \in Nat /\ Settled \in Nat /\ Full \in Nat /\ now \in Nat
        /\ admitted \in Nat /\ Cost \in Nat /\ Rate \in Nat /\ Spread * Rate \in Nat
    BY Numbers, Level, SettledNat DEF LevelKnown, Offsets, BInv, TypeOK
  <2>2. /\ paid \in Nat /\ given \in Nat /\ (2 * admitted) * Cost = 2 * paid
    BY <2>1, SMT
  <2>3. gift \in Nat
    BY <2>1, SMT
  <2>4. At(Spread) + Settled + 2 * paid <= 2 * Full + 2 * given + gift
    BY DEF Account
  <2>. HIDE DEF paid, gift, given
  <2>5. 2 * paid <= 2 * Full + 2 * given + gift
    BY <2>1, <2>2, <2>3, <2>4
  <2> QED BY <2>2, <2>5 DEF AdmittedBounded, paid, gift, given
<1> QED BY <1>2, <1>3, PTL

=============================================================================
