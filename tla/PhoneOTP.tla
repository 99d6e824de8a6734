------------------------------ MODULE PhoneOTP ------------------------------
(***************************************************************************)
(* One-time codes for phone login: AuthService.SendOTP and VerifyOTP with  *)
(* the otp_requests table, the per-(phone, role) send counter in Redis and *)
(* the login transaction.                                                  *)
(*                                                                         *)
(* Every request is a sequence of database statements; between two of them *)
(* any other request may run.  An action is one statement together with    *)
(* the local computation around it; req[p] is what request p has read so   *)
(* far.  A request may be cut off between any two statements (statement    *)
(* error, client gone, server crash): Abandon.  The hash cached in Redis   *)
(* under OTPKey is written and deleted but read by nothing, so it is not   *)
(* part of the state; the session written to Redis belongs to Sessions.    *)
(***************************************************************************)
EXTENDS Naturals, FiniteSets

CONSTANTS
    Accounts,       \* users rows, one per (phone, role)
    Devices,        \* values of the X-Device-ID header
    Procs,          \* requests in progress at a time
    None,           \* no account, no device
    MayFail,        \* whether statements may fail and requests be cut off
    MaxAttempts,    \* AuthMaxOTPAttempts
    AttemptsCheck,  \* CHECK (attempts <= 5)
    MaxRate,        \* AuthMaxOTPRatePerPhone
    ResendCheck,    \* CHECK (resend_count <= 5)
    OTPTTL,         \* AuthOTPTTL
    BlockedWindow,  \* AuthOTPBlockedWindow
    RateWindow,     \* AuthRateWindow
    MaxOTPs,        \* bound: otp_requests rows ever inserted
    MaxTime         \* bound: value of the clock

ASSUME ParamAssumption ==
    /\ MayFail \in BOOLEAN
    /\ MaxAttempts \in Nat \ {0}
    /\ AttemptsCheck \in 1 .. MaxAttempts
    /\ MaxRate \in Nat \ {0}
    /\ ResendCheck \in Nat \ {0}
    /\ OTPTTL \in Nat \ {0}
    /\ BlockedWindow \in Nat
    /\ RateWindow \in Nat \ {0}
    /\ MaxOTPs \in Nat
    /\ MaxTime \in Nat

\* The code's OTP lifetime is 10 minutes and its block lasts 30.
ASSUME WindowAssumption == BlockedWindow >= OTPTTL

ASSUME SetAssumption ==
    /\ IsFiniteSet(Procs)
    /\ None \notin Accounts
    /\ None \notin Devices

VARIABLES
    now,            \* clock of the application and of the database
    otps,           \* otp_requests, by otp_id in order of created_at
    issued,         \* number of rows inserted so far
    phoneVerified,  \* users.phone_verified
    logins,         \* sessions rows inserted by a transaction that redeemed the row
    rate,           \* Redis counter OTPRateKey(phone, role) and its time to live
    firstTime,      \* codes whose login was answered with FirstTimeUser = true
    req             \* the requests in progress

vars == <<now, otps, issued, phoneVerified, logins, rate, firstTime, req>>

RowId == 1 .. MaxOTPs

OTPRow == [user: Accounts \cup {None}, device: Devices \cup {None},
           expiresAt: Nat, verified: BOOLEAN, attempts: 0 .. AttemptsCheck,
           resend: 0 .. ResendCheck, blockedUntil: Nat]

\* A row not inserted yet; a blockedUntil of 0 is the column's NULL.
NoRow == [user |-> None, device |-> None, expiresAt |-> 0, verified |-> FALSE,
          attempts |-> 0, resend |-> 0, blockedUntil |-> 0]

\* The statement the request runs next: SendOTP's after its rate check
\* (find, resend, create, charge, expire), VerifyOTP's after its lookup
\* (count, block, mark, commit, greet).
BeforeCreate == {"find", "resend", "create"}
SendSteps == BeforeCreate \cup {"charge", "expire"}
VerifySteps == {"count", "block", "mark", "commit", "greet"}
Steps == {"idle"} \cup SendSteps \cup VerifySteps

\* account and device are the request's; otp, seen and at are the row it read,
\* the attempts it saw there and the time it read them.
Request == [pc: Steps, account: Accounts \cup {None}, device: Devices \cup {None},
            otp: 0 .. MaxOTPs, seen: Nat, at: Nat]

Idle == [pc |-> "idle", account |-> None, device |-> None,
         otp |-> 0, seen |-> 0, at |-> 0]

NoCounter == [count |-> 0, expiresAt |-> 0]

Init ==
    /\ now = 0
    /\ otps = [r \in RowId |-> NoRow]
    /\ issued = 0
    /\ phoneVerified = {}
    /\ logins = [r \in RowId |-> 0]
    /\ rate = [a \in Accounts |-> NoCounter]
    /\ firstTime = [a \in Accounts |-> {}]
    /\ req = [p \in Procs |-> Idle]

----------------------------------------------------------------------------
(* Queries *)

\* Mutant: looks codes up by device, whatever account they were issued for.
UnverifiedAnyRole(a, d) ==
    {r \in RowId : /\ otps[r].user # None
                   /\ otps[r].device = d
                   /\ ~otps[r].verified}

Unverified(a, d) ==
    {r \in RowId : /\ otps[r].user = a
                   /\ otps[r].device = d
                   /\ ~otps[r].verified}

Active(a) ==
    {r \in RowId : /\ otps[r].user = a
                   /\ ~otps[r].verified
                   /\ otps[r].expiresAt > now}

\* ORDER BY created_at DESC LIMIT 1
IsLatest(r, R) == r \in R /\ \A s \in R : s <= r

\* Mutant: no CHECK on the column.
AttemptsUnchecked(r) == TRUE

\* CHECK (attempts <= 5) admits one more answer on row r.
AttemptsLeft(r) == otps[r].attempts < AttemptsCheck

\* Mutant: counts the outstanding codes only.
VerifiedActiveRows(a) ==
    {r \in RowId : otps[r].user = a /\ otps[r].verified /\ otps[r].expiresAt > now}

VerifiedRows(a) == {r \in RowId : otps[r].user = a /\ otps[r].verified}

\* Mutant: a request holds its row before its transaction starts.
LockedFromRead(r) == \E p \in Procs : req[p].pc \in {"mark", "commit"} /\ req[p].otp = r

\* A login transaction keeps the lock on the row it marked until it ends.
Locked(r) == \E p \in Procs : req[p].pc = "commit" /\ req[p].otp = r

Goto(p, step) == req' = [req EXCEPT ![p].pc = step]
Finish(p) == req' = [req EXCEPT ![p] = Idle]
Read(p, step, a, d, r, seen, t) ==
    req' = [req EXCEPT ![p] = [pc |-> step, account |-> a, device |-> d,
                               otp |-> r, seen |-> seen, at |-> t]]

----------------------------------------------------------------------------
(* SendOTP *)

\* Mutant: off by one.
RateOpenAtLimit(a) == rate[a].count <= MaxRate

RateOpen(a) == rate[a].count < MaxRate

\* The account exists and is not suspended and the counter is below the limit.
SendCheck(p, a, d) ==
    /\ req[p].pc = "idle"
    /\ RateOpen(a)
    /\ issued + Cardinality({q \in Procs : req[q].pc \in BeforeCreate}) < MaxOTPs
    /\ Read(p, "find", a, d, 0, 0, 0)
    /\ UNCHANGED <<now, otps, issued, phoneVerified, logins, rate, firstTime>>

\* The counter is at its limit: 429, and nothing changes.
SendRefused(p, a) ==
    /\ req[p].pc = "idle"
    /\ ~RateOpen(a)
    /\ UNCHANGED vars

\* No code is outstanding: nothing to count as a resend.
FindNone(p) ==
    /\ req[p].pc = "find"
    /\ Active(req[p].account) = {}
    /\ Goto(p, "create")
    /\ UNCHANGED <<now, otps, issued, phoneVerified, logins, rate, firstTime>>

FindActive(p) ==
    /\ req[p].pc = "find"
    /\ \E r \in RowId :
         /\ IsLatest(r, Active(req[p].account))
         /\ \/ /\ otps[r].resend >= MaxRate
               /\ Finish(p)
            \/ /\ otps[r].resend < MaxRate
               /\ Read(p, "resend", req[p].account, req[p].device, r, 0, 0)
    /\ UNCHANGED <<now, otps, issued, phoneVerified, logins, rate, firstTime>>

\* IncrementOTPResendCount; the CHECK on resend_count turns the update into an
\* error, which ends the request.
CountResend(p) ==
    LET r == req[p].otp IN
    /\ req[p].pc = "resend"
    /\ ~Locked(r)
    /\ \/ /\ otps[r].resend < ResendCheck
          /\ otps' = [otps EXCEPT ![r].resend = @ + 1]
          /\ Goto(p, "create")
       \/ /\ otps[r].resend >= ResendCheck
          /\ Finish(p)
          /\ UNCHANGED otps
    /\ UNCHANGED <<now, issued, phoneVerified, logins, rate, firstTime>>

\* createOTPBundle and CreateOTPRequest.
CreateRow(p) ==
    /\ req[p].pc = "create"
    /\ issued < MaxOTPs
    /\ issued' = issued + 1
    /\ otps' = [otps EXCEPT ![issued + 1] =
                  [user |-> req[p].account, device |-> req[p].device,
                   expiresAt |-> now + OTPTTL, verified |-> FALSE,
                   attempts |-> 0, resend |-> 0, blockedUntil |-> 0]]
    /\ Goto(p, "charge")
    /\ UNCHANGED <<now, phoneVerified, logins, rate, firstTime>>

\* Mutant: nobody goes on to EXPIRE the key.
ChargeRateOnly(p) ==
    /\ req[p].pc = "charge"
    /\ rate' = [rate EXCEPT ![req[p].account].count = @ + 1]
    /\ Finish(p)
    /\ UNCHANGED <<now, otps, issued, phoneVerified, logins, firstTime>>

\* SetOTPHashAndRate up to its INCR; the caller that created the key is the
\* one that goes on to EXPIRE it.
ChargeRate(p) ==
    LET a == req[p].account IN
    /\ req[p].pc = "charge"
    /\ rate' = [rate EXCEPT ![a].count = @ + 1]
    /\ IF rate[a].count = 0 THEN Goto(p, "expire") ELSE Finish(p)
    /\ UNCHANGED <<now, otps, issued, phoneVerified, logins, firstTime>>

\* The EXPIRE of SetOTPHashAndRate, then the SMS.
ExpireRate(p) ==
    /\ req[p].pc = "expire"
    /\ rate' = [rate EXCEPT ![req[p].account].expiresAt = now + RateWindow]
    /\ Finish(p)
    /\ UNCHANGED <<now, otps, issued, phoneVerified, logins, firstTime>>

\* The error of that EXPIRE is dropped: the request still succeeds.
ExpireRateFails(p) ==
    /\ MayFail
    /\ req[p].pc = "expire"
    /\ Finish(p)
    /\ UNCHANGED <<now, otps, issued, phoneVerified, logins, rate, firstTime>>

----------------------------------------------------------------------------
(* VerifyOTP *)

\* FindLatestUnverifiedOTPByUserDevice and the decision taken on that snapshot.
\* match: the answer is the code of the row.
VerifyRead(p, a, d, match) ==
    /\ req[p].pc = "idle"
    /\ \E r \in RowId :
         /\ IsLatest(r, Unverified(a, d))
         /\ otps[r].blockedUntil <= now
         /\ \/ /\ otps[r].attempts >= MaxAttempts
               /\ Read(p, "block", a, d, r, otps[r].attempts, now)
            \/ /\ otps[r].attempts < MaxAttempts
               /\ otps[r].expiresAt < now \/ ~match
               /\ Read(p, "count", a, d, r, otps[r].attempts, now)
            \/ /\ otps[r].attempts < MaxAttempts
               /\ otps[r].expiresAt >= now /\ match
               /\ Read(p, "mark", a, d, r, otps[r].attempts, now)
    /\ UNCHANGED <<now, otps, issued, phoneVerified, logins, rate, firstTime>>

\* 401 without an open row, 429 while it is blocked: nothing changes.
VerifyRefused(p, a, d) ==
    /\ req[p].pc = "idle"
    /\ \A r \in RowId : IsLatest(r, Unverified(a, d)) => otps[r].blockedUntil > now
    /\ UNCHANGED vars

\* IncrementOTPAttempts.  Its error is dropped, so the request goes on also
\* when the CHECK on attempts, or a failure, keeps the update from happening.
CountAttempt(p) ==
    LET r == req[p].otp IN
    /\ req[p].pc = "count"
    /\ ~Locked(r)
    /\ \/ /\ AttemptsLeft(r)
          /\ otps' = [otps EXCEPT ![r].attempts = @ + 1]
       \/ /\ MayFail \/ ~AttemptsLeft(r)
          /\ UNCHANGED otps
    /\ IF req[p].seen + 1 >= MaxAttempts THEN Goto(p, "block") ELSE Finish(p)
    /\ UNCHANGED <<now, issued, phoneVerified, logins, rate, firstTime>>

\* Mutant: the block ends when it starts.
BlockRowNow(p) ==
    /\ req[p].pc = "block"
    /\ ~Locked(req[p].otp)
    /\ otps' = [otps EXCEPT ![req[p].otp].blockedUntil = req[p].at]
    /\ Finish(p)
    /\ UNCHANGED <<now, issued, phoneVerified, logins, rate, firstTime>>

\* SetOTPBlockedUntil, from the time the request read its row.
BlockRow(p) ==
    LET r == req[p].otp IN
    /\ req[p].pc = "block"
    /\ ~Locked(r)
    /\ otps' = [otps EXCEPT ![r].blockedUntil = req[p].at + BlockedWindow]
    /\ Finish(p)
    /\ UNCHANGED <<now, issued, phoneVerified, logins, rate, firstTime>>

\* Mutant: the row is marked outside the transaction.
MarkVerifiedEarly(p) ==
    /\ req[p].pc = "mark"
    /\ ~Locked(req[p].otp)
    /\ AttemptsLeft(req[p].otp)
    /\ otps' = [otps EXCEPT ![req[p].otp].verified = TRUE]
    /\ Goto(p, "commit")
    /\ UNCHANGED <<now, issued, phoneVerified, logins, rate, firstTime>>

\* MarkOTPVerified, the first statement of the login transaction: it takes the
\* row lock, and its attempts + 1 is subject to the CHECK.
MarkVerified(p) ==
    LET r == req[p].otp IN
    /\ req[p].pc = "mark"
    /\ ~Locked(r)
    /\ \/ AttemptsLeft(r) /\ Goto(p, "commit")
       \/ ~AttemptsLeft(r) /\ Finish(p)
    /\ UNCHANGED <<now, otps, issued, phoneVerified, logins, rate, firstTime>>

\* Mutant: an accepted answer does not count as an attempt.
CommitLoginFree(p) ==
    LET r == req[p].otp IN
    /\ req[p].pc = "commit"
    /\ otps' = [otps EXCEPT ![r].verified = TRUE]
    /\ phoneVerified' = phoneVerified \cup {otps[r].user}
    /\ logins' = [logins EXCEPT ![r] = @ + 1]
    /\ Goto(p, "greet")
    /\ UNCHANGED <<now, issued, rate, firstTime>>

\* MarkOTPVerified's update; it does not ask whether the row is verified already.
Redeemed(row) == [row EXCEPT !.verified = TRUE, !.attempts = @ + 1]

\* The rest of the transaction, whose writes appear together.
CommitLogin(p) ==
    LET r == req[p].otp IN
    /\ req[p].pc = "commit"
    /\ otps' = [otps EXCEPT ![r] = Redeemed(otps[r])]
    /\ phoneVerified' = phoneVerified \cup {otps[r].user}
    /\ logins' = [logins EXCEPT ![r] = @ + 1]
    /\ Goto(p, "greet")
    /\ UNCHANGED <<now, issued, rate, firstTime>>

\* CountVerifiedOTPs and the answer: FirstTimeUser iff the count is 1.
Greet(p) ==
    LET a == otps[req[p].otp].user IN
    /\ req[p].pc = "greet"
    /\ firstTime' = IF Cardinality(VerifiedRows(a)) = 1
                      THEN [firstTime EXCEPT ![a] = @ \cup {req[p].otp}]
                      ELSE firstTime
    /\ Finish(p)
    /\ UNCHANGED <<now, otps, issued, phoneVerified, logins, rate>>

----------------------------------------------------------------------------
(* Environment *)

\* The request ends at its next statement: error answer, client gone, crash.
\* A transaction that was open is rolled back.
Abandon(p) ==
    /\ MayFail
    /\ req[p].pc # "idle"
    /\ Finish(p)
    /\ UNCHANGED <<now, otps, issued, phoneVerified, logins, rate, firstTime>>

\* Time passes; Redis drops the counters whose time to live ends.
Tick ==
    /\ now < MaxTime
    /\ now' = now + 1
    /\ rate' = [a \in Accounts |->
                  IF rate[a].expiresAt # 0 /\ rate[a].expiresAt <= now + 1
                    THEN NoCounter ELSE rate[a]]
    /\ UNCHANGED <<otps, issued, phoneVerified, logins, firstTime, req>>

\* The next statement of a request already under way.
Step(p) ==
    \/ FindNone(p) \/ FindActive(p) \/ CountResend(p) \/ CreateRow(p)
    \/ ChargeRate(p) \/ ExpireRate(p)
    \/ CountAttempt(p) \/ BlockRow(p)
    \/ MarkVerified(p) \/ CommitLogin(p) \/ Greet(p)

Next ==
    \/ \E p \in Procs :
         \/ \E a \in Accounts, d \in Devices :
              \/ SendCheck(p, a, d)
              \/ SendRefused(p, a)
              \/ VerifyRefused(p, a, d)
              \/ \E match \in BOOLEAN : VerifyRead(p, a, d, match)
         \/ Step(p)
         \/ ExpireRateFails(p)
         \/ Abandon(p)
    \/ Tick

Spec == Init /\ [][Next]_vars

\* Every statement of a running request is eventually answered; an update that
\* waits for a row lock gets its turn even if the lock is taken again and again
\* (PostgreSQL queues the waiters of a row).  Nothing is assumed of new requests.
FairSpec == Spec /\ \A p \in Procs : SF_vars(Step(p))

----------------------------------------------------------------------------
(* Properties *)

\* The variables keep their types; in particular attempts and resend_count never
\* pass the CHECKs of otp_requests, however many requests count at once.
TypeOK ==
    /\ now \in Nat
    /\ otps \in [RowId -> OTPRow]
    /\ issued \in 0 .. MaxOTPs
    /\ phoneVerified \in SUBSET Accounts
    /\ logins \in [RowId -> Nat]
    /\ rate \in [Accounts -> [count: Nat, expiresAt: Nat]]
    /\ firstTime \in [Accounts -> SUBSET RowId]
    /\ req \in [Procs -> Request]

\* What a code promises (AttemptBudget): however many requests answer it at
\* once, each from its own earlier snapshot of the row, wrong answers and
\* logins together never exceed the budget of the code, and a burned code
\* grants nothing any more ("5 wrong tries burns the code", auth.go:339).
Budget == INSTANCE AttemptBudget
            WITH CodeIds <- RowId, Limit <- MaxAttempts,
                 spent <- [r \in RowId |-> otps[r].attempts - logins[r]],
                 redeemed <- logins

ImplementsBudget == Budget!Spec

\* The login transaction is all or nothing towards every reader: a row is
\* verified exactly when it granted a session, each session is paid for by an
\* attempt, and an account's phone is verified exactly when one of its rows is.
LoginIsAtomic ==
    /\ \A r \in RowId : /\ otps[r].verified <=> logins[r] > 0
                        /\ logins[r] <= otps[r].attempts
    /\ phoneVerified = {a \in Accounts : VerifiedRows(a) # {}}

\* An OTP issued for one role, or to one device, is never redeemed into another
\* account or from another device (auth.go:303-305).
LoginMatchesRequest ==
    \A p \in Procs :
        req[p].pc \in {"mark", "commit", "greet"} =>
            /\ otps[req[p].otp].user = req[p].account
            /\ otps[req[p].otp].device = req[p].device

\* The counter is read before and incremented after the row is written, so
\* concurrent sends overshoot the limit; by no more than the requests that can
\* be in progress besides the one that fills it.
RateOvershootBounded ==
    \A a \in Accounts : rate[a].count <= MaxRate - 1 + Cardinality(Procs)

\* FirstTimeUser is decided by a count taken after the transaction.  However
\* logins overlap, only logins through one code of an account are told so.
OneFirstTimeCode ==
    \A a \in Accounts : \A r, s \in firstTime[a] : r = s

\* When a block ends the code it protected has expired: the block is set from a
\* stale clock reading, but the row existed then and a block outlasts a code.
BlockOutlivesCode ==
    \A r \in RowId : otps[r].blockedUntil # 0 =>
                         otps[r].blockedUntil >= otps[r].expiresAt

\* As long as no statement fails, a send counter without a time to live is
\* about to get one: nobody is locked out for good.
RateWindowCloses ==
    \A a \in Accounts :
        ~MayFail /\ rate[a].count > 0 /\ rate[a].expiresAt = 0 =>
            \E p \in Procs : req[p].pc = "expire" /\ req[p].account = a

(* The inductive invariant behind these properties. *)

RowSteps == {"resend"} \cup VerifySteps

\* Rows are inserted in order of their id and belong to an account.
RowsIssued ==
    \A r \in RowId :
        /\ r <= issued => otps[r].user \in Accounts
        /\ r > issued => otps[r] = NoRow /\ logins[r] = 0

\* A request works on a row that exists and for an account that exists.
RequestsOK ==
    \A p \in Procs :
        /\ req[p].pc \in RowSteps => req[p].otp \in 1 .. issued
        /\ req[p].pc \in SendSteps => /\ req[p].account \in Accounts
                                      /\ req[p].device \in Devices

\* One transaction at a time holds a row, and the answer it is about to commit
\* still fits under the CHECK: nobody else can touch attempts meanwhile.
LockHeld ==
    /\ \A p \in Procs : req[p].pc = "commit" => AttemptsLeft(req[p].otp)
    /\ \A p, q \in Procs :
          /\ req[p].pc = "commit" /\ req[q].pc = "commit"
          /\ req[p].otp = req[q].otp
          => p = q

Core == TypeOK /\ RowsIssued /\ RequestsOK /\ LockHeld /\ LoginIsAtomic

\* A verified row stays verified, so the codes told "first time" are verified.
FirstTimeVerified ==
    /\ \A p \in Procs : req[p].pc = "greet" => otps[req[p].otp].verified
    /\ \A a \in Accounts : firstTime[a] \subseteq VerifiedRows(a)

\* The clock reading a request blocks its row from is no older than the row.
ReadAfterIssue ==
    /\ \A r \in RowId : otps[r].expiresAt <= now + OTPTTL
    /\ \A p \in Procs : req[p].pc \in {"count", "block"} =>
                            otps[req[p].otp].expiresAt <= req[p].at + OTPTTL

\* Requests that passed the rate check and have not been charged yet.
Sending(a) == {p \in Procs : /\ req[p].pc \in BeforeCreate \cup {"charge"}
                            /\ req[p].account = a}

RateBudget ==
    \A a \in Accounts : rate[a].count + Cardinality(Sending(a))
                          <= MaxRate - 1 + Cardinality(Procs)

IInv == /\ Core /\ LoginMatchesRequest
        /\ FirstTimeVerified /\ OneFirstTimeCode
        /\ ReadAfterIssue /\ BlockOutlivesCode
        /\ RateBudget

\* No request waits forever: row locks are always released and every retry of
\* a waiting update finds the row free.
RequestsEnd == \A p \in Procs : req[p].pc # "idle" ~> req[p].pc = "idle"

=============================================================================
