--------------------------- MODULE PhoneOTP_proofs ---------------------------
(* Proofs about PhoneOTP, for every value of its constants. *)
EXTENDS PhoneOTP, FiniteSetTheorems, TLAPS


\* The update of a redeemed row leaves a row and touches two columns.
LEMMA RedeemedRow ==
    ASSUME NEW x \in OTPRow, x.attempts < AttemptsCheck
    PROVE  /\ Redeemed(x) \in OTPRow
           /\ Redeemed(x).verified = TRUE
           /\ Redeemed(x).attempts = x.attempts + 1
           /\ Redeemed(x).user = x.user
           /\ Redeemed(x).device = x.device
           /\ Redeemed(x).expiresAt = x.expiresAt
           /\ Redeemed(x).blockedUntil = x.blockedUntil
<1> DEFINE y == [x EXCEPT !.verified = TRUE]
<1>1. /\ y \in OTPRow
      /\ y.verified = TRUE
      /\ y.attempts = x.attempts
      /\ y.user = x.user
      /\ y.device = x.device
      /\ y.expiresAt = x.expiresAt
      /\ y.blockedUntil = x.blockedUntil
  BY DEF OTPRow
<1>2. Redeemed(x) = [y EXCEPT !.attempts = @ + 1]
  BY DEF Redeemed
<1> HIDE DEF y
<1>3. /\ [y EXCEPT !.attempts = @ + 1] \in OTPRow
      /\ [y EXCEPT !.attempts = @ + 1].attempts = y.attempts + 1
      /\ [y EXCEPT !.attempts = @ + 1].verified = y.verified
      /\ [y EXCEPT !.attempts = @ + 1].user = y.user
      /\ [y EXCEPT !.attempts = @ + 1].device = y.device
      /\ [y EXCEPT !.attempts = @ + 1].expiresAt = y.expiresAt
      /\ [y EXCEPT !.attempts = @ + 1].blockedUntil = y.blockedUntil
  BY <1>1, ParamAssumption DEF OTPRow
<1>4. QED
  BY <1>1, <1>2, <1>3

\* The three ways a request moves on keep it a request.
LEMMA ReqTypes ==
    ASSUME req \in [Procs -> Request], NEW p \in Procs
    PROVE  /\ \A s \in Steps : Goto(p, s) => req' \in [Procs -> Request]
           /\ Finish(p) => req' \in [Procs -> Request]
           /\ \A s \in Steps, a \in Accounts \cup {None}, d \in Devices \cup {None},
                 r \in 0 .. MaxOTPs, n \in Nat, t \in Nat :
                 Read(p, s, a, d, r, n, t) => req' \in [Procs -> Request]
<1>1. \A s \in Steps : Goto(p, s) => req' \in [Procs -> Request]
  BY DEF Goto, Request
<1>2. Idle \in Request
  BY ParamAssumption DEF Request, Idle, Steps
<1>3. Finish(p) => req' \in [Procs -> Request]
  BY <1>2 DEF Finish
<1>4. ASSUME NEW s \in Steps, NEW a \in Accounts \cup {None},
             NEW d \in Devices \cup {None}, NEW r \in 0 .. MaxOTPs,
             NEW n \in Nat, NEW t \in Nat, Read(p, s, a, d, r, n, t)
      PROVE  req' \in [Procs -> Request]
  BY <1>4 DEF Read, Request
<1>5. QED
  BY <1>1, <1>3, <1>4

\* What a row and a request in the right type give.
LEMMA Fields ==
    ASSUME TypeOK
    PROVE  /\ \A r \in RowId :
                /\ otps[r].user \in Accounts \cup {None}
                /\ otps[r].device \in Devices \cup {None}
                /\ otps[r].expiresAt \in Nat
                /\ otps[r].verified \in BOOLEAN
                /\ otps[r].attempts \in 0 .. AttemptsCheck
                /\ otps[r].attempts \in Nat
                /\ otps[r].resend \in 0 .. ResendCheck
                /\ otps[r].blockedUntil \in Nat
           /\ \A p \in Procs :
                /\ req[p].pc \in Steps
                /\ req[p].account \in Accounts \cup {None}
                /\ req[p].device \in Devices \cup {None}
                /\ req[p].otp \in 0 .. MaxOTPs
                /\ req[p].seen \in Nat
                /\ req[p].at \in Nat
           /\ \A a \in Accounts : rate[a].count \in Nat /\ rate[a].expiresAt \in Nat
  BY ParamAssumption DEF TypeOK, OTPRow, Request

\* Single-column updates keep a row a row.
LEMMA RowTypes ==
    ASSUME NEW x \in OTPRow
    PROVE  /\ x.attempts < AttemptsCheck => [x EXCEPT !.attempts = @ + 1] \in OTPRow
           /\ x.resend < ResendCheck => [x EXCEPT !.resend = @ + 1] \in OTPRow
           /\ \A t \in Nat : [x EXCEPT !.blockedUntil = t] \in OTPRow
  BY ParamAssumption DEF OTPRow

\* How a request moves on, field by field; the others stay where they are.
LEMMA Moves ==
    ASSUME TypeOK, NEW p \in Procs
    PROVE  /\ \A s : Goto(p, s) =>
                /\ req'[p].pc = s
                /\ req'[p].account = req[p].account
                /\ req'[p].device = req[p].device
                /\ req'[p].otp = req[p].otp
                /\ req'[p].at = req[p].at
                /\ \A q \in Procs : q # p => req'[q] = req[q]
           /\ Finish(p) =>
                /\ req'[p].pc = "idle"
                /\ \A q \in Procs : q # p => req'[q] = req[q]
           /\ \A s, a, d, r, n, t : Read(p, s, a, d, r, n, t) =>
                /\ req'[p].pc = s
                /\ req'[p].account = a
                /\ req'[p].device = d
                /\ req'[p].otp = r
                /\ req'[p].at = t
                /\ \A q \in Procs : q # p => req'[q] = req[q]
  BY DEF TypeOK, Request, Goto, Finish, Read, Idle

-----------------------------------------------------------------------------
(* The core of the inductive invariant *)

\* With no rows and no requests there is nothing to break.
LEMMA CoreInit == Init => Core
<1> SUFFICES ASSUME Init PROVE Core
  OBVIOUS
<1>1. TypeOK
  BY ParamAssumption DEF Init, TypeOK, RowId, NoRow, OTPRow, NoCounter, Idle, Request, Steps
<1>2. \A r \in RowId : otps[r] = NoRow /\ logins[r] = 0
  BY DEF Init
<1>3. \A p \in Procs : req[p].pc = "idle"
  BY DEF Init, Idle
<1>4. RowsIssued
  BY <1>2, ParamAssumption DEF Init, RowsIssued, RowId
<1>5. RequestsOK /\ LockHeld
  BY <1>3 DEF RequestsOK, LockHeld, RowSteps, SendSteps, BeforeCreate, VerifySteps
<1>6. LoginIsAtomic
  BY <1>2 DEF Init, LoginIsAtomic, VerifiedRows, NoRow
<1>7. QED
  BY <1>1, <1>4, <1>5, <1>6 DEF Core

\* A step that leaves the tables alone has only the requests to answer for.
LEMMA QuietStep ==
    ASSUME Core, TypeOK', RequestsOK', LockHeld',
           UNCHANGED <<otps, issued, phoneVerified, logins>>
    PROVE  Core'
  BY DEF Core, RowsIssued, LoginIsAtomic, VerifiedRows

\* The row a request works on is one that was inserted.
LEMMA RowAtHand ==
    ASSUME Core
    PROVE  \A p \in Procs : req[p].pc \in RowSteps => /\ req[p].otp \in RowId
                                                      /\ req[p].otp <= issued
                                                      /\ issued \in Nat
  BY ParamAssumption DEF Core, TypeOK, RequestsOK, RowId

\* Every statement of every request keeps the core: one step per action of Next.
LEMMA CoreStep == Core /\ [Next]_vars => Core'
<1> SUFFICES ASSUME Core, [Next]_vars PROVE Core'
  OBVIOUS
<1> USE DEF SendSteps, BeforeCreate, VerifySteps, RowSteps
<1>0. TypeOK /\ RowsIssued /\ RequestsOK /\ LockHeld /\ LoginIsAtomic
  BY DEF Core
<1>1. ASSUME NEW p \in Procs, NEW a \in Accounts, NEW d \in Devices, SendCheck(p, a, d)
      PROVE  Core'
  <2>1. TypeOK'
    BY <1>0, <1>1, ReqTypes, ParamAssumption DEF SendCheck, TypeOK, Steps
  <2>2. RequestsOK'
    BY <1>0, <1>1, Moves DEF SendCheck, RequestsOK
  <2>3. LockHeld'
    BY <1>0, <1>1, Moves DEF SendCheck, LockHeld, AttemptsLeft
  <2>4. QED
    BY <1>1, <2>1, <2>2, <2>3, QuietStep DEF SendCheck
<1>2. ASSUME NEW p \in Procs, NEW a \in Accounts, NEW d \in Devices,
             NEW match \in BOOLEAN, VerifyRead(p, a, d, match)
      PROVE  Core'
  <2>1. PICK r \in RowId, s \in {"block", "count", "mark"} :
           /\ Read(p, s, a, d, r, otps[r].attempts, now)
           /\ otps[r].user = a
    BY <1>2 DEF VerifyRead, IsLatest, Unverified
  <2>2. r <= issued
    <3>1. r \in Nat /\ issued \in Nat
      BY <1>0, ParamAssumption DEF RowId, TypeOK
    <3>2. r > issued => otps[r].user = None
      BY <1>0 DEF RowsIssued, NoRow
    <3>3. otps[r].user # None
      BY <2>1, SetAssumption
    <3>4. QED
      BY <3>1, <3>2, <3>3
  <2>3. TypeOK'
    BY <1>0, <1>2, <2>1, ReqTypes, Fields DEF VerifyRead, TypeOK, RowId, Steps
  <2>4. RequestsOK'
    BY <1>0, <1>2, <2>1, <2>2, Moves DEF VerifyRead, RequestsOK, RowId
  <2>5. LockHeld'
    BY <1>0, <1>2, <2>1, Moves DEF VerifyRead, LockHeld, AttemptsLeft
  <2>6. QED
    BY <1>2, <2>3, <2>4, <2>5, QuietStep DEF VerifyRead
<1>3. ASSUME NEW p \in Procs, FindNone(p)
      PROVE  Core'
  <2>1. TypeOK'
    BY <1>0, <1>3, ReqTypes DEF FindNone, TypeOK, Steps
  <2>2. RequestsOK'
    BY <1>0, <1>3, Moves DEF FindNone, RequestsOK
  <2>3. LockHeld'
    BY <1>0, <1>3, Moves DEF FindNone, LockHeld, AttemptsLeft
  <2>4. QED
    BY <1>3, <2>1, <2>2, <2>3, QuietStep DEF FindNone
<1>4. ASSUME NEW p \in Procs, FindActive(p)
      PROVE  Core'
  <2>1. PICK r \in RowId :
           /\ otps[r].user = req[p].account
           /\ \/ Finish(p)
              \/ Read(p, "resend", req[p].account, req[p].device, r, 0, 0)
    BY <1>4 DEF FindActive, IsLatest, Active
  <2>2. r <= issued /\ req[p].account \in Accounts /\ req[p].device \in Devices
    BY <1>0, <1>4, <2>1, SetAssumption
       DEF RowsIssued, NoRow, RowId, TypeOK, RequestsOK, FindActive
  <2>3. TypeOK'
    BY <1>0, <1>4, <2>1, <2>2, ReqTypes DEF FindActive, TypeOK, RowId, Steps
  <2>4. RequestsOK'
    BY <1>0, <1>4, <2>1, <2>2, Moves DEF FindActive, RequestsOK, RowId
  <2>5. LockHeld'
    BY <1>0, <1>4, <2>1, Moves DEF FindActive, LockHeld, AttemptsLeft
  <2>6. QED
    BY <1>4, <2>3, <2>4, <2>5, QuietStep DEF FindActive
<1>5. ASSUME NEW p \in Procs, CountResend(p)
      PROVE  Core'
  <2> DEFINE r == req[p].otp
  <2>1. r \in RowId /\ r <= issued
    BY <1>5, RowAtHand DEF CountResend
  <2>2. /\ otps' \in [RowId -> OTPRow]
        /\ \A s \in RowId : s # r => otps'[s] = otps[s]
        /\ otps'[r].user = otps[r].user
        /\ otps'[r].verified = otps[r].verified
        /\ otps'[r].attempts = otps[r].attempts
    <3>1. CASE otps' = [otps EXCEPT ![r].resend = @ + 1] /\ otps[r].resend < ResendCheck
      BY <1>0, <2>1, <3>1, RowTypes DEF TypeOK, OTPRow
    <3>2. CASE UNCHANGED otps
      BY <1>0, <3>2 DEF TypeOK
    <3>3. QED
      BY <1>5, <3>1, <3>2 DEF CountResend
  <2>3. Goto(p, "create") \/ Finish(p)
    BY <1>5 DEF CountResend
  <2>4. TypeOK'
    BY <1>0, <1>5, <2>2, <2>3, ReqTypes DEF CountResend, TypeOK, Steps
  <2>5. RowsIssued'
    BY <1>0, <1>5, <2>1, <2>2 DEF CountResend, RowsIssued, RowId, TypeOK
  <2>6. RequestsOK'
    BY <1>0, <1>5, <2>3, Moves DEF CountResend, RequestsOK
  <2>7. LockHeld'
    BY <1>0, <1>5, <2>1, <2>2, <2>3, Moves, RowAtHand
       DEF CountResend, LockHeld, AttemptsLeft
  <2>8. LoginIsAtomic'
    BY <1>0, <1>5, <2>1, <2>2 DEF CountResend, LoginIsAtomic, VerifiedRows
  <2>9. QED
    BY <2>4, <2>5, <2>6, <2>7, <2>8 DEF Core
<1>6. ASSUME NEW p \in Procs, CreateRow(p)
      PROVE  Core'
  <2> DEFINE r == issued + 1
  <2> DEFINE row == [user |-> req[p].account, device |-> req[p].device,
                     expiresAt |-> now + OTPTTL, verified |-> FALSE,
                     attempts |-> 0, resend |-> 0, blockedUntil |-> 0]
  <2>1. r \in RowId /\ issued \in Nat /\ req[p].account \in Accounts
    BY <1>0, <1>6, ParamAssumption DEF CreateRow, TypeOK, RowId, RequestsOK
  <2>2. row \in OTPRow
    BY <1>0, Fields, ParamAssumption DEF OTPRow, TypeOK
  <2>3. /\ otps' \in [RowId -> OTPRow]
        /\ \A s \in RowId : s # r => otps'[s] = otps[s]
        /\ otps'[r] = row
    BY <1>0, <1>6, <2>1, <2>2 DEF CreateRow, TypeOK
  <2>4. TypeOK'
    BY <1>0, <1>6, <2>1, <2>3, ReqTypes, ParamAssumption DEF CreateRow, TypeOK, Steps, RowId
  <2>5. RowsIssued'
    BY <1>0, <1>6, <2>1, <2>3 DEF CreateRow, RowsIssued, RowId
  <2>6. RequestsOK'
    BY <1>0, <1>6, <2>1, Moves DEF CreateRow, RequestsOK
  <2>7. LockHeld'
    BY <1>0, <1>6, <2>1, <2>3, Moves
       DEF CreateRow, LockHeld, AttemptsLeft, RequestsOK, RowId
  <2>8. ~otps[r].verified /\ logins[r] = 0
    BY <1>0, <2>1 DEF RowsIssued, NoRow
  <2>9. LoginIsAtomic'
    BY <1>0, <1>6, <2>1, <2>3, <2>8 DEF CreateRow, LoginIsAtomic, VerifiedRows
  <2>10. QED
    BY <2>4, <2>5, <2>6, <2>7, <2>9 DEF Core
<1>7. ASSUME NEW p \in Procs, ChargeRate(p)
      PROVE  Core'
  <2>1. req[p].account \in Accounts
    BY <1>0, <1>7 DEF ChargeRate, RequestsOK
  <2>2. rate' \in [Accounts -> [count: Nat, expiresAt: Nat]]
    BY <1>0, <1>7, <2>1, ParamAssumption DEF ChargeRate, TypeOK
  <2>3. TypeOK'
    BY <1>0, <1>7, <2>2, ReqTypes DEF ChargeRate, TypeOK, Steps
  <2>4. RequestsOK'
    BY <1>0, <1>7, Moves DEF ChargeRate, RequestsOK
  <2>5. LockHeld'
    BY <1>0, <1>7, Moves DEF ChargeRate, LockHeld, AttemptsLeft
  <2>6. QED
    BY <1>7, <2>3, <2>4, <2>5, QuietStep DEF ChargeRate
<1>8. ASSUME NEW p \in Procs, ExpireRate(p)
      PROVE  Core'
  <2>1. req[p].account \in Accounts
    BY <1>0, <1>8 DEF ExpireRate, RequestsOK
  <2>2. rate' \in [Accounts -> [count: Nat, expiresAt: Nat]]
    BY <1>0, <1>8, <2>1, ParamAssumption DEF ExpireRate, TypeOK
  <2>3. TypeOK'
    BY <1>0, <1>8, <2>2, ReqTypes DEF ExpireRate, TypeOK, Steps
  <2>4. RequestsOK'
    BY <1>0, <1>8, Moves DEF ExpireRate, RequestsOK
  <2>5. LockHeld'
    BY <1>0, <1>8, Moves DEF ExpireRate, LockHeld, AttemptsLeft
  <2>6. QED
    BY <1>8, <2>3, <2>4, <2>5, QuietStep DEF ExpireRate
<1>9. ASSUME NEW p \in Procs, CountAttempt(p)
      PROVE  Core'
  <2> DEFINE r == req[p].otp
  <2>1. r \in RowId /\ r <= issued
    BY <1>9, RowAtHand DEF CountAttempt
  <2>2. /\ otps' \in [RowId -> OTPRow]
        /\ \A s \in RowId : s # r => otps'[s] = otps[s]
        /\ otps'[r].user = otps[r].user
        /\ otps'[r].verified = otps[r].verified
        /\ otps'[r].attempts >= otps[r].attempts
    <3>1. CASE otps' = [otps EXCEPT ![r].attempts = @ + 1] /\ otps[r].attempts < AttemptsCheck
      <4>1. otps[r] \in OTPRow /\ otps[r].attempts \in Nat
        BY <1>0, <2>1, Fields DEF TypeOK
      <4>2. [otps[r] EXCEPT !.attempts = @ + 1] \in OTPRow
        BY <3>1, <4>1, RowTypes
      <4>3. /\ otps' \in [RowId -> OTPRow]
            /\ \A s \in RowId : s # r => otps'[s] = otps[s]
            /\ otps'[r] = [otps[r] EXCEPT !.attempts = @ + 1]
        BY <1>0, <2>1, <3>1, <4>2 DEF TypeOK
      <4>4. QED
        BY <4>1, <4>3 DEF OTPRow
    <3>2. CASE UNCHANGED otps
      BY <1>0, <2>1, <3>2, Fields DEF TypeOK
    <3>3. QED
      BY <1>9, <3>1, <3>2 DEF CountAttempt, AttemptsLeft
  <2>3. Goto(p, "block") \/ Finish(p)
    BY <1>9 DEF CountAttempt
  <2>4. TypeOK'
    BY <1>0, <1>9, <2>2, <2>3, ReqTypes DEF CountAttempt, TypeOK, Steps
  <2>5. RowsIssued'
    BY <1>0, <1>9, <2>1, <2>2 DEF CountAttempt, RowsIssued, RowId, TypeOK
  <2>6. RequestsOK'
    BY <1>0, <1>9, <2>3, Moves DEF CountAttempt, RequestsOK
  <2>7. LockHeld'
    BY <1>0, <1>9, <2>1, <2>2, <2>3, Moves, RowAtHand
       DEF CountAttempt, Locked, LockHeld, AttemptsLeft
  <2>8. LoginIsAtomic'
    <3>1. otps'[r].attempts \in Nat /\ otps[r].attempts \in Nat /\ logins[r] \in Nat
      BY <1>0, <2>1, <2>4, Fields, ParamAssumption DEF TypeOK, OTPRow
    <3>2. QED
      BY <1>0, <1>9, <2>1, <2>2, <3>1 DEF CountAttempt, LoginIsAtomic, VerifiedRows
  <2>9. QED
    BY <2>4, <2>5, <2>6, <2>7, <2>8 DEF Core
<1>10. ASSUME NEW p \in Procs, BlockRow(p)
       PROVE  Core'
  <2> DEFINE r == req[p].otp
  <2>1. r \in RowId /\ r <= issued /\ req[p].at + BlockedWindow \in Nat
    BY <1>0, <1>10, RowAtHand, Fields, ParamAssumption DEF BlockRow
  <2>2. /\ otps' \in [RowId -> OTPRow]
        /\ \A s \in RowId : s # r => otps'[s] = otps[s]
        /\ otps'[r].user = otps[r].user
        /\ otps'[r].verified = otps[r].verified
        /\ otps'[r].attempts = otps[r].attempts
    BY <1>0, <1>10, <2>1, RowTypes DEF BlockRow, TypeOK, OTPRow
  <2>3. TypeOK'
    BY <1>0, <1>10, <2>2, ReqTypes DEF BlockRow, TypeOK, Steps
  <2>4. RowsIssued'
    BY <1>0, <1>10, <2>1, <2>2 DEF BlockRow, RowsIssued, RowId, TypeOK
  <2>5. RequestsOK'
    BY <1>0, <1>10, Moves DEF BlockRow, RequestsOK
  <2>6. LockHeld'
    BY <1>0, <1>10, <2>1, <2>2, Moves, RowAtHand
       DEF BlockRow, LockHeld, AttemptsLeft
  <2>7. LoginIsAtomic'
    BY <1>0, <1>10, <2>1, <2>2 DEF BlockRow, LoginIsAtomic, VerifiedRows
  <2>8. QED
    BY <2>3, <2>4, <2>5, <2>6, <2>7 DEF Core
<1>11. ASSUME NEW p \in Procs, MarkVerified(p)
       PROVE  Core'
  <2>1. TypeOK'
    BY <1>0, <1>11, ReqTypes DEF MarkVerified, TypeOK, Steps
  <2>2. RequestsOK'
    BY <1>0, <1>11, Moves DEF MarkVerified, RequestsOK
  <2>3. LockHeld'
    BY <1>0, <1>11, Moves DEF MarkVerified, LockHeld, Locked, AttemptsLeft
  <2>4. QED
    BY <1>11, <2>1, <2>2, <2>3, QuietStep DEF MarkVerified
<1>12. ASSUME NEW p \in Procs, CommitLogin(p)
       PROVE  Core'
  <2> DEFINE r == req[p].otp
  <2>1. r \in RowId /\ r <= issued /\ otps[r] \in OTPRow /\ otps[r].attempts < AttemptsCheck
        /\ otps[r].user \in Accounts
    <3>1. r \in RowId /\ r <= issued
      BY <1>12, RowAtHand DEF CommitLogin
    <3>2. QED
      BY <1>0, <1>12, <3>1 DEF CommitLogin, TypeOK, LockHeld, AttemptsLeft, RowsIssued
  <2>2. /\ otps' \in [RowId -> OTPRow]
        /\ \A s \in RowId : s # r => otps'[s] = otps[s]
        /\ otps'[r].user = otps[r].user
        /\ otps'[r].verified = TRUE
        /\ otps'[r].attempts = otps[r].attempts + 1
    BY <1>0, <1>12, <2>1, RedeemedRow DEF CommitLogin, TypeOK
  <2>3. /\ logins' \in [RowId -> Nat]
        /\ logins'[r] = logins[r] + 1
        /\ \A s \in RowId : s # r => logins'[s] = logins[s]
    BY <1>0, <1>12, <2>1 DEF CommitLogin, TypeOK
  <2>4. TypeOK'
    BY <1>0, <1>12, <2>1, <2>2, <2>3, ReqTypes DEF CommitLogin, TypeOK, Steps
  <2>5. RowsIssued'
    BY <1>0, <1>12, <2>1, <2>2, <2>3 DEF CommitLogin, RowsIssued, RowId, TypeOK
  <2>6. RequestsOK'
    BY <1>0, <1>12, Moves DEF CommitLogin, RequestsOK
  <2>7. LockHeld'
    BY <1>0, <1>12, <2>1, <2>2, Moves, RowAtHand
       DEF CommitLogin, LockHeld, AttemptsLeft
  <2>8. LoginIsAtomic'
    <3>1. logins[r] \in Nat /\ otps[r].attempts \in Nat
      BY <1>0, <2>1, Fields DEF TypeOK
    <3>2. (\A s \in RowId : /\ otps[s].verified <=> logins[s] > 0
                             /\ logins[s] <= otps[s].attempts)'
      BY <1>0, <2>1, <2>2, <2>3, <3>1 DEF LoginIsAtomic
    <3>3. QED
      BY <1>0, <1>12, <2>1, <2>2, <2>3, <3>1, <3>2
         DEF CommitLogin, LoginIsAtomic, VerifiedRows
  <2>9. QED
    BY <2>4, <2>5, <2>6, <2>7, <2>8 DEF Core
<1>13. ASSUME NEW p \in Procs, Greet(p)
      PROVE  Core'
  <2>1. TypeOK'
    <3>1. req[p].otp \in RowId
      BY <1>13, RowAtHand DEF Greet
    <3>2. firstTime' \in [Accounts -> SUBSET RowId]
      BY <1>0, <1>13, <3>1 DEF Greet, TypeOK
    <3>3. QED
      BY <1>0, <1>13, <3>2, ReqTypes DEF Greet, TypeOK
  <2>2. RequestsOK'
    BY <1>0, <1>13, Moves DEF Greet, RequestsOK
  <2>3. LockHeld'
    BY <1>0, <1>13, Moves DEF Greet, LockHeld, AttemptsLeft
  <2>4. QED
    BY <1>13, <2>1, <2>2, <2>3, QuietStep DEF Greet
<1>14. ASSUME NEW p \in Procs, ExpireRateFails(p) \/ Abandon(p)
       PROVE  Core'
  <2>1. Finish(p) /\ UNCHANGED <<now, otps, issued, phoneVerified, logins, rate, firstTime>>
    BY <1>14 DEF ExpireRateFails, Abandon
  <2>2. TypeOK'
    BY <1>0, <2>1, ReqTypes DEF TypeOK
  <2>3. RequestsOK'
    BY <1>0, <2>1, Moves DEF RequestsOK
  <2>4. LockHeld'
    BY <1>0, <2>1, Moves DEF LockHeld, AttemptsLeft
  <2>5. QED
    BY <2>1, <2>2, <2>3, <2>4, QuietStep
<1>15. CASE Tick
  <2>1. TypeOK'
    BY <1>0, <1>15 DEF Tick, NoCounter, TypeOK
  <2>2. RequestsOK' /\ LockHeld'
    BY <1>0, <1>15 DEF Tick, RequestsOK, LockHeld, AttemptsLeft
  <2>3. QED
    BY <1>15, <2>1, <2>2, QuietStep DEF Tick
<1>16. CASE UNCHANGED vars
  BY <1>0, <1>16 DEF vars, Core, TypeOK, RowsIssued, RequestsOK, LockHeld, AttemptsLeft,
                     LoginIsAtomic, VerifiedRows
<1>17. QED
  BY <1>1, <1>2, <1>3, <1>4, <1>5, <1>6, <1>7, <1>8, <1>9, <1>10, <1>11, <1>12,
     <1>13, <1>14, <1>15, <1>16
     DEF Next, Step, SendRefused, VerifyRefused

\* Every variable keeps its type, and with it the facts about rows, requests
\* and locks that the other theorems build on.
THEOREM CoreInvariant == Spec => []Core
<1>1. QED
  BY CoreInit, CoreStep, PTL DEF Spec

\* The variables keep their types; attempts and resend_count stay within their
\* CHECKs (migration 000003), for any number of requests.
THEOREM TypeCorrect == Spec => []TypeOK
<1>1. Core => TypeOK
  BY DEF Core
<1>2. QED
  BY <1>1, CoreInvariant, PTL

\* Row and session are written together, or neither is (LoginIsAtomic).
THEOREM LoginAtomicity == Spec => []LoginIsAtomic
<1>1. Core => LoginIsAtomic
  BY DEF Core
<1>2. QED
  BY <1>1, CoreInvariant, PTL

-----------------------------------------------------------------------------
(* The attempts column implements the budget *)

\* The statements that write otp_requests or sessions.
LEMMA WritersOnly ==
    ASSUME [Next]_vars
    PROVE  \/ UNCHANGED <<otps, logins>>
           \/ \E p \in Procs : \/ CountResend(p) \/ CreateRow(p) \/ CountAttempt(p)
                               \/ BlockRow(p) \/ CommitLogin(p)
<1>1. CASE UNCHANGED vars
  BY <1>1 DEF vars
<1>2. CASE Tick
  BY <1>2 DEF Tick
<1>3. ASSUME NEW p \in Procs,
             \/ \E a \in Accounts, d \in Devices :
                  \/ SendCheck(p, a, d)
                  \/ SendRefused(p, a)
                  \/ VerifyRefused(p, a, d)
                  \/ \E match \in BOOLEAN : VerifyRead(p, a, d, match)
             \/ ExpireRateFails(p)
             \/ Abandon(p)
      PROVE  UNCHANGED <<otps, logins>>
  BY <1>3 DEF SendCheck, SendRefused, VerifyRefused, VerifyRead, ExpireRateFails,
              Abandon, vars
<1>4. ASSUME NEW p \in Procs, Step(p)
      PROVE  \/ UNCHANGED <<otps, logins>>
             \/ CountResend(p) \/ CreateRow(p) \/ CountAttempt(p)
             \/ BlockRow(p) \/ CommitLogin(p)
  BY <1>4 DEF Step, FindNone, FindActive, ChargeRate, ExpireRate, MarkVerified, Greet
<1>5. QED
  BY <1>1, <1>2, <1>3, <1>4 DEF Next

\* The statements that write the clock, the answers and the counters.
LEMMA OtherWriters ==
    ASSUME [Next]_vars
    PROVE  /\ now' = now \/ Tick
           /\ UNCHANGED firstTime \/ \E p \in Procs : Greet(p)
           /\ UNCHANGED rate \/ Tick \/ \E p \in Procs : ChargeRate(p) \/ ExpireRate(p)
<1>1. CASE UNCHANGED vars
  BY <1>1 DEF vars
<1>2. CASE Tick
  BY <1>2 DEF Tick
<1>3. ASSUME NEW p \in Procs,
             \/ \E a \in Accounts, d \in Devices :
                  \/ SendCheck(p, a, d)
                  \/ SendRefused(p, a)
                  \/ VerifyRefused(p, a, d)
                  \/ \E match \in BOOLEAN : VerifyRead(p, a, d, match)
             \/ ExpireRateFails(p)
             \/ Abandon(p)
      PROVE  UNCHANGED <<now, firstTime, rate>>
  BY <1>3 DEF SendCheck, SendRefused, VerifyRefused, VerifyRead, ExpireRateFails,
              Abandon, vars
<1>4. ASSUME NEW p \in Procs, Step(p)
      PROVE  /\ now' = now
             /\ UNCHANGED firstTime \/ Greet(p)
             /\ UNCHANGED rate \/ ChargeRate(p) \/ ExpireRate(p)
  BY <1>4 DEF Step, FindNone, FindActive, CountResend, CreateRow, ChargeRate, ExpireRate,
              CountAttempt, BlockRow, MarkVerified, CommitLogin, Greet
<1>5. QED
  BY <1>1, <1>2, <1>3, <1>4 DEF Next

\* Every step moves attempts and logins of a row the way the budget allows.
LEMMA AttemptsStep ==
    ASSUME Core, [Next]_vars
    PROVE  \/ \A r \in RowId : /\ otps'[r].attempts = otps[r].attempts
                               /\ logins'[r] = logins[r]
           \/ \E k \in RowId :
                /\ otps[k].attempts < AttemptsCheck
                /\ otps'[k].attempts = otps[k].attempts + 1
                /\ logins'[k] = logins[k] \/ logins'[k] = logins[k] + 1
                /\ \A r \in RowId : r # k => /\ otps'[r].attempts = otps[r].attempts
                                            /\ logins'[r] = logins[r]
<1> USE DEF SendSteps, BeforeCreate, VerifySteps, RowSteps
<1>0. TypeOK /\ RowsIssued /\ LockHeld
  BY DEF Core
<1>1. ASSUME NEW p \in Procs, CountResend(p)
      PROVE  \A r \in RowId : /\ otps'[r].attempts = otps[r].attempts
                             /\ logins'[r] = logins[r]
  BY <1>0, <1>1 DEF CountResend, TypeOK, OTPRow
<1>2. ASSUME NEW p \in Procs, CreateRow(p)
      PROVE  \A r \in RowId : /\ otps'[r].attempts = otps[r].attempts
                             /\ logins'[r] = logins[r]
  BY <1>0, <1>2, ParamAssumption DEF CreateRow, TypeOK, RowsIssued, RowId, NoRow
<1>3. ASSUME NEW p \in Procs, CountAttempt(p)
      PROVE  \/ UNCHANGED <<otps, logins>>
             \/ \E k \in RowId :
                  /\ otps[k].attempts < AttemptsCheck
                  /\ otps'[k].attempts = otps[k].attempts + 1
                  /\ logins'[k] = logins[k]
                  /\ \A r \in RowId : r # k => /\ otps'[r].attempts = otps[r].attempts
                                              /\ logins'[r] = logins[r]
  <2>1. req[p].otp \in RowId
    BY <1>3, RowAtHand DEF CountAttempt
  <2>2. QED
    BY <1>0, <1>3, <2>1 DEF CountAttempt, AttemptsLeft, TypeOK, OTPRow
<1>4. ASSUME NEW p \in Procs, BlockRow(p)
      PROVE  \A r \in RowId : /\ otps'[r].attempts = otps[r].attempts
                             /\ logins'[r] = logins[r]
  BY <1>0, <1>4 DEF BlockRow, TypeOK, OTPRow
<1>5. ASSUME NEW p \in Procs, CommitLogin(p)
      PROVE  \E k \in RowId :
                  /\ otps[k].attempts < AttemptsCheck
                  /\ otps'[k].attempts = otps[k].attempts + 1
                  /\ logins'[k] = logins[k] + 1
                  /\ \A r \in RowId : r # k => /\ otps'[r].attempts = otps[r].attempts
                                              /\ logins'[r] = logins[r]
  <2>1. req[p].otp \in RowId
    BY <1>5, RowAtHand DEF CommitLogin
  <2>2. otps[req[p].otp] \in OTPRow /\ otps[req[p].otp].attempts < AttemptsCheck
    BY <1>0, <1>5, <2>1 DEF CommitLogin, TypeOK, LockHeld, AttemptsLeft
  <2>3. QED
    BY <1>0, <1>5, <2>1, <2>2, RedeemedRow DEF CommitLogin, TypeOK
<1>6. CASE UNCHANGED <<otps, logins>>
  BY <1>6
<1>7. \/ UNCHANGED <<otps, logins>>
      \/ \E p \in Procs : \/ CountResend(p) \/ CreateRow(p) \/ CountAttempt(p)
                          \/ BlockRow(p) \/ CommitLogin(p)
  BY WritersOnly
<1>8. QED
  BY <1>1, <1>2, <1>3, <1>4, <1>5, <1>6, <1>7

\* PhoneOTP implements AttemptBudget: whatever snapshots the requests act on, a
\* code takes MaxAttempts answers and none after that (ImplementsBudget).
THEOREM BudgetRefinement == Spec => ImplementsBudget
<1> DEFINE spent == [r \in RowId |-> otps[r].attempts - logins[r]]
<1>1. Init => Budget!Init
  BY DEF Init, Budget!Init, NoRow
<1>2. Core /\ [Next]_vars => [Budget!Next]_(Budget!vars)
  <2> SUFFICES ASSUME Core, [Next]_vars PROVE [Budget!Next]_(Budget!vars)
    OBVIOUS
  <2>1. /\ logins \in [RowId -> Nat] /\ logins' \in [RowId -> Nat]
        /\ \A r \in RowId : otps[r].attempts \in Nat /\ otps'[r].attempts \in Nat
    <3>1. Core'
      BY CoreStep
    <3>2. \A r \in RowId : otps'[r].attempts \in 0 .. AttemptsCheck
      BY <3>1 DEF Core, TypeOK, OTPRow
    <3>3. QED
      BY <3>1, <3>2, Fields, ParamAssumption DEF Core, TypeOK
  <2>2. CASE \A r \in RowId : /\ otps'[r].attempts = otps[r].attempts
                             /\ logins'[r] = logins[r]
    <3>1. logins' = logins /\ spent' = spent
      BY <2>1, <2>2
    <3>2. QED
      BY <3>1 DEF Budget!vars
  <2>3. ASSUME NEW k \in RowId,
               otps[k].attempts < AttemptsCheck,
               otps'[k].attempts = otps[k].attempts + 1,
               logins'[k] = logins[k] \/ logins'[k] = logins[k] + 1,
               \A r \in RowId : r # k => /\ otps'[r].attempts = otps[r].attempts
                                       /\ logins'[r] = logins[r]
        PROVE  Budget!Next
    <3>1. ~Budget!Exhausted(k)
      BY <2>1, <2>3, ParamAssumption DEF Budget!Exhausted
    <3>2. CASE logins'[k] = logins[k]
      <4>1. logins' = logins
        BY <2>1, <2>3, <3>2
      <4>2. /\ otps'[k].attempts - logins'[k] = (otps[k].attempts - logins[k]) + 1
            /\ \A r \in RowId : r # k => otps'[r].attempts - logins'[r]
                                       = otps[r].attempts - logins[r]
        BY <2>1, <2>3, <3>2
      <4>3. spent' = [spent EXCEPT ![k] = @ + 1]
        BY <4>2
      <4>4. QED
        BY <3>1, <4>1, <4>3 DEF Budget!Next, Budget!Spend
    <3>3. CASE logins'[k] = logins[k] + 1
      <4>1. logins' = [logins EXCEPT ![k] = @ + 1]
        BY <2>1, <2>3, <3>3
      <4>2. spent' = spent
        BY <2>1, <2>3, <3>3
      <4>3. QED
        BY <3>1, <4>1, <4>2 DEF Budget!Next, Budget!Redeem
    <3>4. QED
      BY <2>3, <3>2, <3>3
  <2>4. QED
    BY <2>2, <2>3, AttemptsStep
<1>3. QED
  BY <1>1, <1>2, CoreInvariant, PTL DEF ImplementsBudget, Budget!Spec, Spec

-----------------------------------------------------------------------------
(* Who a login is for *)

\* A row keeps its account, its device and its lifetime, and stays verified.
LEMMA RowKeeps ==
    ASSUME Core, [Next]_vars, NEW r \in RowId, r <= issued
    PROVE  /\ otps'[r].user = otps[r].user
           /\ otps'[r].device = otps[r].device
           /\ otps'[r].expiresAt = otps[r].expiresAt
           /\ otps[r].verified => otps'[r].verified
<1> USE DEF SendSteps, BeforeCreate, VerifySteps, RowSteps
<1>0. TypeOK /\ LockHeld
  BY DEF Core
<1> DEFINE Kept == /\ otps'[r].user = otps[r].user
                   /\ otps'[r].device = otps[r].device
                   /\ otps'[r].expiresAt = otps[r].expiresAt
                   /\ otps'[r].verified = otps[r].verified
<1>1. ASSUME NEW p \in Procs, CountResend(p) \/ CountAttempt(p) \/ BlockRow(p)
      PROVE  Kept
  <2>1. CASE CountResend(p)
    BY <1>0, <2>1 DEF CountResend, TypeOK, OTPRow
  <2>2. CASE CountAttempt(p)
    BY <1>0, <2>2 DEF CountAttempt, TypeOK, OTPRow
  <2>3. CASE BlockRow(p)
    BY <1>0, <2>3 DEF BlockRow, TypeOK, OTPRow
  <2>4. QED
    BY <1>1, <2>1, <2>2, <2>3
<1>2. ASSUME NEW p \in Procs, CreateRow(p)
      PROVE  otps'[r] = otps[r]
  BY <1>0, <1>2 DEF CreateRow, TypeOK, RowId
<1>3. ASSUME NEW p \in Procs, CommitLogin(p)
      PROVE  /\ otps'[r].user = otps[r].user
             /\ otps'[r].device = otps[r].device
             /\ otps'[r].expiresAt = otps[r].expiresAt
             /\ otps'[r].verified = TRUE \/ otps'[r] = otps[r]
  <2>1. req[p].otp \in RowId
    BY <1>3, RowAtHand DEF CommitLogin
  <2>2. otps[req[p].otp] \in OTPRow /\ otps[req[p].otp].attempts < AttemptsCheck
    BY <1>0, <1>3, <2>1 DEF CommitLogin, TypeOK, LockHeld, AttemptsLeft
  <2>3. QED
    BY <1>0, <1>3, <2>1, <2>2, RedeemedRow DEF CommitLogin, TypeOK
<1>4. QED
  BY <1>1, <1>2, <1>3, WritersOnly

\* How the request p of a step came to its next statement: from idle with the
\* row VerifyRead found, or with the row it already had.
LEMMA AnswerMoves ==
    ASSUME Core, [Next]_vars, NEW p \in Procs, req'[p].pc \in VerifySteps
    PROVE  \/ /\ req[p].pc \in VerifySteps
              /\ req'[p].account = req[p].account
              /\ req'[p].device = req[p].device
              /\ req'[p].otp = req[p].otp
              /\ req'[p].at = req[p].at
              /\ req[p].pc \in {"mark", "commit", "greet"}
                   \/ req'[p].pc \in {"count", "block"}
              /\ req'[p].pc = "greet" => req[p].pc = "greet" \/ CommitLogin(p)
              /\ req'[p].pc \in {"count", "block"} => req[p].pc \in {"count", "block"}
           \/ /\ req'[p].otp \in RowId
              /\ otps[req'[p].otp].user = req'[p].account
              /\ otps[req'[p].otp].device = req'[p].device
              /\ req'[p].account \in Accounts
              /\ req'[p].at = now
              /\ req'[p].pc # "greet"
              /\ UNCHANGED <<now, otps, issued>>
<1> USE DEF SendSteps, BeforeCreate, VerifySteps, RowSteps
<1> DEFINE Same(q) == /\ req'[q].account = req[q].account
                      /\ req'[q].device = req[q].device
                      /\ req'[q].otp = req[q].otp
                      /\ req'[q].at = req[q].at
<1>0. TypeOK
  BY DEF Core
<1>1. CASE req'[p] = req[p]
  BY <1>1
<1>2. CASE req'[p] # req[p]
  <2>1. PICK q \in Procs :
          \/ \E a \in Accounts, d \in Devices :
               \/ SendCheck(q, a, d)
               \/ \E match \in BOOLEAN : VerifyRead(q, a, d, match)
          \/ Step(q) \/ ExpireRateFails(q) \/ Abandon(q)
    BY <1>2 DEF Next, SendRefused, VerifyRefused, Tick, vars
  <2>2. CASE \E a \in Accounts, d \in Devices : SendCheck(q, a, d)
    BY <1>0, <1>2, <2>2, Moves DEF SendCheck
  <2>3. CASE \E a \in Accounts, d \in Devices, match \in BOOLEAN : VerifyRead(q, a, d, match)
    <3>1. PICK a \in Accounts, d \in Devices, match \in BOOLEAN : VerifyRead(q, a, d, match)
      BY <2>3
    <3>2. PICK r \in RowId, s \in {"block", "count", "mark"} :
             /\ Read(q, s, a, d, r, otps[r].attempts, now)
             /\ otps[r].user = a
             /\ otps[r].device = d
      BY <3>1 DEF VerifyRead, IsLatest, Unverified
    <3>3. UNCHANGED <<now, otps, issued>>
      BY <3>1 DEF VerifyRead
    <3>4. QED
      BY <1>0, <1>2, <3>2, <3>3, Moves
  <2>4. CASE FindNone(q) \/ FindActive(q) \/ CountResend(q) \/ CreateRow(q)
    <3>1. Goto(q, "create") \/ Goto(q, "charge") \/ Finish(q)
            \/ \E r \in RowId : Read(q, "resend", req[q].account, req[q].device, r, 0, 0)
      BY <2>4 DEF FindNone, FindActive, CountResend, CreateRow
    <3>2. QED
      BY <1>0, <1>2, <3>1, Moves
  <2>5. CASE ChargeRate(q) \/ ExpireRate(q) \/ ExpireRateFails(q) \/ Abandon(q) \/ Greet(q)
               \/ BlockRow(q)
    <3>1. Goto(q, "expire") \/ Finish(q)
      BY <2>5 DEF ChargeRate, ExpireRate, ExpireRateFails, Abandon, Greet, BlockRow
    <3>2. QED
      BY <1>0, <1>2, <3>1, Moves
  <2>6. CASE CountAttempt(q)
    <3>1. req[q].pc = "count" /\ (Goto(q, "block") \/ Finish(q))
      BY <2>6 DEF CountAttempt
    <3>2. QED
      BY <1>0, <1>2, <3>1, Moves
  <2>7. CASE MarkVerified(q)
    <3>1. req[q].pc = "mark" /\ (Goto(q, "commit") \/ Finish(q))
      BY <2>7 DEF MarkVerified
    <3>2. QED
      BY <1>0, <1>2, <3>1, Moves
  <2>8. CASE CommitLogin(q)
    <3>1. req[q].pc = "commit" /\ Goto(q, "greet")
      BY <2>8 DEF CommitLogin
    <3>2. p = q
      BY <1>0, <1>2, <3>1, Moves
    <3>3. QED
      BY <1>0, <2>8, <3>1, <3>2, Moves
  <2>9. QED
    BY <2>1, <2>2, <2>3, <2>4, <2>5, <2>6, <2>7, <2>8 DEF Step
<1>3. QED
  BY <1>1, <1>2

\* A login goes to the account and the device the request asked for.
THEOREM LoginMatches == Spec => []LoginMatchesRequest
<1>1. Init => LoginMatchesRequest
  BY DEF Init, LoginMatchesRequest, Idle
<1>2. Core /\ LoginMatchesRequest /\ [Next]_vars => LoginMatchesRequest'
  <2> SUFFICES ASSUME Core, LoginMatchesRequest, [Next]_vars, NEW p \in Procs,
                      req'[p].pc \in {"mark", "commit", "greet"}
               PROVE  /\ otps'[req'[p].otp].user = req'[p].account
                      /\ otps'[req'[p].otp].device = req'[p].device
    BY DEF LoginMatchesRequest
  <2>1. \/ /\ req[p].pc \in {"mark", "commit", "greet"}
           /\ req'[p].account = req[p].account
           /\ req'[p].device = req[p].device
           /\ req'[p].otp = req[p].otp
        \/ /\ otps[req'[p].otp].user = req'[p].account
           /\ otps[req'[p].otp].device = req'[p].device
           /\ UNCHANGED otps
    BY AnswerMoves DEF VerifySteps
  <2>2. req[p].pc \in {"mark", "commit", "greet"} =>
            req[p].otp \in RowId /\ req[p].otp <= issued
    BY RowAtHand DEF RowSteps, VerifySteps
  <2>3. QED
    BY <2>1, <2>2, RowKeeps DEF LoginMatchesRequest
<1>3. QED
  BY <1>1, <1>2, CoreInvariant, PTL DEF Spec

-----------------------------------------------------------------------------
(* Who is told that this was the first login *)

\* CountVerifiedOTPs counts a finite set.
LEMMA VerifiedFinite == \A a : IsFiniteSet(VerifiedRows(a))
<1>1. IsFiniteSet(RowId)
  BY FS_Interval, ParamAssumption DEF RowId
<1>2. QED
  BY <1>1, FS_Subset DEF VerifiedRows

\* Logins told "first time" all redeemed one code of the account.
THEOREM OneFirstTime == Spec => []OneFirstTimeCode
<1> DEFINE Inv == FirstTimeVerified /\ OneFirstTimeCode
<1>1. Init => Inv
  BY DEF Init, FirstTimeVerified, OneFirstTimeCode, Idle
<1>2. Core /\ Inv /\ [Next]_vars => Inv'
  <2> SUFFICES ASSUME Core, Inv, [Next]_vars PROVE Inv'
    OBVIOUS
  <2>0. TypeOK
    BY DEF Core
  <2>1. \A a : VerifiedRows(a) \subseteq VerifiedRows(a)'
    <3> SUFFICES ASSUME NEW a, NEW r \in RowId, otps[r].user = a, otps[r].verified
                 PROVE  otps'[r].user = a /\ otps'[r].verified
      BY DEF VerifiedRows
    <3>1. r <= issued
      BY <2>0, ParamAssumption DEF Core, RowsIssued, NoRow, RowId, TypeOK
    <3>2. QED
      BY <3>1, RowKeeps
  <2>2. ASSUME NEW p \in Procs, req'[p].pc = "greet"
        PROVE  otps'[req'[p].otp].verified
    <3>1. \/ req[p].pc = "greet" /\ req'[p].otp = req[p].otp
          \/ CommitLogin(p) /\ req'[p].otp = req[p].otp
      BY <2>2, AnswerMoves DEF VerifySteps
    <3>2. CASE req[p].pc = "greet" /\ req'[p].otp = req[p].otp
      BY <3>2, RowAtHand, RowKeeps DEF FirstTimeVerified, RowSteps, VerifySteps
    <3>3. CASE CommitLogin(p) /\ req'[p].otp = req[p].otp
      <4>1. req[p].otp \in RowId
        BY <3>3, RowAtHand DEF CommitLogin, RowSteps, VerifySteps
      <4>2. otps[req[p].otp] \in OTPRow /\ otps[req[p].otp].attempts < AttemptsCheck
        BY <2>0, <3>3, <4>1 DEF Core, CommitLogin, TypeOK, LockHeld, AttemptsLeft
      <4>3. QED
        BY <2>0, <3>3, <4>1, <4>2, RedeemedRow DEF CommitLogin, TypeOK
    <3>4. QED
      BY <3>1, <3>2, <3>3
  <2>3. CASE UNCHANGED firstTime
    BY <2>1, <2>2, <2>3 DEF FirstTimeVerified, OneFirstTimeCode
  <2>4. ASSUME NEW p \in Procs, Greet(p)
        PROVE  Inv'
    <3> DEFINE r == req[p].otp
    <3> DEFINE a == otps[r].user
    <3>1. r \in RowId /\ r <= issued
      BY <2>4, RowAtHand DEF Greet, RowSteps, VerifySteps
    <3>2. r \in VerifiedRows(a) /\ a \in Accounts
      BY <2>4, <3>1 DEF Greet, FirstTimeVerified, VerifiedRows, Core, RowsIssued
    <3>3. CASE Cardinality(VerifiedRows(a)) = 1
      <4>1. VerifiedRows(a) = {r}
        BY <3>2, <3>3, VerifiedFinite, FS_Singleton
      <4>2. firstTime'[a] = {r} /\ \A b \in Accounts : b # a => firstTime'[b] = firstTime[b]
        BY <2>0, <2>4, <3>2, <3>3, <4>1 DEF Greet, TypeOK, FirstTimeVerified
      <4>3. \A b \in Accounts : firstTime'[b] \subseteq VerifiedRows(b)
        BY <3>2, <4>2 DEF FirstTimeVerified
      <4>4. QED
        BY <2>1, <2>2, <4>2, <4>3 DEF FirstTimeVerified, OneFirstTimeCode
    <3>4. CASE Cardinality(VerifiedRows(a)) # 1
      BY <2>3, <2>4, <3>4 DEF Greet
    <3>5. QED
      BY <3>3, <3>4
  <2>5. UNCHANGED firstTime \/ \E p \in Procs : Greet(p)
    BY OtherWriters
  <2>6. QED
    BY <2>3, <2>4, <2>5
<1>3. Inv => OneFirstTimeCode
  OBVIOUS
<1>4. QED
  BY <1>1, <1>2, <1>3, CoreInvariant, PTL DEF Spec

-----------------------------------------------------------------------------
(* Blocks *)

\* A block ends after the code it protects has expired.
THEOREM BlockOutlives == Spec => []BlockOutlivesCode
<1> DEFINE Inv == ReadAfterIssue /\ BlockOutlivesCode
<1>1. Init => Inv
  BY ParamAssumption DEF Init, ReadAfterIssue, BlockOutlivesCode, Idle, NoRow
<1>2. Core /\ Inv /\ [Next]_vars => Inv'
  <2> SUFFICES ASSUME Core, Inv, [Next]_vars PROVE Inv'
    OBVIOUS
  <2>0. TypeOK /\ TypeOK'
    BY CoreStep DEF Core
  <2>1. now' >= now /\ now \in Nat /\ now' \in Nat
    BY <2>0, OtherWriters DEF TypeOK, Tick
  <2>2. ASSUME NEW r \in RowId
        PROVE  otps'[r].expiresAt <= now' + OTPTTL
    <3>1. otps[r].expiresAt <= now' + OTPTTL
      BY <2>0, <2>1, Fields, ParamAssumption DEF ReadAfterIssue
    <3>2. CASE r <= issued
      BY <3>1, <3>2, RowKeeps
    <3>3. CASE otps'[r].expiresAt = otps[r].expiresAt
      BY <3>1, <3>3
    <3>4. CASE \E p \in Procs : CreateRow(p)
      <4>1. PICK p \in Procs : CreateRow(p)
        BY <3>4
      <4>2. CASE r = issued + 1
        <5>1. otps'[r].expiresAt = now + OTPTTL
          BY <2>0, <4>1, <4>2 DEF CreateRow, TypeOK
        <5>2. now' = now /\ now \in Nat /\ OTPTTL \in Nat
          BY <2>1, <4>1, ParamAssumption DEF CreateRow
        <5>3. now + OTPTTL <= now' + OTPTTL
          BY <5>2
        <5>4. QED
          BY <5>1, <5>3
      <4>3. CASE r # issued + 1
        BY <2>0, <3>1, <4>1, <4>3 DEF CreateRow, TypeOK
      <4>4. QED
        BY <4>2, <4>3
    <3>5. CASE \E p \in Procs : CountResend(p) \/ CountAttempt(p) \/ BlockRow(p)
                                \/ CommitLogin(p)
      <4>1. PICK p \in Procs : CountResend(p) \/ CountAttempt(p) \/ BlockRow(p)
                                 \/ CommitLogin(p)
        BY <3>5
      <4>2. req[p].otp \in RowId /\ req[p].otp <= issued /\ issued \in Nat
        BY <4>1, RowAtHand DEF CountResend, CountAttempt, BlockRow, CommitLogin,
                               RowSteps, VerifySteps
      <4>3. CASE r = req[p].otp
        BY <4>2, <4>3, <3>2
      <4>4. CASE r # req[p].otp
        BY <2>0, <3>1, <4>1, <4>2, <4>4
           DEF CountResend, CountAttempt, BlockRow, CommitLogin, TypeOK
      <4>5. QED
        BY <4>3, <4>4
    <3>6. QED
      BY <3>3, <3>4, <3>5, WritersOnly
  <2>3. ASSUME NEW p \in Procs, req'[p].pc \in {"count", "block"}
        PROVE  otps'[req'[p].otp].expiresAt <= req'[p].at + OTPTTL
    <3>1. CASE /\ req[p].pc \in {"count", "block"}
               /\ req'[p].otp = req[p].otp
               /\ req'[p].at = req[p].at
      BY <3>1, RowAtHand, RowKeeps DEF ReadAfterIssue, RowSteps, VerifySteps
    <3>2. CASE /\ req'[p].otp \in RowId
               /\ req'[p].at = now
               /\ UNCHANGED otps
      BY <3>2 DEF ReadAfterIssue
    <3>3. QED
      BY <2>3, <3>1, <3>2, AnswerMoves DEF VerifySteps
  <2>4. ReadAfterIssue'
    BY <2>2, <2>3 DEF ReadAfterIssue
  <2>5. BlockOutlivesCode'
    <3> SUFFICES ASSUME NEW r \in RowId, otps'[r].blockedUntil # 0
                 PROVE  otps'[r].blockedUntil >= otps'[r].expiresAt
      BY DEF BlockOutlivesCode
    <3>1. CASE UNCHANGED otps
      BY <3>1 DEF BlockOutlivesCode
    <3>2. ASSUME NEW p \in Procs, CountResend(p) \/ CountAttempt(p)
          PROVE  /\ otps'[r].blockedUntil = otps[r].blockedUntil
                 /\ otps'[r].expiresAt = otps[r].expiresAt
      <4>1. CASE CountResend(p)
        BY <2>0, <4>1 DEF CountResend, TypeOK, OTPRow
      <4>2. CASE CountAttempt(p)
        BY <2>0, <4>2 DEF CountAttempt, TypeOK, OTPRow
      <4>3. QED
        BY <3>2, <4>1, <4>2
    <3>3. ASSUME NEW p \in Procs, CreateRow(p)
          PROVE  otps'[r].blockedUntil = 0 \/ otps'[r] = otps[r]
      BY <2>0, <3>3 DEF CreateRow, TypeOK
    <3>4. ASSUME NEW p \in Procs, BlockRow(p)
          PROVE  \/ otps'[r] = otps[r]
                 \/ otps'[r].blockedUntil >= otps'[r].expiresAt
      <4>1. req[p].otp \in RowId
        BY <3>4, RowAtHand DEF BlockRow, RowSteps, VerifySteps
      <4>2. /\ otps[req[p].otp].expiresAt <= req[p].at + OTPTTL
            /\ otps[req[p].otp].expiresAt \in Nat /\ req[p].at \in Nat
        BY <2>0, <3>4, <4>1, Fields DEF BlockRow, ReadAfterIssue
      <4>3. req[p].at + BlockedWindow >= otps[req[p].otp].expiresAt
        BY <4>2, ParamAssumption, WindowAssumption
      <4>4. QED
        BY <2>0, <3>4, <4>1, <4>3 DEF BlockRow, TypeOK, OTPRow
    <3>5. ASSUME NEW p \in Procs, CommitLogin(p)
          PROVE  /\ otps'[r].blockedUntil = otps[r].blockedUntil
                 /\ otps'[r].expiresAt = otps[r].expiresAt
      <4>1. req[p].otp \in RowId
        BY <3>5, RowAtHand DEF CommitLogin, RowSteps, VerifySteps
      <4>2. otps[req[p].otp] \in OTPRow /\ otps[req[p].otp].attempts < AttemptsCheck
        BY <2>0, <3>5, <4>1 DEF Core, CommitLogin, TypeOK, LockHeld, AttemptsLeft
      <4>3. QED
        BY <2>0, <3>5, <4>1, <4>2, RedeemedRow DEF CommitLogin, TypeOK
    <3>6. QED
      BY <3>1, <3>2, <3>3, <3>4, <3>5, WritersOnly DEF BlockOutlivesCode
  <2>6. QED
    BY <2>4, <2>5
<1>3. Inv => BlockOutlivesCode
  OBVIOUS
<1>4. QED
  BY <1>1, <1>2, <1>3, CoreInvariant, PTL DEF Spec

-----------------------------------------------------------------------------
(* The send counter *)

\* No more requests can be about to charge an account than there are.
LEMMA SendingFinite ==
    \A a : IsFiniteSet(Sending(a)) /\ Cardinality(Sending(a)) \in Nat
           /\ Cardinality(Sending(a)) <= Cardinality(Procs)
           /\ Cardinality(Procs) \in Nat
<1>1. \A a : Sending(a) \subseteq Procs
  BY DEF Sending
<1>2. QED
  BY <1>1, SetAssumption, FS_Subset, FS_CardinalityType

\* A request joins the senders by its rate check only.
LEMMA JoinSenders ==
    ASSUME Core, [Next]_vars, NEW a \in Accounts, rate[a].count >= MaxRate
    PROVE  Sending(a)' \subseteq Sending(a)
<1> USE DEF BeforeCreate
<1> SUFFICES ASSUME NEW p \in Procs, req'[p].pc \in BeforeCreate \cup {"charge"},
                    req'[p].account = a
             PROVE  req[p].pc \in BeforeCreate \cup {"charge"} /\ req[p].account = a
  BY DEF Sending
<1>0. TypeOK
  BY DEF Core
<1>1. CASE req'[p] = req[p]
  BY <1>1
<1>2. CASE req'[p] # req[p]
  <2>1. PICK q \in Procs :
          \/ \E b \in Accounts, d \in Devices :
               \/ SendCheck(q, b, d)
               \/ \E match \in BOOLEAN : VerifyRead(q, b, d, match)
          \/ Step(q) \/ ExpireRateFails(q) \/ Abandon(q)
    BY <1>2 DEF Next, SendRefused, VerifyRefused, Tick, vars
  <2>2. ASSUME NEW b \in Accounts, NEW d \in Devices, SendCheck(q, b, d)
        PROVE  FALSE
    <3>1. Read(q, "find", b, d, 0, 0, 0) /\ rate[b].count < MaxRate
      BY <2>2 DEF SendCheck, RateOpen
    <3>2. b = a
      BY <1>0, <1>2, <3>1, Moves
    <3>3. QED
      BY <1>0, <3>1, <3>2, Fields, ParamAssumption
  <2>3. ASSUME NEW b \in Accounts, NEW d \in Devices, NEW match \in BOOLEAN,
               VerifyRead(q, b, d, match)
        PROVE  FALSE
    <3>1. PICK r \in RowId, s \in {"block", "count", "mark"} :
             Read(q, s, b, d, r, otps[r].attempts, now)
      BY <2>3 DEF VerifyRead
    <3>2. QED
      BY <1>0, <1>2, <3>1, Moves
  <2>4. CASE FindNone(q) \/ FindActive(q) \/ CountResend(q) \/ CreateRow(q)
    <3>1. /\ req[q].pc \in BeforeCreate
          /\ \/ Goto(q, "create") \/ Goto(q, "charge") \/ Finish(q)
             \/ \E r \in RowId : Read(q, "resend", req[q].account, req[q].device, r, 0, 0)
      BY <2>4 DEF FindNone, FindActive, CountResend, CreateRow
    <3>2. QED
      BY <1>0, <1>2, <3>1, Moves
  <2>5. CASE \/ ChargeRate(q) \/ ExpireRate(q) \/ ExpireRateFails(q) \/ Abandon(q)
             \/ CountAttempt(q) \/ BlockRow(q) \/ MarkVerified(q) \/ CommitLogin(q)
             \/ Greet(q)
    <3>1. \/ Finish(q)
          \/ \E s \in {"expire", "block", "commit", "greet"} : Goto(q, s)
      BY <2>5 DEF ChargeRate, ExpireRate, ExpireRateFails, Abandon, CountAttempt,
                  BlockRow, MarkVerified, CommitLogin, Greet
    <3>2. QED
      BY <1>0, <1>2, <3>1, Moves
  <2>6. QED
    BY <2>1, <2>2, <2>3, <2>4, <2>5 DEF Step
<1>3. QED
  BY <1>1, <1>2

\* The counter of a (phone, role) never exceeds its limit by more than the
\* requests that can be in progress besides one.
THEOREM RateOvershoot == Spec => []RateOvershootBounded
<1> DEFINE Room == MaxRate - 1 + Cardinality(Procs)
<1>0. Room \in Int /\ Cardinality(Procs) \in Nat /\ MaxRate \in Nat /\ MaxRate >= 1
  BY SendingFinite, ParamAssumption
<1>1. Init => RateBudget
  <2> SUFFICES ASSUME Init, NEW a \in Accounts
               PROVE  rate[a].count + Cardinality(Sending(a)) <= Room
    BY DEF RateBudget
  <2>1. rate[a].count = 0
    BY DEF Init, NoCounter
  <2>2. QED
    BY <1>0, <2>1, SendingFinite
<1>2. Core /\ RateBudget /\ [Next]_vars => RateBudget'
  <2> SUFFICES ASSUME Core, RateBudget, [Next]_vars, NEW a \in Accounts
               PROVE  rate'[a].count + Cardinality(Sending(a)') <= Room
    BY DEF RateBudget
  <2> DEFINE n == Cardinality(Sending(a))
  <2> DEFINE m == Cardinality(Sending(a)')
  <2>0. TypeOK /\ TypeOK'
    BY CoreStep DEF Core
  <2>1. /\ IsFiniteSet(Sending(a)) /\ n \in Nat
        /\ IsFiniteSet(Sending(a)') /\ m \in Nat /\ m <= Cardinality(Procs)
    <3>1. Sending(a)' \subseteq Procs
      BY DEF Sending
    <3>2. QED
      BY <3>1, SendingFinite, SetAssumption, FS_Subset, FS_CardinalityType
  <2>2. rate[a].count \in Nat /\ rate'[a].count \in Nat
    BY <2>0 DEF TypeOK
  <2>3. rate[a].count + n <= Room
    BY DEF RateBudget
  <2>4. CASE rate'[a].count < MaxRate
    BY <1>0, <2>1, <2>2, <2>4
  <2>5. CASE rate'[a].count >= MaxRate /\ rate'[a].count = rate[a].count
    <3>1. Sending(a)' \subseteq Sending(a)
      BY <2>5, JoinSenders
    <3>2. m <= n
      BY <2>1, <3>1, FS_Subset
    <3>3. QED
      BY <1>0, <2>1, <2>2, <2>3, <2>5, <3>2
  <2>6. CASE rate'[a].count # rate[a].count /\ rate'[a].count >= MaxRate
    <3>1. PICK p \in Procs : ChargeRate(p) /\ req[p].account = a
      <4>1. CASE Tick
        BY <2>6, <4>1, <1>0 DEF Tick, NoCounter
      <4>2. ASSUME NEW p \in Procs, ExpireRate(p)
            PROVE  rate'[a].count = rate[a].count
        BY <2>0, <4>2 DEF ExpireRate, TypeOK
      <4>3. ASSUME NEW p \in Procs, ChargeRate(p)
            PROVE  req[p].account = a \/ rate'[a].count = rate[a].count
        BY <2>0, <4>3 DEF ChargeRate, TypeOK
      <4>4. QED
        BY <2>6, <4>1, <4>2, <4>3, OtherWriters
    <3>2. rate'[a].count = rate[a].count + 1
      BY <2>0, <3>1 DEF ChargeRate, TypeOK
    <3>3. /\ req[p].pc = "charge"
          /\ Goto(p, "expire") \/ Finish(p)
      BY <3>1 DEF ChargeRate
    <3>4. p \in Sending(a) /\ Sending(a)' \subseteq Sending(a) \ {p}
      BY <2>0, <3>1, <3>3, Moves DEF Sending, BeforeCreate
    <3>5. Cardinality(Sending(a) \ {p}) = n - 1 /\ IsFiniteSet(Sending(a) \ {p})
      BY <2>1, <3>4, FS_RemoveElement
    <3>6. m <= n - 1
      BY <3>4, <3>5, FS_Subset
    <3>7. QED
      BY <1>0, <2>1, <2>2, <2>3, <3>2, <3>6
  <2>7. QED
    BY <1>0, <2>2, <2>4, <2>5, <2>6
<1>3. Core /\ RateBudget => RateOvershootBounded
  <2> SUFFICES ASSUME Core, RateBudget, NEW a \in Accounts
               PROVE  rate[a].count <= MaxRate - 1 + Cardinality(Procs)
    BY DEF RateOvershootBounded
  <2>1. rate[a].count \in Nat /\ rate[a].count + Cardinality(Sending(a)) <= Room
    BY Fields DEF Core, RateBudget
  <2>2. QED
    BY <1>0, <2>1, SendingFinite
<1>4. QED
  BY <1>1, <1>2, <1>3, CoreInvariant, PTL DEF Spec

\* Without failures every counter gets its time to live.
THEOREM RateCloses == Spec => []RateWindowCloses
<1>1. Init => RateWindowCloses
  BY DEF Init, RateWindowCloses, NoCounter
<1>2. Core /\ RateWindowCloses /\ [Next]_vars => RateWindowCloses'
  <2> SUFFICES ASSUME Core, RateWindowCloses, [Next]_vars, NEW a \in Accounts,
                      ~MayFail, rate'[a].count > 0, rate'[a].expiresAt = 0
               PROVE  \E p \in Procs : req'[p].pc = "expire" /\ req'[p].account = a
    BY DEF RateWindowCloses
  <2>0. TypeOK
    BY DEF Core
  <2>1. CASE rate'[a] = rate[a]
    <3>1. PICK p \in Procs : req[p].pc = "expire" /\ req[p].account = a
      BY <2>1 DEF RateWindowCloses
    <3>2. CASE req'[p] = req[p]
      BY <3>1, <3>2
    <3>3. CASE req'[p] # req[p]
      <4>1. PICK q \in Procs :
              \/ \E b \in Accounts, d \in Devices :
                   \/ SendCheck(q, b, d)
                   \/ \E match \in BOOLEAN : VerifyRead(q, b, d, match)
              \/ Step(q)
        BY <3>3 DEF Next, SendRefused, VerifyRefused, Tick, vars, ExpireRateFails, Abandon
      <4>2. q = p
        <5>1. \/ \E s \in Steps : Goto(q, s)
              \/ Finish(q)
              \/ \E s, b, d, r, n, t : Read(q, s, b, d, r, n, t)
          BY <4>1 DEF SendCheck, VerifyRead, Step, FindNone, FindActive, CountResend,
                 CreateRow, ChargeRate, ExpireRate, CountAttempt, BlockRow, MarkVerified,
                 CommitLogin, Greet, Steps, SendSteps, VerifySteps, BeforeCreate
        <5>2. QED
          BY <2>0, <3>3, <5>1, Moves
      <4>3. ExpireRate(p)
        BY <3>1, <4>1, <4>2 DEF SendCheck, VerifyRead, Step, FindNone, FindActive,
               CountResend, CreateRow, ChargeRate, CountAttempt, BlockRow, MarkVerified,
               CommitLogin, Greet
      <4>4. rate'[a].expiresAt = now + RateWindow
        BY <2>0, <3>1, <4>3 DEF ExpireRate, TypeOK
      <4>5. QED
        BY <2>0, <4>4, ParamAssumption DEF TypeOK
    <3>4. QED
      BY <3>2, <3>3
  <2>2. ASSUME NEW p \in Procs, ChargeRate(p), rate'[a] # rate[a]
        PROVE  \E q \in Procs : req'[q].pc = "expire" /\ req'[q].account = a
    <3>1. req[p].account = a /\ rate'[a].expiresAt = rate[a].expiresAt
      BY <2>0, <2>2 DEF ChargeRate, TypeOK
    <3>2. CASE rate[a].count = 0
      <4>1. Goto(p, "expire")
        BY <2>2, <3>1, <3>2 DEF ChargeRate
      <4>2. QED
        BY <2>0, <3>1, <4>1, Moves
    <3>3. CASE rate[a].count # 0
      <4>1. rate[a].count > 0 /\ rate[a].expiresAt = 0
        BY <2>0, <3>1, <3>3, Fields
      <4>2. PICK q \in Procs : req[q].pc = "expire" /\ req[q].account = a
        BY <4>1 DEF RateWindowCloses
      <4>3. q # p /\ Finish(p)
        BY <2>2, <3>1, <3>3, <4>2 DEF ChargeRate
      <4>4. QED
        BY <2>0, <4>2, <4>3, Moves
    <3>4. QED
      BY <3>2, <3>3
  <2>3. ASSUME NEW p \in Procs, ExpireRate(p), rate'[a] # rate[a]
        PROVE  FALSE
    <3>1. rate'[a].expiresAt = now + RateWindow
      BY <2>0, <2>3 DEF ExpireRate, TypeOK
    <3>2. QED
      BY <2>0, <3>1, ParamAssumption DEF TypeOK
  <2>4. CASE Tick
    BY <2>1, <2>4 DEF Tick, NoCounter
  <2>5. QED
    BY <2>1, <2>2, <2>3, <2>4, OtherWriters
<1>3. QED
  BY <1>1, <1>2, CoreInvariant, PTL DEF Spec
=============================================================================
