------------------------------ MODULE EmailOTP ------------------------------
(***************************************************************************)
(* Proving an e-mail address and opening an account with it:               *)
(*   SendEmailOTP, VerifyEmail and Register, for a guest session;          *)
(*   SendEmailUpdateOTP and VerifyEmailUpdate, for a logged-in user.       *)
(* Codes, wrong-answer counters, send counters and verification markers    *)
(* are Redis keys of one (scope, e-mail); accounts are rows of users with  *)
(* two unique indexes, (phone, role) and (role, lower(email)).             *)
(*                                                                         *)
(* An action is one statement to Redis or PostgreSQL with the computation  *)
(* around it.  Adjacent SELECTs that only refuse a request are one action: *)
(* whatever they let through is decided again by the unique indexes.       *)
(***************************************************************************)
EXTENDS Naturals, FiniteSets

CONSTANTS
    Guests,         \* guest session ids
    Emails,         \* normalised addresses
    Phones,         \* normalised phone numbers
    Roles,          \* roles that may sign up
    Procs,          \* requests in progress at a time
    None,           \* no address, phone or role
    CutAt,          \* the steps at which statements may fail and requests be cut off
    MaxAttempts,    \* AuthMaxOTPAttempts
    MaxRate,        \* AuthMaxOTPRatePerEmail
    MaxPhoneRate,   \* AuthMaxOTPRatePerPhone
    MaxUsers,       \* bound: accounts
    MaxCodes,       \* bound: codes ever issued
    MaxWrong        \* bound: wrong answers counted against one code

ASSUME EmailAssumption ==
    /\ MaxAttempts \in Nat \ {0}
    /\ MaxRate \in Nat \ {0}
    /\ MaxPhoneRate \in Nat \ {0}
    /\ MaxUsers \in Nat
    /\ MaxCodes \in Nat
    /\ MaxWrong \in Nat
    /\ IsFiniteSet(Procs)
    /\ None \notin Emails \cup Phones \cup Roles

VARIABLES
    code,        \* EmailOTPKey: the code outstanding under a key, 0 for none
    attempts,    \* EmailOTPAttemptsKey: wrong answers counted there
    older,       \* keys whose counter is older than the code under them
    rate,        \* EmailOTPRateKey and whether the counter has a time to live
    marker,      \* EmailVerifiedKey: the code whose answer set it, 0 for none
    phoneRate,   \* OTPRateKey(phone, role)
    users,       \* the users rows, by user id
    registered,  \* number of rows
    issued,      \* number of codes issued so far
    issuedFor,   \* what each code was issued for (history)
    wrong,       \* wrong answers counted after reading each code (history)
    req          \* the requests in progress

vars == <<code, attempts, older, rate, marker, phoneRate, users, registered,
          issued, issuedFor, wrong, req>>
codes == <<code, attempts, older, rate>>
history == <<issued, issuedFor, wrong>>
accounts == <<phoneRate, users, registered>>

UserId == 1 .. MaxUsers
CodeId == 1 .. MaxCodes

\* Who a request acts for.  Session ids and user ids come from the same space:
\* only the prefix of the Redis key keeps them apart.
Callers == [kind: {"guest"}, id: Guests] \cup [kind: {"user"}, id: UserId]

guestScope(id) == <<"guest", id>>

\* Mutant: one prefix for both.
unprefixedScope(id) == <<"guest", id>>

userScope(id) == <<"user", id>>

Scope(who) == IF who.kind = "guest" THEN guestScope(who.id) ELSE userScope(who.id)
Key(who, e) == <<Scope(who), e>>

Guest(g) == [kind |-> "guest", id |-> g]
User(u) == [kind |-> "user", id |-> u]
Keys == {Key(who, e) : who \in Callers, e \in Emails}

NoUser == [phone |-> None, role |-> None, email |-> None, proof |-> 0]
NoCounter == [count |-> 0, ttl |-> FALSE]

SendSteps == {"set", "reset", "charge", "expire"}
AnswerSteps == {"count", "burn", "accept", "recheck", "update", "save", "drop"}
RegisterSteps == {"check", "insert", "notify", "commit", "unmark"}
Steps == {"idle"} \cup SendSteps \cup AnswerSteps \cup RegisterSteps

ASSUME CutAssumption == CutAt \subseteq Steps \ {"idle"}

\* code is the code the request read under its key (or in the marker), seen the
\* wrong answers counted against it until then.
Idle == [pc |-> "idle", who |-> None, email |-> None, phone |-> None,
         role |-> None, code |-> 0, seen |-> 0]

Init ==
    /\ code = [k \in Keys |-> 0]
    /\ attempts = [k \in Keys |-> 0]
    /\ older = {}
    /\ rate = [k \in Keys |-> NoCounter]
    /\ marker = [k \in Keys |-> 0]
    /\ phoneRate = [a \in Phones \X Roles |-> 0]
    /\ users = [u \in UserId |-> NoUser]
    /\ registered = 0
    /\ issued = 0
    /\ issuedFor = [c \in CodeId |-> None]
    /\ wrong = [c \in CodeId |-> 0]
    /\ req = [p \in Procs |-> Idle]

----------------------------------------------------------------------------
(* Requests and queries *)

KeyOf(p) == Key(req[p].who, req[p].email)
Goto(p, step) == req' = [req EXCEPT ![p].pc = step]
Finish(p) == req' = [req EXCEPT ![p] = Idle]
Start(p, step, who, e, c, seen) ==
    req' = [req EXCEPT ![p] = [Idle EXCEPT !.pc = step, !.who = who, !.email = e,
                                           !.code = c, !.seen = seen]]

LoggedIn(who) == who.kind = "user" => who.id <= registered
Rows == 1 .. registered
EmailTaken(e, r) == \E u \in Rows : users[u].email = e /\ users[u].role = r
PhoneTaken(ph, r) == \E u \in Rows : users[u].phone = ph /\ users[u].role = r

\* An index entry inserted by a transaction that has not ended: whoever wants
\* the same entry waits for that transaction.
Pending(q) == req[q].pc \in {"notify", "commit", "save"}
RoleOf(q) == IF req[q].role = None THEN users[req[q].who.id].role ELSE req[q].role
EmailHeld(e, r) == \E q \in Procs : Pending(q) /\ req[q].email = e /\ RoleOf(q) = r
PhoneHeld(ph, r) == \E q \in Procs : Pending(q) /\ req[q].phone = ph /\ req[q].role = r
RowHeld(u) == \E q \in Procs : req[q].pc = "save" /\ req[q].who.id = u

----------------------------------------------------------------------------
(* SendEmailOTP, SendEmailUpdateOTP *)

\* enforceEmailOTPRate; for a user, the address must also be new and free.
SendAllowed(who, e) ==
    /\ LoggedIn(who)
    /\ who.kind = "user" => ~EmailTaken(e, users[who.id].role)
    /\ rate[Key(who, e)].count < MaxRate

SendCheck(p, who, e) ==
    /\ req[p].pc = "idle"
    /\ SendAllowed(who, e)
    /\ issued + Cardinality({q \in Procs : req[q].pc = "set"}) < MaxCodes
    /\ Start(p, "set", who, e, 0, 0)
    /\ UNCHANGED <<codes, marker, accounts, history>>

SendRefused(p, who, e) ==
    /\ req[p].pc = "idle"
    /\ ~SendAllowed(who, e)
    /\ UNCHANGED vars

\* SetEmailOTPHashAndRate: SET the new hash, DEL the wrong answers, INCR the
\* counter of sends and, for the caller that created it, EXPIRE it.  A counter of
\* wrong answers that is there at the SET keeps its time to live, which ends first.
SetCode(p) ==
    /\ req[p].pc = "set"
    /\ issued < MaxCodes
    /\ issued' = issued + 1
    /\ code' = [code EXCEPT ![KeyOf(p)] = issued + 1]
    /\ issuedFor' = [issuedFor EXCEPT ![issued + 1] =
                       [who |-> req[p].who, email |-> req[p].email]]
    /\ older' = older \cup {k \in {KeyOf(p)} : attempts[k] # 0}
    /\ Goto(p, "reset")
    /\ UNCHANGED <<attempts, rate, marker, accounts, wrong>>

ResetAttempts(p) ==
    /\ req[p].pc = "reset"
    /\ attempts' = [attempts EXCEPT ![KeyOf(p)] = 0]
    /\ older' = older \ {KeyOf(p)}
    /\ Goto(p, "charge")
    /\ UNCHANGED <<code, rate, marker, accounts, history>>

\* Mutant: every sender leaves the EXPIRE to another.
ChargeRateOnly(p) ==
    /\ req[p].pc = "charge"
    /\ rate' = [rate EXCEPT ![KeyOf(p)].count = @ + 1]
    /\ Finish(p)
    /\ UNCHANGED <<code, attempts, older, marker, accounts, history>>

ChargeRate(p) ==
    /\ req[p].pc = "charge"
    /\ rate' = [rate EXCEPT ![KeyOf(p)].count = @ + 1]
    /\ IF rate[KeyOf(p)].count = 0 THEN Goto(p, "expire") ELSE Finish(p)
    /\ UNCHANGED <<code, attempts, older, marker, accounts, history>>

ExpireRate(p) ==
    /\ req[p].pc = "expire"
    /\ rate' = [rate EXCEPT ![KeyOf(p)].ttl = TRUE]
    /\ Finish(p)
    /\ UNCHANGED <<code, attempts, older, marker, accounts, history>>

----------------------------------------------------------------------------
(* VerifyEmail, VerifyEmailUpdate *)

\* GetEmailOTPHash and the comparison with the answer, on that snapshot.
VerifyRead(p, who, e, match) ==
    LET c == code[Key(who, e)] IN
    /\ req[p].pc = "idle"
    /\ LoggedIn(who)
    /\ c # 0
    /\ \/ ~match /\ wrong[c] < MaxWrong /\ Start(p, "count", who, e, c, wrong[c])
       \/ match /\ who.kind = "guest" /\ Start(p, "accept", who, e, c, wrong[c])
       \/ match /\ who.kind = "user" /\ Start(p, "recheck", who, e, c, wrong[c])
    /\ UNCHANGED <<codes, marker, accounts, history>>

\* 404 without the account, 410 without a code: nothing changes.
VerifyRefused(p, who, e) ==
    /\ req[p].pc = "idle"
    /\ LoggedIn(who) => code[Key(who, e)] = 0
    /\ UNCHANGED vars

\* Mutant: the answer that reaches the limit only gets its 429.
CountWrongNoBurn(p) ==
    /\ req[p].pc = "count"
    /\ attempts' = [attempts EXCEPT ![KeyOf(p)] = @ + 1]
    /\ wrong' = [wrong EXCEPT ![req[p].code] = @ + 1]
    /\ Finish(p)
    /\ UNCHANGED <<code, older, rate, marker, accounts, issued, issuedFor>>

\* IncrementEmailOTPAttempts counts under the key, whatever code is there now.
CountWrong(p) ==
    LET k == KeyOf(p) IN
    /\ req[p].pc = "count"
    /\ attempts' = [attempts EXCEPT ![k] = @ + 1]
    /\ wrong' = [wrong EXCEPT ![req[p].code] = @ + 1]
    /\ IF attempts[k] + 1 >= MaxAttempts THEN Goto(p, "burn") ELSE Finish(p)
    /\ UNCHANGED <<code, older, rate, marker, accounts, issued, issuedFor>>

\* Mutant: DECR instead of DEL.
DeleteCodeDecr(p) ==
    /\ req[p].pc \in {"burn", "drop"}
    /\ code' = [code EXCEPT ![KeyOf(p)] = 0]
    /\ attempts' = [attempts EXCEPT ![KeyOf(p)] = @ - 1]
    /\ older' = older \ {KeyOf(p)}
    /\ Finish(p)
    /\ UNCHANGED <<rate, marker, accounts, history>>

\* DeleteEmailOTP, after too many wrong answers or at the end of a good one.
DeleteCode(p) ==
    /\ req[p].pc \in {"burn", "drop"}
    /\ code' = [code EXCEPT ![KeyOf(p)] = 0]
    /\ attempts' = [attempts EXCEPT ![KeyOf(p)] = 0]
    /\ older' = older \ {KeyOf(p)}
    /\ Finish(p)
    /\ UNCHANGED <<rate, marker, accounts, history>>

\* SetEmailVerified.
AcceptEmail(p) ==
    /\ req[p].pc = "accept"
    /\ marker' = [marker EXCEPT ![KeyOf(p)] = req[p].code]
    /\ Goto(p, "drop")
    /\ UNCHANGED <<codes, accounts, history>>

\* assertEmailAvailable, once more.
Recheck(p) ==
    /\ req[p].pc = "recheck"
    /\ IF EmailTaken(req[p].email, users[req[p].who.id].role)
         THEN Finish(p) ELSE Goto(p, "update")
    /\ UNCHANGED <<codes, marker, accounts, history>>

\* Mutant: trusts the recheck.
UpdateUserEmailTrusting(p) ==
    /\ req[p].pc = "update"
    /\ ~RowHeld(req[p].who.id)
    /\ Goto(p, "save")
    /\ UNCHANGED <<codes, marker, accounts, history>>

\* UpdateUserEmail takes the row and the index entry, or finds the entry taken.
UpdateUserEmail(p) ==
    LET u == req[p].who.id  r == users[u].role IN
    /\ req[p].pc = "update"
    /\ ~RowHeld(u) /\ ~EmailHeld(req[p].email, r)
    /\ IF \E v \in Rows \ {u} : users[v].email = req[p].email /\ users[v].role = r
         THEN Finish(p) ELSE Goto(p, "save")
    /\ UNCHANGED <<codes, marker, accounts, history>>

\* The audit row and COMMIT.
SaveEmail(p) ==
    LET u == req[p].who.id IN
    /\ req[p].pc = "save"
    /\ users' = [users EXCEPT ![u] = [@ EXCEPT !.email = req[p].email,
                                              !.proof = req[p].code]]
    /\ Goto(p, "drop")
    /\ UNCHANGED <<codes, marker, phoneRate, registered, history>>

----------------------------------------------------------------------------
(* Register *)

\* IsEmailVerified.
RegisterRead(p, g, e, ph, r) ==
    LET c == marker[Key(Guest(g), e)] IN
    /\ req[p].pc = "idle"
    /\ c # 0
    /\ req' = [req EXCEPT ![p] = [pc |-> "check", who |-> Guest(g), email |-> e,
                                  phone |-> ph, role |-> r, code |-> c, seen |-> 0]]
    /\ UNCHANGED <<codes, marker, accounts, history>>

RegisterRefused(p, g, e) ==
    /\ req[p].pc = "idle"
    /\ marker[Key(Guest(g), e)] = 0
    /\ UNCHANGED vars

\* GetOTPRateCount, UserExistsByPhoneRole, UserExistsByEmailRole.
RegisterCheck(p) ==
    LET ph == req[p].phone  r == req[p].role IN
    /\ req[p].pc = "check"
    /\ IF \/ phoneRate[<<ph, r>>] >= MaxPhoneRate
          \/ PhoneTaken(ph, r)
          \/ EmailTaken(req[p].email, r)
         THEN Finish(p) ELSE Goto(p, "insert")
    /\ UNCHANGED <<codes, marker, accounts, history>>

\* CreateUser, the first statement of the transaction.  It takes both index
\* entries; when one is taken the answer is 409 and nothing else happens.
CreateUser(p) ==
    LET ph == req[p].phone  r == req[p].role  e == req[p].email IN
    /\ req[p].pc = "insert"
    /\ ~PhoneHeld(ph, r) /\ ~EmailHeld(e, r)
    /\ \/ (PhoneTaken(ph, r) \/ EmailTaken(e, r)) /\ Finish(p)
       \/ /\ ~PhoneTaken(ph, r) /\ ~EmailTaken(e, r)
          /\ registered + Cardinality({q \in Procs : req[q].pc \in {"notify", "commit"}})
               < MaxUsers
          /\ Goto(p, "notify")
    /\ UNCHANGED <<codes, marker, accounts, history>>

\* Audit row, otp_requests row, and SetOTPHashAndRate: a Redis write in the
\* middle of the transaction, which no rollback undoes.
NotifyPhone(p) ==
    /\ req[p].pc = "notify"
    /\ phoneRate' = [phoneRate EXCEPT ![<<req[p].phone, req[p].role>>] = @ + 1]
    /\ Goto(p, "commit")
    /\ UNCHANGED <<codes, marker, users, registered, history>>

CommitUser(p) ==
    /\ req[p].pc = "commit"
    /\ registered < MaxUsers
    /\ registered' = registered + 1
    /\ users' = [users EXCEPT ![registered + 1] =
                   [phone |-> req[p].phone, role |-> req[p].role,
                    email |-> req[p].email, proof |-> req[p].code]]
    /\ Goto(p, "unmark")
    /\ UNCHANGED <<codes, marker, phoneRate, history>>

\* DeleteEmailVerified, then the SMS.
Unmark(p) ==
    /\ req[p].pc = "unmark"
    /\ marker' = [marker EXCEPT ![KeyOf(p)] = 0]
    /\ Finish(p)
    /\ UNCHANGED <<codes, accounts, history>>

----------------------------------------------------------------------------
(* Environment *)

\* The request ends before its next statement: error answer, client gone,
\* crash, or the last statement failed and its error is dropped (EXPIRE,
\* DeleteEmailOTP, DeleteEmailVerified).  An open transaction is rolled back.
Abandon(p) ==
    /\ req[p].pc \in CutAt
    /\ Finish(p)
    /\ UNCHANGED <<codes, marker, accounts, history>>

\* A key's time to live ends.  Only the first wrong answer sets that of its counter,
\* as long as that of a code: a counter begun under the code outlives it, an older
\* one does not.
Lapse(k) ==
    /\ \/ /\ code[k] # 0
          /\ code' = [code EXCEPT ![k] = 0]
          /\ UNCHANGED <<attempts, older, rate, marker>>
       \/ /\ attempts[k] # 0
          /\ code[k] = 0 \/ k \in older
          /\ attempts' = [attempts EXCEPT ![k] = 0]
          /\ older' = older \ {k}
          /\ UNCHANGED <<code, rate, marker>>
       \/ /\ rate[k].ttl
          /\ rate' = [rate EXCEPT ![k] = NoCounter]
          /\ UNCHANGED <<code, attempts, older, marker>>
       \/ /\ marker[k] # 0
          /\ marker' = [marker EXCEPT ![k] = 0]
          /\ UNCHANGED codes
    /\ UNCHANGED <<accounts, history, req>>

\* So does the send counter of a phone, which SendOTP raises too, but only for
\* accounts that exist: those Register refuses anyway.
LapsePhone(a) ==
    /\ phoneRate[a] # 0
    /\ phoneRate' = [phoneRate EXCEPT ![a] = 0]
    /\ UNCHANGED <<codes, marker, users, registered, history, req>>

Step(p) ==
    \/ SetCode(p) \/ ResetAttempts(p) \/ ChargeRate(p) \/ ExpireRate(p)
    \/ CountWrong(p) \/ DeleteCode(p) \/ AcceptEmail(p)
    \/ Recheck(p) \/ UpdateUserEmail(p) \/ SaveEmail(p)
    \/ RegisterCheck(p) \/ CreateUser(p) \/ NotifyPhone(p) \/ CommitUser(p) \/ Unmark(p)

Next ==
    \/ \E p \in Procs :
         \/ \E who \in Callers, e \in Emails :
              \/ SendCheck(p, who, e)
              \/ SendRefused(p, who, e)
              \/ \E match \in BOOLEAN : VerifyRead(p, who, e, match)
              \/ VerifyRefused(p, who, e)
         \/ \E g \in Guests, e \in Emails :
              \/ \E ph \in Phones, r \in Roles : RegisterRead(p, g, e, ph, r)
              \/ RegisterRefused(p, g, e)
         \/ Step(p)
         \/ Abandon(p)
    \/ \E k \in Keys : Lapse(k)
    \/ \E a \in Phones \X Roles : LapsePhone(a)

Spec == Init /\ [][Next]_vars

----------------------------------------------------------------------------
(* Properties *)

Request == [pc: Steps, who: Callers \cup {None}, email: Emails \cup {None},
            phone: Phones \cup {None}, role: Roles \cup {None},
            code: 0 .. MaxCodes, seen: Nat]

\* The variables keep their types: codes and counters stay natural numbers
\* through every SET, INCR and DEL, and accounts are rows of users.
TypeOK ==
    /\ code \in [Keys -> 0 .. MaxCodes]
    /\ attempts \in [Keys -> Nat]
    /\ older \subseteq Keys
    /\ rate \in [Keys -> [count: Nat, ttl: BOOLEAN]]
    /\ marker \in [Keys -> 0 .. MaxCodes]
    /\ phoneRate \in [Phones \X Roles -> Nat]
    /\ users \in [UserId -> [phone: Phones \cup {None}, role: Roles \cup {None},
                             email: Emails \cup {None}, proof: 0 .. MaxCodes]]
    /\ registered \in 0 .. MaxUsers
    /\ issued \in 0 .. MaxCodes
    /\ issuedFor \in [CodeId -> [who: Callers, email: Emails] \cup {None}]
    /\ wrong \in [CodeId -> Nat]
    /\ req \in [Procs -> Request]

\* Answers a counter can take that was there before the code, and not burn it.
UnderOlder == IF MaxAttempts = 1 THEN 0 ELSE MaxAttempts - 2

Issued(c, who, e) == c # 0 /\ issuedFor[c] = [who |-> who, email |-> e]

\* No address is stored unproven: a marker, an account and a change of address
\* each go back to a code issued to the same caller for the same address, and a
\* code issued in one context is never redeemed in the other (auth.go:115-116
\* and 585-588, profile.go:178-179).
EmailProven ==
    /\ \A p \in Procs : req[p].pc \in {"count", "accept", "recheck", "update", "save"} =>
                            Issued(req[p].code, req[p].who, req[p].email)
    /\ \A g \in Guests, e \in Emails :
          LET c == marker[Key(Guest(g), e)] IN c # 0 => Issued(c, Guest(g), e)
    /\ \A u \in Rows : \E who \in {User(u)} \cup {Guest(g) : g \in Guests} :
          Issued(users[u].proof, who, users[u].email)

\* Accounts of one role never share a phone or an address, whichever of the
\* overlapping sign-ups and address changes passed their checks together.
AccountsUnique ==
    \A u, v \in Rows :
        u # v /\ users[u].role = users[v].role =>
            users[u].phone # users[v].phone /\ users[u].email # users[v].email

\* How many wrong answers one code can meet while no statement fails.  A send
\* puts the new code in place before it clears the counter, so each send in
\* progress can wipe the answers counted so far, and the requests that read the
\* code before it was burned are still counted: as if every request had the
\* allowance of AuthMaxOTPAttempts to itself.  Until it is cleared, the counter of
\* the code before may also reach its end once: it was at one, at least, and has
\* not reached the limit.
TriesBounded ==
    CutAt = {} => \A c \in CodeId :
        wrong[c] <= MaxAttempts * Cardinality(Procs) + UnderOlder

\* While no statement fails, a counter of sends without a time to live is about
\* to get one: no address is locked out for good.
EmailRateWindowCloses ==
    CutAt = {} => \A k \in Keys :
        rate[k].count > 0 /\ ~rate[k].ttl =>
            \E p \in Procs : req[p].pc = "expire" /\ KeyOf(p) = k

\* "5 wrong tries burns the code", as "the email-OTP path" does it
\* (auth.go:335-342): a request that starts when that many wrong answers have
\* been counted is not accepted.
WrongTriesBurnCode ==
    \A p \in Procs : req[p].pc \in {"accept", "recheck"} => req[p].seen < MaxAttempts

\* "One verification, one account." (auth.go:208)
OneVerificationOneAccount ==
    \A u, v \in Rows : u # v => users[u].proof # users[v].proof

=============================================================================
