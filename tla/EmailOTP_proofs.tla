--------------------------- MODULE EmailOTP_proofs ---------------------------
(* Proofs about EmailOTP, for any guests, addresses, phones, roles and requests, *)
(* any limits, and failures at any steps.                                        *)
EXTENDS EmailOTP, FiniteSetTheorems, TLAPS

\* Changes of address are a user's; registrations and the marker a guest's.
UserSteps == {"recheck", "update", "save"}
Redeeming == UserSteps \cup {"count", "accept", "check", "insert", "notify", "commit"}

\* A code issued to who for e.
Known(c, who, e) == c \in 1 .. issued /\ issuedFor[c] = [who |-> who, email |-> e]

\* What a request carries from its first step on, and the code it redeems.
Sound(r) ==
    /\ r.pc # "idle" => r.who \in Callers /\ r.email \in Emails /\ LoggedIn(r.who)
    /\ r.pc \in UserSteps => r.who.kind = "user" /\ r.role = None
    /\ r.pc = "accept" => r.who.kind = "guest"
    /\ r.pc \in RegisterSteps =>
          r.who.kind = "guest" /\ r.phone \in Phones /\ r.role \in Roles
    /\ r.pc \in Redeeming => Known(r.code, r.who, r.email)

RequestsSound == \A p \in Procs : Sound(req[p])

\* Codes, guests' markers and accounts go back to a code issued.
CodeProven(who, e) ==
    code[Key(who, e)] # 0 => Known(code[Key(who, e)], who, e)
MarkerProven(g, e) ==
    marker[Key(Guest(g), e)] # 0 => Known(marker[Key(Guest(g), e)], Guest(g), e)
RowProven(u) ==
    \E who \in {User(u)} \cup {Guest(g) : g \in Guests} :
        Known(users[u].proof, who, users[u].email)

StoresProven ==
    /\ \A who \in Callers, e \in Emails : CodeProven(who, e)
    /\ \A g \in Guests, e \in Emails : MarkerProven(g, e)
    /\ \A u \in Rows : RowProven(u)

Core == TypeOK /\ RequestsSound /\ StoresProven

\* What no step takes back: rows, and codes issued.
Grows ==
    /\ registered <= registered'
    /\ issued <= issued'
    /\ \A c \in 1 .. issued : issuedFor'[c] = issuedFor[c]

----------------------------------------------------------------------------
(* Keys and requests *)

\* One key, one caller and one address: the prefix keeps guests and users apart.
LEMMA KeysApart ==
    ASSUME NEW who1 \in Callers, NEW who2 \in Callers, NEW e1, NEW e2,
           Key(who1, e1) = Key(who2, e2)
    PROVE  who1 = who2 /\ e1 = e2
<1>1. Scope(who1) = Scope(who2) /\ e1 = e2
  BY DEF Key
<1>2. who1.kind = who2.kind /\ who1.id = who2.id
  BY <1>1 DEF Scope, guestScope, userScope, Callers
<1>3. QED
  BY <1>1, <1>2 DEF Callers

LEMMA KeyThere == \A who \in Callers, e \in Emails : Key(who, e) \in Keys
  BY DEF Keys

LEMMA CallersAre ==
    /\ \A g \in Guests : Guest(g) \in Callers /\ Guest(g).kind = "guest"
    /\ \A who \in Callers : who.kind = "guest" => \E g \in Guests : who = Guest(g)
    /\ \A who \in Callers : who.kind = "user" => who.id \in UserId /\ who = User(who.id)
    /\ \A who \in Callers : who.kind \in {"guest", "user"}
  BY DEF Callers, Guest, User

\* How a request moves on, and that no other does.
LEMMA Moves ==
    ASSUME TypeOK, NEW p \in Procs
    PROVE  /\ \A step \in Steps : Goto(p, step) =>
                /\ req' \in [Procs -> Request]
                /\ req'[p] = [req[p] EXCEPT !.pc = step] /\ req'[p].pc = step
                /\ \A q \in Procs \ {p} : req'[q] = req[q]
           /\ Finish(p) =>
                /\ req' \in [Procs -> Request]
                /\ req'[p].pc = "idle"
                /\ \A q \in Procs \ {p} : req'[q] = req[q]
<1>1. ASSUME NEW step \in Steps, Goto(p, step)
      PROVE  /\ req' \in [Procs -> Request]
             /\ req'[p] = [req[p] EXCEPT !.pc = step] /\ req'[p].pc = step
             /\ \A q \in Procs \ {p} : req'[q] = req[q]
  <2>1. [req[p] EXCEPT !.pc = step] \in Request
    BY DEF TypeOK, Request
  <2>2. QED
    BY <1>1, <2>1 DEF TypeOK, Goto, Request
<1>2. Idle \in Request /\ Idle.pc = "idle"
  BY EmailAssumption DEF Idle, Request, Steps
<1>3. ASSUME Finish(p)
      PROVE  /\ req' \in [Procs -> Request]
             /\ req'[p].pc = "idle"
             /\ \A q \in Procs \ {p} : req'[q] = req[q]
  BY <1>2, <1>3 DEF TypeOK, Finish
<1>4. QED
  BY <1>1, <1>3

\* A request that waits stays sound.
LEMMA SoundWaits ==
    ASSUME TypeOK, RequestsSound, Grows, TypeOK'
    PROVE  \A q \in Procs : req'[q] = req[q] => Sound(req[q])'
<1>1. ASSUME NEW q \in Procs, req'[q] = req[q]
      PROVE  Sound(req[q])'
  <2>1. LoggedIn(req[q].who) /\ req[q].who \in Callers => LoggedIn(req[q].who)'
    BY <1>1, EmailAssumption DEF LoggedIn, Grows, TypeOK, Callers, UserId
  <2>2. Known(req[q].code, req[q].who, req[q].email)
          => Known(req[q].code, req[q].who, req[q].email)'
    BY <1>1, EmailAssumption DEF Known, Grows, TypeOK
  <2>3. QED
    BY <1>1, <2>1, <2>2 DEF RequestsSound, Sound, UserSteps, Redeeming, RegisterSteps
<1>2. QED
  BY <1>1

LEMMA SoundStays ==
    ASSUME TypeOK, RequestsSound, Grows, TypeOK', NEW p \in Procs,
           \A q \in Procs \ {p} : req'[q] = req[q],
           Sound(req[p])'
    PROVE  RequestsSound'
  BY SoundWaits DEF RequestsSound

\* What nothing is written to stays proven; nothing has to be proven of a key
\* that is deleted.
LEMMA KnownStays ==
    ASSUME TypeOK, Grows, TypeOK'
    PROVE  \A c, who, e : Known(c, who, e) => Known(c, who, e)'
  BY EmailAssumption DEF Known, Grows, TypeOK

LEMMA CodeStays ==
    ASSUME TypeOK, Grows, TypeOK', NEW who, NEW e, CodeProven(who, e),
           code'[Key(who, e)] \in {0, code[Key(who, e)]}
    PROVE  CodeProven(who, e)'
<1>1. PICK c : c = code[Key(who, e)]
  OBVIOUS
<1>2. c # 0 => Known(c, who, e)'
  BY <1>1, KnownStays DEF CodeProven
<1>3. QED
  BY <1>1, <1>2 DEF CodeProven, Known

LEMMA MarkerStays ==
    ASSUME TypeOK, Grows, TypeOK', NEW g, NEW e, MarkerProven(g, e),
           marker'[Key(Guest(g), e)] \in {0, marker[Key(Guest(g), e)]}
    PROVE  MarkerProven(g, e)'
<1>1. PICK c : c = marker[Key(Guest(g), e)]
  OBVIOUS
<1>2. c # 0 => Known(c, Guest(g), e)'
  BY <1>1, KnownStays DEF MarkerProven
<1>3. QED
  BY <1>1, <1>2 DEF MarkerProven, Known

LEMMA RowStays ==
    ASSUME TypeOK, Grows, TypeOK', NEW u, RowProven(u), users'[u] = users[u]
    PROVE  RowProven(u)'
<1>1. PICK who \in {User(u)} \cup {Guest(g) : g \in Guests} :
          Known(users[u].proof, who, users[u].email)
  BY DEF RowProven
<1>2. PICK c, e : c = users[u].proof /\ e = users[u].email
  OBVIOUS
<1>3. Known(c, who, e)'
  BY <1>1, <1>2, KnownStays
<1>4. Known(users[u].proof, who, users[u].email)'
  BY <1>2, <1>3 DEF Known
<1>5. QED
  BY <1>4 DEF RowProven

LEMMA ProvenStays ==
    ASSUME TypeOK, StoresProven, Grows, TypeOK',
           \A k \in Keys : code'[k] \in {0, code[k]},
           \A k \in Keys : marker'[k] \in {0, marker[k]},
           users' = users, registered' = registered
    PROVE  StoresProven'
<1>1. \A who \in Callers, e \in Emails : CodeProven(who, e)'
  BY CodeStays, KeyThere DEF StoresProven
<1>2. \A g \in Guests, e \in Emails : MarkerProven(g, e)'
  BY MarkerStays, KeyThere, CallersAre DEF StoresProven
<1>3. \A u \in Rows' : RowProven(u)'
  BY RowStays DEF StoresProven, Rows
<1>4. QED
  BY <1>1, <1>2, <1>3 DEF StoresProven

----------------------------------------------------------------------------
(* Types *)

LEMMA InitCore == Init => Core
<1>1. Idle \in Request /\ Idle.pc = "idle"
  BY EmailAssumption DEF Idle, Request, Steps
<1>2. NoCounter \in [count: Nat, ttl: BOOLEAN]
  BY DEF NoCounter
<1>3. NoUser \in [phone: Phones \cup {None}, role: Roles \cup {None},
                  email: Emails \cup {None}, proof: 0 .. MaxCodes]
  BY EmailAssumption DEF NoUser
<1>4. 0 \in 0 .. MaxCodes /\ 0 \in 0 .. MaxUsers /\ 1 .. 0 = {}
  BY EmailAssumption
<1>5. ASSUME Init
      PROVE  TypeOK
  BY <1>1, <1>2, <1>3, <1>4, <1>5 DEF Init, TypeOK
<1>6. ASSUME Init
      PROVE  RequestsSound
  BY <1>1, <1>6 DEF Init, RequestsSound, Sound, UserSteps, RegisterSteps, Redeeming
<1>7. ASSUME Init
      PROVE  StoresProven
  BY <1>4, <1>7, KeyThere, CallersAre DEF Init, StoresProven, CodeProven, MarkerProven, Rows
<1>8. QED
  BY <1>5, <1>6, <1>7 DEF Core

\* A request begins.
LEMMA Starts ==
    ASSUME TypeOK, NEW p \in Procs, NEW step \in Steps, NEW who \in Callers, NEW e \in Emails,
           NEW c \in 0 .. MaxCodes, NEW n \in Nat, Start(p, step, who, e, c, n)
    PROVE  /\ req' \in [Procs -> Request]
           /\ req'[p].pc = step /\ req'[p].who = who /\ req'[p].email = e
           /\ req'[p].role = None /\ req'[p].code = c /\ req'[p].seen = n
           /\ \A q \in Procs \ {p} : req'[q] = req[q]
<1> DEFINE new == [Idle EXCEPT !.pc = step, !.who = who, !.email = e, !.code = c, !.seen = n]
<1>1. Idle \in Request /\ Idle.role = None
  BY EmailAssumption DEF Idle, Request, Steps
<1>2. /\ new \in Request
      /\ new.pc = step /\ new.who = who /\ new.email = e /\ new.role = None
      /\ new.code = c /\ new.seen = n
  BY <1>1 DEF Request
<1>3. req' = [req EXCEPT ![p] = new]
  BY DEF Start
<1> HIDE DEF new
<1>4. req' \in [Procs -> Request] /\ req'[p] = new /\ \A q \in Procs \ {p} : req'[q] = req[q]
  BY <1>2, <1>3 DEF TypeOK
<1>5. QED
  BY <1>2, <1>4

\* A request past its first step has a key, a caller and an address.
LEMMA KeyOfThere ==
    ASSUME RequestsSound, NEW p \in Procs, req[p].pc # "idle"
    PROVE  KeyOf(p) \in Keys /\ req[p].who \in Callers /\ req[p].email \in Emails
  BY KeyThere DEF RequestsSound, Sound, KeyOf

LEMMA CountsUp ==
    ASSUME NEW S, NEW f \in [S -> Nat], NEW k
    PROVE  [f EXCEPT ![k] = @ + 1] \in [S -> Nat] /\ [f EXCEPT ![k] = 0] \in [S -> Nat]
<1>1. k \in S => f[k] + 1 \in Nat
  OBVIOUS
<1>2. QED
  BY <1>1

LEMMA TypeStep == Core /\ [Next]_vars => TypeOK'
<1> SUFFICES ASSUME Core, [Next]_vars
             PROVE  TypeOK'
  OBVIOUS
<1> USE DEF Core
<1>1. ASSUME NEW p \in Procs, NEW who \in Callers, NEW e \in Emails, SendCheck(p, who, e)
      PROVE  TypeOK'
  <2>1. "set" \in Steps /\ 0 \in 0 .. MaxCodes
    BY EmailAssumption DEF Steps, SendSteps
  <2>2. req' \in [Procs -> Request]
    BY <1>1, <2>1, Starts DEF SendCheck
  <2>3. QED
    BY <1>1, <2>2 DEF SendCheck, TypeOK, codes, accounts, history
<1>2. ASSUME NEW p \in Procs, NEW who \in Callers, NEW e \in Emails, NEW match \in BOOLEAN,
             VerifyRead(p, who, e, match)
      PROVE  TypeOK'
  <2>1. {"count", "accept", "recheck"} \subseteq Steps
    BY DEF Steps, AnswerSteps
  <2>2. code[Key(who, e)] \in 0 .. MaxCodes /\ code[Key(who, e)] # 0
    BY <1>2, KeyThere DEF VerifyRead, TypeOK
  <2>3. wrong[code[Key(who, e)]] \in Nat
    BY <2>2, EmailAssumption DEF TypeOK, CodeId
  <2>4. \E step \in Steps : Start(p, step, who, e, code[Key(who, e)], wrong[code[Key(who, e)]])
    BY <1>2, <2>1 DEF VerifyRead
  <2>5. req' \in [Procs -> Request]
    BY <2>2, <2>3, <2>4, Starts
  <2>6. QED
    BY <1>2, <2>5 DEF VerifyRead, TypeOK, codes, accounts, history
<1>3. ASSUME NEW p \in Procs, NEW g \in Guests, NEW e \in Emails, NEW ph \in Phones,
             NEW r \in Roles, RegisterRead(p, g, e, ph, r)
      PROVE  TypeOK'
  <2>1. marker[Key(Guest(g), e)] \in 0 .. MaxCodes /\ Guest(g) \in Callers
    BY KeyThere, CallersAre DEF TypeOK
  <2>2. [pc |-> "check", who |-> Guest(g), email |-> e, phone |-> ph, role |-> r,
         code |-> marker[Key(Guest(g), e)], seen |-> 0] \in Request
    BY <2>1 DEF Request, Steps, RegisterSteps
  <2>3. req' \in [Procs -> Request]
    BY <1>3, <2>2 DEF RegisterRead, TypeOK
  <2>4. QED
    BY <1>3, <2>3 DEF RegisterRead, TypeOK, codes, accounts, history
<1>4. ASSUME NEW p \in Procs, SetCode(p)
      PROVE  TypeOK'
  <2>1. req' \in [Procs -> Request]
    BY <1>4, Moves DEF SetCode, Steps, SendSteps
  <2>2. issued + 1 \in 0 .. MaxCodes
    BY <1>4, EmailAssumption DEF SetCode, TypeOK
  <2>3. [who |-> req[p].who, email |-> req[p].email] \in [who: Callers, email: Emails]
    BY <1>4, KeyOfThere DEF SetCode
  <2>4. issuedFor' \in [CodeId -> [who: Callers, email: Emails] \cup {None}]
    BY <1>4, <2>3 DEF SetCode, TypeOK
  <2>5. older' \subseteq Keys
    BY <1>4, KeyOfThere DEF SetCode, TypeOK
  <2>6. QED
    BY <1>4, <2>1, <2>2, <2>4, <2>5 DEF SetCode, TypeOK, accounts
<1>5. ASSUME NEW p \in Procs, ResetAttempts(p) \/ DeleteCode(p) \/ CountWrong(p)
      PROVE  TypeOK'
  <2>1. req' \in [Procs -> Request]
    BY <1>5, Moves DEF ResetAttempts, DeleteCode, CountWrong, Steps, SendSteps, AnswerSteps
  <2>2. attempts' \in [Keys -> Nat]
    BY <1>5 DEF ResetAttempts, DeleteCode, CountWrong, TypeOK
  <2>3. code' \in [Keys -> 0 .. MaxCodes] /\ wrong' \in [CodeId -> Nat]
    BY <1>5, EmailAssumption DEF ResetAttempts, DeleteCode, CountWrong, TypeOK, history
  <2>4. QED
    BY <1>5, <2>1, <2>2, <2>3
    DEF ResetAttempts, DeleteCode, CountWrong, TypeOK, accounts, history
<1>6. ASSUME NEW p \in Procs, ChargeRate(p) \/ ExpireRate(p)
      PROVE  TypeOK'
  <2>1. req' \in [Procs -> Request]
    BY <1>6, Moves DEF ChargeRate, ExpireRate, Steps, SendSteps
  <2>2. rate' \in [Keys -> [count: Nat, ttl: BOOLEAN]]
    <3>1. CASE ChargeRate(p)
      <4>1. rate' = [rate EXCEPT ![KeyOf(p)].count = @ + 1] /\ KeyOf(p) \in Keys
        BY <3>1, KeyOfThere DEF ChargeRate
      <4>2. rate[KeyOf(p)].count \in Nat /\ rate[KeyOf(p)].ttl \in BOOLEAN
        BY <4>1 DEF TypeOK
      <4>3. [rate[KeyOf(p)] EXCEPT !.count = @ + 1] \in [count: Nat, ttl: BOOLEAN]
        BY <4>1, <4>2 DEF TypeOK
      <4>4. QED
        BY <4>1, <4>3 DEF TypeOK
    <3>2. CASE ExpireRate(p)
      BY <3>2 DEF ExpireRate, TypeOK
    <3>3. QED
      BY <1>6, <3>1, <3>2
  <2>3. QED
    BY <1>6, <2>1, <2>2 DEF ChargeRate, ExpireRate, TypeOK, accounts, history
<1>7. ASSUME NEW p \in Procs, AcceptEmail(p) \/ Unmark(p)
      PROVE  TypeOK'
  <2>1. req' \in [Procs -> Request]
    BY <1>7, Moves DEF AcceptEmail, Unmark, Steps, AnswerSteps
  <2>2. marker' \in [Keys -> 0 .. MaxCodes]
    BY <1>7, EmailAssumption DEF AcceptEmail, Unmark, TypeOK, Request
  <2>3. QED
    BY <1>7, <2>1, <2>2 DEF AcceptEmail, Unmark, TypeOK, codes, accounts, history
<1>8. ASSUME NEW p \in Procs,
             \/ Recheck(p) \/ UpdateUserEmail(p) \/ RegisterCheck(p) \/ CreateUser(p)
             \/ Abandon(p)
      PROVE  TypeOK'
  <2>1. {"update", "save", "insert", "notify"} \subseteq Steps
    BY DEF Steps, AnswerSteps, RegisterSteps
  <2>2. req' \in [Procs -> Request]
    BY <1>8, <2>1, Moves DEF Recheck, UpdateUserEmail, RegisterCheck, CreateUser, Abandon
  <2>3. QED
    BY <1>8, <2>2 DEF Recheck, UpdateUserEmail, RegisterCheck, CreateUser, Abandon, TypeOK,
                      codes, accounts, history
<1>9. ASSUME NEW p \in Procs, SaveEmail(p) \/ CommitUser(p)
      PROVE  TypeOK'
  <2>1. req' \in [Procs -> Request]
    BY <1>9, Moves DEF SaveEmail, CommitUser, Steps, AnswerSteps, RegisterSteps
  <2>2. /\ req[p].phone \in Phones \cup {None} /\ req[p].role \in Roles \cup {None}
        /\ req[p].email \in Emails \cup {None} /\ req[p].code \in 0 .. MaxCodes
    BY DEF TypeOK, Request
  <2>3. users' \in [UserId -> [phone: Phones \cup {None}, role: Roles \cup {None},
                               email: Emails \cup {None}, proof: 0 .. MaxCodes]]
    <3>1. CASE SaveEmail(p)
      BY <2>2, <3>1 DEF SaveEmail, TypeOK
    <3>2. CASE CommitUser(p)
      BY <2>2, <3>2 DEF CommitUser, TypeOK
    <3>3. QED
      BY <1>9, <3>1, <3>2
  <2>4. registered' \in 0 .. MaxUsers
    BY <1>9, EmailAssumption DEF SaveEmail, CommitUser, TypeOK
  <2>5. QED
    BY <1>9, <2>1, <2>3, <2>4 DEF SaveEmail, CommitUser, TypeOK, codes, history
<1>10. ASSUME NEW p \in Procs, NotifyPhone(p)
       PROVE  TypeOK'
  <2>1. req' \in [Procs -> Request]
    BY <1>10, Moves DEF NotifyPhone, Steps, RegisterSteps
  <2>2. phoneRate' \in [Phones \X Roles -> Nat]
    <3>1. PICK a : phoneRate' = [phoneRate EXCEPT ![a] = @ + 1]
      BY <1>10 DEF NotifyPhone
    <3>2. QED
      BY <3>1, CountsUp DEF TypeOK
  <2>3. QED
    BY <1>10, <2>1, <2>2 DEF NotifyPhone, TypeOK, codes, history
<1>11. ASSUME NEW k \in Keys, Lapse(k)
       PROVE  TypeOK'
  <2>1. NoCounter \in [count: Nat, ttl: BOOLEAN]
    BY DEF NoCounter
  <2>2. /\ code' \in [Keys -> 0 .. MaxCodes] /\ attempts' \in [Keys -> Nat]
        /\ rate' \in [Keys -> [count: Nat, ttl: BOOLEAN]]
        /\ marker' \in [Keys -> 0 .. MaxCodes]
    <3>1. 0 \in 0 .. MaxCodes
      BY EmailAssumption
    <3>2. /\ code' = code \/ code' = [code EXCEPT ![k] = 0]
          /\ attempts' = attempts \/ attempts' = [attempts EXCEPT ![k] = 0]
          /\ rate' = rate \/ rate' = [rate EXCEPT ![k] = NoCounter]
          /\ marker' = marker \/ marker' = [marker EXCEPT ![k] = 0]
      BY <1>11 DEF Lapse, codes
    <3>3. attempts' \in [Keys -> Nat]
      BY <3>2, CountsUp DEF TypeOK
    <3>4. rate' \in [Keys -> [count: Nat, ttl: BOOLEAN]]
      BY <2>1, <3>2 DEF TypeOK
    <3>5. code' \in [Keys -> 0 .. MaxCodes]
      BY <3>1, <3>2 DEF TypeOK
    <3>6. marker' \in [Keys -> 0 .. MaxCodes]
      BY <3>1, <3>2 DEF TypeOK
    <3>7. QED
      BY <3>3, <3>4, <3>5, <3>6
  <2>3. older' \subseteq Keys
    BY <1>11 DEF Lapse, TypeOK, codes
  <2>4. QED
    BY <1>11, <2>2, <2>3 DEF Lapse, TypeOK, accounts, history
<1>12. ASSUME NEW a \in Phones \X Roles, LapsePhone(a)
       PROVE  TypeOK'
  BY <1>12, CountsUp DEF LapsePhone, TypeOK, codes, history
<1>13. ASSUME UNCHANGED vars
       PROVE  TypeOK'
  BY <1>13 DEF vars, TypeOK
<1>14. QED
  BY <1>1, <1>2, <1>3, <1>4, <1>5, <1>6, <1>7, <1>8, <1>9, <1>10, <1>11, <1>12, <1>13
  DEF Next, Step, SendRefused, VerifyRefused, RegisterRefused

----------------------------------------------------------------------------
(* Requests *)

\* Rows and codes are only ever added.
LEMMA GrowsStep == Core /\ [Next]_vars => Grows
<1> SUFFICES ASSUME Core, [Next]_vars
             PROVE  Grows
  OBVIOUS
<1>1. issued \in Nat /\ registered \in Nat /\ issued + 1 \notin 1 .. issued
  BY EmailAssumption DEF Core, TypeOK
<1>2. ASSUME NEW p \in Procs, SetCode(p)
      PROVE  Grows
  BY <1>1, <1>2 DEF SetCode, Grows, accounts, Core, TypeOK
<1>3. ASSUME NEW p \in Procs, CommitUser(p)
      PROVE  Grows
  BY <1>1, <1>3 DEF CommitUser, Grows, history
<1>4. CASE registered' = registered /\ issued' = issued /\ issuedFor' = issuedFor
  BY <1>1, <1>4 DEF Grows
<1>5. ASSUME NEW p \in Procs,
             \/ ResetAttempts(p) \/ ChargeRate(p) \/ ExpireRate(p) \/ CountWrong(p)
             \/ DeleteCode(p) \/ AcceptEmail(p) \/ Recheck(p) \/ UpdateUserEmail(p)
             \/ SaveEmail(p) \/ RegisterCheck(p) \/ CreateUser(p) \/ NotifyPhone(p)
             \/ Unmark(p) \/ Abandon(p)
      PROVE  registered' = registered /\ issued' = issued /\ issuedFor' = issuedFor
  BY <1>5 DEF ResetAttempts, ChargeRate, ExpireRate, CountWrong, DeleteCode, AcceptEmail,
              Recheck, UpdateUserEmail, SaveEmail, RegisterCheck, CreateUser, NotifyPhone,
              Unmark, Abandon, accounts, history
<1>6. ASSUME NEW p \in Procs, NEW who, NEW e, NEW match,
             SendCheck(p, who, e) \/ VerifyRead(p, who, e, match)
      PROVE  registered' = registered /\ issued' = issued /\ issuedFor' = issuedFor
  BY <1>6 DEF SendCheck, VerifyRead, accounts, history
<1>7. ASSUME NEW p \in Procs, NEW g, NEW e, NEW ph, NEW r, RegisterRead(p, g, e, ph, r)
      PROVE  registered' = registered /\ issued' = issued /\ issuedFor' = issuedFor
  BY <1>7 DEF RegisterRead, accounts, history
<1>8. ASSUME NEW k, Lapse(k) \/ LapsePhone(k)
      PROVE  registered' = registered /\ issued' = issued /\ issuedFor' = issuedFor
  BY <1>8 DEF Lapse, LapsePhone, accounts, history
<1>9. QED
  BY <1>2, <1>3, <1>4, <1>5, <1>6, <1>7, <1>8
  DEF Next, Step, SendRefused, VerifyRefused, RegisterRefused, vars

\* A request that goes on keeps what it carries.
LEMMA GoesOn ==
    ASSUME TypeOK, RequestsSound, Grows, TypeOK', NEW p \in Procs, NEW step \in Steps,
           Goto(p, step), req[p].pc # "idle", step # "accept",
           step \in UserSteps => req[p].pc \in UserSteps,
           step \in RegisterSteps => req[p].pc \in RegisterSteps,
           step \in Redeeming => req[p].pc \in Redeeming
    PROVE  RequestsSound'
<1>1. /\ req'[p].pc = step /\ req'[p].who = req[p].who /\ req'[p].email = req[p].email
      /\ req'[p].phone = req[p].phone /\ req'[p].role = req[p].role
      /\ req'[p].code = req[p].code
      /\ \A q \in Procs \ {p} : req'[q] = req[q]
  BY Moves DEF TypeOK, Request
<1>2. Sound(req[p])
  BY DEF RequestsSound
<1>3. req[p].who \in Callers /\ LoggedIn(req[p].who)
  BY <1>2 DEF Sound
<1>4. LoggedIn(req[p].who)'
  BY <1>1, <1>3, EmailAssumption DEF LoggedIn, Grows, TypeOK, Callers, UserId
<1>5. Known(req[p].code, req[p].who, req[p].email)
        => Known(req[p].code, req[p].who, req[p].email)'
  BY <1>1, EmailAssumption DEF Known, Grows, TypeOK
<1>6. Sound(req[p])'
  BY <1>1, <1>2, <1>3, <1>4, <1>5 DEF Sound
<1>7. QED
  BY <1>1, <1>6, SoundStays

\* A request that ends carries nothing.
LEMMA Ends ==
    ASSUME TypeOK, RequestsSound, Grows, TypeOK', NEW p \in Procs, Finish(p)
    PROVE  RequestsSound'
<1>1. req'[p].pc = "idle" /\ \A q \in Procs \ {p} : req'[q] = req[q]
  BY Moves
<1>2. Sound(req[p])'
  BY <1>1 DEF Sound, UserSteps, RegisterSteps, Redeeming
<1>3. QED
  BY <1>1, <1>2, SoundStays

\* A request that starts is sound, and every step leaves it so.
LEMMA SoundStep == Core /\ [Next]_vars => RequestsSound'
<1> SUFFICES ASSUME Core, [Next]_vars
             PROVE  RequestsSound'
  OBVIOUS
<1> USE DEF Core
<1>1. TypeOK' /\ Grows
  BY TypeStep, GrowsStep
<1>2. ASSUME NEW p \in Procs, NEW who \in Callers, NEW e \in Emails, SendCheck(p, who, e)
      PROVE  RequestsSound'
  <2>1. "set" \in Steps /\ 0 \in 0 .. MaxCodes
    BY EmailAssumption DEF Steps, SendSteps
  <2>2. /\ req'[p].pc = "set" /\ req'[p].who = who /\ req'[p].email = e
        /\ \A q \in Procs \ {p} : req'[q] = req[q]
    BY <1>2, <2>1, Starts DEF SendCheck
  <2>3. LoggedIn(who) /\ registered' = registered
    BY <1>2 DEF SendCheck, SendAllowed, accounts
  <2>4. Sound(req[p])'
    BY <2>2, <2>3 DEF Sound, LoggedIn, UserSteps, RegisterSteps, Redeeming
  <2>5. QED
    BY <1>1, <2>2, <2>4, SoundStays
<1>3. ASSUME NEW p \in Procs, NEW who \in Callers, NEW e \in Emails, NEW match \in BOOLEAN,
             VerifyRead(p, who, e, match)
      PROVE  RequestsSound'
  <2>1. {"count", "accept", "recheck"} \subseteq Steps
    BY DEF Steps, AnswerSteps
  <2>2. code[Key(who, e)] \in 0 .. MaxCodes /\ code[Key(who, e)] # 0
    BY <1>3, KeyThere DEF VerifyRead, TypeOK
  <2>3. wrong[code[Key(who, e)]] \in Nat
    BY <2>2, EmailAssumption DEF TypeOK, CodeId
  <2>4. \E step \in {"count", "accept", "recheck"} :
          /\ Start(p, step, who, e, code[Key(who, e)], wrong[code[Key(who, e)]])
          /\ step = "accept" => who.kind = "guest"
          /\ step = "recheck" => who.kind = "user"
    BY <1>3 DEF VerifyRead
  <2>5. PICK step \in {"count", "accept", "recheck"} :
          /\ Start(p, step, who, e, code[Key(who, e)], wrong[code[Key(who, e)]])
          /\ step = "accept" => who.kind = "guest"
          /\ step = "recheck" => who.kind = "user"
    BY <2>4
  <2>6. /\ req'[p].pc = step /\ req'[p].who = who /\ req'[p].email = e
        /\ req'[p].role = None /\ req'[p].code = code[Key(who, e)]
        /\ \A q \in Procs \ {p} : req'[q] = req[q]
    BY <2>1, <2>2, <2>3, <2>5, Starts
  <2>7. Known(code[Key(who, e)], who, e)
    BY <2>2 DEF StoresProven, CodeProven
  <2>8. Known(req[p].code, req[p].who, req[p].email)'
    BY <1>3, <2>6, <2>7 DEF Known, VerifyRead, history
  <2>9. LoggedIn(who) /\ registered' = registered
    BY <1>3 DEF VerifyRead, accounts
  <2>10. Sound(req[p])'
    BY <2>5, <2>6, <2>8, <2>9 DEF Sound, LoggedIn, UserSteps, RegisterSteps
  <2>11. QED
    BY <1>1, <2>6, <2>10, SoundStays
<1>4. ASSUME NEW p \in Procs, NEW g \in Guests, NEW e \in Emails, NEW ph \in Phones,
             NEW r \in Roles, RegisterRead(p, g, e, ph, r)
      PROVE  RequestsSound'
  <2>1. /\ req'[p] = [pc |-> "check", who |-> Guest(g), email |-> e, phone |-> ph, role |-> r,
                      code |-> marker[Key(Guest(g), e)], seen |-> 0]
        /\ \A q \in Procs \ {p} : req'[q] = req[q]
    BY <1>4 DEF RegisterRead, TypeOK
  <2>2. Known(marker[Key(Guest(g), e)], Guest(g), e)
    BY <1>4 DEF StoresProven, MarkerProven, RegisterRead
  <2>3. Known(req[p].code, req[p].who, req[p].email)'
    BY <1>4, <2>1, <2>2 DEF Known, RegisterRead, history
  <2>4. Guest(g) \in Callers /\ Guest(g).kind = "guest" /\ Guest(g).kind # "user"
    BY CallersAre
  <2>5. Sound(req[p])'
    BY <2>1, <2>3, <2>4 DEF Sound, LoggedIn, UserSteps, RegisterSteps
  <2>6. QED
    BY <1>1, <2>1, <2>5, SoundStays
<1>5. ASSUME NEW p \in Procs,
             NEW from \in Steps \ {"idle", "accept"}, NEW step \in Steps \ {"accept"},
             req[p].pc = from, Goto(p, step),
             <<from, step>> \in {<<"set", "reset">>, <<"reset", "charge">>, <<"charge", "expire">>,
                                 <<"count", "burn">>, <<"recheck", "update">>,
                                 <<"update", "save">>, <<"save", "drop">>, <<"check", "insert">>,
                                 <<"insert", "notify">>, <<"notify", "commit">>,
                                 <<"commit", "unmark">>}
      PROVE  RequestsSound'
  BY <1>1, <1>5, GoesOn DEF UserSteps, RegisterSteps, Redeeming
<1>6. ASSUME NEW p \in Procs, AcceptEmail(p)
      PROVE  RequestsSound'
  BY <1>1, <1>6, GoesOn DEF AcceptEmail, UserSteps, RegisterSteps, Redeeming, Steps, AnswerSteps
<1>7. ASSUME NEW p \in Procs, Finish(p)
      PROVE  RequestsSound'
  BY <1>1, <1>7, Ends
<1>8. ASSUME NEW p \in Procs, SetCode(p) \/ ResetAttempts(p) \/ ChargeRate(p) \/ ExpireRate(p)
      PROVE  RequestsSound'
  BY <1>5, <1>7, <1>8 DEF SetCode, ResetAttempts, ChargeRate, ExpireRate, Steps, SendSteps
<1>9. ASSUME NEW p \in Procs,
             CountWrong(p) \/ DeleteCode(p) \/ Recheck(p) \/ UpdateUserEmail(p) \/ SaveEmail(p)
      PROVE  RequestsSound'
  BY <1>5, <1>7, <1>9 DEF CountWrong, DeleteCode, Recheck, UpdateUserEmail, SaveEmail, Steps,
                          AnswerSteps
<1>10. ASSUME NEW p \in Procs,
              RegisterCheck(p) \/ CreateUser(p) \/ NotifyPhone(p) \/ CommitUser(p) \/ Unmark(p)
       PROVE  RequestsSound'
  BY <1>5, <1>7, <1>10 DEF RegisterCheck, CreateUser, NotifyPhone, CommitUser, Unmark, Steps,
                           RegisterSteps
<1>11. CASE req' = req
  BY <1>1, <1>11, SoundWaits DEF RequestsSound
<1>12. QED
  BY <1>2, <1>3, <1>4, <1>6, <1>7, <1>8, <1>9, <1>10, <1>11
  DEF Next, Step, Abandon, Lapse, LapsePhone, SendRefused, VerifyRefused, RegisterRefused, vars

----------------------------------------------------------------------------
(* What is stored *)

\* Every address written down was proven.
LEMMA ProvenStep == Core /\ [Next]_vars => StoresProven'
<1> SUFFICES ASSUME Core, [Next]_vars
             PROVE  StoresProven'
  OBVIOUS
<1> USE DEF Core
<1>1. TypeOK' /\ Grows
  BY TypeStep, GrowsStep
<1>2. ASSUME NEW p \in Procs, SetCode(p)
      PROVE  StoresProven'
  <2>1. PICK who0 \in Callers, e0 \in Emails : who0 = req[p].who /\ e0 = req[p].email
    BY <1>2, KeyOfThere DEF SetCode
  <2>2. PICK c \in CodeId : c = issued + 1 /\ c \in 1 .. issued'
    BY <1>2, EmailAssumption DEF SetCode, TypeOK, CodeId
  <2>3. code' = [code EXCEPT ![Key(who0, e0)] = c]
    BY <1>2, <2>1, <2>2 DEF SetCode, KeyOf
  <2>4. Known(c, who0, e0)'
    BY <1>2, <2>1, <2>2 DEF SetCode, Known, TypeOK
  <2>5. ASSUME NEW who \in Callers, NEW e \in Emails
        PROVE  CodeProven(who, e)'
    <3>1. CASE Key(who, e) = Key(who0, e0)
      <4>1. who = who0 /\ e = e0
        BY <3>1, KeysApart
      <4>2. code'[Key(who, e)] = c
        BY <2>3, <3>1, KeyThere DEF TypeOK
      <4>3. QED
        BY <2>4, <4>1, <4>2 DEF CodeProven, Known
    <3>2. CASE Key(who, e) # Key(who0, e0)
      <4>1. code'[Key(who, e)] = code[Key(who, e)]
        BY <2>3, <3>2, KeyThere DEF TypeOK
      <4>2. QED
        BY <1>1, <4>1, CodeStays DEF StoresProven
    <3>3. QED
      BY <3>1, <3>2
  <2>6. \A g \in Guests, e \in Emails : MarkerProven(g, e)'
    BY <1>1, <1>2, MarkerStays DEF SetCode, StoresProven
  <2>7. \A u \in Rows' : RowProven(u)'
    BY <1>1, <1>2, RowStays DEF SetCode, accounts, StoresProven, Rows
  <2>8. QED
    BY <2>5, <2>6, <2>7 DEF StoresProven
<1>3. ASSUME NEW p \in Procs, AcceptEmail(p)
      PROVE  StoresProven'
  <2>1. PICK who0 \in Callers, e0 \in Emails : who0 = req[p].who /\ e0 = req[p].email
    BY <1>3, KeyOfThere DEF AcceptEmail
  <2>2. Known(req[p].code, who0, e0)
    BY <1>3, <2>1 DEF AcceptEmail, RequestsSound, Sound, Redeeming
  <2>3. PICK c : c = req[p].code
    OBVIOUS
  <2>4. marker' = [marker EXCEPT ![Key(who0, e0)] = c] /\ Known(c, who0, e0)'
    BY <1>1, <1>3, <2>1, <2>2, <2>3, KnownStays DEF AcceptEmail, KeyOf
  <2>5. ASSUME NEW g \in Guests, NEW e \in Emails
        PROVE  MarkerProven(g, e)'
    <3>1. CASE Key(Guest(g), e) = Key(who0, e0)
      <4>1. Guest(g) = who0 /\ e = e0
        BY <3>1, KeysApart, CallersAre
      <4>2. marker'[Key(Guest(g), e)] = c
        BY <2>4, <3>1, KeyThere, CallersAre DEF TypeOK
      <4>3. QED
        BY <2>4, <4>1, <4>2 DEF MarkerProven, Known
    <3>2. CASE Key(Guest(g), e) # Key(who0, e0)
      <4>1. marker'[Key(Guest(g), e)] = marker[Key(Guest(g), e)]
        BY <2>4, <3>2, KeyThere, CallersAre DEF TypeOK
      <4>2. QED
        BY <1>1, <4>1, MarkerStays DEF StoresProven
    <3>3. QED
      BY <3>1, <3>2
  <2>6. \A who \in Callers, e \in Emails : CodeProven(who, e)'
    BY <1>1, <1>3, CodeStays DEF AcceptEmail, codes, StoresProven
  <2>7. \A u \in Rows' : RowProven(u)'
    BY <1>1, <1>3, RowStays DEF AcceptEmail, accounts, StoresProven, Rows
  <2>8. QED
    BY <2>5, <2>6, <2>7 DEF StoresProven
<1>4. ASSUME NEW p \in Procs, SaveEmail(p) \/ CommitUser(p)
      PROVE  StoresProven'
  <2>1. PICK who0 \in Callers, e0 \in Emails : who0 = req[p].who /\ e0 = req[p].email
    BY <1>4, KeyOfThere DEF SaveEmail, CommitUser
  <2>2. PICK c : c = req[p].code
    OBVIOUS
  <2>3. Known(c, who0, e0)'
    BY <1>1, <1>4, <2>1, <2>2, KnownStays
    DEF SaveEmail, CommitUser, RequestsSound, Sound, Redeeming, UserSteps
  <2>4. ASSUME NEW u \in Rows'
        PROVE  RowProven(u)'
    <3>1. u \in UserId
      BY <1>1, <2>4, EmailAssumption DEF TypeOK, Rows, UserId
    <3>2. CASE users'[u] = users[u] /\ u \in Rows
      BY <1>1, <3>2, RowStays DEF StoresProven
    <3>3. CASE /\ users'[u].proof = c /\ users'[u].email = e0
               /\ who0 \in {User(u)} \cup {Guest(g) : g \in Guests}
      BY <2>3, <3>3 DEF RowProven, Known
    <3>4. CASE SaveEmail(p)
      <4>1. who0.kind = "user" /\ who0 = User(who0.id)
        BY <2>1, <2>2, <3>4, CallersAre DEF SaveEmail, RequestsSound, Sound, UserSteps
      <4>2. users[u] \in [phone: Phones \cup {None}, role: Roles \cup {None},
                          email: Emails \cup {None}, proof: 0 .. MaxCodes]
        BY <3>1 DEF TypeOK
      <4>3. users' = [users EXCEPT ![who0.id] = [@ EXCEPT !.email = e0, !.proof = c]]
        BY <2>1, <2>2, <3>4 DEF SaveEmail
      <4>4. CASE u = who0.id
        BY <3>1, <3>3, <4>1, <4>2, <4>3, <4>4 DEF TypeOK
      <4>5. CASE u # who0.id
        BY <2>4, <3>1, <3>2, <3>4, <4>3, <4>5 DEF TypeOK, SaveEmail, Rows
      <4>6. QED
        BY <4>4, <4>5
    <3>5. CASE CommitUser(p)
      <4>1. who0 \in {Guest(g) : g \in Guests}
        BY <2>1, <2>2, <3>5, CallersAre DEF CommitUser, RequestsSound, Sound, RegisterSteps
      <4>2. u = registered + 1 \/ (u \in Rows /\ u # registered + 1)
        BY <2>4, <3>5 DEF CommitUser, Rows, TypeOK
      <4>3. CASE u = registered + 1
        BY <2>1, <2>2, <3>1, <3>3, <3>5, <4>1, <4>3 DEF CommitUser, TypeOK
      <4>4. CASE u \in Rows /\ u # registered + 1
        BY <3>1, <3>2, <3>5, <4>4 DEF CommitUser, TypeOK
      <4>5. QED
        BY <4>2, <4>3, <4>4
    <3>6. QED
      BY <1>4, <3>4, <3>5
  <2>5. \A who \in Callers, e \in Emails : CodeProven(who, e)'
    BY <1>1, <1>4, CodeStays DEF SaveEmail, CommitUser, codes, StoresProven
  <2>6. \A g \in Guests, e \in Emails : MarkerProven(g, e)'
    BY <1>1, <1>4, MarkerStays DEF SaveEmail, CommitUser, StoresProven
  <2>7. QED
    BY <2>4, <2>5, <2>6 DEF StoresProven
<1>5. CASE code' = code /\ marker' = marker /\ users' = users /\ registered' = registered
  BY <1>1, <1>5, ProvenStays
<1>6. ASSUME NEW p \in Procs, DeleteCode(p)
      PROVE  StoresProven'
  BY <1>1, <1>6, ProvenStays DEF DeleteCode, TypeOK, accounts
<1>7. ASSUME NEW p \in Procs, Unmark(p)
      PROVE  StoresProven'
  BY <1>1, <1>7, ProvenStays DEF Unmark, TypeOK, accounts, codes
<1>8. ASSUME NEW k \in Keys, Lapse(k)
      PROVE  StoresProven'
  <2>1. /\ code' = code \/ code' = [code EXCEPT ![k] = 0]
        /\ marker' = marker \/ marker' = [marker EXCEPT ![k] = 0]
        /\ users' = users /\ registered' = registered
    BY <1>8 DEF Lapse, codes, accounts
  <2>2. /\ \A j \in Keys : code'[j] \in {0, code[j]}
        /\ \A j \in Keys : marker'[j] \in {0, marker[j]}
    BY <2>1 DEF TypeOK
  <2>3. QED
    BY <1>1, <2>1, <2>2, ProvenStays
<1>9. ASSUME NEW p \in Procs,
             \/ ResetAttempts(p) \/ ChargeRate(p) \/ ExpireRate(p) \/ CountWrong(p)
             \/ Recheck(p) \/ UpdateUserEmail(p) \/ RegisterCheck(p) \/ CreateUser(p)
             \/ NotifyPhone(p) \/ Abandon(p)
      PROVE  StoresProven'
  BY <1>5, <1>9 DEF ResetAttempts, ChargeRate, ExpireRate, CountWrong, Recheck,
                    UpdateUserEmail, RegisterCheck, CreateUser, NotifyPhone, Abandon,
                    accounts, codes
<1>10. ASSUME NEW p \in Procs, NEW who, NEW e, NEW match,
              SendCheck(p, who, e) \/ VerifyRead(p, who, e, match)
       PROVE  StoresProven'
  BY <1>5, <1>10 DEF SendCheck, VerifyRead, accounts, codes
<1>11. ASSUME NEW p \in Procs, NEW g, NEW e, NEW ph, NEW r, RegisterRead(p, g, e, ph, r)
       PROVE  StoresProven'
  BY <1>5, <1>11 DEF RegisterRead, accounts, codes
<1>12. ASSUME NEW a, LapsePhone(a)
       PROVE  StoresProven'
  BY <1>5, <1>12 DEF LapsePhone, codes
<1>13. QED
  BY <1>2, <1>3, <1>4, <1>5, <1>6, <1>7, <1>8, <1>9, <1>10, <1>11, <1>12
  DEF Next, Step, SendRefused, VerifyRefused, RegisterRefused, vars

\* Requests, codes, markers and accounts fit together in every state.
THEOREM CoreInvariant == Spec => []Core
<1>1. Core /\ [Next]_vars => Core'
  BY TypeStep, SoundStep, ProvenStep DEF Core
<1>2. QED
  BY <1>1, InitCore, PTL DEF Spec

\* Every variable keeps its type.
THEOREM TypeCorrect == Spec => []TypeOK
<1>1. Core => TypeOK
  BY DEF Core
<1>2. QED
  BY <1>1, CoreInvariant, PTL

\* No address is stored unproven, for any number of guests, users and addresses,
\* whatever fails: a code, the marker it leaves and the account or the change
\* that uses it belong to one caller and one address.
THEOREM AddressesProven == Spec => []EmailProven
<1>1. ASSUME Core
      PROVE  EmailProven
  <2>1. \A c, who, e : Known(c, who, e) => Issued(c, who, e)
    BY EmailAssumption DEF Known, Issued
  <2>2. \A p \in Procs : req[p].pc \in {"count", "accept", "recheck", "update", "save"} =>
                            Issued(req[p].code, req[p].who, req[p].email)
    BY <1>1, <2>1 DEF Core, RequestsSound, Sound, Redeeming, UserSteps
  <2>3. \A g \in Guests, e \in Emails :
          marker[Key(Guest(g), e)] # 0 => Issued(marker[Key(Guest(g), e)], Guest(g), e)
    BY <1>1, <2>1 DEF Core, StoresProven, MarkerProven
  <2>4. \A u \in Rows : \E who \in {User(u)} \cup {Guest(g) : g \in Guests} :
          Issued(users[u].proof, who, users[u].email)
    BY <1>1, <2>1 DEF Core, StoresProven, RowProven
  <2>5. QED
    BY <2>2, <2>3, <2>4 DEF EmailProven
<1>2. QED
  BY <1>1, CoreInvariant, PTL

----------------------------------------------------------------------------
(* The unique indexes *)

Inserting == {"notify", "commit"}

\* No row has an index entry that a transaction in progress has taken.
EntriesFree(p) ==
    /\ req[p].pc \in Inserting =>
          \A v \in Rows : users[v].role = req[p].role =>
              users[v].phone # req[p].phone /\ users[v].email # req[p].email
    /\ req[p].pc = "save" =>
          \A v \in Rows \ {req[p].who.id} : users[v].role = RoleOf(p) =>
              users[v].email # req[p].email

\* Nor have two transactions taken the same.
EntriesApart(p, q) ==
    /\ Pending(p) /\ Pending(q) /\ RoleOf(p) = RoleOf(q) => req[p].email # req[q].email
    /\ req[p].pc \in Inserting /\ req[q].pc \in Inserting /\ req[p].role = req[q].role =>
          req[p].phone # req[q].phone

Index ==
    /\ AccountsUnique
    /\ \A p \in Procs : EntriesFree(p)
    /\ \A p, q \in Procs : p # q => EntriesApart(p, q)

\* Which index entries a transaction in progress has taken.
LEMMA RolesOf ==
    ASSUME Core, NEW p \in Procs
    PROVE  /\ req[p].pc \in Inserting => RoleOf(p) = req[p].role
           /\ req[p].pc \in UserSteps =>
                 RoleOf(p) = users[req[p].who.id].role /\ req[p].who.id \in Rows
           /\ Pending(p) <=> req[p].pc \in Inserting \cup {"save"}
<1>1. Sound(req[p])
  BY DEF Core, RequestsSound
<1>2. req[p].pc \in Inserting => RoleOf(p) = req[p].role
  BY <1>1, EmailAssumption DEF Sound, RoleOf, Inserting, RegisterSteps
<1>3. ASSUME req[p].pc \in UserSteps
      PROVE  RoleOf(p) = users[req[p].who.id].role /\ req[p].who.id \in Rows
  <2>1. RoleOf(p) = users[req[p].who.id].role
    BY <1>1, <1>3 DEF Sound, RoleOf
  <2>2. req[p].who.id \in UserId /\ req[p].who.id <= registered
    BY <1>1, <1>3, CallersAre DEF Sound, LoggedIn, UserSteps
  <2>3. QED
    BY <2>1, <2>2, EmailAssumption DEF Rows, UserId, Core, TypeOK
<1>4. QED
  BY <1>2, <1>3 DEF Pending, Inserting

\* Where no row is written and no index entry is taken, the index stays as it is.
LEMMA IndexStays ==
    ASSUME Core, Core', Index, users' = users, registered' = registered,
           \A p \in Procs : req'[p].pc \in Inserting \cup {"save"} =>
              /\ (req[p].pc \in Inserting) = (req'[p].pc \in Inserting)
              /\ (req[p].pc = "save") = (req'[p].pc = "save")
              /\ req'[p].who = req[p].who /\ req'[p].email = req[p].email
              /\ req'[p].phone = req[p].phone /\ req'[p].role = req[p].role
    PROVE  Index'
<1>1. AccountsUnique' /\ Rows' = Rows
  BY DEF Index, AccountsUnique, Rows
<1>2. ASSUME NEW p \in Procs, req'[p].pc \in Inserting \cup {"save"}
      PROVE  RoleOf(p)' = RoleOf(p)
  BY <1>2 DEF RoleOf
<1>3. ASSUME NEW p \in Procs
      PROVE  EntriesFree(p)'
  BY <1>1, <1>2 DEF Index, EntriesFree
<1>4. ASSUME NEW p \in Procs, NEW q \in Procs, p # q
      PROVE  EntriesApart(p, q)'
  BY <1>2, <1>4, RolesOf DEF Index, EntriesApart, Pending, Inserting
<1>5. QED
  BY <1>1, <1>3, <1>4 DEF Index

\* A request that neither takes an entry nor writes a row.
LEMMA Bystands ==
    ASSUME Core, Core', Index, users' = users, registered' = registered, NEW p \in Procs,
           req'[p].pc \notin Inserting \cup {"save"},
           \A q \in Procs \ {p} : req'[q] = req[q]
    PROVE  Index'
  BY IndexStays

\* A transaction takes entries that no row has and no other transaction.
LEMMA EntriesTaken ==
    ASSUME Core, Core', Index, users' = users, registered' = registered, NEW p \in Procs,
           ~Pending(p), \A q \in Procs \ {p} : req'[q] = req[q],
           EntriesFree(p)',
           \A q \in Procs \ {p} : EntriesApart(p, q)' /\ EntriesApart(q, p)'
    PROVE  Index'
<1>1. AccountsUnique' /\ Rows' = Rows
  BY DEF Index, AccountsUnique, Rows
<1>2. ASSUME NEW q \in Procs \ {p}
      PROVE  RoleOf(q)' = RoleOf(q)
  BY <1>2 DEF RoleOf
<1>3. ASSUME NEW q \in Procs \ {p}
      PROVE  EntriesFree(q)'
  BY <1>1, <1>2, <1>3 DEF Index, EntriesFree
<1>4. ASSUME NEW q \in Procs \ {p}, NEW r \in Procs \ {p}, q # r
      PROVE  EntriesApart(q, r)'
  BY <1>2, <1>4 DEF Index, EntriesApart, Pending
<1>5. QED
  BY <1>1, <1>3, <1>4 DEF Index

LEMMA CreateUserIndex ==
    ASSUME Core, Core', Index, NEW p \in Procs, CreateUser(p)
    PROVE  Index'
<1>1. users' = users /\ registered' = registered
  BY DEF CreateUser, accounts
<1>2. CASE Finish(p)
  <2>1. req'[p].pc = "idle" /\ \A q \in Procs \ {p} : req'[q] = req[q]
    BY <1>2, Moves DEF Core
  <2>2. QED
    BY <1>1, <2>1, Bystands DEF Inserting
<1>3. CASE Goto(p, "notify") /\ ~PhoneTaken(req[p].phone, req[p].role)
           /\ ~EmailTaken(req[p].email, req[p].role)
  <2>1. "notify" \in Steps
    BY DEF Steps, RegisterSteps
  <2>2. req'[p] = [req[p] EXCEPT !.pc = "notify"] /\ \A q \in Procs \ {p} : req'[q] = req[q]
    BY <1>3, <2>1, Moves DEF Core
  <2>3. /\ req'[p].pc = "notify" /\ req'[p].email = req[p].email
        /\ req'[p].phone = req[p].phone /\ req'[p].role = req[p].role
    BY <2>2 DEF Core, TypeOK, Request
  <2>4. ~Pending(p)
    BY DEF CreateUser, Pending
  <2>5. EntriesFree(p)'
    BY <1>1, <1>3, <2>3 DEF EntriesFree, PhoneTaken, EmailTaken, Rows
  <2>6. RoleOf(p)' = req[p].role
    <3>1. RoleOf(p)' = req'[p].role
      BY <2>3, RolesOf, EmailAssumption DEF Core, RequestsSound, Sound, RoleOf, RegisterSteps
    <3>2. QED
      BY <2>3, <3>1
  <2>7. ASSUME NEW q \in Procs \ {p}
        PROVE  EntriesApart(p, q)' /\ EntriesApart(q, p)'
    <3>1. RoleOf(q)' = RoleOf(q) /\ Pending(q)' = Pending(q)
      BY <1>1, <2>2 DEF RoleOf, Pending
    <3>2. Pending(q) /\ RoleOf(q) = req[p].role => req[q].email # req[p].email
      BY DEF CreateUser, EmailHeld
    <3>3. Pending(q) /\ req[q].role = req[p].role => req[q].phone # req[p].phone
      BY DEF CreateUser, PhoneHeld
    <3>4. QED
      BY <2>2, <2>3, <2>6, <3>1, <3>2, <3>3 DEF EntriesApart, Pending, Inserting
  <2>8. QED
    BY <1>1, <2>2, <2>4, <2>5, <2>7, EntriesTaken
<1>4. QED
  BY <1>2, <1>3 DEF CreateUser

LEMMA UpdateUserIndex ==
    ASSUME Core, Core', Index, NEW p \in Procs, UpdateUserEmail(p)
    PROVE  Index'
<1>1. users' = users /\ registered' = registered
  BY DEF UpdateUserEmail, accounts
<1>2. CASE Finish(p)
  <2>1. req'[p].pc = "idle" /\ \A q \in Procs \ {p} : req'[q] = req[q]
    BY <1>2, Moves DEF Core
  <2>2. QED
    BY <1>1, <2>1, Bystands DEF Inserting
<1>3. CASE /\ Goto(p, "save")
           /\ \A v \in Rows \ {req[p].who.id} :
                 ~(users[v].email = req[p].email /\ users[v].role = users[req[p].who.id].role)
  <2>1. "save" \in Steps
    BY DEF Steps, AnswerSteps
  <2>2. req'[p] = [req[p] EXCEPT !.pc = "save"] /\ \A q \in Procs \ {p} : req'[q] = req[q]
    BY <1>3, <2>1, Moves DEF Core
  <2>3. /\ req'[p].pc = "save" /\ req'[p].email = req[p].email
        /\ req'[p].who = req[p].who /\ req'[p].role = req[p].role
    BY <2>2 DEF Core, TypeOK, Request
  <2>4. ~Pending(p)
    BY DEF UpdateUserEmail, Pending
  <2>5. RoleOf(p) = users[req[p].who.id].role /\ RoleOf(p)' = RoleOf(p)
    BY <1>1, <2>3, RolesOf DEF RoleOf, UpdateUserEmail, UserSteps
  <2>6. EntriesFree(p)'
    BY <1>1, <1>3, <2>3, <2>5 DEF EntriesFree, Rows, Inserting
  <2>7. ASSUME NEW q \in Procs \ {p}
        PROVE  EntriesApart(p, q)' /\ EntriesApart(q, p)'
    <3>1. RoleOf(q)' = RoleOf(q) /\ Pending(q)' = Pending(q)
      BY <1>1, <2>2 DEF RoleOf, Pending
    <3>2. Pending(q) /\ RoleOf(q) = RoleOf(p) => req[q].email # req[p].email
      BY <2>5 DEF UpdateUserEmail, EmailHeld
    <3>3. QED
      BY <2>2, <2>3, <2>5, <3>1, <3>2 DEF EntriesApart, Inserting
  <2>8. QED
    BY <1>1, <2>2, <2>4, <2>6, <2>7, EntriesTaken
<1>4. QED
  BY <1>2, <1>3 DEF UpdateUserEmail

\* One row is written with the entries its transaction had taken, and the
\* transaction is over.
LEMMA RowWritten ==
    ASSUME Core, Core', Index, NEW p \in Procs, NEW n \in UserId,
           \A q \in Procs \ {p} : req'[q] = req[q],
           ~Pending(p)', Pending(p),
           Rows' = Rows \cup {n},
           \A v \in Rows \ {n} : users'[v] = users[v],
           users'[n].role = RoleOf(p), users'[n].email = req[p].email,
           n \in Rows => users'[n].phone = users[n].phone /\ users[n].role = RoleOf(p),
           n \notin Rows => users'[n].phone = req[p].phone /\ req[p].pc \in Inserting,
           req[p].pc = "save" => n = req[p].who.id /\ n \in Rows,
           req[p].pc \in Inserting => n \notin Rows
    PROVE  Index'
<1>1. ASSUME NEW q \in Procs \ {p}, Pending(q)
      PROVE  RoleOf(q)' = RoleOf(q)
  <2>1. CASE req[q].pc \in Inserting
    <3>1. req[q].role # None
      BY <2>1, EmailAssumption
      DEF Inserting, Core, RequestsSound, Sound, RegisterSteps
    <3>2. QED
      BY <1>1, <3>1 DEF RoleOf
  <2>2. CASE req[q].pc = "save"
    <3>1. req[q].who.id \in Rows
      BY <2>2, RolesOf DEF UserSteps
    <3>2. users'[req[q].who.id].role = users[req[q].who.id].role
      BY <3>1
    <3>3. QED
      BY <1>1, <3>2 DEF RoleOf
  <2>3. QED
    BY <1>1, <2>1, <2>2, RolesOf
<1>2. ASSUME NEW q \in Procs \ {p}
      PROVE  EntriesFree(q)'
  <2>1. EntriesFree(q) /\ EntriesApart(p, q)
    BY DEF Index
  <2>2. CASE req[q].pc \in Inserting
    <3>1. RoleOf(q) = req[q].role /\ Pending(q)
      BY <2>2, RolesOf
    <3>2. users'[n].role = req[q].role => users'[n].email # req[q].email
      BY <2>1, <3>1 DEF EntriesApart
    <3>3. users'[n].role = req[q].role => users'[n].phone # req[q].phone
      <4>1. CASE n \in Rows
        BY <2>1, <2>2, <4>1 DEF EntriesFree
      <4>2. CASE n \notin Rows
        BY <2>1, <2>2, <4>2, RolesOf DEF EntriesApart
      <4>3. QED
        BY <4>1, <4>2
    <3>4. QED
      BY <1>2, <2>1, <2>2, <3>2, <3>3 DEF EntriesFree, Inserting
  <2>3. CASE req[q].pc = "save"
    <3>1. Pending(q)
      BY <2>3 DEF Pending
    <3>2. users'[n].role = RoleOf(q) => users'[n].email # req[q].email
      BY <2>1, <3>1 DEF EntriesApart
    <3>3. RoleOf(q)' = RoleOf(q)
      BY <1>1, <3>1
    <3>4. QED
      BY <1>2, <2>1, <2>3, <3>2, <3>3 DEF EntriesFree, Inserting
  <2>4. QED
    BY <1>2, <2>2, <2>3 DEF EntriesFree
<1>3. ASSUME NEW q \in Procs \ {p}, NEW r \in Procs \ {p}, q # r
      PROVE  EntriesApart(q, r)'
  BY <1>1, <1>3 DEF Index, EntriesApart, Pending, Inserting
<1>4. ASSUME NEW q \in Procs
      PROVE  EntriesFree(p)' /\ EntriesApart(p, q)' /\ EntriesApart(q, p)'
  BY <1>4 DEF EntriesFree, EntriesApart, Pending, Inserting
<1>5. ASSUME NEW v \in Rows \ {n}, users'[v].role = users'[n].role
      PROVE  users'[v].phone # users'[n].phone /\ users'[v].email # users'[n].email
  <2>1. EntriesFree(p) /\ AccountsUnique
    BY DEF Index
  <2>2. CASE req[p].pc \in Inserting
    BY <1>5, <2>1, <2>2, RolesOf DEF EntriesFree
  <2>3. CASE req[p].pc = "save"
    BY <1>5, <2>1, <2>3 DEF EntriesFree, AccountsUnique
  <2>4. QED
    BY <2>2, <2>3, RolesOf
<1>6. AccountsUnique'
  BY <1>5 DEF Index, AccountsUnique
<1>7. QED
  BY <1>2, <1>3, <1>4, <1>6 DEF Index

LEMMA IndexStep == Core /\ Core' /\ Index /\ [Next]_vars => Index'
<1> SUFFICES ASSUME Core, Core', Index, [Next]_vars
             PROVE  Index'
  OBVIOUS
<1>1. TypeOK /\ RequestsSound
  BY DEF Core
<1>2. ASSUME NEW p \in Procs, SaveEmail(p)
      PROVE  Index'
  <2>1. /\ req'[p].pc = "drop" /\ \A q \in Procs \ {p} : req'[q] = req[q]
    BY <1>1, <1>2, Moves DEF SaveEmail, Steps, AnswerSteps
  <2>2. req[p].pc = "save" /\ RoleOf(p) = users[req[p].who.id].role /\ req[p].who.id \in Rows
    BY <1>2, RolesOf DEF SaveEmail, UserSteps
  <2>3. PICK n \in Rows : n = req[p].who.id
    BY <2>2
  <2>4. n \in UserId /\ Rows \subseteq UserId /\ Rows' = Rows
    BY <1>1, <1>2, EmailAssumption DEF TypeOK, Rows, UserId, SaveEmail
  <2>5. users' = [users EXCEPT ![n] = [@ EXCEPT !.email = req[p].email, !.proof = req[p].code]]
    BY <1>2, <2>3 DEF SaveEmail
  <2>6. /\ users'[n].email = req[p].email /\ users'[n].role = users[n].role
        /\ users'[n].phone = users[n].phone
        /\ \A v \in Rows \ {n} : users'[v] = users[v]
    BY <1>1, <2>4, <2>5 DEF TypeOK
  <2>7. ~Pending(p)' /\ Pending(p)
    BY <2>1, <2>2 DEF Pending
  <2>8. QED
    BY <2>1, <2>2, <2>3, <2>4, <2>6, <2>7, RowWritten DEF Inserting
<1>3. ASSUME NEW p \in Procs, CommitUser(p)
      PROVE  Index'
  <2>1. /\ req'[p].pc = "unmark" /\ \A q \in Procs \ {p} : req'[q] = req[q]
    BY <1>1, <1>3, Moves DEF CommitUser, Steps, RegisterSteps
  <2>2. req[p].pc = "commit" /\ RoleOf(p) = req[p].role
    BY <1>3, RolesOf DEF CommitUser, Inserting
  <2>3. PICK n \in UserId : n = registered + 1
    BY <1>1, <1>3, EmailAssumption DEF CommitUser, TypeOK, UserId
  <2>4. n \notin Rows /\ Rows \subseteq UserId /\ Rows' = Rows \cup {n}
    <3>1. registered \in 0 .. MaxUsers /\ registered' = registered + 1
      BY <1>1, <1>3 DEF TypeOK, CommitUser
    <3>2. QED
      BY <2>3, <3>1, EmailAssumption DEF Rows, UserId
  <2>5. /\ users'[n].email = req[p].email /\ users'[n].role = req[p].role
        /\ users'[n].phone = req[p].phone
        /\ \A v \in Rows \ {n} : users'[v] = users[v]
    BY <1>1, <1>3, <2>3, <2>4 DEF TypeOK, CommitUser
  <2>6. ~Pending(p)' /\ Pending(p)
    BY <2>1, <2>2 DEF Pending
  <2>7. QED
    BY <2>1, <2>2, <2>4, <2>5, <2>6, RowWritten DEF Inserting
<1>4. ASSUME NEW p \in Procs, NotifyPhone(p)
      PROVE  Index'
  <2>1. /\ req'[p] = [req[p] EXCEPT !.pc = "commit"] /\ \A q \in Procs \ {p} : req'[q] = req[q]
    BY <1>1, <1>4, Moves DEF NotifyPhone, Steps, RegisterSteps
  <2>2. /\ req'[p].pc = "commit" /\ req[p].pc = "notify" /\ req'[p].email = req[p].email
        /\ req'[p].who = req[p].who /\ req'[p].role = req[p].role
        /\ req'[p].phone = req[p].phone
    BY <1>1, <1>4, <2>1 DEF TypeOK, Request, NotifyPhone
  <2>3. users' = users /\ registered' = registered
    BY <1>4 DEF NotifyPhone
  <2>4. QED
    BY <2>1, <2>2, <2>3, IndexStays DEF Inserting
<1>5. ASSUME NEW p \in Procs, NEW step \in Steps \ (Inserting \cup {"save"}),
             Goto(p, step) \/ Finish(p), users' = users, registered' = registered
      PROVE  Index'
  <2>1. req'[p].pc \in {step, "idle"} /\ \A q \in Procs \ {p} : req'[q] = req[q]
    BY <1>1, <1>5, Moves
  <2>2. QED
    BY <1>5, <2>1, Bystands DEF Inserting
<1>6. ASSUME NEW p \in Procs,
             \/ SetCode(p) \/ ResetAttempts(p) \/ ChargeRate(p) \/ ExpireRate(p)
             \/ CountWrong(p) \/ DeleteCode(p) \/ AcceptEmail(p) \/ Recheck(p)
             \/ RegisterCheck(p) \/ Unmark(p) \/ Abandon(p)
      PROVE  Index'
  <2>1. users' = users /\ registered' = registered
    BY <1>6 DEF SetCode, ResetAttempts, ChargeRate, ExpireRate, CountWrong, DeleteCode,
                AcceptEmail, Recheck, RegisterCheck, Unmark, Abandon, accounts
  <2>2. {"reset", "charge", "expire", "burn", "drop", "update", "insert"}
          \subseteq Steps \ (Inserting \cup {"save"})
    BY DEF Steps, SendSteps, AnswerSteps, RegisterSteps, Inserting
  <2>3. \E step \in {"reset", "charge", "expire", "burn", "drop", "update", "insert"} :
          Goto(p, step) \/ Finish(p)
    BY <1>6 DEF SetCode, ResetAttempts, ChargeRate, ExpireRate, CountWrong, DeleteCode,
                AcceptEmail, Recheck, RegisterCheck, Unmark, Abandon
  <2>4. QED
    BY <1>5, <2>1, <2>2, <2>3
<1>7. ASSUME NEW p \in Procs, CreateUser(p) \/ UpdateUserEmail(p)
      PROVE  Index'
  BY <1>7, CreateUserIndex, UpdateUserIndex
<1>8. ASSUME NEW p \in Procs, NEW who, NEW e, NEW match,
             SendCheck(p, who, e) \/ VerifyRead(p, who, e, match)
      PROVE  Index'
  <2>1. users' = users /\ registered' = registered
    BY <1>8 DEF SendCheck, VerifyRead, accounts
  <2>2. PICK step \in {"set", "count", "accept", "recheck"} :
          \E c, n : Start(p, step, who, e, c, n)
    BY <1>8 DEF SendCheck, VerifyRead
  <2>3. req'[p].pc = step /\ \A q \in Procs \ {p} : req'[q] = req[q]
    BY <1>1, <2>2 DEF Start, TypeOK, Idle
  <2>4. QED
    BY <2>1, <2>3, Bystands DEF Inserting
<1>9. ASSUME NEW p \in Procs, NEW g, NEW e, NEW ph, NEW r, RegisterRead(p, g, e, ph, r)
      PROVE  Index'
  <2>1. users' = users /\ registered' = registered
    BY <1>9 DEF RegisterRead, accounts
  <2>2. req'[p].pc = "check" /\ \A q \in Procs \ {p} : req'[q] = req[q]
    BY <1>1, <1>9 DEF RegisterRead, TypeOK
  <2>3. QED
    BY <2>1, <2>2, Bystands DEF Inserting
<1>10. ASSUME users' = users, registered' = registered, req' = req
       PROVE  Index'
  BY <1>10, IndexStays
<1>11. ASSUME NEW k, Lapse(k) \/ LapsePhone(k)
       PROVE  Index'
  BY <1>10, <1>11 DEF Lapse, LapsePhone, accounts
<1>12. QED
  BY <1>2, <1>3, <1>4, <1>6, <1>7, <1>8, <1>9, <1>10, <1>11
  DEF Next, Step, SendRefused, VerifyRefused, RegisterRefused, vars

\* The index decides, for any number of sign-ups and address changes that passed
\* their checks together: accounts of a role share neither phone nor address.
THEOREM IndexHolds == Spec => []AccountsUnique
<1>1. Init => Index
  <2>1. ASSUME Init
        PROVE  Rows = {} /\ \A p \in Procs : req[p].pc = "idle"
    BY <2>1 DEF Init, Rows, Idle
  <2>2. QED
    BY <2>1 DEF Index, AccountsUnique, EntriesFree, EntriesApart, Pending, Inserting
<1>2. Index => AccountsUnique
  BY DEF Index
<1>3. QED
  BY <1>1, <1>2, IndexStep, CoreInvariant, PTL DEF Spec

----------------------------------------------------------------------------
(* The window of the send counter *)

\* Without failures the request that created a counter goes on to give it its
\* time to live.
LEMMA WindowStep == Core /\ EmailRateWindowCloses /\ [Next]_vars => EmailRateWindowCloses'
<1> SUFFICES ASSUME Core, EmailRateWindowCloses, [Next]_vars, CutAt = {}, NEW k \in Keys,
                    rate'[k].count > 0, ~rate'[k].ttl
             PROVE  \E p \in Procs : req'[p].pc = "expire" /\ KeyOf(p)' = k
  BY DEF EmailRateWindowCloses
<1>1. TypeOK /\ RequestsSound
  BY DEF Core
<1>2. ASSUME NEW p \in Procs, req[p].pc # "expire", \A q \in Procs \ {p} : req'[q] = req[q],
             rate' = rate
      PROVE  \E q \in Procs : req'[q].pc = "expire" /\ KeyOf(q)' = k
  <2>1. PICK q \in Procs : req[q].pc = "expire" /\ KeyOf(q) = k
    BY <1>2 DEF EmailRateWindowCloses
  <2>2. q # p
    BY <1>2, <2>1
  <2>3. QED
    BY <1>2, <2>1, <2>2 DEF KeyOf
<1>3. ASSUME NEW p \in Procs, ChargeRate(p)
      PROVE  \E q \in Procs : req'[q].pc = "expire" /\ KeyOf(q)' = k
  <2>1. "expire" \in Steps
    BY DEF Steps, SendSteps
  <2>2. rate' = [rate EXCEPT ![KeyOf(p)].count = @ + 1]
    BY <1>3 DEF ChargeRate
  <2>3. CASE KeyOf(p) = k /\ rate[k].count = 0
    <3>1. req'[p] = [req[p] EXCEPT !.pc = "expire"]
      BY <1>1, <1>3, <2>1, <2>3, Moves DEF ChargeRate
    <3>2. req'[p].pc = "expire" /\ KeyOf(p)' = KeyOf(p)
      BY <1>1, <3>1 DEF KeyOf, TypeOK, Request
    <3>3. QED
      BY <2>3, <3>2
  <2>4. CASE KeyOf(p) # k \/ rate[k].count # 0
    <3>1. rate[k].count > 0 /\ ~rate[k].ttl
      BY <1>1, <2>2, <2>4 DEF TypeOK
    <3>2. PICK q \in Procs : req[q].pc = "expire" /\ KeyOf(q) = k
      BY <3>1 DEF EmailRateWindowCloses
    <3>3. q # p /\ req'[q] = req[q]
      BY <1>1, <1>3, <2>1, <3>2, Moves DEF ChargeRate
    <3>4. QED
      BY <3>2, <3>3 DEF KeyOf
  <2>5. QED
    BY <2>3, <2>4
<1>4. ASSUME NEW p \in Procs, ExpireRate(p)
      PROVE  \E q \in Procs : req'[q].pc = "expire" /\ KeyOf(q)' = k
  <2>1. rate' = [rate EXCEPT ![KeyOf(p)].ttl = TRUE]
    BY <1>4 DEF ExpireRate
  <2>2. KeyOf(p) # k
    <3>1. KeyOf(p) = k => rate'[k].ttl = TRUE
      BY <1>1, <2>1 DEF TypeOK
    <3>2. QED
      BY <3>1
  <2>3. rate'[k] = rate[k]
    BY <1>1, <2>1, <2>2 DEF TypeOK
  <2>4. PICK q \in Procs : req[q].pc = "expire" /\ KeyOf(q) = k
    BY <2>3 DEF EmailRateWindowCloses
  <2>5. q # p /\ req'[q] = req[q]
    BY <1>1, <1>4, <2>2, <2>4, Moves DEF ExpireRate
  <2>6. QED
    BY <2>4, <2>5 DEF KeyOf
<1>5. ASSUME NEW p \in Procs, NEW step \in Steps, Goto(p, step) \/ Finish(p),
             req[p].pc # "expire", rate' = rate
      PROVE  \E q \in Procs : req'[q].pc = "expire" /\ KeyOf(q)' = k
  BY <1>1, <1>2, <1>5, Moves
<1>6. ASSUME NEW p \in Procs,
             \/ SetCode(p) \/ ResetAttempts(p) \/ CountWrong(p) \/ DeleteCode(p)
             \/ AcceptEmail(p) \/ Recheck(p) \/ UpdateUserEmail(p) \/ SaveEmail(p)
             \/ RegisterCheck(p) \/ CreateUser(p) \/ NotifyPhone(p) \/ CommitUser(p)
             \/ Unmark(p)
      PROVE  \E q \in Procs : req'[q].pc = "expire" /\ KeyOf(q)' = k
  <2>1. rate' = rate /\ req[p].pc # "expire"
    BY <1>6 DEF SetCode, ResetAttempts, CountWrong, DeleteCode, AcceptEmail, Recheck,
                UpdateUserEmail, SaveEmail, RegisterCheck, CreateUser, NotifyPhone, CommitUser,
                Unmark, codes
  <2>2. \E step \in Steps : Goto(p, step) \/ Finish(p)
    BY <1>6 DEF SetCode, ResetAttempts, CountWrong, DeleteCode, AcceptEmail, Recheck,
                UpdateUserEmail, SaveEmail, RegisterCheck, CreateUser, NotifyPhone, CommitUser,
                Unmark, Steps, SendSteps, AnswerSteps, RegisterSteps
  <2>3. QED
    BY <1>5, <2>1, <2>2
<1>7. ASSUME NEW p \in Procs, NEW who, NEW e, NEW match,
             SendCheck(p, who, e) \/ VerifyRead(p, who, e, match)
      PROVE  \E q \in Procs : req'[q].pc = "expire" /\ KeyOf(q)' = k
  <2>1. rate' = rate /\ req[p].pc # "expire"
    BY <1>7 DEF SendCheck, VerifyRead, codes
  <2>2. \A q \in Procs \ {p} : req'[q] = req[q]
    BY <1>1, <1>7 DEF SendCheck, VerifyRead, Start, TypeOK
  <2>3. QED
    BY <1>2, <2>1, <2>2
<1>8. ASSUME NEW p \in Procs, NEW g, NEW e, NEW ph, NEW r, RegisterRead(p, g, e, ph, r)
      PROVE  \E q \in Procs : req'[q].pc = "expire" /\ KeyOf(q)' = k
  BY <1>1, <1>2, <1>8 DEF RegisterRead, TypeOK, codes
<1>9. CASE req' = req /\ rate' = rate
  BY <1>9 DEF EmailRateWindowCloses, KeyOf
<1>10. ASSUME NEW j \in Keys, Lapse(j)
       PROVE  \E q \in Procs : req'[q].pc = "expire" /\ KeyOf(q)' = k
  <2>1. req' = req /\ (rate' = rate \/ rate' = [rate EXCEPT ![j] = NoCounter])
    BY <1>10 DEF Lapse, codes
  <2>2. rate' = rate \/ j # k
    BY <1>1, <2>1 DEF TypeOK, NoCounter
  <2>3. rate'[k] = rate[k]
    BY <1>1, <2>1, <2>2 DEF TypeOK
  <2>4. QED
    BY <2>1, <2>3 DEF EmailRateWindowCloses, KeyOf
<1>11. ASSUME NEW a, LapsePhone(a)
       PROVE  \E q \in Procs : req'[q].pc = "expire" /\ KeyOf(q)' = k
  BY <1>9, <1>11 DEF LapsePhone, codes
<1>12. QED
  BY <1>3, <1>4, <1>6, <1>7, <1>8, <1>9, <1>10, <1>11
  DEF Next, Step, SendRefused, VerifyRefused, RegisterRefused, vars, codes, Abandon

\* While no statement fails, no address is locked out for good, whatever the
\* number of overlapping sends.
THEOREM WindowCloses == Spec => []EmailRateWindowCloses
<1>1. Init => EmailRateWindowCloses
  BY DEF Init, EmailRateWindowCloses, NoCounter
<1>2. QED
  BY <1>1, WindowStep, CoreInvariant, PTL DEF Spec

----------------------------------------------------------------------------
(* Wrong answers *)

\* Sends that have still to clear the counter, requests about to burn a code,
\* and answers that have still to be counted.
Resetting(k) == {p \in Procs : req[p].pc = "reset" /\ KeyOf(p) = k}
Burning(c) == {p \in Procs : req[p].pc = "burn" /\ req[p].code = c}
Answering(c) == {p \in Procs : req[p].pc = "count" /\ req[p].code = c}

\* What the counter allows before somebody burns the code.
Free == MaxAttempts - 1
Capped(n) == IF n < MaxAttempts THEN n ELSE Free

\* Answers left to a counter that is older than the code.
OlderLeft(k) == IF k \in older THEN Free ELSE 0

\* Each send that has cleared the counter, and the counter since, stand for Free
\* answers; so does the end of a counter older than the code, but for one answer at
\* least that it has from the code before; those beyond them each left a request that
\* is about to burn the code.
LeftAt(k) ==
    code[k] # 0 =>
        \/ wrong[code[k]] = 0
        \/ wrong[code[k]] + Free * (Cardinality(Resetting(k)) + 1) + OlderLeft(k)
             <= Free * Cardinality(Procs) + Capped(attempts[k]) + Cardinality(Burning(code[k]))
                  + UnderOlder

TriesLeft == \A k \in Keys : LeftAt(k)

TriesTotal ==
    \A c \in CodeId :
        wrong[c] + Cardinality(Answering(c)) <= MaxAttempts * Cardinality(Procs) + UnderOlder

FreshCodes == \A c \in CodeId : c > issued => wrong[c] = 0

BurnSound ==
    \A p \in Procs : req[p].pc = "burn" => Known(req[p].code, req[p].who, req[p].email)

\* Whoever clears a counter, or is there when it ends, takes it off the older ones.
OlderCounts == \A k \in older : attempts[k] # 0

Tries == TriesLeft /\ TriesTotal /\ FreshCodes /\ BurnSound /\ OlderCounts

LEMMA Products ==
    ASSUME NEW a \in Nat, NEW x \in Nat, NEW y \in Nat
    PROVE  /\ a * x \in Nat /\ a * (x + 1) = a * x + a /\ (a + 1) * x = a * x + x
           /\ x <= y => a * x <= a * y
<1>1. a * x \in Nat /\ a * (x + 1) = a * x + a /\ (a + 1) * x = a * x + x
  OBVIOUS
<1>2. ASSUME x <= y
      PROVE  a * x <= a * y
  <2>1. y - x \in Nat
    BY <1>2
  <2>2. PICK d \in Nat : y = x + d
    BY <2>1
  <2>3. a * y = a * x + a * d /\ a * d \in Nat /\ a * x \in Nat
    BY <2>2
  <2>4. QED
    BY <2>3
<1>3. QED
  BY <1>1, <1>2

LEMMA FreeNat ==
    /\ Free \in Nat /\ MaxAttempts = Free + 1
    /\ \A n \in Nat : Capped(n) \in Nat /\ Capped(n) <= Free
    /\ \A n, l \in Nat : n <= l => Capped(n) <= Capped(l)
    /\ \A n \in Nat : n + 1 < MaxAttempts => Capped(n + 1) = Capped(n) + 1
    /\ Capped(0) = 0
    /\ UnderOlder \in Nat /\ (Free = 0 => UnderOlder = 0)
    /\ Free # 0 => UnderOlder = Free - 1 /\ \A n \in Nat : n # 0 => Capped(n) >= 1
<1>1. MaxAttempts \in Nat /\ MaxAttempts >= 1
  BY EmailAssumption
<1>2. QED
  BY <1>1 DEF Free, Capped, UnderOlder

LEMMA BoundNat == MaxAttempts * Cardinality(Procs) + UnderOlder \in Nat
<1>1. MaxAttempts \in Nat /\ Cardinality(Procs) \in Nat /\ UnderOlder \in Nat
  BY EmailAssumption, FS_CardinalityType, FreeNat
<1>2. QED
  BY <1>1

LEMMA OlderNat == \A k : OlderLeft(k) \in Nat /\ OlderLeft(k) <= Free
  BY FreeNat DEF OlderLeft

\* Requests are finitely many.
LEMMA Sizes ==
    ASSUME NEW S, S \subseteq Procs
    PROVE  /\ IsFiniteSet(S) /\ Cardinality(S) \in Nat /\ Cardinality(Procs) \in Nat
           /\ Cardinality(S) <= Cardinality(Procs)
           /\ \A p \in S : Cardinality(S) >= 1 /\ Cardinality(S \ {p}) = Cardinality(S) - 1
           /\ \A p \in Procs \ S : /\ Cardinality(S \cup {p}) = Cardinality(S) + 1
                                  /\ Cardinality(S) + 1 <= Cardinality(Procs)
<1>1. /\ IsFiniteSet(S) /\ Cardinality(S) \in Nat /\ Cardinality(Procs) \in Nat
      /\ Cardinality(S) <= Cardinality(Procs) /\ IsFiniteSet(Procs)
  BY EmailAssumption, FS_Subset, FS_CardinalityType
<1>2. ASSUME NEW p \in S
      PROVE  Cardinality(S) >= 1 /\ Cardinality(S \ {p}) = Cardinality(S) - 1
  <2>1. IsFiniteSet(S \ {p}) /\ Cardinality(S \ {p}) = Cardinality(S) - 1
    BY <1>1, FS_RemoveElement
  <2>2. Cardinality(S \ {p}) \in Nat
    BY <2>1, FS_CardinalityType
  <2>3. QED
    BY <1>1, <2>1, <2>2
<1>3. ASSUME NEW p \in Procs \ S
      PROVE  /\ Cardinality(S \cup {p}) = Cardinality(S) + 1
             /\ Cardinality(S) + 1 <= Cardinality(Procs)
  <2>1. Cardinality(S \cup {p}) = Cardinality(S) + 1
    BY <1>1, FS_AddElement
  <2>2. Cardinality(S \cup {p}) <= Cardinality(Procs)
    BY <1>1, FS_Subset
  <2>3. QED
    BY <2>1, <2>2
<1>4. QED
  BY <1>1, <1>2, <1>3

LEMMA Apart ==
    ASSUME NEW S, NEW T, S \subseteq Procs, T \subseteq Procs, S \cap T = {}
    PROVE  Cardinality(S) + Cardinality(T) <= Cardinality(Procs)
<1>1. IsFiniteSet(S) /\ IsFiniteSet(T) /\ Cardinality(S) \in Nat /\ Cardinality(T) \in Nat
  BY Sizes
<1>2. Cardinality(S \cup T) = Cardinality(S) + Cardinality(T) - Cardinality(S \cap T)
  BY <1>1, FS_Union
<1>3. Cardinality(S \cap T) = 0
  BY FS_EmptySet
<1>4. Cardinality(S \cup T) <= Cardinality(Procs)
  BY Sizes
<1>5. QED
  BY <1>1, <1>2, <1>3, <1>4

\* The code under a key was issued for it.
LEMMA KeyFits ==
    ASSUME Core, NEW k \in Keys, code[k] # 0, NEW who \in Callers, NEW e \in Emails,
           Known(code[k], who, e)
    PROVE  k = Key(who, e)
<1>1. PICK who1 \in Callers, e1 \in Emails : k = Key(who1, e1)
  BY DEF Keys
<1>2. Known(code[k], who1, e1)
  BY <1>1 DEF Core, StoresProven, CodeProven
<1>3. [who |-> who, email |-> e] = [who |-> who1, email |-> e1]
  BY <1>2 DEF Known
<1>4. who = who1 /\ e = e1
  BY <1>3
<1>5. QED
  BY <1>1, <1>4

\* However many requests that are not about to burn it have read a code still
\* there, there is room for their answers.
LEMMA CurrentFits ==
    ASSUME TypeOK, TriesLeft, NEW k \in Keys, code[k] # 0,
           NEW S, S \subseteq Procs, S \cap Burning(code[k]) = {}
    PROVE  wrong[code[k]] + Cardinality(S) <= MaxAttempts * Cardinality(Procs) + UnderOlder
<1>1. PICK n, w, s, b, x, a, t, o, u :
         /\ n = Cardinality(Procs) /\ w = wrong[code[k]] /\ s = Cardinality(S)
         /\ b = Cardinality(Burning(code[k])) /\ x = Cardinality(Resetting(k))
         /\ a = Free /\ t = Capped(attempts[k]) /\ o = OlderLeft(k) /\ u = UnderOlder
  OBVIOUS
<1>2. n \in Nat /\ s \in Nat /\ b \in Nat /\ x \in Nat
  BY <1>1, Sizes DEF Burning, Resetting
<1>3. w \in Nat /\ a \in Nat /\ t \in Nat /\ t <= a /\ MaxAttempts = a + 1
      /\ o \in Nat /\ u \in Nat
  <2>1. code[k] \in CodeId /\ attempts[k] \in Nat
    BY EmailAssumption DEF TypeOK, CodeId
  <2>2. wrong[code[k]] \in Nat
    BY <2>1 DEF TypeOK
  <2>3. QED
    BY <1>1, <2>1, <2>2, FreeNat, OlderNat
<1>4. s + b <= n
  BY <1>1, Apart DEF Burning
<1>5. w = 0 \/ w + a * (x + 1) + o <= a * n + t + b + u
  BY <1>1 DEF TriesLeft, LeftAt
<1>6. /\ a * x \in Nat /\ a * n \in Nat /\ a * (x + 1) = a * x + a
      /\ MaxAttempts * n = a * n + n
  BY <1>2, <1>3, Products
<1>7. w + s <= MaxAttempts * n + u
  BY <1>2, <1>3, <1>4, <1>5, <1>6
<1>8. QED
  BY <1>1, <1>7

\* Only the request that steps enters or leaves these sets.
LEMMA OthersStay ==
    ASSUME NEW p \in Procs, \A q \in Procs \ {p} : req'[q] = req[q]
    PROVE  /\ \A k : Resetting(k)' \ {p} = Resetting(k) \ {p}
           /\ \A c : Burning(c)' \ {p} = Burning(c) \ {p}
           /\ \A c : Answering(c)' \ {p} = Answering(c) \ {p}
  BY DEF Resetting, Burning, Answering, KeyOf

LEMMA TotalStays ==
    ASSUME TypeOK, TriesTotal, wrong' = wrong, \A c : Answering(c)' \subseteq Answering(c)
    PROVE  TriesTotal'
<1>1. ASSUME NEW c \in CodeId
      PROVE  wrong'[c] + Cardinality(Answering(c)') <= MaxAttempts * Cardinality(Procs) + UnderOlder
  <2>1. PICK s, t, m : /\ s = Cardinality(Answering(c)) /\ t = Cardinality(Answering(c)')
                       /\ m = MaxAttempts * Cardinality(Procs) + UnderOlder
    OBVIOUS
  <2>2. s \in Nat /\ t \in Nat /\ t <= s
    <3>1. Answering(c) \subseteq Procs /\ Answering(c)' \subseteq Answering(c)
      BY DEF Answering
    <3>2. IsFiniteSet(Answering(c)) /\ s \in Nat
      BY <2>1, <3>1, Sizes
    <3>3. QED
      BY <2>1, <3>1, <3>2, FS_Subset, FS_CardinalityType
  <2>3. wrong[c] + s <= m /\ wrong[c] \in Nat /\ m \in Nat
    <3>1. m \in Nat
      BY <2>1, BoundNat
    <3>2. QED
      BY <2>1, <3>1 DEF TriesTotal, TypeOK
  <2>4. wrong[c] + t <= m
    BY <2>2, <2>3
  <2>5. QED
    BY <2>1, <2>4
<1>2. QED
  BY <1>1 DEF TriesTotal

LEMMA FreshStays ==
    ASSUME TypeOK, TypeOK', Grows, FreshCodes, wrong' = wrong
    PROVE  FreshCodes'
  BY DEF FreshCodes, Grows, TypeOK, CodeId

\* A request that burns has counted an answer to a code issued for its key.
LEMMA BurnStays ==
    ASSUME TypeOK, TypeOK', Grows, BurnSound, NEW p \in Procs,
           \A q \in Procs \ {p} : req'[q] = req[q],
           req'[p].pc = "burn" => Known(req'[p].code, req'[p].who, req'[p].email)
    PROVE  BurnSound'
<1>1. ASSUME NEW q \in Procs, req'[q].pc = "burn"
      PROVE  Known(req[q].code, req[q].who, req[q].email)'
  <2>1. PICK c, who, e : c = req'[q].code /\ who = req'[q].who /\ e = req'[q].email
    OBVIOUS
  <2>2. Known(c, who, e)
    BY <1>1, <2>1 DEF BurnSound
  <2>3. Known(c, who, e)'
    BY <2>2, KnownStays
  <2>4. QED
    BY <2>1, <2>3 DEF Known
<1>2. QED
  BY <1>1 DEF BurnSound

\* Nothing is lost at a key whose code and counter stay, unless a request that
\* would have burned the code is gone or a send is new.
LEMMA Keeps ==
    ASSUME TypeOK, TypeOK', TriesLeft, NEW k \in Keys, code'[k] = code[k],
           attempts'[k] >= attempts[k], k \in older' => k \in older,
           code[k] # 0 => wrong'[code[k]] = wrong[code[k]],
           Resetting(k)' \subseteq Resetting(k),
           \A c : c = code[k] => Burning(c) \subseteq Burning(c)'
    PROVE  LeftAt(k)'
<1> SUFFICES ASSUME code[k] # 0, wrong[code[k]] # 0
             PROVE  wrong'[code'[k]] + Free * (Cardinality(Resetting(k)') + 1) + OlderLeft(k)'
                      <= Free * Cardinality(Procs) + Capped(attempts'[k])
                           + Cardinality(Burning(code[k])') + UnderOlder
  BY DEF LeftAt, Free, Capped, UnderOlder
<1>1. PICK c, n, w, b, b1, x, x1, a, t, t1, o, o1, u :
         /\ c = code[k] /\ n = Cardinality(Procs) /\ w = wrong[c]
         /\ b = Cardinality(Burning(c)) /\ b1 = Cardinality(Burning(c)')
         /\ x = Cardinality(Resetting(k)) /\ x1 = Cardinality(Resetting(k)')
         /\ a = Free /\ t = Capped(attempts[k]) /\ t1 = Capped(attempts'[k])
         /\ o = OlderLeft(k) /\ o1 = OlderLeft(k)' /\ u = UnderOlder
  OBVIOUS
<1>2. Burning(code[k])' = Burning(c)'
  BY <1>1 DEF Burning
<1>3. n \in Nat /\ b \in Nat /\ b1 \in Nat /\ x \in Nat /\ x1 \in Nat /\ b <= b1 /\ x1 <= x
  <2>1. /\ Burning(c) \subseteq Burning(c)' /\ Burning(c)' \subseteq Procs
        /\ Resetting(k)' \subseteq Resetting(k) /\ Resetting(k) \subseteq Procs
    BY <1>1 DEF Burning, Resetting
  <2>2. IsFiniteSet(Burning(c)') /\ IsFiniteSet(Resetting(k)) /\ n \in Nat
    BY <1>1, <2>1, Sizes
  <2>3. QED
    BY <1>1, <2>1, <2>2, FS_Subset, FS_CardinalityType
<1>4. w \in Nat /\ a \in Nat /\ t \in Nat /\ t1 \in Nat /\ t <= t1
  <2>1. c \in CodeId /\ attempts[k] \in Nat /\ attempts'[k] \in Nat
    BY <1>1, EmailAssumption DEF TypeOK, CodeId
  <2>2. wrong[c] \in Nat
    BY <2>1 DEF TypeOK
  <2>3. QED
    BY <1>1, <2>1, <2>2, FreeNat
<1>5. /\ w + a * (x + 1) + o <= a * n + t + b + u
      /\ o \in Nat /\ o1 \in Nat /\ o1 <= o /\ u \in Nat
  <2>1. w + a * (x + 1) + o <= a * n + t + b + u
    BY <1>1 DEF TriesLeft, LeftAt
  <2>2. o \in Nat /\ o1 \in Nat /\ o1 <= o
    BY <1>1, FreeNat DEF OlderLeft, Free
  <2>3. QED
    BY <1>1, <2>1, <2>2, FreeNat
<1>6. a * (x1 + 1) <= a * (x + 1) /\ a * (x1 + 1) \in Nat /\ a * (x + 1) \in Nat /\ a * n \in Nat
  <2>1. x + 1 \in Nat /\ x1 + 1 \in Nat /\ x1 + 1 <= x + 1
    BY <1>3
  <2>2. QED
    BY <1>3, <1>4, <2>1, Products
<1>7. w + a * (x1 + 1) + o1 <= a * n + t1 + b1 + u
  BY <1>3, <1>4, <1>5, <1>6
<1>8. QED
  BY <1>1, <1>2, <1>7

LEMMA OlderStays ==
    ASSUME TypeOK, OlderCounts, \A k \in older' : k \in older /\ attempts'[k] = attempts[k]
    PROVE  OlderCounts'
  BY DEF OlderCounts

\* Most steps touch neither codes nor counters, answers nor burners.
LEMMA TriesQuiet ==
    ASSUME TypeOK, TypeOK', Grows, Tries, NEW p \in Procs,
           \A q \in Procs \ {p} : req'[q] = req[q],
           code' = code, attempts' = attempts, older' = older,
           wrong' = wrong,
           req[p].pc # "burn", req'[p].pc \notin {"reset", "burn", "count"}
    PROVE  Tries'
<1>1. \A k : Resetting(k)' \subseteq Resetting(k)
  BY OthersStay DEF Resetting
<1>2. \A c : Burning(c) \subseteq Burning(c)' /\ Answering(c)' \subseteq Answering(c)
  BY DEF Burning, Answering
<1>3. ASSUME NEW k \in Keys
      PROVE  LeftAt(k)'
  <2>1. attempts'[k] >= attempts[k]
    BY DEF TypeOK
  <2>2. QED
    BY <1>1, <1>2, <2>1, Keeps DEF Tries
<1>4. QED
  BY <1>2, <1>3, TotalStays, FreshStays, BurnStays, OlderStays DEF Tries, TriesLeft

\* A new code has met no wrong answer, and one more send has yet to clear the counter.
LEMMA SetCodeTries ==
    ASSUME Core, Core', Grows, Tries, NEW p \in Procs, SetCode(p)
    PROVE  Tries'
<1>1. TypeOK /\ TypeOK' /\ RequestsSound
  BY DEF Core
<1>2. /\ req'[p].pc = "reset" /\ KeyOf(p)' = KeyOf(p) /\ KeyOf(p) \in Keys
      /\ \A q \in Procs \ {p} : req'[q] = req[q]
  <2>1. /\ req'[p] = [req[p] EXCEPT !.pc = "reset"]
        /\ \A q \in Procs \ {p} : req'[q] = req[q]
    BY <1>1, Moves DEF SetCode, Steps, SendSteps
  <2>2. req'[p].pc = "reset" /\ KeyOf(p)' = KeyOf(p)
    BY <1>1, <2>1 DEF KeyOf, TypeOK, Request
  <2>3. QED
    BY <1>1, <2>1, <2>2, KeyOfThere DEF SetCode
<1>3. \A c : Burning(c) \subseteq Burning(c)' /\ Answering(c)' \subseteq Answering(c)
  BY <1>2, OthersStay DEF SetCode, Burning, Answering
<1>4. wrong' = wrong /\ attempts' = attempts
  BY DEF SetCode
<1>5. ASSUME NEW k \in Keys, k # KeyOf(p)
      PROVE  LeftAt(k)'
  <2>1. code'[k] = code[k] /\ attempts'[k] >= attempts[k] /\ (k \in older' => k \in older)
    BY <1>1, <1>4, <1>5 DEF SetCode, TypeOK
  <2>2. Resetting(k)' \subseteq Resetting(k)
    BY <1>2, <1>5 DEF Resetting, KeyOf
  <2>3. QED
    BY <1>1, <1>3, <1>4, <2>1, <2>2, Keeps DEF Tries
<1>6. LeftAt(KeyOf(p))'
  <2>1. PICK k : k = KeyOf(p)
    OBVIOUS
  <2>2. code'[k] = issued + 1 /\ issued + 1 \in CodeId
    BY <1>1, <1>2, <2>1, EmailAssumption DEF SetCode, TypeOK, CodeId
  <2>3. wrong'[code'[k]] = 0
    BY <1>1, <1>4, <2>2 DEF Tries, FreshCodes, TypeOK
  <2>4. LeftAt(k)'
    BY <2>3 DEF LeftAt
  <2>5. QED
    BY <1>2, <2>1, <2>4
<1>7. OlderCounts'
  BY <1>4 DEF SetCode, Tries, OlderCounts
<1>8. QED
  BY <1>1, <1>2, <1>3, <1>4, <1>5, <1>6, <1>7, TotalStays, FreshStays, BurnStays DEF Tries, TriesLeft

\* A cleared counter gives Free answers anew, and one send less can clear it.
LEMMA ResetTries ==
    ASSUME Core, Core', Grows, Tries, NEW p \in Procs, ResetAttempts(p)
    PROVE  Tries'
<1>1. TypeOK /\ TypeOK' /\ RequestsSound
  BY DEF Core
<1>2. /\ req'[p].pc = "charge" /\ req[p].pc = "reset" /\ KeyOf(p) \in Keys
      /\ \A q \in Procs \ {p} : req'[q] = req[q]
  BY <1>1, Moves, KeyOfThere DEF ResetAttempts, Steps, SendSteps
<1>3. \A c : Burning(c)' = Burning(c) /\ Answering(c)' \subseteq Answering(c)
  BY <1>2 DEF Burning, Answering
<1>4. \A k : Resetting(k)' = Resetting(k) \ {p}
  BY <1>2 DEF Resetting, KeyOf
<1>5. /\ wrong' = wrong /\ code' = code /\ attempts' = [attempts EXCEPT ![KeyOf(p)] = 0]
      /\ older' = older \ {KeyOf(p)}
  BY DEF ResetAttempts, history
<1>6. ASSUME NEW k \in Keys, k # KeyOf(p)
      PROVE  LeftAt(k)'
  <2>1. attempts'[k] >= attempts[k] /\ (k \in older' => k \in older)
    BY <1>1, <1>5, <1>6 DEF TypeOK
  <2>2. QED
    BY <1>1, <1>3, <1>4, <1>5, <2>1, Keeps DEF Tries
<1>7. ASSUME NEW k \in Keys, k = KeyOf(p), code[k] # 0, wrong[code[k]] # 0
      PROVE  wrong'[code'[k]] + Free * (Cardinality(Resetting(k)') + 1) + OlderLeft(k)'
               <= Free * Cardinality(Procs) + Capped(attempts'[k])
                    + Cardinality(Burning(code[k])') + UnderOlder
  <2>1. PICK n, w, b, x, x1, a, t, o, u :
           /\ n = Cardinality(Procs) /\ w = wrong[code[k]]
           /\ b = Cardinality(Burning(code[k]))
           /\ x = Cardinality(Resetting(k)) /\ x1 = Cardinality(Resetting(k)')
           /\ a = Free /\ t = Capped(attempts[k]) /\ o = OlderLeft(k) /\ u = UnderOlder
    OBVIOUS
  <2>2. n \in Nat /\ b \in Nat /\ x \in Nat /\ x1 \in Nat /\ x = x1 + 1
    <3>1. p \in Resetting(k) /\ Resetting(k) \subseteq Procs /\ Burning(code[k]) \subseteq Procs
      BY <1>2, <1>7 DEF Resetting, Burning
    <3>2. n \in Nat /\ b \in Nat /\ x \in Nat /\ x >= 1 /\ x1 = x - 1
      BY <1>4, <2>1, <3>1, Sizes
    <3>3. QED
      BY <3>2
  <2>3. w \in Nat /\ a \in Nat /\ t \in Nat /\ t <= a /\ Capped(attempts'[k]) = 0
    <3>1. code[k] \in CodeId /\ attempts[k] \in Nat
      BY <1>1, <1>7, EmailAssumption DEF TypeOK, CodeId
    <3>2. wrong[code[k]] \in Nat /\ attempts'[k] = 0
      BY <1>1, <1>5, <1>7, <3>1 DEF TypeOK
    <3>3. QED
      BY <2>1, <3>1, <3>2, FreeNat
  <2>4. w + a * (x + 1) + o <= a * n + t + b + u /\ o \in Nat /\ u \in Nat
    BY <1>7, <2>1, FreeNat, OlderNat DEF Tries, TriesLeft, LeftAt
  <2>5. /\ a * (x1 + 1) \in Nat /\ a * n \in Nat /\ a * (x1 + 1 + 1) = a * (x1 + 1) + a
    <3>1. x1 + 1 \in Nat
      BY <2>2
    <3>2. QED
      BY <2>2, <2>3, <3>1, Products
  <2>6. w + a * (x1 + 1) + 0 <= a * n + 0 + b + u
    BY <2>2, <2>3, <2>4, <2>5
  <2>7. Burning(code[k])' = Burning(code[k])
    BY <1>3, <1>5 DEF Burning
  <2>8. OlderLeft(k)' = 0
    BY <1>5, <1>7 DEF OlderLeft
  <2>9. QED
    BY <1>5, <2>1, <2>3, <2>6, <2>7, <2>8
<1>8. ASSUME NEW k \in Keys
      PROVE  LeftAt(k)'
  <2>1. CASE k = KeyOf(p) /\ code[k] # 0 /\ wrong[code[k]] # 0
    BY <1>7, <2>1 DEF LeftAt
  <2>2. CASE k # KeyOf(p)
    BY <1>6, <2>2
  <2>3. CASE code[k] = 0 \/ wrong[code[k]] = 0
    BY <1>5, <2>3 DEF LeftAt
  <2>4. QED
    BY <2>1, <2>2, <2>3
<1>9. OlderCounts'
  <2>1. \A k \in older' : k \in older /\ attempts'[k] = attempts[k]
    BY <1>1, <1>5 DEF TypeOK
  <2>2. QED
    BY <1>1, <2>1, OlderStays DEF Tries
<1>10. QED
  BY <1>1, <1>2, <1>3, <1>5, <1>8, <1>9, TotalStays, FreshStays, BurnStays DEF Tries, TriesLeft

\* A request that has counted its answer.
LEMMA Counted ==
    ASSUME Core, NEW p \in Procs, CountWrong(p)
    PROVE  /\ \A q \in Procs \ {p} : req'[q] = req[q]
           /\ req'[p].pc \in {"burn", "idle"}
           /\ req'[p].pc = "burn" => /\ req'[p].code = req[p].code
                                     /\ req'[p].who = req[p].who
                                     /\ req'[p].email = req[p].email
           /\ req'[p].pc = "burn" <=> attempts[KeyOf(p)] + 1 >= MaxAttempts
           /\ KeyOf(p) \in Keys /\ req[p].who \in Callers /\ req[p].email \in Emails
           /\ Known(req[p].code, req[p].who, req[p].email)
<1>1. TypeOK /\ RequestsSound
  BY DEF Core
<1>2. CASE attempts[KeyOf(p)] + 1 >= MaxAttempts
  <2>1. Goto(p, "burn") /\ "burn" \in Steps
    BY <1>2 DEF CountWrong, Steps, AnswerSteps
  <2>2. /\ req'[p] = [req[p] EXCEPT !.pc = "burn"] /\ req'[p].pc = "burn"
        /\ \A q \in Procs \ {p} : req'[q] = req[q]
    BY <1>1, <2>1, Moves
  <2>3. /\ req'[p].code = req[p].code /\ req'[p].who = req[p].who
        /\ req'[p].email = req[p].email
    BY <1>1, <2>2 DEF TypeOK, Request
  <2>4. QED
    BY <1>1, <1>2, <2>2, <2>3, KeyOfThere DEF CountWrong, RequestsSound, Sound, Redeeming
<1>3. CASE ~(attempts[KeyOf(p)] + 1 >= MaxAttempts)
  <2>1. Finish(p)
    BY <1>3 DEF CountWrong
  <2>2. req'[p].pc = "idle" /\ \A q \in Procs \ {p} : req'[q] = req[q]
    BY <1>1, <2>1, Moves
  <2>3. QED
    BY <1>1, <1>3, <2>2, KeyOfThere DEF CountWrong, RequestsSound, Sound, Redeeming
<1>4. QED
  BY <1>2, <1>3

\* The answer counted raised the counter, or its request is to burn the code.
LEMMA CountedLeft ==
    ASSUME Core, Core', Tries, NEW p \in Procs, CountWrong(p),
           NEW k \in Keys, k = KeyOf(p), code[k] = req[p].code
    PROVE  LeftAt(k)'
<1> SUFFICES wrong'[code'[k]] + Free * (Cardinality(Resetting(k)') + 1) + OlderLeft(k)'
               <= Free * Cardinality(Procs) + Capped(attempts'[k])
                    + Cardinality(Burning(code[k])') + UnderOlder
  BY DEF LeftAt, Free, Capped, UnderOlder
<1>1. TypeOK /\ TypeOK'
  BY DEF Core
<1>2. code' = code /\ code[k] \in CodeId /\ attempts[k] \in Nat
  BY <1>1, Counted, EmailAssumption DEF CountWrong, TypeOK, Known, CodeId
<1>3. attempts'[k] = attempts[k] + 1 /\ wrong'[code[k]] = wrong[code[k]] + 1
  BY <1>1, <1>2 DEF CountWrong, TypeOK
<1>4. Resetting(k)' = Resetting(k) /\ p \in Procs \ Resetting(k) /\ Resetting(k) \subseteq Procs
  <2>1. p \notin Resetting(k) /\ p \notin Resetting(k)'
    BY Counted DEF Resetting, CountWrong
  <2>2. Resetting(k)' \ {p} = Resetting(k) \ {p}
    BY Counted, OthersStay
  <2>3. QED
    BY <2>1, <2>2 DEF Resetting
<1>5. PICK c, n, w, b, b1, x, a, t, t1, o, u :
         /\ c = code[k] /\ n = Cardinality(Procs) /\ w = wrong[c]
         /\ b = Cardinality(Burning(c)) /\ b1 = Cardinality(Burning(c)')
         /\ x = Cardinality(Resetting(k))
         /\ a = Free /\ t = Capped(attempts[k]) /\ t1 = Capped(attempts'[k])
         /\ o = OlderLeft(k) /\ u = UnderOlder
  OBVIOUS
<1>6. n \in Nat /\ x \in Nat /\ x + 1 <= n
  BY <1>4, <1>5, Sizes
<1>7. w \in Nat /\ a \in Nat /\ t \in Nat /\ t1 \in Nat /\ t <= t1
  <2>1. wrong[c] \in Nat
    BY <1>1, <1>2, <1>5 DEF TypeOK
  <2>2. attempts[k] + 1 \in Nat /\ attempts[k] <= attempts[k] + 1
    BY <1>2
  <2>3. QED
    BY <1>2, <1>3, <1>5, <2>1, <2>2, FreeNat
<1>8. b \in Nat /\ b1 \in Nat /\ t1 + b1 >= t + b + 1
  <2>1. p \in Procs \ Burning(c) /\ Burning(c) \subseteq Procs
    BY DEF Burning, CountWrong
  <2>2. CASE attempts[k] + 1 >= MaxAttempts
    <3>1. Burning(c)' = Burning(c) \cup {p}
      <4>1. req'[p].pc = "burn" /\ req'[p].code = c
        BY <1>5, <2>2, Counted
      <4>2. p \in Burning(c)'
        BY <4>1 DEF Burning
      <4>3. Burning(c)' \ {p} = Burning(c) \ {p}
        BY Counted, OthersStay
      <4>4. QED
        BY <2>1, <4>2, <4>3
    <3>2. b \in Nat /\ b1 = b + 1
      BY <1>5, <2>1, <3>1, Sizes
    <3>3. QED
      BY <1>7, <3>2
  <2>3. CASE ~(attempts[k] + 1 >= MaxAttempts)
    <3>1. Burning(c)' = Burning(c)
      <4>1. p \notin Burning(c)'
        BY <2>3, Counted DEF Burning
      <4>2. Burning(c)' \ {p} = Burning(c) \ {p}
        BY Counted, OthersStay
      <4>3. QED
        BY <2>1, <4>1, <4>2
    <3>2. b \in Nat /\ b1 = b
      BY <1>5, <2>1, <3>1, Sizes
    <3>3. t1 = t + 1
      <4>1. attempts[k] + 1 < MaxAttempts
        BY <1>2, <2>3, EmailAssumption
      <4>2. QED
        BY <1>2, <1>3, <1>5, <4>1, FreeNat
    <3>4. QED
      BY <1>7, <3>2, <3>3
  <2>4. QED
    BY <2>2, <2>3
<1>9. w = 0 \/ w + a * (x + 1) + o <= a * n + t + b + u
  BY <1>2, <1>5, EmailAssumption DEF Tries, TriesLeft, LeftAt, CodeId
<1>10. a * (x + 1) \in Nat /\ a * n \in Nat /\ a * (x + 1) <= a * n
  <2>1. x + 1 \in Nat
    BY <1>6
  <2>2. QED
    BY <1>6, <1>7, <2>1, Products
<1>11. o \in Nat /\ u \in Nat /\ 1 + o <= t1 + b1 + u
  <2>1. o \in Nat /\ u \in Nat
    BY <1>5, FreeNat, OlderNat
  <2>2. CASE o = 0
    BY <1>7, <1>8, <2>1, <2>2
  <2>3. CASE o # 0
    <3>1. k \in older /\ o = a
      BY <1>5, <2>3 DEF OlderLeft
    <3>2. attempts[k] # 0
      BY <3>1 DEF Tries, OlderCounts
    <3>3. u = a - 1 /\ t >= 1
      BY <1>2, <1>5, <2>3, <3>1, <3>2, FreeNat
    <3>4. QED
      BY <1>7, <1>8, <2>1, <3>1, <3>3
  <2>4. QED
    BY <2>2, <2>3
<1>12. w + 1 + a * (x + 1) + o <= a * n + t1 + b1 + u
  BY <1>6, <1>7, <1>8, <1>9, <1>10, <1>11
<1>13. Burning(code[k])' = Burning(c)'
  BY <1>2, <1>5 DEF Burning
<1>14. OlderLeft(k)' = o
  BY <1>5 DEF OlderLeft, CountWrong, Free
<1>15. QED
  BY <1>2, <1>3, <1>4, <1>5, <1>12, <1>13, <1>14

LEMMA CountTries ==
    ASSUME Core, Core', Grows, Tries, NEW p \in Procs, CountWrong(p)
    PROVE  Tries'
<1>1. TypeOK /\ TypeOK'
  BY DEF Core
<1>2. \A q \in Procs \ {p} : req'[q] = req[q]
  BY Counted
<1>3. PICK d : d = req[p].code
  OBVIOUS
<1>4. d \in CodeId /\ d <= issued /\ d > 0
  <2>1. d \in 1 .. issued
    BY <1>3, Counted DEF Known
  <2>2. QED
    BY <1>1, <2>1, EmailAssumption DEF TypeOK, CodeId
<1>5. /\ code' = code /\ issued' = issued /\ older' = older
      /\ wrong' = [wrong EXCEPT ![d] = @ + 1]
      /\ attempts' = [attempts EXCEPT ![KeyOf(p)] = @ + 1]
  BY <1>3 DEF CountWrong
<1>6. \A c \in CodeId : wrong'[c] = IF c = d THEN wrong[c] + 1 ELSE wrong[c]
  BY <1>1, <1>4, <1>5 DEF TypeOK
<1>7. ASSUME NEW k \in Keys
      PROVE  LeftAt(k)'
  <2>1. CASE code[k] = 0
    BY <1>5, <2>1 DEF LeftAt
  <2>2. CASE code[k] = d /\ code[k] # 0
    <3>1. k = KeyOf(p)
      <4>1. PICK who \in Callers, e \in Emails :
               who = req[p].who /\ e = req[p].email /\ Known(code[k], who, e)
        BY <1>3, <2>2, Counted
      <4>2. k = Key(who, e)
        BY <2>2, <4>1, KeyFits
      <4>3. QED
        BY <4>1, <4>2 DEF KeyOf
    <3>2. QED
      BY <1>3, <2>2, <3>1, CountedLeft
  <2>3. CASE code[k] # d /\ code[k] # 0
    <3>1. attempts'[k] >= attempts[k]
      BY <1>1, <1>5 DEF TypeOK
    <3>2. wrong'[code[k]] = wrong[code[k]]
      BY <1>1, <1>6, <2>3, EmailAssumption DEF TypeOK, CodeId
    <3>3. Resetting(k)' \subseteq Resetting(k)
      <4>1. p \notin Resetting(k)'
        BY Counted DEF Resetting
      <4>2. QED
        BY <1>2, <4>1, OthersStay
    <3>4. \A c : Burning(c) \subseteq Burning(c)'
      BY <1>2 DEF Burning, CountWrong
    <3>5. QED
      BY <1>1, <1>5, <3>1, <3>2, <3>3, <3>4, Keeps DEF Tries
  <2>4. QED
    BY <2>1, <2>2, <2>3
<1>8. TriesTotal'
  <2>1. ASSUME NEW c \in CodeId
        PROVE  wrong'[c] + Cardinality(Answering(c)')
                 <= MaxAttempts * Cardinality(Procs) + UnderOlder
    <3>1. PICK s, m : s = Cardinality(Answering(c)) /\ m = MaxAttempts * Cardinality(Procs) + UnderOlder
      OBVIOUS
    <3>2. Answering(c) \subseteq Procs
      BY DEF Answering
    <3>3. s \in Nat /\ m \in Nat /\ wrong[c] \in Nat /\ wrong[c] + s <= m
      <4>1. s \in Nat /\ Cardinality(Procs) \in Nat
        BY <3>1, <3>2, Sizes
      <4>2. m \in Nat
        BY <3>1, BoundNat
      <4>3. QED
        BY <1>1, <3>1, <4>1, <4>2 DEF Tries, TriesTotal, TypeOK
    <3>4. Answering(c)' = Answering(c) \ {p}
      <4>1. p \notin Answering(c)'
        BY Counted DEF Answering
      <4>2. Answering(c)' \ {p} = Answering(c) \ {p}
        BY <1>2, OthersStay
      <4>3. QED
        BY <4>1, <4>2
    <3>5. CASE c = d
      <4>1. p \in Answering(c)
        BY <1>3, <3>5 DEF Answering, CountWrong
      <4>2. Cardinality(Answering(c)') = s - 1
        BY <3>1, <3>2, <3>4, <4>1, Sizes
      <4>3. wrong'[c] = wrong[c] + 1
        BY <1>6, <3>5
      <4>4. QED
        BY <3>1, <3>3, <4>2, <4>3
    <3>6. CASE c # d
      <4>1. p \notin Answering(c)
        BY <1>3, <3>6 DEF Answering
      <4>2. Answering(c)' = Answering(c) /\ wrong'[c] = wrong[c]
        BY <1>6, <3>4, <3>6, <4>1
      <4>3. QED
        BY <3>1, <3>3, <4>2
    <3>7. QED
      BY <3>5, <3>6
  <2>2. QED
    BY <2>1 DEF TriesTotal
<1>9. FreshCodes'
  <2>1. \A c \in CodeId : c > issued => c # d
    BY <1>1, <1>4, EmailAssumption DEF TypeOK, CodeId
  <2>2. QED
    BY <1>5, <1>6, <2>1 DEF Tries, FreshCodes
<1>10. BurnSound'
  <2>1. req'[p].pc = "burn" => Known(req'[p].code, req'[p].who, req'[p].email)
    BY Counted
  <2>2. QED
    BY <1>1, <1>2, <2>1, BurnStays DEF Tries
<1>11. OlderCounts'
  <2>1. KeyOf(p) \in Keys /\ \A k \in Keys : attempts[k] \in Nat
    BY <1>1, Counted DEF TypeOK
  <2>2. ASSUME NEW k \in older
        PROVE  attempts'[k] # 0
    <3>1. k \in Keys /\ attempts[k] # 0
      BY <1>1 DEF TypeOK, Tries, OlderCounts
    <3>2. attempts'[k] = IF k = KeyOf(p) THEN attempts[k] + 1 ELSE attempts[k]
      BY <1>1, <1>5, <3>1 DEF TypeOK
    <3>3. QED
      BY <2>1, <3>1, <3>2
  <2>3. QED
    BY <1>5, <2>2 DEF OlderCounts
<1>12. QED
  BY <1>7, <1>8, <1>9, <1>10, <1>11 DEF Tries, TriesLeft

\* Whoever deletes a code takes it away from its own key: no other code loses
\* a request that is about to burn it.
LEMMA DeleteTries ==
    ASSUME Core, Core', Grows, Tries, NEW p \in Procs, DeleteCode(p)
    PROVE  Tries'
<1>1. TypeOK /\ TypeOK' /\ RequestsSound
  BY DEF Core
<1>2. /\ req'[p].pc = "idle" /\ \A q \in Procs \ {p} : req'[q] = req[q]
      /\ KeyOf(p) \in Keys /\ req[p].who \in Callers /\ req[p].email \in Emails
  BY <1>1, Moves, KeyOfThere DEF DeleteCode
<1>3. /\ \A k : Resetting(k)' \subseteq Resetting(k)
      /\ \A c : Answering(c)' \subseteq Answering(c) /\ Burning(c)' = Burning(c) \ {p}
  BY <1>2, OthersStay DEF Resetting, Answering, Burning
<1>4. /\ wrong' = wrong
      /\ code' = [code EXCEPT ![KeyOf(p)] = 0]
      /\ attempts' = [attempts EXCEPT ![KeyOf(p)] = 0] /\ older' = older \ {KeyOf(p)}
  BY DEF DeleteCode, history
<1>5. ASSUME NEW k \in Keys
      PROVE  LeftAt(k)'
  <2>1. CASE code'[k] = 0
    BY <2>1 DEF LeftAt
  <2>2. CASE code'[k] # 0
    <3>1. k # KeyOf(p)
      BY <1>1, <1>4, <2>2 DEF TypeOK
    <3>2. /\ code'[k] = code[k] /\ attempts'[k] = attempts[k] /\ attempts[k] \in Nat
          /\ k \in older' => k \in older
      BY <1>1, <1>4, <3>1 DEF TypeOK
    <3>3. p \notin Burning(code[k])
      <4>1. ASSUME p \in Burning(code[k])
            PROVE  FALSE
        <5>1. PICK who \in Callers, e \in Emails :
                 who = req[p].who /\ e = req[p].email /\ Known(code[k], who, e)
          BY <1>2, <4>1 DEF Burning, Tries, BurnSound
        <5>2. k = Key(who, e)
          BY <2>2, <3>2, <5>1, KeyFits
        <5>3. QED
          BY <3>1, <5>1, <5>2 DEF KeyOf
      <4>2. QED
        BY <4>1
    <3>4. \A c : c = code[k] => Burning(c) \subseteq Burning(c)'
      BY <1>3, <3>3
    <3>5. QED
      BY <1>1, <1>3, <1>4, <3>2, <3>4, Keeps DEF Tries
  <2>3. QED
    BY <2>1, <2>2
<1>6. OlderCounts'
  <2>1. \A k \in older' : k \in older /\ attempts'[k] = attempts[k]
    BY <1>1, <1>4 DEF TypeOK
  <2>2. QED
    BY <1>1, <2>1, OlderStays DEF Tries
<1>7. QED
  BY <1>1, <1>2, <1>3, <1>4, <1>5, <1>6, TotalStays, FreshStays, BurnStays DEF Tries, TriesLeft

\* A wrong answer to a code still there.
LEMMA ReadTries ==
    ASSUME Core, Core', Grows, Tries, NEW p \in Procs, NEW who \in Callers, NEW e \in Emails,
           NEW match \in BOOLEAN, VerifyRead(p, who, e, match)
    PROVE  Tries'
<1>1. TypeOK /\ TypeOK'
  BY DEF Core
<1>2. PICK d : d = code[Key(who, e)]
  OBVIOUS
<1>3. d \in CodeId /\ d # 0 /\ wrong[d] \in Nat /\ d \in 0 .. MaxCodes
  <2>1. d \in 0 .. MaxCodes /\ d # 0
    BY <1>1, <1>2, KeyThere DEF VerifyRead, TypeOK
  <2>2. d \in CodeId
    BY <2>1, EmailAssumption DEF CodeId
  <2>3. QED
    BY <1>1, <2>1, <2>2 DEF TypeOK
<1>4. PICK step \in {"count", "accept", "recheck"} : Start(p, step, who, e, d, wrong[d])
  BY <1>2 DEF VerifyRead
<1>5. /\ req'[p].pc = step /\ req'[p].code = d
      /\ \A q \in Procs \ {p} : req'[q] = req[q]
  <2>1. step \in Steps
    BY DEF Steps, AnswerSteps
  <2>2. QED
    BY <1>1, <1>3, <1>4, <2>1, Starts
<1>6. /\ req[p].pc = "idle"
      /\ code' = code /\ attempts' = attempts /\ older' = older /\ wrong' = wrong
  BY DEF VerifyRead, codes, history
<1>7. CASE step # "count"
  BY <1>1, <1>5, <1>6, <1>7, TriesQuiet
<1>8. CASE step = "count"
  <2>1. \A k : Resetting(k)' \subseteq Resetting(k)
    BY <1>5, <1>8, OthersStay DEF Resetting
  <2>2. \A c : Burning(c) \subseteq Burning(c)'
    BY <1>5, <1>6 DEF Burning
  <2>3. ASSUME NEW k \in Keys
        PROVE  LeftAt(k)'
    <3>1. attempts'[k] >= attempts[k]
      BY <1>1, <1>6 DEF TypeOK
    <3>2. QED
      BY <1>1, <1>6, <2>1, <2>2, <3>1, Keeps DEF Tries
  <2>4. ASSUME NEW c \in CodeId
        PROVE  wrong'[c] + Cardinality(Answering(c)')
                 <= MaxAttempts * Cardinality(Procs) + UnderOlder
    <3>1. CASE c # d
      <4>1. p \notin Answering(c) /\ p \notin Answering(c)'
        BY <1>5, <1>6, <3>1 DEF Answering
      <4>2. Answering(c)' = Answering(c)
        BY <1>5, <4>1, OthersStay
      <4>3. QED
        BY <1>6, <4>2 DEF Tries, TriesTotal
    <3>2. CASE c = d
      <4>1. PICK k \in Keys : k = Key(who, e) /\ code[k] = d
        BY <1>2, KeyThere
      <4>2. PICK S : S = Answering(c) \cup {p}
        OBVIOUS
      <4>3. Answering(c)' = S
        <5>1. p \in Answering(c)'
          BY <1>5, <1>8, <3>2 DEF Answering
        <5>2. Answering(c)' \ {p} = Answering(c) \ {p}
          BY <1>5, OthersStay
        <5>3. QED
          BY <4>2, <5>1, <5>2
      <4>4. S \subseteq Procs /\ S \cap Burning(code[k]) = {}
        BY <1>6, <4>2 DEF Answering, Burning
      <4>5. wrong[code[k]] + Cardinality(S) <= MaxAttempts * Cardinality(Procs) + UnderOlder
        BY <1>1, <1>3, <4>1, <4>4, CurrentFits DEF Tries
      <4>6. QED
        BY <1>6, <3>2, <4>1, <4>3, <4>5
    <3>3. QED
      BY <3>1, <3>2
  <2>5. req'[p].pc # "burn"
    BY <1>5, <1>8
  <2>6. TriesTotal'
    BY <2>4 DEF TriesTotal
  <2>7. FreshCodes' /\ BurnSound' /\ OlderCounts'
    BY <1>1, <1>5, <1>6, <2>5, FreshStays, BurnStays, OlderStays DEF Tries
  <2>8. QED
    BY <2>3, <2>6, <2>7 DEF Tries, TriesLeft
<1>9. QED
  BY <1>7, <1>8

\* No request moves.  A key loses its code, or an older counter: that costs Free
\* answers, and they were left to it.
LEMMA LapseTries ==
    ASSUME Core, Core', Grows, Tries, req' = req, wrong' = wrong,
           \A k \in Keys :
              \/ code'[k] = 0
              \/ /\ code'[k] = code[k]
                 /\ \/ attempts'[k] = attempts[k] /\ (k \in older' => k \in older)
                    \/ k \in older /\ attempts'[k] = 0 /\ k \notin older',
           \A k \in older' : k \in older /\ attempts'[k] = attempts[k]
    PROVE  Tries'
<1>1. TypeOK /\ TypeOK'
  BY DEF Core
<1>2. /\ \A k : Resetting(k)' = Resetting(k)
      /\ \A c : Burning(c)' = Burning(c) /\ Answering(c)' = Answering(c)
  BY DEF Resetting, Burning, Answering, KeyOf
<1>3. ASSUME NEW k \in Keys
      PROVE  LeftAt(k)'
  <2>1. CASE code'[k] = 0
    BY <2>1 DEF LeftAt
  <2>2. CASE code'[k] = code[k] /\ attempts'[k] = attempts[k] /\ (k \in older' => k \in older)
    <3>1. attempts'[k] >= attempts[k]
      BY <1>1, <2>2 DEF TypeOK
    <3>2. QED
      BY <1>1, <1>2, <2>2, <3>1, Keeps DEF Tries
  <2>3. CASE /\ code'[k] = code[k] /\ code[k] # 0 /\ wrong[code[k]] # 0
             /\ k \in older /\ attempts'[k] = 0 /\ k \notin older'
    <3>1. PICK c, m, w, b, x, f, t, u :
             /\ c = code[k] /\ m = Free * Cardinality(Procs) /\ w = wrong[c]
             /\ b = Cardinality(Burning(c)) /\ x = Free * (Cardinality(Resetting(k)) + 1)
             /\ f = Free /\ t = Capped(attempts[k]) /\ u = UnderOlder
      OBVIOUS
    <3>2. w + x + f <= m + t + b + u
      BY <2>3, <3>1 DEF Tries, TriesLeft, LeftAt, OlderLeft
    <3>3. m \in Nat /\ x \in Nat /\ b \in Nat /\ f \in Nat
      <4>1. Resetting(k) \subseteq Procs /\ Burning(c) \subseteq Procs
        BY DEF Resetting, Burning
      <4>2. /\ Cardinality(Resetting(k)) + 1 \in Nat /\ Cardinality(Procs) \in Nat
            /\ b \in Nat
        BY <3>1, <4>1, Sizes
      <4>3. QED
        BY <3>1, <4>2, FreeNat, Products
    <3>4. w \in Nat /\ t \in Nat /\ t <= f /\ u \in Nat
      <4>1. c \in CodeId /\ attempts[k] \in Nat
        BY <1>1, <2>3, <3>1, EmailAssumption DEF TypeOK, CodeId
      <4>2. wrong[c] \in Nat
        BY <1>1, <4>1 DEF TypeOK
      <4>3. QED
        BY <3>1, <4>1, <4>2, FreeNat
    <3>5. w + x + 0 <= m + 0 + b + u
      BY <3>2, <3>3, <3>4
    <3>6. /\ wrong'[code'[k]] = w /\ Free * (Cardinality(Resetting(k)') + 1) = x
          /\ OlderLeft(k)' = 0 /\ Capped(attempts'[k]) = 0 /\ Cardinality(Burning(code[k])') = b
      <4>1. Burning(code[k])' = Burning(c)
        BY <1>2, <2>3, <3>1 DEF Burning
      <4>2. OlderLeft(k)' = 0
        BY <2>3 DEF OlderLeft
      <4>3. QED
        BY <1>2, <2>3, <3>1, <4>1, <4>2, FreeNat
    <3>7. wrong'[code'[k]] + Free * (Cardinality(Resetting(k)') + 1) + OlderLeft(k)'
            <= Free * Cardinality(Procs) + Capped(attempts'[k])
                 + Cardinality(Burning(code[k])') + UnderOlder
      BY <3>1, <3>5, <3>6
    <3>8. QED
      BY <3>7 DEF LeftAt, Free, Capped, UnderOlder
  <2>4. CASE code'[k] = code[k] /\ wrong[code[k]] = 0
    BY <2>4 DEF LeftAt
  <2>5. QED
    BY <2>1, <2>2, <2>3, <2>4
<1>4. ASSUME NEW q \in Procs, req'[q].pc = "burn"
      PROVE  Known(req[q].code, req[q].who, req[q].email)'
  <2>1. PICK c, who, e : c = req[q].code /\ who = req[q].who /\ e = req[q].email
    OBVIOUS
  <2>2. Known(c, who, e)'
    BY <1>1, <1>4, <2>1, KnownStays DEF Tries, BurnSound
  <2>3. QED
    BY <2>1, <2>2 DEF Known
<1>5. TriesTotal' /\ FreshCodes' /\ BurnSound' /\ OlderCounts'
  BY <1>1, <1>2, <1>4, TotalStays, FreshStays, OlderStays DEF Tries, BurnSound
<1>6. QED
  BY <1>3, <1>5 DEF Tries, TriesLeft

LEMMA TriesStep ==
    ASSUME Core, Core', Tries, [Next]_vars, CutAt = {}
    PROVE  Tries'
<1>1. TypeOK /\ TypeOK' /\ Grows
  BY GrowsStep DEF Core
<1>2. ASSUME NEW p \in Procs,
             \/ SetCode(p) \/ ResetAttempts(p) \/ CountWrong(p) \/ DeleteCode(p)
      PROVE  Tries'
  BY <1>1, <1>2, SetCodeTries, ResetTries, CountTries, DeleteTries
<1>3. ASSUME NEW p \in Procs, NEW step \in Steps \ {"reset", "burn", "count"},
             Goto(p, step) \/ Finish(p), req[p].pc # "burn",
             code' = code, attempts' = attempts, older' = older, wrong' = wrong
      PROVE  Tries'
  <2>1. /\ req'[p].pc \notin {"reset", "burn", "count"}
        /\ \A q \in Procs \ {p} : req'[q] = req[q]
    BY <1>1, <1>3, Moves
  <2>2. QED
    BY <1>1, <1>3, <2>1, TriesQuiet
<1>4. ASSUME NEW p \in Procs,
             \/ ChargeRate(p) \/ ExpireRate(p) \/ AcceptEmail(p) \/ Recheck(p)
             \/ UpdateUserEmail(p) \/ SaveEmail(p) \/ RegisterCheck(p) \/ CreateUser(p)
             \/ NotifyPhone(p) \/ CommitUser(p) \/ Unmark(p)
      PROVE  Tries'
  <2>1. /\ code' = code /\ attempts' = attempts /\ older' = older /\ wrong' = wrong
        /\ req[p].pc # "burn"
    BY <1>4 DEF ChargeRate, ExpireRate, AcceptEmail, Recheck, UpdateUserEmail, SaveEmail,
                RegisterCheck, CreateUser, NotifyPhone, CommitUser, Unmark, codes, history
  <2>2. {"expire", "drop", "update", "save", "insert", "notify", "commit", "unmark"}
          \subseteq Steps \ {"reset", "burn", "count"}
    BY DEF Steps, SendSteps, AnswerSteps, RegisterSteps
  <2>3. \E step \in {"expire", "drop", "update", "save", "insert", "notify", "commit",
                     "unmark"} : Goto(p, step) \/ Finish(p)
    BY <1>4 DEF ChargeRate, ExpireRate, AcceptEmail, Recheck, UpdateUserEmail, SaveEmail,
                RegisterCheck, CreateUser, NotifyPhone, CommitUser, Unmark
  <2>4. QED
    BY <1>3, <2>1, <2>2, <2>3
<1>5. ASSUME NEW p \in Procs, NEW who \in Callers, NEW e \in Emails, SendCheck(p, who, e)
      PROVE  Tries'
  <2>1. req'[p].pc = "set" /\ \A q \in Procs \ {p} : req'[q] = req[q]
    <3>1. "set" \in Steps /\ 0 \in 0 .. MaxCodes /\ 0 \in Nat
      BY EmailAssumption DEF Steps, SendSteps
    <3>2. QED
      BY <1>1, <1>5, <3>1, Starts DEF SendCheck
  <2>2. QED
    BY <1>1, <1>5, <2>1, TriesQuiet DEF SendCheck, codes, history
<1>6. ASSUME NEW p \in Procs, NEW who \in Callers, NEW e \in Emails, NEW match \in BOOLEAN,
             VerifyRead(p, who, e, match)
      PROVE  Tries'
  BY <1>1, <1>6, ReadTries
<1>7. ASSUME NEW p \in Procs, NEW g \in Guests, NEW e \in Emails, NEW ph, NEW r,
             RegisterRead(p, g, e, ph, r)
      PROVE  Tries'
  <2>1. req'[p].pc = "check" /\ \A q \in Procs \ {p} : req'[q] = req[q]
    BY <1>1, <1>7 DEF RegisterRead, TypeOK
  <2>2. QED
    BY <1>1, <1>7, <2>1, TriesQuiet DEF RegisterRead, codes, history
<1>8. ASSUME NEW j \in Keys, Lapse(j)
      PROVE  Tries'
  <2>1. req' = req /\ wrong' = wrong
    BY <1>8 DEF Lapse, history
  <2>2. /\ \A k \in Keys :
             \/ code'[k] = 0
             \/ /\ code'[k] = code[k]
                /\ \/ attempts'[k] = attempts[k] /\ (k \in older' => k \in older)
                   \/ k \in older /\ attempts'[k] = 0 /\ k \notin older'
        /\ \A k \in older' : k \in older /\ attempts'[k] = attempts[k]
    <3>1. CASE code' = code /\ attempts' = attempts /\ older' = older
      BY <3>1
    <3>2. CASE code' = [code EXCEPT ![j] = 0] /\ attempts' = attempts /\ older' = older
      BY <1>1, <3>2 DEF TypeOK
    <3>3. CASE /\ code' = code /\ (code[j] = 0 \/ j \in older)
               /\ attempts' = [attempts EXCEPT ![j] = 0] /\ older' = older \ {j}
      BY <1>1, <3>3 DEF TypeOK
    <3>4. QED
      BY <1>8, <3>1, <3>2, <3>3 DEF Lapse, codes
  <2>3. QED
    BY <1>1, <2>1, <2>2, LapseTries
<1>9. CASE /\ req' = req /\ wrong' = wrong /\ code' = code /\ attempts' = attempts
           /\ older' = older
  BY <1>1, <1>9, LapseTries
<1>10. ASSUME NEW a, LapsePhone(a)
       PROVE  Tries'
  BY <1>9, <1>10 DEF LapsePhone, codes, history
<1>11. QED
  BY <1>2, <1>4, <1>5, <1>6, <1>7, <1>8, <1>9, <1>10
  DEF Next, Step, SendRefused, VerifyRefused, RegisterRefused, vars, Abandon

\* The bound on wrong answers, for any number of requests and any limit: it is what
\* their overlap and the end of a counter older than the code can make of the
\* allowance, and no more.
THEOREM TriesStayBounded == Spec => []TriesBounded
<1> DEFINE Inv == CutAt = {} => Tries
<1>1. Init => Inv
  <2>1. ASSUME Init
        PROVE  Tries
    <3>1. \A p \in Procs : req[p].pc = "idle"
      BY <2>1 DEF Init, Idle
    <3>2. TriesLeft /\ FreshCodes /\ BurnSound /\ OlderCounts
      BY <2>1, <3>1 DEF Init, TriesLeft, LeftAt, FreshCodes, BurnSound, OlderCounts
    <3>3. Cardinality(Procs) \in Nat
      BY EmailAssumption, FS_CardinalityType
    <3>4. ASSUME NEW c \in CodeId
          PROVE  wrong[c] + Cardinality(Answering(c))
                   <= MaxAttempts * Cardinality(Procs) + UnderOlder
      <4>1. Cardinality(Answering(c)) = 0
        BY <3>1, FS_EmptySet DEF Answering
      <4>2. wrong[c] = 0
        BY <2>1 DEF Init
      <4>3. MaxAttempts * Cardinality(Procs) + UnderOlder \in Nat
        BY <3>3, EmailAssumption, FreeNat
      <4>4. QED
        BY <4>1, <4>2, <4>3
    <3>5. QED
      BY <3>2, <3>4 DEF Tries, TriesTotal
  <2>2. QED
    BY <2>1
<1>2. Core /\ Core' /\ Inv /\ [Next]_vars => Inv'
  BY TriesStep
<1>3. Core /\ Inv => TriesBounded
  <2>1. ASSUME Core, Inv, CutAt = {}, NEW c \in CodeId
        PROVE  wrong[c] <= MaxAttempts * Cardinality(Procs) + UnderOlder
    <3>1. Cardinality(Answering(c)) \in Nat /\ Cardinality(Procs) \in Nat
      <4>1. Answering(c) \subseteq Procs
        BY DEF Answering
      <4>2. QED
        BY <4>1, Sizes
    <3>2. wrong[c] \in Nat /\ MaxAttempts * Cardinality(Procs) + UnderOlder \in Nat
      BY <2>1, <3>1, EmailAssumption, FreeNat DEF Core, TypeOK
    <3>3. QED
      BY <2>1, <3>1, <3>2 DEF Tries, TriesTotal
  <2>2. QED
    BY <2>1 DEF TriesBounded
<1> HIDE DEF Inv
<1>4. QED
  BY <1>1, <1>2, <1>3, CoreInvariant, PTL DEF Spec

----------------------------------------------------------------------------
(* One request at a time *)

OneAtATime == \A p, q \in Procs : p = q

\* The answers counted at a key are those its code has met, or more: a send may leave
\* the counter of the code before; and they are fewer than allowed, unless the request
\* in progress is about to burn the code.
CounterCovers(k) == code[k] # 0 => wrong[code[k]] <= attempts[k]
CounterBelow(k) == attempts[k] < MaxAttempts \/ \E p \in Procs : req[p].pc = "burn" /\ KeyOf(p) = k

\* A counter older than a code is one its sender has still to clear.
OlderCleared(k) ==
    k \in older /\ code[k] # 0 => \E p \in Procs : req[p].pc = "reset" /\ KeyOf(p) = k

AnswersInOrder(p) ==
    /\ req[p].pc = "reset" => (code[KeyOf(p)] # 0 => wrong[code[KeyOf(p)]] = 0)
    /\ req[p].pc = "count" => code[KeyOf(p)] \in {0, req[p].code}
    /\ req[p].pc \in {"accept", "recheck"} => req[p].seen < MaxAttempts

CounterHolds ==
    /\ \A k \in Keys : CounterCovers(k) /\ CounterBelow(k) /\ OlderCleared(k)
    /\ FreshCodes
    /\ \A p \in Procs : AnswersInOrder(p)

\* A step that leaves codes and counters alone and does not end a burning.
LEMMA CounterQuiet ==
    ASSUME OneAtATime, Core, Core', Grows, CounterHolds, NEW p \in Procs,
           code' = code, attempts' = attempts, older' = older, wrong' = wrong,
           req[p].pc \notin {"reset", "burn"}, AnswersInOrder(p)'
    PROVE  CounterHolds'
<1>1. \A k \in Keys : CounterCovers(k)'
  BY DEF CounterHolds, CounterCovers
<1>2. \A k \in Keys : CounterBelow(k)' /\ OlderCleared(k)'
  BY DEF CounterHolds, CounterBelow, OlderCleared, OneAtATime
<1>3. FreshCodes'
  BY FreshStays DEF Core, CounterHolds
<1>4. \A q \in Procs : AnswersInOrder(q)'
  BY DEF OneAtATime
<1>5. QED
  BY <1>1, <1>2, <1>3, <1>4 DEF CounterHolds

\* A new code has met no answer.
LEMMA SetCodeCounter ==
    ASSUME OneAtATime, Core, Core', Grows, CounterHolds, NEW p \in Procs, SetCode(p)
    PROVE  CounterHolds'
<1>1. TypeOK /\ TypeOK' /\ RequestsSound
  BY DEF Core
<1>2. PICK c : c = issued + 1
  OBVIOUS
<1>3. c \in CodeId /\ c > issued /\ wrong[c] = 0 /\ c # 0
  BY <1>1, <1>2, EmailAssumption DEF SetCode, TypeOK, CodeId, CounterHolds, FreshCodes
<1>4. KeyOf(p) \in Keys
  BY <1>1, KeyOfThere DEF SetCode
<1>5. /\ code' = [code EXCEPT ![KeyOf(p)] = c] /\ wrong' = wrong /\ attempts' = attempts
      /\ Goto(p, "reset")
  BY <1>2 DEF SetCode
<1>6. req'[p].pc = "reset" /\ KeyOf(p)' = KeyOf(p)
  <2>1. req'[p] = [req[p] EXCEPT !.pc = "reset"] /\ req'[p].pc = "reset"
    BY <1>1, <1>5, Moves DEF Steps, SendSteps
  <2>2. QED
    BY <1>1, <2>1 DEF KeyOf, TypeOK, Request
<1>7. ASSUME NEW k \in Keys
      PROVE  CounterCovers(k)' /\ CounterBelow(k)' /\ OlderCleared(k)'
  <2>1. ASSUME k = KeyOf(p)
        PROVE  CounterCovers(k)' /\ CounterBelow(k)'
    BY <1>1, <1>3, <1>5, <2>1 DEF CounterCovers, TypeOK, CounterHolds, CounterBelow, OneAtATime, SetCode
  <2>2. ASSUME k # KeyOf(p)
        PROVE  CounterCovers(k)' /\ CounterBelow(k)'
    BY <1>1, <1>5, <2>2 DEF CounterCovers, TypeOK, CounterHolds, CounterBelow, OneAtATime, SetCode
  <2>3. OlderCleared(k)'
    <3>1. CASE k = KeyOf(p)
      BY <1>6, <3>1 DEF OlderCleared
    <3>2. CASE k # KeyOf(p)
      BY <1>1, <1>5, <3>2 DEF OlderCleared, CounterHolds, OneAtATime, SetCode, TypeOK
    <3>3. QED
      BY <3>1, <3>2
  <2>4. QED
    BY <2>1, <2>2, <2>3
<1>8. AnswersInOrder(p)'
  BY <1>1, <1>3, <1>4, <1>5, <1>6 DEF AnswersInOrder, TypeOK
<1>9. FreshCodes'
  BY <1>1, <1>5, FreshStays DEF CounterHolds
<1>10. QED
  BY <1>7, <1>8, <1>9 DEF CounterHolds, OneAtATime

\* The counter starts again for a code that has met no answer.
LEMMA ResetCounter ==
    ASSUME OneAtATime, Core, Core', Grows, CounterHolds, NEW p \in Procs, ResetAttempts(p)
    PROVE  CounterHolds'
<1>1. TypeOK /\ TypeOK' /\ RequestsSound
  BY DEF Core
<1>2. KeyOf(p) \in Keys /\ req[p].pc = "reset"
  BY <1>1, KeyOfThere DEF ResetAttempts
<1>3. /\ code' = code /\ wrong' = wrong /\ attempts' = [attempts EXCEPT ![KeyOf(p)] = 0]
      /\ older' = older \ {KeyOf(p)}
  BY DEF ResetAttempts, history
<1>4. req'[p].pc = "charge"
  BY <1>1, Moves DEF ResetAttempts, Steps, SendSteps
<1>5. ASSUME NEW k \in Keys
      PROVE  CounterCovers(k)' /\ CounterBelow(k)' /\ OlderCleared(k)'
  <2>1. CASE k = KeyOf(p)
    <3>1. attempts'[k] = 0
      BY <1>1, <1>3, <2>1 DEF TypeOK
    <3>2. code[k] # 0 => wrong[code[k]] = 0
      BY <1>2, <2>1 DEF CounterHolds, AnswersInOrder
    <3>3. QED
      BY <1>3, <2>1, <3>1, <3>2, EmailAssumption DEF CounterCovers, CounterBelow, OlderCleared
  <2>2. CASE k # KeyOf(p)
    BY <1>1, <1>2, <1>3, <2>2
    DEF CounterCovers, TypeOK, CounterHolds, CounterBelow, OlderCleared, OneAtATime
  <2>3. QED
    BY <2>1, <2>2
<1>6. AnswersInOrder(p)'
  BY <1>4 DEF AnswersInOrder
<1>7. FreshCodes'
  BY <1>1, <1>3, FreshStays DEF CounterHolds
<1>8. QED
  BY <1>5, <1>6, <1>7 DEF CounterHolds, OneAtATime

\* An answer is counted at the key of the code it was compared with, or of none.
LEMMA CountCounter ==
    ASSUME OneAtATime, Core, Core', Grows, CounterHolds, NEW p \in Procs, CountWrong(p)
    PROVE  CounterHolds'
<1>1. TypeOK /\ TypeOK' /\ RequestsSound
  BY DEF Core
<1>2. PICK d : d = req[p].code
  OBVIOUS
<1>3. d \in CodeId /\ d <= issued /\ d > 0 /\ d # 0
  <2>1. d \in 1 .. issued
    BY <1>2, Counted DEF Known
  <2>2. QED
    BY <1>1, <2>1, EmailAssumption DEF TypeOK, CodeId
<1>4. KeyOf(p) \in Keys /\ req[p].pc = "count"
  BY <1>1, KeyOfThere DEF CountWrong
<1>5. /\ code' = code /\ issued' = issued /\ older' = older
      /\ wrong' = [wrong EXCEPT ![d] = @ + 1]
      /\ attempts' = [attempts EXCEPT ![KeyOf(p)] = @ + 1]
  BY <1>2 DEF CountWrong
<1>6. \A c \in CodeId : /\ wrong'[c] = IF c = d THEN wrong[c] + 1 ELSE wrong[c]
                        /\ wrong[c] \in Nat
  BY <1>1, <1>3, <1>5 DEF TypeOK
<1>7. code[KeyOf(p)] \in {0, d}
  BY <1>2, <1>4 DEF CounterHolds, AnswersInOrder
<1>8. ASSUME NEW k \in Keys
      PROVE  CounterCovers(k)' /\ CounterBelow(k)'
  <2>1. CASE k = KeyOf(p)
    <3>1. attempts'[k] = attempts[k] + 1 /\ attempts[k] \in Nat
      BY <1>1, <1>5, <2>1 DEF TypeOK
    <3>2. CounterCovers(k)'
      <4>1. CASE code[k] = 0
        BY <1>5, <4>1 DEF CounterCovers
      <4>2. CASE code[k] = d
        <5>1. wrong[d] <= attempts[k] /\ wrong'[d] = wrong[d] + 1 /\ wrong[d] \in Nat
          BY <1>3, <1>6, <4>2 DEF CounterHolds, CounterCovers
        <5>2. wrong'[d] <= attempts'[k]
          BY <3>1, <5>1
        <5>3. QED
          BY <1>5, <4>2, <5>2 DEF CounterCovers
      <4>3. QED
        BY <1>7, <2>1, <4>1, <4>2
    <3>3. CounterBelow(k)'
      <4>1. CASE attempts[k] + 1 >= MaxAttempts
        <5>1. Goto(p, "burn")
          BY <2>1, <4>1 DEF CountWrong
        <5>2. req'[p] = [req[p] EXCEPT !.pc = "burn"] /\ req'[p].pc = "burn"
          BY <1>1, <5>1, Moves DEF Steps, AnswerSteps
        <5>3. KeyOf(p)' = k
          BY <1>1, <2>1, <5>2 DEF KeyOf, TypeOK, Request
        <5>4. QED
          BY <5>2, <5>3 DEF CounterBelow
      <4>2. CASE ~(attempts[k] + 1 >= MaxAttempts)
        BY <3>1, <4>2, EmailAssumption DEF CounterBelow
      <4>3. QED
        BY <4>1, <4>2
    <3>4. QED
      BY <3>2, <3>3
  <2>2. CASE k # KeyOf(p)
    <3>1. attempts'[k] = attempts[k]
      BY <1>1, <1>5, <2>2 DEF TypeOK
    <3>2. CounterBelow(k)'
      BY <1>4, <2>2, <3>1 DEF CounterHolds, CounterBelow, OneAtATime
    <3>3. code[k] # 0 => code[k] # d
      <4>1. ASSUME code[k] # 0, code[k] = d
            PROVE  FALSE
        <5>1. PICK who \in Callers, e \in Emails :
                 who = req[p].who /\ e = req[p].email /\ Known(code[k], who, e)
          BY <1>2, <4>1, Counted
        <5>2. k = Key(who, e)
          BY <4>1, <5>1, KeyFits
        <5>3. QED
          BY <2>2, <5>1, <5>2 DEF KeyOf
      <4>2. QED
        BY <4>1
    <3>4. code[k] # 0 => code[k] \in CodeId
      BY <1>1, EmailAssumption DEF TypeOK, CodeId
    <3>5. code[k] # 0 => wrong'[code[k]] = wrong[code[k]]
      BY <1>6, <3>3, <3>4
    <3>6. CounterCovers(k)'
      BY <1>5, <3>1, <3>5 DEF CounterHolds, CounterCovers
    <3>7. QED
      BY <3>2, <3>6
  <2>3. QED
    BY <2>1, <2>2
<1>9. FreshCodes'
  <2>1. \A c \in CodeId : c > issued => c # d
    BY <1>1, <1>3, EmailAssumption DEF TypeOK, CodeId
  <2>2. QED
    BY <1>5, <1>6, <2>1 DEF CounterHolds, FreshCodes
<1>10. AnswersInOrder(p)'
  <2>1. req'[p].pc \in {"burn", "idle"}
    BY <1>1, Moves DEF CountWrong, Steps, AnswerSteps
  <2>2. QED
    BY <2>1 DEF AnswersInOrder
<1>11. \A k \in Keys : OlderCleared(k)'
  BY <1>4, <1>5 DEF CounterHolds, OlderCleared, OneAtATime
<1>12. QED
  BY <1>8, <1>9, <1>10, <1>11 DEF CounterHolds, OneAtATime

\* A code and its counter go together.
LEMMA DeleteCounter ==
    ASSUME OneAtATime, Core, Core', Grows, CounterHolds, NEW p \in Procs, DeleteCode(p)
    PROVE  CounterHolds'
<1>1. TypeOK /\ TypeOK' /\ RequestsSound
  BY DEF Core
<1>2. KeyOf(p) \in Keys
  BY <1>1, KeyOfThere DEF DeleteCode
<1>3. /\ code' = [code EXCEPT ![KeyOf(p)] = 0] /\ wrong' = wrong
      /\ attempts' = [attempts EXCEPT ![KeyOf(p)] = 0] /\ older' = older \ {KeyOf(p)}
      /\ req'[p].pc = "idle"
  BY <1>1, Moves DEF DeleteCode, history
<1>4. ASSUME NEW k \in Keys
      PROVE  CounterCovers(k)' /\ CounterBelow(k)' /\ OlderCleared(k)'
  <2>1. CASE k = KeyOf(p)
    BY <1>1, <1>3, <2>1, EmailAssumption DEF CounterCovers, CounterBelow, OlderCleared, TypeOK
  <2>2. CASE k # KeyOf(p)
    BY <1>1, <1>3, <2>2
    DEF CounterCovers, TypeOK, CounterHolds, CounterBelow, OlderCleared, OneAtATime, DeleteCode
  <2>3. QED
    BY <2>1, <2>2
<1>5. FreshCodes'
  BY <1>1, <1>3, FreshStays DEF CounterHolds
<1>6. AnswersInOrder(p)'
  BY <1>3 DEF AnswersInOrder
<1>7. QED
  BY <1>4, <1>5, <1>6 DEF CounterHolds, OneAtATime

\* A code is read when nobody is about to burn it: it has met fewer answers than allowed.
LEMMA ReadCounter ==
    ASSUME OneAtATime, Core, Core', Grows, CounterHolds, NEW p \in Procs,
           NEW who \in Callers, NEW e \in Emails, NEW match \in BOOLEAN,
           VerifyRead(p, who, e, match)
    PROVE  CounterHolds'
<1>1. TypeOK /\ TypeOK'
  BY DEF Core
<1>2. PICK k, d : k \in Keys /\ k = Key(who, e) /\ d = code[k]
  BY KeyThere
<1>3. d \in CodeId /\ d # 0 /\ wrong[d] \in Nat /\ d \in 0 .. MaxCodes
  <2>1. d \in 0 .. MaxCodes /\ d # 0
    BY <1>1, <1>2 DEF VerifyRead, TypeOK
  <2>2. d \in CodeId
    BY <2>1, EmailAssumption DEF CodeId
  <2>3. QED
    BY <1>1, <2>1, <2>2 DEF TypeOK
<1>4. PICK step \in {"count", "accept", "recheck"} : Start(p, step, who, e, d, wrong[d])
  BY <1>2 DEF VerifyRead
<1>5. /\ req'[p].pc = step /\ req'[p].who = who /\ req'[p].email = e
      /\ req'[p].code = d /\ req'[p].seen = wrong[d]
  <2>1. step \in Steps
    BY DEF Steps, AnswerSteps
  <2>2. QED
    BY <1>1, <1>3, <1>4, <2>1, Starts
<1>6. /\ req[p].pc = "idle"
      /\ code' = code /\ attempts' = attempts /\ older' = older /\ wrong' = wrong
  BY DEF VerifyRead, codes, history
<1>7. wrong[d] < MaxAttempts
  <2>1. wrong[d] <= attempts[k] /\ attempts[k] \in Nat
    BY <1>1, <1>2, <1>3 DEF CounterHolds, CounterCovers, TypeOK
  <2>2. attempts[k] < MaxAttempts
    BY <1>2, <1>6 DEF CounterHolds, CounterBelow, OneAtATime
  <2>3. QED
    BY <1>3, <2>1, <2>2, EmailAssumption
<1>8. KeyOf(p)' = k
  BY <1>2, <1>5 DEF KeyOf
<1>9. AnswersInOrder(p)'
  BY <1>2, <1>5, <1>6, <1>7, <1>8 DEF AnswersInOrder
<1>10. QED
  BY <1>6, <1>9, CounterQuiet

\* A code ends before its counter, or the counter before a code that has met no answer.
LEMMA LapseCounter ==
    ASSUME OneAtATime, Core, Core', Grows, CounterHolds,
           NEW j \in Keys, Lapse(j)
    PROVE  CounterHolds'
<1>1. TypeOK /\ TypeOK'
  BY DEF Core
<1>2. req' = req /\ wrong' = wrong /\ \A p : KeyOf(p)' = KeyOf(p)
  BY DEF Lapse, history, KeyOf
<1>3. \A k \in Keys : /\ code'[k] \in {0, code[k]} /\ (k \in older' => k \in older)
                      /\ \/ attempts'[k] = attempts[k]
                         \/ (code'[k] = 0 \/ k \in older) /\ attempts'[k] = 0
  <2>1. CASE code' = code /\ attempts' = attempts /\ older' = older
    BY <2>1
  <2>2. CASE code' = [code EXCEPT ![j] = 0] /\ attempts' = attempts /\ older' = older
    BY <1>1, <2>2 DEF TypeOK
  <2>3. CASE /\ code' = code /\ (code[j] = 0 \/ j \in older)
             /\ attempts' = [attempts EXCEPT ![j] = 0] /\ older' = older \ {j}
    BY <1>1, <2>3 DEF TypeOK
  <2>4. QED
    BY <2>1, <2>2, <2>3 DEF Lapse, codes
<1>4. ASSUME NEW k \in Keys
      PROVE  CounterCovers(k)' /\ CounterBelow(k)' /\ OlderCleared(k)'
  <2>1. CounterCovers(k)'
    <3>1. CASE code[k] # 0 /\ k \in older
      <4>1. wrong[code[k]] = 0
        BY <3>1 DEF CounterHolds, OlderCleared, AnswersInOrder
      <4>2. attempts'[k] \in Nat
        BY <1>1 DEF TypeOK
      <4>3. QED
        BY <1>2, <1>3, <4>1, <4>2 DEF CounterCovers
    <3>2. CASE code[k] = 0 \/ k \notin older
      BY <1>2, <1>3, <3>2 DEF CounterHolds, CounterCovers
    <3>3. QED
      BY <3>1, <3>2
  <2>2. CounterBelow(k)'
    BY <1>2, <1>3, EmailAssumption DEF CounterHolds, CounterBelow
  <2>3. OlderCleared(k)'
    BY <1>2, <1>3 DEF CounterHolds, OlderCleared
  <2>4. QED
    BY <2>1, <2>2, <2>3
<1>5. ASSUME NEW p \in Procs
      PROVE  AnswersInOrder(p)'
  <2>1. req[p].pc \in {"reset", "count"} => KeyOf(p) \in Keys
    BY KeyOfThere DEF Core
  <2>2. QED
    BY <1>2, <1>3, <2>1 DEF CounterHolds, AnswersInOrder
<1>6. FreshCodes'
  BY <1>1, <1>2, FreshStays DEF CounterHolds
<1>7. QED
  BY <1>4, <1>5, <1>6 DEF CounterHolds

LEMMA CounterStep ==
    ASSUME OneAtATime, CutAt \cap {"reset", "burn"} = {}, Core, Core', CounterHolds, [Next]_vars
    PROVE  CounterHolds'
<1>1. TypeOK /\ TypeOK' /\ Grows
  BY GrowsStep DEF Core
<1>2. ASSUME NEW p \in Procs,
             \/ SetCode(p) \/ ResetAttempts(p) \/ CountWrong(p) \/ DeleteCode(p)
      PROVE  CounterHolds'
  BY <1>1, <1>2, SetCodeCounter, ResetCounter, CountCounter, DeleteCounter
<1>3. ASSUME NEW p \in Procs, req'[p].pc \notin {"reset", "count", "accept", "recheck"},
             req[p].pc \notin {"reset", "burn"},
             code' = code, attempts' = attempts, older' = older, wrong' = wrong
      PROVE  CounterHolds'
  <2>1. AnswersInOrder(p)'
    BY <1>3 DEF AnswersInOrder
  <2>2. QED
    BY <1>1, <1>3, <2>1, CounterQuiet
<1>4. ASSUME NEW p \in Procs,
             \/ ChargeRate(p) \/ ExpireRate(p) \/ AcceptEmail(p) \/ Recheck(p)
             \/ UpdateUserEmail(p) \/ SaveEmail(p) \/ RegisterCheck(p) \/ CreateUser(p)
             \/ NotifyPhone(p) \/ CommitUser(p) \/ Unmark(p)
      PROVE  CounterHolds'
  <2>1. /\ code' = code /\ attempts' = attempts /\ older' = older /\ wrong' = wrong
        /\ req[p].pc \notin {"reset", "burn"}
    BY <1>4 DEF ChargeRate, ExpireRate, AcceptEmail, Recheck, UpdateUserEmail, SaveEmail,
                RegisterCheck, CreateUser, NotifyPhone, CommitUser, Unmark, codes, history
  <2>2. {"expire", "drop", "update", "save", "insert", "notify", "commit", "unmark"}
          \subseteq Steps \ {"reset", "burn", "count", "accept", "recheck"}
    BY DEF Steps, SendSteps, AnswerSteps, RegisterSteps
  <2>3. \E step \in {"expire", "drop", "update", "save", "insert", "notify", "commit",
                     "unmark"} : Goto(p, step) \/ Finish(p)
    BY <1>4 DEF ChargeRate, ExpireRate, AcceptEmail, Recheck, UpdateUserEmail, SaveEmail,
                RegisterCheck, CreateUser, NotifyPhone, CommitUser, Unmark
  <2>4. req'[p].pc \notin {"reset", "count", "accept", "recheck"}
    BY <1>1, <2>2, <2>3, Moves
  <2>5. QED
    BY <1>3, <2>1, <2>4
<1>5. ASSUME NEW p \in Procs, Abandon(p)
      PROVE  CounterHolds'
  <2>1. req'[p].pc = "idle" /\ req[p].pc \notin {"reset", "burn"}
    BY <1>1, <1>5, Moves DEF Abandon
  <2>2. QED
    BY <1>3, <1>5, <2>1 DEF Abandon, codes, history
<1>6. ASSUME NEW p \in Procs, NEW who \in Callers, NEW e \in Emails, SendCheck(p, who, e)
      PROVE  CounterHolds'
  <2>1. req'[p].pc = "set"
    <3>1. "set" \in Steps /\ 0 \in 0 .. MaxCodes /\ 0 \in Nat
      BY EmailAssumption DEF Steps, SendSteps
    <3>2. QED
      BY <1>1, <1>6, <3>1, Starts DEF SendCheck
  <2>2. QED
    BY <1>3, <1>6, <2>1 DEF SendCheck, codes, history
<1>7. ASSUME NEW p \in Procs, NEW who \in Callers, NEW e \in Emails, NEW match \in BOOLEAN,
             VerifyRead(p, who, e, match)
      PROVE  CounterHolds'
  BY <1>1, <1>7, ReadCounter
<1>8. ASSUME NEW p \in Procs, NEW g \in Guests, NEW e \in Emails, NEW ph, NEW r,
             RegisterRead(p, g, e, ph, r)
      PROVE  CounterHolds'
  <2>1. req'[p].pc = "check"
    BY <1>1, <1>8 DEF RegisterRead, TypeOK
  <2>2. QED
    BY <1>3, <1>8, <2>1 DEF RegisterRead, codes, history
<1>9. ASSUME NEW k \in Keys, Lapse(k)
      PROVE  CounterHolds'
  BY <1>1, <1>9, LapseCounter
<1>10. CASE /\ req' = req /\ wrong' = wrong /\ code' = code /\ attempts' = attempts
            /\ older' = older
  <2>1. \A p : KeyOf(p)' = KeyOf(p)
    BY <1>10 DEF KeyOf
  <2>2. FreshCodes'
    BY <1>1, <1>10, FreshStays DEF CounterHolds
  <2>3. QED
    BY <1>10, <2>1, <2>2 DEF CounterHolds, CounterCovers, CounterBelow, OlderCleared,
                          AnswersInOrder
<1>11. ASSUME NEW a, LapsePhone(a)
       PROVE  CounterHolds'
  BY <1>10, <1>11 DEF LapsePhone, codes, history
<1>12. QED
  BY <1>2, <1>4, <1>5, <1>6, <1>7, <1>8, <1>9, <1>10, <1>11
  DEF Next, Step, SendRefused, VerifyRefused, RegisterRefused, vars

\* While one request ends before the next begins, and neither the clearing of the
\* counter after a new code nor the deletion of a burned one fails, a code that has met
\* the wrong answers allowed is accepted no more, as the comment in the code says: these
\* two failures and requests that overlap are what breaks the claim, and nothing else.
THEOREM CodesBurnAlone ==
    ASSUME Cardinality(Procs) = 1, CutAt \cap {"reset", "burn"} = {}
    PROVE  Spec => []WrongTriesBurnCode
<1>1. OneAtATime
  BY FS_Singleton, EmailAssumption DEF OneAtATime
<1>2. Init => CounterHolds
  <2>1. ASSUME Init
        PROVE  CounterHolds
    <3>1. \A p \in Procs : req[p].pc = "idle"
      BY <2>1 DEF Init, Idle
    <3>2. \A k \in Keys : code[k] = 0 /\ attempts[k] = 0
      BY <2>1 DEF Init
    <3>3. FreshCodes
      BY <2>1 DEF Init, FreshCodes
    <3>4. QED
      BY <3>1, <3>2, <3>3, EmailAssumption
      DEF CounterHolds, CounterCovers, CounterBelow, OlderCleared, AnswersInOrder
  <2>2. QED
    BY <2>1
<1>3. Core /\ Core' /\ CounterHolds /\ [Next]_vars => CounterHolds'
  BY <1>1, CounterStep
<1>4. CounterHolds => WrongTriesBurnCode
  BY DEF CounterHolds, AnswersInOrder, WrongTriesBurnCode
<1>5. QED
  BY <1>2, <1>3, <1>4, CoreInvariant, PTL DEF Spec

\* A code that an account goes back to is one no guest can register with again: it is
\* neither outstanding nor in a marker.  A request in progress is still to delete the
\* code it has put into a marker, and the marker it has registered with.
Used(c) == \E u \in Rows : users[u].proof = c

CodeUnspent(k) ==
    code[k] # 0 =>
        /\ ~Used(code[k])
        /\ marker[k] = code[k] => \E p \in Procs : req[p].pc = "drop" /\ KeyOf(p) = k

MarkerUnspent(k) ==
    marker[k] # 0 /\ Used(marker[k]) => \E p \in Procs : req[p].pc = "unmark" /\ KeyOf(p) = k

RequestUnspent(p) ==
    /\ req[p].pc = "accept" => ~Used(req[p].code)
    /\ req[p].pc \in {"check", "insert", "notify", "commit"} =>
          /\ ~Used(req[p].code)
          /\ code[KeyOf(p)] # req[p].code
          /\ marker[KeyOf(p)] \in {0, req[p].code}

GuestKeys == {Key(Guest(g), e) : g \in Guests, e \in Emails}

Unspent ==
    /\ OneVerificationOneAccount
    /\ \A k \in GuestKeys : CodeUnspent(k) /\ MarkerUnspent(k)
    /\ \A p \in Procs : RequestUnspent(p)

LEMMA GuestKeyThere ==
    ASSUME NEW k \in GuestKeys
    PROVE  \E who \in Callers, e \in Emails :
              k \in Keys /\ k = Key(who, e) /\ who.kind = "guest" /\ who \in {Guest(g) : g \in Guests}
  BY KeyThere, CallersAre DEF GuestKeys

\* What a guest's key and a row refer to is a code issued.
LEMMA MarkerFits ==
    ASSUME Core, NEW k \in GuestKeys, marker[k] # 0, NEW who \in Callers, NEW e \in Emails,
           Known(marker[k], who, e)
    PROVE  k = Key(who, e)
<1>1. PICK g \in Guests, e1 \in Emails : k = Key(Guest(g), e1)
  BY DEF GuestKeys
<1>2. Known(marker[k], Guest(g), e1)
  BY <1>1 DEF Core, StoresProven, MarkerProven
<1>3. [who |-> who, email |-> e] = [who |-> Guest(g), email |-> e1]
  BY <1>2 DEF Known
<1>4. who = Guest(g) /\ e = e1
  BY <1>3
<1>5. QED
  BY <1>1, <1>4

\* Codes and markers at most end, no row is written, and a request that was to delete
\* one has done so or is still there.
LEMMA UnspentQuiet ==
    ASSUME OneAtATime, Core, Unspent, NEW p \in Procs,
           users' = users, registered' = registered,
           \A k \in Keys : code'[k] \in {0, code[k]} /\ marker'[k] \in {0, marker[k]},
           req[p].pc = "drop" => req'[p] = req[p] \/ code'[KeyOf(p)] = 0,
           req[p].pc = "unmark" => req'[p] = req[p] \/ marker'[KeyOf(p)] = 0,
           RequestUnspent(p)'
    PROVE  Unspent'
<1>1. \A c : Used(c)' <=> Used(c)
  BY DEF Used, Rows
<1>2. OneVerificationOneAccount'
  BY DEF Unspent, OneVerificationOneAccount, Rows
<1>3. ASSUME NEW k \in GuestKeys
      PROVE  CodeUnspent(k)' /\ MarkerUnspent(k)'
  <2>1. k \in Keys
    BY GuestKeyThere
  <2>2. code'[k] \in {0, code[k]} /\ marker'[k] \in {0, marker[k]}
    BY <2>1
  <2>3. CodeUnspent(k) /\ MarkerUnspent(k)
    BY DEF Unspent
  <2>4. req'[p] = req[p] => KeyOf(p)' = KeyOf(p)
    BY DEF KeyOf
  <2>5. CodeUnspent(k)'
    <3>1. CASE code'[k] # 0
      <4>1. code'[k] = code[k] /\ code[k] # 0 /\ ~Used(code[k])
        BY <2>2, <2>3, <3>1 DEF CodeUnspent
      <4>2. ASSUME marker'[k] = code'[k]
            PROVE  req'[p].pc = "drop" /\ KeyOf(p)' = k
        <5>1. marker[k] = code[k]
          BY <2>2, <4>1, <4>2
        <5>2. req[p].pc = "drop" /\ KeyOf(p) = k
          BY <2>3, <4>1, <5>1 DEF CodeUnspent, OneAtATime
        <5>3. req'[p] = req[p]
          BY <3>1, <5>2
        <5>4. QED
          BY <2>4, <5>2, <5>3
      <4>3. QED
        BY <1>1, <4>1, <4>2 DEF CodeUnspent
    <3>2. CASE code'[k] = 0
      BY <3>2 DEF CodeUnspent
    <3>3. QED
      BY <3>1, <3>2
  <2>6. MarkerUnspent(k)'
    <3>1. ASSUME marker'[k] # 0, Used(marker[k])
          PROVE  req'[p].pc = "unmark" /\ KeyOf(p)' = k
      <4>1. marker'[k] = marker[k]
        BY <2>2, <3>1
      <4>2. req[p].pc = "unmark" /\ KeyOf(p) = k
        BY <2>3, <3>1, <4>1 DEF MarkerUnspent, OneAtATime
      <4>3. req'[p] = req[p]
        BY <3>1, <4>2
      <4>4. QED
        BY <2>4, <4>2, <4>3
    <3>2. marker'[k] # 0 => marker'[k] = marker[k]
      BY <2>2
    <3>3. marker'[k] # 0 /\ Used(marker[k])' => req'[p].pc = "unmark" /\ KeyOf(p)' = k
      BY <1>1, <3>1, <3>2 DEF Used
    <3>4. QED
      BY <3>3 DEF MarkerUnspent
  <2>7. QED
    BY <2>5, <2>6
<1>4. \A q \in Procs : RequestUnspent(q)'
  BY DEF OneAtATime
<1>5. QED
  BY <1>2, <1>3, <1>4 DEF Unspent

\* A new code is neither in a marker nor the proof of a row.
LEMMA SetCodeUnspent ==
    ASSUME OneAtATime, Core, Core', Unspent, NEW p \in Procs, SetCode(p)
    PROVE  Unspent'
<1>1. TypeOK /\ TypeOK' /\ RequestsSound
  BY DEF Core
<1>2. PICK c : c = issued + 1
  OBVIOUS
<1>3. \A who, e : ~Known(c, who, e)
  BY <1>1, <1>2 DEF Known, TypeOK
<1>4. /\ code' = [code EXCEPT ![KeyOf(p)] = c] /\ marker' = marker
      /\ users' = users /\ registered' = registered /\ req[p].pc = "set"
  BY <1>2 DEF SetCode, accounts
<1>5. req'[p].pc = "reset"
  BY <1>1, Moves DEF SetCode, Steps, SendSteps
<1>6. \A d : Used(d)' <=> Used(d)
  BY <1>4 DEF Used, Rows
<1>7. ~Used(c)
  BY <1>3 DEF Used, Core, StoresProven, RowProven
<1>8. ASSUME NEW k \in GuestKeys
      PROVE  CodeUnspent(k)' /\ MarkerUnspent(k)'
  <2>1. k \in Keys /\ CodeUnspent(k) /\ MarkerUnspent(k)
    BY GuestKeyThere DEF Unspent
  <2>2. marker[k] # 0 => marker[k] # c
    BY <1>3 DEF GuestKeys, Core, StoresProven, MarkerProven
  <2>3. code[k] # 0 => marker[k] # code[k] /\ ~Used(code[k])
    BY <1>4, <2>1 DEF CodeUnspent, OneAtATime
  <2>4. marker[k] # 0 => ~Used(marker[k])
    BY <1>4, <2>1 DEF MarkerUnspent, OneAtATime
  <2>5. code'[k] = c \/ code'[k] = code[k]
    BY <1>1, <1>4, <2>1 DEF TypeOK
  <2>6. code'[k] # 0 => code'[k] # marker[k] /\ ~Used(code'[k])
    BY <1>7, <2>2, <2>3, <2>5
  <2>7. CodeUnspent(k)'
    BY <1>4, <1>6, <2>6 DEF CodeUnspent
  <2>8. MarkerUnspent(k)'
    BY <1>4, <1>6, <2>4 DEF MarkerUnspent
  <2>9. QED
    BY <2>7, <2>8
<1>9. RequestUnspent(p)'
  BY <1>5 DEF RequestUnspent
<1>10. OneVerificationOneAccount'
  BY <1>4 DEF Unspent, OneVerificationOneAccount, Rows
<1>11. QED
  BY <1>8, <1>9, <1>10 DEF Unspent, OneAtATime

\* The code goes into the marker, and is the next thing to be deleted.
LEMMA AcceptUnspent ==
    ASSUME OneAtATime, Core, Core', Unspent, NEW p \in Procs, AcceptEmail(p)
    PROVE  Unspent'
<1>1. TypeOK /\ TypeOK' /\ RequestsSound
  BY DEF Core
<1>2. PICK c : c = req[p].code
  OBVIOUS
<1>3. KeyOf(p) \in Keys /\ ~Used(c)
  BY <1>1, <1>2, KeyOfThere DEF AcceptEmail, Unspent, RequestUnspent
<1>4. /\ marker' = [marker EXCEPT ![KeyOf(p)] = c] /\ code' = code
      /\ users' = users /\ registered' = registered /\ req[p].pc = "accept"
  BY <1>2 DEF AcceptEmail, accounts, codes
<1>5. req'[p].pc = "drop" /\ KeyOf(p)' = KeyOf(p)
  <2>1. Goto(p, "drop") /\ "drop" \in Steps
    BY DEF AcceptEmail, Steps, AnswerSteps
  <2>2. req'[p] = [req[p] EXCEPT !.pc = "drop"] /\ req'[p].pc = "drop"
    BY <1>1, <2>1, Moves
  <2>3. QED
    BY <1>1, <2>2 DEF KeyOf, TypeOK, Request
<1>6. \A d : Used(d)' <=> Used(d)
  BY <1>4 DEF Used, Rows
<1>7. ASSUME NEW k \in GuestKeys
      PROVE  CodeUnspent(k)' /\ MarkerUnspent(k)'
  <2>1. k \in Keys /\ CodeUnspent(k) /\ MarkerUnspent(k)
    BY GuestKeyThere DEF Unspent
  <2>2. code[k] # 0 => marker[k] # code[k] /\ ~Used(code[k])
    BY <1>4, <2>1 DEF CodeUnspent, OneAtATime
  <2>3. marker[k] # 0 => ~Used(marker[k])
    BY <1>4, <2>1 DEF MarkerUnspent, OneAtATime
  <2>4. CASE k = KeyOf(p)
    <3>1. marker'[k] = c
      BY <1>1, <1>4, <2>1, <2>4 DEF TypeOK
    <3>2. CodeUnspent(k)'
      BY <1>4, <1>5, <1>6, <2>2, <2>4 DEF CodeUnspent
    <3>3. MarkerUnspent(k)'
      BY <1>3, <1>6, <3>1 DEF MarkerUnspent
    <3>4. QED
      BY <3>2, <3>3
  <2>5. CASE k # KeyOf(p)
    <3>1. marker'[k] = marker[k]
      BY <1>1, <1>4, <2>1, <2>5 DEF TypeOK
    <3>2. CodeUnspent(k)'
      BY <1>4, <1>6, <2>2, <3>1 DEF CodeUnspent
    <3>3. MarkerUnspent(k)'
      BY <1>6, <2>3, <3>1 DEF MarkerUnspent
    <3>4. QED
      BY <3>2, <3>3
  <2>6. QED
    BY <2>4, <2>5
<1>8. RequestUnspent(p)'
  BY <1>5 DEF RequestUnspent
<1>9. OneVerificationOneAccount'
  BY <1>4 DEF Unspent, OneVerificationOneAccount, Rows
<1>10. QED
  BY <1>7, <1>8, <1>9 DEF Unspent, OneAtATime

\* A row takes a code that is at no guest's key, but for the marker that goes next.
LEMMA RowUnspent ==
    ASSUME OneAtATime, Core, Core', Unspent, NEW p \in Procs, NEW n \in UserId, NEW c,
           req[p].pc \in {"commit", "save"},
           code' = code, marker' = marker, Rows' = Rows \cup {n},
           users'[n].proof = c, \A v \in Rows \ {n} : users'[v] = users[v],
           \A v \in Rows \ {n} : users[v].proof # c,
           \A k \in GuestKeys : code[k] # c,
           \A k \in GuestKeys : marker[k] = c => req'[p].pc = "unmark" /\ KeyOf(p)' = k,
           req'[p].pc \in {"unmark", "drop"}
    PROVE  Unspent'
<1>1. \A d : Used(d)' => Used(d) \/ d = c
  BY DEF Used
<1>2. ASSUME NEW k \in GuestKeys
      PROVE  CodeUnspent(k)' /\ MarkerUnspent(k)'
  <2>1. k \in Keys /\ CodeUnspent(k) /\ MarkerUnspent(k)
    BY GuestKeyThere DEF Unspent
  <2>2. code[k] # 0 => marker[k] # code[k] /\ ~Used(code[k])
    BY <2>1 DEF CodeUnspent, OneAtATime
  <2>3. marker[k] # 0 => ~Used(marker[k])
    BY <2>1 DEF MarkerUnspent, OneAtATime
  <2>4. code[k] # c /\ (marker[k] = c => req'[p].pc = "unmark" /\ KeyOf(p)' = k)
    OBVIOUS
  <2>5. CodeUnspent(k)'
    BY <1>1, <2>2, <2>4 DEF CodeUnspent
  <2>6. MarkerUnspent(k)'
    BY <1>1, <2>3, <2>4 DEF MarkerUnspent
  <2>7. QED
    BY <2>5, <2>6
<1>3. \A q \in Procs : RequestUnspent(q)'
  BY DEF OneAtATime, RequestUnspent
<1>4. \A v \in Rows \ {n} : users'[v].proof # users'[n].proof
  OBVIOUS
<1>5. OneVerificationOneAccount'
  BY <1>4 DEF Unspent, OneVerificationOneAccount
<1>6. QED
  BY <1>2, <1>3, <1>5 DEF Unspent

LEMMA CommitUnspent ==
    ASSUME OneAtATime, Core, Core', Unspent, NEW p \in Procs, CommitUser(p)
    PROVE  Unspent'
<1>1. TypeOK /\ RequestsSound
  BY DEF Core
<1>2. PICK c, n : c = req[p].code /\ n = registered + 1
  OBVIOUS
<1>3. /\ req[p].pc = "commit" /\ Known(c, req[p].who, req[p].email) /\ c # 0
      /\ req[p].who \in Callers /\ req[p].email \in Emails
  BY <1>1, <1>2 DEF CommitUser, RequestsSound, Sound, Redeeming, Known
<1>4. n \in UserId /\ Rows' = Rows \cup {n} /\ Rows \subseteq UserId
  <2>1. /\ registered \in Nat /\ MaxUsers \in Nat /\ registered < MaxUsers
        /\ registered' = registered + 1
    BY <1>1, EmailAssumption DEF CommitUser, TypeOK
  <2>2. QED
    BY <1>2, <2>1 DEF Rows, UserId
<1>5. /\ code' = code /\ marker' = marker
      /\ users'[n].proof = c /\ \A v \in Rows \ {n} : users'[v] = users[v]
  BY <1>1, <1>2, <1>4 DEF CommitUser, TypeOK, codes
<1>6. req'[p].pc = "unmark" /\ KeyOf(p)' = KeyOf(p)
  <2>1. Goto(p, "unmark") /\ "unmark" \in Steps
    BY DEF CommitUser, Steps, RegisterSteps
  <2>2. req'[p] = [req[p] EXCEPT !.pc = "unmark"] /\ req'[p].pc = "unmark"
    BY <1>1, <2>1, Moves
  <2>3. QED
    BY <1>1, <2>2 DEF KeyOf, TypeOK, Request
<1>7. ~Used(c) /\ code[KeyOf(p)] # c
  BY <1>2, <1>3 DEF Unspent, RequestUnspent
<1>8. \A v \in Rows \ {n} : users[v].proof # c
  BY <1>7 DEF Used
<1>9. ASSUME NEW k \in GuestKeys
      PROVE  code[k] # c /\ (marker[k] = c => k = KeyOf(p))
  <2>1. k \in Keys
    BY GuestKeyThere
  <2>2. code[k] = c => k = KeyOf(p)
    BY <1>3, <2>1, KeyFits DEF KeyOf
  <2>3. marker[k] = c => k = KeyOf(p)
    BY <1>3, MarkerFits DEF KeyOf
  <2>4. QED
    BY <1>7, <2>2, <2>3
<1>10. QED
  BY <1>3, <1>4, <1>5, <1>6, <1>8, <1>9, RowUnspent

LEMMA SaveUnspent ==
    ASSUME OneAtATime, Core, Core', Unspent, NEW p \in Procs, SaveEmail(p)
    PROVE  Unspent'
<1>1. TypeOK /\ RequestsSound
  BY DEF Core
<1>2. PICK c, n : c = req[p].code /\ n = req[p].who.id
  OBVIOUS
<1>3. /\ req[p].pc = "save" /\ Known(c, req[p].who, req[p].email) /\ c # 0
      /\ req[p].who \in Callers /\ req[p].email \in Emails /\ req[p].who.kind = "user"
      /\ LoggedIn(req[p].who)
  BY <1>1, <1>2 DEF SaveEmail, RequestsSound, Sound, Redeeming, UserSteps, Known
<1>4. n \in UserId /\ req[p].who = User(n) /\ n \in Rows /\ Rows' = Rows /\ Rows \subseteq UserId
  <2>1. n \in UserId /\ req[p].who = User(n)
    BY <1>2, <1>3, CallersAre
  <2>2. n \in Rows
    BY <1>1, <1>2, <1>3, <2>1, EmailAssumption DEF LoggedIn, Rows, UserId, TypeOK
  <2>3. QED
    BY <1>1, <2>1, <2>2, EmailAssumption DEF SaveEmail, Rows, UserId, TypeOK
<1>5. /\ code' = code /\ marker' = marker
      /\ users'[n].proof = c /\ \A v \in Rows \ {n} : users'[v] = users[v]
  BY <1>1, <1>2, <1>4 DEF SaveEmail, TypeOK, codes
<1>6. req'[p].pc = "drop"
  BY <1>1, Moves DEF SaveEmail, Steps, AnswerSteps
<1>7. \A who, e : Known(c, who, e) => who = User(n)
  <2>1. ASSUME NEW who, NEW e, Known(c, who, e)
        PROVE  who = User(n)
    <3>1. [who |-> who, email |-> e] = [who |-> User(n), email |-> req[p].email]
      BY <1>3, <1>4, <2>1 DEF Known
    <3>2. QED
      BY <3>1
  <2>2. QED
    BY <2>1
<1>8. \A g \in Guests : Guest(g) # User(n)
  BY DEF Guest, User
<1>9. ASSUME NEW v \in Rows \ {n}
      PROVE  users[v].proof # c
  <2>1. PICK who \in {User(v)} \cup {Guest(g) : g \in Guests} :
           Known(users[v].proof, who, users[v].email)
    BY DEF Core, StoresProven, RowProven
  <2>2. User(v) # User(n)
    BY <1>9 DEF User
  <2>3. QED
    BY <1>7, <1>8, <2>1, <2>2
<1>10. ASSUME NEW k \in GuestKeys
       PROVE  code[k] # c /\ marker[k] # c
  <2>1. PICK g \in Guests, e \in Emails : k = Key(Guest(g), e)
    BY DEF GuestKeys
  <2>2. code[k] # 0 => Known(code[k], Guest(g), e)
    BY <2>1, CallersAre DEF Core, StoresProven, CodeProven
  <2>3. marker[k] # 0 => Known(marker[k], Guest(g), e)
    BY <2>1 DEF Core, StoresProven, MarkerProven
  <2>4. QED
    BY <1>3, <1>7, <1>8, <2>2, <2>3
<1>11. QED
  BY <1>3, <1>4, <1>5, <1>6, <1>9, <1>10, RowUnspent

LEMMA UnspentStep ==
    ASSUME OneAtATime, CutAt \cap {"drop", "unmark"} = {}, Core, Core', Unspent, [Next]_vars
    PROVE  Unspent'
<1>1. TypeOK /\ TypeOK' /\ RequestsSound
  BY DEF Core
<1>2. ASSUME NEW p \in Procs,
             \/ SetCode(p) \/ AcceptEmail(p) \/ CommitUser(p) \/ SaveEmail(p)
      PROVE  Unspent'
  BY <1>2, SetCodeUnspent, AcceptUnspent, CommitUnspent, SaveUnspent
<1>3. ASSUME NEW p \in Procs, code' = code, marker' = marker, users' = users,
             registered' = registered, req[p].pc \notin {"drop", "unmark"}, RequestUnspent(p)'
      PROVE  Unspent'
  BY <1>3, UnspentQuiet
<1>4. ASSUME NEW p \in Procs,
             \/ ResetAttempts(p) \/ ChargeRate(p) \/ ExpireRate(p) \/ CountWrong(p)
             \/ Recheck(p) \/ UpdateUserEmail(p) \/ Abandon(p)
      PROVE  Unspent'
  <2>1. /\ code' = code /\ marker' = marker /\ users' = users /\ registered' = registered
        /\ req[p].pc \notin {"drop", "unmark"}
    BY <1>4 DEF ResetAttempts, ChargeRate, ExpireRate, CountWrong, Recheck, UpdateUserEmail,
                Abandon, codes, accounts, history
  <2>2. {"charge", "expire", "burn", "update", "save"} \subseteq Steps
    BY DEF Steps, SendSteps, AnswerSteps
  <2>3. \/ Finish(p)
        \/ \E step \in {"charge", "expire", "burn", "update", "save"} : Goto(p, step)
    BY <1>4 DEF ResetAttempts, ChargeRate, ExpireRate, CountWrong, Recheck, UpdateUserEmail,
                Abandon
  <2>4. req'[p].pc \in {"idle", "charge", "expire", "burn", "update", "save"}
    BY <1>1, <2>2, <2>3, Moves
  <2>5. RequestUnspent(p)'
    BY <2>4 DEF RequestUnspent
  <2>6. QED
    BY <1>3, <2>1, <2>5
<1>5. ASSUME NEW p \in Procs, RegisterCheck(p) \/ CreateUser(p) \/ NotifyPhone(p)
      PROVE  Unspent'
  <2>1. /\ code' = code /\ marker' = marker /\ users' = users /\ registered' = registered
        /\ req[p].pc \in {"check", "insert", "notify"}
    BY <1>5 DEF RegisterCheck, CreateUser, NotifyPhone, codes, accounts
  <2>2. {"insert", "notify", "commit"} \subseteq Steps
    BY DEF Steps, RegisterSteps
  <2>3. Finish(p) \/ \E step \in {"insert", "notify", "commit"} : Goto(p, step)
    BY <1>5 DEF RegisterCheck, CreateUser, NotifyPhone
  <2>4. CASE Finish(p)
    <3>1. RequestUnspent(p)'
      BY <1>1, <2>4, Moves DEF RequestUnspent
    <3>2. QED
      BY <1>3, <2>1, <3>1
  <2>5. ASSUME NEW step \in {"insert", "notify", "commit"}, Goto(p, step)
        PROVE  Unspent'
    <3>1. req'[p] = [req[p] EXCEPT !.pc = step] /\ req'[p].pc = step
      BY <1>1, <2>2, <2>5, Moves
    <3>2. KeyOf(p)' = KeyOf(p) /\ req'[p].code = req[p].code
      BY <1>1, <3>1 DEF KeyOf, TypeOK, Request
    <3>3. ~Used(req[p].code) /\ code[KeyOf(p)] # req[p].code /\ marker[KeyOf(p)] \in {0, req[p].code}
      BY <2>1 DEF Unspent, RequestUnspent
    <3>4. \A c : Used(c)' <=> Used(c)
      BY <2>1 DEF Used, Rows
    <3>5. ~Used(req[p].code)'
      BY <3>2, <3>3, <2>1 DEF Used, Rows
    <3>6. RequestUnspent(p)'
      BY <2>1, <3>1, <3>2, <3>3, <3>5 DEF RequestUnspent
    <3>7. QED
      BY <1>3, <2>1, <3>6
  <2>6. QED
    BY <2>3, <2>4, <2>5
<1>6. ASSUME NEW p \in Procs, DeleteCode(p) \/ Unmark(p)
      PROVE  Unspent'
  <2>1. req'[p].pc = "idle" /\ KeyOf(p) \in Keys
    BY <1>1, <1>6, Moves, KeyOfThere DEF DeleteCode, Unmark
  <2>2. /\ users' = users /\ registered' = registered
        /\ \A k \in Keys : code'[k] \in {0, code[k]} /\ marker'[k] \in {0, marker[k]}
        /\ req[p].pc = "drop" => code'[KeyOf(p)] = 0
        /\ req[p].pc = "unmark" => marker'[KeyOf(p)] = 0
    BY <1>1, <1>6, <2>1 DEF DeleteCode, Unmark, TypeOK, accounts, codes
  <2>3. RequestUnspent(p)'
    BY <2>1 DEF RequestUnspent
  <2>4. QED
    BY <2>2, <2>3, UnspentQuiet
<1>7. ASSUME NEW p \in Procs, NEW who \in Callers, NEW e \in Emails, SendCheck(p, who, e)
      PROVE  Unspent'
  <2>1. req'[p].pc = "set"
    <3>1. "set" \in Steps /\ 0 \in 0 .. MaxCodes /\ 0 \in Nat
      BY EmailAssumption DEF Steps, SendSteps
    <3>2. QED
      BY <1>1, <1>7, <3>1, Starts DEF SendCheck
  <2>2. RequestUnspent(p)'
    BY <2>1 DEF RequestUnspent
  <2>3. QED
    BY <1>3, <1>7, <2>2 DEF SendCheck, codes, accounts
<1>8. ASSUME NEW p \in Procs, NEW who \in Callers, NEW e \in Emails, NEW match \in BOOLEAN,
             VerifyRead(p, who, e, match)
      PROVE  Unspent'
  <2>1. PICK k, d : k \in Keys /\ k = Key(who, e) /\ d = code[k] /\ d # 0
    BY <1>8, KeyThere DEF VerifyRead
  <2>2. d \in 0 .. MaxCodes /\ wrong[d] \in Nat
    BY <1>1, <2>1, EmailAssumption DEF TypeOK, CodeId
  <2>3. PICK step \in {"count", "accept", "recheck"} :
           Start(p, step, who, e, d, wrong[d]) /\ (step = "accept" => who.kind = "guest")
    BY <1>8, <2>1 DEF VerifyRead
  <2>4. req'[p].pc = step /\ req'[p].code = d
    <3>1. step \in Steps
      BY DEF Steps, AnswerSteps
    <3>2. QED
      BY <1>1, <2>2, <2>3, <3>1, Starts
  <2>5. step = "accept" => ~Used(d)
    <3>1. step = "accept" => k \in GuestKeys
      BY <2>1, <2>3, CallersAre DEF GuestKeys
    <3>2. QED
      BY <2>1, <3>1 DEF Unspent, CodeUnspent
  <2>6. /\ code' = code /\ marker' = marker /\ users' = users /\ registered' = registered
        /\ req[p].pc = "idle"
    BY <1>8 DEF VerifyRead, codes, accounts
  <2>7. RequestUnspent(p)'
    BY <2>4, <2>5, <2>6 DEF RequestUnspent, Used, Rows
  <2>8. QED
    BY <1>3, <2>6, <2>7
<1>9. ASSUME NEW p \in Procs, NEW g \in Guests, NEW e \in Emails, NEW ph, NEW r,
             RegisterRead(p, g, e, ph, r)
      PROVE  Unspent'
  <2>1. PICK k, d : k \in GuestKeys /\ k = Key(Guest(g), e) /\ d = marker[k] /\ d # 0
    BY <1>9 DEF RegisterRead, GuestKeys
  <2>2. /\ req'[p].pc = "check" /\ req'[p].code = d /\ KeyOf(p)' = k
    BY <1>1, <1>9, <2>1 DEF RegisterRead, TypeOK, KeyOf
  <2>3. /\ code' = code /\ marker' = marker /\ users' = users /\ registered' = registered
        /\ req[p].pc = "idle"
    BY <1>9 DEF RegisterRead, codes, accounts
  <2>4. ~Used(d) /\ code[k] # d
    BY <2>1, <2>3 DEF Unspent, CodeUnspent, MarkerUnspent, OneAtATime
  <2>5. RequestUnspent(p)'
    BY <2>1, <2>2, <2>3, <2>4 DEF RequestUnspent, Used, Rows
  <2>6. QED
    BY <1>3, <2>3, <2>5
<1>10. ASSUME NEW j \in Keys, Lapse(j)
       PROVE  Unspent'
  <2>1. req' = req /\ users' = users /\ registered' = registered
    BY <1>10 DEF Lapse, accounts
  <2>2. \A k \in Keys : code'[k] \in {0, code[k]} /\ marker'[k] \in {0, marker[k]}
    BY <1>1, <1>10 DEF Lapse, TypeOK, codes
  <2>3. ASSUME NEW p \in Procs
        PROVE  Unspent'
    <3>1. KeyOf(p)' = KeyOf(p)
      BY <2>1 DEF KeyOf
    <3>2. ASSUME req[p].pc \in {"check", "insert", "notify", "commit"}
          PROVE  req[p].code # 0 /\ KeyOf(p) \in Keys
      <4>1. req[p].code \in 1 .. issued
        BY <1>1, <3>2 DEF RequestsSound, Sound, Redeeming, Known
      <4>2. QED
        BY <1>1, <3>2, <4>1, KeyOfThere
    <3>3. RequestUnspent(p)
      BY DEF Unspent
    <3>4. RequestUnspent(p)'
      BY <2>1, <2>2, <3>1, <3>2, <3>3 DEF RequestUnspent, Used, Rows
    <3>5. QED
      BY <2>1, <2>2, <3>4, UnspentQuiet
  <2>4. CASE Procs = {}
    <3>1. \A c : Used(c)' <=> Used(c)
      BY <2>1 DEF Used, Rows
    <3>2. QED
      BY <2>1, <2>2, <2>4, GuestKeyThere
      DEF Unspent, CodeUnspent, MarkerUnspent, OneVerificationOneAccount, Used, Rows
  <2>5. QED
    BY <2>3, <2>4
<1>11. CASE req' = req /\ code' = code /\ marker' = marker /\ users' = users
            /\ registered' = registered
  <2>1. \A p : KeyOf(p)' = KeyOf(p)
    BY <1>11 DEF KeyOf
  <2>2. QED
    BY <1>11, <2>1
    DEF Unspent, CodeUnspent, MarkerUnspent, RequestUnspent, OneVerificationOneAccount, Used, Rows
<1>12. ASSUME NEW a, LapsePhone(a)
       PROVE  Unspent'
  BY <1>11, <1>12 DEF LapsePhone, codes
<1>13. QED
  BY <1>2, <1>4, <1>5, <1>6, <1>7, <1>8, <1>9, <1>10, <1>11, <1>12
  DEF Next, Step, SendRefused, VerifyRefused, RegisterRefused, vars

\* While one request ends before the next begins, and neither the deletion of a code
\* that was accepted nor that of a marker that was used fails, one verification opens
\* one account, as the comment in the code says: these two failures, whose errors the
\* code drops, and requests that overlap are what breaks the claim, and nothing else.
THEOREM OneAccountAlone ==
    ASSUME Cardinality(Procs) = 1, CutAt \cap {"drop", "unmark"} = {}
    PROVE  Spec => []OneVerificationOneAccount
<1>1. OneAtATime
  BY FS_Singleton, EmailAssumption DEF OneAtATime
<1>2. Init => Unspent
  <2>1. ASSUME Init
        PROVE  Unspent
    <3>1. \A p \in Procs : req[p].pc = "idle"
      BY <2>1 DEF Init, Idle
    <3>2. \A k \in Keys : code[k] = 0 /\ marker[k] = 0
      BY <2>1 DEF Init
    <3>3. Rows = {}
      BY <2>1 DEF Init, Rows
    <3>4. \A k \in GuestKeys : CodeUnspent(k) /\ MarkerUnspent(k)
      BY <3>2, GuestKeyThere DEF CodeUnspent, MarkerUnspent
    <3>5. QED
      BY <3>1, <3>3, <3>4 DEF Unspent, RequestUnspent, OneVerificationOneAccount
  <2>2. QED
    BY <2>1
<1>3. Core /\ Core' /\ Unspent /\ [Next]_vars => Unspent'
  BY <1>1, UnspentStep
<1>4. Unspent => OneVerificationOneAccount
  BY DEF Unspent
<1>5. QED
  BY <1>2, <1>3, <1>4, CoreInvariant, PTL DEF Spec

----------------------------------------------------------------------------
(* What a verification is good for *)

\* Accounts that were opened with one verification are one guest session's, and each
\* has a role of its own.
OnePerRole ==
    \A u, v \in Rows :
        users[u].proof = users[v].proof /\ u # v =>
            /\ users[u].role # users[v].role
            /\ \E g \in Guests : /\ Issued(users[u].proof, Guest(g), users[u].email)
                                 /\ Issued(users[u].proof, Guest(g), users[v].email)

\* Sign-ups that overlap, or whose marker could not be deleted, use a verification more
\* than once (auth.go:208): but for the same guest and address, and for one account of
\* each role at most, however many overlap and whatever fails.  The code that proved a
\* change of address serves no other account.
THEOREM AccountsPerVerification == Spec => []OnePerRole
<1>1. ASSUME EmailProven, AccountsUnique
      PROVE  OnePerRole
  <2> SUFFICES ASSUME NEW u \in Rows, NEW v \in Rows, NEW c,
                      c = users[u].proof, c = users[v].proof, u # v
               PROVE  /\ users[u].role # users[v].role
                      /\ \E g \in Guests : /\ Issued(c, Guest(g), users[u].email)
                                           /\ Issued(c, Guest(g), users[v].email)
    BY DEF OnePerRole
  <2>1. PICK who \in {User(u)} \cup {Guest(g) : g \in Guests} : Issued(c, who, users[u].email)
    BY <1>1 DEF EmailProven
  <2>2. PICK other \in {User(v)} \cup {Guest(g) : g \in Guests} :
            Issued(c, other, users[v].email)
    BY <1>1 DEF EmailProven
  <2>3. who = other /\ users[u].email = users[v].email
    BY <2>1, <2>2 DEF Issued
  <2>4. who # User(u)
    BY <2>2, <2>3 DEF User, Guest
  <2>5. users[u].role # users[v].role
    BY <1>1, <2>3 DEF AccountsUnique
  <2>6. QED
    BY <2>1, <2>3, <2>4, <2>5
<1>2. QED
  BY <1>1, AddressesProven, IndexHolds, PTL

=============================================================================
