---------------------------- MODULE PublicAuth ----------------------------
(***************************************************************************)
(* What a request to the public /auth routes passes before a service sees  *)
(* it: the guest token, the rate limits of its route, the validator of its *)
(* body; and the service's own reading of the number.                      *)
(*                                                                         *)
(* One action is one request.  Its gates are single commands on keys of    *)
(* their own and none reads what another writes, so that nothing is lost   *)
(* by taking them together.  A limit is a level of whole tokens, as        *)
(* RateLimiter implements it.  GUEST_TOKEN_SECRET is set.  Left out are the *)
(* two limits per address that only make fewer requests: the default limit *)
(* of every route and that of init-session.                                *)
(***************************************************************************)
EXTENDS PhoneNumbers, FiniteSets

CONSTANTS
    Routes,      \* the routes asked
    Devices,     \* X-Device-ID
    NoDevice,    \* the header is missing
    IPs,         \* c.ClientIP()
    Spellings,   \* what bodies name as phone
    RoleNames,   \* what bodies name as role
    Capacity,    \* of the limiter of a scope
    MaxTokens,   \* bound: guest tokens
    MaxRequests, \* bound: requests that pass the guest token
    MaxRefills,  \* bound: tokens refilled
    MaxFaults    \* bound: limits Redis did not answer for

\* What the routes' limiters are called.
Scopes == {"auth_check_phone_ip", "auth_check_phone_phone", "auth_register_ip",
           "auth_register", "auth_send_otp_ip", "auth_send_otp",
           "auth_send_email_otp_ip", "auth_send_email_otp", "auth_verify_email"}

ASSUME PublicAuthAssumption ==
    /\ Routes \subseteq {"check-phone", "register", "send-otp", "verify-otp",
                         "send-email-otp", "verify-email"}
    /\ Capacity \in [Scopes -> Nat \ {0}]
    /\ Spellings \subseteq Seq(Pieces)
    /\ {MaxTokens, MaxRequests, MaxRefills, MaxFaults} \subseteq Nat

VARIABLES
    tokens,      \* devices the guest tokens were issued for, by session
    spent,       \* tokens taken from every limiter's bucket
    requests,    \* requests so far
    refills,     \* tokens refilled so far
    faults,      \* limits passed without an answer so far
    served       \* what services were called with, call by call (history)

limitVars == <<spent, refills, faults>>
vars == <<tokens, requests, served, limitVars>>

Init ==
    /\ tokens = <<>>
    /\ spent = <<>>
    /\ requests = 0
    /\ refills = 0
    /\ faults = 0
    /\ served = <<>>

----------------------------------------------------------------------------
(* Guest tokens *)

InitSession(device) ==
    /\ Len(tokens) < MaxTokens
    /\ tokens' = Append(tokens, device)
    /\ UNCHANGED <<requests, served, limitVars>>

\* Mutant: the device is not compared.
AnyDevice(r) == r.session \in DOMAIN tokens

\* A request without the header is let pass.  One whose token is missing, forged
\* or has expired changes nothing: it is no action here.
GuestTokenMiddleware(r) ==
    /\ r.session \in DOMAIN tokens
    /\ r.device = NoDevice \/ r.device = tokens[r.session]

----------------------------------------------------------------------------
(* Rate limits *)

IPKeyFunc(r) == <<"ip", r.ip>>

PhoneKeyFunc(r) ==
    LET phone == NormalizeE164(r.phone)
    IN  IF ValidateIndianPhone(phone) THEN <<"phone", phone>> ELSE IPKeyFunc(r)

\* A role's name in capitals and small letters is the same to the limits, and
\* only to them.
Roles == {"client", "restaurant_owner", "restaurant_manager", "driver"}
Lower(role) == IF role = "Client" THEN "client" ELSE role

\* Mutant: keyed by the number as it was written.
RoleKeyAsWritten(r) ==
    IF ValidateIndianPhone(r.phone) THEN <<"phone", r.phone, Lower(r.role)>> ELSE IPKeyFunc(r)

PhoneRoleKeyFunc(r) ==
    LET phone == NormalizeE164(r.phone)
    IN  IF ~ValidateIndianPhone(phone) THEN IPKeyFunc(r)
        ELSE IF Lower(r.role) \in Roles THEN <<"phone", phone, Lower(r.role)>>
                                        ELSE <<"phone", phone>>

GuestSessionKeyFunc(r) == <<"sid", r.session>>

\* The limits of a route, in order: their scope and the bucket the request uses.
Limits(r) ==
    CASE r.route = "check-phone" ->
            <<<<"auth_check_phone_ip", IPKeyFunc(r)>>,
              <<"auth_check_phone_phone", PhoneKeyFunc(r)>>>>
      [] r.route = "register" ->
            <<<<"auth_register_ip", IPKeyFunc(r)>>,
              <<"auth_register", PhoneRoleKeyFunc(r)>>>>
      [] r.route = "send-otp" ->
            <<<<"auth_send_otp_ip", IPKeyFunc(r)>>,
              <<"auth_send_otp", PhoneRoleKeyFunc(r)>>>>
      [] r.route = "verify-otp" -> <<>>
      [] r.route = "send-email-otp" ->
            <<<<"auth_send_email_otp_ip", IPKeyFunc(r)>>,
              <<"auth_send_email_otp", GuestSessionKeyFunc(r)>>>>
      [] r.route = "verify-email" ->
            <<<<"auth_verify_email", GuestSessionKeyFunc(r)>>>>

Spent(bucket) == IF bucket \in DOMAIN spent THEN spent[bucket] ELSE 0

\* Mutant: one request more.
FullOffByOne(bucket) == Spent(bucket) > Capacity[bucket[1]]

Empty(bucket) == Spent(bucket) >= Capacity[bucket[1]]

\* Of the limits of a request, those that turn it away when Redis does not answer
\* for the ones at down, and the buckets it takes a token from: all before those.
Refusing(limits, down) == {i \in DOMAIN limits \ down : Empty(limits[i])}

Charge(limits, down) ==
    LET passed  == {i \in DOMAIN limits : \A j \in Refusing(limits, down) : i < j}
        charged == {limits[i] : i \in passed \ down}
    IN  spent' = [b \in DOMAIN spent \cup charged |->
                     Spent(b) + IF b \in charged THEN 1 ELSE 0]

\* A bucket refills by a token.
Refill(bucket) ==
    /\ refills < MaxRefills
    /\ spent[bucket] > 0
    /\ spent' = [spent EXCEPT ![bucket] = @ - 1]
    /\ refills' = refills + 1
    /\ UNCHANGED <<tokens, requests, served, faults>>

----------------------------------------------------------------------------
(* Bodies *)

\* What each route's validator asks of the request; "rest" is every field that
\* is only looked at for its form: the name, the e-mail address, the code.
Fields(route) ==
    CASE route = "check-phone" -> {"phone", "role"}
      [] route = "register" -> {"phone", "role", "device", "rest"}
      [] route = "send-otp" -> {"phone", "role", "device"}
      [] route = "verify-otp" -> {"phone", "role", "device", "rest"}
      [] route \in {"send-email-otp", "verify-email"} -> {"rest"}

\* A manager cannot sign up.
RolesOf(route) == IF route = "register" THEN Roles \ {"restaurant_manager"} ELSE Roles

\* Mutant: the validator reads roles as the limits do.
ValidateBodyAnyCase(r) ==
    /\ "phone" \in Fields(r.route) => ValidateIndianPhone(r.phone)
    /\ "role" \in Fields(r.route) => Lower(r.role) \in RolesOf(r.route)
    /\ "device" \in Fields(r.route) => r.device # NoDevice
    /\ "rest" \in Fields(r.route) => r.rest

ValidateBody(r) ==
    /\ "phone" \in Fields(r.route) => ValidateIndianPhone(r.phone)
    /\ "role" \in Fields(r.route) => r.role \in RolesOf(r.route)
    /\ "device" \in Fields(r.route) => r.device # NoDevice
    /\ "rest" \in Fields(r.route) => r.rest

\* What the service is called with: the validator normalizes the number, the
\* service normalizes it again.  The session is the one of the token, named also
\* for the codes by phone, whose services do not get it (history).
ServiceInput(r) ==
    [route   |-> r.route,
     session |-> IF "rest" \in Fields(r.route) \/ "device" \in Fields(r.route)
                   THEN r.session ELSE 0,
     device  |-> IF "device" \in Fields(r.route) THEN r.device ELSE NoDevice,
     phone   |-> IF "phone" \in Fields(r.route)
                   THEN RequireValidPhone(NormalizeE164(r.phone)) ELSE <<>>,
     role    |-> IF "role" \in Fields(r.route) THEN r.role ELSE ""]

----------------------------------------------------------------------------
(* Requests *)

\* A request that gets through to its service.
Serve(r, limits, down) ==
    /\ Refusing(limits, down) = {}
    /\ ValidateBody(r)
    /\ served' = Append(served, ServiceInput(r))

\* One that a limit or the validator turns away; the limits before have charged it.
TurnAway(r, limits, down) ==
    /\ Refusing(limits, down) # {} \/ ~ValidateBody(r)
    /\ UNCHANGED served

Request(r) ==
    /\ requests < MaxRequests
    /\ requests' = requests + 1
    /\ GuestTokenMiddleware(r)
    /\ LET limits == Limits(r) IN
       \E down \in SUBSET DOMAIN limits :
          /\ faults' = faults + Cardinality(down) /\ faults' <= MaxFaults
          /\ Serve(r, limits, down) \/ TurnAway(r, limits, down)
          /\ Charge(limits, down)
    /\ UNCHANGED <<tokens, refills>>

\* What may be asked with a token; what a route does not look at is fixed.
Asked ==
    [session \in 1 .. MaxTokens |->
        {r \in [route: Routes, session: {session}, device: Devices \cup {NoDevice},
                ip: IPs, phone: Spellings, role: RoleNames, rest: BOOLEAN] :
            /\ "phone" \notin Fields(r.route) => r.phone = CHOOSE p \in Spellings : TRUE
            /\ "role" \notin Fields(r.route) => r.role = CHOOSE n \in RoleNames : TRUE
            /\ "rest" \notin Fields(r.route) => r.rest}]

Next ==
    \/ \E device \in Devices : InitSession(device)
    \/ \E session \in DOMAIN tokens : \E r \in Asked[session] : Request(r)
    \/ \E bucket \in DOMAIN spent : Refill(bucket)

Spec == Init /\ [][Next]_vars

----------------------------------------------------------------------------
(* Properties *)

\* The variables keep their types, no bucket is overdrawn and no request makes
\* two calls.
TypeOK ==
    /\ tokens \in Seq(Devices) /\ Len(tokens) <= MaxTokens
    /\ \A bucket \in DOMAIN spent : spent[bucket] \in 0 .. Capacity[bucket[1]]
    /\ requests \in 0 .. MaxRequests
    /\ refills \in 0 .. MaxRefills /\ faults \in 0 .. MaxFaults
    /\ served \in Seq([route: Routes, session: 0 .. MaxTokens,
                       device: Devices \cup {NoDevice},
                       phone: Seq(Pieces), role: RoleNames \cup {""}])
    /\ Len(served) <= requests

Calls(route, phone, roles) ==
    Cardinality({i \in DOMAIN served : /\ served[i].route = route
                                      /\ served[i].phone = phone
                                      /\ served[i].role \in roles})

\* However a number is written, and from however many addresses and guest
\* sessions it is asked for, the limits per number (per number and role, of
\* send-otp and register) let no more requests through to a service than their
\* one bucket holds, refills, or cannot be asked for.
SpellingsShareBucket ==
    \A i \in DOMAIN served :
        LET call == served[i]
            most == refills + faults
        IN
        /\ call.route = "check-phone" =>
             Calls("check-phone", call.phone, Roles)
                <= Capacity["auth_check_phone_phone"] + most
        /\ call.route = "send-otp" =>
             Calls("send-otp", call.phone, {call.role}) <= Capacity["auth_send_otp"] + most
        /\ call.route = "register" =>
             Calls("register", call.phone, {call.role}) <= Capacity["auth_register"] + most

\* Accounts are created, and codes to a phone sent and answered, only for the device
\* the guest session was opened on, although the middleware lets a request without
\* the header pass.  Codes to an e-mail address are sent and answered without it.
DeviceBound ==
    \A i \in DOMAIN served :
        LET call == served[i]
        IN  "device" \in Fields(call.route) => call.device = tokens[call.session]

\* What each reader takes a number for is the same number.  No service is called
\* with anything but a bare number of ten digits and a role the database knows: what
\* the validator accepted and what the service makes of it, normalizing it once more,
\* do not drift apart.  And whoever holds a guest token and writes a number bare, or with
\* +91, 91 or 0 right before its ten digits, is not turned away for it, whatever digits
\* it begins with, and is served as that number; spaces around are cut off, a space
\* within is refused.
NumbersReadAlike ==
    /\ \A i \in DOMAIN served :
         LET call == served[i] IN
         /\ "phone" \in Fields(call.route) => IsMobile(call.phone)
         /\ "role" \in Fields(call.route) => call.role \in RolesOf(call.route)
    /\ \A session \in DOMAIN tokens, number \in {<<"98", "d8">>, <<"91", "d8">>},
          prefix \in {<<>>, <<"+91">>, <<"91">>, <<"0">>, <<" ", "+91">>} :
         LET r == [route |-> "check-phone", session |-> session,
                   device |-> tokens[session], ip |-> CHOOSE ip \in IPs : TRUE,
                   phone |-> prefix \o number, role |-> "client", rest |-> TRUE]
         IN  GuestTokenMiddleware(r) /\ ValidateBody(r) /\ ServiceInput(r).phone = number

=============================================================================
