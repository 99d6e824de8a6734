# Verification of the food delivery backend

TLA+ models of the parts of this repository that keep state and are used by
several requests at once, the TLC runs that check them on small instances, and
proofs, checked by TLAPS, of the results that hold for every instance. Paths
below are relative to the repository's root `src/`.

## The system

The server is one Gin process (`cmd/server/main.go`), started as often as
needed, over PostgreSQL and Redis. Only the services `users` and `common` have
logic; `cart`, `delivery`, `notification`, `payment` and `restaurant` are empty
packages, NATS is connected but nothing publishes or subscribes, and the gRPC
order client is called by nobody. Nothing is shared between requests but the two
stores and the process they run in, so every behaviour that is hard to test is an
interleaving of SQL statements and Redis commands, a failure between two of them, a
clock, or the process beginning or ending around them.

| Part | State | Operations | Works with |
| --- | --- | --- | --- |
| Phone login codes (`users/business/auth.go`) | `otp_requests` (attempts, resend count, block, verified), `users.phone_verified`, `sessions`, Redis counter of sends per phone and role | `SendOTP`, `VerifyOTP` | sessions; `Register` inserts an account's first code |
| E-mail verification and sign-up (`business/auth.go`, `business/profile.go`) | Redis per (scope, address): code, wrong answers, sends, verification marker; `users` and its unique indexes | `SendEmailOTP`, `VerifyEmail`, `Register`, `SendEmailUpdateOTP`, `VerifyEmailUpdate` | guest sessions, the phone's send counter |
| Sessions (`business/auth.go`, `middleware/auth.go`) | `sessions` row and Redis hash | end of `VerifyOTP`, `JWTAuthMiddleware`, `Logout` | every route behind the middleware |
| Address book (`business/profile.go`) | `addresses` of a user | `CreateAddress`, `UpdateAddress`, `DeleteAddress`, `GetAddresses` | - |
| Onboarding (`business/onboarding.go`, `middleware/onboarding.go`) | `onboardings`, `onboarding_documents`, `users.onboarding_complete` | `InitOnboarding`, `SubmitOnboarding`, `ResubmitOnboarding`, `MarkDocumentUploaded`, the gate `RequireOnboardingAccess` | object storage calls back |
| Rate limiter (`middleware/rate_limit.go`) | Redis hash per key | `LeakyBucketRateLimit` | in front of most routes |
| Profile (`business/profile.go`) | `users.name`, client and driver profiles | `GetProfile`, `UpdateProfile` | sessions let requests in |
| Process (`cmd/server/main.go`, `infra/postgres/`) | what `main` does next; `schema_migrations` | start, migrations, serving, stop | every request runs in it |
| Phone lookup (`business/auth.go`) | Redis counter of misses per IP | `CheckPhone` | - |
| Phone numbers, validation (`pkg/utils/phone.go`, `validations/`) | none | `NormalizeE164`, `RequireValidPhone`, body validators | every handler |
| Guest sessions (`common/api/handler/session.go`, `middleware/guest_auth.go`) | none (signed tokens) | `InitSession`, `GuestTokenMiddleware` | every public route |
| Roles, API key | none | middleware | protected routes; init-session |
| Idempotency middleware | Redis | installed on no route | - |
| Storage, SMS, e-mail, NATS, gRPC | none of their own | external calls | - |

What makes each correct, and what is hard about it:

* **Phone codes.** A code has five answers however many arrive together; a login
  is all or nothing; no code serves another account or device; limits may be
  overshot only by what is in flight. Hard because every request decides on a
  snapshot it read outside any transaction, errors of two updates are dropped,
  and only a `CHECK` and a row lock stand in between.
* **E-mail.** No address is stored or marked without a code sent to it for that
  caller; accounts of a role share neither phone nor address. Hard because a
  send and an answer each are several Redis commands, and the checks before a
  transaction are not part of it.
* **Sessions.** No session is usable without its row, none comes back after
  Logout, none is used that has no end. Hard because the two stores commit separately.
* **Profile.** Overlapping partial updates of one user keep each other's fields, and a
  name is lost only to a request that had read the one before. Hard because the name is
  read before the transaction and always written.
* **Process.** Only a whole schema is served, however often a start was cut off in
  the middle of a migration; a stop lets requests end before it closes the stores;
  start and stop come to an end. Hard because `Up` is not waited for, because
  requests and `main` run side by side, and because any of it may hang or die.
* **Addresses.** At most ten, one default, no lost updates: none of which holds
  of overlapping requests; the models say what does.
* **Onboarding.** Flag, status and documents agree, and the flag ends the flow.
* **Rate limiter.** Lazy refill and expiring keys must amount to a bucket that
  refills with time, and the wait it announces must be enough, also when the
  servers' clocks differ.
* **Public gates.** Limits are keyed by what a request says of itself, read before
  it is validated; however it says it, one number is one bucket, and what reaches
  a service is a number and a role the database knows, on the device its guest
  token is for. Hard because four readers (limits, validator, handler, service)
  each read the same request in their own way.

## Modules

| Module | What it is |
| --- | --- |
| `AttemptBudget` | abstract: what a one-time code promises |
| `PhoneOTP` | `SendOTP`, `VerifyOTP`; implements `AttemptBudget` |
| `PhoneOTP_proofs` | its theorems |
| `EmailOTP` | e-mail codes, sign-up, change of address |
| `EmailOTP_proofs` | its theorems |
| `Sessions` | the two copies of a session |
| `Sessions_proofs` | its theorems |
| `Profile` | `UpdateProfile` of one user |
| `Server` | one process after another: `main`, migrations, stop |
| `Backend` | `Sessions`, `Profile` and `Server` together; a behaviour of it is one of `Sessions` |
| `Backend_proofs` | its theorems |
| `AddressBook` | addresses of one user |
| `AddressBook_proofs` | its theorems |
| `Onboarding` | the gate and the forms of one user |
| `Onboarding_proofs` | its theorems |
| `TokenBucket` | abstract: what a rate limit promises |
| `RateLimiter` | the Lua script; implements `TokenBucket` |
| `RateLimiter_proofs` | its theorems |
| `PhoneNumbers` | `pkg/utils/phone.go` as functions of sequences of pieces |
| `PublicAuth` | guest tokens, limits and validators in front of the public routes |
| `PublicAuth_proofs` | its theorems |
| `MC*` | model values and symmetry for TLC |

**An action is one statement** to PostgreSQL or one Redis command, with the
computation around it; `req[p].pc` names the statement request `p` runs next and
the rest of `req[p]` is what it has read so far. Statements of different
requests interleave freely. A PostgreSQL transaction that takes a row lock is
two actions or more: the one that takes the lock (and may wait for it), the
statements in between whose reading matters, and the one that commits, with all the
writes, since no one sees them before. Reads that
only refuse a request, and are decided again later, are merged. `Abandon` ends a
request before any of its statements: error, client gone, crash; an open
transaction is rolled back, what was written to Redis stays. `MayFail = FALSE`
turns failures off, for properties that fail with them; in `EmailOTP`, `CutAt` says
which statements may fail.

A definition named like a source function with a suffix and the comment
`Mutant:` is a faulty variant of the definition it precedes. It is used by no
specification; it shows which fault a property catches (`PROJECT.json`).

### PhoneOTP

`otps` is `otp_requests` in order of `created_at`. `SendOTP` is `SendCheck` or
`SendRefused`, then `FindNone` or `FindActive` and `CountResend`, then `CreateRow`,
`ChargeRate` and, for whoever created the counter, `ExpireRate`. `VerifyOTP` is
`VerifyRead` (or `VerifyRefused`), which decides on the row it read, then
`CountAttempt` and `BlockRow`, or `MarkVerified`, `CommitLogin` and `Greet`.
`AttemptsLeft` and `ResendCheck` are the column `CHECK`s of migration 000003: an
update that would pass them fails, and `CountAttempt` drops that error as lines
334 and 350 do. `Locked` is the lock a login transaction holds on its row. The
code's hash in Redis is written and deleted but read by nothing, so it is left
out. `Tick` moves one clock for the server and the database and drops counters.
Accounts exist from the start; the row `Register` inserts for a new one is like
`CreateRow`'s.

### EmailOTP

Redis keys are functions of (scope, address); `guestScope` and `userScope` are
the prefixes, and in the runs a guest and a user have the same id, so that only
the prefix keeps them apart. `SetEmailOTPHashAndRate` is its four commands. A code
is the number of its issue; `issuedFor` remembers for whom. `wrong` counts the
wrong answers each code met, which the code itself forgets. Only the first wrong answer
gives the counter its time to live (`redis/auth.go:136-137`), so that a counter begun
under a code outlives it, while one that was there when the code was put in place
(`older`) may end under it: `Lapse`. An index entry of a
transaction that has not ended (`Pending`) makes another insertion of it wait
(`EmailHeld`, `PhoneHeld`), then fail.

### Server, Profile, Backend

In `Server`, `phase` is the next thing `main` does. Whatever fails in the start ends
the process (`GiveUp`, which is also the end of a context), and so does `Kill` at any
moment. golang-migrate is modelled as `RunMigrations` uses it: a file is begun, with
the schema marked dirty, and ended, with the mark removed; a dirty schema is refused
for ever, until somebody repairs it by hand, which is not modelled. Migrations are
applied by one process at a time; two that start together wait for each other in
`WithInstance` and `Up` (PostgreSQL's advisory lock), which the model leaves to the
library. `busy` is a parameter: whether requests are being handled.

`Profile` is one user. `Read` is `GetUserProfileByID` outside the transaction. The
transaction is `Lock`, which updates the user's row and waits for whoever has updated it
(`HasLock`), `Merge`, the upsert of the role, which reads what is committed then, and
`Commit`. `Coalesce` is what both upserts do with a field that is not given. `asked`
remembers what the updates that were committed gave last. A driver without a row gets
none: the `UPDATE` reports success. An empty city is let through by the validator and
means "not given".

`Backend` EXTENDS `Sessions` and instantiates the other two, with `SessionIds` <-
`SessionId` and `busy` <- `Busy`. A request arrives while the listener is open
(`Accepting`), the middleware's last step starts the handler (`Handle`), and what a
request can still do depends on what `main` has closed: Redis commands need
`RedisOpen`, a new statement needs `DBOpen`, and a transaction that has begun may
commit even after `db.Close`. A process that ends takes its requests along: they can
only be abandoned, and the next process starts without any. `late` counts the updates
written for a session after its Logout.

### Sessions, AddressBook, Onboarding, RateLimiter

`Sessions` models `SetSession`'s two commands inside the login transaction, its
commit, the answer that hands out the token, the middleware's `HGETALL` and
`EXPIRE`, and Logout's transaction and `DEL`. `PhoneOTP` decides who gets that far.

`AddressBook` follows READ COMMITTED: `UnsetDefaults` is the snapshot an `UPDATE`
chooses its rows in, `LockDefault` the moment it gets one of them and asks its
condition again of that row only. Rows are locked in the order they lie in, which
every update changes, so any order is possible, and requests can wait in a
circle: `DeadlockVictim` is PostgreSQL failing one of them. Columns other than the
default are one text. `Edits` bounds what updates ask for.

`Onboarding` has one action per statement outside transactions and one per
transaction. `Review` stands for approval and rejection, which have no endpoint
yet; it resets the flag as the note at `business/onboarding.go:88-90` demands.

`RateLimiter` is one key. The script is atomic, but takes the time from the server
that calls it: `now` is the slowest server's clock and `Spread` says how far another
may be ahead. Fractions are avoided by counting in units: a token is `Cost` units
and a unit of time gives `Rate` of them. `TTLAssumption`, that a bucket fills up before it
is forgotten, holds of every limit in `api/routes/`: that was read off their constants,
and no run checks it.

### PhoneNumbers, PublicAuth

A string is a sequence of pieces: spaces, the prefixes the code knows, stretches
of digits that begin with none of them. `NormalizeE164` and `ValidateIndianPhone` are
then those of `pkg/utils/phone.go`, with lengths in characters.

In `PublicAuth` one action is one request to a route: `GuestTokenMiddleware`, the
route's `Limits` in order, `ValidateBody`, and the call of the service with
`ServiceInput`. That is one step although it is several commands, because each of
them touches one bucket and a request that is turned away stops there: any
interleaving has the outcome of one of the orders. A limit is a level of whole
tokens; how it refills is `RateLimiter`'s matter, and here `Refill` may happen any
time. `served` lists what the services were called with, call by call.

## Runs

Every run finishes within two minutes or so with two workers.

| Run | Shows | Bounds and why they are enough |
| --- | --- | --- |
| `PhoneOTP_safety` | `TypeOK`, `LoginIsAtomic`, `OneFirstTimeCode`, `BlockOutlivesCode`, `LoginMatchesRequest`, `ImplementsBudget` | two accounts, two devices, two codes of two answers, two requests, failures: two requests can race for the last answer or both log in, on one code or on two of the same or of different accounts; after one unit of time codes expire and blocks end. The theorems below lift all six to any number |
| `PhoneOTP_live` | `RateOvershootBounded`, `RateWindowCloses`, `RequestsEnd` | no failures, fairness; three codes, one more than two requests can send under a limit of 1; counters end and start again |
| `EmailOTP_accounts` | `TypeOK`, `EmailProven`, `AccountsUnique` | guest 1 and users 1 and 2, two phones, two addresses, three codes: two sign-ups, or a sign-up and a change, race for an address. Transactions may be rolled back at their commit and the deletion of a marker may be lost (`CutAt`). `MaxRate` = `MaxCodes`, so that send counters decide nothing and `VIEW` may leave them out of the state |
| `EmailOTP_tries` | `TriesBounded`, `EmailRateWindowCloses` | the code's limit of five answers, two requests, two codes; at most 14 wrong answers, one more than the bound of 13, which is reached: three answers under an older counter that then ends, five that a late `DEL` wipes, the fifth of them held before it burns the code, and five more |
| `AddressBook_book` | `TypeOK`, `DefaultsBounded`, `AddressesBounded`, `DeletedStaysDeleted`, `RequestsEnd` | two requests, failures, fairness; limit 3, which two requests overshoot by one; five rows, so that one more would be seen; one is deleted. Two requests do form circles. `Edits` leaves out keeping the default, which writes what asking for it writes, and other texts, which `AddressBook_merge` has |
| `Onboarding_forms` | `TypeOK`, `SubmittedHasDocuments`, `CompleteMeansSubmitted`, `LateWorkBounded` | three requests, three forms, so that each may still write one, two documents, reviews, failures |
| `Sessions_faulty` | `AllTypesOK`, `UsableMeansCommitted`, `LoggedOutForGood`, `UntimedNeverUsed`, `ServesWholeSchema`, `StopIsGraceful`, `UpdatesKept`, `LateUpdatesBounded`, `Settles` | `Backend` with one session, two requests, failures, two migrations, two names, one update that gives a name and a field of either role and one that gives the other field of either role: a login, an update and a Logout overlap with each other and with starts, stops and kills, any number of them. Two requests are needed for a Logout to meet another request, two migrations for a schema to be whole in part; sessions do not look at each other, and the theorems hold for any number of all of these |
| `RateLimiter_clocks` | `TypeOK`, `RetryAfterHonoured`, `AdmittedBounded`, `ImplementsTokenBucket` | clocks one unit apart; capacity 3, cost 5, rate 2 do not divide each other; time for the key to end and begin again twice. `AdmittedBounded` is reached |
| `PublicAuth_gates` | `TypeOK`, `SpellingsShareBucket`, `DeviceBound`, `NumbersReadAlike` | all six routes, two guest tokens, two addresses, five spellings of two numbers and of none; two requests and limits of one, so that the second meets every limit the first used up; one token refilled and one limit unanswered |

Some of these deserve a word, for what they do not say. `RateOvershootBounded`,
`AddressesBounded`, `DefaultsBounded`, `TriesBounded`, `AdmittedBounded` and
`LateUpdatesBounded` are not the limits the constants name but the ones that survive
concurrency and clocks, and the runs reach all six. `UpdatesKept` allows two losses that
the code has: a driver without a row is answered with success and loses the fields, and a
name is lost to a request that read the one before and left the name out. `DefaultsBounded` speaks of one
and of two requests: of three, one can take the default from each row and another
give it back while the third passes, and what they leave has no bound but the number
of addresses.

Three more runs are expected to find a violation of what a comment says:

* `EmailOTP_burn`: "5 wrong tries burns the code" as the e-mail path is said to
  do it (`business/auth.go:335-342`). `SetEmailOTPHashAndRate` puts the new code
  in place before it clears the counter, so wrong answers given in between are
  forgotten.
* `EmailOTP_single`: "One verification, one account." (`business/auth.go:208`).
  The marker is read at the start and deleted at the end of `Register`; two
  sign-ups for different roles can both read it.
* `AddressBook_merge`: "Merge: apply non-nil updates over current values"
  (`business/profile.go:384`). The current values are those of a reading outside
  the transaction; every column is written.

## Fairness

`FairSpec` of `PhoneOTP` and `AddressBook` gives every request strong fairness on
its next statement and nothing else: the database answers statements, and
queues those that wait for a row, so a waiter gets its turn even when the lock is
taken again and again. New requests, failures and time are not assumed to occur.
In `AddressBook` the next statement of a request in a circle of waiting ones may be
its failure, `DeadlockVictim`: PostgreSQL looks for circles after
`deadlock_timeout` and breaks each one it finds.

`FairBackendSpec` gives `main` weak fairness on what it does by itself (`OwnPace`): the
contexts of the start end (`internal/constants/common.go:86-92`), `Shutdown`'s does
(`cmd/server/main.go:146`), closing a pool does not wait. Neither an answer of Redis or
NATS nor the end of a request is assumed. One call of the start gets no context,
`WithInstance` (`infra/postgres/migrations.go:14`): that PostgreSQL answers it, with
success or an error, is assumed.

## Proofs

`PhoneOTP_proofs`, from `ParamAssumption`, `WindowAssumption` and `SetAssumption`
only (any accounts, devices, requests, limits):

* `CoreInvariant`: `Core` is inductive. `TypeOK` is not by itself: that `attempts`
  stays within its `CHECK` when a login commits needs that the answer still fitted
  when the row was locked and that nobody else wrote the row since, which is
  `LockHeld`; that needs the row to exist (`RowsIssued`, `RequestsOK`), and
  `LoginIsAtomic` needs all of them. `TypeCorrect` and `LoginAtomicity` follow.
* `BudgetRefinement`: initial states and steps of `PhoneOTP` map to those of
  `AttemptBudget`, where wrong answers are `attempts` less the logins. The proof
  looks only at the two actions that write `attempts` (`WritersOnly`).
* `LoginMatches`, `OneFirstTime`, `BlockOutlives`, `RateOvershoot`, `RateCloses`: each
  adds its own conjunct of `IInv` to `Core`: a verified row stays verified
  (`FirstTimeVerified`), the clock reading a block is set from is no older than the
  row (`ReadAfterIssue`, which uses that a block outlasts a code,
  `WindowAssumption`), and charged and uncharged sends together stay within the
  limit (`RateBudget`).

`RateLimiter_proofs`, for every capacity, cost, rate, time to live and `Spread` with
`BucketAssumption` and `TTLAssumption`:

* `TypeCorrect` and `LimiterRefinement`. The invariant is `KeyAlive`: a key that is
  there was last written less than `TTL` ago, by a clock at most `Spread` ahead. From
  it, a unit of time adds `Rate` to the level the server furthest ahead computes
  lazily, capped once or at every step (`CapOnce`), a key that expires would have
  been full (`TTLAssumption`), and an admission at a server behind gives back no
  more than the difference refills, the `Slack` of `TokenBucket`. With `Spread` = 0
  that is none, and the refinement exact.
* `WaitIsEnough`, from `PromiseKept`: what was missing when a request was refused is
  refilled by the time announced, in terms of the tokens stored rather than of what
  a server computes from them.
* `SkewBounded`. `Account` adds two readings of one bucket: the level of the server
  furthest ahead, and `Settled`, the level counted from the moment of the last
  writing. Every admission takes its cost from both, and gains on at most one of
  them what it does not gain on the other; hence half of the difference per request.

`Sessions_proofs`, from `SessionAssumption`:

* `SessionInvariant`: `IInv` is inductive. None of the three safety properties is by
  itself: that a token's row exists needs that only a committed login answers
  (`LoginOK`), that nobody else writes a session being opened (`LoginAlone`), and that
  ids not drawn yet are unknown everywhere (`Fresh`); that a deleted hash stays deleted
  needs the same, because a login is the one thing that would write it.
* `TypeCorrect`, `UsableCommitted`, `LoggedOut`, `NeverUntimed` follow.

`Backend_proofs`, from `SessionAssumption` and `BackendAssumption`:

* `ImplementsSessions`: a step of `Backend` is one of `Sessions` or leaves it alone, so
  that what `Sessions` promises holds under a server too (`SessionsHold`).
* `WholeSchemaServed`, from `SchemaInv`: past the migrations the version is the last
  and the schema clean, in every phase up to the end of the process.
* `GracefulStop`, inductive by itself once it is known that nobody who is gone comes
  back through a closed listener (`NobodyReturns`).
* `UpdatesStayKept`, from `ProfileInv`: one transaction at a time has the user's row
  (`LockStep`), so that what its upsert merged into is still what is committed when it
  commits (`CommitStep`), and that is what was asked for (`MergeKeeps`). A request that
  gave no name carries the one that is to stay, unless a naming update was committed
  past it.
* `LateBounded`, from `LateInv`: of a session that has ended, the updates written late
  and the requests that may still write one (`Under`) are together fewer than all
  requests, because the one that logged out is none of them. Nobody joins them
  (`UnderShrinks`, which needs `LoggedOutForGood`), and one that writes leaves them
  (`UnderLoses`).
* `AllTypesCorrect`.

`EmailOTP_proofs`, from `EmailAssumption`:

* `CoreInvariant`: `Core` says what a request carries from its first step on
  (`RequestsSound`) and that the codes, markers and rows stored go back to a code issued
  to the same caller for the same address (`StoresProven`). Neither is inductive alone,
  since each writes the other. That a code found under a key is of that key's caller
  is `KeysApart`, which is where the prefixes count; and nothing issued is taken back
  (`Grows`). `TypeCorrect` and `AddressesProven` follow.
* `IndexHolds`: accounts and index entries of transactions under way exclude each other
  (`EntriesFree`, `EntriesApart`), so that a transaction that ends writes what nobody
  has.
* `WindowCloses`: the request that created a counter goes on to `EXPIRE` it.
* `TriesStayBounded`, from `Tries`: each send that has cleared the counter, and the
  counter since, stand for `AuthMaxOTPAttempts` - 1 answers, sends that have still to
  clear it for as many less, and every answer beyond them left a request that is about
  to burn the code (`TriesLeft`). A counter of the code before ends under it once at
  most, having counted at least one answer before it (`OlderCounts`) and not the last,
  and takes `AuthMaxOTPAttempts` - 2 along. When a code is read there is therefore room
  for all who have read it (`CurrentFits`), and once it is gone nobody joins them.
* `AccountsPerVerification`, from `AddressesProven` and `IndexHolds`: what is left of "One
  verification, one account" when requests overlap is one account of each role, all of
  the same guest and address.
* `CodesBurnAlone` and `OneAccountAlone`: what the runs `EmailOTP_burn` and
  `EmailOTP_single` refute holds when requests come one at a time and two statements do
  not fail, the clearing of the counter and the deletion of the code for the first, the
  deletions of the code and of the marker for the second. So overlap and those
  failures are all that breaks the two comments. The first rests on `CounterHolds` (the
  counter at a key covers the wrong answers of its code and is below the limit unless
  the code is about to be burned), the second on `Unspent` (what is under a key, in a
  marker or in a request that may still open an account has opened none).

`AddressBook_proofs`, from `AddressAssumption`:

* `CoreInvariant`: rows held by a request exist and are not deleted, and of a row not
  inserted yet nothing is known (`RequestsFit`, `NotThereYet`). `TypeCorrect` and
  `DeletionFinal` follow; the latter needs that whoever commits a change of an
  address holds its row.
* `AddressesStayBounded`: addresses and creations past their check, together, stay
  within the bound (`RoomBudget`).
* `FewDefaultsLeft`, for any number of addresses: a request that clears the defaults
  misses at most one of the other request, and none while the other may still make a
  row default again (`MissedFew`); of two that clear, one misses none
  (`LastMissesNone`).
* `FieldsKeptAlone`: what the run `AddressBook_merge` refutes holds when requests come one
  at a time, whatever fails, from `ReadStands`: what a request will write in a field it
  was not given is what the row still has.
* `NobodyStuck` and `StepsBringNearer`, the part of `RequestsEnd` that is not about
  fairness. If everybody in progress waited, a smallest set of requests that nobody in it
  waits outside of would be a circle (`SomeoneInCycle`; that there is a smallest one is
  the library's well-foundedness of inclusion on finite sets), and PostgreSQL breaks a
  circle. Every step leaves a request fewer statements to make (`Left`) and the others
  as many as they had.

`Onboarding_proofs`, from `OnboardingAssumption`:

* `FormsInvariant`: forms, documents, the flag and the requests past the gate fit
  together. `TypeCorrect`, `DocumentsThere` and `FlagMeansSubmitted` follow.
* `LateBounded`, from `LateBudget`: late work and the requests that may still do some are
  together fewer than all requests, because the one that set the flag is none of them.

`PublicAuth_proofs`, from `PublicAuthAssumption`:

* `TypeCorrect`, because only a bucket that is not empty is charged.
* `BoundToDevice`, from `CallsBound`, of the routes that use the device (codes to an
  e-mail address do not): the middleware lets a request without the device
  header through, but the validators of every route that uses the device ask for it.
* `ReadOnce`: if a validator accepts a string, `NormalizeE164` makes a bare mobile number
  of it (`MobileShape`), and such a number is what `NormalizeE164` makes of itself
  (`MobileFixed`), although it may begin with "91". So limits, validator and service,
  which normalize one, two and three times, go on with the same number.
* `OneBucketPerNumber`, from `CallsPaid`: the calls for a number, and for one role of it
  where the limit has the role in its key, are at most the tokens ever taken from its
  bucket and the limits passed unanswered (`RequestPaid`). Tokens taken are at most
  what the bucket holds and what it was refilled with (`BucketBounds`).
* `UsualFormsServed`: any number of spaces, one of the prefixes, a mobile number, spaces: what
  `NormalizeE164` makes of it is the number (`UsualForms`, `PrefixesRead`).
* `ReadAlike`, from the last two and an invariant of the calls so far (`ReadStep`).

The lengths of strings are a recursive function, so these need induction. The library's
induction theorems take an operator as a parameter, which the prover cannot instantiate,
but not its theorem that `<` on the naturals is well-founded: the least number of a
set (`LeastNumber`) and induction over a set of naturals (`Counting`) follow. With them
the recursion of `Length` has exactly one solution (`Measured`, `UpToUnique`), and the
length of a concatenation is the sum of the lengths (`LengthAdds`).

What is only model-checked: liveness (`RequestsEnd`, `Settles`), which is out of the
prover's reach. Every safety property the passing runs check is a theorem.

## Not modelled, and why

`CheckPhone` and its probe (one atomic counter whose flag is read by nothing), the form
of names, e-mail addresses and codes and the bodies of address and onboarding routes
(pure string functions), the expiry of guest tokens (a request with an expired one
changes nothing), the default limit per address, roles and API keys (no state),
reading the configuration, the idempotency middleware (installed nowhere), publishing,
subscribing and the calls of the order client (called by nothing), storage, SMS and
e-mail calls (after the state is written; a failure changes only the answer). Account
status has no writer; its one effect on codes, that `SendOTP` refuses a
suspended account, happens before anything is written.

## Plan

Done: every component of the table in "Modules", its runs, and proofs of every safety
property the runs check. What is left, in order of what it would add:

1. `PhoneOTP` and `Sessions` over one login transaction: each models its own half of it.
2. The bodies of the protected routes, and `CheckPhone` with its probe, once something
   reads the flag.
