------------------------------- MODULE Server -------------------------------
(***************************************************************************)
(* One server process after another: main of cmd/server from its first     *)
(* connection over the migrations and the serving to the orderly stop.     *)
(*                                                                         *)
(* Every step of the start but one has a context with a time limit, and    *)
(* whatever fails there ends the process.  golang-migrate marks the schema *)
(* dirty, applies one file, and marks it clean, in three commits; a schema *)
(* it finds dirty it refuses.  Requests are somebody else's: busy says     *)
(* whether there are any.                                                  *)
(***************************************************************************)
EXTENDS Naturals

CONSTANT Migrations   \* how many migration files there are

VARIABLES
    phase,      \* what main does next, "off" between two processes
    version,    \* schema_migrations: the last migration begun
    dirty,      \*   and whether its end has not been recorded
    hurried,    \* whether Shutdown's time was over first (history)
    busy        \* whether requests are being handled

serverVars == <<phase, version, dirty, hurried>>

Starting == {"ping", "extensions", "driver", "migrations", "applying",
             "redis", "nats", "order", "providers"}
Stopping == {"shutdown", "close-db", "close-redis", "exit"}
Phases == {"off", "listening", "serving"} \cup Starting \cup Stopping

Init ==
    /\ phase = "off"
    /\ version = 0
    /\ dirty = FALSE
    /\ hurried = FALSE

Trans(from, to) == phase = from /\ phase' = to

\* One step of main that leaves the schema alone.
GoOn(from, to) == Trans(from, to) /\ UNCHANGED <<version, dirty, hurried>>

----------------------------------------------------------------------------
(* The start *)

Start ==
    /\ ~busy
    /\ Trans("off", "ping")
    /\ hurried' = FALSE
    /\ UNCHANGED <<version, dirty>>

\* One of the pings is answered.
Ping == GoOn("ping", "extensions")

EnsureExtensions == GoOn("extensions", "driver")

\* WithInstance asks PostgreSQL without a context: there is no time limit.
OpenDriver == GoOn("driver", "migrations")
DriverFails == GoOn("driver", "off")

\* m.Up takes a file it has not applied; it refuses a dirty schema.
BeginMigration ==
    /\ Trans("migrations", "applying")
    /\ ~dirty /\ version < Migrations
    /\ version' = version + 1
    /\ dirty' = TRUE
    /\ UNCHANGED hurried

EndMigration ==
    /\ Trans("applying", "migrations")
    /\ dirty' = FALSE
    /\ UNCHANGED <<version, hurried>>

\* Mutant: goes on when the context ends, as if Up had.
RunMigrationsUnfinished ==
    /\ phase \in {"migrations", "applying"}
    /\ phase' = "redis"
    /\ UNCHANGED <<version, dirty, hurried>>

\* Up has nothing left to do (nil or ErrNoChange).
RunMigrations ==
    /\ GoOn("migrations", "redis")
    /\ ~dirty /\ version = Migrations

ConnectRedis == GoOn("redis", "nats")

ConnectNATS == GoOn("nats", "order")

\* The order client, if it is required.
ConnectOrder == GoOn("order", "providers")

\* All providers are known: the router, and the goroutine that listens.
Listen == GoOn("providers", "listening")

\* Mutant: Up is waited for without looking at the context.
GiveUpNotMigrating ==
    /\ phase \in Starting \ {"driver", "migrations", "applying"}
    /\ phase' = "off"
    /\ UNCHANGED <<version, dirty, hurried>>

\* An error, or the end of a context: Fatal.  Up is not waited for.
GiveUp ==
    /\ phase \in Starting \ {"driver"}
    /\ phase' = "off"
    /\ UNCHANGED <<version, dirty, hurried>>

----------------------------------------------------------------------------
(* Serving *)

\* signal.Notify: from here on SIGTERM is a message.
Notify == GoOn("listening", "serving")

\* Mutant: the listener is left open.
AcceptingToTheEnd == phase \in {"listening", "serving"} \cup Stopping

\* The listener is open.
Accepting == phase \in {"listening", "serving"}

----------------------------------------------------------------------------
(* The stop *)

Signal == GoOn("serving", "shutdown")

\* Shutdown has closed the listener and waits for the requests.
ShutdownDone ==
    /\ GoOn("shutdown", "close-db")
    /\ ~busy

\* Its context ends first.
ShutdownExpires ==
    /\ Trans("shutdown", "close-db")
    /\ busy
    /\ hurried' = TRUE
    /\ UNCHANGED <<version, dirty>>

CloseDB == GoOn("close-db", "close-redis")

CloseRedis == GoOn("close-redis", "exit")

Exit == GoOn("exit", "off")

\* Killed, SIGTERM before Notify, or no listener.
Kill ==
    /\ phase # "off"
    /\ phase' = "off"
    /\ UNCHANGED <<version, dirty, hurried>>

\* What requests still find open.
Running == phase \in {"listening", "serving"} \cup Stopping
RedisOpen == Running /\ phase # "exit"
DBOpen == RedisOpen /\ phase # "close-redis"

----------------------------------------------------------------------------

Progress ==
    \/ Ping \/ EnsureExtensions
    \/ BeginMigration \/ EndMigration \/ RunMigrations
    \/ ConnectRedis \/ ConnectNATS \/ ConnectOrder \/ Listen

\* What the process does by itself, when the time is over, or when PostgreSQL has
\* answered WithInstance.
OwnPace ==
    \/ OpenDriver \/ DriverFails \/ GiveUp \/ Notify
    \/ ShutdownDone \/ ShutdownExpires \/ CloseDB \/ CloseRedis \/ Exit

Next ==
    \/ Start \/ Progress \/ OwnPace
    \/ Signal \/ Kill

----------------------------------------------------------------------------
(* Properties *)

\* The variables keep their types.
TypeOK ==
    /\ phase \in Phases
    /\ version \in 0 .. Migrations
    /\ dirty \in BOOLEAN
    /\ hurried \in BOOLEAN

\* No request meets a schema that lacks a migration or has half of one, however
\* often processes were killed or ran out of time in the middle of one.
ServesWholeSchema == Accepting => version = Migrations /\ ~dirty

\* Once Shutdown has returned nobody is being served, unless its thirty seconds
\* were over first: a stop that is asked for takes the database from no request
\* that ends in time, and lets no new one in.
StopIsGraceful == phase \in Stopping \ {"shutdown"} /\ ~hurried => ~busy

\* A process that starts comes to serve or ends, and one that was told to stop
\* ends, whatever PostgreSQL (once WithInstance is answered), Redis, NATS or a
\* request that never ends do.
Settles ==
    /\ phase \in Starting \cup {"listening"} ~> phase \in {"serving", "off"}
    /\ phase \in Stopping ~> phase = "off"

=============================================================================
