------------------------------- MODULE Backend -------------------------------
(***************************************************************************)
(* Requests with an access token on a server that starts, is stopped and   *)
(* dies: Sessions decides who gets in, Profile is what they then do, and   *)
(* Server says which of their statements can still run.                    *)
(*                                                                         *)
(* The process that has ended takes its requests with it.  That they are   *)
(* then abandoned one by one is only the order in which they are           *)
(* forgotten: none can take a step, and the next process waits for it.     *)
(***************************************************************************)
EXTENDS Sessions

CONSTANTS
    Names, Values, None, Migrations,
    Updates     \* bound: what updates ask for

VARIABLES
    profile, asked, upd,                        \* Profile
    phase, version, dirty, hurried,             \* Server
    late        \* updates committed after their session's logout (history)

profileVars == <<profile, asked, upd>>
serverVars == <<phase, version, dirty, hurried>>
backendVars == <<vars, profileVars, serverVars, late>>

Busy == \E p \in Procs : req[p].pc # "idle" \/ upd[p].pc # "idle"

P == INSTANCE Profile WITH SessionIds <- SessionId
S == INSTANCE Server WITH busy <- Busy

ASSUME BackendAssumption ==
    /\ Updates \subseteq P!Update
    /\ Migrations \in Nat

BackendInit ==
    /\ Init
    /\ P!Init
    /\ S!Init
    /\ late = [s \in SessionId |-> 0]

----------------------------------------------------------------------------
(* Requests *)

\* Of Sessions; the rest stays as it is.
Only(A) == A /\ UNCHANGED <<profileVars, serverVars, late>>

\* A login reaches its transaction, or a token the middleware.
Arrive(p) ==
    /\ S!Accepting
    /\ upd[p].pc = "idle"
    /\ Only(\/ StoreHash(p)
            \/ \E s \in SessionId, logout \in BOOLEAN : Authorise(p, s, logout)
            \/ \E s \in SessionId : Refuse(p, s))

\* The commands of Redis, and what needs no connection: a transaction that has
\* begun outlives db.Close.
Continue(p) ==
    \/ S!RedisOpen /\ Only(TimeHash(p) \/ DeleteHash(p))
    \/ S!Running /\ Only(CommitRow(p) \/ Answer(p) \/ Deactivate(p))

\* The middleware's last command, after which the handler runs: that of Logout,
\* of an update, or one that changes nothing here.
Handle(p) ==
    /\ S!Running
    /\ (S!RedisOpen /\ Slide(p)) \/ SlideFails(p)
    /\ \/ req[p].logout /\ UNCHANGED profileVars
       \/ ~req[p].logout /\ (UNCHANGED profileVars \/ \E u \in Updates : P!Enter(p, u, Of(p)))
    /\ UNCHANGED <<serverVars, late>>

ReadProfile(p) ==
    /\ S!DBOpen
    /\ P!Read(p)
    /\ UNCHANGED <<vars, serverVars, late>>

\* A transaction that has begun, also one that waits for the row, outlives db.Close.
WriteProfile(p) ==
    /\ S!Running
    /\ P!Lock(p) \/ P!Merge(p)
    /\ UNCHANGED <<vars, serverVars, late>>

CommitProfile(p) ==
    /\ S!Running
    /\ P!Commit(p)
    /\ late' = IF upd[p].by \in ended THEN [late EXCEPT ![upd[p].by] = @ + 1] ELSE late
    /\ UNCHANGED <<vars, serverVars>>

\* An error, the client gone, or the process.
GiveUpRequest(p) ==
    \/ Only(Abandon(p))
    \/ P!Abandon(p) /\ UNCHANGED <<vars, serverVars, late>>

Lapse ==
    \E s \in SessionId : Only(HashLapses(s) \/ TokenExpires(s))

ServerStep == S!Next /\ UNCHANGED <<vars, profileVars, late>>

BackendNext ==
    \/ \E p \in Procs :
         \/ Arrive(p) \/ Continue(p) \/ Handle(p)
         \/ ReadProfile(p) \/ WriteProfile(p) \/ CommitProfile(p)
         \/ GiveUpRequest(p)
    \/ Lapse
    \/ ServerStep

BackendSpec == BackendInit /\ [][BackendNext]_backendVars

\* Contexts end and the process goes on by itself.  Of PostgreSQL it is assumed that
\* it answers WithInstance; of Redis, NATS and the requests nothing.
FairBackendSpec ==
    /\ BackendSpec
    /\ WF_backendVars(S!OwnPace /\ UNCHANGED <<vars, profileVars, late>>)

----------------------------------------------------------------------------
(* Properties *)

\* The variables of all three keep their types.
AllTypesOK ==
    /\ TypeOK /\ P!TypeOK /\ S!TypeOK
    /\ late \in [SessionId -> Nat]

ServesWholeSchema == S!ServesWholeSchema
StopIsGraceful == S!StopIsGraceful
Settles == S!Settles
UpdatesKept == P!UpdatesKept

\* The middleware asks for the session once.  A request that has passed it may
\* write after Logout has ended the session, each of them once: as many as were
\* under way, and not the one that logged out.
LateUpdatesBounded == \A s \in SessionId : late[s] <= Cardinality(Procs) - 1

=============================================================================
