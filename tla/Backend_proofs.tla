---------------------------- MODULE Backend_proofs ----------------------------
(* Proofs about Backend, for any number of requests, sessions, migrations and *)
(* values.  What Sessions proves of itself carries over, since every step of  *)
(* Backend is one of Sessions or leaves it alone.                             *)
EXTENDS Backend, Sessions_proofs, FiniteSetTheorems

----------------------------------------------------------------------------
(* The parts *)

\* Seen from Sessions, a step of Backend is one of its own or none.
LEMMA SessionsStep == BackendNext => [Next]_vars
<1> SUFFICES ASSUME BackendNext
             PROVE  [Next]_vars
  OBVIOUS
<1>1. ASSUME NEW p \in Procs, Arrive(p)
      PROVE  Next
  BY <1>1 DEF Arrive, Only, Next
<1>2. ASSUME NEW p \in Procs, Continue(p)
      PROVE  Next
  BY <1>2 DEF Continue, Only, Next, Step
<1>3. ASSUME NEW p \in Procs, Handle(p)
      PROVE  Next
  BY <1>3 DEF Handle, Next, Step
<1>4. ASSUME NEW p \in Procs, GiveUpRequest(p)
      PROVE  Next \/ UNCHANGED vars
  BY <1>4 DEF GiveUpRequest, Only, Next
<1>5. ASSUME Lapse
      PROVE  Next
  BY <1>5 DEF Lapse, Only, Next
<1>6. ASSUME NEW p \in Procs, ReadProfile(p) \/ WriteProfile(p) \/ CommitProfile(p)
      PROVE  UNCHANGED vars
  BY <1>6 DEF ReadProfile, WriteProfile, CommitProfile
<1>7. ASSUME ServerStep
      PROVE  UNCHANGED vars
  BY <1>7 DEF ServerStep
<1>8. QED
  BY <1>1, <1>2, <1>3, <1>4, <1>5, <1>6, <1>7 DEF BackendNext

\* Backend implements Sessions.
THEOREM ImplementsSessions == BackendSpec => Spec
<1>1. BackendInit => Init
  BY DEF BackendInit
<1>2. [BackendNext]_backendVars => [Next]_vars
  BY SessionsStep DEF backendVars
<1>3. QED
  BY <1>1, <1>2, PTL DEF BackendSpec, Spec

\* Also while the server starts, stops and dies: nobody uses a session without a
\* row, none comes back after Logout, and none without an end is used.
THEOREM SessionsHold ==
    BackendSpec => [](UsableMeansCommitted /\ LoggedOutForGood /\ UntimedNeverUsed)
  BY ImplementsSessions, UsableCommitted, LoggedOut, NeverUntimed, PTL

----------------------------------------------------------------------------
(* The server *)

\* Seen from Server, as well.
LEMMA ServerSteps == BackendNext => S!Next \/ UNCHANGED serverVars
  BY DEF BackendNext, Arrive, Continue, Handle, ReadProfile, WriteProfile,
         CommitProfile, GiveUpRequest, Lapse, ServerStep, Only

\* Where the migrations lie behind.
Migrated == {"redis", "nats", "order", "providers", "listening", "serving"} \cup S!Stopping

\* Past the migrations the schema is whole.
SchemaInv ==
    /\ S!TypeOK
    /\ phase \in Migrated => version = Migrations /\ ~dirty

LEMMA SchemaStep == SchemaInv /\ [BackendNext]_backendVars => SchemaInv'
<1> SUFFICES ASSUME SchemaInv, S!Next \/ UNCHANGED serverVars
             PROVE  SchemaInv'
  BY ServerSteps DEF backendVars
<1>1. Migrations \in Nat
  BY BackendAssumption
<1> USE <1>1 DEF SchemaInv, S!TypeOK, S!Phases, S!Starting, S!Stopping, Migrated,
                S!Trans, S!GoOn
<1>2. CASE S!Start
  BY <1>2 DEF S!Start
<1>3. CASE S!Ping \/ S!EnsureExtensions \/ S!ConnectRedis \/ S!ConnectNATS \/ S!ConnectOrder
              \/ S!Listen \/ S!OpenDriver \/ S!DriverFails
  BY <1>3 DEF S!Ping, S!EnsureExtensions, S!ConnectRedis, S!ConnectNATS, S!ConnectOrder,
              S!Listen, S!OpenDriver, S!DriverFails
<1>4. CASE S!BeginMigration
  BY <1>4 DEF S!BeginMigration
<1>5. CASE S!EndMigration
  BY <1>5 DEF S!EndMigration
<1>6. CASE S!RunMigrations
  BY <1>6 DEF S!RunMigrations
<1>7. CASE S!GiveUp \/ S!Kill
  BY <1>7 DEF S!GiveUp, S!Kill
<1>8. CASE S!Notify \/ S!Signal \/ S!ShutdownDone \/ S!CloseDB \/ S!CloseRedis \/ S!Exit
  BY <1>8 DEF S!Notify, S!Signal, S!ShutdownDone, S!CloseDB, S!CloseRedis, S!Exit
<1>11. CASE S!ShutdownExpires
  BY <1>11 DEF S!ShutdownExpires
<1>9. CASE UNCHANGED serverVars
  BY <1>9 DEF serverVars
<1>10. QED
  BY <1>2, <1>3, <1>4, <1>5, <1>6, <1>7, <1>8, <1>9, <1>11
  DEF S!Next, S!Progress, S!OwnPace

LEMMA SchemaInvariant == BackendSpec => []SchemaInv
<1>1. BackendInit => SchemaInv
  <2>1. Migrations \in Nat
    BY BackendAssumption
  <2>2. ASSUME S!Init
        PROVE  SchemaInv
    <3>1. phase = "off" /\ version = 0 /\ dirty = FALSE /\ hurried = FALSE
      BY <2>2 DEF S!Init
    <3>2. phase \notin Migrated /\ phase \in S!Phases
      BY <3>1 DEF Migrated, S!Phases, S!Stopping
    <3>3. version \in 0 .. Migrations
      BY <2>1, <3>1
    <3>4. dirty \in BOOLEAN /\ hurried \in BOOLEAN
      BY <3>1
    <3>5. QED
      BY <3>2, <3>3, <3>4 DEF SchemaInv, S!TypeOK
  <2>3. QED
    BY <2>2 DEF BackendInit
<1>2. QED
  BY <1>1, SchemaStep, PTL DEF BackendSpec

\* However often the migrations are cut off, nothing is served before they are done.
THEOREM WholeSchemaServed == BackendSpec => []ServesWholeSchema
<1>1. SchemaInv => ServesWholeSchema
  BY DEF SchemaInv, ServesWholeSchema, S!ServesWholeSchema, S!Accepting, Migrated
<1>2. QED
  BY <1>1, SchemaInvariant, PTL

\* A request that is not there takes no step, and none arrives at a closed listener.
LEMMA NobodyReturns ==
    ASSUME ~Busy, ~S!Accepting, BackendNext
    PROVE  UNCHANGED <<req, upd>> 
  BY DEF Busy, BackendNext, Arrive, Continue, Handle, ReadProfile, WriteProfile,
         CommitProfile, GiveUpRequest, Lapse, ServerStep, Only, TimeHash, DeleteHash, CommitRow, Answer,
         Deactivate, Slide, SlideFails, Abandon, HashLapses, TokenExpires, vars,
         profileVars, P!Read, P!Lock, P!Merge, P!Commit, P!Abandon

\* A stop that was given the time has ended every request before the stores close.
THEOREM GracefulStop == BackendSpec => []StopIsGraceful
<1> USE DEF StopIsGraceful, S!StopIsGraceful, S!Stopping
<1>1. BackendInit => StopIsGraceful
  BY DEF BackendInit, S!Init
<1>2. ASSUME StopIsGraceful, [BackendNext]_backendVars
      PROVE  StopIsGraceful'
  <2>1. CASE UNCHANGED backendVars
    BY <1>2, <2>1 DEF backendVars, serverVars, profileVars, vars, Busy
  <2>2. CASE BackendNext /\ UNCHANGED serverVars
    BY <1>2, <2>2, NobodyReturns DEF serverVars, S!Accepting, Busy
  <2>3. CASE ServerStep
    <3>1. Busy' = Busy
      BY <2>3 DEF ServerStep, vars, profileVars, Busy
    <3>2. QED
      BY <1>2, <2>3, <3>1 DEF ServerStep, S!Next, S!Start, S!Progress, S!Ping,
         S!EnsureExtensions, S!BeginMigration, S!EndMigration, S!RunMigrations,
         S!ConnectRedis, S!ConnectNATS, S!ConnectOrder, S!Listen, S!OwnPace, S!OpenDriver,
         S!DriverFails, S!GiveUp, S!Notify, S!ShutdownDone, S!ShutdownExpires, S!CloseDB,
         S!CloseRedis, S!Exit, S!Signal, S!Kill, S!Trans, S!GoOn, S!Starting
  <2>4. QED
    BY <1>2, <2>1, <2>2, <2>3
    DEF BackendNext, Arrive, Continue, Handle, ReadProfile, WriteProfile, CommitProfile,
        GiveUpRequest, Lapse, Only
<1>3. QED
  BY <1>1, <1>2, PTL DEF BackendSpec

----------------------------------------------------------------------------
(* The profile *)

\* A request that has read the name to write.
HasName(p) == upd[p].pc \in {"lock", "merge", "commit"}

\* Who is to commit has merged into what is committed now, alone; and who gave no
\* name writes the one that is to stay.
ProfileInv ==
    /\ P!TypeOK
    /\ \A p \in Procs : HasName(p) =>
          /\ upd[p].name \in Names
          /\ upd[p].in.name # None => upd[p].name = upd[p].in.name
          /\ upd[p].in.name = None /\ asked.name # None => upd[p].name = asked.name
    /\ \A p, q \in Procs : P!HasLock(p) /\ P!HasLock(q) => p = q
    /\ \A p \in Procs :
          upd[p].pc = "commit" => upd[p].fields = P!MergedWith(upd[p].in, profile.fields)
    /\ UpdatesKept

LEMMA BlankTypes ==
    /\ P!Blank \in P!Update
    /\ P!Idle \in P!Request
    /\ P!Idle.pc = "idle"
<1>1. P!Blank \in P!Update
  BY DEF P!Blank, P!Update
<1>2. 1 \in SessionId
  BY SessionAssumption DEF SessionId
<1>3. (CHOOSE s \in SessionId : TRUE) \in SessionId
  BY <1>2
<1>4. /\ P!Blank.name \in Names \cup {None}
      /\ P!Blank.fields \in [P!Fields -> Values \cup {None}]
  BY <1>1 DEF P!Update
<1>5. P!Idle.pc = "idle"
  BY DEF P!Idle
<1>6. QED
  BY <1>1, <1>3, <1>4, <1>5 DEF P!Idle, P!Request

\* The columns an upsert leaves alone, or is given nothing for, stay as they were.
LEMMA MergeTypes ==
    ASSUME P!TypeOK, NEW u \in P!Update
    PROVE  P!MergedWith(u, profile.fields) \in [P!Fields -> Values \cup {None}]
  BY DEF P!TypeOK, P!MergedWith, P!Coalesce, P!Update

\* What is merged into a row that is there is what was asked for.
LEMMA MergeKeeps ==
    ASSUME P!TypeOK, NEW u \in P!Update, profile.role = "client" \/ profile.row,
           profile.fields = asked.fields
    PROVE  P!MergedWith(u, profile.fields) =
             [f \in P!Fields |-> IF f \in P!RoleFields[profile.role] /\ u.fields[f] # None
                                    THEN u.fields[f] ELSE asked.fields[f]]
<1> SUFFICES ASSUME NEW f \in P!Fields
             PROVE  (IF P!Upserts(u) /\ f \in P!Merged
                       THEN P!Coalesce(u.fields[f], profile.fields[f]) ELSE profile.fields[f])
                    = (IF f \in P!RoleFields[profile.role] /\ u.fields[f] # None
                         THEN u.fields[f] ELSE profile.fields[f])
  BY DEF P!MergedWith
<1>1. P!Merged = P!RoleFields[profile.role]
  BY DEF P!Merged
<1>2. f \in P!RoleFields[profile.role] /\ u.fields[f] # None => P!Upserts(u)
  BY DEF P!Upserts
<1>3. QED
  BY <1>1, <1>2 DEF P!Coalesce

\* Requests that keep what the invariant says of them, beside one that does anything.
LEMMA OthersKeep ==
    ASSUME ProfileInv, NEW p \in Procs, upd' \in [Procs -> P!Request],
           UNCHANGED <<profile, asked>>,
           \A q \in Procs \ {p} : upd'[q] = upd[q],
           HasName(p)' =>
              /\ upd'[p].name \in Names
              /\ upd'[p].in.name # None => upd'[p].name = upd'[p].in.name
              /\ upd'[p].in.name = None /\ asked.name # None => upd'[p].name = asked.name,
           P!HasLock(p)' => P!HasLock(p) \/ \A q \in Procs : ~P!HasLock(q),
           upd'[p].pc = "commit" =>
              upd'[p].fields = P!MergedWith(upd'[p].in, profile.fields)
    PROVE  ProfileInv'
<1>1. \A q \in Procs \ {p} : HasName(q)' = HasName(q) /\ P!HasLock(q)' = P!HasLock(q)
  BY DEF HasName, P!HasLock
<1>2. P!TypeOK' /\ UpdatesKept'
  BY DEF ProfileInv, P!TypeOK, UpdatesKept, P!UpdatesKept
<1>3. ASSUME NEW q \in Procs, HasName(q)'
      PROVE  /\ upd'[q].name \in Names
             /\ upd'[q].in.name # None => upd'[q].name = upd'[q].in.name
             /\ upd'[q].in.name = None /\ asked.name # None => upd'[q].name = asked.name
  BY <1>1, <1>3 DEF ProfileInv
<1>4. ASSUME NEW q \in Procs, NEW r \in Procs, P!HasLock(q)', P!HasLock(r)'
      PROVE  q = r
  BY <1>1, <1>4 DEF ProfileInv
<1>5. ASSUME NEW q \in Procs, upd'[q].pc = "commit"
      PROVE  upd'[q].fields = P!MergedWith(upd'[q].in, profile.fields)
  BY <1>5 DEF ProfileInv
<1>6. \A u : P!MergedWith(u, profile.fields)' = P!MergedWith(u, profile.fields)
  BY DEF P!MergedWith, P!Upserts, P!Merged
<1>7. QED
  BY <1>2, <1>3, <1>4, <1>5, <1>6 DEF ProfileInv

\* A request that is over.
LEMMA FinishUpd ==
    ASSUME ProfileInv, NEW p \in Procs, P!Finish(p)
    PROVE  /\ upd' \in [Procs -> P!Request]
           /\ upd'[p].pc = "idle"
           /\ \A q \in Procs \ {p} : upd'[q] = upd[q]
  BY BlankTypes DEF ProfileInv, P!TypeOK, P!Finish

LEMMA AbandonUpd ==
    ASSUME ProfileInv, NEW p \in Procs, P!Abandon(p)
    PROVE  ProfileInv'
<1>1. ~HasName(p)' /\ ~P!HasLock(p)' /\ upd'[p].pc # "commit"
  BY FinishUpd DEF P!Abandon, HasName, P!HasLock
<1>2. QED
  BY <1>1, FinishUpd, OthersKeep DEF P!Abandon

\* The middleware has let an update through.
LEMMA EnterTo ==
    ASSUME ProfileInv, NEW p \in Procs, NEW u \in P!Update, NEW s \in SessionId,
           P!Enter(p, u, s)
    PROVE  /\ upd' \in [Procs -> P!Request]
           /\ upd'[p].pc = "read" /\ upd'[p].by = s
           /\ \A q \in Procs \ {p} : upd'[q] = upd[q]
<1> DEFINE next == [P!Idle EXCEPT !.pc = "read", !.in = u, !.by = s]
<1>1. upd' = [upd EXCEPT ![p] = next]
  BY DEF P!Enter
<1>2. next \in P!Request /\ next.pc = "read" /\ next.by = s
  BY BlankTypes DEF P!Request
<1> HIDE DEF next
<1>3. QED
  BY <1>1, <1>2 DEF ProfileInv, P!TypeOK

LEMMA EnterStep ==
    ASSUME ProfileInv, NEW p \in Procs, NEW u \in P!Update, NEW s \in SessionId,
           P!Enter(p, u, s)
    PROVE  ProfileInv'
<1>1. /\ upd' \in [Procs -> P!Request]
      /\ upd'[p].pc = "read"
      /\ \A q \in Procs \ {p} : upd'[q] = upd[q]
  BY EnterTo
<1>2. ~HasName(p)' /\ ~P!HasLock(p)' /\ upd'[p].pc # "commit"
  BY <1>1 DEF HasName, P!HasLock
<1>3. QED
  BY <1>1, <1>2, OthersKeep DEF P!Enter

\* GetUserProfileByID: the name of the row is the one that is to stay, if one is.
LEMMA ReadStep ==
    ASSUME ProfileInv, NEW p \in Procs, P!Read(p)
    PROVE  ProfileInv'
<1> DEFINE name == IF upd[p].in.name = None THEN profile.name ELSE upd[p].in.name
           next == [upd[p] EXCEPT !.pc = "lock", !.name = name]
<1>1. name \in Names
  BY DEF ProfileInv, P!TypeOK, P!Request, P!Update
<1>2. /\ upd[p].in.name # None => name = upd[p].in.name
      /\ upd[p].in.name = None /\ asked.name # None => name = asked.name
  BY DEF ProfileInv, UpdatesKept, P!UpdatesKept
<1> HIDE DEF name
<1>3. upd' = [upd EXCEPT ![p] = next]
  BY DEF P!Read, ProfileInv, P!TypeOK, name
<1>4. next \in P!Request /\ next.pc = "lock" /\ next.name = name /\ next.in = upd[p].in
  <2>1. upd[p] \in P!Request /\ name \in Names \cup {None}
    BY <1>1 DEF ProfileInv, P!TypeOK
  <2>2. QED
    BY <2>1 DEF P!Request
<1> HIDE DEF next
<1>5. /\ upd' \in [Procs -> P!Request]
      /\ upd'[p] = next
      /\ \A q \in Procs \ {p} : upd'[q] = upd[q]
  BY <1>3, <1>4 DEF ProfileInv, P!TypeOK
<1>6. ~P!HasLock(p)' /\ upd'[p].pc # "commit"
  BY <1>4, <1>5 DEF P!HasLock
<1>7. /\ upd'[p].name \in Names
      /\ upd'[p].in.name # None => upd'[p].name = upd'[p].in.name
      /\ upd'[p].in.name = None /\ asked.name # None => upd'[p].name = asked.name
  BY <1>1, <1>2, <1>4, <1>5
<1>8. UNCHANGED <<profile, asked>>
  BY DEF P!Read
<1>9. QED
  BY <1>5, <1>6, <1>7, <1>8, OthersKeep

\* UpdateUserCore waits for whoever has the row.
LEMMA LockStep ==
    ASSUME ProfileInv, NEW p \in Procs, P!Lock(p)
    PROVE  ProfileInv'
<1> DEFINE next == [upd[p] EXCEPT !.pc = "merge"]
<1>1. upd' = [upd EXCEPT ![p] = next]
  BY DEF P!Lock, ProfileInv, P!TypeOK
<1>2. /\ next \in P!Request /\ next.pc = "merge"
      /\ next.name = upd[p].name /\ next.in = upd[p].in
  BY DEF ProfileInv, P!TypeOK, P!Request
<1> HIDE DEF next
<1>3. /\ upd' \in [Procs -> P!Request]
      /\ upd'[p] = next
      /\ \A q \in Procs \ {p} : upd'[q] = upd[q]
  BY <1>1, <1>2 DEF ProfileInv, P!TypeOK
<1>4. HasName(p) /\ upd'[p].pc # "commit"
  BY <1>2, <1>3 DEF P!Lock, HasName
<1>5. /\ upd'[p].name \in Names
      /\ upd'[p].in.name # None => upd'[p].name = upd'[p].in.name
      /\ upd'[p].in.name = None /\ asked.name # None => upd'[p].name = asked.name
  BY <1>2, <1>3, <1>4 DEF ProfileInv
<1>6. \A q \in Procs : ~P!HasLock(q)
  BY DEF P!Lock
<1>7. UNCHANGED <<profile, asked>>
  BY DEF P!Lock
<1>8. QED
  BY <1>3, <1>4, <1>5, <1>6, <1>7, OthersKeep

\* The upsert merges into the row as it was committed: the lock keeps it so.
LEMMA MergeStep ==
    ASSUME ProfileInv, NEW p \in Procs, P!Merge(p)
    PROVE  ProfileInv'
<1> DEFINE fields == P!MergedWith(upd[p].in, profile.fields)
           next == [upd[p] EXCEPT !.pc = "commit", !.fields = fields]
<1>1. upd[p].in \in P!Update
  BY DEF ProfileInv, P!TypeOK, P!Request
<1>2. fields \in [P!Fields -> Values \cup {None}]
  BY <1>1, MergeTypes DEF ProfileInv
<1> HIDE DEF fields
<1>3. upd' = [upd EXCEPT ![p] = next]
  BY DEF P!Merge, ProfileInv, P!TypeOK, fields
<1>4. /\ next \in P!Request /\ next.pc = "commit" /\ next.fields = fields
      /\ next.name = upd[p].name /\ next.in = upd[p].in
  <2>1. upd[p] \in P!Request
    BY DEF ProfileInv, P!TypeOK
  <2>2. QED
    BY <1>2, <2>1 DEF P!Request
<1> HIDE DEF next
<1>5. /\ upd' \in [Procs -> P!Request]
      /\ upd'[p] = next
      /\ \A q \in Procs \ {p} : upd'[q] = upd[q]
  BY <1>3, <1>4 DEF ProfileInv, P!TypeOK
<1>6. HasName(p) /\ P!HasLock(p)
  BY DEF P!Merge, HasName, P!HasLock
<1>7. /\ upd'[p].name \in Names
      /\ upd'[p].in.name # None => upd'[p].name = upd'[p].in.name
      /\ upd'[p].in.name = None /\ asked.name # None => upd'[p].name = asked.name
  BY <1>4, <1>5, <1>6 DEF ProfileInv
<1>8. upd'[p].fields = P!MergedWith(upd'[p].in, profile.fields)
  BY <1>4, <1>5 DEF fields
<1>9. UNCHANGED <<profile, asked>>
  BY DEF P!Merge
<1>10. QED
  BY <1>5, <1>6, <1>7, <1>8, <1>9, OthersKeep

\* COMMIT leaves what the row's lock has kept from everybody else.
LEMMA CommitStep ==
    ASSUME ProfileInv, NEW p \in Procs, P!Commit(p)
    PROVE  ProfileInv'
<1> DEFINE u == upd[p].in
           fields == upd[p].fields
           row_ == profile.row \/ (profile.role = "client" /\ P!Upserts(u))
           name_ == IF u.name = None THEN asked.name
                                     ELSE IF P!Overtaken(p) THEN None ELSE u.name
           given == [f \in P!Fields |-> IF f \in P!RoleFields[profile.role] /\ u.fields[f] # None
                                          THEN u.fields[f] ELSE asked.fields[f]]
<1>1. HasName(p) /\ P!HasLock(p)
  BY DEF P!Commit, HasName, P!HasLock
<1>2. u \in P!Update /\ fields \in [P!Fields -> Values \cup {None}] /\ upd[p].name \in Names
  BY <1>1 DEF ProfileInv, P!TypeOK, P!Request
<1>3. row_ \in BOOLEAN
  OBVIOUS
<1>4. /\ given \in [P!Fields -> Values \cup {None}]
      /\ name_ \in Names \cup {None}
  BY <1>2 DEF ProfileInv, P!TypeOK, P!Update
<1>5. (profile.role = "client" \/ profile.row) => fields = given
  <2>1. upd[p].fields = P!MergedWith(u, profile.fields)
    BY DEF P!Commit, ProfileInv
  <2>2. QED
    BY <1>2, <2>1, MergeKeeps DEF ProfileInv, UpdatesKept, P!UpdatesKept
<1>6. name_ # None => upd[p].name = name_
  BY <1>1 DEF ProfileInv
<1>7. profile' = [profile EXCEPT !.name = upd[p].name, !.row = row_, !.fields = fields]
  BY DEF P!Commit
<1>8. asked' = [name |-> name_, fields |-> given]
  BY DEF P!Commit
<1>9. ASSUME NEW q \in Procs \ {p}, HasName(q)
      PROVE  /\ upd[q].in.name = None /\ name_ # None => upd[q].name = name_
             /\ upd[q].pc # "commit"
  <2>1. u.name # None => name_ = None
    BY <1>9 DEF P!Overtaken, HasName
  <2>2. upd[q].pc # "commit"
    BY <1>1, <1>9 DEF ProfileInv, P!HasLock
  <2>3. QED
    BY <1>9, <2>1, <2>2 DEF ProfileInv
<1>10. row_ => (profile.role = "client" \/ profile.row)
  OBVIOUS
<1> HIDE DEF u, fields, row_, name_, given
<1>11. /\ profile' \in [name: Names, role: DOMAIN P!RoleFields, row: BOOLEAN,
                         fields: [P!Fields -> Values \cup {None}]]
       /\ profile'.fields = fields /\ profile'.name = upd[p].name
       /\ profile'.role = profile.role /\ profile'.row = row_
  BY <1>2, <1>3, <1>7 DEF ProfileInv, P!TypeOK
<1>12. asked' \in P!Update /\ asked'.name = name_ /\ asked'.fields = given
  BY <1>4, <1>8 DEF P!Update
<1>13. UpdatesKept'
  BY <1>5, <1>6, <1>10, <1>11, <1>12 DEF UpdatesKept, P!UpdatesKept
<1>14. /\ upd' \in [Procs -> P!Request]
       /\ upd'[p].pc = "idle"
       /\ \A q \in Procs \ {p} : upd'[q] = upd[q]
  BY FinishUpd DEF P!Commit
<1>15. P!TypeOK'
  BY <1>11, <1>12, <1>14 DEF P!TypeOK
<1>16. ASSUME NEW q \in Procs, HasName(q)'
       PROVE  /\ q # p /\ HasName(q)
              /\ upd'[q].name \in Names
              /\ upd'[q].in.name # None => upd'[q].name = upd'[q].in.name
              /\ upd'[q].in.name = None /\ asked'.name # None => upd'[q].name = asked'.name
  <2>1. q # p /\ HasName(q)
    BY <1>14, <1>16 DEF HasName
  <2>2. QED
    BY <1>9, <1>12, <1>14, <2>1 DEF ProfileInv
<1>17. ASSUME NEW q \in Procs
       PROVE  ~P!HasLock(q)' /\ upd'[q].pc # "commit"
  BY <1>1, <1>14 DEF ProfileInv, P!HasLock
<1>18. QED
  BY <1>13, <1>15, <1>16, <1>17 DEF ProfileInv

LEMMA ProfileStep == IInv /\ ProfileInv /\ [BackendNext]_backendVars => ProfileInv'
<1> SUFFICES ASSUME IInv, ProfileInv, [BackendNext]_backendVars
             PROVE  ProfileInv'
  OBVIOUS
<1>1. CASE UNCHANGED profileVars
  BY <1>1 DEF profileVars, ProfileInv, P!TypeOK, UpdatesKept, P!UpdatesKept, HasName,
              P!HasLock, P!MergedWith, P!Upserts, P!Merged
<1>2. ASSUME NEW p \in Procs, Handle(p)
      PROVE  ProfileInv'
  <2>1. Of(p) \in SessionId
    BY <1>2, SessionAssumption DEF Handle, Slide, SlideFails, IInv, Drawn, TypeOK, SessionId
  <2>2. QED
    BY <1>1, <1>2, <2>1, EnterStep, BackendAssumption DEF Handle
<1>3. ASSUME NEW p \in Procs, ReadProfile(p)
      PROVE  ProfileInv'
  BY <1>3, ReadStep DEF ReadProfile
<1>4. ASSUME NEW p \in Procs, WriteProfile(p)
      PROVE  ProfileInv'
  BY <1>4, LockStep, MergeStep DEF WriteProfile
<1>5. ASSUME NEW p \in Procs, CommitProfile(p) \/ P!Abandon(p)
      PROVE  ProfileInv'
  BY <1>5, CommitStep, AbandonUpd DEF CommitProfile
<1>6. ASSUME NEW p \in Procs, Arrive(p) \/ Continue(p)
      PROVE  UNCHANGED profileVars
  BY <1>6 DEF Arrive, Continue, Only
<1>7. ASSUME Lapse \/ ServerStep \/ UNCHANGED backendVars
      PROVE  UNCHANGED profileVars
  BY <1>7 DEF Lapse, ServerStep, Only, backendVars
<1>8. QED
  BY <1>1, <1>2, <1>3, <1>4, <1>5, <1>6, <1>7 DEF BackendNext, GiveUpRequest, Only

LEMMA ProfileInvariant == BackendSpec => []ProfileInv
<1>1. BackendInit => ProfileInv
  BY BlankTypes DEF BackendInit, P!Init, ProfileInv, P!TypeOK, P!Blank, P!Update,
                    UpdatesKept, P!UpdatesKept, HasName, P!HasLock
<1>2. QED
  BY <1>1, ProfileStep, ImplementsSessions, SessionInvariant, PTL DEF BackendSpec

\* COALESCE under the row's lock: of any number of updates, none takes back a field
\* that another was told is saved, and a name only where it had been read before.
THEOREM UpdatesStayKept == BackendSpec => []UpdatesKept
<1>1. ProfileInv => UpdatesKept
  BY DEF ProfileInv
<1>2. QED
  BY <1>1, ProfileInvariant, PTL

----------------------------------------------------------------------------
(* Updates after the logout *)

\* A request is in the middleware or in an update, not in both.
OnePlace == \A p \in Procs : req[p].pc # "idle" => upd[p].pc = "idle"

\* The requests that may still write for a session.
Under(s) ==
    {p \in Procs : \/ req[p].pc = "slide" /\ ~req[p].logout /\ Of(p) = s
                   \/ upd[p].pc # "idle" /\ upd[p].by = s}

LateInv ==
    /\ late \in [SessionId -> Nat]
    /\ OnePlace
    /\ \A s \in SessionId \ ended : late[s] = 0
    /\ \A s \in ended : late[s] + Cardinality(Under(s)) <= Cardinality(Procs) - 1

\* What every action leaves of req and upd, seen from another request.
LEMMA OneMoves ==
    ASSUME IInv, ProfileInv, NEW p \in Procs,
           Arrive(p) \/ Continue(p) \/ Handle(p) \/ ReadProfile(p) \/ WriteProfile(p)
             \/ CommitProfile(p) \/ GiveUpRequest(p)
    PROVE  \A q \in Procs \ {p} : req'[q] = req[q] /\ upd'[q] = upd[q]
<1>1. ASSUME Arrive(p) \/ Continue(p) \/ Handle(p) \/ Abandon(p)
      PROVE  \A q \in Procs \ {p} : req'[q] = req[q]
  BY <1>1, Moves DEF Arrive, Continue, Handle, Only, StoreHash, Authorise, Refuse, vars,
     TimeHash, DeleteHash, CommitRow, Answer, Deactivate, Slide, SlideFails, Abandon, IInv,
     TypeOK, Steps
<1>2. ASSUME Handle(p) \/ ReadProfile(p) \/ WriteProfile(p) \/ CommitProfile(p) \/ P!Abandon(p)
      PROVE  \A q \in Procs \ {p} : upd'[q] = upd[q]
  BY <1>2 DEF Handle, ReadProfile, WriteProfile, CommitProfile, P!Enter, P!Read, P!Lock,
     P!Merge, P!Commit, P!Abandon, P!Finish, profileVars, ProfileInv, P!TypeOK
<1>3. QED
  BY <1>1, <1>2 DEF Arrive, Continue, ReadProfile, WriteProfile, CommitProfile,
                    GiveUpRequest, Only, vars, profileVars

\* Where the request that moves is afterwards.
LEMMA MovesTo ==
    ASSUME IInv, ProfileInv, NEW p \in Procs
    PROVE  /\ Handle(p) => \/ req'[p].pc \in {"idle", "deactivate"} /\ upd'[p] = upd[p]
                           \/ /\ req'[p].pc = "idle" /\ upd[p].pc = "idle"
                              /\ ~req[p].logout /\ upd'[p].by = Of(p)
           /\ Continue(p) => req[p].pc # "idle" /\ req'[p].pc # "slide" /\ UNCHANGED upd
           /\ ReadProfile(p) => upd[p].pc # "idle" /\ upd'[p].by = upd[p].by /\ UNCHANGED req
           /\ WriteProfile(p) => upd[p].pc # "idle" /\ upd'[p].by = upd[p].by /\ UNCHANGED req
           /\ CommitProfile(p) => upd[p].pc # "idle" /\ upd'[p].pc = "idle" /\ UNCHANGED req
           /\ GiveUpRequest(p) =>
                \/ req'[p].pc = "idle" /\ UNCHANGED upd
                \/ upd[p].pc # "idle" /\ upd'[p].pc = "idle" /\ UNCHANGED req
<1>1. ASSUME Handle(p)
      PROVE  \/ req'[p].pc \in {"idle", "deactivate"} /\ upd'[p] = upd[p]
             \/ /\ req'[p].pc = "idle" /\ upd[p].pc = "idle"
                /\ ~req[p].logout /\ upd'[p].by = Of(p)
  <2>1. /\ req'[p].pc \in {"idle", "deactivate"}
        /\ ~req[p].logout => req'[p].pc = "idle"
    BY <1>1, Moves DEF Handle, Slide, SlideFails, IInv, Steps
  <2>2. Of(p) \in SessionId
    BY <1>1, SessionAssumption DEF Handle, Slide, SlideFails, IInv, Drawn, TypeOK, SessionId
  <2>3. ASSUME NEW u \in Updates, P!Enter(p, u, Of(p))
        PROVE  upd[p].pc = "idle" /\ upd'[p].by = Of(p)
    BY <2>2, <2>3, EnterTo, BackendAssumption DEF P!Enter
  <2>4. QED
    BY <1>1, <2>1, <2>3 DEF Handle, profileVars
<1>2. ASSUME Continue(p)
      PROVE  req[p].pc # "idle" /\ req'[p].pc # "slide" /\ UNCHANGED upd
  BY <1>2, Moves DEF Continue, Only, TimeHash, DeleteHash, CommitRow, Answer, Deactivate,
                     IInv, Steps, profileVars
<1>3. ASSUME ReadProfile(p)
      PROVE  upd[p].pc # "idle" /\ upd'[p].by = upd[p].by /\ UNCHANGED req
  BY <1>3 DEF ReadProfile, P!Read, vars, ProfileInv, P!TypeOK, P!Request
<1>4. ASSUME WriteProfile(p)
      PROVE  upd[p].pc # "idle" /\ upd'[p].by = upd[p].by /\ UNCHANGED req
  BY <1>4 DEF WriteProfile, P!Lock, P!Merge, vars, ProfileInv, P!TypeOK, P!Request
<1>7. ASSUME CommitProfile(p)
      PROVE  upd[p].pc # "idle" /\ upd'[p].pc = "idle" /\ UNCHANGED req
  BY <1>7, BlankTypes DEF CommitProfile, P!Commit, P!Finish, vars, ProfileInv, P!TypeOK
<1>5. ASSUME GiveUpRequest(p)
      PROVE  \/ req'[p].pc = "idle" /\ UNCHANGED upd
             \/ upd[p].pc # "idle" /\ upd'[p].pc = "idle" /\ UNCHANGED req
  BY <1>5, Moves, BlankTypes DEF GiveUpRequest, Only, Abandon, P!Abandon, P!Finish, vars,
                     profileVars, ProfileInv, P!TypeOK, IInv
<1>6. QED
  BY <1>1, <1>2, <1>3, <1>4, <1>5, <1>7

LEMMA OnePlaceStep ==
    IInv /\ ProfileInv /\ OnePlace /\ [BackendNext]_backendVars => OnePlace'
<1> SUFFICES ASSUME IInv, ProfileInv, OnePlace, [BackendNext]_backendVars
             PROVE  OnePlace'
  OBVIOUS
<1>1. ASSUME NEW p \in Procs, Arrive(p)
      PROVE  OnePlace'
  BY <1>1, OneMoves DEF Arrive, Only, profileVars, OnePlace
<1>2. ASSUME NEW p \in Procs,
             Continue(p) \/ Handle(p) \/ ReadProfile(p) \/ WriteProfile(p)
               \/ CommitProfile(p) \/ GiveUpRequest(p)
      PROVE  OnePlace'
  <2>1. req'[p].pc # "idle" => upd'[p].pc = "idle"
    BY <1>2, MovesTo DEF OnePlace, Handle, Slide, SlideFails
  <2>2. QED
    BY <1>2, <2>1, OneMoves DEF OnePlace
<1>3. ASSUME Lapse \/ ServerStep \/ UNCHANGED backendVars
      PROVE  OnePlace'
  BY <1>3 DEF Lapse, Only, ServerStep, HashLapses, TokenExpires, backendVars, vars,
              profileVars, OnePlace
<1>4. QED
  BY <1>1, <1>2, <1>3 DEF BackendNext

\* Nobody joins the requests of a session that has ended.
LEMMA UnderShrinks ==
    ASSUME IInv, ProfileInv, OnePlace, NEW s \in ended, [BackendNext]_backendVars
    PROVE  Under(s)' \subseteq Under(s)
<1>1. ASSUME NEW p \in Procs, Arrive(p)
      PROVE  Under(s)' \subseteq Under(s)
  <2>1. hash[s] = "none"
    BY DEF IInv, LoggedOutForGood
  <2>2. ~(req'[p].pc = "slide" /\ req'[p].session = s) \/ req' = req
    BY <1>1, <2>1 DEF Arrive, Only, StoreHash, Authorise, Refuse, vars, IInv, TypeOK
  <2>3. QED
    BY <1>1, <2>2, OneMoves DEF Arrive, Only, profileVars, Under, Of
<1>2. ASSUME NEW p \in Procs,
             Continue(p) \/ Handle(p) \/ ReadProfile(p) \/ WriteProfile(p)
               \/ CommitProfile(p) \/ GiveUpRequest(p)
      PROVE  Under(s)' \subseteq Under(s)
  <2>1. p \in Under(s)' => p \in Under(s)
    BY <1>2, MovesTo DEF Under, Handle, Slide, SlideFails, Of
  <2>2. QED
    BY <1>2, <2>1, OneMoves DEF Under, Of
<1>3. ASSUME Lapse \/ ServerStep \/ UNCHANGED backendVars
      PROVE  Under(s)' \subseteq Under(s)
  BY <1>3 DEF Lapse, Only, ServerStep, HashLapses, TokenExpires, backendVars, vars,
              profileVars, Under, Of
<1>4. QED
  BY <1>1, <1>2, <1>3 DEF BackendNext

\* An update that is committed is no longer under way.
LEMMA UnderLoses ==
    ASSUME IInv, ProfileInv, OnePlace, NEW p \in Procs, CommitProfile(p),
           NEW s, s = upd[p].by
    PROVE  Under(s)' \subseteq Under(s) \ {p} /\ p \in Under(s)
<1>1. p \in Under(s)
  BY MovesTo DEF Under
<1>2. p \notin Under(s)'
  BY MovesTo DEF Under, OnePlace
<1>3. QED
  BY <1>1, <1>2, MovesTo, OneMoves DEF Under, Of

LEMMA UnderFinite == \A s : IsFiniteSet(Under(s)) /\ Cardinality(Under(s)) \in Nat
  BY SessionAssumption, FS_Subset, FS_CardinalityType DEF Under

LEMMA LateStep == IInv /\ ProfileInv /\ LateInv /\ [BackendNext]_backendVars => LateInv'
<1> SUFFICES ASSUME IInv, ProfileInv, LateInv, [BackendNext]_backendVars
             PROVE  LateInv'
  OBVIOUS
<1>1. OnePlace'
  BY OnePlaceStep DEF LateInv
<1>2. Cardinality(Procs) \in Nat
  BY SessionAssumption, FS_CardinalityType
<1>3. ASSUME NEW s \in ended
      PROVE  Cardinality(Under(s)') <= Cardinality(Under(s)) /\ Cardinality(Under(s)') \in Nat
  BY <1>3, UnderShrinks, UnderFinite, FS_Subset, FS_CardinalityType DEF LateInv
<1>4. CASE late' = late /\ ended' = ended
  BY <1>1, <1>2, <1>3, <1>4, UnderFinite DEF LateInv, IInv, TypeOK
<1>5. ASSUME NEW p \in Procs, Only(DeleteHash(p))
      PROVE  LateInv'
  <2>1. PICK s \in SessionId : s = Of(p)
    BY <1>5, SessionAssumption DEF Only, DeleteHash, IInv, Drawn, TypeOK, SessionId
  <2>2. ended' = ended \cup {s} /\ late' = late
    BY <1>5, <2>1 DEF Only, DeleteHash
  <2>3. p \notin Under(s)'
    BY <1>5, Moves DEF Only, DeleteHash, profileVars, LateInv, OnePlace, Under, IInv
  <2>4. Under(s)' \subseteq Procs \ {p}
    BY <2>3 DEF Under
  <2>5. /\ IsFiniteSet(Procs \ {p})
        /\ Cardinality(Procs \ {p}) = Cardinality(Procs) - 1
    BY SessionAssumption, FS_RemoveElement
  <2>6. Cardinality(Under(s)') <= Cardinality(Procs) - 1 /\ Cardinality(Under(s)') \in Nat
    BY <2>4, <2>5, FS_Subset, FS_CardinalityType
  <2>7. s \notin ended => late[s] = 0
    BY <2>1 DEF LateInv
  <2>8. \A t \in ended' : late'[t] + Cardinality(Under(t)') <= Cardinality(Procs) - 1
    <3>1. ASSUME NEW t \in ended
          PROVE  late[t] + Cardinality(Under(t)') <= Cardinality(Procs) - 1
      <4>1. late[t] + Cardinality(Under(t)) <= Cardinality(Procs) - 1 /\ late[t] \in Nat
        BY DEF LateInv, IInv, TypeOK
      <4>2. QED
        BY <1>2, <1>3, <4>1, UnderFinite
    <3>2. QED
      BY <1>2, <2>2, <2>6, <2>7, <3>1
  <2>9. QED
    BY <1>1, <2>2, <2>8 DEF LateInv
<1>6. ASSUME NEW p \in Procs, CommitProfile(p)
      PROVE  LateInv'
  <2>1. PICK s \in SessionId : s = upd[p].by
    BY <1>6 DEF ProfileInv, P!TypeOK, P!Request
  <2>2. ended' = ended
    BY <1>6 DEF CommitProfile, vars
  <2>3. CASE s \notin ended
    BY <1>4, <1>6, <2>1, <2>2, <2>3 DEF CommitProfile
  <2>4. CASE s \in ended
    <3>1. late' = [late EXCEPT ![s] = @ + 1]
      BY <1>6, <2>1, <2>4 DEF CommitProfile
    <3>2. Under(s)' \subseteq Under(s) \ {p} /\ p \in Under(s)
      BY <1>6, <2>1, UnderLoses DEF LateInv
    <3>3. /\ IsFiniteSet(Under(s) \ {p})
          /\ Cardinality(Under(s) \ {p}) = Cardinality(Under(s)) - 1
      BY <3>2, UnderFinite, FS_RemoveElement
    <3>4. Cardinality(Under(s)') <= Cardinality(Under(s)) - 1
      BY <3>2, <3>3, FS_Subset
    <3>5. ASSUME NEW t \in ended
          PROVE  late'[t] + Cardinality(Under(t)') <= Cardinality(Procs) - 1
      <4>1. /\ late[t] + Cardinality(Under(t)) <= Cardinality(Procs) - 1
            /\ late[t] \in Nat /\ t \in SessionId
        BY DEF LateInv, IInv, TypeOK
      <4>2. late'[t] = IF t = s THEN late[t] + 1 ELSE late[t]
        BY <3>1, <4>1 DEF LateInv
      <4>3. QED
        BY <1>2, <1>3, <3>4, <4>1, <4>2, UnderFinite
    <3>6. late' \in [SessionId -> Nat] /\ \A t \in SessionId \ ended : late'[t] = 0
      BY <2>4, <3>1 DEF LateInv
    <3>7. QED
      BY <1>1, <2>2, <3>5, <3>6 DEF LateInv
  <2>5. QED
    BY <2>3, <2>4
<1>7. QED
  BY <1>4, <1>5, <1>6
  DEF BackendNext, Arrive, Continue, Handle, ReadProfile, WriteProfile, GiveUpRequest, Lapse, ServerStep,
      Only, backendVars, vars, StoreHash, Authorise, Refuse, TimeHash, CommitRow, Answer,
      Deactivate, Slide, SlideFails, Abandon, HashLapses, TokenExpires

LEMMA LateInvariant == BackendSpec => []LateInv
<1>1. BackendInit => LateInv
  BY DEF BackendInit, Init, LateInv, OnePlace, Idle
<1>2. QED
  BY <1>1, LateStep, ImplementsSessions, SessionInvariant, ProfileInvariant, PTL
  DEF BackendSpec

\* JWTAuthMiddleware asks once: what a session can still write after its Logout is
\* what was under way, each request once, for any number of them.
THEOREM LateBounded == BackendSpec => []LateUpdatesBounded
<1>1. ASSUME LateInv, IInv
      PROVE  LateUpdatesBounded
  <2>1. Cardinality(Procs) \in Nat \ {0}
    BY SessionAssumption, FS_CardinalityType, FS_EmptySet
  <2>2. QED
    BY <1>1, <2>1, UnderFinite DEF LateInv, LateUpdatesBounded, IInv, TypeOK
<1>2. QED
  BY <1>1, LateInvariant, ImplementsSessions, SessionInvariant, PTL

\* Every variable keeps its type, for all values of the constants.
THEOREM AllTypesCorrect == BackendSpec => []AllTypesOK
<1>1. IInv /\ SchemaInv /\ ProfileInv /\ LateInv => AllTypesOK
  BY DEF IInv, SchemaInv, ProfileInv, LateInv, AllTypesOK
<1>2. QED
  BY <1>1, ImplementsSessions, SessionInvariant, SchemaInvariant, ProfileInvariant,
     LateInvariant, PTL

=============================================================================
