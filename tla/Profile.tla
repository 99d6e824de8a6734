------------------------------- MODULE Profile -------------------------------
(***************************************************************************)
(* The profile of one user: UpdateProfile of ProfileService, for requests  *)
(* of that user that overlap.  The name is read before the transaction and *)
(* always written; the fields of the role are merged by the database.      *)
(*                                                                         *)
(* An action is a statement; the audit row goes with COMMIT.               *)
(***************************************************************************)
EXTENDS Naturals

CONSTANTS
    Procs,      \* requests in progress at a time
    SessionIds, \* sessions they come with
    Names,      \* names of a user
    Values,     \* values of a role's fields
    None        \* a field that is left out, or given empty

VARIABLES
    profile,    \* users.name and role, and the row of the role's own table
    asked,      \* what the updates that were committed gave last (history)
    upd         \* the requests in progress

profileVars == <<profile, asked, upd>>

\* A restaurant's people have none, like a driver without a row.
RoleFields == [client |-> {"date_of_birth", "gender"},
               driver |-> {"is_available", "current_city"}]
Fields == UNION {RoleFields[role] : role \in DOMAIN RoleFields}

\* What a request gives; a field of another role is let through and ignored.
Update == [name: Names \cup {None}, fields: [Fields -> Values \cup {None}]]

\* name and fields are what the transaction is to leave.
Request == [pc: {"idle", "read", "lock", "merge", "commit"}, in: Update,
            name: Names \cup {None}, fields: [Fields -> Values \cup {None}], by: SessionIds]
Blank == [name |-> None, fields |-> [f \in Fields |-> None]]
Idle == [pc |-> "idle", in |-> Blank, name |-> None, fields |-> Blank.fields,
         by |-> CHOOSE s \in SessionIds : TRUE]

\* Nothing in the repository inserts a driver's row.
Init ==
    /\ profile \in [name: Names, role: DOMAIN RoleFields, row: BOOLEAN, fields: {Blank.fields}]
    /\ profile.role = "client" => ~profile.row
    /\ asked = Blank
    /\ upd = [p \in Procs |-> Idle]

Finish(p) == upd' = [upd EXCEPT ![p] = Idle]

----------------------------------------------------------------------------

\* The handler has the validated body and the session of the token.  Without any
\* field it is refused, but not with an empty city: that is Blank as well.
Enter(p, u, s) ==
    /\ upd[p].pc = "idle"
    /\ upd' = [upd EXCEPT ![p] = [Idle EXCEPT !.pc = "read", !.in = u, !.by = s]]
    /\ UNCHANGED <<profile, asked>>

\* GetUserProfileByID, and the name to write if none is given.
Read(p) ==
    /\ upd[p].pc = "read"
    /\ upd' = [upd EXCEPT
          ![p].pc = "lock",
          ![p].name = IF upd[p].in.name = None THEN profile.name ELSE upd[p].in.name]
    /\ UNCHANGED <<profile, asked>>

\* Who has updated the users row keeps it locked until COMMIT or ROLLBACK.
HasLock(p) == upd[p].pc \in {"merge", "commit"}

\* UpdateUserCore: the new name is nobody else's to see yet.
Lock(p) ==
    /\ upd[p].pc = "lock"
    /\ ~\E q \in Procs : HasLock(q)
    /\ upd' = [upd EXCEPT ![p].pc = "merge"]
    /\ UNCHANGED <<profile, asked>>

\* The fields an update of this user changes; of a driver without a row, none.
Merged == IF profile.role = "client" \/ profile.row THEN RoleFields[profile.role] ELSE {}

\* Mutant: what is left out is written as NULL.
CoalesceNothing(given, old) == given

Coalesce(given, old) == IF given = None THEN old ELSE given

\* Any field of the role given: the upsert names them all.
Upserts(u) == \E f \in RoleFields[profile.role] : u.fields[f] # None

MergedWith(u, old) ==
    [f \in Fields |-> IF Upserts(u) /\ f \in Merged THEN Coalesce(u.fields[f], old[f])
                                                    ELSE old[f]]

\* UpsertClientProfile or UpsertDriverProfile, if there is anything to write.
Merge(p) ==
    /\ upd[p].pc = "merge"
    /\ upd' = [upd EXCEPT ![p].pc = "commit",
                          ![p].fields = MergedWith(upd[p].in, profile.fields)]
    /\ UNCHANGED <<profile, asked>>

\* Another request has read the name and may write it back.
Overtaken(p) == \E q \in Procs \ {p} : upd[q].pc \notin {"idle", "read"}

\* The audit row and COMMIT.
Commit(p) ==
    LET u == upd[p].in IN
    /\ upd[p].pc = "commit"
    /\ profile' = [profile EXCEPT
          !.name = upd[p].name,
          !.row = @ \/ (profile.role = "client" /\ Upserts(u)),
          !.fields = upd[p].fields]
    /\ asked' = [
          name |-> IF u.name = None THEN asked.name ELSE IF Overtaken(p) THEN None ELSE u.name,
          fields |-> [f \in Fields |-> IF f \in RoleFields[profile.role] /\ u.fields[f] # None
                                         THEN u.fields[f] ELSE asked.fields[f]]]
    /\ Finish(p)

\* The request ends before its next statement.
Abandon(p) ==
    /\ upd[p].pc # "idle"
    /\ Finish(p)
    /\ UNCHANGED <<profile, asked>>

----------------------------------------------------------------------------
(* Properties *)

\* The variables keep their types.
TypeOK ==
    /\ profile \in [name: Names, role: DOMAIN RoleFields, row: BOOLEAN,
                    fields: [Fields -> Values \cup {None}]]
    /\ asked \in Update
    /\ upd \in [Procs -> Request]

\* What updates are told was saved is saved, but for two losses the code allows.  Of
\* the role's fields each is what the last update committed with it gave, whatever
\* requests overlap, are cut off or give only some of them: except a driver without a
\* row, who is told 200 and loses them all.  A name given stays until another is given,
\* except where another request had read the name before this one was committed: that
\* request writes back what it read, and from then on those that overlap may.
UpdatesKept ==
    /\ (profile.role = "client" \/ profile.row) => profile.fields = asked.fields
    /\ asked.name # None => profile.name = asked.name

=============================================================================
