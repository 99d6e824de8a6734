---------------------------- MODULE AddressBook ----------------------------
(***************************************************************************)
(* The delivery addresses of one user: CreateAddress, UpdateAddress and    *)
(* DeleteAddress of ProfileService, for requests of that user that overlap *)
(* (two tabs, a retry).  Every statement is restricted to the user's rows, *)
(* so different users do not interact.                                     *)
(*                                                                         *)
(* Transactions run at READ COMMITTED.  An UPDATE chooses its rows in the  *)
(* snapshot of the moment it starts, locks them one by one, waiting for    *)
(* those that others hold, and asks its WHERE again of each one it gets: a *)
(* row that became the default in the meantime is not seen.  The order is  *)
(* that of the rows on disk, which every update changes, so it is left     *)
(* open.  Transactions that wait for each other are PostgreSQL's to break. *)
(***************************************************************************)
EXTENDS Naturals, FiniteSets

CONSTANTS
    Procs,          \* requests in progress at a time
    Texts,          \* values of the other columns, taken as one
    None,           \* a field the request leaves out
    MayFail,        \* whether statements may fail and requests be cut off
    MaxAddresses,   \* MaxAddressesPerUser
    Edits,          \* bound: what updates give for text (or None) and default
    MaxRows,        \* bound: rows ever inserted
    MaxDeleted      \* bound: rows ever deleted

ASSUME AddressAssumption ==
    /\ IsFiniteSet(Procs)
    /\ None \notin Texts
    /\ Edits \subseteq (Texts \cup {None}) \X {"yes", "no", "keep"}
    /\ MayFail \in BOOLEAN
    /\ MaxAddresses \in Nat \ {0}
    /\ MaxRows \in Nat
    /\ MaxDeleted \in Nat

VARIABLES
    addr,       \* the rows, by order of insertion
    created,    \* how many there are
    req         \* the requests in progress

vars == <<addr, created, req>>

RowId == 1 .. MaxRows
Rows == 1 .. created
Row == [text: Texts \cup {None}, default: BOOLEAN, deleted: BOOLEAN]
NoRow == [text |-> None, default |-> FALSE, deleted |-> FALSE]

\* row is the address an update works on (0 for a new one), text and default
\* what it will write, given which of the two the caller asked for, marked the
\* defaults its UnsetDefaultAddress has still to lock and held those it has.
Request == [pc: {"idle", "unset", "clear", "write"}, row: 0 .. MaxRows,
            text: Texts \cup {None}, default: BOOLEAN,
            given: SUBSET {"text", "default"}, marked: SUBSET RowId,
            held: SUBSET RowId]

Idle == [pc |-> "idle", row |-> 0, text |-> None, default |-> FALSE,
         given |-> {}, marked |-> {}, held |-> {}]

Init ==
    /\ addr = [r \in RowId |-> NoRow]
    /\ created = 0
    /\ req = [p \in Procs |-> Idle]

----------------------------------------------------------------------------
(* Queries *)

Live == {r \in Rows : ~addr[r].deleted}
Defaults == {r \in Live : addr[r].default}

LockedByOther(p, r) == \E q \in Procs \ {p} : r \in req[q].held

Finish(p) == req' = [req EXCEPT ![p] = Idle]

----------------------------------------------------------------------------
(* CreateAddress *)

\* Mutant: off by one.
RoomForOneMore == Cardinality(Live) <= MaxAddresses

\* CountActiveAddresses, outside the transaction.
Room == Cardinality(Live) < MaxAddresses

CreateCheck(p, text, default) ==
    /\ req[p].pc = "idle"
    /\ Room
    /\ created + Cardinality({q \in Procs : req[q].pc # "idle" /\ req[q].row = 0}) < MaxRows
    /\ req' = [req EXCEPT ![p] =
                 [pc |-> IF default THEN "unset" ELSE "write", row |-> 0, text |-> text,
                  default |-> default, given |-> {"text", "default"}, marked |-> {},
                  held |-> {}]]
    /\ UNCHANGED <<addr, created>>

\* 422, and nothing changes.
CreateRefused(p) ==
    /\ req[p].pc = "idle"
    /\ ~Room
    /\ UNCHANGED vars

----------------------------------------------------------------------------
(* UpdateAddress *)

\* Mutant: fields left out are written as they came.
MergeNothing(given, old) == given

Merge(given, old) == IF given = None THEN old ELSE given

\* Mutant: the new default is written next to the old one.
NeedsUnsetNever(default, current) == FALSE

\* Only an address that becomes the default clears the others first.
NeedsUnset(default, current) == default /\ ~current.default

\* FindAddressByIDAndUser and the merge of the fields given (non-nil) over it.
UpdateRead(p, r, text, default) ==
    LET d == IF default = "keep" THEN addr[r].default ELSE default = "yes" IN
    /\ req[p].pc = "idle"
    /\ r \in Live
    /\ req' = [req EXCEPT ![p] =
                 [pc |-> IF NeedsUnset(d, addr[r]) THEN "unset" ELSE "write",
                  row |-> r, text |-> Merge(text, addr[r].text), default |-> d,
                  given |-> {f \in {"text", "default"} :
                               IF f = "text" THEN text # None ELSE default # "keep"},
                  marked |-> {}, held |-> {}]]
    /\ UNCHANGED <<addr, created>>

----------------------------------------------------------------------------
(* The transactions *)

\* Once it has locked its last row, UnsetDefaultAddress is over.
AfterLocking(rows) == IF rows = {} THEN "write" ELSE "clear"

\* UnsetDefaultAddress starts: its snapshot.
UnsetDefaults(p) ==
    /\ req[p].pc = "unset"
    /\ req' = [req EXCEPT ![p].pc = AfterLocking(Defaults), ![p].marked = Defaults]
    /\ UNCHANGED <<addr, created>>

\* One of these rows is free: it is kept if it still matches.
LockDefault(p, r) ==
    /\ r \in req[p].marked
    /\ ~LockedByOther(p, r)
    /\ req' = [req EXCEPT ![p].pc = AfterLocking(req[p].marked \ {r}),
                          ![p].marked = @ \ {r},
                          ![p].held = @ \cup ({r} \cap Defaults)]
    /\ UNCHANGED <<addr, created>>

Cleared(p) == [r \in RowId |-> IF r \in req[p].held
                                 THEN [addr[r] EXCEPT !.default = FALSE] ELSE addr[r]]
Written(p) == [text |-> req[p].text, default |-> req[p].default, deleted |-> FALSE]

\* INSERT, audit row and COMMIT.
CommitCreate(p) ==
    /\ req[p].pc = "write" /\ req[p].row = 0
    /\ created < MaxRows
    /\ created' = created + 1
    /\ addr' = [Cleared(p) EXCEPT ![created + 1] = Written(p)]
    /\ Finish(p)

\* Mutant: UPDATE without is_deleted = FALSE.
CommitUpdateAny(p) ==
    LET r == req[p].row IN
    /\ req[p].pc = "write" /\ r # 0
    /\ ~LockedByOther(p, r)
    /\ addr' = [Cleared(p) EXCEPT ![r] = Written(p)]
    /\ Finish(p)
    /\ UNCHANGED created

\* Mutant: returns on a row that is gone with the transaction still open.
CommitUpdateLeftOpen(p) ==
    LET r == req[p].row IN
    /\ req[p].pc = "write" /\ r # 0
    /\ ~LockedByOther(p, r) /\ ~addr[r].deleted
    /\ addr' = [Cleared(p) EXCEPT ![r] = Written(p)]
    /\ Finish(p)
    /\ UNCHANGED created

\* UPDATE of every column, audit row and COMMIT; a row deleted meanwhile makes
\* it a 404 and undoes the rest.
CommitUpdate(p) ==
    LET r == req[p].row IN
    /\ req[p].pc = "write" /\ r # 0
    /\ ~LockedByOther(p, r)
    /\ addr' = IF addr[r].deleted THEN addr ELSE [Cleared(p) EXCEPT ![r] = Written(p)]
    /\ Finish(p)
    /\ UNCHANGED created

\* DeleteAddress: SoftDeleteAddress, audit row and COMMIT.
Delete(p, r) ==
    /\ req[p].pc = "idle"
    /\ r \in Live
    /\ Cardinality(Rows \ Live) < MaxDeleted
    /\ ~LockedByOther(p, r)
    /\ addr' = [addr EXCEPT ![r] = [@ EXCEPT !.deleted = TRUE, !.default = FALSE]]
    /\ UNCHANGED <<created, req>>

\* UpdateAddress or DeleteAddress of an address that is not there: 404.
NotFound(p, r) ==
    /\ req[p].pc = "idle"
    /\ r \notin Live
    /\ UNCHANGED vars

\* A statement fails or the client is gone: the transaction is rolled back.
Abandon(p) ==
    /\ MayFail
    /\ req[p].pc # "idle"
    /\ Finish(p)
    /\ UNCHANGED <<addr, created>>

----------------------------------------------------------------------------
(* PostgreSQL's deadlock detection *)

\* The rows p may have to wait for.
Wanted(p) == req[p].marked \cup IF req[p].pc = "write" THEN {req[p].row} ELSE {}
Waits(p, q) == p # q /\ Wanted(p) \cap req[q].held # {}

\* p is in a circle of transactions that wait: whatever set is closed under
\* Waits and holds those p waits for, holds p.
InCycle(p) ==
    \A S \in SUBSET Procs :
        (\A a \in S \cup {p}, b \in Procs : Waits(a, b) => b \in S) => p \in S

\* One transaction of the circle is rolled back, and its request answered 500.
DeadlockVictim(p) ==
    /\ InCycle(p)
    /\ Finish(p)
    /\ UNCHANGED <<addr, created>>

----------------------------------------------------------------------------

Step(p) ==
    \/ UnsetDefaults(p)
    \/ \E r \in Rows : LockDefault(p, r)
    \/ CommitCreate(p) \/ CommitUpdate(p)
    \/ DeadlockVictim(p)

Next ==
    \E p \in Procs :
        \/ \E text \in Texts, default \in BOOLEAN : CreateCheck(p, text, default)
        \/ CreateRefused(p)
        \/ \E r \in Rows, e \in Edits : UpdateRead(p, r, e[1], e[2])
        \/ \E r \in Rows : Delete(p, r)
        \/ \E r \in RowId : NotFound(p, r)
        \/ Step(p)
        \/ Abandon(p)

Spec == Init /\ [][Next]_vars

\* Statements are answered, PostgreSQL queues those that wait for a row and
\* breaks a circle of them.
FairSpec == Spec /\ \A p \in Procs : SF_vars(Step(p))

----------------------------------------------------------------------------
(* Properties *)

\* The variables keep their types, and every row has the text of some request:
\* an update never writes a field it was not given.
TypeOK ==
    /\ addr \in [RowId -> Row]
    /\ \A r \in Rows : addr[r].text \in Texts
    /\ created \in 0 .. MaxRows
    /\ req \in [Procs -> Request]

\* The count is taken before the transaction, so overlapping creations overshoot
\* the limit, by no more than the requests besides the one that reaches it.
AddressesBounded == Cardinality(Live) <= MaxAddresses - 1 + Cardinality(Procs)

\* Transactions that clear the old default do not see each other's new one, an
\* update that read its address as the default clears nothing, and one whose row
\* is not the default when UnsetDefaultAddress gets to it may still make it so.
\* One default is certain only while requests come one at a time; two that keep
\* overlapping can leave three, and no more.  (Of three, one can take the default
\* from each row and another give it back while the third passes, so that it can
\* leave one more than there were, again and again.)
DefaultsBounded ==
    /\ Cardinality(Procs) = 1 => Cardinality(Defaults) <= 1
    /\ Cardinality(Procs) = 2 => Cardinality(Defaults) <= 3

\* A deleted address is gone for good: no update that had read it before brings
\* it back, changes it or makes it the default.
DeletedStaysDeleted ==
    [][\A r \in RowId : addr[r].deleted => addr'[r] = addr[r]]_vars

\* "Merge: apply non-nil updates over current values" (business/profile.go:384): a field
\* the caller left out keeps its value.
LeftOutFieldsKept ==
    [][\A p \in Procs :
         LET r == req[p].row IN
         req[p].pc = "write" /\ req'[p].pc = "idle" /\ r # 0 /\ addr'[r] # addr[r] =>
            /\ "text" \notin req[p].given => addr'[r].text = addr[r].text
            /\ "default" \notin req[p].given => addr'[r].default = addr[r].default]_vars

\* Requests take the same rows in different orders.  However they wait for each
\* other's rows, and whatever fails, every request is answered in the end: each
\* way out of a transaction lets go of its rows.
RequestsEnd == \A p \in Procs : req[p].pc # "idle" ~> req[p].pc = "idle"

=============================================================================
