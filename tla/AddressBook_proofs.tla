------------------------- MODULE AddressBook_proofs -------------------------
(* Proofs about AddressBook, for any number of requests, any limit and any edits. *)
EXTENDS AddressBook, FiniteSetTheorems, TLAPS

\* A request works on a row that is there, writes a text, and has locked
\* addresses only that are not deleted.
RequestsFit ==
    \A p \in Procs :
        /\ req[p].held \subseteq Live
        /\ req[p].pc = "idle" => req[p].held = {} /\ req[p].marked = {}
        /\ req[p].pc # "idle" => req[p].text \in Texts /\ (req[p].row # 0 => req[p].row \in Rows)

\* What has not been inserted is not deleted.
NotThereYet == \A r \in RowId \ Rows : ~addr[r].deleted

Core == TypeOK /\ RequestsFit /\ NotThereYet

\* Requests past CountActiveAddresses.
Creating == {p \in Procs : req[p].pc # "idle" /\ req[p].row = 0}

\* Addresses there are and addresses about to be created.
RoomBudget ==
    Cardinality(Live) + Cardinality(Creating) <= MaxAddresses - 1 + Cardinality(Procs)

----------------------------------------------------------------------------

LEMMA InitCore == Init => Core
<1> SUFFICES ASSUME Init
             PROVE  Core
  OBVIOUS
<1>1. NoRow \in Row /\ ~NoRow.deleted
  BY DEF NoRow, Row
<1>2. Idle \in Request /\ Idle.pc = "idle" /\ Idle.held = {} /\ Idle.marked = {}
  BY AddressAssumption DEF Idle, Request
<1>3. Rows = {} /\ created \in 0 .. MaxRows
  BY AddressAssumption DEF Init, Rows
<1>4. TypeOK
  BY <1>1, <1>2, <1>3 DEF Init, TypeOK
<1>5. RequestsFit /\ NotThereYet
  BY <1>1, <1>2 DEF Init, RequestsFit, NotThereYet
<1>6. QED
  BY <1>4, <1>5 DEF Core

LEMMA RowsThere ==
    ASSUME TypeOK
    PROVE  /\ Rows \subseteq RowId /\ created \in Nat /\ 0 \notin Rows
           /\ created < MaxRows => created + 1 \in RowId \ Rows
  BY AddressAssumption DEF TypeOK, Rows, RowId

\* A request that ends lets go of its rows.
LEMMA Ends ==
    ASSUME TypeOK, NEW p \in Procs, Finish(p)
    PROVE  /\ req' \in [Procs -> Request]
           /\ req'[p].pc = "idle" /\ req'[p].held = {} /\ req'[p].marked = {}
           /\ \A q \in Procs \ {p} : req'[q] = req[q]
<1>1. Idle \in Request /\ Idle.pc = "idle" /\ Idle.held = {} /\ Idle.marked = {}
  BY AddressAssumption DEF Idle, Request
<1>2. QED
  BY <1>1 DEF TypeOK, Finish

\* One request takes a new value.
LEMMA OneMoves ==
    ASSUME req \in [Procs -> Request], NEW p \in Procs, NEW new \in Request,
           req' = [req EXCEPT ![p] = new]
    PROVE  /\ req' \in [Procs -> Request] /\ req'[p] = new
           /\ \A q \in Procs \ {p} : req'[q] = req[q]
  OBVIOUS

\* Where the rows stay as they are, one request may move.
LEMMA RequestMoves ==
    ASSUME Core, addr' = addr, created' = created, req' \in [Procs -> Request],
           NEW p \in Procs, \A q \in Procs \ {p} : req'[q] = req[q],
           req'[p].held \subseteq Live,
           req'[p].pc = "idle" => req'[p].held = {} /\ req'[p].marked = {},
           req'[p].pc # "idle" => req'[p].text \in Texts,
           req'[p].pc # "idle" => (req'[p].row # 0 => req'[p].row \in Rows)
    PROVE  Core'
<1>1. Rows' = Rows /\ Live' = Live
  BY DEF Rows, Live
<1>2. TypeOK' /\ NotThereYet'
  BY <1>1 DEF Core, TypeOK, NotThereYet
<1>3. RequestsFit'
  BY <1>1 DEF Core, RequestsFit
<1>4. QED
  BY <1>2, <1>3 DEF Core

LEMMA EndsCore ==
    ASSUME Core, NEW p \in Procs, Finish(p), addr' = addr, created' = created
    PROVE  Core'
  BY Ends, RequestMoves DEF Core

LEMMA CreateCheckCore ==
    ASSUME Core, NEW p \in Procs, NEW text \in Texts, NEW default \in BOOLEAN,
           CreateCheck(p, text, default)
    PROVE  Core'
<1> DEFINE new == [pc |-> IF default THEN "unset" ELSE "write", row |-> 0, text |-> text,
                   default |-> default, given |-> {"text", "default"}, marked |-> {},
                   held |-> {}]
<1>1. new \in Request /\ new.pc # "idle" /\ new.held = {} /\ new.text = text /\ new.row = 0
  BY AddressAssumption DEF Request
<1>2. req' = [req EXCEPT ![p] = new] /\ addr' = addr /\ created' = created
  BY DEF CreateCheck
<1> HIDE DEF new
<1>3. /\ req' \in [Procs -> Request] /\ req'[p] = new
      /\ \A q \in Procs \ {p} : req'[q] = req[q]
  BY <1>1, <1>2 DEF Core, TypeOK
<1>4. QED
  BY <1>1, <1>2, <1>3, RequestMoves

LEMMA UpdateReadCore ==
    ASSUME Core, NEW p \in Procs, NEW r \in Rows, NEW e \in Edits, UpdateRead(p, r, e[1], e[2])
    PROVE  Core'
<1> DEFINE d == IF e[2] = "keep" THEN addr[r].default ELSE e[2] = "yes"
           new == [pc |-> IF NeedsUnset(d, addr[r]) THEN "unset" ELSE "write",
                   row |-> r, text |-> Merge(e[1], addr[r].text), default |-> d,
                   given |-> {f \in {"text", "default"} :
                                IF f = "text" THEN e[1] # None ELSE e[2] # "keep"},
                   marked |-> {}, held |-> {}]
<1>1. e[1] \in Texts \cup {None}
  BY AddressAssumption
<1>2. r \in RowId /\ addr[r] \in Row /\ addr[r].text \in Texts
  BY RowsThere DEF Core, TypeOK
<1>3. Merge(e[1], addr[r].text) \in Texts
  BY <1>1, <1>2, AddressAssumption DEF Merge
<1>4. d \in BOOLEAN
  BY <1>2 DEF Row
<1> HIDE DEF d
<1>5. r \in 0 .. MaxRows /\ r # 0
  BY <1>2, AddressAssumption DEF RowId
<1>6. new \in Request /\ new.pc # "idle" /\ new.held = {} /\ new.text \in Texts /\ new.row = r
  BY <1>3, <1>4, <1>5 DEF Request
<1>7. req' = [req EXCEPT ![p] = new] /\ addr' = addr /\ created' = created
  BY DEF UpdateRead, d
<1> HIDE DEF new
<1>8. /\ req' \in [Procs -> Request] /\ req'[p] = new
      /\ \A q \in Procs \ {p} : req'[q] = req[q]
  BY <1>6, <1>7 DEF Core, TypeOK
<1>9. QED
  BY <1>6, <1>7, <1>8, RequestMoves

LEMMA LockingCore ==
    ASSUME Core, NEW p \in Procs, NEW pc \in {"write", "clear"},
           NEW marked, NEW held, marked \subseteq RowId, held \subseteq Live,
           req[p].pc # "idle", addr' = addr, created' = created,
           req' = [req EXCEPT ![p].pc = pc, ![p].marked = marked, ![p].held = held]
    PROVE  Core'
<1>1. req[p] \in Request /\ held \in SUBSET RowId
  BY RowsThere DEF Core, TypeOK, Live
<1> DEFINE new == [req[p] EXCEPT !.pc = pc, !.marked = marked, !.held = held]
<1>2. /\ new \in Request /\ new.pc = pc /\ new.held = held
      /\ new.text = req[p].text /\ new.row = req[p].row
  BY <1>1 DEF Request
<1>3. req' = [req EXCEPT ![p] = new]
  OBVIOUS
<1> HIDE DEF new
<1>4. req \in [Procs -> Request]
  BY DEF Core, TypeOK
<1>5. /\ req' \in [Procs -> Request] /\ req'[p] = new
      /\ \A q \in Procs \ {p} : req'[q] = req[q]
  BY ONLY <1>2, <1>3, <1>4, OneMoves, p \in Procs
<1>6. req[p].text \in Texts /\ (req[p].row # 0 => req[p].row \in Rows)
  BY DEF Core, RequestsFit
<1>7. QED
  BY <1>1, <1>2, <1>5, <1>6, RequestMoves

LEMMA UnsetDefaultsCore ==
    ASSUME Core, NEW p \in Procs, UnsetDefaults(p)
    PROVE  Core'
<1>1. req[p].held \subseteq Live /\ Defaults \subseteq RowId
  BY RowsThere DEF Core, RequestsFit, Defaults, Live
<1>2. PICK held, marked, pc :
          held = req[p].held /\ marked = Defaults /\ pc = AfterLocking(Defaults)
  OBVIOUS
<1>3. pc \in {"write", "clear"} /\ held \subseteq Live /\ marked \subseteq RowId
  BY <1>1, <1>2 DEF AfterLocking
<1>4. req' = [req EXCEPT ![p].pc = pc, ![p].marked = marked, ![p].held = held]
  BY <1>2 DEF UnsetDefaults, Core, TypeOK, Request
<1>5. req[p].pc # "idle" /\ addr' = addr /\ created' = created
  BY DEF UnsetDefaults
<1>6. QED
  BY <1>3, <1>4, <1>5, LockingCore

LEMMA LockDefaultCore ==
    ASSUME Core, NEW p \in Procs, NEW r \in Rows, LockDefault(p, r)
    PROVE  Core'
<1>1. /\ req[p].held \cup ({r} \cap Defaults) \subseteq Live
      /\ req[p].marked \ {r} \subseteq RowId
      /\ req[p].pc # "idle"
  BY DEF Core, TypeOK, Request, RequestsFit, Defaults, LockDefault
<1>2. PICK held, marked, pc :
          /\ held = req[p].held \cup ({r} \cap Defaults)
          /\ marked = req[p].marked \ {r} /\ pc = AfterLocking(req[p].marked \ {r})
  OBVIOUS
<1>3. pc \in {"write", "clear"} /\ held \subseteq Live /\ marked \subseteq RowId
  BY <1>1, <1>2 DEF AfterLocking
<1>4. req' = [req EXCEPT ![p].pc = pc, ![p].marked = marked, ![p].held = held]
  BY <1>2 DEF LockDefault
<1>5. addr' = addr /\ created' = created
  BY DEF LockDefault
<1>6. QED
  BY <1>1, <1>3, <1>4, <1>5, LockingCore

\* What a commit leaves of the other rows: locked ones lose the default, and
\* nothing else changes.
LEMMA ClearedRows ==
    ASSUME Core, NEW p \in Procs
    PROVE  /\ Cleared(p) \in [RowId -> Row]
           /\ \A r \in RowId : /\ Cleared(p)[r].text = addr[r].text
                               /\ Cleared(p)[r].deleted = addr[r].deleted
                               /\ addr[r].deleted => Cleared(p)[r] = addr[r]
<1>1. req[p].held \subseteq Live
  BY DEF Core, RequestsFit
<1>2. \A r \in RowId : [addr[r] EXCEPT !.default = FALSE] \in Row
  BY DEF Core, TypeOK, Row
<1>3. Cleared(p) \in [RowId -> Row]
  BY <1>2 DEF Core, TypeOK, Cleared
<1>4. ASSUME NEW r \in RowId
      PROVE  /\ Cleared(p)[r].text = addr[r].text
             /\ Cleared(p)[r].deleted = addr[r].deleted
             /\ addr[r].deleted => Cleared(p)[r] = addr[r]
  <2>1. CASE r \in req[p].held
    <3>1. ~addr[r].deleted
      BY <1>1, <2>1 DEF Live
    <3>2. QED
      BY <2>1, <3>1 DEF Cleared, Core, TypeOK, Row
  <2>2. CASE r \notin req[p].held
    BY <2>2 DEF Cleared
  <2>3. QED
    BY <2>1, <2>2
<1>5. QED
  BY <1>3, <1>4

\* One row is written, the others at most cleared, and the request ends.
LEMMA RowWritten ==
    ASSUME Core, NEW p \in Procs, NEW n \in RowId, req[p].pc # "idle", Finish(p),
           addr' = [Cleared(p) EXCEPT ![n] = Written(p)],
           ~addr[n].deleted,
           \/ n \in Rows /\ created' = created
           \/ n = created + 1 /\ created < MaxRows /\ created' = created + 1
    PROVE  /\ Core'
           /\ Live' = Live \cup {n}
           /\ \A r \in RowId : addr[r].deleted => addr'[r] = addr[r]
<1>1. Written(p) \in Row /\ Written(p).text \in Texts /\ ~Written(p).deleted
  BY DEF Core, TypeOK, Request, RequestsFit, Written, Row
<1>2. /\ addr' \in [RowId -> Row] /\ addr'[n] = Written(p)
      /\ \A r \in RowId \ {n} : addr'[r] = Cleared(p)[r]
  BY <1>1, ClearedRows
<1>3. /\ created' \in 0 .. MaxRows /\ Rows' = Rows \cup {n} /\ Rows \subseteq RowId
  BY RowsThere, AddressAssumption DEF Core, TypeOK, Rows
<1>4. \A r \in Rows' : addr'[r].text \in Texts
  BY <1>1, <1>2, <1>3, ClearedRows DEF Core, TypeOK
<1>5. TypeOK'
  BY <1>2, <1>3, <1>4, Ends DEF Core, TypeOK
<1>6. \A r \in RowId \ {n} : addr'[r].deleted = addr[r].deleted
  BY <1>2, ClearedRows
<1>7. Live' = Live \cup {n}
  <2>1. \A r \in Rows' : ~addr'[r].deleted <=> r \in Live \cup {n}
    BY <1>1, <1>2, <1>3, <1>6 DEF Live
  <2>2. Live \cup {n} \subseteq Rows'
    BY <1>3 DEF Live
  <2>3. QED
    BY <2>1, <2>2 DEF Live
<1>8. RequestsFit'
  BY <1>3, <1>7, Ends DEF Core, RequestsFit
<1>9. NotThereYet'
  BY <1>3, <1>6 DEF Core, NotThereYet
<1>10. \A r \in RowId : addr[r].deleted => addr'[r] = addr[r]
  BY <1>2, ClearedRows
<1>11. QED
  BY <1>5, <1>7, <1>8, <1>9, <1>10 DEF Core

LEMMA CommitCreateCore ==
    ASSUME Core, NEW p \in Procs, CommitCreate(p)
    PROVE  /\ Core'
           /\ Live' = Live \cup {created + 1}
           /\ \A r \in RowId : addr[r].deleted => addr'[r] = addr[r]
<1>1. created + 1 \in RowId \ Rows
  BY RowsThere DEF Core, CommitCreate
<1>2. PICK n \in RowId : n = created + 1 /\ ~addr[n].deleted
  BY <1>1 DEF Core, NotThereYet
<1>3. QED
  BY <1>2, RowWritten DEF CommitCreate

LEMMA CommitUpdateCore ==
    ASSUME Core, NEW p \in Procs, CommitUpdate(p)
    PROVE  /\ Core'
           /\ Live' = Live
           /\ \A r \in RowId : addr[r].deleted => addr'[r] = addr[r]
<1>1. PICK n \in Rows : n = req[p].row
  BY DEF CommitUpdate, Core, RequestsFit
<1>2. n \in RowId
  BY RowsThere DEF Core
<1>3. CASE addr[n].deleted
  <2>1. addr' = addr /\ created' = created /\ Finish(p)
    BY <1>1, <1>3 DEF CommitUpdate
  <2>2. QED
    BY <2>1, EndsCore DEF Live, Rows
<1>4. CASE ~addr[n].deleted
  <2>1. n \in Live
    BY <1>4 DEF Live
  <2>2. QED
    BY <1>1, <1>2, <1>4, <2>1, RowWritten DEF CommitUpdate
<1>5. QED
  BY <1>3, <1>4

LEMMA DeleteCore ==
    ASSUME Core, NEW p \in Procs, NEW n \in Rows, Delete(p, n)
    PROVE  /\ Core'
           /\ Live' = Live \ {n}
           /\ \A r \in RowId : addr[r].deleted => addr'[r] = addr[r]
<1>1. n \in RowId /\ ~addr[n].deleted /\ Rows' = Rows /\ Rows \subseteq RowId
  BY RowsThere DEF Delete, Live, Core, Rows
<1>2. /\ addr' \in [RowId -> Row] /\ addr'[n].deleted /\ addr'[n].text = addr[n].text
      /\ \A r \in RowId \ {n} : addr'[r] = addr[r]
  BY <1>1 DEF Delete, Core, TypeOK, Row
<1>3. TypeOK'
  BY <1>1, <1>2 DEF Delete, Core, TypeOK
<1>4. Live' = Live \ {n}
  BY <1>1, <1>2 DEF Live
<1>5. \A q \in Procs : n \notin req[q].held
  BY DEF Delete, LockedByOther, Core, RequestsFit
<1>6. RequestsFit' /\ NotThereYet'
  BY <1>1, <1>2, <1>4, <1>5 DEF Delete, Core, RequestsFit, NotThereYet
<1>7. \A r \in RowId : addr[r].deleted => addr'[r] = addr[r]
  BY <1>1, <1>2
<1>8. QED
  BY <1>3, <1>4, <1>6, <1>7 DEF Core

\* Every step keeps Core and the deleted rows.
LEMMA CoreStep ==
    Core /\ [Next]_vars => Core' /\ \A r \in RowId : addr[r].deleted => addr'[r] = addr[r]
<1> SUFFICES ASSUME Core, [Next]_vars
             PROVE  Core' /\ \A r \in RowId : addr[r].deleted => addr'[r] = addr[r]
  OBVIOUS
<1>1. ASSUME NEW p \in Procs, NEW text \in Texts, NEW default \in BOOLEAN,
             CreateCheck(p, text, default)
      PROVE  Core' /\ addr' = addr
  BY <1>1, CreateCheckCore DEF CreateCheck
<1>2. ASSUME NEW p \in Procs, NEW r \in Rows, NEW e \in Edits, UpdateRead(p, r, e[1], e[2])
      PROVE  Core' /\ addr' = addr
  BY <1>2, UpdateReadCore DEF UpdateRead
<1>3. ASSUME NEW p \in Procs, UnsetDefaults(p)
      PROVE  Core' /\ addr' = addr
  BY <1>3, UnsetDefaultsCore DEF UnsetDefaults
<1>4. ASSUME NEW p \in Procs, NEW r \in Rows, LockDefault(p, r)
      PROVE  Core' /\ addr' = addr
  BY <1>4, LockDefaultCore DEF LockDefault
<1>5. ASSUME NEW p \in Procs, DeadlockVictim(p) \/ Abandon(p)
      PROVE  Core' /\ addr' = addr
  BY <1>5, EndsCore DEF DeadlockVictim, Abandon
<1>6. ASSUME UNCHANGED vars
      PROVE  Core' /\ addr' = addr
  BY <1>6 DEF vars, Core, TypeOK, RequestsFit, NotThereYet, Live, Rows
<1>7. QED
  BY <1>1, <1>2, <1>3, <1>4, <1>5, <1>6, CommitCreateCore, CommitUpdateCore, DeleteCore
  DEF Next, Step, CreateRefused, NotFound

\* Rows, requests and the rows they have locked fit together in every state.
THEOREM CoreInvariant == Spec => []Core
  BY InitCore, CoreStep, PTL DEF Spec

\* Every variable keeps its type, and every row has the text of some request.
THEOREM TypeCorrect == Spec => []TypeOK
<1>1. Core => TypeOK
  BY DEF Core
<1>2. QED
  BY <1>1, CoreInvariant, PTL

\* No update that had read an address before it was deleted brings it back,
\* changes it or makes it the default, nor does the clearing of old defaults.
THEOREM DeletionFinal == Spec => DeletedStaysDeleted
<1>1. Core /\ [Next]_vars => [\A r \in RowId : addr[r].deleted => addr'[r] = addr[r]]_vars
  BY CoreStep
<1>2. QED
  BY <1>1, CoreInvariant, PTL DEF Spec, DeletedStaysDeleted

----------------------------------------------------------------------------
(* The limit *)

LEMMA CountsFinite ==
    ASSUME TypeOK
    PROVE  /\ IsFiniteSet(Live) /\ Cardinality(Live) \in Nat
           /\ IsFiniteSet(Creating) /\ Cardinality(Creating) \in Nat
           /\ Cardinality(Procs) \in Nat /\ Cardinality(Creating) <= Cardinality(Procs)
<1>1. IsFiniteSet(Rows)
  BY FS_Interval, AddressAssumption DEF TypeOK, Rows
<1>2. Live \subseteq Rows /\ Creating \subseteq Procs
  BY DEF Live, Creating
<1>3. QED
  BY <1>1, <1>2, AddressAssumption, FS_Subset, FS_CardinalityType

\* Where no address is added and no request joins, the budget is kept.
LEMMA BudgetKept ==
    ASSUME TypeOK, RoomBudget, Live' \subseteq Live, Creating' \subseteq Creating
    PROVE  RoomBudget'
<1>1. /\ Cardinality(Live') <= Cardinality(Live) /\ Cardinality(Live') \in Nat
      /\ Cardinality(Creating') <= Cardinality(Creating) /\ Cardinality(Creating') \in Nat
  BY CountsFinite, FS_Subset, FS_CardinalityType
<1>2. QED
  BY <1>1, CountsFinite, AddressAssumption DEF RoomBudget

LEMMA BudgetStep == Core /\ Core' /\ RoomBudget /\ [Next]_vars => RoomBudget'
<1> SUFFICES ASSUME Core, Core', RoomBudget, [Next]_vars
             PROVE  RoomBudget'
  OBVIOUS
<1>1. TypeOK /\ TypeOK'
  BY DEF Core
<1>2. ASSUME NEW p \in Procs, NEW text, NEW default, CreateCheck(p, text, default)
      PROVE  RoomBudget'
  <2>1. Live' = Live /\ Cardinality(Live) < MaxAddresses
    BY <1>2 DEF CreateCheck, Live, Rows, Room
  <2>2. Cardinality(Creating') \in Nat /\ Cardinality(Creating') <= Cardinality(Procs)
    <3>1. Creating' \subseteq Procs
      BY DEF Creating
    <3>2. QED
      BY <3>1, AddressAssumption, FS_Subset, FS_CardinalityType
  <2>3. QED
    BY <1>1, <2>1, <2>2, CountsFinite, AddressAssumption DEF RoomBudget
<1>3. ASSUME NEW p \in Procs, CommitCreate(p)
      PROVE  RoomBudget'
  <2>1. Creating' \subseteq Creating \ {p} /\ p \in Creating
    BY <1>1, <1>3, Ends DEF Creating, CommitCreate
  <2>2. /\ Cardinality(Creating \ {p}) = Cardinality(Creating) - 1
        /\ IsFiniteSet(Creating \ {p})
    BY <1>1, <2>1, CountsFinite, FS_RemoveElement
  <2>3. Cardinality(Creating') <= Cardinality(Creating) - 1 /\ Cardinality(Creating') \in Nat
    BY <2>1, <2>2, FS_Subset, FS_CardinalityType
  <2>4. Live' = Live \cup {created + 1}
    BY <1>3, CommitCreateCore
  <2>5. Cardinality(Live') <= Cardinality(Live) + 1 /\ Cardinality(Live') \in Nat
    <3>1. PICK n : n = created + 1
      OBVIOUS
    <3>2. /\ IsFiniteSet(Live \cup {n})
          /\ Cardinality(Live \cup {n}) <= Cardinality(Live) + 1
      <4>1. IsFiniteSet(Live) /\ Cardinality(Live) \in Nat
        BY <1>1, CountsFinite
      <4>2. /\ IsFiniteSet(Live \cup {n})
            /\ Cardinality(Live \cup {n})
                 = IF n \in Live THEN Cardinality(Live) ELSE Cardinality(Live) + 1
        BY <4>1, FS_AddElement
      <4>3. QED
        BY <4>1, <4>2
    <3>3. Live' = Live \cup {n}
      BY <2>4, <3>1
    <3>4. QED
      BY <3>2, <3>3, FS_CardinalityType
  <2>6. QED
    BY <1>1, <2>3, <2>5, CountsFinite, AddressAssumption DEF RoomBudget
<1>4. ASSUME NEW p \in Procs, NEW r \in Rows, NEW e, UpdateRead(p, r, e[1], e[2])
      PROVE  RoomBudget'
  <2>1. Live' = Live
    BY <1>4 DEF UpdateRead, Live, Rows
  <2>2. req'[p].row # 0 /\ \A q \in Procs \ {p} : req'[q] = req[q]
    BY <1>1, <1>4, RowsThere DEF UpdateRead, TypeOK
  <2>3. Creating' \subseteq Creating
    BY <2>2 DEF Creating
  <2>4. QED
    BY <1>1, <2>1, <2>3, BudgetKept
<1>5. ASSUME NEW p \in Procs, UnsetDefaults(p) \/ \E r \in Rows : LockDefault(p, r)
      PROVE  RoomBudget'
  <2>1. Live' = Live
    BY <1>5 DEF UnsetDefaults, LockDefault, Live, Rows
  <2>2. req[p].pc # "idle"
    BY <1>5 DEF UnsetDefaults, LockDefault, Core, RequestsFit
  <2>3. req'[p].row = req[p].row /\ \A q \in Procs \ {p} : req'[q] = req[q]
    <3>1. CASE UnsetDefaults(p)
      BY <1>1, <3>1 DEF UnsetDefaults, TypeOK, Request
    <3>2. ASSUME NEW r \in Rows, LockDefault(p, r)
          PROVE  req'[p].row = req[p].row /\ \A q \in Procs \ {p} : req'[q] = req[q]
      BY <1>1, <3>2 DEF LockDefault, TypeOK, Request
    <3>3. QED
      BY <1>5, <3>1, <3>2
  <2>4. Creating' \subseteq Creating
    BY <2>2, <2>3 DEF Creating
  <2>5. QED
    BY <1>1, <2>1, <2>4, BudgetKept
<1>6. ASSUME NEW p \in Procs, Finish(p), Live' = Live
      PROVE  RoomBudget'
  <2>1. Creating' \subseteq Creating
    BY <1>1, <1>6, Ends DEF Creating
  <2>2. QED
    BY <1>1, <1>6, <2>1, BudgetKept
<1>7. ASSUME NEW p \in Procs, CommitUpdate(p)
      PROVE  RoomBudget'
  BY <1>6, <1>7, CommitUpdateCore DEF CommitUpdate
<1>8. ASSUME NEW p \in Procs, DeadlockVictim(p) \/ Abandon(p)
      PROVE  RoomBudget'
  BY <1>6, <1>8 DEF DeadlockVictim, Abandon, Live, Rows
<1>9. ASSUME NEW p \in Procs, NEW r \in Rows, Delete(p, r)
      PROVE  RoomBudget'
  <2>1. Live' \subseteq Live
    BY <1>9, DeleteCore
  <2>2. Creating' = Creating
    BY <1>9 DEF Delete, Creating
  <2>3. QED
    BY <1>1, <2>1, <2>2, BudgetKept
<1>10. CASE UNCHANGED vars
  BY <1>10 DEF vars, RoomBudget, Live, Rows, Creating
<1>11. QED
  BY <1>2, <1>3, <1>4, <1>5, <1>7, <1>8, <1>9, <1>10
  DEF Next, Step, CreateRefused, NotFound

\* The count is taken before the transaction: overlapping creations overshoot the
\* limit by less than their number, for any limit and any number of requests.
THEOREM AddressesStayBounded == Spec => []AddressesBounded
<1>1. Init => RoomBudget
  <2>1. ASSUME Init
        PROVE  Live = {} /\ Creating = {} /\ TypeOK
    BY <2>1, InitCore, AddressAssumption DEF Init, Live, Rows, Creating, Idle, Core
  <2>2. QED
    BY <2>1, FS_EmptySet, CountsFinite, AddressAssumption DEF RoomBudget
<1>2. Core /\ RoomBudget => AddressesBounded
  BY CountsFinite, AddressAssumption DEF Core, RoomBudget, AddressesBounded
<1>3. QED
  BY <1>1, <1>2, BudgetStep, CoreInvariant, PTL DEF Spec

----------------------------------------------------------------------------
(* The defaults *)

\* The other request, if there is one.
Spare == Cardinality(Procs) - 1
TwoAtMost == Spare \in {0, 1}

\* p has cleared the defaults it saw, or is about to; if it has found none it
\* may as well not have looked, unless it is to insert one.
Clearing(p) ==
    \/ req[p].pc = "clear"
    \/ req[p].pc = "write" /\ req[p].default /\ (req[p].row = 0 \/ req[p].held # {})

\* p has read its row as the default, which it is no longer.
Loose(p) ==
    /\ req[p].pc = "write" /\ req[p].default /\ req[p].row # 0 /\ req[p].held = {}
    /\ req[p].row \notin Defaults

\* The defaults p will leave as they are.
Missed(p) == Defaults \ (req[p].marked \cup req[p].held)

LocksFit ==
    \A p \in Procs :
        /\ req[p].pc # "clear" => req[p].marked = {}
        /\ req[p].pc \in {"unset", "clear"} => req[p].default
        /\ req[p].pc = "unset" => req[p].held = {}
        /\ req[p].pc = "write" /\ ~req[p].default => req[p].held = {}

\* Room for one default more for each loose request.
LooseFit ==
    /\ Cardinality(Defaults) <= 2 * Spare + 1
    /\ \A p \in Procs : Loose(p) => Cardinality(Defaults) <= 2 * Spare
    /\ \A p, q \in Procs :
          p # q /\ Loose(p) /\ Loose(q) => Cardinality(Defaults) <= 2 * Spare - 1

MissedFew ==
    \A p \in Procs : Clearing(p) =>
        /\ Cardinality(Missed(p)) <= Spare
        /\ \A q \in Procs \ {p} : Loose(q) => Missed(p) = {}

\* Of two requests that clear, the later one saw all there was.
LastMissesNone ==
    \A p, q \in Procs :
        p # q /\ Clearing(p) /\ Clearing(q) => Missed(p) = {} \/ Missed(q) = {}

FewDefaults == LooseFit /\ MissedFew /\ LastMissesNone

LEMMA DefaultsThere ==
    ASSUME TypeOK
    PROVE  /\ IsFiniteSet(Defaults) /\ Cardinality(Defaults) \in Nat
           /\ Defaults \subseteq RowId
<1>1. Defaults \subseteq Live /\ Live \subseteq RowId
  BY RowsThere DEF Defaults, Live
<1>2. QED
  BY <1>1, CountsFinite, FS_Subset, FS_CardinalityType

\* Where requests come two at a time there is no third.
LEMMA NoThird ==
    ASSUME TwoAtMost, NEW p \in Procs, NEW q \in Procs, NEW x \in Procs, p # q, x # p
    PROVE  x = q /\ Spare = 1
<1>1. IsFiniteSet(Procs) /\ Cardinality(Procs) \in {1, 2}
  <2>1. IsFiniteSet(Procs) /\ Cardinality(Procs) \in Nat
    BY AddressAssumption, FS_CardinalityType
  <2>2. QED
    BY <2>1 DEF TwoAtMost, Spare
<1>2. IsFiniteSet({p}) /\ Cardinality({p}) = 1
  BY FS_Singleton
<1>3. IsFiniteSet({p} \cup {q}) /\ Cardinality({p} \cup {q}) = 2
  <2>1. q \notin {p}
    OBVIOUS
  <2>2. /\ IsFiniteSet({p} \cup {q})
        /\ Cardinality({p} \cup {q})
             = IF q \in {p} THEN Cardinality({p}) ELSE Cardinality({p}) + 1
    BY <1>2, FS_AddElement
  <2>3. QED
    BY <1>2, <2>1, <2>2
<1>4. Cardinality(Procs) = 2
  <2>1. Cardinality({p} \cup {q}) <= Cardinality(Procs)
    BY <1>1, FS_Subset
  <2>2. QED
    BY <1>1, <1>3, <2>1
<1>5. ASSUME x # q
      PROVE  FALSE
  <2>1. x \notin {p} \cup {q}
    BY <1>5
  <2>2. /\ IsFiniteSet(({p} \cup {q}) \cup {x})
        /\ Cardinality(({p} \cup {q}) \cup {x})
             = IF x \in {p} \cup {q} THEN Cardinality({p} \cup {q})
                                     ELSE Cardinality({p} \cup {q}) + 1
    BY <1>3, FS_AddElement
  <2>3. Cardinality(({p} \cup {q}) \cup {x}) <= Cardinality(Procs)
    BY <1>1, FS_Subset
  <2>4. QED
    BY <1>3, <1>4, <2>1, <2>2, <2>3
<1>6. QED
  BY <1>4, <1>5 DEF Spare

\* One default more at most.
LEMMA OneMore ==
    ASSUME NEW S, NEW T, NEW r, IsFiniteSet(S), T \subseteq S \cup {r}
    PROVE  /\ IsFiniteSet(T) /\ Cardinality(T) \in Nat /\ Cardinality(S) \in Nat
           /\ Cardinality(T) <= Cardinality(S) + 1
<1>1. Cardinality(S) \in Nat
  BY FS_CardinalityType
<1>2. /\ IsFiniteSet(S \cup {r})
      /\ Cardinality(S \cup {r}) = IF r \in S THEN Cardinality(S) ELSE Cardinality(S) + 1
  BY FS_AddElement
<1>3. /\ IsFiniteSet(T) /\ Cardinality(T) <= Cardinality(S \cup {r})
      /\ Cardinality(T) \in Nat
  BY <1>2, FS_Subset, FS_CardinalityType
<1>4. QED
  BY <1>1, <1>2, <1>3

\* A request that neither clears nor is loose afterwards takes one default away
\* at most, and adds none.
LEMMA TakesAway ==
    ASSUME TwoAtMost, TypeOK, FewDefaults, NEW p \in Procs,
           \A q \in Procs \ {p} : req'[q] = req[q],
           Defaults' \subseteq Defaults, NEW r, Defaults \ Defaults' \subseteq {r},
           ~Clearing(p)', ~Loose(p)'
    PROVE  FewDefaults'
<1>1. /\ IsFiniteSet(Defaults) /\ Cardinality(Defaults) \in Nat
      /\ Cardinality(Defaults') \in Nat /\ Cardinality(Defaults') <= Cardinality(Defaults)
      /\ Spare \in {0, 1}
  BY DefaultsThere, FS_Subset, FS_CardinalityType DEF TwoAtMost
<1>2. ASSUME NEW x \in Procs, Loose(x)'
      PROVE  Cardinality(Defaults') <= 2 * Spare
  <2>1. x # p /\ req'[x] = req[x]
    BY <1>2
  <2>2. CASE Loose(x)
    BY <1>1, <2>2 DEF FewDefaults, LooseFit
  <2>3. CASE ~Loose(x)
    <3>1. PICK d \in Defaults : d \notin Defaults'
      BY <1>2, <2>1, <2>3 DEF Loose
    <3>2. Defaults' \subseteq Defaults \ {d}
      BY <3>1
    <3>3. IsFiniteSet(Defaults \ {d}) /\ Cardinality(Defaults \ {d}) = Cardinality(Defaults) - 1
      BY <1>1, <3>1, FS_RemoveElement
    <3>4. Cardinality(Defaults') <= Cardinality(Defaults) - 1
      BY <3>2, <3>3, FS_Subset
    <3>5. QED
      BY <1>1, <3>4 DEF FewDefaults, LooseFit
  <2>4. QED
    BY <2>2, <2>3
<1>3. ASSUME NEW x \in Procs, NEW y \in Procs, x # y, x # p, y # p
      PROVE  FALSE
  BY <1>3, NoThird
<1>4. LooseFit'
  BY <1>1, <1>2, <1>3 DEF FewDefaults, LooseFit
<1>5. ASSUME NEW x \in Procs, Clearing(x)'
      PROVE  Cardinality(Missed(x)') <= Spare
  <2>1. x # p /\ req'[x] = req[x] /\ Clearing(x)
    BY <1>5 DEF Clearing
  <2>2. Missed(x)' \subseteq Missed(x) /\ Missed(x) \subseteq Defaults
    BY <2>1 DEF Missed
  <2>3. /\ Cardinality(Missed(x)') <= Cardinality(Missed(x))
        /\ Cardinality(Missed(x)') \in Nat /\ Cardinality(Missed(x)) \in Nat
    BY <1>1, <2>2, FS_Subset, FS_CardinalityType
  <2>4. QED
    BY <1>1, <2>1, <2>3 DEF FewDefaults, MissedFew
<1>6. MissedFew' /\ LastMissesNone'
  BY <1>3, <1>5 DEF MissedFew, LastMissesNone
<1>7. QED
  BY <1>4, <1>6 DEF FewDefaults

\* A request that looks for defaults, or locks one, misses no more than before.
LEMMA Locks ==
    ASSUME TwoAtMost, TypeOK, FewDefaults, NEW p \in Procs,
           \A q \in Procs \ {p} : req'[q] = req[q], Defaults' = Defaults,
           Clearing(p)' => Missed(p)' = {} \/ (Clearing(p) /\ Missed(p)' = Missed(p)),
           Loose(p)' => Defaults = {} \/ (Clearing(p) /\ Defaults = Missed(p))
    PROVE  FewDefaults'
<1>1. /\ IsFiniteSet(Defaults) /\ Cardinality(Defaults) \in Nat /\ Spare \in {0, 1}
      /\ Cardinality({}) = 0
  BY DefaultsThere, FS_EmptySet DEF TwoAtMost
<1>2. \A q \in Procs \ {p} : /\ Clearing(q)' <=> Clearing(q)
                             /\ Loose(q)' <=> Loose(q)
                             /\ Missed(q)' = Missed(q)
  BY DEF Clearing, Loose, Missed
<1>3. ASSUME NEW x \in Procs, Loose(x)'
      PROVE  Cardinality(Defaults') <= 2 * Spare
  <2>1. CASE x = p
    BY <1>1, <1>3, <2>1 DEF FewDefaults, MissedFew
  <2>2. CASE x # p
    BY <1>2, <1>3, <2>2 DEF FewDefaults, LooseFit
  <2>3. QED
    BY <2>1, <2>2
<1>4. ASSUME NEW x \in Procs \ {p}, Loose(x)', Loose(p)'
      PROVE  Cardinality(Defaults') <= 2 * Spare - 1
  <2>1. Defaults = {}
    BY <1>2, <1>4 DEF FewDefaults, MissedFew
  <2>2. Spare = 1
    BY NoThird
  <2>3. QED
    BY <1>1, <2>1, <2>2
<1>5. ASSUME NEW x \in Procs, NEW y \in Procs, x # y, x # p, y # p
      PROVE  FALSE
  BY <1>5, NoThird
<1>6. LooseFit'
  BY <1>3, <1>4, <1>5 DEF FewDefaults, LooseFit
<1>7. ASSUME NEW x \in Procs, Clearing(x)'
      PROVE  /\ Cardinality(Missed(x)') <= Spare
             /\ \A q \in Procs \ {x} : Loose(q)' => Missed(x)' = {}
  <2>1. CASE x = p
    BY <1>1, <1>2, <1>7, <2>1 DEF FewDefaults, MissedFew
  <2>2. CASE x # p
    <3>1. Clearing(x) /\ Missed(x)' = Missed(x)
      BY <1>2, <1>7, <2>2
    <3>2. Loose(p)' => Missed(x) = {}
      BY <2>2, <3>1 DEF FewDefaults, LastMissesNone, Missed
    <3>3. QED
      BY <1>5, <2>2, <3>1, <3>2 DEF FewDefaults, MissedFew
  <2>3. QED
    BY <2>1, <2>2
<1>8. MissedFew'
  BY <1>7 DEF MissedFew
<1>9. LastMissesNone'
  <2>1. ASSUME NEW x \in Procs \ {p}, Clearing(x)', Clearing(p)'
        PROVE  Missed(x)' = {} \/ Missed(p)' = {}
    BY <1>2, <2>1 DEF FewDefaults, LastMissesNone
  <2>2. QED
    BY <1>5, <2>1 DEF LastMissesNone
<1>10. QED
  BY <1>6, <1>8, <1>9 DEF FewDefaults

\* A request that ends and adds a default: what it has cleared, or the room it had
\* as a loose one, makes up for it.
LEMMA Adds ==
    ASSUME TwoAtMost, TypeOK, FewDefaults, NEW p \in Procs,
           \A q \in Procs \ {p} : req'[q] = req[q], ~Clearing(p)', ~Loose(p)',
           NEW r,
           \/ Clearing(p) /\ Defaults' \subseteq Missed(p) \cup {r}
           \/ Loose(p) /\ Defaults' = Defaults \cup {r}
    PROVE  FewDefaults'
<1>1. /\ IsFiniteSet(Defaults) /\ Cardinality(Defaults) \in Nat /\ Spare \in {0, 1}
      /\ Cardinality({}) = 0
  BY DefaultsThere, FS_EmptySet DEF TwoAtMost
<1>2. IsFiniteSet(Missed(p)) /\ Missed(p) \subseteq Defaults
  BY <1>1, FS_Subset DEF Missed
<1>3. ASSUME NEW x \in Procs, NEW y \in Procs, x # y, x # p, y # p
      PROVE  FALSE
  BY <1>3, NoThird
<1>4. LooseFit'
  <2>1. CASE Clearing(p) /\ Defaults' \subseteq Missed(p) \cup {r}
    <3>1. /\ Cardinality(Defaults') <= Cardinality(Missed(p)) + 1
          /\ Cardinality(Defaults') \in Nat /\ Cardinality(Missed(p)) \in Nat
      BY <1>2, <2>1, OneMore
    <3>2. Cardinality(Defaults') <= Spare + 1
      BY <1>1, <2>1, <3>1 DEF FewDefaults, MissedFew
    <3>3. ASSUME NEW x \in Procs, Loose(x)'
          PROVE  Spare = 1
      BY <3>3, NoThird
    <3>4. QED
      BY <1>1, <1>3, <3>1, <3>2, <3>3 DEF LooseFit
  <2>2. CASE Loose(p) /\ Defaults' = Defaults \cup {r}
    <3>1. /\ Cardinality(Defaults') <= Cardinality(Defaults) + 1
          /\ Cardinality(Defaults') \in Nat
      BY <1>1, <2>2, OneMore
    <3>2. Cardinality(Defaults) <= 2 * Spare
      BY <2>2 DEF FewDefaults, LooseFit
    <3>3. ASSUME NEW x \in Procs, Loose(x)'
          PROVE  Cardinality(Defaults) <= 2 * Spare - 1
      <4>1. x # p /\ Loose(x)
        BY <2>2, <3>3 DEF Loose
      <4>2. QED
        BY <2>2, <4>1 DEF FewDefaults, LooseFit
    <3>4. QED
      BY <1>1, <1>3, <3>1, <3>2, <3>3 DEF LooseFit
  <2>3. QED
    BY <2>1, <2>2
<1>5. ASSUME NEW x \in Procs, Clearing(x)'
      PROVE  Cardinality(Missed(x)') <= Spare
  <2>1. x # p /\ req'[x] = req[x] /\ Clearing(x)
    BY <1>5 DEF Clearing
  <2>2. Missed(x)' \subseteq {} \cup {r}
    <3>1. CASE Clearing(p) /\ Defaults' \subseteq Missed(p) \cup {r}
      <4>1. Missed(x) = {} \/ Missed(p) = {}
        BY <2>1, <3>1 DEF FewDefaults, LastMissesNone
      <4>2. QED
        BY <1>2, <2>1, <3>1, <4>1 DEF Missed
    <3>2. CASE Loose(p) /\ Defaults' = Defaults \cup {r}
      <4>1. Missed(x) = {}
        BY <2>1, <3>2 DEF FewDefaults, MissedFew
      <4>2. QED
        BY <2>1, <3>2, <4>1 DEF Missed
    <3>3. QED
      BY <3>1, <3>2
  <2>3. Cardinality(Missed(x)') <= Cardinality({}) + 1
    BY <2>2, OneMore, FS_EmptySet
  <2>4. Spare = 1
    BY <2>1, NoThird
  <2>5. QED
    BY <1>1, <2>3, <2>4
<1>6. MissedFew' /\ LastMissesNone'
  BY <1>3, <1>5 DEF MissedFew, LastMissesNone
<1>7. QED
  BY <1>4, <1>6 DEF FewDefaults

LEMMA LocksFitStep == Core /\ LocksFit /\ [Next]_vars => LocksFit'
<1> SUFFICES ASSUME Core, LocksFit, [Next]_vars
             PROVE  LocksFit'
  OBVIOUS
<1>1. req \in [Procs -> Request]
  BY DEF Core, TypeOK
<1>2. ASSUME NEW p \in Procs, Finish(p)
      PROVE  LocksFit'
  <2>1. /\ req'[p].pc = "idle" /\ req'[p].marked = {}
        /\ \A q \in Procs \ {p} : req'[q] = req[q]
    BY <1>2, Ends DEF Core
  <2>2. QED
    BY <2>1 DEF LocksFit
<1>3. ASSUME NEW p \in Procs, NEW text, NEW default, CreateCheck(p, text, default)
      PROVE  LocksFit'
  <2>1. /\ req'[p].pc = (IF default THEN "unset" ELSE "write") /\ req'[p].default = default
        /\ req'[p].marked = {} /\ req'[p].held = {}
        /\ \A q \in Procs \ {p} : req'[q] = req[q]
    BY <1>1, <1>3 DEF CreateCheck
  <2>2. QED
    BY <2>1 DEF LocksFit
<1>4. ASSUME NEW p \in Procs, NEW r \in Rows, NEW e, UpdateRead(p, r, e[1], e[2])
      PROVE  LocksFit'
  <2>1. /\ req'[p].pc = "write" \/ (req'[p].pc = "unset" /\ req'[p].default)
        /\ req'[p].marked = {} /\ req'[p].held = {}
        /\ \A q \in Procs \ {p} : req'[q] = req[q]
    BY <1>1, <1>4 DEF UpdateRead, NeedsUnset
  <2>2. QED
    BY <2>1 DEF LocksFit
<1>5. ASSUME NEW p \in Procs, UnsetDefaults(p)
      PROVE  LocksFit'
  <2>1. /\ req'[p].pc = AfterLocking(Defaults) /\ req'[p].marked = Defaults
        /\ req'[p].default = req[p].default
        /\ \A q \in Procs \ {p} : req'[q] = req[q]
    BY <1>1, <1>5 DEF UnsetDefaults, Request
  <2>2. req[p].default
    BY <1>5 DEF UnsetDefaults, LocksFit
  <2>3. QED
    BY <2>1, <2>2 DEF LocksFit, AfterLocking
<1>6. ASSUME NEW p \in Procs, NEW r \in Rows, LockDefault(p, r)
      PROVE  LocksFit'
  <2>1. /\ req'[p].pc = AfterLocking(req[p].marked \ {r})
        /\ req'[p].marked = req[p].marked \ {r}
        /\ req'[p].default = req[p].default
        /\ \A q \in Procs \ {p} : req'[q] = req[q]
    BY <1>1, <1>6 DEF LockDefault, Request
  <2>2. req[p].default
    BY <1>6 DEF LockDefault, LocksFit
  <2>3. QED
    BY <2>1, <2>2 DEF LocksFit, AfterLocking
<1>7. ASSUME req' = req
      PROVE  LocksFit'
  BY <1>7 DEF LocksFit
<1>8. QED
  BY <1>2, <1>3, <1>4, <1>5, <1>6, <1>7
  DEF Next, Step, CommitCreate, CommitUpdate, DeadlockVictim, Abandon, Delete,
      CreateRefused, NotFound, vars

\* Which addresses are the default after a row is written.
LEMMA WrittenDefaults ==
    ASSUME Core, NEW p \in Procs, NEW n \in RowId, req[p].pc # "idle", Finish(p),
           addr' = [Cleared(p) EXCEPT ![n] = Written(p)],
           ~addr[n].deleted,
           \/ n \in Rows /\ created' = created
           \/ n = created + 1 /\ created < MaxRows /\ created' = created + 1
    PROVE  Defaults' = IF req[p].default THEN (Defaults \ req[p].held) \cup {n}
                                         ELSE (Defaults \ req[p].held) \ {n}
<1>1. Live' = Live \cup {n}
  BY RowWritten
<1>2. Cleared(p) \in [RowId -> Row] /\ Live \subseteq RowId
  BY ClearedRows, RowsThere DEF Core, Live
<1>3. addr'[n].default = req[p].default
  BY <1>2 DEF Written
<1>4. ASSUME NEW r \in Live, r # n
      PROVE  addr'[r].default <=> r \in Defaults \ req[p].held
  <2>1. addr'[r] = Cleared(p)[r]
    BY <1>2, <1>4
  <2>2. Cleared(p)[r].default <=> addr[r].default /\ r \notin req[p].held
    BY <1>2 DEF Cleared, Core, TypeOK, Row
  <2>3. QED
    BY <2>1, <2>2 DEF Defaults
<1>5. Defaults \subseteq Live
  BY DEF Defaults
<1>6. QED
  BY <1>1, <1>3, <1>4, <1>5 DEF Defaults

\* A request that has ended neither clears nor is loose.
LEMMA EndsQuietly ==
    ASSUME Core, NEW p \in Procs, Finish(p)
    PROVE  /\ ~Clearing(p)' /\ ~Loose(p)'
           /\ \A q \in Procs \ {p} : req'[q] = req[q]
  BY Ends DEF Core, Clearing, Loose

LEMMA WrittenFew ==
    ASSUME TwoAtMost, Core, LocksFit, FewDefaults, NEW p \in Procs, NEW n \in RowId,
           req[p].pc = "write", Finish(p), n = req[p].row \/ req[p].row = 0,
           addr' = [Cleared(p) EXCEPT ![n] = Written(p)],
           ~addr[n].deleted,
           \/ n \in Rows /\ created' = created
           \/ n = created + 1 /\ created < MaxRows /\ created' = created + 1
    PROVE  FewDefaults'
<1>1. Defaults' = IF req[p].default THEN (Defaults \ req[p].held) \cup {n}
                                     ELSE (Defaults \ req[p].held) \ {n}
  BY WrittenDefaults
<1>2. TypeOK /\ req[p].marked = {}
  BY DEF Core, LocksFit
<1>3. CASE ~req[p].default
  <2>1. Defaults' = Defaults \ {n}
    BY <1>1, <1>3 DEF LocksFit
  <2>2. QED
    BY <1>2, <2>1, EndsQuietly, TakesAway
<1>4. CASE Clearing(p) /\ req[p].default
  <2>1. Defaults' \subseteq Missed(p) \cup {n}
    BY <1>1, <1>2, <1>4 DEF Missed
  <2>2. QED
    BY <1>2, <1>4, <2>1, EndsQuietly, Adds
<1>5. CASE ~Clearing(p) /\ req[p].default
  <2>1. req[p].row # 0 /\ req[p].held = {} /\ n = req[p].row
    BY <1>5 DEF Clearing
  <2>2. Defaults' = Defaults \cup {n}
    BY <1>1, <1>5, <2>1
  <2>3. CASE n \in Defaults
    BY <1>2, <2>2, <2>3, EndsQuietly, TakesAway
  <2>4. CASE n \notin Defaults
    <3>1. Loose(p)
      BY <1>5, <2>1, <2>4 DEF Loose
    <3>2. QED
      BY <1>2, <2>2, <3>1, EndsQuietly, Adds
  <2>5. QED
    BY <2>3, <2>4
<1>6. QED
  BY <1>3, <1>4, <1>5

LEMMA FewDefaultsStep ==
    ASSUME TwoAtMost, Core, LocksFit, FewDefaults, [Next]_vars
    PROVE  FewDefaults'
<1>1. TypeOK /\ req \in [Procs -> Request]
  BY DEF Core, TypeOK
<1>2. ASSUME NEW p \in Procs, NEW text, NEW default, CreateCheck(p, text, default)
      PROVE  FewDefaults'
  <2>1. Defaults' = Defaults
    BY <1>2 DEF CreateCheck, Defaults, Live, Rows
  <2>2. /\ req'[p].pc = "unset" \/ (req'[p].pc = "write" /\ ~req'[p].default)
        /\ \A q \in Procs \ {p} : req'[q] = req[q]
    BY <1>1, <1>2 DEF CreateCheck
  <2>3. ~Clearing(p)' /\ ~Loose(p)'
    BY <2>2 DEF Clearing, Loose
  <2>4. QED
    BY <1>1, <2>1, <2>2, <2>3, TakesAway
<1>3. ASSUME NEW p \in Procs, NEW r \in Rows, NEW e, UpdateRead(p, r, e[1], e[2])
      PROVE  FewDefaults'
  <2>1. Defaults' = Defaults
    BY <1>3 DEF UpdateRead, Defaults, Live, Rows
  <2>2. PICK d : d = IF e[2] = "keep" THEN addr[r].default ELSE e[2] = "yes"
    OBVIOUS
  <2>3. /\ req'[p].pc = (IF NeedsUnset(d, addr[r]) THEN "unset" ELSE "write")
        /\ req'[p].default = d /\ req'[p].row = r /\ req'[p].held = {}
        /\ \A q \in Procs \ {p} : req'[q] = req[q]
    BY <1>1, <1>3, <2>2 DEF UpdateRead
  <2>4. r \in Live /\ r # 0
    BY <1>1, <1>3, RowsThere DEF UpdateRead
  <2>5. ~Clearing(p)'
    BY <2>3, <2>4 DEF Clearing
  <2>6. ~Loose(p)'
    BY <2>1, <2>3, <2>4 DEF Loose, NeedsUnset, Defaults
  <2>7. QED
    BY <1>1, <2>1, <2>3, <2>5, <2>6, TakesAway
<1>4. ASSUME NEW p \in Procs, UnsetDefaults(p)
      PROVE  FewDefaults'
  <2>1. Defaults' = Defaults
    BY <1>4 DEF UnsetDefaults, Defaults, Live, Rows
  <2>2. /\ req'[p].pc = AfterLocking(Defaults) /\ req'[p].marked = Defaults
        /\ \A q \in Procs \ {p} : req'[q] = req[q]
    BY <1>1, <1>4 DEF UnsetDefaults, Request
  <2>3. Missed(p)' = {}
    BY <2>1, <2>2 DEF Missed
  <2>4. Loose(p)' => Defaults = {}
    BY <2>2 DEF Loose, AfterLocking
  <2>5. QED
    BY <1>1, <2>1, <2>2, <2>3, <2>4, Locks
<1>5. ASSUME NEW p \in Procs, NEW r \in Rows, LockDefault(p, r)
      PROVE  FewDefaults'
  <2>1. Defaults' = Defaults
    BY <1>5 DEF LockDefault, Defaults, Live, Rows
  <2>2. /\ req'[p].pc = AfterLocking(req[p].marked \ {r})
        /\ req'[p].marked = req[p].marked \ {r}
        /\ req'[p].held = req[p].held \cup ({r} \cap Defaults)
        /\ \A q \in Procs \ {p} : req'[q] = req[q]
    BY <1>1, <1>5 DEF LockDefault, Request
  <2>3. Clearing(p)
    BY <1>5 DEF LockDefault, LocksFit, Clearing
  <2>4. Missed(p)' = Missed(p)
    BY <1>5, <2>1, <2>2 DEF Missed, LockDefault
  <2>5. Loose(p)' => Defaults = Missed(p)
    <3>1. ASSUME Loose(p)'
          PROVE  Missed(p)' = Defaults
      <4>1. req'[p].marked = {} /\ req'[p].held = {}
        BY <2>2, <3>1 DEF Loose, AfterLocking
      <4>2. QED
        BY <2>1, <4>1 DEF Missed
    <3>2. QED
      BY <2>4, <3>1
  <2>6. QED
    BY <1>1, <2>1, <2>2, <2>3, <2>4, <2>5, Locks
<1>6. ASSUME NEW p \in Procs, Finish(p), Defaults' = Defaults
      PROVE  FewDefaults'
  BY <1>1, <1>6, EndsQuietly, TakesAway
<1>7. ASSUME NEW p \in Procs, CommitCreate(p)
      PROVE  FewDefaults'
  <2>1. created + 1 \in RowId \ Rows
    BY <1>7, RowsThere DEF Core, CommitCreate
  <2>2. PICK n \in RowId : n = created + 1 /\ ~addr[n].deleted
    BY <2>1 DEF Core, NotThereYet
  <2>3. QED
    BY <1>7, <2>2, WrittenFew DEF CommitCreate
<1>8. ASSUME NEW p \in Procs, CommitUpdate(p)
      PROVE  FewDefaults'
  <2>1. PICK n \in Rows : n = req[p].row
    BY <1>8 DEF CommitUpdate, Core, RequestsFit
  <2>2. n \in RowId
    BY <1>1, RowsThere
  <2>3. CASE addr[n].deleted
    <3>1. Defaults' = Defaults /\ Finish(p)
      BY <1>8, <2>1, <2>3 DEF CommitUpdate, Defaults, Live, Rows
    <3>2. QED
      BY <1>6, <3>1
  <2>4. CASE ~addr[n].deleted
    BY <1>8, <2>1, <2>2, <2>4, WrittenFew DEF CommitUpdate
  <2>5. QED
    BY <2>3, <2>4
<1>9. ASSUME NEW p \in Procs, DeadlockVictim(p) \/ Abandon(p)
      PROVE  FewDefaults'
  BY <1>6, <1>9 DEF DeadlockVictim, Abandon, Defaults, Live, Rows
<1>10. ASSUME NEW p \in Procs, NEW r \in Rows, Delete(p, r)
       PROVE  FewDefaults'
  <2>1. Live' = Live \ {r} /\ \A q \in RowId \ {r} : addr'[q] = addr[q]
    BY <1>1, <1>10, DeleteCore, RowsThere DEF Delete, TypeOK
  <2>2. Defaults' = Defaults \ {r}
    BY <1>1, <2>1, RowsThere DEF Defaults, Live
  <2>3. req' = req /\ ~Clearing(p)' /\ ~Loose(p)'
    BY <1>10 DEF Delete, Clearing, Loose
  <2>4. QED
    BY <1>1, <2>2, <2>3, TakesAway
<1>11. CASE UNCHANGED vars
  <2>1. req' = req /\ Defaults' = Defaults
    BY <1>11 DEF vars, Defaults, Live, Rows
  <2>2. QED
    BY <2>1 DEF FewDefaults, LooseFit, MissedFew, LastMissesNone, Clearing, Loose, Missed
<1>12. QED
  BY <1>2, <1>3, <1>4, <1>5, <1>7, <1>8, <1>9, <1>10, <1>11
  DEF Next, Step, CreateRefused, NotFound

\* One request at a time leaves one default; two that overlap leave three at most,
\* for any number of addresses and whatever fails.
THEOREM FewDefaultsLeft == Spec => []DefaultsBounded
<1> DEFINE Inv == TwoAtMost => LocksFit /\ FewDefaults
<1>1. Init => Inv
  <2>1. ASSUME Init, TwoAtMost
        PROVE  LocksFit /\ FewDefaults
    <3>1. Defaults = {} /\ Cardinality(Defaults) = 0 /\ Spare \in {0, 1}
      BY <2>1, AddressAssumption, FS_EmptySet DEF Init, Defaults, Live, Rows, TwoAtMost
    <3>2. \A p \in Procs : req[p].pc = "idle" /\ req[p].marked = {} /\ req[p].held = {}
      BY <2>1 DEF Init, Idle
    <3>3. \A p \in Procs : ~Clearing(p) /\ ~Loose(p)
      BY <3>2 DEF Clearing, Loose
    <3>4. LocksFit
      BY <3>2 DEF LocksFit
    <3>5. QED
      BY <3>1, <3>3, <3>4 DEF FewDefaults, LooseFit, MissedFew, LastMissesNone
  <2>2. QED
    BY <2>1
<1>2. Core /\ Inv /\ [Next]_vars => Inv'
  BY LocksFitStep, FewDefaultsStep
<1>3. Core /\ Inv => DefaultsBounded
  <2>1. ASSUME Core, Inv
        PROVE  DefaultsBounded
    <3>1. Cardinality(Procs) \in Nat
      BY AddressAssumption, FS_CardinalityType
    <3>2. CASE Cardinality(Procs) \in {1, 2}
      <4>1. TwoAtMost
        BY <3>1, <3>2 DEF TwoAtMost, Spare
      <4>2. Cardinality(Defaults) <= 2 * Spare + 1
        BY <2>1, <4>1 DEF FewDefaults, LooseFit
      <4>3. QED
        BY <3>2, <4>2 DEF DefaultsBounded, Spare
    <3>3. CASE Cardinality(Procs) \notin {1, 2}
      BY <3>3 DEF DefaultsBounded
    <3>4. QED
      BY <3>2, <3>3
  <2>2. QED
    BY <2>1
<1>4. QED
  BY <1>1, <1>2, <1>3, CoreInvariant, PTL DEF Spec

----------------------------------------------------------------------------
(* The fields an update leaves out *)

OneAtATime == \A p, q \in Procs : p = q

\* What an update writes in a field it was not given is what the row still has.
ReadStands ==
    \A p \in Procs :
        req[p].pc # "idle" /\ req[p].row # 0 =>
            /\ "text" \notin req[p].given => req[p].text = addr[req[p].row].text
            /\ "default" \notin req[p].given => req[p].default = addr[req[p].row].default

LEMMA ReadStandsStep ==
    ASSUME OneAtATime, Core, ReadStands, [Next]_vars
    PROVE  ReadStands'
<1>1. req \in [Procs -> Request]
  BY DEF Core, TypeOK
<1>2. ASSUME NEW p \in Procs, req'[p].pc = "idle"
      PROVE  ReadStands'
  BY <1>2 DEF OneAtATime, ReadStands
<1>3. ASSUME NEW p \in Procs, Finish(p)
      PROVE  ReadStands'
  BY <1>2, <1>3, Ends DEF Core
<1>4. ASSUME NEW p \in Procs, NEW text, NEW default, CreateCheck(p, text, default)
      PROVE  ReadStands'
  <2>1. /\ req'[p].pc = (IF default THEN "unset" ELSE "write") /\ req'[p].row = 0
        /\ req'[p].marked = {}
    BY <1>1, <1>4 DEF CreateCheck
  <2>2. QED
    BY <2>1 DEF OneAtATime, ReadStands
<1>5. ASSUME NEW p \in Procs, NEW r \in Rows, NEW e \in Edits, UpdateRead(p, r, e[1], e[2])
      PROVE  ReadStands'
  <2>1. /\ req'[p].row = r
        /\ req'[p].text = Merge(e[1], addr[r].text)
        /\ req'[p].default = IF e[2] = "keep" THEN addr[r].default ELSE e[2] = "yes"
        /\ req'[p].given = {f \in {"text", "default"} :
                              IF f = "text" THEN e[1] # None ELSE e[2] # "keep"}
        /\ addr' = addr
    BY <1>1, <1>5 DEF UpdateRead
  <2>2. "text" \notin req'[p].given => req'[p].text = addr'[r].text
    BY <2>1 DEF Merge
  <2>3. "default" \notin req'[p].given => req'[p].default = addr'[r].default
    BY <2>1
  <2>4. QED
    BY <2>1, <2>2, <2>3 DEF OneAtATime, ReadStands
<1>6. ASSUME NEW p \in Procs, addr' = addr,
             /\ req'[p].row = req[p].row /\ req'[p].given = req[p].given
             /\ req'[p].text = req[p].text /\ req'[p].default = req[p].default,
             req[p].pc # "idle"
      PROVE  ReadStands'
  BY <1>6 DEF OneAtATime, ReadStands
<1>7. ASSUME NEW p \in Procs, UnsetDefaults(p) \/ \E r \in Rows : LockDefault(p, r)
      PROVE  ReadStands'
  <2>1. /\ req'[p].row = req[p].row /\ req'[p].given = req[p].given
        /\ req'[p].text = req[p].text /\ req'[p].default = req[p].default /\ addr' = addr
    <3>1. CASE UnsetDefaults(p)
      BY <1>1, <3>1 DEF UnsetDefaults, Request
    <3>2. ASSUME NEW r \in Rows, LockDefault(p, r)
          PROVE  <2>1!:
      BY <1>1, <3>2 DEF LockDefault, Request
    <3>3. QED
      BY <1>7, <3>1, <3>2
  <2>2. req[p].pc # "idle"
    BY <1>7 DEF UnsetDefaults, LockDefault, Core, RequestsFit
  <2>3. QED
    BY <1>6, <2>1, <2>2
<1>8. ASSUME NEW p \in Procs, NEW r, Delete(p, r)
      PROVE  ReadStands'
  BY <1>2, <1>8 DEF Delete
<1>9. CASE UNCHANGED vars
  BY <1>9 DEF vars, ReadStands
<1>10. QED
  BY <1>3, <1>4, <1>5, <1>7, <1>8, <1>9
  DEF Next, Step, CommitCreate, CommitUpdate, DeadlockVictim, Abandon, CreateRefused, NotFound

\* While one request of the user ends before the next begins, a field that an update
\* leaves out keeps its value, as the comment on the merge says, for any number of
\* addresses and whatever fails: what breaks the claim is requests that overlap, and
\* nothing else.
THEOREM FieldsKeptAlone ==
    ASSUME Cardinality(Procs) = 1
    PROVE  Spec => LeftOutFieldsKept
<1>1. OneAtATime
  BY FS_Singleton, AddressAssumption DEF OneAtATime
<1>2. Init => ReadStands
  BY DEF Init, Idle, ReadStands
<1>3. Core /\ ReadStands /\ [Next]_vars => ReadStands'
  BY <1>1, ReadStandsStep
<1>4. Core /\ ReadStands /\ [Next]_vars =>
        [\A p \in Procs :
           LET r == req[p].row IN
           req[p].pc = "write" /\ req'[p].pc = "idle" /\ r # 0 /\ addr'[r] # addr[r] =>
              /\ "text" \notin req[p].given => addr'[r].text = addr[r].text
              /\ "default" \notin req[p].given => addr'[r].default = addr[r].default]_vars
  <2> SUFFICES ASSUME Core, ReadStands, [Next]_vars, NEW p \in Procs, NEW r, r = req[p].row,
                      req[p].pc = "write", req'[p].pc = "idle", r # 0, addr'[r] # addr[r]
               PROVE  /\ "text" \notin req[p].given => addr'[r].text = addr[r].text
                      /\ "default" \notin req[p].given => addr'[r].default = addr[r].default
    OBVIOUS
  <2>1. CommitUpdate(p)
    BY <1>1 DEF Next, Step, OneAtATime, CreateCheck, CreateRefused, UpdateRead, Delete, NotFound,
         UnsetDefaults, LockDefault, CommitCreate, DeadlockVictim, Abandon, vars
  <2>2. addr'[r] = Written(p)
    <3>1. r \in RowId /\ Cleared(p) \in [RowId -> Row]
      BY RowsThere, ClearedRows DEF Core, RequestsFit
    <3>2. addr' = [Cleared(p) EXCEPT ![r] = Written(p)]
      BY <2>1 DEF CommitUpdate
    <3>3. QED
      BY <3>1, <3>2
  <2>3. QED
    BY <2>2 DEF Written, ReadStands
<1>5. QED
  BY <1>2, <1>3, <1>4, CoreInvariant, PTL DEF Spec, LeftOutFieldsKept

----------------------------------------------------------------------------
(* Nobody is stuck *)

Open == {p \in Procs : req[p].pc # "idle"}

\* p has something left to lock in UnsetDefaultAddress, all of it in the table, and
\* the creations past their check have room for their rows.
PlacesFit ==
    /\ \A p \in Procs : req[p].marked \subseteq Rows
    /\ \A p \in Procs : req[p].pc = "clear" <=> req[p].marked # {}
    /\ created + Cardinality(Creating) <= MaxRows

\* One of the steps of a request is open to p: a statement that waits for nobody, or
\* PostgreSQL rolls it back because it waits in a circle.
MayGoOn(p) ==
    \/ req[p].pc = "unset"
    \/ \E r \in Rows : r \in req[p].marked /\ ~LockedByOther(p, r)
    \/ req[p].pc = "write" /\ req[p].row = 0 /\ created < MaxRows
    \/ req[p].pc = "write" /\ req[p].row # 0 /\ ~LockedByOther(p, req[p].row)
    \/ InCycle(p)

\* Of the requests in progress one can go on.
SomeoneGoesOn == Open # {} => \E p \in Open : MayGoOn(p)

\* Statements p has still to make, at most.
Left(p) ==
    CASE req[p].pc = "idle" -> 0
      [] req[p].pc = "write" -> 1
      [] req[p].pc = "clear" -> 1 + Cardinality(req[p].marked)
      [] req[p].pc = "unset" -> MaxRows + 2

\* A step of a request takes it, and nobody else, nearer to its end.
StepsNear == [][\A p \in Procs : Step(p) =>
                  Left(p)' < Left(p) /\ \A q \in Procs \ {p} : Left(q)' = Left(q)]_vars

\* Nobody joins the creations past their check.
LEMMA NoMoreCreating ==
    ASSUME TypeOK, PlacesFit, Creating' \subseteq Creating, created' = created
    PROVE  created' + Cardinality(Creating') <= MaxRows
<1>1. Cardinality(Creating') <= Cardinality(Creating) /\ Cardinality(Creating') \in Nat
  BY CountsFinite, FS_Subset, FS_CardinalityType
<1>2. created \in Nat /\ Cardinality(Creating) \in Nat /\ MaxRows \in Nat
  BY CountsFinite, AddressAssumption DEF TypeOK
<1>3. QED
  BY <1>1, <1>2 DEF PlacesFit

\* A request that ends has nothing left to lock.
LEMMA EndsPlaces ==
    ASSUME TypeOK, PlacesFit, NEW p \in Procs, Finish(p), Rows \subseteq Rows',
           created' + Cardinality(Creating') <= MaxRows
    PROVE  PlacesFit'
  BY Ends DEF PlacesFit

\* UnsetDefaultAddress goes on: it has still to lock what it had, or all the defaults.
LEMMA LocksOn ==
    ASSUME Core, NEW p \in Procs, UnsetDefaults(p) \/ \E r \in Rows : LockDefault(p, r)
    PROVE  /\ req'[p].marked \subseteq req[p].marked \cup Defaults
           /\ req'[p].pc = AfterLocking(req'[p].marked) /\ req'[p].row = req[p].row
           /\ \A q \in Procs \ {p} : req'[q] = req[q]
           /\ req[p].pc # "idle"
           /\ addr' = addr /\ created' = created
<1>1. req \in [Procs -> Request]
  BY DEF Core, TypeOK
<1>2. CASE UnsetDefaults(p)
  BY <1>1, <1>2 DEF UnsetDefaults, Request
<1>3. ASSUME NEW r \in Rows, LockDefault(p, r)
      PROVE  /\ req'[p].marked \subseteq req[p].marked \cup Defaults
             /\ req'[p].pc = AfterLocking(req'[p].marked) /\ req'[p].row = req[p].row
             /\ \A q \in Procs \ {p} : req'[q] = req[q]
             /\ req[p].pc # "idle"
             /\ addr' = addr /\ created' = created
  <2>1. /\ req'[p].marked = req[p].marked \ {r}
        /\ req'[p].pc = AfterLocking(req[p].marked \ {r})
        /\ \A q \in Procs \ {p} : req'[q] = req[q]
    BY ONLY <1>1, <1>3, p \in Procs DEF LockDefault, Request
  <2>2. r \in req[p].marked /\ addr' = addr /\ created' = created
    BY <1>3 DEF LockDefault
  <2>3. req[p].pc # "idle"
    BY <2>2 DEF Core, RequestsFit
  <2>4. req'[p].row = req[p].row
    BY ONLY <1>1, <1>3, p \in Procs DEF LockDefault, Request
  <2>5. QED
    BY <2>1, <2>2, <2>3, <2>4
<1>4. QED
  BY <1>2, <1>3

LEMMA PlacesStep ==
    ASSUME Core, Core', PlacesFit, [Next]_vars
    PROVE  PlacesFit'
<1>1. TypeOK /\ TypeOK'
  BY DEF Core
<1>2. ASSUME NEW p \in Procs, NEW text, NEW default, CreateCheck(p, text, default)
      PROVE  PlacesFit'
  <2>1. /\ req'[p].marked = {} /\ req'[p].pc # "clear"
        /\ \A q \in Procs \ {p} : req'[q] = req[q]
        /\ Rows' = Rows /\ created' = created
    BY <1>1, <1>2 DEF CreateCheck, TypeOK, Rows
  <2>2. created' + Cardinality(Creating') <= MaxRows
    <3>1. Creating' \subseteq Creating \cup {p}
      BY <2>1 DEF Creating
    <3>2. /\ IsFiniteSet(Creating \cup {p})
          /\ Cardinality(Creating \cup {p}) <= Cardinality(Creating) + 1
      <4>1. IsFiniteSet(Creating) /\ Cardinality(Creating) \in Nat
        BY <1>1, CountsFinite
      <4>2. /\ IsFiniteSet(Creating \cup {p})
            /\ Cardinality(Creating \cup {p})
                 = IF p \in Creating THEN Cardinality(Creating) ELSE Cardinality(Creating) + 1
        BY <4>1, FS_AddElement
      <4>3. QED
        BY <4>1, <4>2
    <3>3. /\ Cardinality(Creating') <= Cardinality(Creating \cup {p})
          /\ Cardinality(Creating') \in Nat /\ Cardinality(Creating \cup {p}) \in Nat
      BY <3>1, <3>2, FS_Subset, FS_CardinalityType
    <3>4. created + Cardinality(Creating) < MaxRows
      BY <1>2 DEF CreateCheck, Creating
    <3>5. created \in Nat /\ Cardinality(Creating) \in Nat /\ MaxRows \in Nat
      BY <1>1, CountsFinite, AddressAssumption DEF TypeOK
    <3>6. QED
      BY <2>1, <3>2, <3>3, <3>4, <3>5
  <2>3. QED
    BY <2>1, <2>2 DEF PlacesFit
<1>3. ASSUME NEW p \in Procs, CommitCreate(p)
      PROVE  PlacesFit'
  <2>1. Creating' \subseteq Creating \ {p} /\ p \in Creating
    BY <1>1, <1>3, Ends DEF Creating, CommitCreate
  <2>2. /\ Cardinality(Creating \ {p}) = Cardinality(Creating) - 1
        /\ IsFiniteSet(Creating \ {p})
    BY <1>1, <2>1, CountsFinite, FS_RemoveElement
  <2>3. Cardinality(Creating') <= Cardinality(Creating) - 1 /\ Cardinality(Creating') \in Nat
    BY <2>1, <2>2, FS_Subset, FS_CardinalityType
  <2>4. created' = created + 1 /\ Finish(p)
    BY <1>3 DEF CommitCreate
  <2>5. created \in Nat /\ Cardinality(Creating) \in Nat /\ MaxRows \in Nat
    BY <1>1, CountsFinite, AddressAssumption DEF TypeOK
  <2>6. created' + Cardinality(Creating') <= MaxRows
    BY <2>3, <2>4, <2>5 DEF PlacesFit
  <2>7. Rows \subseteq Rows'
    BY <2>4, <2>5 DEF Rows
  <2>8. QED
    BY <1>1, <2>4, <2>6, <2>7, EndsPlaces
<1>4. ASSUME NEW p \in Procs, NEW r \in Rows, NEW e, UpdateRead(p, r, e[1], e[2])
      PROVE  PlacesFit'
  <2>1. /\ req'[p].marked = {} /\ req'[p].pc # "clear" /\ req'[p].row # 0
        /\ \A q \in Procs \ {p} : req'[q] = req[q]
        /\ Rows' = Rows /\ created' = created
    BY <1>1, <1>4, RowsThere DEF UpdateRead, TypeOK, Rows
  <2>2. Creating' \subseteq Creating
    BY <2>1 DEF Creating
  <2>3. QED
    BY <1>1, <2>1, <2>2, NoMoreCreating DEF PlacesFit
<1>5. ASSUME NEW p \in Procs, UnsetDefaults(p) \/ \E r \in Rows : LockDefault(p, r)
      PROVE  PlacesFit'
  <2>1. Creating' \subseteq Creating /\ Rows' = Rows
    BY <1>5, LocksOn DEF Creating, Rows
  <2>2. req'[p].marked \subseteq Rows /\ (req'[p].pc = "clear" <=> req'[p].marked # {})
    BY <1>5, LocksOn DEF PlacesFit, Defaults, Live, AfterLocking
  <2>3. QED
    BY <1>1, <1>5, <2>1, <2>2, LocksOn, NoMoreCreating DEF PlacesFit
<1>6. ASSUME NEW p \in Procs, Finish(p), created' = created
      PROVE  PlacesFit'
  <2>1. Creating' \subseteq Creating /\ Rows' = Rows
    BY <1>1, <1>6, Ends DEF Creating, Rows
  <2>2. QED
    BY <1>1, <1>6, <2>1, NoMoreCreating, EndsPlaces
<1>7. ASSUME req' = req, created' = created
      PROVE  PlacesFit'
  BY <1>7 DEF PlacesFit, Creating, Rows
<1>8. QED
  BY <1>2, <1>3, <1>4, <1>5, <1>6, <1>7
  DEF Next, Step, CommitUpdate, DeadlockVictim, Abandon, Delete, CreateRefused, NotFound, vars

LEMMA PlacesInvariant == Spec => []PlacesFit
<1>1. Init => PlacesFit
  <2>1. ASSUME Init
        PROVE  /\ created = 0 /\ Creating = {} /\ MaxRows \in Nat
               /\ \A p \in Procs : req[p].marked = {} /\ req[p].pc = "idle"
    BY <2>1, AddressAssumption DEF Init, Creating, Idle
  <2>2. QED
    BY <2>1, FS_EmptySet DEF PlacesFit
<1>2. Core /\ Core' /\ PlacesFit /\ [Next]_vars => PlacesFit'
  BY PlacesStep
<1>3. QED
  BY <1>1, <1>2, CoreInvariant, PTL DEF Spec

\* Whoever cannot go on waits for a request in progress.
LEMMA StuckWaits ==
    ASSUME Core, PlacesFit, NEW p \in Open, ~MayGoOn(p)
    PROVE  \E q \in Open : Waits(p, q)
<1>1. p \in Procs /\ req[p].pc \in {"clear", "write"}
  BY DEF Open, MayGoOn, Core, TypeOK, Request
<1>2. PICK r \in Wanted(p) : LockedByOther(p, r)
  <2>1. CASE req[p].pc = "clear"
    BY <1>1, <2>1 DEF MayGoOn, PlacesFit, Wanted
  <2>2. CASE req[p].pc = "write" /\ req[p].row # 0
    BY <2>2 DEF MayGoOn, Wanted
  <2>3. CASE req[p].pc = "write" /\ req[p].row = 0
    <3>1. p \in Creating
      BY <1>1, <2>3 DEF Creating
    <3>2. Cardinality(Creating) \in Nat /\ created \in Nat /\ MaxRows \in Nat
      BY CountsFinite, AddressAssumption DEF Core, TypeOK
    <3>3. Cardinality(Creating) # 0
      BY <3>1, CountsFinite, FS_EmptySet DEF Core
    <3>4. created < MaxRows
      BY <3>2, <3>3 DEF PlacesFit
    <3>5. QED
      BY <2>3, <3>4 DEF MayGoOn
  <2>4. QED
    BY <1>1, <2>1, <2>2, <2>3
<1>3. PICK q \in Procs \ {p} : r \in req[q].held
  BY <1>2 DEF LockedByOther
<1>4. q \in Open /\ Waits(p, q)
  BY <1>2, <1>3 DEF Open, Waits, Core, RequestsFit
<1>5. QED
  BY <1>4

Closed(S) == \A a \in S, b \in Procs : Waits(a, b) => b \in S

\* Where everyone waits, someone waits in a circle: any request of a smallest set that
\* nobody in it waits outside of.
LEMMA SomeoneInCycle ==
    ASSUME Core, Open # {}, \A p \in Open : \E q \in Open : Waits(p, q)
    PROVE  \E p \in Open : InCycle(p)
<1> DEFINE T == {S \in SUBSET Open : S # {} /\ Closed(S)}
<1>1. Open \in T
  BY DEF Closed, Waits, Open, Core, RequestsFit
<1>2. PICK M \in T : \A S \in T : ~(S \subseteq M /\ S # M)
  <2>1. T \subseteq FiniteSubsetsOf(Procs)
    BY AddressAssumption, FS_Subset DEF FiniteSubsetsOf, Open
  <2>2. IsWellFoundedOn(StrictSubsetOrdering(Procs), FiniteSubsetsOf(Procs))
    BY FS_StrictSubsetOrderingWellFounded
  <2> HIDE DEF T
  <2>3. PICK M \in T : \A S \in T : ~(<<S, M>> \in StrictSubsetOrdering(Procs))
    BY <1>1, <2>1, <2>2, WFMin
  <2>4. ASSUME NEW S \in T
        PROVE  ~(S \subseteq M /\ S # M)
    <3>1. S \in SUBSET Procs /\ M \in SUBSET Procs
      BY <2>1 DEF FiniteSubsetsOf
    <3>2. QED
      BY <2>3, <2>4, <3>1 DEF StrictSubsetOrdering
  <2>5. QED
    BY <2>4
<1>3. PICK p \in M : TRUE
  OBVIOUS
<1>4. M \subseteq Open /\ Closed(M)
  OBVIOUS
<1>5. PICK q \in Open : Waits(p, q)
  BY <1>3, <1>4
<1>6. ASSUME NEW S \in SUBSET Procs, \A a \in S \cup {p}, b \in Procs : Waits(a, b) => b \in S
      PROVE  p \in S
  <2>1. q \in S \cap M
    BY <1>3, <1>4, <1>5, <1>6 DEF Closed, Open
  <2>2. Closed(S \cap M)
    BY <1>4, <1>6 DEF Closed
  <2>3. S \cap M \in T
    BY <1>4, <2>1, <2>2
  <2>4. S \cap M = M
    BY <1>2, <2>3
  <2>5. QED
    BY <1>3, <2>4
<1>7. QED
  BY <1>3, <1>4, <1>6 DEF InCycle

\* However the requests wait for each other's rows, one of those in progress can always
\* take its next step: what PostgreSQL is asked to break, a circle, is all that can hold
\* them up, and none of them waits for a row that nobody will give back.
THEOREM NobodyStuck == Spec => []SomeoneGoesOn
<1>1. Core /\ PlacesFit => SomeoneGoesOn
  <2> SUFFICES ASSUME Core, PlacesFit, Open # {}, \A p \in Open : ~MayGoOn(p)
               PROVE  FALSE
    BY DEF SomeoneGoesOn
  <2>1. PICK p \in Open : InCycle(p)
    BY StuckWaits, SomeoneInCycle
  <2>2. QED
    BY <2>1 DEF MayGoOn
<1>2. QED
  BY <1>1, PlacesInvariant, CoreInvariant, PTL

\* A request in progress that makes a step has one statement less to make at least, and
\* leaves the others as many as they had: once nobody joins them, whatever rows they
\* want, they end within MaxRows + 2 steps each.
THEOREM StepsBringNearer == Spec => StepsNear
<1>1. ASSUME Core, PlacesFit, NEW p \in Procs, Step(p)
      PROVE  Left(p)' < Left(p) /\ \A q \in Procs \ {p} : Left(q)' = Left(q)
  <2>1. req \in [Procs -> Request] /\ MaxRows \in Nat
    BY <1>1, AddressAssumption DEF Core, TypeOK
  <2>2. \A S \in SUBSET Rows : /\ IsFiniteSet(S) /\ Cardinality(S) \in Nat
                               /\ Cardinality(S) <= MaxRows
    <3>1. IsFiniteSet(Rows) /\ Cardinality(Rows) = created
      BY <1>1, FS_Interval, AddressAssumption DEF Core, TypeOK, Rows
    <3>2. \A S \in SUBSET Rows : /\ IsFiniteSet(S) /\ Cardinality(S) <= created
      BY <3>1, FS_Subset
    <3>3. created \in Nat /\ created <= MaxRows
      BY <1>1, <2>1 DEF Core, TypeOK
    <3>4. QED
      BY <2>1, <3>2, <3>3, FS_CardinalityType
  <2>3. ASSUME req[p].pc # "idle", Finish(p)
        PROVE  Left(p)' < Left(p) /\ \A q \in Procs \ {p} : Left(q)' = Left(q)
    <3>1. req'[p].pc = "idle" /\ \A q \in Procs \ {p} : req'[q] = req[q]
      BY <1>1, <2>3, Ends DEF Core
    <3>2. Left(p)' = 0 /\ \A q \in Procs \ {p} : Left(q)' = Left(q)
      BY <3>1 DEF Left
    <3>3. Cardinality(req[p].marked) \in Nat
      BY <1>1, <2>2 DEF PlacesFit
    <3>4. Left(p) \in Nat \ {0}
      BY <2>1, <2>3, <3>3 DEF Left, Request
    <3>5. QED
      BY <3>2, <3>4
  <2>4. CASE UnsetDefaults(p)
    <3>1. /\ req[p].pc = "unset" /\ req'[p].marked = Defaults
          /\ req'[p].pc = AfterLocking(Defaults) /\ \A q \in Procs \ {p} : req'[q] = req[q]
      BY <2>1, <2>4 DEF UnsetDefaults, Request
    <3>2. Left(p) = MaxRows + 2 /\ \A q \in Procs \ {p} : Left(q)' = Left(q)
      BY <3>1 DEF Left
    <3>3. Left(p)' \in {1, 1 + Cardinality(Defaults)}
      BY <3>1 DEF Left, AfterLocking
    <3>4. Cardinality(Defaults) \in Nat /\ Cardinality(Defaults) <= MaxRows
      BY <2>2 DEF Defaults, Live
    <3>5. QED
      BY <2>1, <3>2, <3>3, <3>4
  <2>5. ASSUME NEW r \in Rows, LockDefault(p, r)
        PROVE  Left(p)' < Left(p) /\ \A q \in Procs \ {p} : Left(q)' = Left(q)
    <3>1. /\ r \in req[p].marked /\ req'[p].marked = req[p].marked \ {r}
          /\ req'[p].pc = AfterLocking(req[p].marked \ {r})
          /\ \A q \in Procs \ {p} : req'[q] = req[q]
      BY <2>1, <2>5 DEF LockDefault, Request
    <3>2. PICK S, n : S = req[p].marked /\ n = Cardinality(S)
      OBVIOUS
    <3>3. n \in Nat \ {0} /\ Cardinality(S \ {r}) = n - 1
      <4>1. r \in S /\ IsFiniteSet(S) /\ n \in Nat
        BY <1>1, <2>2, <3>1, <3>2 DEF PlacesFit
      <4>2. Cardinality(S) # 0
        BY <4>1, FS_EmptySet
      <4>3. QED
        BY <3>2, <4>1, <4>2, FS_RemoveElement
    <3>4. Left(p)' = IF S \ {r} = {} THEN 1 ELSE 1 + (n - 1)
      BY <3>1, <3>2, <3>3 DEF Left, AfterLocking
    <3>5. Left(p) = 1 + n
      BY <1>1, <3>1, <3>2 DEF Left, PlacesFit
    <3>6. \A q \in Procs \ {p} : Left(q)' = Left(q)
      BY <3>1 DEF Left
    <3>7. Left(p)' < Left(p)
      BY <3>3, <3>4, <3>5
    <3>8. QED
      BY <3>6, <3>7
  <2>6. QED
    BY <1>1, <2>3, <2>4, <2>5
    DEF Step, CommitCreate, CommitUpdate, DeadlockVictim, InCycle, Waits, Wanted, Core, RequestsFit
<1>2. Core /\ PlacesFit /\ [Next]_vars =>
        [\A p \in Procs : Step(p) =>
           Left(p)' < Left(p) /\ \A q \in Procs \ {p} : Left(q)' = Left(q)]_vars
  BY <1>1
<1>3. QED
  BY <1>2, PlacesInvariant, CoreInvariant, PTL DEF Spec, StepsNear

=============================================================================
