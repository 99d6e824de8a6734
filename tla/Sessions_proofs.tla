--------------------------- MODULE Sessions_proofs ---------------------------
(* Proofs about Sessions, for any number of requests and of sessions. *)
EXTENDS Sessions, TLAPS

Login == {"timing", "commit"}
Authorised == {"slide", "deactivate", "delete"}

\* Nothing is known of a session before its login draws its id.
Fresh ==
    \A s \in SessionId : s > started =>
        row[s] = "none" /\ hash[s] = "none" /\ s \notin tokens /\ s \notin ended

\* Whoever is at work is at work on a session that was drawn.
Drawn == \A p \in Procs : req[p].pc # "idle" => Of(p) \in 1 .. started

\* What the request at a statement of the login can rely on.
LoginOK ==
    /\ \A p \in Procs : req[p].pc \in Login => row[Of(p)] = "none"
    /\ \A p \in Procs : req[p].pc = "commit" => hash[Of(p)] # "untimed"
    /\ \A p \in Procs : req[p].pc = "answer" => row[Of(p)] # "none"

\* No two logins write the same session.
LoginAlone ==
    \A p, q \in Procs :
        req[p].pc \in Login /\ req[q].pc \in Login /\ Of(p) = Of(q) => p = q

\* DeleteHash comes after Deactivate.
DeleteLate == \A p \in Procs : req[p].pc = "delete" => row[Of(p)] = "ended"

IInv ==
    /\ TypeOK
    /\ Fresh
    /\ Drawn
    /\ LoginOK
    /\ LoginAlone
    /\ DeleteLate
    /\ UsableMeansCommitted
    /\ LoggedOutForGood
    /\ UntimedNeverUsed

\* The ways a request moves on keep it a request, and touch no other.
LEMMA Moves ==
    ASSUME TypeOK, NEW p \in Procs
    PROVE  /\ \A step \in Steps : Goto(p, step) =>
                /\ req' \in [Procs -> Request]
                /\ req'[p].pc = step /\ req'[p].session = req[p].session
                /\ req'[p].logout = req[p].logout
                /\ \A q \in Procs \ {p} : req'[q] = req[q]
           /\ Finish(p) =>
                /\ req' \in [Procs -> Request]
                /\ req'[p].pc = "idle"
                /\ \A q \in Procs \ {p} : req'[q] = req[q]
<1>1. ASSUME NEW step \in Steps, Goto(p, step)
      PROVE  /\ req' \in [Procs -> Request]
             /\ req'[p].pc = step /\ req'[p].session = req[p].session
             /\ req'[p].logout = req[p].logout
             /\ \A q \in Procs \ {p} : req'[q] = req[q]
  BY <1>1 DEF TypeOK, Goto, Request
<1>2. Idle \in Request /\ Idle.pc = "idle"
  BY SessionAssumption DEF Idle, Request, Steps
<1>3. ASSUME Finish(p)
      PROVE  /\ req' \in [Procs -> Request]
             /\ req'[p].pc = "idle"
             /\ \A q \in Procs \ {p} : req'[q] = req[q]
  BY <1>2, <1>3 DEF TypeOK, Finish
<1>4. QED
  BY <1>1, <1>3

LEMMA InitIInv == Init => IInv
  BY SessionAssumption
  DEF Init, IInv, TypeOK, Fresh, Drawn, LoginOK, LoginAlone, DeleteLate, Login,
      UsableMeansCommitted, LoggedOutForGood, UntimedNeverUsed, SessionId, Idle,
      Request, Steps, Of

\* A login takes an id nobody knows.
LEMMA StoreHashStep ==
    ASSUME IInv, NEW p \in Procs, StoreHash(p)
    PROVE  IInv'
<1>1. TypeOK'
  BY Moves, SessionAssumption DEF IInv, Drawn, TypeOK, StoreHash, Request, SessionId, Steps
<1>2. Fresh' /\ Drawn'
  BY <1>1, Moves DEF IInv, TypeOK, Fresh, Drawn, StoreHash, Request, SessionId, Steps, Of
<1>3. LoginOK' /\ LoginAlone'
  BY <1>1, Moves DEF IInv, TypeOK, Fresh, Drawn, LoginOK, LoginAlone, Login,
                     UsableMeansCommitted, StoreHash, Request, SessionId, Steps, Of
<1>4. DeleteLate' /\ UsableMeansCommitted'
  BY <1>1, Moves DEF IInv, TypeOK, Fresh, Drawn, LoginOK, DeleteLate, Login,
                     UsableMeansCommitted, StoreHash, Request, SessionId, Steps, Of
<1>5. LoggedOutForGood' /\ UntimedNeverUsed'
  BY <1>1, Moves DEF IInv, TypeOK, Fresh, Drawn, LoginOK, DeleteLate, Login,
                     UsableMeansCommitted, LoggedOutForGood, UntimedNeverUsed,
                     StoreHash, Request, SessionId, Steps, Of
<1>6. QED
  BY <1>1, <1>2, <1>3, <1>4, <1>5 DEF IInv

\* Its session is nobody else's: no row, no token, no other login.
LEMMA TimeHashStep ==
    ASSUME IInv, NEW p \in Procs, TimeHash(p)
    PROVE  IInv'
<1>1. TypeOK'
  BY Moves, SessionAssumption DEF IInv, Drawn, TypeOK, TimeHash, SessionId, Steps
<1>2. Fresh' /\ Drawn'
  BY <1>1, Moves DEF IInv, TypeOK, Fresh, Drawn, TimeHash, SessionId, Steps, Of
<1>3. LoginOK' /\ LoginAlone'
  BY <1>1, Moves DEF IInv, TypeOK, Fresh, Drawn, LoginOK, LoginAlone, Login,
                     UsableMeansCommitted, TimeHash, SessionId, Steps, Of
<1>4. DeleteLate' /\ UsableMeansCommitted'
  BY <1>1, Moves DEF IInv, TypeOK, Fresh, Drawn, LoginOK, DeleteLate, Login,
                     UsableMeansCommitted, TimeHash, SessionId, Steps, Of
<1>5. LoggedOutForGood' /\ UntimedNeverUsed'
  BY <1>1, Moves DEF IInv, TypeOK, Fresh, Drawn, LoginOK, DeleteLate, Login,
                     UsableMeansCommitted, LoggedOutForGood, UntimedNeverUsed,
                     TimeHash, SessionId, Steps, Of
<1>6. QED
  BY <1>1, <1>2, <1>3, <1>4, <1>5 DEF IInv

\* The hash has its time to live by now.
LEMMA CommitRowStep ==
    ASSUME IInv, NEW p \in Procs, CommitRow(p)
    PROVE  IInv'
<1>1. TypeOK'
  BY Moves, SessionAssumption DEF IInv, Drawn, TypeOK, CommitRow, SessionId, Steps
<1>2. Fresh' /\ Drawn'
  BY <1>1, Moves DEF IInv, TypeOK, Fresh, Drawn, CommitRow, SessionId, Steps, Of
<1>3. LoginOK' /\ LoginAlone'
  BY <1>1, Moves DEF IInv, TypeOK, Fresh, Drawn, LoginOK, LoginAlone, Login,
                     UsableMeansCommitted, CommitRow, SessionId, Steps, Of
<1>4. DeleteLate' /\ UsableMeansCommitted'
  BY <1>1, Moves DEF IInv, TypeOK, Fresh, Drawn, LoginOK, DeleteLate, Login,
                     UsableMeansCommitted, CommitRow, SessionId, Steps, Of
<1>5. LoggedOutForGood' /\ UntimedNeverUsed'
  BY <1>1, Moves DEF IInv, TypeOK, Fresh, Drawn, LoginOK, DeleteLate, Login,
                     UsableMeansCommitted, LoggedOutForGood, UntimedNeverUsed,
                     CommitRow, SessionId, Steps, Of
<1>6. QED
  BY <1>1, <1>2, <1>3, <1>4, <1>5 DEF IInv

\* The token names a committed row.
LEMMA AnswerStep ==
    ASSUME IInv, NEW p \in Procs, Answer(p)
    PROVE  IInv'
<1>1. TypeOK'
  <2>1. Of(p) \in SessionId
    BY SessionAssumption DEF IInv, Drawn, TypeOK, Answer, SessionId
  <2>2. req' \in [Procs -> Request]
    BY Moves DEF IInv, Answer
  <2>3. QED
    BY <2>1, <2>2 DEF IInv, TypeOK, Answer
<1>2. Fresh' /\ Drawn'
  BY <1>1, Moves DEF IInv, TypeOK, Fresh, Drawn, Answer, SessionId, Steps, Of
<1>3. LoginOK' /\ LoginAlone'
  BY <1>1, Moves DEF IInv, TypeOK, Fresh, Drawn, LoginOK, LoginAlone, Login,
                     UsableMeansCommitted, Answer, SessionId, Steps, Of
<1>4. DeleteLate' /\ UsableMeansCommitted'
  BY <1>1, Moves DEF IInv, TypeOK, Fresh, Drawn, LoginOK, DeleteLate, Login,
                     UsableMeansCommitted, Answer, SessionId, Steps, Of
<1>5. LoggedOutForGood' /\ UntimedNeverUsed'
  BY <1>1, Moves DEF IInv, TypeOK, Fresh, Drawn, LoginOK, DeleteLate, Login,
                     UsableMeansCommitted, LoggedOutForGood, UntimedNeverUsed,
                     Answer, SessionId, Steps, Of
<1>6. QED
  BY <1>1, <1>2, <1>3, <1>4, <1>5 DEF IInv

\* Who gets in holds a token.
LEMMA AuthoriseStep ==
    ASSUME IInv, NEW p \in Procs, NEW s \in SessionId, NEW logout \in BOOLEAN, Authorise(p, s, logout)
    PROVE  IInv'
<1>1. TypeOK'
  BY Moves, SessionAssumption DEF IInv, Drawn, TypeOK, Authorise, Request, SessionId, Steps
<1>2. Fresh' /\ Drawn'
  BY <1>1, Moves DEF IInv, TypeOK, Fresh, Drawn, Authorise, Request, SessionId, Steps, Of
<1>3. LoginOK' /\ LoginAlone'
  BY <1>1, Moves DEF IInv, TypeOK, Fresh, Drawn, LoginOK, LoginAlone, Login,
                     UsableMeansCommitted, Authorise, Request, SessionId, Steps, Of
<1>4. DeleteLate' /\ UsableMeansCommitted'
  BY <1>1, Moves DEF IInv, TypeOK, Fresh, Drawn, LoginOK, DeleteLate, Login,
                     UsableMeansCommitted, Authorise, Request, SessionId, Steps, Of
<1>5. LoggedOutForGood' /\ UntimedNeverUsed'
  BY <1>1, Moves DEF IInv, TypeOK, Fresh, Drawn, LoginOK, DeleteLate, Login,
                     UsableMeansCommitted, LoggedOutForGood, UntimedNeverUsed,
                     Authorise, Request, SessionId, Steps, Of
<1>6. QED
  BY <1>1, <1>2, <1>3, <1>4, <1>5 DEF IInv

\* An extension creates nothing.
LEMMA SlideStep ==
    ASSUME IInv, NEW p \in Procs, Slide(p) \/ SlideFails(p)
    PROVE  IInv'
<1>1. TypeOK'
  BY Moves, SessionAssumption DEF IInv, Drawn, TypeOK, Slide, SlideFails, Extended, SessionId, Steps
<1>2. Fresh' /\ Drawn'
  BY <1>1, Moves DEF IInv, TypeOK, Fresh, Drawn, Slide, SlideFails, Extended, SessionId, Steps, Of
<1>3. LoginOK' /\ LoginAlone'
  <2>1. \A q \in Procs : req'[q].pc \in Login \cup {"answer"} => req'[q] = req[q]
    BY Moves DEF IInv, TypeOK, Login, Slide, SlideFails, Extended, Steps
  <2>2. row' = row /\ \A q \in SessionId : hash'[q] = "untimed" => hash[q] = "untimed"
    BY DEF IInv, TypeOK, Slide, SlideFails, Extended
  <2>3. LoginAlone'
    BY <2>1 DEF IInv, LoginAlone, Login, Of
  <2>4. LoginOK'
    BY <2>1, <2>2, SessionAssumption DEF IInv, TypeOK, LoginOK, Login, Drawn, SessionId, Of
  <2>5. QED
    BY <2>3, <2>4
<1>4. DeleteLate' /\ UsableMeansCommitted'
  BY <1>1, Moves DEF IInv, TypeOK, Fresh, Drawn, LoginOK, DeleteLate, Login,
                     UsableMeansCommitted, Slide, SlideFails, Extended, SessionId, Steps, Of
<1>5. LoggedOutForGood' /\ UntimedNeverUsed'
  BY <1>1, Moves DEF IInv, TypeOK, Fresh, Drawn, LoginOK, DeleteLate, Login,
                     UsableMeansCommitted, LoggedOutForGood, UntimedNeverUsed,
                     Slide, SlideFails, Extended, SessionId, Steps, Of
<1>6. QED
  BY <1>1, <1>2, <1>3, <1>4, <1>5 DEF IInv

\* Logout ends a committed row.
LEMMA DeactivateStep ==
    ASSUME IInv, NEW p \in Procs, Deactivate(p)
    PROVE  IInv'
<1>1. TypeOK'
  BY Moves, SessionAssumption DEF IInv, Drawn, TypeOK, Deactivate, SessionId, Steps
<1>2. Fresh' /\ Drawn'
  BY <1>1, Moves DEF IInv, TypeOK, Fresh, Drawn, Deactivate, SessionId, Steps, Of
<1>3. LoginOK' /\ LoginAlone'
  BY <1>1, Moves DEF IInv, TypeOK, Fresh, Drawn, LoginOK, LoginAlone, Login,
                     UsableMeansCommitted, Deactivate, SessionId, Steps, Of
<1>4. DeleteLate' /\ UsableMeansCommitted'
  BY <1>1, Moves DEF IInv, TypeOK, Fresh, Drawn, LoginOK, DeleteLate, Login,
                     UsableMeansCommitted, Deactivate, SessionId, Steps, Of
<1>5. LoggedOutForGood' /\ UntimedNeverUsed'
  BY <1>1, Moves DEF IInv, TypeOK, Fresh, Drawn, LoginOK, DeleteLate, Login,
                     UsableMeansCommitted, LoggedOutForGood, UntimedNeverUsed,
                     Deactivate, SessionId, Steps, Of
<1>6. QED
  BY <1>1, <1>2, <1>3, <1>4, <1>5 DEF IInv

\* Then nothing is left of the session.
LEMMA DeleteHashStep ==
    ASSUME IInv, NEW p \in Procs, DeleteHash(p)
    PROVE  IInv'
<1>1. TypeOK'
  <2>1. Of(p) \in SessionId
    BY SessionAssumption DEF IInv, Drawn, TypeOK, DeleteHash, SessionId
  <2>2. req' \in [Procs -> Request]
    BY Moves DEF IInv, DeleteHash
  <2>3. QED
    BY <2>1, <2>2 DEF IInv, TypeOK, DeleteHash
<1>2. Fresh' /\ Drawn'
  BY <1>1, Moves DEF IInv, TypeOK, Fresh, Drawn, DeleteHash, SessionId, Steps, Of
<1>3. LoginOK' /\ LoginAlone'
  BY <1>1, Moves DEF IInv, TypeOK, Fresh, Drawn, LoginOK, LoginAlone, Login,
                     UsableMeansCommitted, DeleteHash, SessionId, Steps, Of
<1>4. DeleteLate' /\ UsableMeansCommitted'
  BY <1>1, Moves DEF IInv, TypeOK, Fresh, Drawn, LoginOK, DeleteLate, Login,
                     UsableMeansCommitted, DeleteHash, SessionId, Steps, Of
<1>5. LoggedOutForGood' /\ UntimedNeverUsed'
  BY <1>1, Moves DEF IInv, TypeOK, Fresh, Drawn, LoginOK, DeleteLate, Login,
                     UsableMeansCommitted, LoggedOutForGood, UntimedNeverUsed,
                     DeleteHash, SessionId, Steps, Of
<1>6. QED
  BY <1>1, <1>2, <1>3, <1>4, <1>5 DEF IInv

\* What a request leaves behind is what was there.
LEMMA AbandonStep ==
    ASSUME IInv, NEW p \in Procs, Abandon(p)
    PROVE  IInv'
<1>1. TypeOK'
  BY Moves, SessionAssumption DEF IInv, Drawn, TypeOK, Abandon, SessionId, Steps
<1>2. Fresh' /\ Drawn'
  BY <1>1, Moves DEF IInv, TypeOK, Fresh, Drawn, Abandon, SessionId, Steps, Of
<1>3. LoginOK' /\ LoginAlone'
  BY <1>1, Moves DEF IInv, TypeOK, Fresh, Drawn, LoginOK, LoginAlone, Login,
                     UsableMeansCommitted, Abandon, SessionId, Steps, Of
<1>4. DeleteLate' /\ UsableMeansCommitted'
  BY <1>1, Moves DEF IInv, TypeOK, Fresh, Drawn, LoginOK, DeleteLate, Login,
                     UsableMeansCommitted, Abandon, SessionId, Steps, Of
<1>5. LoggedOutForGood' /\ UntimedNeverUsed'
  BY <1>1, Moves DEF IInv, TypeOK, Fresh, Drawn, LoginOK, DeleteLate, Login,
                     UsableMeansCommitted, LoggedOutForGood, UntimedNeverUsed,
                     Abandon, SessionId, Steps, Of
<1>6. QED
  BY <1>1, <1>2, <1>3, <1>4, <1>5 DEF IInv

\* Time only takes away.
LEMMA LapseStep ==
    ASSUME IInv, NEW s \in SessionId, HashLapses(s) \/ TokenExpires(s)
    PROVE  IInv'
<1>1. TypeOK'
  BY Moves, SessionAssumption DEF IInv, Drawn, TypeOK, HashLapses, TokenExpires, SessionId, Steps
<1>2. Fresh' /\ Drawn'
  BY <1>1, Moves DEF IInv, TypeOK, Fresh, Drawn, HashLapses, TokenExpires, SessionId, Steps, Of
<1>3. LoginOK' /\ LoginAlone'
  <2>1. \A q \in Procs : req'[q].pc \in Login \cup {"answer"} => req'[q] = req[q]
    BY Moves DEF IInv, TypeOK, Login, HashLapses, TokenExpires, Steps
  <2>2. row' = row /\ \A q \in SessionId : hash'[q] = "untimed" => hash[q] = "untimed"
    BY DEF IInv, TypeOK, HashLapses, TokenExpires
  <2>3. LoginAlone'
    BY <2>1 DEF IInv, LoginAlone, Login, Of
  <2>4. LoginOK'
    BY <2>1, <2>2, SessionAssumption DEF IInv, TypeOK, LoginOK, Login, Drawn, SessionId, Of
  <2>5. QED
    BY <2>3, <2>4
<1>4. DeleteLate' /\ UsableMeansCommitted'
  BY <1>1, Moves DEF IInv, TypeOK, Fresh, Drawn, LoginOK, DeleteLate, Login,
                     UsableMeansCommitted, HashLapses, TokenExpires, SessionId, Steps, Of
<1>5. LoggedOutForGood' /\ UntimedNeverUsed'
  BY <1>1, Moves DEF IInv, TypeOK, Fresh, Drawn, LoginOK, DeleteLate, Login,
                     UsableMeansCommitted, LoggedOutForGood, UntimedNeverUsed,
                     HashLapses, TokenExpires, SessionId, Steps, Of
<1>6. QED
  BY <1>1, <1>2, <1>3, <1>4, <1>5 DEF IInv

\* IInv is inductive.
LEMMA NextIInv == IInv /\ [Next]_vars => IInv'
<1> SUFFICES ASSUME IInv, [Next]_vars
             PROVE  IInv'
  OBVIOUS
<1>1. ASSUME NEW p \in Procs, StoreHash(p)
      PROVE  IInv'
  BY <1>1, StoreHashStep
<1>2. ASSUME NEW p \in Procs, NEW s \in SessionId, NEW logout \in BOOLEAN,
             Authorise(p, s, logout)
      PROVE  IInv'
  BY <1>2, AuthoriseStep
<1>3. ASSUME NEW p \in Procs, Step(p)
      PROVE  IInv'
  BY <1>3, TimeHashStep, CommitRowStep, AnswerStep, SlideStep, DeactivateStep,
     DeleteHashStep DEF Step
<1>4. ASSUME NEW p \in Procs, SlideFails(p) \/ Abandon(p)
      PROVE  IInv'
  BY <1>4, SlideStep, AbandonStep
<1>5. ASSUME NEW s \in SessionId, HashLapses(s) \/ TokenExpires(s)
      PROVE  IInv'
  BY <1>5, LapseStep
<1>6. ASSUME UNCHANGED vars
      PROVE  IInv'
  BY <1>6 DEF vars, IInv, TypeOK, Fresh, Drawn, LoginOK, LoginAlone, DeleteLate, Of,
              UsableMeansCommitted, LoggedOutForGood, UntimedNeverUsed
<1>7. ASSUME NEW p \in Procs, NEW s \in SessionId, Refuse(p, s)
      PROVE  IInv'
  BY <1>6, <1>7 DEF Refuse
<1>8. QED
  BY <1>1, <1>2, <1>3, <1>4, <1>5, <1>6, <1>7 DEF Next

\* The two copies of a session, and the requests at work on them, fit together in
\* every state, whatever overlaps, fails or lapses.
THEOREM SessionInvariant == Spec => []IInv
  BY InitIInv, NextIInv, PTL DEF Spec

\* Every token and every request names a session, for any number of them.
THEOREM TypeCorrect == Spec => []TypeOK
<1>1. IInv => TypeOK
  BY DEF IInv
<1>2. QED
  BY <1>1, SessionInvariant, PTL

\* SetSession before COMMIT: no hash without a row is ever usable.
THEOREM UsableCommitted == Spec => []UsableMeansCommitted
<1>1. IInv => UsableMeansCommitted
  BY DEF IInv
<1>2. QED
  BY <1>1, SessionInvariant, PTL

\* The middleware's EXPIRE never brings back what Logout deleted.
THEOREM LoggedOut == Spec => []LoggedOutForGood
<1>1. IInv => LoggedOutForGood
  BY DEF IInv
<1>2. QED
  BY <1>1, SessionInvariant, PTL

\* HSET without EXPIRE never outlives a login that succeeded.
THEOREM NeverUntimed == Spec => []UntimedNeverUsed
<1>1. IInv => UntimedNeverUsed
  BY DEF IInv
<1>2. QED
  BY <1>1, SessionInvariant, PTL

=============================================================================
