------------------------------ MODULE Sessions ------------------------------
(***************************************************************************)
(* A login session lives twice: as a row of sessions in PostgreSQL and as  *)
(* a hash in Redis.  The login transaction of VerifyOTP writes the hash    *)
(* before it commits the row; JWTAuthMiddleware asks only the hash and     *)
(* extends its time to live; Logout ends the row and then deletes the      *)
(* hash.  PhoneOTP models what decides whether a login gets this far.      *)
(***************************************************************************)
EXTENDS Naturals, FiniteSets

CONSTANTS
    Procs,          \* requests in progress at a time
    MayFail,        \* whether statements may fail and requests be cut off
    MaxSessions     \* bound: logins ever started

ASSUME SessionAssumption ==
    /\ IsFiniteSet(Procs) /\ Procs # {}
    /\ MayFail \in BOOLEAN
    /\ MaxSessions \in Nat \ {0}

VARIABLES
    row,        \* sessions: "none", "active" or "ended" (is_active = FALSE)
    hash,       \* SessionKey: "none", "untimed" (no time to live yet) or "timed"
    started,    \* session ids drawn so far
    tokens,     \* sessions whose unexpired access token a client holds
    ended,      \* sessions whose Logout has deleted the hash (history)
    req         \* the requests in progress

vars == <<row, hash, started, tokens, ended, req>>

SessionId == 1 .. MaxSessions
Steps == {"idle", "timing", "commit", "answer", "slide", "deactivate", "delete"}
Request == [pc: Steps, session: 0 .. MaxSessions, logout: BOOLEAN]
Idle == [pc |-> "idle", session |-> 0, logout |-> FALSE]

Init ==
    /\ row = [s \in SessionId |-> "none"]
    /\ hash = [s \in SessionId |-> "none"]
    /\ started = 0
    /\ tokens = {}
    /\ ended = {}
    /\ req = [p \in Procs |-> Idle]

Goto(p, step) == req' = [req EXCEPT ![p].pc = step]
Finish(p) == req' = [req EXCEPT ![p] = Idle]
Of(p) == req[p].session

----------------------------------------------------------------------------
(* The end of VerifyOTP *)

\* SetSession's HSET, the last write inside the transaction that inserts the row
\* of a new session id.
StoreHash(p) ==
    /\ req[p].pc = "idle"
    /\ started < MaxSessions
    /\ started' = started + 1
    /\ hash' = [hash EXCEPT ![started + 1] = "untimed"]
    /\ req' = [req EXCEPT ![p] = [pc |-> "timing", session |-> started + 1,
                                  logout |-> FALSE]]
    /\ UNCHANGED <<row, tokens, ended>>

\* Mutant: HSET is thought to be enough.
TimeHashSkipped(p) ==
    /\ req[p].pc = "timing"
    /\ Goto(p, "commit")
    /\ UNCHANGED <<row, hash, started, tokens, ended>>

\* SetSession's EXPIRE.
TimeHash(p) ==
    /\ req[p].pc = "timing"
    /\ hash' = [hash EXCEPT ![Of(p)] = "timed"]
    /\ Goto(p, "commit")
    /\ UNCHANGED <<row, started, tokens, ended>>

\* Mutant: the answer does not wait for the commit to succeed.
CommitRowLost(p) ==
    /\ req[p].pc = "commit"
    /\ Goto(p, "answer")
    /\ UNCHANGED <<row, hash, started, tokens, ended>>

CommitRow(p) ==
    /\ req[p].pc = "commit"
    /\ row' = [row EXCEPT ![Of(p)] = "active"]
    /\ Goto(p, "answer")
    /\ UNCHANGED <<hash, started, tokens, ended>>

\* Mutant: the token is signed without the session id.
AnswerUnnamed(p) ==
    /\ req[p].pc = "answer"
    /\ tokens' = tokens \cup {Idle.session}
    /\ Finish(p)
    /\ UNCHANGED <<row, hash, started, ended>>

\* CreateAccessToken and the answer.
Answer(p) ==
    /\ req[p].pc = "answer"
    /\ tokens' = tokens \cup {Of(p)}
    /\ Finish(p)
    /\ UNCHANGED <<row, hash, started, ended>>

----------------------------------------------------------------------------
(* JWTAuthMiddleware, for Logout or for any other request *)

\* Mutant: a valid token is enough.
AuthoriseByToken(p, s, logout) ==
    /\ req[p].pc = "idle"
    /\ s \in tokens
    /\ req' = [req EXCEPT ![p] = [pc |-> "slide", session |-> s, logout |-> logout]]
    /\ UNCHANGED <<row, hash, started, tokens, ended>>

Authorise(p, s, logout) ==
    /\ req[p].pc = "idle"
    /\ s \in tokens
    /\ hash[s] # "none"
    /\ req' = [req EXCEPT ![p] = [pc |-> "slide", session |-> s, logout |-> logout]]
    /\ UNCHANGED <<row, hash, started, tokens, ended>>

\* 401, session not found: nothing changes.
Refuse(p, s) ==
    /\ req[p].pc = "idle"
    /\ s \in tokens => hash[s] = "none"
    /\ UNCHANGED vars

\* Mutant: extends the session by writing it again.
Rewritten(s) == "timed"

\* EXPIRE does nothing to a key that is gone.
Extended(s) == IF hash[s] = "none" THEN "none" ELSE "timed"

Slide(p) ==
    /\ req[p].pc = "slide"
    /\ hash' = [hash EXCEPT ![Of(p)] = Extended(Of(p))]
    /\ IF req[p].logout THEN Goto(p, "deactivate") ELSE Finish(p)
    /\ UNCHANGED <<row, started, tokens, ended>>

\* The error of that EXPIRE is dropped.
SlideFails(p) ==
    /\ MayFail
    /\ req[p].pc = "slide"
    /\ IF req[p].logout THEN Goto(p, "deactivate") ELSE Finish(p)
    /\ UNCHANGED <<row, hash, started, tokens, ended>>

----------------------------------------------------------------------------
(* Logout *)

\* DeactivateSession and the audit row.
Deactivate(p) ==
    /\ req[p].pc = "deactivate"
    /\ row' = [row EXCEPT ![Of(p)] = "ended"]
    /\ Goto(p, "delete")
    /\ UNCHANGED <<hash, started, tokens, ended>>

\* DeleteSession; should it fail, the client is still told that it is logged out.
DeleteHash(p) ==
    /\ req[p].pc = "delete"
    /\ hash' = [hash EXCEPT ![Of(p)] = "none"]
    /\ ended' = ended \cup {Of(p)}
    /\ Finish(p)
    /\ UNCHANGED <<row, started, tokens>>

----------------------------------------------------------------------------
(* Environment *)

\* The request ends before its next statement; an open transaction is rolled
\* back, but not what it wrote to Redis.
Abandon(p) ==
    /\ MayFail
    /\ req[p].pc # "idle"
    /\ Finish(p)
    /\ UNCHANGED <<row, hash, started, tokens, ended>>

HashLapses(s) ==
    /\ hash[s] = "timed"
    /\ hash' = [hash EXCEPT ![s] = "none"]
    /\ UNCHANGED <<row, started, tokens, ended, req>>

TokenExpires(s) ==
    /\ s \in tokens
    /\ tokens' = tokens \ {s}
    /\ UNCHANGED <<row, hash, started, ended, req>>

Step(p) ==
    \/ TimeHash(p) \/ CommitRow(p) \/ Answer(p)
    \/ Slide(p) \/ Deactivate(p) \/ DeleteHash(p)

Next ==
    \/ \E p \in Procs :
         \/ StoreHash(p)
         \/ \E s \in SessionId : \/ \E logout \in BOOLEAN : Authorise(p, s, logout)
                                 \/ Refuse(p, s)
         \/ Step(p)
         \/ SlideFails(p)
         \/ Abandon(p)
    \/ \E s \in SessionId : HashLapses(s) \/ TokenExpires(s)

Spec == Init /\ [][Next]_vars

----------------------------------------------------------------------------
(* Properties *)

\* The variables keep their types; every token names a session that was started.
TypeOK ==
    /\ row \in [SessionId -> {"none", "active", "ended"}]
    /\ hash \in [SessionId -> {"none", "untimed", "timed"}]
    /\ started \in 0 .. MaxSessions
    /\ tokens \subseteq SessionId
    /\ ended \subseteq SessionId
    /\ req \in [Procs -> Request]

\* Redis learns of a session before PostgreSQL has committed it, and keeps it
\* when the commit fails.  Nobody can use such a hash: whoever holds a token, or
\* got past the middleware, belongs to a committed row.
UsableMeansCommitted ==
    /\ \A s \in tokens : row[s] # "none"
    /\ \A p \in Procs : req[p].pc \in {"slide", "deactivate", "delete"} =>
                            row[Of(p)] # "none"

\* A session whose hash Logout has deleted stays out: a request that passed the
\* middleware at the same time cannot bring the hash back when it extends it.
LoggedOutForGood ==
    \A s \in ended : hash[s] = "none" /\ row[s] = "ended"

\* SetSession is two commands, and a failure between them leaves a hash that never
\* lapses.  No session that was committed, so none a token names, is kept by such a
\* hash: its end can always come.
UntimedNeverUsed ==
    \A s \in SessionId : hash[s] = "untimed" => row[s] = "none" /\ s \notin tokens

=============================================================================
