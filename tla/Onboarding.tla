----------------------------- MODULE Onboarding -----------------------------
(***************************************************************************)
(* Role onboarding of one user: InitOnboarding, SubmitOnboarding and       *)
(* ResubmitOnboarding behind the gate RequireOnboardingAccess, and the     *)
(* upload callback MarkDocumentUploaded, which has no gate.                *)
(*                                                                         *)
(* The gate and the checks of a handler read committed state before the    *)
(* handler's transaction; the transaction's UPDATEs ask nothing again, so  *)
(* it is one action.  Approving or rejecting a submission has no endpoint: *)
(* Review stands for whoever does it, and clears the user's flag with a    *)
(* rejection, as the note in SubmitOnboarding demands.                     *)
(***************************************************************************)
EXTENDS Naturals, FiniteSets

CONSTANTS
    Procs,      \* requests in progress at a time
    Docs,       \* document types required of the user's role
    MayReview,  \* whether submissions are reviewed
    MayFail,    \* whether statements may fail and requests be cut off
    MaxForms    \* bound: onboardings rows ever inserted

ASSUME OnboardingAssumption ==
    /\ IsFiniteSet(Procs) /\ Procs # {}
    /\ MayReview \in BOOLEAN
    /\ MayFail \in BOOLEAN
    /\ MaxForms \in Nat

VARIABLES
    forms,      \* onboardings with their onboarding_documents, by insertion
    created,    \* how many there are
    complete,   \* users.onboarding_complete
    late,       \* forms started or submitted since the flag was set (history)
    req         \* the requests in progress

vars == <<forms, created, complete, late, req>>

FormId == 1 .. MaxForms
Rows == 1 .. created
Statuses == {"draft", "pending_verification", "approved", "rejected"}
Form == [status: Statuses \cup {"none"}, uploaded: SUBSET Docs]
NoForm == [status |-> "none", uploaded |-> {}]
Submitted == {"pending_verification", "approved"}

\* The next statement: Init's transaction; Submit's lookup, count and
\* transaction; Resubmit's lookup and transaction.
Steps == {"idle", "init", "find", "count", "submit", "refind", "reopen"}
Request == [pc: Steps, form: 0 .. MaxForms]
Idle == [pc |-> "idle", form |-> 0]

Init ==
    /\ forms = [f \in FormId |-> NoForm]
    /\ created = 0
    /\ complete = FALSE
    /\ late = 0
    /\ req = [p \in Procs |-> Idle]

Goto(p, step) == req' = [req EXCEPT ![p].pc = step]
Finish(p) == req' = [req EXCEPT ![p] = Idle]
Status(p) == forms[req[p].form].status

\* late, after the flag goes from complete to flag and a form is written.
CountLate(flag) == late' = IF complete /\ flag THEN late + 1 ELSE 0

----------------------------------------------------------------------------
(* RequireOnboardingAccess *)

\* Mutant: lets everybody through.
GateAlwaysOpen == TRUE

GateOpen == ~complete

Enter(p, step, f) ==
    /\ req[p].pc = "idle"
    /\ GateOpen
    /\ req' = [req EXCEPT ![p] = [pc |-> step, form |-> f]]
    /\ UNCHANGED <<forms, created, complete, late>>

\* 409: nothing changes.
GateRefused(p) ==
    /\ req[p].pc = "idle"
    /\ ~GateOpen
    /\ UNCHANGED vars

----------------------------------------------------------------------------
(* InitOnboarding *)

\* createOnboardingDraft: the row and a pending document of every type.  When an
\* upload URL cannot be signed afterwards, the draft stays behind.
CreateDraft(p) ==
    /\ req[p].pc = "init"
    /\ created < MaxForms
    /\ created' = created + 1
    /\ forms' = [forms EXCEPT ![created + 1] = [status |-> "draft", uploaded |-> {}]]
    /\ CountLate(complete)
    /\ Finish(p)
    /\ UNCHANGED complete

\* The callback of the object store; of another key, or again, it is a 404.
MarkUploaded(f, d) ==
    /\ f \in Rows
    /\ d \notin forms[f].uploaded
    /\ forms' = [forms EXCEPT ![f].uploaded = @ \cup {d}]
    /\ UNCHANGED <<created, complete, late, req>>

----------------------------------------------------------------------------
(* SubmitOnboarding *)

FindForSubmit(p) ==
    /\ req[p].pc = "find"
    /\ IF Status(p) \in Submitted THEN Finish(p) ELSE Goto(p, "count")
    /\ UNCHANGED <<forms, created, complete, late>>

\* Mutant: one document is enough.
NothingPendingAny(f) == forms[f].uploaded # {}

\* CountPendingOnboardingDocuments is 0.
NothingPending(f) == forms[f].uploaded = Docs

CountPending(p) ==
    /\ req[p].pc = "count"
    /\ IF NothingPending(req[p].form) THEN Goto(p, "submit") ELSE Finish(p)
    /\ UNCHANGED <<forms, created, complete, late>>

\* Mutant: a status the column's CHECK does not list.
CommitSubmitUnlisted(p) ==
    /\ req[p].pc = "submit"
    /\ forms' = [forms EXCEPT ![req[p].form].status = "submitted"]
    /\ complete' = TRUE
    /\ CountLate(TRUE)
    /\ Finish(p)
    /\ UNCHANGED created

\* UpdateOnboardingStatus, SetUserOnboardingComplete and audit row.
CommitSubmit(p) ==
    /\ req[p].pc = "submit"
    /\ forms' = [forms EXCEPT ![req[p].form].status = "pending_verification"]
    /\ complete' = TRUE
    /\ CountLate(TRUE)
    /\ Finish(p)
    /\ UNCHANGED created

----------------------------------------------------------------------------
(* ResubmitOnboarding *)

FindForResubmit(p) ==
    /\ req[p].pc = "refind"
    /\ IF Status(p) = "rejected" THEN Goto(p, "reopen") ELSE Finish(p)
    /\ UNCHANGED <<forms, created, complete, late>>

\* Mutant: the user's flag stays as it is.
CommitReopenKeepFlag(p) ==
    /\ req[p].pc = "reopen"
    /\ forms' = [forms EXCEPT ![req[p].form].status = "draft"]
    /\ Finish(p)
    /\ UNCHANGED <<created, complete, late>>

CommitReopen(p) ==
    /\ req[p].pc = "reopen"
    /\ forms' = [forms EXCEPT ![req[p].form].status = "draft"]
    /\ complete' = FALSE
    /\ late' = 0
    /\ Finish(p)
    /\ UNCHANGED created

----------------------------------------------------------------------------
(* Environment *)

Review(f, verdict) ==
    /\ MayReview
    /\ f \in Rows
    /\ forms[f].status = "pending_verification"
    /\ forms' = [forms EXCEPT ![f].status = verdict]
    /\ complete' = (complete /\ verdict # "rejected")
    /\ late' = IF verdict = "rejected" THEN 0 ELSE late
    /\ UNCHANGED <<created, req>>

\* A statement fails or the client is gone; an open transaction is rolled back.
Abandon(p) ==
    /\ MayFail
    /\ req[p].pc # "idle"
    /\ Finish(p)
    /\ UNCHANGED <<forms, created, complete, late>>

Step(p) ==
    \/ CreateDraft(p) \/ FindForSubmit(p) \/ CountPending(p) \/ CommitSubmit(p)
    \/ FindForResubmit(p) \/ CommitReopen(p)

Next ==
    \/ \E p \in Procs :
         \/ /\ created + Cardinality({q \in Procs : req[q].pc = "init"}) < MaxForms
            /\ Enter(p, "init", 0)
         \/ \E f \in Rows : Enter(p, "find", f) \/ Enter(p, "refind", f)
         \/ GateRefused(p)
         \/ Step(p)
         \/ Abandon(p)
    \/ \E f \in Rows, d \in Docs : MarkUploaded(f, d)
    \/ \E f \in Rows, verdict \in {"approved", "rejected"} : Review(f, verdict)

Spec == Init /\ [][Next]_vars

----------------------------------------------------------------------------
(* Properties *)

\* The variables keep their types: statuses stay within chk_onboardings_status,
\* and exactly the rows inserted have one.
TypeOK ==
    /\ forms \in [FormId -> Form]
    /\ created \in 0 .. MaxForms
    /\ \A f \in FormId : f \in Rows <=> forms[f].status # "none"
    /\ complete \in BOOLEAN
    /\ late \in Nat
    /\ req \in [Procs -> Request]

\* No submission is ever without one of its documents, however the count, the
\* uploads, the reviews and other submissions of the same form interleave.
SubmittedHasDocuments ==
    \A f \in Rows : forms[f].status \in Submitted => forms[f].uploaded = Docs

\* The gate's flag and the forms are written together: a user who is kept out as
\* "completed" has a submission that is open or approved, never only a draft or
\* a rejection that nobody could take up again (business/onboarding.go:84-90).
CompleteMeansSubmitted ==
    complete => \E f \in Rows : forms[f].status \in Submitted

\* The flag ends onboarding ("a user could re-init and re-submit forever",
\* business/onboarding.go:86-87): only requests the gate had let in before can
\* still start or submit a form, once each.
LateWorkBounded == late <= Cardinality(Procs) - 1

=============================================================================
