-------------------------- MODULE Onboarding_proofs --------------------------
(* Proofs about Onboarding, for any number of requests, documents and forms. *)
EXTENDS Onboarding, FiniteSetTheorems, TLAPS

Looking == {"find", "count", "submit", "refind", "reopen"}

\* A request past the gate works on a form that is there.
FormThere == \A p \in Procs : req[p].pc \in Looking => req[p].form \in Rows

\* Documents once counted stay uploaded.
CountedStays == \A p \in Procs : req[p].pc = "submit" => NothingPending(req[p].form)

\* The requests at work.
Working == {p \in Procs : req[p].pc # "idle"}

\* What was done late, and what can still be, comes from the requests besides the
\* one that set the flag.
LateBudget ==
    /\ complete => late + Cardinality(Working) <= Cardinality(Procs) - 1
    /\ ~complete => late = 0

Core ==
    /\ TypeOK
    /\ FormThere
    /\ CountedStays
    /\ SubmittedHasDocuments
    /\ CompleteMeansSubmitted

LEMMA InitCore == Init => Core
<1>1. NoForm \in Form /\ NoForm.status = "none" /\ Idle \in Request /\ Idle.pc = "idle"
  BY OnboardingAssumption DEF NoForm, Form, Idle, Request, Steps
<1>2. Init => TypeOK
  <2>1. 0 \in 0 .. MaxForms /\ 1 .. 0 = {}
    BY OnboardingAssumption
  <2>2. ASSUME Init
        PROVE  forms \in [FormId -> Form] /\ \A f \in FormId : forms[f].status = "none"
    BY <1>1, <2>2 DEF Init
  <2>3. ASSUME Init
        PROVE  Rows = {} /\ created \in 0 .. MaxForms /\ complete \in BOOLEAN /\ late \in Nat
    BY <2>1, <2>3 DEF Init, Rows
  <2>4. Init => req \in [Procs -> Request]
    BY <1>1 DEF Init
  <2>5. QED
    BY <2>2, <2>3, <2>4 DEF TypeOK
<1>3. Init => FormThere /\ CountedStays /\ SubmittedHasDocuments /\ CompleteMeansSubmitted
  BY <1>1 DEF Init, FormThere, CountedStays, SubmittedHasDocuments, CompleteMeansSubmitted,
              Looking, Rows, Submitted
<1>4. QED
  BY <1>2, <1>3 DEF Core

\* How a request moves on, and that no other does.
LEMMA Moves ==
    ASSUME TypeOK, NEW p \in Procs
    PROVE  /\ \A step \in Steps : Goto(p, step) =>
                /\ req' \in [Procs -> Request]
                /\ req'[p].pc = step /\ req'[p].form = req[p].form
                /\ \A q \in Procs \ {p} : req'[q] = req[q]
           /\ Finish(p) =>
                /\ req' \in [Procs -> Request]
                /\ req'[p].pc = "idle"
                /\ \A q \in Procs \ {p} : req'[q] = req[q]
<1>1. ASSUME NEW step \in Steps, Goto(p, step)
      PROVE  /\ req' \in [Procs -> Request]
             /\ req'[p].pc = step /\ req'[p].form = req[p].form
             /\ \A q \in Procs \ {p} : req'[q] = req[q]
  BY <1>1 DEF TypeOK, Goto, Request
<1>2. Idle \in Request /\ Idle.pc = "idle"
  BY OnboardingAssumption DEF Idle, Request, Steps
<1>3. ASSUME Finish(p)
      PROVE  /\ req' \in [Procs -> Request]
             /\ req'[p].pc = "idle"
             /\ \A q \in Procs \ {p} : req'[q] = req[q]
  BY <1>2, <1>3 DEF TypeOK, Finish
<1>4. QED
  BY <1>1, <1>3

\* The gate lets a request in for a form that is there.
LEMMA EnterStep ==
    ASSUME Core, NEW p \in Procs, NEW step \in {"init", "find", "refind"},
           NEW f \in 0 .. MaxForms, step # "init" => f \in Rows, Enter(p, step, f)
    PROVE  Core'
<1>1. req' \in [Procs -> Request]
  BY DEF Core, TypeOK, Enter, Request, Steps
<1>2. req'[p].pc = step /\ req'[p].form = f /\ \A q \in Procs \ {p} : req'[q] = req[q]
  BY DEF Core, TypeOK, Enter
<1>3. TypeOK'
  BY <1>1 DEF Core, TypeOK, Enter, Rows
<1>4. FormThere' /\ CountedStays'
  BY <1>2 DEF Core, FormThere, CountedStays, NothingPending, Enter, Looking, Rows
<1>5. SubmittedHasDocuments' /\ CompleteMeansSubmitted'
  BY DEF Core, SubmittedHasDocuments, CompleteMeansSubmitted, Enter, Rows
<1>6. QED
  BY <1>3, <1>4, <1>5 DEF Core

\* A handler's own lookups and counts change nothing but where it is.
LEMMA LookStep ==
    ASSUME Core, NEW p \in Procs,
           FindForSubmit(p) \/ CountPending(p) \/ FindForResubmit(p) \/ Abandon(p)
    PROVE  Core'
<1>1. TypeOK'
  BY Moves DEF Core, TypeOK, FindForSubmit, CountPending, FindForResubmit, Abandon, Rows, Steps
<1>2. FormThere' /\ CountedStays'
  BY Moves DEF Core, FormThere, CountedStays, NothingPending, FindForSubmit, CountPending,
               FindForResubmit, Abandon, Looking, Rows, Steps
<1>3. SubmittedHasDocuments' /\ CompleteMeansSubmitted'
  BY DEF Core, SubmittedHasDocuments, CompleteMeansSubmitted, FindForSubmit, CountPending,
         FindForResubmit, Abandon, Rows
<1>4. QED
  BY <1>1, <1>2, <1>3 DEF Core

\* A row more, and it is a draft.
LEMMA CreateStep ==
    ASSUME Core, NEW p \in Procs, CreateDraft(p)
    PROVE  Core'
<1> DEFINE new == created + 1
<1>1. /\ new \in FormId /\ Rows' = Rows \cup {new} /\ new \notin Rows /\ Rows \subseteq FormId
      /\ created' \in 0 .. MaxForms
  BY OnboardingAssumption DEF Core, TypeOK, CreateDraft, FormId, Rows
<1> HIDE DEF new
<1>2. /\ forms' \in [FormId -> Form]
      /\ forms'[new] = [status |-> "draft", uploaded |-> {}]
      /\ \A f \in FormId \ {new} : forms'[f] = forms[f]
  BY <1>1 DEF Core, TypeOK, CreateDraft, Form, Statuses, new
<1>3. TypeOK'
  <2>1. \A f \in FormId : f \in Rows' <=> forms'[f].status # "none"
    BY <1>1, <1>2 DEF Core, TypeOK
  <2>2. late' \in Nat
    BY DEF Core, TypeOK, CreateDraft, CountLate
  <2>3. QED
    BY <1>1, <1>2, <2>1, <2>2, Moves DEF Core, TypeOK, CreateDraft
<1>4. FormThere' /\ CountedStays'
  BY <1>1, <1>2, Moves DEF Core, FormThere, CountedStays, NothingPending, CreateDraft, Looking
<1>5. SubmittedHasDocuments' /\ CompleteMeansSubmitted'
  BY <1>1, <1>2 DEF Core, SubmittedHasDocuments, CompleteMeansSubmitted, CreateDraft, Submitted
<1>6. QED
  BY <1>3, <1>4, <1>5 DEF Core

\* The forms keep their rows and their documents when one status is written.
LEMMA StatusWritten ==
    ASSUME TypeOK, NEW f \in Rows, NEW s \in Statuses,
           forms' = [forms EXCEPT ![f].status = s], created' = created
    PROVE  /\ forms' \in [FormId -> Form]
           /\ Rows' = Rows /\ f \in FormId
           /\ \A g \in FormId : g \in Rows' <=> forms'[g].status # "none"
           /\ forms'[f].status = s
           /\ \A g \in FormId : forms'[g].uploaded = forms[g].uploaded
           /\ \A g \in FormId \ {f} : forms'[g] = forms[g]
<1>1. f \in FormId /\ Rows' = Rows
  BY OnboardingAssumption DEF TypeOK, Rows, FormId
<1>2. /\ forms' \in [FormId -> Form]
      /\ forms'[f].status = s
      /\ forms'[f].uploaded = forms[f].uploaded
      /\ \A g \in FormId \ {f} : forms'[g] = forms[g]
  BY <1>1 DEF TypeOK, Form
<1>3. s # "none"
  BY DEF Statuses
<1>4. QED
  BY <1>1, <1>2, <1>3 DEF TypeOK

LEMMA SubmitStep ==
    ASSUME Core, NEW p \in Procs, CommitSubmit(p)
    PROVE  Core'
<1>1. PICK f \in Rows : f = req[p].form
  BY DEF Core, FormThere, CommitSubmit, Looking
<1>2. "pending_verification" \in Statuses \cap Submitted
  BY DEF Statuses, Submitted
<1>3. /\ forms' \in [FormId -> Form]
      /\ Rows' = Rows /\ f \in FormId
      /\ \A g \in FormId : g \in Rows' <=> forms'[g].status # "none"
      /\ forms'[f].status = "pending_verification"
      /\ \A g \in FormId : forms'[g].uploaded = forms[g].uploaded
      /\ \A g \in FormId \ {f} : forms'[g] = forms[g]
  BY <1>1, <1>2, StatusWritten DEF Core, CommitSubmit
<1>4. late' \in Nat
  BY DEF Core, TypeOK, CommitSubmit, CountLate
<1>5. TypeOK'
  BY <1>3, <1>4, Moves DEF Core, TypeOK, CommitSubmit
<1>6. Rows \subseteq FormId
  BY OnboardingAssumption DEF Core, TypeOK, Rows, FormId
<1>7. FormThere' /\ CountedStays'
  BY <1>3, <1>6, Moves DEF Core, FormThere, CountedStays, NothingPending, CommitSubmit, Looking
<1>8. SubmittedHasDocuments' /\ CompleteMeansSubmitted'
  BY <1>1, <1>2, <1>3, <1>6 DEF Core, SubmittedHasDocuments, CompleteMeansSubmitted,
     CountedStays, NothingPending, CommitSubmit
<1>9. QED
  BY <1>5, <1>7, <1>8 DEF Core

\* A form that goes back to its user takes the flag with it.
LEMMA ReopenStep ==
    ASSUME Core, NEW p \in Procs, CommitReopen(p)
    PROVE  Core'
<1>1. PICK f \in Rows : f = req[p].form
  BY DEF Core, FormThere, CommitReopen, Looking
<1>2. "draft" \in Statuses /\ "draft" \notin Submitted
  BY DEF Statuses, Submitted
<1>3. /\ forms' \in [FormId -> Form]
      /\ Rows' = Rows /\ f \in FormId
      /\ \A g \in FormId : g \in Rows' <=> forms'[g].status # "none"
      /\ forms'[f].status = "draft"
      /\ \A g \in FormId : forms'[g].uploaded = forms[g].uploaded
      /\ \A g \in FormId \ {f} : forms'[g] = forms[g]
  BY <1>1, <1>2, StatusWritten DEF Core, CommitReopen
<1>5. TypeOK'
  BY <1>3, Moves DEF Core, TypeOK, CommitReopen
<1>6. Rows \subseteq FormId
  BY OnboardingAssumption DEF Core, TypeOK, Rows, FormId
<1>7. FormThere' /\ CountedStays'
  BY <1>3, <1>6, Moves DEF Core, FormThere, CountedStays, NothingPending, CommitReopen, Looking
<1>8. SubmittedHasDocuments' /\ CompleteMeansSubmitted'
  BY <1>2, <1>3, <1>6 DEF Core, SubmittedHasDocuments, CompleteMeansSubmitted, CommitReopen
<1>9. QED
  BY <1>5, <1>7, <1>8 DEF Core

LEMMA ReviewStep ==
    ASSUME Core, NEW f \in Rows, NEW verdict \in {"approved", "rejected"}, Review(f, verdict)
    PROVE  Core'
<1>1. verdict \in Statuses /\ (verdict = "approved" => verdict \in Submitted)
      /\ "pending_verification" \in Submitted
  BY DEF Statuses, Submitted
<1>2. /\ forms' \in [FormId -> Form]
      /\ Rows' = Rows /\ f \in FormId
      /\ \A g \in FormId : g \in Rows' <=> forms'[g].status # "none"
      /\ forms'[f].status = verdict
      /\ \A g \in FormId : forms'[g].uploaded = forms[g].uploaded
      /\ \A g \in FormId \ {f} : forms'[g] = forms[g]
  BY <1>1, StatusWritten DEF Core, Review
<1>3. complete' \in BOOLEAN /\ late' \in Nat
  BY DEF Core, TypeOK, Review
<1>4. TypeOK'
  BY <1>2, <1>3 DEF Core, TypeOK, Review
<1>5. Rows \subseteq FormId
  BY OnboardingAssumption DEF Core, TypeOK, Rows, FormId
<1>6. FormThere' /\ CountedStays'
  BY <1>2, <1>5 DEF Core, FormThere, CountedStays, NothingPending, Review, Looking
<1>7. SubmittedHasDocuments' /\ CompleteMeansSubmitted'
  BY <1>1, <1>2, <1>5 DEF Core, SubmittedHasDocuments, CompleteMeansSubmitted, Review
<1>8. QED
  BY <1>4, <1>6, <1>7 DEF Core

\* A document more is one fewer pending.
LEMMA UploadStep ==
    ASSUME Core, NEW f \in Rows, NEW d \in Docs, MarkUploaded(f, d)
    PROVE  Core'
<1>1. f \in FormId /\ Rows' = Rows /\ Rows \subseteq FormId
  BY OnboardingAssumption DEF Core, TypeOK, Rows, FormId, MarkUploaded
<1>2. /\ forms' \in [FormId -> Form]
      /\ forms'[f].status = forms[f].status
      /\ forms[f].uploaded \subseteq forms'[f].uploaded
      /\ forms'[f].uploaded \subseteq Docs
      /\ \A g \in FormId \ {f} : forms'[g] = forms[g]
  BY <1>1 DEF Core, TypeOK, MarkUploaded, Form
<1>3. TypeOK'
  BY <1>1, <1>2 DEF Core, TypeOK, MarkUploaded
<1>4. FormThere' /\ CountedStays'
  BY <1>1, <1>2 DEF Core, FormThere, CountedStays, NothingPending, MarkUploaded, Looking
<1>5. SubmittedHasDocuments' /\ CompleteMeansSubmitted'
  BY <1>1, <1>2 DEF Core, SubmittedHasDocuments, CompleteMeansSubmitted, MarkUploaded
<1>6. QED
  BY <1>3, <1>4, <1>5 DEF Core

\* Core is inductive.
LEMMA NextCore == Core /\ [Next]_vars => Core'
<1> SUFFICES ASSUME Core, [Next]_vars
             PROVE  Core'
  OBVIOUS
<1>1. ASSUME NEW p \in Procs, Enter(p, "init", 0)
      PROVE  Core'
  BY <1>1, EnterStep, OnboardingAssumption
<1>2. ASSUME NEW p \in Procs, NEW f \in Rows, Enter(p, "find", f) \/ Enter(p, "refind", f)
      PROVE  Core'
  <2>1. f \in 0 .. MaxForms
    BY OnboardingAssumption DEF Core, TypeOK, Rows
  <2>2. QED
    BY <1>2, <2>1, EnterStep
<1>3. ASSUME NEW p \in Procs, Step(p) \/ Abandon(p)
      PROVE  Core'
  BY <1>3, CreateStep, LookStep, SubmitStep, ReopenStep DEF Step
<1>4. ASSUME NEW f \in Rows, NEW d \in Docs, MarkUploaded(f, d)
      PROVE  Core'
  BY <1>4, UploadStep
<1>5. ASSUME NEW f \in Rows, NEW verdict \in {"approved", "rejected"}, Review(f, verdict)
      PROVE  Core'
  BY <1>5, ReviewStep
<1>6. ASSUME UNCHANGED vars
      PROVE  Core'
  BY <1>6 DEF vars, Core, TypeOK, FormThere, CountedStays, NothingPending,
              SubmittedHasDocuments, CompleteMeansSubmitted, Rows
<1>7. QED
  BY <1>1, <1>2, <1>3, <1>4, <1>5, <1>6 DEF Next, GateRefused

\* Forms, documents, the flag and the requests fit together in every state.
THEOREM FormsInvariant == Spec => []Core
  BY InitCore, NextCore, PTL DEF Spec

\* Every status is one the column allows, and every row has one.
THEOREM TypeCorrect == Spec => []TypeOK
<1>1. Core => TypeOK
  BY DEF Core
<1>2. QED
  BY <1>1, FormsInvariant, PTL

\* Count, upload, review and submission in any order: no submission without all
\* of its documents, for any number of requests, forms and documents.
THEOREM DocumentsThere == Spec => []SubmittedHasDocuments
<1>1. Core => SubmittedHasDocuments
  BY DEF Core
<1>2. QED
  BY <1>1, FormsInvariant, PTL

\* Nobody is kept out as completed without an open or approved submission.
THEOREM FlagMeansSubmitted == Spec => []CompleteMeansSubmitted
<1>1. Core => CompleteMeansSubmitted
  BY DEF Core
<1>2. QED
  BY <1>1, FormsInvariant, PTL

----------------------------------------------------------------------------
(* Late work *)

LEMMA WorkingFinite ==
    /\ IsFiniteSet(Working) /\ Cardinality(Working) \in Nat
    /\ Cardinality(Procs) \in Nat \ {0}
<1>1. Working \subseteq Procs
  BY DEF Working
<1>2. QED
  BY <1>1, OnboardingAssumption, FS_Subset, FS_CardinalityType, FS_EmptySet

\* A request that finishes is at work no longer, and no other starts.
LEMMA WorkingLoses ==
    ASSUME TypeOK, NEW p \in Procs, req[p].pc # "idle", Finish(p)
    PROVE  /\ Working' \subseteq Procs \ {p}
           /\ Cardinality(Working') \in Nat
           /\ Cardinality(Working') <= Cardinality(Working) - 1
           /\ Cardinality(Working') <= Cardinality(Procs) - 1
<1>1. Working' \subseteq Working \ {p} /\ p \in Working /\ Working \subseteq Procs
  BY Moves DEF Working
<1>2. /\ IsFiniteSet(Working \ {p}) /\ IsFiniteSet(Procs \ {p})
      /\ Cardinality(Working \ {p}) = Cardinality(Working) - 1
      /\ Cardinality(Procs \ {p}) = Cardinality(Procs) - 1
  BY <1>1, WorkingFinite, OnboardingAssumption, FS_RemoveElement
<1>3. Working' \subseteq Procs \ {p}
  BY <1>1
<1>4. QED
  BY <1>1, <1>2, <1>3, FS_Subset, FS_CardinalityType

\* A lookup lets its request go on or ends it.
LEMMA WorkingShrinks ==
    ASSUME TypeOK, NEW p \in Procs,
           FindForSubmit(p) \/ CountPending(p) \/ FindForResubmit(p) \/ Abandon(p)
    PROVE  Cardinality(Working') \in Nat /\ Cardinality(Working') <= Cardinality(Working)
<1>1. Working' \subseteq Working
  BY Moves DEF Working, FindForSubmit, CountPending, FindForResubmit, Abandon, Steps
<1>2. QED
  BY <1>1, WorkingFinite, FS_Subset, FS_CardinalityType

\* Work done past a closed gate is paid for by a request that was let in before.
LEMMA LateStep == Core /\ LateBudget /\ [Next]_vars => LateBudget'
<1> SUFFICES ASSUME Core, LateBudget, [Next]_vars
             PROVE  LateBudget'
  OBVIOUS
<1>1. TypeOK /\ late \in Nat
  BY DEF Core, TypeOK
<1>2. ASSUME NEW p \in Procs, NEW step, NEW f, Enter(p, step, f)
      PROVE  LateBudget'
  BY <1>2 DEF LateBudget, Enter, GateOpen
<1>3. ASSUME NEW p \in Procs,
             FindForSubmit(p) \/ CountPending(p) \/ FindForResubmit(p) \/ Abandon(p)
      PROVE  LateBudget'
  <2>1. complete' = complete /\ late' = late
    BY <1>3 DEF FindForSubmit, CountPending, FindForResubmit, Abandon
  <2>2. Cardinality(Working') \in Nat /\ Cardinality(Working') <= Cardinality(Working)
    BY <1>1, <1>3, WorkingShrinks
  <2>3. QED
    BY <1>1, <2>1, <2>2, WorkingFinite DEF LateBudget
<1>4. ASSUME NEW p \in Procs, CreateDraft(p) \/ CommitSubmit(p)
      PROVE  LateBudget'
  <2>1. /\ Cardinality(Working') \in Nat
        /\ Cardinality(Working') <= Cardinality(Working) - 1
        /\ Cardinality(Working') <= Cardinality(Procs) - 1
    BY <1>1, <1>4, WorkingLoses DEF CreateDraft, CommitSubmit
  <2>2. CASE complete
    <3>1. late' = late + 1 /\ complete'
      BY <1>4, <2>2 DEF CreateDraft, CommitSubmit, CountLate
    <3>2. QED
      BY <1>1, <2>1, <2>2, <3>1, WorkingFinite DEF LateBudget
  <2>3. CASE ~complete
    <3>1. late' = 0
      BY <1>4, <2>3 DEF CreateDraft, CommitSubmit, CountLate
    <3>2. QED
      BY <2>1, <3>1, WorkingFinite DEF LateBudget
  <2>4. QED
    BY <2>2, <2>3
<1>5. ASSUME NEW p \in Procs, CommitReopen(p)
      PROVE  LateBudget'
  BY <1>5 DEF LateBudget, CommitReopen
<1>6. ASSUME NEW f, NEW d, MarkUploaded(f, d)
      PROVE  LateBudget'
  BY <1>6 DEF LateBudget, MarkUploaded, Working
<1>7. ASSUME NEW f, NEW verdict, Review(f, verdict)
      PROVE  LateBudget'
  <2>1. Working' = Working
    BY <1>7 DEF Review, Working
  <2>2. CASE verdict = "rejected"
    BY <1>7, <2>2 DEF LateBudget, Review
  <2>3. CASE verdict # "rejected"
    <3>1. late' = late
      BY <1>7, <2>3 DEF Review
    <3>2. complete' <=> complete
      BY <1>7, <2>3 DEF Review
    <3>3. QED
      BY <2>1, <3>1, <3>2 DEF LateBudget
  <2>4. QED
    BY <2>2, <2>3
<1>8. ASSUME UNCHANGED vars
      PROVE  LateBudget'
  BY <1>8 DEF vars, LateBudget, Working
<1>9. QED
  BY <1>2, <1>3, <1>4, <1>5, <1>6, <1>7, <1>8 DEF Next, Step, GateRefused

LEMMA LateInvariant == Spec => []LateBudget
<1>1. Init => LateBudget
  BY DEF Init, LateBudget
<1>2. QED
  BY <1>1, LateStep, FormsInvariant, PTL DEF Spec

\* "A user could re-init and re-submit forever": once the flag is set, each
\* request that is past the gate starts or submits one form at most, and one of
\* them set the flag.
THEOREM LateBounded == Spec => []LateWorkBounded
<1>1. ASSUME TypeOK, LateBudget
      PROVE  LateWorkBounded
  <2>1. late \in Nat /\ complete \in BOOLEAN
    BY <1>1 DEF TypeOK
  <2>2. QED
    BY <1>1, <2>1, WorkingFinite DEF LateBudget, LateWorkBounded
<1>2. QED
  BY <1>1, LateInvariant, TypeCorrect, PTL

=============================================================================
