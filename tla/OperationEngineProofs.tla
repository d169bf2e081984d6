----------------------- MODULE OperationEngineProofs -----------------------
(***************************************************************************)
(* TLAPS proofs about OperationEngine, for every set of workers, clients,  *)
(* plans and payloads and every length of plan.                            *)
(***************************************************************************)
EXTENDS OperationEngine, SequenceTheorems, TLAPS

-----------------------------------------------------------------------------
(* Facts about the data. *)

\* Updating one row of a plan leaves a plan with the same rows elsewhere.
LEMMA StepUpdate ==
  ASSUME NEW s \in Seq(StepRecord), NEW i \in DOMAIN s, NEW r \in StepRecord
  PROVE  /\ [s EXCEPT ![i] = r] \in Seq(StepRecord)
         /\ DOMAIN [s EXCEPT ![i] = r] = DOMAIN s
         /\ [s EXCEPT ![i] = r][i] = r
         /\ \A j \in DOMAIN s : j # i => [s EXCEPT ![i] = r][j] = s[j]
PROOF BY ExceptSeq

\* Every field update that the store makes on a row gives a row.
LEMMA RowUpdates ==
  ASSUME NEW r \in StepRecord, NEW t \in Nat, NEW x \in StepStates
  PROVE  ForwardDone(r) \in StepRecord /\ Started(r, t) \in StepRecord
         /\ Requeued(r) \in StepRecord /\ Closed(r, x) \in StepRecord
<1>1. ForwardDone(r) \in StepRecord
  BY Zenon DEF ForwardDone, StepRecord
<1>2. Started(r, t) \in StepRecord
  <2>1. r.attempt + 1 \in Nat /\ "RUNNING" \in StepStates
    BY DEF StepRecord, StepStates
  <2>2. QED
    BY <2>1, Zenon DEF Started, StepRecord
<1>3. Requeued(r) \in StepRecord
  BY DEF Requeued, StepRecord, StepStates
<1>4. Closed(r, x) \in StepRecord
  BY DEF Closed, StepRecord
<1>5. QED
  BY <1>1, <1>2, <1>3, <1>4

\* Rows of a well-typed plan.
LEMMA RowTypes ==
  ASSUME NEW s \in Seq(StepRecord), NEW i \in DOMAIN s
  PROVE  s[i] \in StepRecord /\ i \in Nat
OBVIOUS

\* A freshly bound plan is a sequence of rows.
LEMMA PlanRows ==
  ASSUME NEW plan \in Plans
  PROVE  [i \in DOMAIN plan |-> NewStep(plan[i])] \in Seq(StepRecord)
<1>1. plan \in Seq(Strategies)
  BY EngineAssumption
<1>2. ASSUME NEW i \in DOMAIN plan PROVE NewStep(plan[i]) \in StepRecord
  BY <1>1 DEF NewStep, StepRecord, StepStates
<1>3. DOMAIN plan = 1..Len(plan) /\ Len(plan) \in Nat
  BY <1>1
<1>4. QED
  BY <1>2, <1>3

-----------------------------------------------------------------------------
(* What one step may do to the plan rows: the only facts about actions that *)
(* the invariants over rows need.                                          *)

Planned == \E plan \in Plans : steps' = [i \in DOMAIN plan |-> NewStep(plan[i])]

Advanced(i) == PredecessorsDone(i) /\ steps' = [steps EXCEPT ![i] = ForwardDone(steps[i])]

TakenUp(i) ==
  /\ Compensatable(steps[i]) /\ steps[i].state = "PENDING"
  /\ \/ steps' = [steps EXCEPT ![i] = Closed(steps[i], "MANUAL_REQUIRED")]
     \/ /\ steps[i].attempt < StepMaxAttempts
        /\ steps' = [steps EXCEPT ![i] = Started(steps[i], fence)]

Settled(i) ==
  /\ steps[i].state = "RUNNING"
  /\ \/ /\ HasSealedStepEvidence(i)
        /\ steps' = [steps EXCEPT ![i] = Closed(steps[i], "SUCCEEDED")]
     \/ /\ steps[i].attempt < StepMaxAttempts
        /\ steps' = [steps EXCEPT ![i] = Requeued(steps[i])]
     \/ steps' = [steps EXCEPT ![i] = Closed(steps[i], "FAILED")]

RowsMove ==
  \/ UNCHANGED steps
  \/ Planned
  \/ \E i \in DOMAIN steps : Advanced(i) \/ TakenUp(i) \/ Settled(i)

\* RecordOperationForwardStepCompleted advances one row.
LEMMA ForwardMoves ==
  ASSUME NEW w \in Workers, NEW i \in DOMAIN steps, RecordOperationForwardStepCompleted(w, i)
  PROVE  Advanced(i)
BY DEF RecordOperationForwardStepCompleted, Advanced

\* ClaimNextOperationCompensationStep takes up one row or finishes.
LEMMA ClaimMoves ==
  ASSUME NEW w \in Workers, ClaimNextOperationCompensationStep(w)
  PROVE  UNCHANGED steps \/ \E i \in DOMAIN steps : TakenUp(i)
BY DEF ClaimNextOperationCompensationStep, PendingSteps, TakenUp

\* CompleteOperationCompensationStep settles one row.
LEMMA CompleteMoves ==
  ASSUME NEW w \in Workers, NEW i \in DOMAIN steps, CompleteOperationCompensationStep(w, i)
  PROVE  Settled(i)
BY DEF CompleteOperationCompensationStep, RunsStep, Settled

\* So does ReportOperationCompensationStepFailure.
LEMMA FailureMoves ==
  ASSUME NEW w \in Workers, NEW i \in DOMAIN steps, NEW retryable \in BOOLEAN,
         ReportOperationCompensationStepFailure(w, i, retryable)
  PROVE  Settled(i)
BY DEF ReportOperationCompensationStepFailure, RunsStep, Settled

\* Rows stay rows.
LEMMA RowsTyped ==
  ASSUME steps \in Seq(StepRecord), fence \in Nat, RowsMove
  PROVE  steps' \in Seq(StepRecord)
<1>1. CASE Planned
  BY <1>1, PlanRows DEF Planned
<1>2. ASSUME NEW i \in DOMAIN steps, Advanced(i) \/ TakenUp(i) \/ Settled(i)
      PROVE  steps' \in Seq(StepRecord)
  <2>1. /\ ForwardDone(steps[i]) \in StepRecord /\ Started(steps[i], fence) \in StepRecord
        /\ Requeued(steps[i]) \in StepRecord
        /\ \A x \in StepStates : Closed(steps[i], x) \in StepRecord
    BY RowTypes, RowUpdates DEF StepStates
  <2>2. \E r \in StepRecord : steps' = [steps EXCEPT ![i] = r]
    BY <1>2, <2>1, Zenon DEF Advanced, TakenUp, Settled, StepStates
  <2>3. QED
    BY <2>2, StepUpdate
<1>3. QED
  BY <1>1, <1>2 DEF RowsMove

-----------------------------------------------------------------------------
(* Type correctness. *)

\* Every action keeps the stored record, the plan rows and the callers' copies
\* in their types.
LEMMA TypeOKStep == TypeOK /\ [Next]_vars => TypeOK'
<1> SUFFICES ASSUME TypeOK, [Next]_vars PROVE TypeOK'
  OBVIOUS
<1> USE EngineAssumption DEF TypeOK, recordVars, auxVars, Callers
<1>1. ASSUME NEW c \in Callers, GetOperation(c) PROVE TypeOK'
  BY <1>1 DEF GetOperation
<1>2. ASSUME NEW c \in Clients, ClientStep(c) PROVE TypeOK'
  <2>1. ASSUME NEW to \in OperationStates, TransitionOperation(c, to) PROVE TypeOK'
    BY <2>1 DEF TransitionOperation, Commit
  <2>2. ASSUME NEW plan \in Plans, SetOperationCompensationPlan(c, plan) PROVE TypeOK'
    BY <2>2, PlanRows DEF SetOperationCompensationPlan, Commit
  <2>3. CASE ApproveOperationAndQueue(c)
    BY <2>3 DEF ApproveOperationAndQueue, Commit, OperationStates
  <2>4. CASE RequestOperationCancellation(c)
    BY <2>4 DEF RequestOperationCancellation, Commit, OperationStates, ClearLease, ClearSchedule
  <2>5. CASE BeginOperationCompensation(c)
    BY <2>5 DEF BeginOperationCompensation, Commit, OperationStates, ClearLease
  <2>6. ASSUME NEW success \in BOOLEAN, ApplyResolution(c, success), evidence' \subseteq Payloads
        PROVE  TypeOK'
    BY <2>6 DEF ApplyResolution, Commit, OperationStates, FailureClasses, ClearLease, ClearSchedule
  <2>7. QED
    BY <1>2, <2>1, <2>2, <2>3, <2>4, <2>5, <2>6
    DEF ClientStep, ResolveUnknownOperationOutcome, ResolveUnknownOperationOutcomeWithEvidence
<1>3. ASSUME NEW w \in Workers, WorkerStep(w) PROVE TypeOK'
  <2>1. CASE ClaimOperation(w)
    BY <2>1 DEF ClaimOperation, CommitBlind, NextToken, OperationStates
  <2>2. CASE RenewOperationLease(w)
    BY <2>2 DEF RenewOperationLease, CommitBlind
  <2>3. CASE ReleaseOperationLease(w)
    BY <2>3 DEF ReleaseOperationLease, CommitBlind, ClearLease
  <2>4. CASE StartOperationAttempt(w)
    <3>1. exhausted' \in BOOLEAN
      BY <2>4, Zenon DEF StartOperationAttempt
    <3>2. QED
      BY <2>4, <3>1 DEF StartOperationAttempt, Commit, OperationStates, ClearSchedule
  <2>5. CASE BeginOperationVerification(w)
    BY <2>5 DEF BeginOperationVerification, Commit, OperationStates
  <2>6. ASSUME NEW f \in FailureClasses, ReportOperationFailure(w, f) PROVE TypeOK'
    BY <2>6 DEF ReportOperationFailure, Commit, OperationStates, ClearLease
  <2>7. CASE CompleteOperation(w)
    BY <2>7 DEF CompleteOperation, Commit, OperationStates, ClearLease, ClearSchedule
  <2>8. ASSUME NEW p \in Payloads, AppendOperationEvidencePayload(w, p) PROVE TypeOK'
    BY <2>8 DEF AppendOperationEvidencePayload
  <2>9. ASSUME NEW p \in Payloads, CompleteOperationWithEvidencePayload(w, p) PROVE TypeOK'
    BY <2>9 DEF CompleteOperationWithEvidencePayload, Commit, OperationStates, ClearLease, ClearSchedule
  <2>10. CASE AcknowledgeOperationCancellation(w)
    BY <2>10 DEF AcknowledgeOperationCancellation, Commit, OperationStates, ClearLease, ClearSchedule
  <2>11. ASSUME NEW i \in DOMAIN steps, RecordOperationForwardStepCompleted(w, i) PROVE TypeOK'
    <3>1. steps' \in Seq(StepRecord)
      BY <2>11, ForwardMoves, RowsTyped DEF RowsMove
    <3>2. QED
      BY <2>11, <3>1 DEF RecordOperationForwardStepCompleted, Commit
  <2>12. QED
    BY <1>3, <2>1, <2>2, <2>3, <2>4, <2>5, <2>6, <2>7, <2>8, <2>9, <2>10, <2>11 DEF WorkerStep
<1>4. ASSUME NEW w \in Workers, CompensationStep(w) PROVE TypeOK'
  <2>1. CASE ClaimNextOperationCompensationStep(w)
    <3>1. steps' \in Seq(StepRecord)
      BY <2>1, ClaimMoves, RowsTyped DEF RowsMove
    <3>2. QED
      BY <2>1, <3>1 DEF ClaimNextOperationCompensationStep, Commit, OperationStates, ClearLease
  <2>2. ASSUME NEW i \in DOMAIN steps, AppendOperationStepTrace(w, i) PROVE TypeOK'
    <3>1. i \in Nat /\ steps[i].attempt \in Nat
      BY RowTypes DEF StepRecord
    <3>2. QED
      BY <2>2, <3>1 DEF AppendOperationStepTrace
  <2>3. ASSUME NEW i \in DOMAIN steps, CompleteOperationCompensationStep(w, i) PROVE TypeOK'
    <3>1. steps' \in Seq(StepRecord)
      BY <2>3, CompleteMoves, RowsTyped DEF RowsMove
    <3>2. QED
      BY <2>3, <3>1 DEF CompleteOperationCompensationStep, Commit, OperationStates, ClearLease
  <2>4. ASSUME NEW i \in DOMAIN steps, NEW retryable \in BOOLEAN,
               ReportOperationCompensationStepFailure(w, i, retryable)
        PROVE  TypeOK'
    <3>1. steps' \in Seq(StepRecord)
      BY <2>4, FailureMoves, RowsTyped DEF RowsMove
    <3>2. QED
      BY <2>4, <3>1 DEF ReportOperationCompensationStepFailure, Commit, OperationStates, ClearLease
  <2>5. QED
    BY <1>4, <2>1, <2>2, <2>3, <2>4 DEF CompensationStep
<1>5. CASE Environment
  BY <1>5 DEF Environment, LeaseExpires, RetryBecomesDue, CheckpointChanges
<1>6. CASE UNCHANGED vars
  BY <1>6 DEF vars
<1>7. QED
  BY <1>1, <1>2, <1>3, <1>4, <1>5, <1>6 DEF Next

\* The stored Operation record, its plan rows and what callers remember of it
\* are well typed in every reachable state.
THEOREM TypeCorrect == Spec => []TypeOK
<1>1. Init => TypeOK
  <2> SUFFICES ASSUME Init PROVE TypeOK
    OBVIOUS
  <2>1. exhausted \in BOOLEAN
    BY Zenon DEF Init
  <2>2. checkpointOK \in BOOLEAN
    BY Zenon DEF Init
  <2>3. QED
    BY <2>1, <2>2, EngineAssumption
    DEF Init, TypeOK, OperationStates, Classes, FailureClasses, Callers
<1>2. QED
  BY <1>1, TypeOKStep, PTL DEF Spec

-----------------------------------------------------------------------------
(* What one step may do to the rows, the tokens and the sealed evidence. *)

TokensMove ==
  \/ UNCHANGED <<fence, claim>>
  \/ \E w \in Workers : fence' = fence + 1 /\ claim' = [claim EXCEPT ![w] = fence + 1]

\* Rows move as RowsMove says, tokens are handed out one at a time, and sealed
\* evidence is never withdrawn, whichever action is taken.
LEMMA Moves ==
  ASSUME [Next]_vars
  PROVE  RowsMove /\ TokensMove /\ sealed \subseteq sealed'
<1> USE DEF RowsMove, TokensMove, recordVars, auxVars
<1>1. ASSUME NEW c \in Callers, GetOperation(c)
      PROVE  RowsMove /\ TokensMove /\ sealed \subseteq sealed'
  BY <1>1 DEF GetOperation
<1>2. ASSUME NEW c \in Clients, ClientStep(c)
      PROVE  RowsMove /\ TokensMove /\ sealed \subseteq sealed'
  <2>1. ASSUME NEW plan \in Plans, SetOperationCompensationPlan(c, plan)
        PROVE  RowsMove /\ TokensMove /\ sealed \subseteq sealed'
    BY <2>1 DEF SetOperationCompensationPlan, Planned
  <2>2. CASE UNCHANGED <<steps, fence, claim, sealed>>
    BY <2>2
  <2>3. QED
    BY <1>2, <2>1, <2>2
    DEF ClientStep, TransitionOperation, ApproveOperationAndQueue, RequestOperationCancellation,
        BeginOperationCompensation, ApplyResolution, ResolveUnknownOperationOutcome,
        ResolveUnknownOperationOutcomeWithEvidence
<1>3. ASSUME NEW w \in Workers, WorkerStep(w)
      PROVE  RowsMove /\ TokensMove /\ sealed \subseteq sealed'
  <2>1. CASE ClaimOperation(w)
    BY <2>1 DEF ClaimOperation, NextToken
  <2>2. ASSUME NEW i \in DOMAIN steps, RecordOperationForwardStepCompleted(w, i)
        PROVE  RowsMove /\ TokensMove /\ sealed \subseteq sealed'
    <3>1. UNCHANGED <<fence, claim, sealed>>
      BY <2>2 DEF RecordOperationForwardStepCompleted
    <3>2. QED
      BY <2>2, <3>1, ForwardMoves
  <2>3. CASE UNCHANGED <<steps, fence, claim, sealed>>
    BY <2>3
  <2>4. QED
    BY <1>3, <2>1, <2>2, <2>3
    DEF WorkerStep, RenewOperationLease, ReleaseOperationLease, StartOperationAttempt,
        BeginOperationVerification, ReportOperationFailure, CompleteOperation,
        AppendOperationEvidencePayload, CompleteOperationWithEvidencePayload,
        AcknowledgeOperationCancellation
<1>4. ASSUME NEW w \in Workers, CompensationStep(w)
      PROVE  RowsMove /\ TokensMove /\ sealed \subseteq sealed'
  <2>1. UNCHANGED <<fence, claim>>
    BY <1>4 DEF CompensationStep, ClaimNextOperationCompensationStep, AppendOperationStepTrace,
                CompleteOperationCompensationStep, ReportOperationCompensationStepFailure
  <2>2. sealed \subseteq sealed'
    BY <1>4 DEF CompensationStep, ClaimNextOperationCompensationStep, AppendOperationStepTrace,
                CompleteOperationCompensationStep, ReportOperationCompensationStepFailure
  <2>3. ASSUME NEW i \in DOMAIN steps, AppendOperationStepTrace(w, i) PROVE RowsMove
    BY <2>3 DEF AppendOperationStepTrace
  <2>4. RowsMove
    BY <1>4, <2>3, ClaimMoves, CompleteMoves, FailureMoves DEF CompensationStep
  <2>5. QED
    BY <2>1, <2>2, <2>4
<1>5. CASE Environment
  BY <1>5 DEF Environment, LeaseExpires, RetryBecomesDue, CheckpointChanges
<1>6. CASE UNCHANGED vars
  BY <1>6 DEF vars
<1>7. QED
  BY <1>1, <1>2, <1>3, <1>4, <1>5, <1>6 DEF Next

\* Row i alone changes, in one of the ways the store changes a row.
RowChanged(i) ==
  /\ \A j \in DOMAIN steps : j # i => steps'[j] = steps[j]
  /\ \/ PredecessorsDone(i) /\ steps'[i] = ForwardDone(steps[i])
     \/ /\ Compensatable(steps[i]) /\ steps[i].state = "PENDING"
        /\ \/ steps'[i] = Closed(steps[i], "MANUAL_REQUIRED")
           \/ /\ steps[i].attempt < StepMaxAttempts
              /\ steps'[i] = Started(steps[i], fence)
     \/ /\ steps[i].state = "RUNNING"
        /\ \/ HasSealedStepEvidence(i) /\ steps'[i] = Closed(steps[i], "SUCCEEDED")
           \/ steps[i].attempt < StepMaxAttempts /\ steps'[i] = Requeued(steps[i])
           \/ steps'[i] = Closed(steps[i], "FAILED")

\* Unless a plan is bound, at most one row changes, and the rows are the same.
LEMMA RowChange ==
  ASSUME steps \in Seq(StepRecord), fence \in Nat, RowsMove, ~UNCHANGED steps, ~Planned
  PROVE  DOMAIN steps' = DOMAIN steps /\ \E i \in DOMAIN steps : RowChanged(i)
<1>1. PICK i \in DOMAIN steps : Advanced(i) \/ TakenUp(i) \/ Settled(i)
  BY DEF RowsMove
<1>2. /\ ForwardDone(steps[i]) \in StepRecord /\ Started(steps[i], fence) \in StepRecord
      /\ Requeued(steps[i]) \in StepRecord
      /\ \A x \in StepStates : Closed(steps[i], x) \in StepRecord
  BY RowTypes, RowUpdates DEF StepStates
<1>3. CASE Advanced(i)
  BY <1>2, <1>3, StepUpdate DEF Advanced, RowChanged
<1>4. CASE TakenUp(i)
  BY <1>2, <1>4, StepUpdate DEF TakenUp, StepStates, RowChanged
<1>5. CASE Settled(i)
  BY <1>2, <1>5, StepUpdate DEF Settled, StepStates, RowChanged
<1>6. QED
  BY <1>1, <1>3, <1>4, <1>5

\* The fields of an updated row.
LEMMA RowFields ==
  ASSUME NEW r \in StepRecord, NEW t \in Nat, NEW x \in StepStates
  PROVE  /\ ForwardDone(r).forward
         /\ ForwardDone(r).strategy = r.strategy /\ ForwardDone(r).state = r.state
         /\ ForwardDone(r).attempt = r.attempt /\ ForwardDone(r).fence = r.fence
         /\ Started(r, t).forward = r.forward /\ Started(r, t).strategy = r.strategy
         /\ Started(r, t).state = "RUNNING" /\ Started(r, t).attempt = r.attempt + 1
         /\ Started(r, t).fence = t
         /\ Requeued(r).forward = r.forward /\ Requeued(r).strategy = r.strategy
         /\ Requeued(r).state = "PENDING" /\ Requeued(r).attempt = r.attempt
         /\ Requeued(r).fence = 0
         /\ Closed(r, x).forward = r.forward /\ Closed(r, x).strategy = r.strategy
         /\ Closed(r, x).state = x /\ Closed(r, x).attempt = r.attempt
         /\ Closed(r, x).fence = r.fence
BY Zenon DEF ForwardDone, Started, Requeued, Closed, StepRecord

\* The rows of a freshly bound plan.
LEMMA PlannedRows ==
  ASSUME Planned
  PROVE  \A i \in DOMAIN steps' : \E x \in Strategies : steps'[i] = NewStep(x)
<1>1. PICK plan \in Plans : steps' = [i \in DOMAIN plan |-> NewStep(plan[i])]
  BY DEF Planned
<1>2. plan \in Seq(Strategies)
  BY EngineAssumption
<1>3. \A i \in DOMAIN plan : plan[i] \in Strategies
  BY <1>2
<1>4. QED
  BY <1>1, <1>3

-----------------------------------------------------------------------------
(* The invariants over plan rows. *)

\* Compensation attempts stay within the row's MaxAttempts.
RowsInBudget ==
  \A i \in DOMAIN steps :
    /\ steps[i].attempt <= StepMaxAttempts
    /\ steps[i].state = "PENDING" => steps[i].attempt < StepMaxAttempts

\* RowsInBudget is inductive.
LEMMA RowsInBudgetStep == TypeOK /\ RowsInBudget /\ [Next]_vars => RowsInBudget'
<1> SUFFICES ASSUME TypeOK, RowsInBudget, [Next]_vars PROVE RowsInBudget'
  OBVIOUS
<1>0. RowsMove /\ steps \in Seq(StepRecord) /\ fence \in Nat
  BY Moves DEF TypeOK
<1>1. CASE UNCHANGED steps
  BY <1>1 DEF RowsInBudget
<1>2. CASE Planned
  <2>1. StepMaxAttempts \in Nat /\ 0 < StepMaxAttempts
    BY EngineAssumption
  <2>2. QED
    BY <1>2, <2>1, PlannedRows DEF RowsInBudget, NewStep
<1>3. CASE ~UNCHANGED steps /\ ~Planned
  <2>1. PICK i \in DOMAIN steps : RowChanged(i)
    BY <1>0, <1>3, RowChange
  <2>2. DOMAIN steps' = DOMAIN steps /\ steps[i] \in StepRecord
    BY <1>0, <1>3, RowChange, RowTypes
  <2>3. steps[i].attempt \in Nat /\ StepMaxAttempts \in Nat
    BY <2>2, EngineAssumption DEF StepRecord
  <2>4. /\ steps'[i].attempt <= StepMaxAttempts
        /\ steps'[i].state = "PENDING" => steps'[i].attempt < StepMaxAttempts
    BY <1>0, <2>1, <2>2, <2>3, RowFields DEF RowsInBudget, RowChanged, StepStates
  <2>5. QED
    BY <2>1, <2>2, <2>4 DEF RowsInBudget, RowChanged
<1>4. QED
  BY <1>1, <1>2, <1>3

\* Evidence is sealed for the very attempt that a compensated row counts.
LEMMA EvidencedStep ==
  TypeOK /\ CompensationIsEvidenced /\ [Next]_vars => CompensationIsEvidenced'
<1> SUFFICES ASSUME TypeOK, CompensationIsEvidenced, [Next]_vars
             PROVE  CompensationIsEvidenced'
  OBVIOUS
<1>0. RowsMove /\ sealed \subseteq sealed' /\ steps \in Seq(StepRecord) /\ fence \in Nat
  BY Moves DEF TypeOK
<1>1. CASE UNCHANGED steps
  BY <1>0, <1>1 DEF CompensationIsEvidenced
<1>2. CASE Planned
  BY <1>2, PlannedRows DEF CompensationIsEvidenced, NewStep
<1>3. CASE ~UNCHANGED steps /\ ~Planned
  <2>1. PICK i \in DOMAIN steps : RowChanged(i)
    BY <1>0, <1>3, RowChange
  <2>2. DOMAIN steps' = DOMAIN steps /\ steps[i] \in StepRecord
    BY <1>0, <1>3, RowChange, RowTypes
  <2>3. steps'[i].state = "SUCCEEDED" => <<i, steps'[i].attempt>> \in sealed
    <3>1. \/ steps'[i].state # "SUCCEEDED"
          \/ /\ steps'[i].attempt = steps[i].attempt
             /\ HasSealedStepEvidence(i) \/ steps[i].state = "SUCCEEDED"
      BY <1>0, <2>1, <2>2, RowFields DEF RowChanged, StepStates
    <3>2. QED
      BY <3>1 DEF CompensationIsEvidenced, HasSealedStepEvidence
  <2>4. QED
    <3>1. ASSUME NEW j \in DOMAIN steps, steps'[j].state = "SUCCEEDED"
          PROVE  <<j, steps'[j].attempt>> \in sealed
      BY <2>1, <2>3, <3>1 DEF CompensationIsEvidenced, RowChanged
    <3>2. QED
      BY <1>0, <2>2, <3>1 DEF CompensationIsEvidenced
<1>4. QED
  BY <1>1, <1>2, <1>3

\* Forward progress stays a prefix, and only recorded effects are undone.
LEMMA ForwardStep == TypeOK /\ ForwardIsPrefix /\ [Next]_vars => ForwardIsPrefix'
<1> SUFFICES ASSUME TypeOK, ForwardIsPrefix, [Next]_vars PROVE ForwardIsPrefix'
  OBVIOUS
<1>0. RowsMove /\ steps \in Seq(StepRecord) /\ fence \in Nat
  BY Moves DEF TypeOK
<1>1. CASE UNCHANGED steps
  BY <1>1 DEF ForwardIsPrefix, Compensatable
<1>2. CASE Planned
  BY <1>2, PlannedRows DEF ForwardIsPrefix, NewStep
<1>3. CASE ~UNCHANGED steps /\ ~Planned
  <2>1. PICK i \in DOMAIN steps : RowChanged(i)
    BY <1>0, <1>3, RowChange
  <2>2. DOMAIN steps' = DOMAIN steps /\ steps[i] \in StepRecord
    BY <1>0, <1>3, RowChange, RowTypes
  <2>3. DOMAIN steps = 1..Len(steps) /\ Len(steps) \in Nat
    BY <1>0
  <2>4. /\ steps'[i].strategy = steps[i].strategy
        /\ steps[i].forward => steps'[i].forward
        /\ steps'[i].forward => steps[i].forward \/ PredecessorsDone(i)
    BY <2>1, <2>2, <1>0, RowFields DEF RowChanged, StepStates
  <2>5. steps'[i].state # "PENDING" => Compensatable(steps[i])
    BY <2>1, <2>2, <1>0, RowFields DEF RowChanged, StepStates, ForwardIsPrefix
  <2>6. \A j \in DOMAIN steps : steps[j].forward => steps'[j].forward
    BY <2>1, <2>4 DEF RowChanged
  <2>7. ASSUME NEW k \in DOMAIN steps, steps'[k].forward, NEW j \in 1..k
        PROVE  steps'[j].forward
    <3>1. j \in DOMAIN steps
      BY <2>3
    <3>2. CASE steps[k].forward
      BY <2>6, <3>1, <3>2 DEF ForwardIsPrefix
    <3>3. CASE ~steps[k].forward
      <4>1. k = i /\ PredecessorsDone(k)
        BY <2>1, <2>4, <2>7, <3>3 DEF RowChanged
      <4>2. j = k \/ j < k
        BY <2>3
      <4>3. QED
        BY <2>6, <2>7, <3>1, <4>1, <4>2 DEF PredecessorsDone
    <3>4. QED
      BY <3>2, <3>3
  <2>8. ASSUME NEW k \in DOMAIN steps, steps'[k].state # "PENDING"
        PROVE  Compensatable(steps'[k])
    BY <2>1, <2>4, <2>5, <2>8 DEF RowChanged, ForwardIsPrefix, Compensatable
  <2>9. QED
    BY <2>2, <2>7, <2>8 DEF ForwardIsPrefix
<1>4. QED
  BY <1>1, <1>2, <1>3

-----------------------------------------------------------------------------
(* Fencing. *)

\* Tokens are handed out once and never from the future.
LEMMA TokensStep == TypeOK /\ TokensAreUnique /\ [Next]_vars => TokensAreUnique'
<1> SUFFICES ASSUME TypeOK, TokensAreUnique, [Next]_vars PROVE TokensAreUnique'
  OBVIOUS
<1>0. RowsMove /\ TokensMove /\ steps \in Seq(StepRecord) /\ fence \in Nat
      /\ claim \in [Workers -> Nat]
  BY Moves DEF TypeOK
<1>1. fence' \in Nat /\ fence <= fence'
  BY <1>0 DEF TokensMove
<1>2. /\ \A w \in Workers : claim'[w] <= fence'
      /\ \A v, w \in Workers : claim'[v] = claim'[w] /\ claim'[v] > 0 => v = w
  BY <1>0 DEF TokensMove, TokensAreUnique
<1>3. \A i \in DOMAIN steps' : steps'[i].fence <= fence'
  <2>1. CASE UNCHANGED steps
    <3>1. ASSUME NEW i \in DOMAIN steps PROVE steps[i].fence \in Nat
      BY <1>0, RowTypes DEF StepRecord
    <3>2. QED
      BY <1>0, <1>1, <2>1, <3>1 DEF TokensAreUnique
  <2>2. CASE Planned
    BY <1>1, <2>2, PlannedRows DEF NewStep
  <2>3. CASE ~UNCHANGED steps /\ ~Planned
    <3>1. PICK i \in DOMAIN steps : RowChanged(i)
      BY <1>0, <2>3, RowChange
    <3>2. DOMAIN steps' = DOMAIN steps /\ \A j \in DOMAIN steps : steps[j] \in StepRecord
      BY <1>0, <2>3, RowChange, RowTypes
    <3>3. \A j \in DOMAIN steps : steps[j].fence \in Nat
      BY <3>2 DEF StepRecord
    <3>4. steps'[i].fence <= fence
      BY <1>0, <3>1, <3>2, <3>3, RowFields DEF RowChanged, StepStates, TokensAreUnique
    <3>5. steps'[i].fence \in Nat
      BY <1>0, <3>1, <3>2, <3>3, RowFields DEF RowChanged, StepStates
    <3>6. QED
      BY <1>0, <1>1, <3>1, <3>2, <3>3, <3>4, <3>5 DEF RowChanged, TokensAreUnique
  <2>4. QED
    BY <2>1, <2>2, <2>3
<1>4. QED
  BY <1>2, <1>3 DEF TokensAreUnique

-----------------------------------------------------------------------------
(* The invariants over the operation record. *)

Preparing == {"DRAFT", "PLANNING", "PLAN_FAILED", "AWAITING_APPROVAL", "APPROVED"}

\* Before it is queued an operation has used no attempt; what is queued or
\* waits for a retry has one left.
AttemptsInBudget ==
  /\ attempt <= MaxAttempts(class)
  /\ state \in {"QUEUED", "RETRY_WAIT"} => attempt < MaxAttempts(class)
  /\ state \in Preparing => attempt = 0

ControlInv ==
  AttemptsInBudget /\ LeaseOnlyWhileClaimable /\ RetryWaitIsScheduled

\* Every retry policy allows at least one attempt.
LEMMA PositiveBudget == \A c : MaxAttempts(c) \in Nat /\ 0 < MaxAttempts(c)
BY DEF MaxAttempts

\* ControlInv is inductive.
LEMMA ControlStep == TypeOK /\ ControlInv /\ [Next]_vars => ControlInv'
<1> SUFFICES ASSUME TypeOK, ControlInv, [Next]_vars PROVE ControlInv'
  OBVIOUS
<1> USE EngineAssumption, PositiveBudget
    DEF ControlInv, AttemptsInBudget, LeaseOnlyWhileClaimable, RetryWaitIsScheduled,
        Preparing, Claimable, recordVars, auxVars, ClearLease, ClearSchedule
<1>0. attempt \in Nat /\ lease \in {"NONE", "LIVE", "EXPIRED"}
  BY DEF TypeOK
<1>1. ASSUME NEW c \in Callers, GetOperation(c) PROVE ControlInv'
  BY <1>1 DEF GetOperation
<1>2. ASSUME NEW c \in Clients, ClientStep(c) PROVE ControlInv'
  <2>1. ASSUME NEW to \in OperationStates, TransitionOperation(c, to) PROVE ControlInv'
    BY <2>1, <1>0 DEF TransitionOperation, CanDirectOperationTransition
  <2>2. ASSUME NEW plan \in Plans, SetOperationCompensationPlan(c, plan) PROVE ControlInv'
    BY <2>2 DEF SetOperationCompensationPlan
  <2>3. CASE ApproveOperationAndQueue(c)
    BY <2>3, <1>0 DEF ApproveOperationAndQueue
  <2>4. CASE RequestOperationCancellation(c)
    BY <2>4 DEF RequestOperationCancellation
  <2>5. CASE BeginOperationCompensation(c)
    BY <2>5 DEF BeginOperationCompensation
  <2>6. ASSUME NEW success \in BOOLEAN, ApplyResolution(c, success) PROVE ControlInv'
    BY <2>6 DEF ApplyResolution
  <2>7. QED
    BY <1>2, <2>1, <2>2, <2>3, <2>4, <2>5, <2>6
    DEF ClientStep, ResolveUnknownOperationOutcome, ResolveUnknownOperationOutcomeWithEvidence
<1>3. ASSUME NEW w \in Workers, WorkerStep(w) PROVE ControlInv'
  <2>1. CASE ClaimOperation(w)
    BY <2>1 DEF ClaimOperation
  <2>2. CASE RenewOperationLease(w)
    BY <2>2 DEF RenewOperationLease
  <2>3. CASE ReleaseOperationLease(w)
    BY <2>3 DEF ReleaseOperationLease
  <2>4. CASE StartOperationAttempt(w)
    BY <2>4, <1>0 DEF StartOperationAttempt
  <2>5. CASE BeginOperationVerification(w)
    BY <2>5 DEF BeginOperationVerification
  <2>6. ASSUME NEW f \in FailureClasses, ReportOperationFailure(w, f) PROVE ControlInv'
    BY <2>6 DEF ReportOperationFailure, AttemptsLeft
  <2>7. CASE CompleteOperation(w)
    BY <2>7 DEF CompleteOperation
  <2>8. ASSUME NEW p \in Payloads, AppendOperationEvidencePayload(w, p) PROVE ControlInv'
    BY <2>8 DEF AppendOperationEvidencePayload
  <2>9. ASSUME NEW p \in Payloads, CompleteOperationWithEvidencePayload(w, p) PROVE ControlInv'
    BY <2>9 DEF CompleteOperationWithEvidencePayload
  <2>10. CASE AcknowledgeOperationCancellation(w)
    BY <2>10 DEF AcknowledgeOperationCancellation
  <2>11. ASSUME NEW i \in DOMAIN steps, RecordOperationForwardStepCompleted(w, i)
         PROVE  ControlInv'
    BY <2>11 DEF RecordOperationForwardStepCompleted
  <2>12. QED
    BY <1>3, <2>1, <2>2, <2>3, <2>4, <2>5, <2>6, <2>7, <2>8, <2>9, <2>10, <2>11 DEF WorkerStep
<1>4. ASSUME NEW w \in Workers, CompensationStep(w) PROVE ControlInv'
  <2>1. CASE ClaimNextOperationCompensationStep(w)
    BY <2>1 DEF ClaimNextOperationCompensationStep
  <2>2. ASSUME NEW i \in DOMAIN steps, AppendOperationStepTrace(w, i) PROVE ControlInv'
    BY <2>2 DEF AppendOperationStepTrace
  <2>3. ASSUME NEW i \in DOMAIN steps, CompleteOperationCompensationStep(w, i) PROVE ControlInv'
    BY <2>3 DEF CompleteOperationCompensationStep, RunsStep
  <2>4. ASSUME NEW i \in DOMAIN steps, NEW retryable \in BOOLEAN,
               ReportOperationCompensationStepFailure(w, i, retryable)
        PROVE  ControlInv'
    BY <2>4 DEF ReportOperationCompensationStepFailure, RunsStep
  <2>5. QED
    BY <1>4, <2>1, <2>2, <2>3, <2>4 DEF CompensationStep
<1>5. CASE Environment
  BY <1>5 DEF Environment, LeaseExpires, RetryBecomesDue, CheckpointChanges
<1>6. CASE UNCHANGED vars
  BY <1>6 DEF vars
<1>7. QED
  BY <1>1, <1>2, <1>3, <1>4, <1>5, <1>6 DEF Next

\* Whoever reports ROLLED_BACK has seen every compensatable row compensated, and
\* no row changes afterwards.
LEMMA UndoneStep == RolledBackIsUndone /\ [Next]_vars => RolledBackIsUndone'
<1> SUFFICES ASSUME RolledBackIsUndone, [Next]_vars, state' = "ROLLED_BACK"
             PROVE  AllCompensated(steps')
  BY DEF RolledBackIsUndone
<1> USE DEF recordVars, auxVars
<1>1. CASE UNCHANGED <<state, steps>>
  BY <1>1 DEF RolledBackIsUndone
<1>2. ASSUME NEW c \in Clients, ClientStep(c) PROVE AllCompensated(steps')
  <2>1. CASE BeginOperationCompensation(c)
    BY <2>1 DEF BeginOperationCompensation, AllCompensated, HasCompensatableForward
  <2>2. ASSUME NEW to \in OperationStates, TransitionOperation(c, to)
        PROVE  AllCompensated(steps')
    BY <2>2 DEF TransitionOperation, CanDirectOperationTransition
  <2>3. QED
    BY <1>2, <2>1, <2>2
    DEF ClientStep, SetOperationCompensationPlan, ApproveOperationAndQueue,
        RequestOperationCancellation, ApplyResolution, ResolveUnknownOperationOutcome,
        ResolveUnknownOperationOutcomeWithEvidence
<1>3. ASSUME NEW w \in Workers, WorkerStep(w) PROVE AllCompensated(steps')
  BY <1>1, <1>3
  DEF WorkerStep, ClaimOperation, RenewOperationLease, ReleaseOperationLease,
      StartOperationAttempt, BeginOperationVerification, ReportOperationFailure,
      CompleteOperation, AppendOperationEvidencePayload,
      CompleteOperationWithEvidencePayload, AcknowledgeOperationCancellation,
      RecordOperationForwardStepCompleted
<1>4. ASSUME NEW w \in Workers, CompensationStep(w) PROVE AllCompensated(steps')
  BY <1>1, <1>4
  DEF CompensationStep, ClaimNextOperationCompensationStep, AppendOperationStepTrace,
      CompleteOperationCompensationStep, ReportOperationCompensationStepFailure, RunsStep
<1>5. ASSUME NEW c \in Callers, GetOperation(c) PROVE AllCompensated(steps')
  BY <1>1, <1>5 DEF GetOperation
<1>6. CASE Environment
  BY <1>1, <1>6 DEF Environment, LeaseExpires, RetryBecomesDue, CheckpointChanges
<1>7. CASE UNCHANGED vars
  BY <1>1, <1>7 DEF vars
<1>8. QED
  BY <1>2, <1>3, <1>4, <1>5, <1>6, <1>7 DEF Next

-----------------------------------------------------------------------------
(* The inductive invariant and the theorems. *)

EngineInv ==
  /\ TypeOK
  /\ ControlInv
  /\ RowsInBudget
  /\ TokensAreUnique
  /\ RolledBackIsUndone
  /\ CompensationIsEvidenced
  /\ ForwardIsPrefix

\* The inductive invariant of the operation authority.
THEOREM EngineInvariant == Spec => []EngineInv
<1>1. Init => ControlInv /\ RowsInBudget /\ TokensAreUnique /\ RolledBackIsUndone
              /\ CompensationIsEvidenced /\ ForwardIsPrefix
  BY PositiveBudget
  DEF Init, ControlInv, AttemptsInBudget, Preparing, LeaseOnlyWhileClaimable, Claimable,
      RetryWaitIsScheduled, RowsInBudget, TokensAreUnique, RolledBackIsUndone,
      CompensationIsEvidenced, ForwardIsPrefix
<1>2. ControlInv /\ RowsInBudget /\ TokensAreUnique /\ RolledBackIsUndone
      /\ CompensationIsEvidenced /\ ForwardIsPrefix /\ TypeOK /\ [Next]_vars
      => (ControlInv /\ RowsInBudget /\ TokensAreUnique /\ RolledBackIsUndone
          /\ CompensationIsEvidenced /\ ForwardIsPrefix)'
  BY ControlStep, RowsInBudgetStep, TokensStep, UndoneStep, EvidencedStep, ForwardStep
<1>3. QED
  BY <1>1, <1>2, TypeCorrect, PTL DEF Spec, EngineInv

\* No sequence of claims, expiries, retries, rollbacks and recoveries starts more
\* attempts than the policy allows, and nothing scheduled is out of budget.
THEOREM BudgetIsRespected == Spec => []BudgetRespected
<1>1. EngineInv => BudgetRespected
  BY DEF EngineInv, ControlInv, AttemptsInBudget, RowsInBudget, BudgetRespected
<1>2. QED
  BY <1>1, EngineInvariant, PTL

\* A lease is held only in a state in which ClaimOperation grants one.
THEOREM LeaseIsScoped == Spec => []LeaseOnlyWhileClaimable
BY EngineInvariant, PTL DEF EngineInv, ControlInv

\* RETRY_WAIT, and nothing else, has a next attempt scheduled.
THEOREM RetryIsScheduled == Spec => []RetryWaitIsScheduled
BY EngineInvariant, PTL DEF EngineInv, ControlInv

\* No two processes ever hold the same fence token.
THEOREM TokensStayUnique == Spec => []TokensAreUnique
BY EngineInvariant, PTL DEF EngineInv

\* ROLLED_BACK means that everything completed was undone.
THEOREM RollbackIsComplete == Spec => []RolledBackIsUndone
BY EngineInvariant, PTL DEF EngineInv

\* No compensation counts without evidence sealed for its attempt.
THEOREM CompensationHasEvidence == Spec => []CompensationIsEvidenced
BY EngineInvariant, PTL DEF EngineInv

\* Forward progress is a prefix of the plan, for plans of every length.
THEOREM ForwardProgressIsPrefix == Spec => []ForwardIsPrefix
BY EngineInvariant, PTL DEF EngineInv

-----------------------------------------------------------------------------
(* What a step may never do. *)

\* Nobody's token opens the lease of a finished operation.
LEMMA FinishedIsUnleased ==
  ASSUME LeaseOnlyWhileClaimable, Finished
  PROVE  leaseOwner = NoOwner /\ \A w \in Workers : leaseOwner # NameOf[w]
BY EngineAssumption DEF LeaseOnlyWhileClaimable, Finished, Claimable

\* A finished operation is never changed again.
THEOREM FinishedIsFinal == Spec => TerminalIsFinal
<1>1. EngineInv /\ [Next]_vars => [Finished => UNCHANGED <<Stored, revision, evidence>>]_vars
  <2> SUFFICES ASSUME EngineInv, [Next]_vars, Finished
               PROVE  UNCHANGED <<Stored, revision, evidence>>
    OBVIOUS
  <2> USE DEF recordVars, auxVars, Stored
  <2>0. \A w \in Workers : leaseOwner # NameOf[w] /\ ~OperationLeaseActive(w)
    BY FinishedIsUnleased DEF EngineInv, ControlInv, OperationLeaseActive
  <2>1. ASSUME NEW c \in Callers, GetOperation(c) PROVE UNCHANGED <<Stored, revision, evidence>>
    BY <2>1 DEF GetOperation
  <2>2. ASSUME NEW c \in Clients PROVE ~ClientStep(c)
    BY DEF Finished, ClientStep, TransitionOperation, CanDirectOperationTransition,
           SetOperationCompensationPlan, ApproveOperationAndQueue,
           RequestOperationCancellation, IsTerminal, BeginOperationCompensation,
           ApplyResolution, ResolveUnknownOperationOutcome,
           ResolveUnknownOperationOutcomeWithEvidence
  <2>3. ASSUME NEW w \in Workers PROVE ~WorkerStep(w)
    BY <2>0 DEF Finished, WorkerStep, ClaimOperation, Claimable, RenewOperationLease,
           ReleaseOperationLease, StartOperationAttempt, BeginOperationVerification,
           ReportOperationFailure, CompleteOperation, AppendOperationEvidencePayload,
           CompleteOperationWithEvidencePayload, AcknowledgeOperationCancellation,
           RecordOperationForwardStepCompleted
  <2>4. ASSUME NEW w \in Workers PROVE ~CompensationStep(w)
    BY <2>0 DEF CompensationStep, ClaimNextOperationCompensationStep, AppendOperationStepTrace,
           CompleteOperationCompensationStep, ReportOperationCompensationStepFailure, RunsStep
  <2>5. CASE Environment
    BY <2>5, FinishedIsUnleased
    DEF EngineInv, ControlInv, LeaseOnlyWhileClaimable,
        Environment, LeaseExpires, RetryBecomesDue, CheckpointChanges
  <2>6. CASE UNCHANGED vars
    BY <2>6 DEF vars
  <2>7. QED
    BY <2>1, <2>2, <2>3, <2>4, <2>5, <2>6 DEF Next
<1>2. QED
  BY <1>1, EngineInvariant, PTL DEF Spec, TerminalIsFinal

\* No stored field changes without a new revision.
THEOREM RevisionsAdvance == Spec => RevisionAdvances
<1>1. TypeOK /\ [Next]_vars => [Stored' # Stored => revision' > revision]_vars
  <2> SUFFICES ASSUME TypeOK, [Next]_vars, Stored' # Stored PROVE revision' > revision
    OBVIOUS
  <2> USE DEF recordVars, auxVars, Stored, Commit, CommitBlind
  <2>0. revision \in Nat
    BY DEF TypeOK
  <2>1. ASSUME NEW c \in Callers, GetOperation(c) PROVE revision' > revision
    BY <2>1 DEF GetOperation
  <2>2. ASSUME NEW c \in Clients, ClientStep(c) PROVE revision' > revision
    BY <2>0, <2>2
    DEF ClientStep, TransitionOperation, SetOperationCompensationPlan,
        ApproveOperationAndQueue, RequestOperationCancellation, BeginOperationCompensation,
        ApplyResolution, ResolveUnknownOperationOutcome,
        ResolveUnknownOperationOutcomeWithEvidence
  <2>3. ASSUME NEW w \in Workers, WorkerStep(w) PROVE revision' > revision
    <3>1. ASSUME NEW p \in Payloads, AppendOperationEvidencePayload(w, p)
          PROVE  revision' > revision
      BY <3>1 DEF AppendOperationEvidencePayload
    <3>2. CASE ClaimOperation(w)
      BY <2>0, <3>2 DEF ClaimOperation
    <3>3. CASE RenewOperationLease(w) \/ ReleaseOperationLease(w)
      BY <2>0, <3>3 DEF RenewOperationLease, ReleaseOperationLease
    <3>4. CASE \/ StartOperationAttempt(w) \/ BeginOperationVerification(w)
               \/ \E f \in FailureClasses : ReportOperationFailure(w, f)
      BY <2>0, <3>4
      DEF StartOperationAttempt, BeginOperationVerification, ReportOperationFailure
    <3>5. CASE \/ CompleteOperation(w) \/ AcknowledgeOperationCancellation(w)
               \/ \E p \in Payloads : CompleteOperationWithEvidencePayload(w, p)
      BY <2>0, <3>5
      DEF CompleteOperation, AcknowledgeOperationCancellation,
          CompleteOperationWithEvidencePayload
    <3>6. CASE \E i \in DOMAIN steps : RecordOperationForwardStepCompleted(w, i)
      BY <2>0, <3>6 DEF RecordOperationForwardStepCompleted
    <3>7. QED
      BY <2>3, <3>1, <3>2, <3>3, <3>4, <3>5, <3>6 DEF WorkerStep
  <2>4. ASSUME NEW w \in Workers, CompensationStep(w) PROVE revision' > revision
    <3>1. ASSUME NEW i \in DOMAIN steps, AppendOperationStepTrace(w, i)
          PROVE  revision' > revision
      BY <3>1 DEF AppendOperationStepTrace
    <3>2. CASE Commit(w, 1)
      BY <2>0, <3>2
    <3>3. QED
      BY <2>4, <3>1, <3>2, Zenon
      DEF CompensationStep, ClaimNextOperationCompensationStep,
          CompleteOperationCompensationStep, ReportOperationCompensationStepFailure
  <2>5. CASE Environment
    BY <2>5 DEF Environment, LeaseExpires, RetryBecomesDue, CheckpointChanges
  <2>6. CASE UNCHANGED vars
    BY <2>6 DEF vars
  <2>7. QED
    BY <2>1, <2>2, <2>3, <2>4, <2>5, <2>6 DEF Next
<1>2. QED
  BY <1>1, TypeCorrect, PTL DEF Spec, RevisionAdvances

\* Without a live lease only operators move an execution.
THEOREM ExpiryFreezesExecution == Spec => ExpiredLeaseFreezesExecution
<1>1. [Next]_vars =>
        [lease # "LIVE" /\ state \in Claimable \ {"QUEUED"} /\ state' # state
           => state' \in {"CANCEL_REQUESTED", "ROLLING_BACK", "ROLLED_BACK"}]_vars
  <2> SUFFICES ASSUME [Next]_vars, lease # "LIVE", state \in Claimable \ {"QUEUED"},
                      state' # state
               PROVE  state' \in {"CANCEL_REQUESTED", "ROLLING_BACK", "ROLLED_BACK"}
    OBVIOUS
  <2> USE DEF recordVars, auxVars, Claimable
  <2>0. \A w \in Workers : ~OperationLeaseActive(w)
    BY DEF OperationLeaseActive
  <2>1. ASSUME NEW c \in Callers PROVE ~GetOperation(c)
    BY DEF GetOperation
  <2>2. ASSUME NEW c \in Clients, ClientStep(c)
        PROVE  state' \in {"CANCEL_REQUESTED", "ROLLING_BACK", "ROLLED_BACK"}
    BY <2>2
    DEF ClientStep, TransitionOperation, CanDirectOperationTransition,
        SetOperationCompensationPlan, ApproveOperationAndQueue,
        RequestOperationCancellation, BeginOperationCompensation, ApplyResolution,
        ResolveUnknownOperationOutcome, ResolveUnknownOperationOutcomeWithEvidence
  <2>3. ASSUME NEW w \in Workers PROVE ~WorkerStep(w)
    BY <2>0
    DEF WorkerStep, ClaimOperation, RenewOperationLease, ReleaseOperationLease,
        StartOperationAttempt, BeginOperationVerification, ReportOperationFailure,
        CompleteOperation, AppendOperationEvidencePayload,
        CompleteOperationWithEvidencePayload, AcknowledgeOperationCancellation,
        RecordOperationForwardStepCompleted
  <2>4. ASSUME NEW w \in Workers PROVE ~CompensationStep(w)
    BY <2>0 DEF CompensationStep, ClaimNextOperationCompensationStep, AppendOperationStepTrace,
           CompleteOperationCompensationStep, ReportOperationCompensationStepFailure, RunsStep
  <2>5. CASE Environment
    BY <2>5 DEF Environment, LeaseExpires, RetryBecomesDue, CheckpointChanges
  <2>6. CASE UNCHANGED vars
    BY <2>6 DEF vars
  <2>7. QED
    BY <2>1, <2>2, <2>3, <2>4, <2>5, <2>6 DEF Next
<1>2. QED
  BY <1>1, PTL DEF Spec, ExpiredLeaseFreezesExecution

\* Where every process has a worker identity of its own, a live lease excludes
\* every other process.
THEOREM DistinctWorkersExclude ==
  ASSUME \A v, w \in Workers : NameOf[v] = NameOf[w] => v = w
  PROVE  Spec => LiveLeaseExcludesOthers
<1>1. TypeOK /\ [Next]_vars =>
        [\A w \in Workers : OperationLeaseActive(w) /\ fence' # fence => claim'[w] = fence']_vars
  <2> SUFFICES ASSUME TypeOK, [Next]_vars, NEW w \in Workers, OperationLeaseActive(w),
                      fence' # fence
               PROVE  claim'[w] = fence'
    OBVIOUS
  <2>1. \E v \in Workers : ClaimOperation(v)
    BY DEF Next, GetOperation, ClientStep, TransitionOperation,
        SetOperationCompensationPlan, ApproveOperationAndQueue,
        RequestOperationCancellation, BeginOperationCompensation, ApplyResolution,
        ResolveUnknownOperationOutcome, ResolveUnknownOperationOutcomeWithEvidence,
        WorkerStep, RenewOperationLease, ReleaseOperationLease,
        StartOperationAttempt, BeginOperationVerification, ReportOperationFailure,
        CompleteOperation, AppendOperationEvidencePayload,
        CompleteOperationWithEvidencePayload, AcknowledgeOperationCancellation,
        RecordOperationForwardStepCompleted,
        CompensationStep, ClaimNextOperationCompensationStep, AppendOperationStepTrace,
        CompleteOperationCompensationStep, ReportOperationCompensationStepFailure,
        Environment, LeaseExpires, RetryBecomesDue, CheckpointChanges, vars, auxVars
  <2>2. PICK v \in Workers : ClaimOperation(v)
    BY <2>1
  <2>3. v = w
    BY <2>2 DEF ClaimOperation, LeaseAvailable, OperationLeaseActive
  <2>4. QED
    BY <2>2, <2>3 DEF ClaimOperation, NextToken, TypeOK
<1>2. QED
  BY <1>1, TypeCorrect, PTL DEF Spec, LiveLeaseExcludesOthers

=============================================================================
