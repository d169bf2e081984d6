--------------------------- MODULE OperationEngine ---------------------------
(***************************************************************************)
(* The durable Operation authority of the control plane: the record of one *)
(* Operation in MemoryStore (internal/controlplane; PostgresStore repeats  *)
(* the same guards inside SERIALIZABLE transactions), the worker processes *)
(* that lease and execute it, and the API clients that plan, approve,      *)
(* cancel, roll back and recover it.                                       *)
(*                                                                         *)
(* Every store method runs under MemoryStore.mu, so one method is one      *)
(* action.  A call that returns an error changes nothing and is not a step.*)
(* Between two calls of one caller anything may happen: a caller keeps the *)
(* revision it last saw (seen) and a worker process the fence token it was *)
(* last handed (claim), however stale these have become.                   *)
(*                                                                         *)
(* Time is the value of "deadline passed?" for the two deadlines that the  *)
(* record stores: lease is NONE (LeaseExpiresAt nil), LIVE or EXPIRED, and *)
(* nextAttempt is NONE, WAITING or DUE.  A deadline may pass at any moment,*)
(* which covers every ttl and every backoff.                               *)
(***************************************************************************)
EXTENDS Naturals, Sequences

CONSTANTS
  Workers,       \* worker processes
  Names,         \* worker identities: what LeaseOwner stores
  NameOf,        \* the identity a process claims under (replicas may share one)
  NoOwner,       \* LeaseOwner = ""
  Clients,       \* authenticated API callers
  Requester,     \* the client recorded as Operation.ActorID
  Plans,         \* compensation plans a client may bind
  StepMaxAttempts, \* MaxAttempts of a compensation plan step
  Payloads       \* operation-level evidence payloads (identified by digest)

Strategies == {"NONE", "AUTOMATIC", "MANUAL"}

ASSUME EngineAssumption ==
  /\ NameOf \in [Workers -> Names]
  /\ NoOwner \notin Names
  /\ Requester \in Clients
  /\ Workers \cap Clients = {}
  /\ Plans \subseteq Seq(Strategies) \ {<<>>}
  /\ StepMaxAttempts \in 1..10

Callers == Workers \cup Clients

Classes == {"READ_ONLY", "MUTATING", "DESTRUCTIVE"}

OperationStates ==
  {"DRAFT", "PLANNING", "PLAN_FAILED", "AWAITING_APPROVAL", "APPROVED", "QUEUED",
   "RUNNING", "RETRY_WAIT", "CANCEL_REQUESTED", "VERIFYING", "SUCCEEDED", "FAILED",
   "ROLLING_BACK", "ROLLED_BACK", "ROLLBACK_FAILED", "NEEDS_OPERATOR", "CANCELLED"}

\* TRANSIENT stands for TRANSIENT_NETWORK, RATE_LIMITED and
\* DEPENDENCY_UNAVAILABLE, which every retry policy treats alike.
FailureClasses == {"TRANSIENT", "CONFLICT", "PERMANENT", "UNKNOWN"}

StepStates == {"PENDING", "RUNNING", "SUCCEEDED", "FAILED", "MANUAL_REQUIRED"}

VARIABLES
  class,        \* Operation.Class
  state,        \* Operation.State
  revision,     \* Operation.Revision
  fence,        \* Operation.FenceToken
  leaseOwner,   \* Operation.LeaseOwner
  lease,        \* Operation.LeaseExpiresAt against the clock
  attempt,      \* Operation.Attempt
  nextAttempt,  \* Operation.NextAttemptAt against the clock
  failure,      \* Operation.LastFailureClass
  exhausted,    \* Operation.RetryExhausted
  steps,        \* the bound plan: OperationCompensationStep rows by ForwardOrder
  sealed,       \* <<step, attempt>> with sealed COMPENSATION evidence
  evidence,     \* digests of the sealed operation-level payloads
  checkpointOK, \* the recovery checkpoint is VERIFIED, unexpired and current
  claim,        \* worker process -> FenceToken of its last ClaimResult (0: none)
  seen          \* caller -> Revision of the record it last read or was returned

recordVars == <<state, leaseOwner, lease, attempt, nextAttempt, failure, exhausted>>
auxVars    == <<class, steps, sealed, evidence, checkpointOK, fence, claim>>
vars == <<class, state, revision, fence, leaseOwner, lease, attempt, nextAttempt,
          failure, exhausted, steps, sealed, evidence, checkpointOK, claim, seen>>

-----------------------------------------------------------------------------
(* The state machine's tables and predicates. *)

\* allowedTransitions[s]
AllowedTransitions(s) ==
  CASE s = "DRAFT"             -> {"PLANNING", "CANCELLED"}
    [] s = "PLANNING"          -> {"PLAN_FAILED", "AWAITING_APPROVAL", "QUEUED", "CANCELLED"}
    [] s = "PLAN_FAILED"       -> {"PLANNING", "CANCELLED"}
    [] s = "AWAITING_APPROVAL" -> {"APPROVED", "CANCELLED"}
    [] s = "APPROVED"          -> {"QUEUED", "CANCELLED"}
    [] s = "QUEUED"            -> {"RUNNING", "CANCELLED"}
    [] s = "RUNNING"           -> {"VERIFYING", "RETRY_WAIT", "FAILED", "ROLLING_BACK", "CANCEL_REQUESTED"}
    [] s = "RETRY_WAIT"        -> {"QUEUED", "CANCELLED"}
    [] s = "CANCEL_REQUESTED"  -> {"CANCELLED", "FAILED", "ROLLING_BACK"}
    [] s = "VERIFYING"         -> {"SUCCEEDED", "RETRY_WAIT", "FAILED", "ROLLING_BACK", "CANCEL_REQUESTED"}
    [] s = "FAILED"            -> {"QUEUED", "ROLLING_BACK", "CANCELLED"}
    [] s = "ROLLING_BACK"      -> {"ROLLED_BACK", "ROLLBACK_FAILED", "NEEDS_OPERATOR", "CANCEL_REQUESTED"}
    [] s = "ROLLBACK_FAILED"   -> {"ROLLING_BACK", "NEEDS_OPERATOR", "CANCELLED"}
    [] s = "NEEDS_OPERATOR"    -> {"ROLLING_BACK", "CANCELLED"}
    [] OTHER                   -> {}

CanTransition(from, to) == to \in AllowedTransitions(from)

CanDirectOperationTransition(from, to) ==
  \/ from = "DRAFT"       /\ to = "PLANNING"
  \/ from = "PLANNING"    /\ to \in {"PLAN_FAILED", "AWAITING_APPROVAL", "QUEUED"}
  \/ from = "PLAN_FAILED" /\ to = "PLANNING"
  \/ from = "APPROVED"    /\ to = "QUEUED"

\* Mutant: a rolled-back operation still counts as cancellable.
IsTerminalForgetsRollback(s) == s \in {"SUCCEEDED", "CANCELLED"}

IsTerminal(s) == s \in {"SUCCEEDED", "ROLLED_BACK", "CANCELLED"}

\* RetryPolicyForOperationClass(class).MaxAttempts
MaxAttempts(c) == CASE c = "READ_ONLY" -> 5 [] c = "DESTRUCTIVE" -> 2 [] OTHER -> 3

IsRetryableOperationFailure(c, f) ==
  f = "TRANSIENT" \/ (f = "CONFLICT" /\ c = "READ_ONLY")

Claimable == {"QUEUED", "RUNNING", "VERIFYING", "ROLLING_BACK", "CANCEL_REQUESTED"}

\* Mutant: owner and token suffice, as before release 0.0.300.
OperationLeaseActiveIgnoresDeadline(w) ==
  claim[w] > 0 /\ leaseOwner = NameOf[w] /\ claim[w] = fence

\* The shared worker mutation fence: owner, token and an unexpired lease.
OperationLeaseActive(w) ==
  /\ claim[w] > 0
  /\ leaseOwner = NameOf[w]
  /\ claim[w] = fence
  /\ lease = "LIVE"

\* expected == Operation.Revision, the optimistic concurrency guard.
Expected(c) == seen[c] = revision

\* A completed forward step that a rollback has to undo.
Compensatable(st) == st.forward /\ st.strategy # "NONE"

\* Mutant: steps that an operator has to undo are overlooked.
HasAutomaticForward(ss) ==
  \E i \in DOMAIN ss : ss[i].forward /\ ss[i].strategy = "AUTOMATIC"

HasCompensatableForward(ss) == \E i \in DOMAIN ss : Compensatable(ss[i])

\* Nothing left to undo.
AllCompensated(ss) ==
  \A i \in DOMAIN ss : Compensatable(ss[i]) => ss[i].state = "SUCCEEDED"

\* What the store writes into a row.
ForwardDone(st)    == [st EXCEPT !.forward = TRUE]
Started(st, token) == [st EXCEPT !.state = "RUNNING", !.attempt = st.attempt + 1, !.fence = token]
Requeued(st)       == [st EXCEPT !.state = "PENDING", !.fence = 0]
Closed(st, result) == [st EXCEPT !.state = result]

-----------------------------------------------------------------------------
(* What a commit does to the record's bookkeeping. *)

\* Mutant: LeaseExpiresAt is left behind.
ClearLeaseOwnerOnly == leaseOwner' = NoOwner /\ UNCHANGED lease

ClearLease == leaseOwner' = NoOwner /\ lease' = "NONE"

ClearSchedule == nextAttempt' = "NONE"

\* Revision advances by k and the caller is returned the new record.
Commit(c, k) ==
  /\ revision' = revision + k
  /\ seen' = [seen EXCEPT ![c] = revision + k]

\* Mutant: lease bookkeeping does not count as a revision.
CommitWithoutRevision(k) == UNCHANGED <<revision, seen>>

\* Revision advances by k; the result carries no revision.
CommitBlind(k) == revision' = revision + k /\ UNCHANGED seen

-----------------------------------------------------------------------------
(* Reads and the clock. *)

\* createOperationLocked: a DRAFT record of any class, at revision 1, returned
\* to its requester.  A destructive one needs a valid checkpoint already.
Init ==
  /\ class \in Classes
  /\ state = "DRAFT" /\ revision = 1 /\ fence = 0
  /\ leaseOwner = NoOwner /\ lease = "NONE"
  /\ attempt = 0 /\ nextAttempt = "NONE"
  /\ failure = "NONE" /\ exhausted = FALSE
  /\ steps = <<>> /\ sealed = {} /\ evidence = {}
  /\ checkpointOK = (class = "DESTRUCTIVE")
  /\ claim = [w \in Workers |-> 0]
  /\ seen = [c \in Callers |-> IF c = Requester THEN 1 ELSE 0]

GetOperation(c) ==
  /\ seen' = [seen EXCEPT ![c] = revision]
  /\ UNCHANGED <<revision, recordVars, auxVars>>

LeaseExpires ==
  /\ lease = "LIVE"
  /\ lease' = "EXPIRED"
  /\ UNCHANGED <<state, leaseOwner, attempt, nextAttempt, failure, exhausted,
                 revision, seen, auxVars>>

RetryBecomesDue ==
  /\ nextAttempt = "WAITING"
  /\ nextAttempt' = "DUE"
  /\ UNCHANGED <<state, leaseOwner, lease, attempt, failure, exhausted,
                 revision, seen, auxVars>>

\* The checkpoint expires or is revoked, or the target's inventory digest
\* moves away from (or back to) the one the checkpoint recorded.
CheckpointChanges ==
  /\ class = "DESTRUCTIVE"
  /\ checkpointOK' = ~checkpointOK
  /\ UNCHANGED <<recordVars, revision, seen, class, steps, sealed, evidence, fence, claim>>

-----------------------------------------------------------------------------
(* Orchestration by API clients, before execution. *)

TransitionOperation(c, to) ==
  /\ Expected(c)
  /\ CanTransition(state, to)
  /\ CanDirectOperationTransition(state, to)
  /\ state' = to
  /\ Commit(c, 1)
  /\ UNCHANGED <<leaseOwner, lease, attempt, nextAttempt, failure, exhausted, auxVars>>

\* Mutant: the row is stored with an unset State.
NewStepWithoutState(strategy) ==
  [strategy |-> strategy, forward |-> FALSE, state |-> "", attempt |-> 0, fence |-> 0]

NewStep(strategy) ==
  [strategy |-> strategy, forward |-> FALSE, state |-> "PENDING", attempt |-> 0, fence |-> 0]

\* A new plan replaces the rows of an earlier one.
SetOperationCompensationPlan(c, plan) ==
  /\ Expected(c)
  /\ state = "PLANNING"
  /\ class # "READ_ONLY"
  /\ steps' = [i \in DOMAIN plan |-> NewStep(plan[i])]
  /\ Commit(c, 1)
  /\ UNCHANGED <<recordVars, class, sealed, evidence, checkpointOK, fence, claim>>

\* AWAITING_APPROVAL -> APPROVED -> QUEUED under one lock, two revisions.
ApproveOperationAndQueue(c) ==
  /\ Expected(c)
  /\ state = "AWAITING_APPROVAL"
  /\ c # Requester
  /\ state' = "QUEUED"
  /\ Commit(c, 2)
  /\ UNCHANGED <<leaseOwner, lease, attempt, nextAttempt, failure, exhausted, auxVars>>

-----------------------------------------------------------------------------
(* The lease. *)

\* Mutant: only an attempt under way is protected.
LeaseAvailableUnlessRunning(w) ==
  lease = "LIVE" => leaseOwner = NameOf[w] \/ state # "RUNNING"

\* A live lease refuses every other *identity*.
LeaseAvailable(w) == lease = "LIVE" => leaseOwner = NameOf[w]

\* Mutant: an expired lease is taken over under its old token.
NextTokenReused == IF lease = "EXPIRED" THEN fence ELSE fence + 1

NextToken == fence + 1

\* A due RETRY_WAIT record is first queued (a revision of its own).  The
\* identity that holds the lease may claim again and takes a new token.
ClaimOperation(w) ==
  LET due == state = "RETRY_WAIT" IN
  /\ due => nextAttempt = "DUE"
  /\ due \/ state \in Claimable
  /\ LeaseAvailable(w)
  /\ state' = IF due THEN "QUEUED" ELSE state
  /\ nextAttempt' = IF due THEN "NONE" ELSE nextAttempt
  /\ fence' = NextToken
  /\ claim' = [claim EXCEPT ![w] = NextToken]
  /\ leaseOwner' = NameOf[w]
  /\ lease' = "LIVE"
  /\ CommitBlind(IF due THEN 2 ELSE 1)
  /\ UNCHANGED <<attempt, failure, exhausted, class, steps, sealed, evidence, checkpointOK>>

RenewOperationLease(w) ==
  /\ OperationLeaseActive(w)
  /\ CommitBlind(1)
  /\ UNCHANGED <<recordVars, auxVars>>

\* Neither the deadline nor the state is looked at.
ReleaseOperationLease(w) ==
  /\ claim[w] = fence
  /\ leaseOwner = NameOf[w]
  /\ ClearLease
  /\ CommitBlind(1)
  /\ UNCHANGED <<state, attempt, nextAttempt, failure, exhausted, auxVars>>

-----------------------------------------------------------------------------
(* Execution by the leasing worker. *)

StartOperationAttempt(w) ==
  /\ Expected(w)
  /\ state = "QUEUED"
  /\ OperationLeaseActive(w)
  /\ class = "DESTRUCTIVE" => checkpointOK
  /\ attempt < MaxAttempts(class)
  /\ attempt' = attempt + 1
  /\ state' = "RUNNING"
  /\ ClearSchedule /\ failure' = "NONE" /\ exhausted' = FALSE
  /\ Commit(w, 1)
  /\ UNCHANGED <<leaseOwner, lease, auxVars>>

BeginOperationVerification(w) ==
  /\ Expected(w)
  /\ state = "RUNNING"
  /\ OperationLeaseActive(w)
  /\ state' = "VERIFYING"
  /\ Commit(w, 1)
  /\ UNCHANGED <<leaseOwner, lease, attempt, nextAttempt, failure, exhausted, auxVars>>

\* The states a worker may report a failure from.
FailureReportable == {"RUNNING", "VERIFYING", "ROLLING_BACK"}

\* Mutant: off by one.
AttemptsLeftInclusive == attempt <= MaxAttempts(class)

AttemptsLeft == attempt < MaxAttempts(class)

ReportOperationFailure(w, f) ==
  LET retryable == IsRetryableOperationFailure(class, f)
      again     == retryable /\ AttemptsLeft
  IN
  /\ Expected(w)
  /\ state \in FailureReportable
  /\ OperationLeaseActive(w)
  /\ failure' = f
  /\ ClearLease
  /\ state' = IF again THEN "RETRY_WAIT" ELSE "FAILED"
  /\ nextAttempt' = IF again THEN "WAITING" ELSE "NONE"
  /\ exhausted' = (retryable /\ ~again)
  /\ Commit(w, 1)
  /\ UNCHANGED <<attempt, auxVars>>

CompleteOperation(w) ==
  /\ Expected(w)
  /\ state = "VERIFYING"
  /\ OperationLeaseActive(w)
  /\ state' = "SUCCEEDED"
  /\ ClearLease
  /\ ClearSchedule
  /\ Commit(w, 1)
  /\ UNCHANGED <<attempt, failure, exhausted, auxVars>>

\* Seal a payload against the leased operation; the operation record itself
\* (and its revision) is untouched.
AppendOperationEvidencePayload(w, p) ==
  /\ OperationLeaseActive(w)
  /\ p \notin evidence
  /\ evidence' = evidence \cup {p}
  /\ UNCHANGED <<recordVars, revision, seen, class, steps, sealed, checkpointOK, fence, claim>>

\* Seal the result and commit RUNNING -> VERIFYING -> SUCCEEDED at once, or
\* finish a VERIFYING one whose evidence is sealed, allowing for one revision
\* the caller did not see.
CompleteOperationWithEvidencePayload(w, p) ==
  /\ OperationLeaseActive(w)
  /\ \/ state = "RUNNING" /\ Expected(w) /\ Commit(w, 2)
     \/ state = "VERIFYING" /\ p \in evidence
        /\ (Expected(w) \/ seen[w] + 1 = revision) /\ Commit(w, 1)
  /\ state' = "SUCCEEDED"
  /\ evidence' = evidence \cup {p}
  /\ ClearLease
  /\ ClearSchedule
  /\ UNCHANGED <<attempt, failure, exhausted, class, steps, sealed, checkpointOK, fence, claim>>

\* Mutant: the order of forward steps is not enforced.
PredecessorsIgnored(i) == i \in DOMAIN steps

PredecessorsDone(i) == \A j \in DOMAIN steps : j < i => steps[j].forward

\* Already completed steps are acknowledged without a change.
RecordOperationForwardStepCompleted(w, i) ==
  /\ Expected(w)
  /\ state \in {"RUNNING", "VERIFYING"}
  /\ OperationLeaseActive(w)
  /\ i \in DOMAIN steps
  /\ ~steps[i].forward
  /\ PredecessorsDone(i)
  /\ steps' = [steps EXCEPT ![i] = ForwardDone(steps[i])]
  /\ Commit(w, 1)
  /\ UNCHANGED <<recordVars, class, sealed, evidence, checkpointOK, fence, claim>>

-----------------------------------------------------------------------------
(* Cancellation and recovery of an unknown outcome. *)

\* Under execution the worker has to acknowledge; otherwise it is immediate.
RequestOperationCancellation(c) ==
  /\ Expected(c)
  /\ ~IsTerminal(state)
  /\ state # "CANCEL_REQUESTED"
  /\ IF state \in {"RUNNING", "VERIFYING", "ROLLING_BACK"}
       THEN state' = "CANCEL_REQUESTED" /\ UNCHANGED <<leaseOwner, lease, nextAttempt>>
       ELSE state' = "CANCELLED" /\ ClearLease /\ ClearSchedule
  /\ Commit(c, 1)
  /\ UNCHANGED <<attempt, failure, exhausted, auxVars>>

AcknowledgeOperationCancellation(w) ==
  /\ Expected(w)
  /\ state = "CANCEL_REQUESTED"
  /\ ~HasCompensatableForward(steps)
  /\ OperationLeaseActive(w)
  /\ state' = "CANCELLED"
  /\ ClearLease
  /\ ClearSchedule
  /\ Commit(w, 1)
  /\ UNCHANGED <<attempt, failure, exhausted, auxVars>>

\* ApplyUnknownOutcomeResolution
ApplyResolution(c, success) ==
  /\ Expected(c)
  /\ state = "FAILED" /\ failure = "UNKNOWN"
  /\ ClearLease
  /\ ClearSchedule
  /\ state' = IF success THEN "SUCCEEDED" ELSE "FAILED"
  /\ failure' = IF success THEN "NONE" ELSE "PERMANENT"
  /\ exhausted' = ~success
  /\ Commit(c, 1)
  /\ UNCHANGED <<attempt, class, steps, sealed, checkpointOK, fence, claim>>

ResolveUnknownOperationOutcome(c, success) ==
  ApplyResolution(c, success) /\ UNCHANGED evidence

\* The readback payload is sealed with the resolution; one that is already
\* sealed is refused (or replays without a change).
ResolveUnknownOperationOutcomeWithEvidence(c, success, p) ==
  /\ p \notin evidence
  /\ ApplyResolution(c, success)
  /\ evidence' = evidence \cup {p}

-----------------------------------------------------------------------------
(* Compensation: roll the completed forward steps back, last one first. *)

BeginOperationCompensation(c) ==
  /\ Expected(c)
  /\ state \in {"FAILED", "CANCEL_REQUESTED"}
  /\ steps # <<>>
  /\ state' = IF HasCompensatableForward(steps) THEN "ROLLING_BACK" ELSE "ROLLED_BACK"
  /\ ClearLease
  /\ Commit(c, 1)
  /\ UNCHANGED <<attempt, nextAttempt, failure, exhausted, auxVars>>

PendingSteps == {i \in DOMAIN steps : Compensatable(steps[i]) /\ steps[i].state = "PENDING"}

\* The highest pending step: taken, or handed to the operator when its
\* strategy has no automatic compensation.  With none pending, the rollback
\* is finished if nothing else is outstanding.
ClaimNextOperationCompensationStep(w) ==
  /\ state = "ROLLING_BACK"
  /\ OperationLeaseActive(w)
  /\ \/ /\ PendingSteps = {}
        /\ AllCompensated(steps)
        /\ state' = "ROLLED_BACK"
        /\ ClearLease
        /\ UNCHANGED steps
     \/ \E i \in PendingSteps :
          /\ \A j \in PendingSteps : j <= i
          /\ IF steps[i].strategy = "MANUAL"
               THEN /\ steps' = [steps EXCEPT ![i] = Closed(steps[i], "MANUAL_REQUIRED")]
                    /\ state' = "NEEDS_OPERATOR"
                    /\ ClearLease
               ELSE /\ steps[i].attempt < StepMaxAttempts
                    /\ steps' = [steps EXCEPT ![i] = Started(steps[i], fence)]
                    /\ UNCHANGED <<state, leaseOwner, lease>>
  /\ Commit(w, 1)
  /\ UNCHANGED <<attempt, nextAttempt, failure, exhausted,
                 class, sealed, evidence, checkpointOK, fence, claim>>

\* Step i is being compensated under the token that w holds.
RunsStep(w, i) ==
  /\ state = "ROLLING_BACK"
  /\ OperationLeaseActive(w)
  /\ i \in DOMAIN steps
  /\ steps[i].state = "RUNNING"
  /\ steps[i].fence = claim[w]

\* AppendOperationStepTrace in the COMPENSATION phase.
AppendOperationStepTrace(w, i) ==
  /\ RunsStep(w, i)
  /\ sealed' = sealed \cup {<<i, steps[i].attempt>>}
  /\ UNCHANGED <<recordVars, revision, seen, class, steps, evidence, checkpointOK, fence, claim>>

\* Mutant: the digest is taken on trust, as long as the step was started.
StepEvidenceOnTrust(i) == steps[i].attempt > 0

\* hasSealedStepEvidenceLocked, for the attempt under way.
HasSealedStepEvidence(i) == <<i, steps[i].attempt>> \in sealed

CompleteOperationCompensationStep(w, i) ==
  LET done == [steps EXCEPT ![i] = Closed(steps[i], "SUCCEEDED")] IN
  /\ RunsStep(w, i)
  /\ HasSealedStepEvidence(i)
  /\ steps' = done
  /\ IF AllCompensated(done)
       THEN state' = "ROLLED_BACK" /\ ClearLease
       ELSE UNCHANGED <<state, leaseOwner, lease>>
  /\ Commit(w, 1)
  /\ UNCHANGED <<attempt, nextAttempt, failure, exhausted,
                 class, sealed, evidence, checkpointOK, fence, claim>>

ReportOperationCompensationStepFailure(w, i, retryable) ==
  LET again == retryable /\ steps[i].attempt < StepMaxAttempts IN
  /\ RunsStep(w, i)
  /\ IF again
       THEN /\ steps' = [steps EXCEPT ![i] = Requeued(steps[i])]
            /\ UNCHANGED <<state, leaseOwner, lease>>
       ELSE /\ steps' = [steps EXCEPT ![i] = Closed(steps[i], "FAILED")]
            /\ state' = "ROLLBACK_FAILED"
            /\ ClearLease
  /\ Commit(w, 1)
  /\ UNCHANGED <<attempt, nextAttempt, failure, exhausted,
                 class, sealed, evidence, checkpointOK, fence, claim>>

-----------------------------------------------------------------------------

ClientStep(c) ==
  \/ \E to \in OperationStates : TransitionOperation(c, to)
  \/ \E plan \in Plans : SetOperationCompensationPlan(c, plan)
  \/ ApproveOperationAndQueue(c)
  \/ RequestOperationCancellation(c)
  \/ BeginOperationCompensation(c)
  \/ \E success \in BOOLEAN : ResolveUnknownOperationOutcome(c, success)
  \/ \E success \in BOOLEAN, p \in Payloads :
       ResolveUnknownOperationOutcomeWithEvidence(c, success, p)

WorkerStep(w) ==
  \/ ClaimOperation(w) \/ RenewOperationLease(w) \/ ReleaseOperationLease(w)
  \/ StartOperationAttempt(w) \/ BeginOperationVerification(w)
  \/ \E f \in FailureClasses : ReportOperationFailure(w, f)
  \/ CompleteOperation(w)
  \/ \E p \in Payloads : AppendOperationEvidencePayload(w, p)
  \/ \E p \in Payloads : CompleteOperationWithEvidencePayload(w, p)
  \/ AcknowledgeOperationCancellation(w)
  \/ \E i \in DOMAIN steps : RecordOperationForwardStepCompleted(w, i)

CompensationStep(w) ==
  \/ ClaimNextOperationCompensationStep(w)
  \/ \E i \in DOMAIN steps : AppendOperationStepTrace(w, i)
  \/ \E i \in DOMAIN steps : CompleteOperationCompensationStep(w, i)
  \/ \E i \in DOMAIN steps, retryable \in BOOLEAN :
       ReportOperationCompensationStepFailure(w, i, retryable)

Environment == LeaseExpires \/ RetryBecomesDue \/ CheckpointChanges

Next ==
  \/ \E c \in Callers : GetOperation(c)
  \/ \E c \in Clients : ClientStep(c)
  \/ \E w \in Workers : WorkerStep(w) \/ CompensationStep(w)
  \/ Environment

Spec == Init /\ [][Next]_vars

-----------------------------------------------------------------------------
(* Properties. *)

StepRecord ==
  [strategy : Strategies, forward : BOOLEAN, state : StepStates, attempt : Nat, fence : Nat]

\* Every field of the stored Operation, its plan rows and the callers' copies
\* (controlplane/model.go Operation, OperationCompensationStep) keeps its type.
TypeOK ==
  /\ class \in Classes
  /\ state \in OperationStates
  /\ revision \in Nat /\ fence \in Nat /\ attempt \in Nat
  /\ leaseOwner \in Names \cup {NoOwner}
  /\ lease \in {"NONE", "LIVE", "EXPIRED"}
  /\ nextAttempt \in {"NONE", "WAITING", "DUE"}
  /\ failure \in FailureClasses \cup {"NONE"}
  /\ exhausted \in BOOLEAN
  /\ steps \in Seq(StepRecord)
  /\ sealed \subseteq Nat \X Nat
  /\ evidence \subseteq Payloads
  /\ checkpointOK \in BOOLEAN
  /\ claim \in [Workers -> Nat]
  /\ seen \in [Callers -> Nat]

\* The retry budget: no claim, expiry, retry, rollback or recovery sequence
\* starts more attempts than the class allows, and whatever is scheduled to be
\* started (a QUEUED or RETRY_WAIT operation, a PENDING compensation step)
\* still has budget, so StartOperationAttempt and the step claim never strand
\* it with "retry budget exhausted".
BudgetRespected ==
  /\ attempt <= MaxAttempts(class)
  /\ state \in {"QUEUED", "RETRY_WAIT"} => attempt < MaxAttempts(class)
  /\ \A i \in DOMAIN steps :
       /\ steps[i].attempt <= StepMaxAttempts
       /\ steps[i].state = "PENDING" => steps[i].attempt < StepMaxAttempts

\* A lease exists only in the states ClaimOperation grants it in: every way out
\* of execution clears it.  Otherwise ReleaseOperationLease, which looks at no
\* state, would still rewrite finished records.
LeaseOnlyWhileClaimable ==
  /\ leaseOwner # NoOwner => state \in Claimable
  /\ lease = "NONE" <=> leaseOwner = NoOwner

\* RETRY_WAIT and only RETRY_WAIT carries NextAttemptAt: without it ClaimOperation
\* refuses the record for ever.
RetryWaitIsScheduled == state = "RETRY_WAIT" <=> nextAttempt # "NONE"

\* Monotonic fencing: a token is handed out once, so two processes (even two
\* that share a worker identity) never hold the same one, and no process or
\* compensation step holds one from the future.
TokensAreUnique ==
  /\ \A w \in Workers : claim[w] <= fence
  /\ \A v, w \in Workers : claim[v] = claim[w] /\ claim[v] > 0 => v = w
  /\ \A i \in DOMAIN steps : steps[i].fence <= fence

\* ROLLED_BACK is only reported when every completed forward step that has a
\* compensation was compensated, whichever of the three methods reports it.
RolledBackIsUndone == state = "ROLLED_BACK" => AllCompensated(steps)

\* A step counts as compensated only with evidence sealed for that very
\* attempt, across lease losses, retries and re-claims.
CompensationIsEvidenced ==
  \A i \in DOMAIN steps :
    steps[i].state = "SUCCEEDED" => <<i, steps[i].attempt>> \in sealed

\* Forward progress is a prefix of the plan, and compensation has touched only
\* steps whose forward effect is recorded.
ForwardIsPrefix ==
  \A i \in DOMAIN steps :
    /\ steps[i].forward => \A j \in 1..i : steps[j].forward
    /\ steps[i].state # "PENDING" => Compensatable(steps[i])

Stored == <<state, fence, leaseOwner, attempt, failure, exhausted, steps>>

\* Optimistic concurrency rests on this: no stored field changes without a new
\* revision, so a caller holding the current revision has seen every change.
RevisionAdvances == [][Stored' # Stored => revision' > revision]_vars

Finished == state \in {"SUCCEEDED", "ROLLED_BACK", "CANCELLED"}

\* A finished operation is never changed again, by stale workers, late reports,
\* cancellations or recoveries.
TerminalIsFinal == [][Finished => UNCHANGED <<Stored, revision, evidence>>]_vars

\* README.md:1083: after the lease deadline no worker moves an execution, however
\* its owner and token match: only an operator's cancellation or rollback does.
ExpiredLeaseFreezesExecution ==
  [][lease # "LIVE" /\ state \in Claimable \ {"QUEUED"} /\ state' # state
       => state' \in {"CANCEL_REQUESTED", "ROLLING_BACK", "ROLLED_BACK"}]_vars

\* ClaimOperation (memory_store.go:1412): while a process holds a live lease, nobody
\* else is handed a token.  This is a property of workers under identities of their
\* own; processes that share one, as the managed OKD install worker's replicas do,
\* claim past each other's leases.
LiveLeaseExcludesOthers ==
  [][\A w \in Workers : OperationLeaseActive(w) /\ fence' # fence => claim'[w] = fence']_vars

(* Statements of the repository that the code does not keep. *)

\* state_machine.go:15: ROLLING_BACK leads to ROLLED_BACK, ROLLBACK_FAILED,
\* NEEDS_OPERATOR or CANCEL_REQUESTED.
RollbackFollowsItsRow ==
  [][state = "ROLLING_BACK" /\ state' # state => CanTransition(state, state')]_vars

\* operation_retry.go:307: "completed mutating steps require compensation before
\* cancellation can complete".
CancelledLeavesNothingDone == state = "CANCELLED" => AllCompensated(steps)

\* compensation_test.go:85 (TestGenericCompensationRunsReverseOrder...): a step is
\* compensated only after every later completed step is.
CompensatesInReverse ==
  [][\A i \in DOMAIN steps :
       steps[i].state = "PENDING" /\ steps'[i].state = "RUNNING"
         => \A j \in DOMAIN steps :
              j > i /\ Compensatable(steps[j]) => steps[j].state = "SUCCEEDED"]_vars
=============================================================================
