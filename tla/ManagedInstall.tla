---------------------------- MODULE ManagedInstall ----------------------------
(***************************************************************************)
(* The managed OKD install worker (internal/api/managed_okd_install.go,    *)
(* internal/managedinstall): control-plane replicas that advance one       *)
(* install operation step by step, on top of the operation authority of    *)
(* OperationEngine.  Every change of the operation record here is an       *)
(* action of that module.                                                  *)
(*                                                                         *)
(* A replica runs ProcessManagedOKDInstallJobsOnce in a loop.  Each of its *)
(* store calls is a step; so is the execution of an install step, which    *)
(* acts on the machines and which a heartbeat accompanies.  All replicas   *)
(* claim under one identity (managedOKDInstallWorkerID).  A call that is   *)
(* refused, fails or is the last one before a crash ends the iteration and *)
(* leaves the lease as it is.                                              *)
(***************************************************************************)
EXTENDS OperationEngine

CONSTANTS
  StepCount, \* length of OrderedStepsFor(request); the last is COMPLETE
  MaxFaults  \* bound: crashes, failing store calls, leases that run out under their worker

ASSUME InstallAssumption ==
  /\ StepCount \in Nat \ {0} /\ MaxFaults \in Nat
  /\ Payloads = 1..StepCount    \* a step is sealed by its evidence

InstallSteps == 1..StepCount

VARIABLES
  replica, \* worker -> where its iteration stands, the step it is at, the step's result
  faults   \* faults so far

installVars == <<vars, replica, faults>>

Idle == [at |-> "IDLE", step |-> 0, result |-> "NONE"]
Places == {"IDLE", "LISTED", "CLAIMED", "SKIP", "START", "NEXT", "EXECUTE", "RELOAD",
           "SEAL", "REPORT", "SEALED", "RELEASE", "VERIFY", "COMPLETE"}
Results == {"NONE", "SUCCESS", "TRANSIENT", "PERMANENT"}

At(r, place)  == replica[r].at = place
Goes(r, place) == replica' = [replica EXCEPT ![r].at = place] /\ UNCHANGED faults
Ends(r)       == replica' = [replica EXCEPT ![r] = Idle] /\ UNCHANGED faults
Fault         == faults < MaxFaults /\ faults' = faults + 1

\* The operation as createManagedOKDInstall leaves it: sealed, class MUTATING,
\* and driven to AWAITING_APPROVAL (revision 3) under one lock.
InstallInit ==
  /\ class = "MUTATING" /\ state = "AWAITING_APPROVAL" /\ revision = 3 /\ fence = 0
  /\ leaseOwner = NoOwner /\ lease = "NONE"
  /\ attempt = 0 /\ nextAttempt = "NONE" /\ failure = "NONE" /\ exhausted = FALSE
  /\ steps = <<>> /\ sealed = {} /\ evidence = {} /\ checkpointOK = FALSE
  /\ claim = [w \in Workers |-> 0]
  /\ seen = [c \in Callers |-> IF c = Requester THEN 3 ELSE 0]
  /\ replica = [r \in Workers |-> Idle]
  /\ faults = 0

-----------------------------------------------------------------------------
(* Clients. *)

\* getManagedOKDInstall
GetManagedOKDInstall(c) == GetOperation(c) /\ UNCHANGED <<replica, faults>>

ApproveManagedOKDInstall(c) == ApproveOperationAndQueue(c) /\ UNCHANGED <<replica, faults>>

CancelOperation(c) == RequestOperationCancellation(c) /\ UNCHANGED <<replica, faults>>

-----------------------------------------------------------------------------
(* One iteration of a replica. *)

\* Mutant: an attempt that is under way is never listed again.
ListedQueuedOnly == state = "QUEUED" \/ (state = "RETRY_WAIT" /\ nextAttempt = "DUE")

\* ListClaimableOperationsByKind: a QUEUED operation is listed whatever its
\* lease, a VERIFYING or CANCEL_REQUESTED one never.
Listed ==
  \/ state = "QUEUED"
  \/ state = "RETRY_WAIT" /\ nextAttempt = "DUE"
  \/ state = "RUNNING" /\ lease # "LIVE"

ListJobs(r) ==
  /\ At(r, "IDLE")
  /\ Listed
  /\ Goes(r, "LISTED")
  /\ UNCHANGED vars

\* The list may be old by now.  ErrNotClaimable and ErrLeaseHeld skip the job.
ClaimListed(r) ==
  /\ At(r, "LISTED")
  /\ \/ ClaimOperation(r) /\ Goes(r, "CLAIMED")
     \/ /\ state \notin Claimable /\ ~(state = "RETRY_WAIT" /\ nextAttempt = "DUE")
        /\ Ends(r)
        /\ UNCHANGED vars

ReadClaimed(r) ==
  /\ At(r, "CLAIMED")
  /\ GetOperation(r)
  /\ Goes(r, CASE state = "QUEUED" -> "START" [] state = "RUNNING" -> "NEXT" [] OTHER -> "SKIP")

\* The lease is given back, if it is still this replica's.
SkipJob(r) ==
  /\ At(r, "SKIP")
  /\ \/ ReleaseOperationLease(r)
     \/ ~(claim[r] = fence /\ leaseOwner = NameOf[r]) /\ UNCHANGED vars
  /\ Ends(r)

\* The store accepts what r does next to an operation in that state.
Accepts(r, from) == Expected(r) /\ state \in from /\ OperationLeaseActive(r)

StartJob(r) ==
  /\ At(r, "START")
  /\ \/ StartOperationAttempt(r) /\ Goes(r, "NEXT")
     \/ ~Accepts(r, {"QUEUED"}) /\ Ends(r) /\ UNCHANGED vars

\* Mutant: a step counts as done as soon as a later attempt begins.
NextManagedInstallStepByAttempt(done) ==
  {s \in InstallSteps : s \notin done /\ s >= attempt /\ \A t \in InstallSteps : t \notin done /\ t >= attempt => s <= t}

\* Mutant: the sequence has no end.
NextManagedInstallStepPastEnd(done) ==
  {s \in 1..(StepCount + 1) : s \notin done /\ \A t \in InstallSteps \ done : s <= t}

\* nextManagedInstallStep: the first step without evidence, if there is one.
NextManagedInstallStep(done) ==
  {s \in InstallSteps : s \notin done /\ \A t \in InstallSteps \ done : s <= t}

ReadEvidence(r) ==
  /\ At(r, "NEXT")
  /\ \/ \E s \in NextManagedInstallStep(evidence) :
          replica' = [replica EXCEPT ![r] = [at |-> "EXECUTE", step |-> s, result |-> "NONE"]]
     \/ /\ NextManagedInstallStep(evidence) = {}
        /\ replica' = [replica EXCEPT ![r].at = "VERIFY"]
  /\ UNCHANGED <<vars, faults>>

\* ExecuteStep succeeds, finds a dependency unavailable or the request invalid,
\* and the heartbeat has been joined.
ExecuteStep(r, result) ==
  /\ At(r, "EXECUTE")
  /\ replica' = [replica EXCEPT ![r].at = "RELOAD", ![r].result = result]
  /\ UNCHANGED <<vars, faults>>

\* The heartbeat of a running step renews the lease; when it is refused, the
\* step is cancelled and the iteration ends.
Heartbeat(r) ==
  /\ At(r, "EXECUTE")
  /\ \/ RenewOperationLease(r) /\ UNCHANGED <<replica, faults>>
     \/ ~OperationLeaseActive(r) /\ Ends(r) /\ UNCHANGED vars

\* Mutant: the revision of before the step is used.
ReloadSkipped(r) ==
  /\ At(r, "RELOAD")
  /\ Goes(r, IF replica[r].result = "SUCCESS" THEN "SEAL" ELSE "REPORT")
  /\ UNCHANGED vars

\* "Lease renewal advances the durable operation revision", so the operation is
\* read again; the owner's name and the token are compared, the deadline is not.
Reload(r) ==
  /\ At(r, "RELOAD")
  /\ GetOperation(r)
  /\ IF claim[r] = fence /\ leaseOwner = NameOf[r]
     THEN Goes(r, IF replica[r].result = "SUCCESS" THEN "SEAL" ELSE "REPORT")
     ELSE Ends(r)

\* The answer is not looked at.
ReportStepFailure(r) ==
  /\ At(r, "REPORT")
  /\ \/ ReportOperationFailure(r, replica[r].result)
     \/ ~Accepts(r, FailureReportable) /\ UNCHANGED vars
  /\ Ends(r)

SealStep(r) ==
  /\ At(r, "SEAL")
  /\ \/ AppendOperationEvidencePayload(r, replica[r].step) /\ Goes(r, "SEALED")
     \/ ~OperationLeaseActive(r) /\ Ends(r) /\ UNCHANGED vars

\* Mutant: off by one, the last step but one completes the install.
AfterSealEarly(s) == IF s + 1 >= StepCount THEN "VERIFY" ELSE "RELEASE"

AfterSeal(s) == IF s = StepCount THEN "VERIFY" ELSE "RELEASE"

ReloadSealed(r) ==
  /\ At(r, "SEALED")
  /\ GetOperation(r)
  /\ Goes(r, AfterSeal(replica[r].step))

\* One step an iteration: the next one is for whoever claims the operation.
ReleaseAfterStep(r) ==
  /\ At(r, "RELEASE")
  /\ \/ ReleaseOperationLease(r)
     \/ ~(claim[r] = fence /\ leaseOwner = NameOf[r]) /\ UNCHANGED vars
  /\ Ends(r)

BeginVerification(r) ==
  /\ At(r, "VERIFY")
  /\ \/ BeginOperationVerification(r) /\ Goes(r, "COMPLETE")
     \/ ~Accepts(r, {"RUNNING"}) /\ Ends(r) /\ UNCHANGED vars

CompleteInstall(r) ==
  /\ At(r, "COMPLETE")
  /\ \/ CompleteOperation(r)
     \/ ~Accepts(r, {"VERIFYING"}) /\ UNCHANGED vars
  /\ Ends(r)

-----------------------------------------------------------------------------
(* Time and faults. *)

\* Nobody is at work under the lease.
Abandoned == \A r \in Workers : At(r, "IDLE") \/ ~OperationLeaseActive(r)

\* A lease runs out after its holder has gone, or (a fault) while it is at work:
\* a claim taken late in a batch, a heartbeat that is late.
InstallLeaseExpires ==
  /\ LeaseExpires
  /\ IF Abandoned THEN UNCHANGED faults ELSE Fault
  /\ UNCHANGED replica

InstallRetryBecomesDue == RetryBecomesDue /\ UNCHANGED <<replica, faults>>

\* A store call fails, the heartbeat's last renewal is cut short, or the
\* process dies and is started again.
IterationAborted(r) ==
  /\ ~At(r, "IDLE")
  /\ Fault
  /\ replica' = [replica EXCEPT ![r] = Idle]
  /\ UNCHANGED vars

-----------------------------------------------------------------------------

ClientCalls(c) == GetManagedOKDInstall(c) \/ ApproveManagedOKDInstall(c) \/ CancelOperation(c)

ReplicaStep(r) ==
  \/ ListJobs(r) \/ ClaimListed(r) \/ ReadClaimed(r) \/ SkipJob(r) \/ StartJob(r) \/ ReadEvidence(r)
  \/ \E result \in Results \ {"NONE"} : ExecuteStep(r, result)
  \/ Reload(r) \/ ReportStepFailure(r) \/ SealStep(r) \/ ReloadSealed(r) \/ ReleaseAfterStep(r)
  \/ BeginVerification(r) \/ CompleteInstall(r)

InstallNext ==
  \/ \E c \in Clients : ClientCalls(c)
  \/ \E r \in Workers : ReplicaStep(r) \/ Heartbeat(r) \/ IterationAborted(r)
  \/ InstallLeaseExpires \/ InstallRetryBecomesDue

InstallSpec == InstallInit /\ [][InstallNext]_installVars

\* Replicas poll and work, time passes, and two replicas that both list a QUEUED
\* operation do not rob each other for ever between the claim, the read and the
\* start, which follow each other at once while polls are seconds apart.
InstallFairness ==
  /\ \A r \in Workers : WF_installVars(ReplicaStep(r))
  /\ \A r \in Workers : SF_installVars(OperationLeaseActive(r) /\ ReadClaimed(r))
  /\ \A r \in Workers : SF_installVars(OperationLeaseActive(r) /\ StartJob(r))
  /\ WF_installVars(Abandoned /\ InstallLeaseExpires)
  /\ WF_installVars(InstallRetryBecomesDue)

FairInstallSpec == InstallSpec /\ InstallFairness

-----------------------------------------------------------------------------
(* Properties. *)

\* The replicas' places, steps and results have their types.
InstallTypeOK ==
  /\ replica \in [Workers -> [at : Places, step : 0..StepCount, result : Results]]
  /\ faults \in 0..MaxFaults

Sealing(r) == replica[r].at \in {"EXECUTE", "RELOAD", "SEAL"}
Holds(r)   == claim[r] = fence /\ leaseOwner = NameOf[r]

\* The crash-resume order: evidence is always a prefix of the sequence, and a
\* replica that still holds the operation works on the first step without
\* evidence, however many replicas, each with a list, a claim and an evidence
\* listing of its own age, are in the middle of the same install.
ResumesAtFirstUnsealed ==
  /\ \A s \in evidence : \A t \in 1..s : t \in evidence
  /\ \A r \in Workers : Sealing(r) /\ Holds(r) => replica[r].step \in NextManagedInstallStep(evidence)

\* An install that is being verified or succeeded has the evidence of every step.
SucceededIsInstalled == state \in {"VERIFYING", "SUCCEEDED"} => evidence = InstallSteps

\* docs/MANAGED_OKD_PRODUCTION_RUNTIME_HARDENING_V44.md:39 "The post-heartbeat
\* operation is reloaded so evidence writes do not use a stale revision": what a
\* replica is about to write to the operation under a live lease is never refused
\* because of its own heartbeats, claims or evidence, only because of a cancellation.
OwnRevisionIsCurrent ==
  \A r \in Workers :
    replica[r].at \in {"START", "REPORT", "VERIFY", "COMPLETE"} /\ OperationLeaseActive(r)
      => Expected(r) \/ state \in {"CANCEL_REQUESTED", "CANCELLED"}

\* Approved work is taken up, resumed after every fault and brought to its
\* verification or another end.
InstallAdvances ==
  state \in {"QUEUED", "RETRY_WAIT", "RUNNING"} ~> state \notin {"QUEUED", "RETRY_WAIT", "RUNNING"}
=============================================================================
