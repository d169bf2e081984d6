------------------------ MODULE ManagedInstallProofs ------------------------
(***************************************************************************)
(* TLAPS proofs about ManagedInstall, for every number of replicas, of     *)
(* install steps and of faults, and for replicas that share an identity or *)
(* do not.                                                                 *)
(*                                                                         *)
(* The argument: a step of one replica disturbs no other (its token is its *)
(* own, so a second holder does not exist), which leaves, for each action, *)
(* only what the acting replica knows to be shown.                         *)
(***************************************************************************)
EXTENDS ManagedInstall, OperationEngineProofs, WellFoundedInduction

Cancelling == {"CANCEL_REQUESTED", "CANCELLED"}

\* Where a replica relies on the revision it last read.
Relying == {"START", "NEXT", "REPORT", "VERIFY", "COMPLETE"}

\* What a replica knows, place by place: the result of its step, the step it is
\* to seal, the evidence it has seen, and the revision.
Knows(r) ==
  /\ At(r, "RELOAD") => replica[r].result # "NONE"
  /\ At(r, "REPORT") => replica[r].result \in {"TRANSIENT", "PERMANENT"}
  /\ Sealing(r) /\ Holds(r) => replica[r].step \in NextManagedInstallStep(evidence)
  /\ At(r, "SEALED") => replica[r].step \in evidence
  /\ replica[r].at \in {"VERIFY", "COMPLETE"} => evidence = InstallSteps
  /\ replica[r].at \in Relying /\ OperationLeaseActive(r) => Expected(r) \/ state \in Cancelling

EvidenceIsPrefix == \A s \in evidence : \A t \in 1..s : t \in evidence

InstallInv ==
  /\ EngineInv
  /\ InstallTypeOK
  /\ EvidenceIsPrefix
  /\ SucceededIsInstalled
  /\ \A r \in Workers : Knows(r)

-----------------------------------------------------------------------------
(* The sequence of steps. *)

\* If some step has no evidence, nextManagedInstallStep finds one.
LEMMA NextStepExists ==
  ASSUME NEW done, NextManagedInstallStep(done) = {} PROVE InstallSteps \subseteq done
<1> DEFINE T == InstallSteps \ done
<1> SUFFICES ASSUME T # {} PROVE FALSE
  OBVIOUS
<1>1. T \subseteq Nat
  BY InstallAssumption DEF InstallSteps
<1>2. PICK x \in T : \A y \in T : ~(<<y, x>> \in OpToRel(<, Nat))
  BY <1>1, WFMin, NatLessThanWellFounded, Zenon
<1>3. \A y \in T : ~(y < x)
  BY <1>1, <1>2 DEF OpToRel
<1>4. \A y \in T : x <= y
  BY <1>1, <1>3
<1> QED
  BY <1>4 DEF NextManagedInstallStep

\* Sealing the next step leaves a prefix.
LEMMA SealKeepsPrefix ==
  ASSUME EvidenceIsPrefix, evidence \subseteq InstallSteps,
         NEW s \in NextManagedInstallStep(evidence), evidence' = evidence \cup {s}
  PROVE  EvidenceIsPrefix'
<1>1. s \in InstallSteps /\ \A t \in InstallSteps \ evidence : s <= t
  BY DEF NextManagedInstallStep
<1> SUFFICES ASSUME NEW u \in evidence', NEW t \in 1..u PROVE t \in evidence'
  BY DEF EvidenceIsPrefix
<1>2. CASE u \in evidence
  BY <1>2 DEF EvidenceIsPrefix
<1>3. CASE u = s /\ t = s
  BY <1>3
<1>4. CASE u = s /\ t # s
  <2>1. t \in InstallSteps /\ ~(s <= t)
    BY <1>1, <1>4, InstallAssumption DEF InstallSteps
  <2> QED
    BY <1>1, <2>1
<1> QED
  BY <1>2, <1>3, <1>4

\* The evidence of the last step is the evidence of every step.
LEMMA LastIsAll ==
  ASSUME EvidenceIsPrefix, evidence \subseteq InstallSteps, StepCount \in evidence
  PROVE  evidence = InstallSteps
BY DEF EvidenceIsPrefix, InstallSteps

-----------------------------------------------------------------------------
(* What a call to the store leaves alone. *)

\* The operation, as replica v knows it, is as it was, or v's token is spent.
Undisturbed(v) ==
  /\ evidence \subseteq evidence'
  /\ Holds(v)' => Holds(v) /\ evidence' = evidence
  /\ OperationLeaseActive(v)' =>
       /\ OperationLeaseActive(v)
       /\ Expected(v) => Expected(v)' \/ state' \in Cancelling
       /\ state \in Cancelling => state' \in Cancelling

\* Then v still knows what it knew.
LEMMA KnowsKept ==
  ASSUME NEW v \in Workers, Knows(v), Undisturbed(v), replica'[v] = replica[v],
         evidence' \subseteq InstallSteps
  PROVE  Knows(v)'
<1> USE DEF Knows, Undisturbed, At, Sealing
<1>1. Sealing(v)' /\ Holds(v)' => replica'[v].step \in NextManagedInstallStep(evidence)'
  BY DEF NextManagedInstallStep
<1>2. (At(v, "RELOAD") => replica[v].result # "NONE")'
      /\ (At(v, "REPORT") => replica[v].result \in {"TRANSIENT", "PERMANENT"})'
      /\ (At(v, "SEALED") => replica[v].step \in evidence)'
      /\ (replica[v].at \in {"VERIFY", "COMPLETE"} => evidence = InstallSteps)'
  OBVIOUS
<1>3. (replica[v].at \in Relying /\ OperationLeaseActive(v) => Expected(v) \/ state \in Cancelling)'
  OBVIOUS
<1> QED
  BY <1>1, <1>2, <1>3

\* A worker's identity is never the empty LeaseOwner.
LEMMA NamesAreOwners == \A w \in Workers : NameOf[w] # NoOwner
BY EngineAssumption

\* Two replicas with the current token are one, even under one identity.
LEMMA OneHolder ==
  ASSUME EngineInv, NEW v \in Workers, NEW w \in Workers, claim[w] > 0, claim[w] = fence,
         claim[v] = fence
  PROVE  v = w
BY DEF EngineInv, TokensAreUnique

\* What one step of a replica calls, if anything.
StoreCall(r) ==
  \/ UNCHANGED vars
  \/ GetOperation(r) \/ ClaimOperation(r) \/ RenewOperationLease(r)
  \/ ReleaseOperationLease(r) \/ StartOperationAttempt(r) \/ BeginOperationVerification(r)
  \/ \E f \in FailureClasses : ReportOperationFailure(r, f)
  \/ CompleteOperation(r)
  \/ \E p \in Payloads : AppendOperationEvidencePayload(r, p)

\* A store call of replica r disturbs no other replica.
LEMMA WorkerDisturbsNobody ==
  ASSUME EngineInv, NEW r \in Workers, NEW v \in Workers, v # r, StoreCall(r)
  PROVE  Undisturbed(v)
<1>0. TypeOK /\ TokensAreUnique
  BY DEF EngineInv
<1>1. /\ claim \in [Workers -> Nat] /\ seen \in [Callers -> Nat] /\ fence \in Nat /\ revision \in Nat
      /\ r \in Callers /\ v \in Callers /\ NameOf[v] # NoOwner
  BY <1>0, NamesAreOwners DEF TypeOK, Callers
<1>2. OperationLeaseActive(r) => claim[v] # fence
  BY OneHolder DEF OperationLeaseActive
<1> USE <1>1, <1>2 DEF Undisturbed, Holds, Expected, recordVars, auxVars
<1>3. CASE UNCHANGED vars
  BY <1>3 DEF vars, OperationLeaseActive
<1>4. CASE GetOperation(r)
  BY <1>4 DEF GetOperation, OperationLeaseActive
<1>5. CASE ClaimOperation(r)
  <2>1. claim'[v] = claim[v] /\ fence' = fence + 1 /\ UNCHANGED evidence
    BY <1>5 DEF ClaimOperation, NextToken
  <2>2. claim[v] <= fence
    BY <1>0 DEF TokensAreUnique
  <2>3. claim'[v] # fence'
    BY <2>1, <2>2
  <2> QED
    BY <2>1, <2>3 DEF OperationLeaseActive
<1>6. CASE RenewOperationLease(r)
  BY <1>6 DEF RenewOperationLease, OperationLeaseActive
<1>7. CASE ReleaseOperationLease(r)
  BY <1>7 DEF ReleaseOperationLease, ClearLease, OperationLeaseActive
<1>8. CASE StartOperationAttempt(r)
  BY <1>8 DEF StartOperationAttempt, OperationLeaseActive
<1>9. CASE BeginOperationVerification(r)
  BY <1>9 DEF BeginOperationVerification, OperationLeaseActive
<1>10. ASSUME NEW f \in FailureClasses, ReportOperationFailure(r, f) PROVE Undisturbed(v)
  BY <1>10 DEF ReportOperationFailure, ClearLease, OperationLeaseActive
<1>11. CASE CompleteOperation(r)
  BY <1>11 DEF CompleteOperation, ClearLease, OperationLeaseActive
<1>12. ASSUME NEW p \in Payloads, AppendOperationEvidencePayload(r, p) PROVE Undisturbed(v)
  BY <1>12 DEF AppendOperationEvidencePayload, OperationLeaseActive
<1> QED
  BY <1>3, <1>4, <1>5, <1>6, <1>7, <1>8, <1>9, <1>10, <1>11, <1>12 DEF StoreCall

\* Neither do clients, who may cancel, and the clock.
LEMMA OthersDisturbNobody ==
  ASSUME EngineInv, NEW v \in Workers,
         \/ \E c \in Clients : GetOperation(c) \/ ApproveOperationAndQueue(c)
                               \/ RequestOperationCancellation(c)
         \/ LeaseExpires \/ RetryBecomesDue \/ UNCHANGED vars
  PROVE  Undisturbed(v)
<1>1. /\ claim \in [Workers -> Nat] /\ seen \in [Callers -> Nat] /\ fence \in Nat /\ revision \in Nat
      /\ v \in Callers /\ NameOf[v] # NoOwner /\ LeaseOnlyWhileClaimable
      /\ \A c \in Clients : c \in Callers /\ c # v
  BY NamesAreOwners, EngineAssumption DEF EngineInv, ControlInv, TypeOK, Callers
<1> USE <1>1 DEF Undisturbed, Holds, Expected, recordVars, auxVars, OperationLeaseActive
<1>2. ASSUME NEW c \in Clients, GetOperation(c) PROVE Undisturbed(v)
  BY <1>2 DEF GetOperation
<1>3. ASSUME NEW c \in Clients, ApproveOperationAndQueue(c) PROVE Undisturbed(v)
  BY <1>3 DEF ApproveOperationAndQueue, LeaseOnlyWhileClaimable, Claimable
<1>4. ASSUME NEW c \in Clients, RequestOperationCancellation(c) PROVE Undisturbed(v)
  BY <1>4 DEF RequestOperationCancellation, ClearLease, Cancelling, IsTerminal
<1>5. CASE LeaseExpires
  BY <1>5 DEF LeaseExpires
<1>6. CASE RetryBecomesDue
  BY <1>6 DEF RetryBecomesDue
<1>7. CASE UNCHANGED vars
  BY <1>7 DEF vars
<1> QED
  BY <1>2, <1>3, <1>4, <1>5, <1>6, <1>7

-----------------------------------------------------------------------------
(* The replicas. *)

ReplicaRecord == [at : Places, step : 0..StepCount, result : Results]

\* Only replica r's iteration moves.
OnlyMoves(r, to) ==
  /\ replica' \in [Workers -> ReplicaRecord]
  /\ replica'[r] = to
  /\ \A v \in Workers : v # r => replica'[v] = replica[v]

\* An iteration that goes on keeps its step and result; one that ends forgets them.
LEMMA Going ==
  ASSUME InstallTypeOK, NEW r \in Workers, NEW place \in Places
  PROVE  /\ Goes(r, place) => /\ OnlyMoves(r, [replica[r] EXCEPT !.at = place])
                              /\ faults' \in 0..MaxFaults
                              /\ replica'[r].at = place /\ replica'[r].step = replica[r].step
                              /\ replica'[r].result = replica[r].result
         /\ Ends(r) => OnlyMoves(r, Idle) /\ faults' \in 0..MaxFaults /\ replica'[r].at = "IDLE"
<1>1. replica \in [Workers -> ReplicaRecord] /\ replica[r] \in ReplicaRecord
  BY DEF InstallTypeOK, ReplicaRecord
<1>2. [replica[r] EXCEPT !.at = place] \in ReplicaRecord
  BY <1>1, Zenon DEF ReplicaRecord
<1>3. Idle \in ReplicaRecord
  BY InstallAssumption DEF Idle, ReplicaRecord, Places, Results
<1>4. Goes(r, place) => OnlyMoves(r, [replica[r] EXCEPT !.at = place])
  BY <1>1, <1>2, Zenon DEF Goes, OnlyMoves
<1>5. Ends(r) => OnlyMoves(r, Idle)
  BY <1>1, <1>3 DEF Ends, OnlyMoves
<1>6. Goes(r, place) \/ Ends(r) => faults' \in 0..MaxFaults
  BY DEF Goes, Ends, InstallTypeOK
<1>7. OnlyMoves(r, [replica[r] EXCEPT !.at = place])
      => replica'[r].at = place /\ replica'[r].step = replica[r].step
         /\ replica'[r].result = replica[r].result
  BY <1>1 DEF OnlyMoves, ReplicaRecord
<1> QED
  BY <1>4, <1>5, <1>6, <1>7 DEF OnlyMoves, Idle

\* The rest of the operation's and the iteration's state, after a step of r.
Settles(r) ==
  /\ StoreCall(r)
  /\ replica' \in [Workers -> ReplicaRecord] /\ faults' \in 0..MaxFaults
  /\ \A v \in Workers : v # r => replica'[v] = replica[v]
  /\ Knows(r)'
  /\ EvidenceIsPrefix'
  /\ SucceededIsInstalled'

\* An iteration that has ended knows nothing and needs to know nothing.
LEMMA EndKnows == ASSUME NEW r \in Workers, replica'[r].at = "IDLE" PROVE Knows(r)'
BY DEF Knows, At, Sealing, Relying

\* A step that seals nothing and does not begin the verification leaves the
\* evidence's invariants alone.
LEMMA EvidenceKept ==
  ASSUME EvidenceIsPrefix, SucceededIsInstalled, UNCHANGED evidence,
         state' \in {"VERIFYING", "SUCCEEDED"} => state \in {"VERIFYING", "SUCCEEDED"}
  PROVE  EvidenceIsPrefix' /\ SucceededIsInstalled'
BY DEF EvidenceIsPrefix, SucceededIsInstalled

\* The end of an iteration, after a call that seals nothing.
LEMMA EndSettles ==
  ASSUME InstallInv, NEW r \in Workers, Ends(r), StoreCall(r), UNCHANGED evidence,
         state' \in {"VERIFYING", "SUCCEEDED"} => state \in {"VERIFYING", "SUCCEEDED"}
  PROVE  Settles(r)
<1>1. InstallTypeOK /\ EvidenceIsPrefix /\ SucceededIsInstalled /\ "IDLE" \in Places
  BY DEF InstallInv, Places
<1>2. OnlyMoves(r, Idle) /\ faults' \in 0..MaxFaults /\ replica'[r].at = "IDLE"
  BY <1>1, Going
<1> QED
  BY <1>1, <1>2, EndKnows, EvidenceKept DEF Settles, OnlyMoves

\* An iteration that goes on, after a call that seals nothing.
LEMMA GoSettles ==
  ASSUME InstallInv, NEW r \in Workers, NEW place \in Places, Goes(r, place), StoreCall(r),
         UNCHANGED evidence, Knows(r)',
         state' \in {"VERIFYING", "SUCCEEDED"} => state \in {"VERIFYING", "SUCCEEDED"}
  PROVE  Settles(r)
<1>1. InstallTypeOK /\ EvidenceIsPrefix /\ SucceededIsInstalled
  BY DEF InstallInv
<1>2. OnlyMoves(r, [replica[r] EXCEPT !.at = place]) /\ faults' \in 0..MaxFaults
  BY <1>1, Going
<1> QED
  BY <1>1, <1>2, EvidenceKept DEF Settles, OnlyMoves

\* What the calls that seal nothing and do not begin the verification do.
LEMMA QuietCall ==
  ASSUME NEW r \in Workers,
         \/ UNCHANGED vars \/ GetOperation(r) \/ ClaimOperation(r) \/ RenewOperationLease(r)
         \/ ReleaseOperationLease(r) \/ StartOperationAttempt(r) \/ CompleteOperation(r)
         \/ \E f \in FailureClasses : ReportOperationFailure(r, f)
  PROVE  /\ StoreCall(r) /\ UNCHANGED evidence
         /\ state' \in {"VERIFYING", "SUCCEEDED"} => state \in {"VERIFYING", "SUCCEEDED"}
<1> USE DEF recordVars, auxVars
<1>1. StoreCall(r)
  BY DEF StoreCall
<1>2. ASSUME NEW f \in FailureClasses, ReportOperationFailure(r, f)
      PROVE  UNCHANGED evidence /\ state' \in {"RETRY_WAIT", "FAILED"}
  BY <1>2 DEF ReportOperationFailure
<1>3. CASE UNCHANGED vars \/ GetOperation(r) \/ ClaimOperation(r) \/ RenewOperationLease(r)
           \/ ReleaseOperationLease(r) \/ StartOperationAttempt(r) \/ CompleteOperation(r)
  BY <1>1, <1>3 DEF vars, GetOperation, ClaimOperation, RenewOperationLease, ReleaseOperationLease,
                    StartOperationAttempt, CompleteOperation
<1> QED
  BY <1>1, <1>2, <1>3

\* Every step of a replica keeps what it knows and the invariants of the evidence.
LEMMA ReplicaSettles ==
  ASSUME InstallInv, NEW r \in Workers, ReplicaStep(r) \/ Heartbeat(r) \/ IterationAborted(r)
  PROVE  Settles(r)
<1>0. /\ InstallTypeOK /\ EngineInv /\ Knows(r) /\ EvidenceIsPrefix /\ SucceededIsInstalled
      /\ claim \in [Workers -> Nat] /\ seen \in [Callers -> Nat] /\ fence \in Nat /\ revision \in Nat
      /\ r \in Callers /\ replica[r] \in ReplicaRecord /\ replica \in [Workers -> ReplicaRecord]
      /\ NameOf[r] # NoOwner /\ evidence \subseteq InstallSteps
  BY NamesAreOwners, InstallAssumption
  DEF InstallInv, EngineInv, TypeOK, Callers, InstallTypeOK, ReplicaRecord, InstallSteps
<1>p. Places = {"IDLE", "LISTED", "CLAIMED", "SKIP", "START", "NEXT", "EXECUTE", "RELOAD",
                "SEAL", "REPORT", "SEALED", "RELEASE", "VERIFY", "COMPLETE"}
  BY DEF Places
<1>g. ASSUME NEW place \in Places, Goes(r, place)
      PROVE  /\ replica'[r].at = place /\ replica'[r].step = replica[r].step
             /\ replica'[r].result = replica[r].result
  BY <1>0, <1>g, Going
<1> USE <1>0
<1>1. CASE ListJobs(r)
  <2>1. Goes(r, "LISTED") /\ UNCHANGED vars
    BY <1>1 DEF ListJobs
  <2>2. Knows(r)'
    BY <2>1, <1>p, <1>g DEF Knows, At, Sealing, Relying
  <2> QED
    BY <2>1, <2>2, <1>p, GoSettles, QuietCall
<1>2. CASE ClaimListed(r)
  <2>1. CASE ClaimOperation(r) /\ Goes(r, "CLAIMED")
    <3>1. Knows(r)'
      BY <2>1, <1>p, <1>g DEF Knows, At, Sealing, Relying
    <3> QED
      BY <2>1, <3>1, <1>p, GoSettles, QuietCall
  <2> QED
    BY <1>2, <2>1, EndSettles, QuietCall DEF ClaimListed
<1>3. CASE ReadClaimed(r)
  <2>1. PICK place \in {"START", "NEXT", "SKIP"} : GetOperation(r) /\ Goes(r, place)
    BY <1>3 DEF ReadClaimed
  <2>2. Expected(r)'
    BY <2>1 DEF GetOperation, Expected
  <2>3. Knows(r)'
    BY <2>1, <2>2, <1>p, <1>g DEF Knows, At, Sealing
  <2> QED
    BY <2>1, <2>3, <1>p, GoSettles, QuietCall
<1>4. CASE SkipJob(r)
  BY <1>4, EndSettles, QuietCall DEF SkipJob
<1>5. CASE StartJob(r)
  <2>1. CASE StartOperationAttempt(r) /\ Goes(r, "NEXT")
    <3>1. Expected(r)'
      BY <2>1 DEF StartOperationAttempt, Expected, Commit
    <3>2. Knows(r)'
      BY <2>1, <3>1, <1>p, <1>g DEF Knows, At, Sealing
    <3> QED
      BY <2>1, <3>2, <1>p, GoSettles, QuietCall
  <2> QED
    BY <1>5, <2>1, EndSettles, QuietCall DEF StartJob
<1>7. ASSUME NEW result \in Results \ {"NONE"}, ExecuteStep(r, result) PROVE Settles(r)
  <2>1. [replica[r] EXCEPT !.at = "RELOAD", !.result = result] \in ReplicaRecord
    BY <1>7, <1>p, Zenon DEF ReplicaRecord
  <2>2. replica' = [replica EXCEPT ![r] = [replica[r] EXCEPT !.at = "RELOAD", !.result = result]]
    BY <1>7, Zenon DEF ExecuteStep
  <2>3. OnlyMoves(r, [replica[r] EXCEPT !.at = "RELOAD", !.result = result])
    BY <2>1, <2>2, Zenon DEF OnlyMoves
  <2>4. replica'[r].at = "RELOAD" /\ replica'[r].step = replica[r].step /\ replica'[r].result = result
    BY <2>3 DEF OnlyMoves, ReplicaRecord
  <2>5. UNCHANGED vars /\ UNCHANGED faults /\ At(r, "EXECUTE")
    BY <1>7 DEF ExecuteStep
  <2>6. Knows(r)'
    BY <2>4, <2>5 DEF Knows, At, Sealing, Relying, Holds, vars
  <2> QED
    BY <2>3, <2>5, <2>6, EvidenceKept, QuietCall DEF Settles, OnlyMoves, InstallTypeOK
<1>8. CASE Heartbeat(r)
  <2>1. CASE RenewOperationLease(r) /\ At(r, "EXECUTE") /\ UNCHANGED <<replica, faults>>
    <3>1. Knows(r)'
      BY <2>1 DEF Knows, At, Sealing, Relying, Holds, RenewOperationLease, recordVars, auxVars
    <3> QED
      BY <2>1, <3>1, QuietCall, EvidenceKept DEF Settles, InstallTypeOK
  <2> QED
    BY <1>8, <2>1, EndSettles, QuietCall DEF Heartbeat
<1>9. CASE Reload(r)
  <2>1. CASE Goes(r, IF replica[r].result = "SUCCESS" THEN "SEAL" ELSE "REPORT")
    <3>1. PICK place \in {"SEAL", "REPORT"} :
            /\ place = IF replica[r].result = "SUCCESS" THEN "SEAL" ELSE "REPORT"
            /\ Goes(r, place)
      BY <2>1
    <3>2. GetOperation(r) /\ At(r, "RELOAD")
      BY <1>9 DEF Reload
    <3>3. Expected(r)' /\ UNCHANGED <<evidence, claim, fence, leaseOwner>>
      BY <3>2 DEF GetOperation, Expected, recordVars, auxVars
    <3>4. place = "REPORT" => replica[r].result \in {"TRANSIENT", "PERMANENT"}
      BY <3>1, <3>2 DEF Knows, ReplicaRecord, Results
    <3>5. Knows(r)'
      BY <3>1, <3>2, <3>3, <3>4, <1>p, <1>g DEF Knows, At, Sealing, Holds
    <3> QED
      BY <3>1, <3>2, <3>5, <1>p, GoSettles, QuietCall
  <2> QED
    BY <1>9, <2>1, EndSettles, QuietCall DEF Reload
<1>10. CASE ReportStepFailure(r)
  <2>1. replica[r].result \in FailureClasses
    BY <1>10 DEF ReportStepFailure, Knows, FailureClasses
  <2> QED
    BY <1>10, <2>1, EndSettles, QuietCall DEF ReportStepFailure
<1>6. CASE ReadEvidence(r)
  <2>0. UNCHANGED vars /\ UNCHANGED faults /\ At(r, "NEXT")
    BY <1>6 DEF ReadEvidence
  <2>1. ASSUME NEW s \in NextManagedInstallStep(evidence),
               replica' = [replica EXCEPT ![r] = [at |-> "EXECUTE", step |-> s, result |-> "NONE"]]
        PROVE  Settles(r)
    <3>1. s \in 0..StepCount
      BY InstallAssumption DEF NextManagedInstallStep, InstallSteps
    <3>2. [at |-> "EXECUTE", step |-> s, result |-> "NONE"] \in ReplicaRecord
      BY <3>1, <1>p DEF ReplicaRecord, Results
    <3>3. OnlyMoves(r, [at |-> "EXECUTE", step |-> s, result |-> "NONE"])
      BY <2>1, <3>2 DEF OnlyMoves
    <3>4. replica'[r].at = "EXECUTE" /\ replica'[r].step = s
      BY <3>3 DEF OnlyMoves
    <3>5. Knows(r)'
      BY <2>0, <3>4 DEF Knows, At, Sealing, Relying, vars
    <3> QED
      BY <2>0, <3>3, <3>5, EvidenceKept, QuietCall DEF Settles, OnlyMoves, InstallTypeOK
  <2>2. CASE NextManagedInstallStep(evidence) = {}
             /\ replica' = [replica EXCEPT ![r].at = "VERIFY"]
    <3>1. evidence = InstallSteps
      BY <2>2, NextStepExists
    <3>2. Goes(r, "VERIFY")
      BY <2>0, <2>2 DEF Goes
    <3>3. OperationLeaseActive(r)' => Expected(r)' \/ state' \in Cancelling
      BY <2>0 DEF Knows, At, Relying, OperationLeaseActive, Expected, vars
    <3>4. Knows(r)'
      BY <2>0, <3>1, <3>2, <3>3, <1>p, <1>g DEF Knows, At, Sealing, vars
    <3> QED
      BY <2>0, <3>2, <3>4, <1>p, GoSettles, QuietCall
  <2> QED
    BY <1>6, <2>1, <2>2 DEF ReadEvidence
<1>11. CASE SealStep(r)
  <2>1. CASE AppendOperationEvidencePayload(r, replica[r].step) /\ Goes(r, "SEALED")
    <3>1. replica[r].step \in NextManagedInstallStep(evidence)
      BY <1>11, <2>1 DEF SealStep, Knows, Sealing, At, Holds, AppendOperationEvidencePayload,
                         OperationLeaseActive
    <3>2. replica[r].step \in Payloads
      BY <3>1, InstallAssumption DEF NextManagedInstallStep, InstallSteps
    <3>3. evidence' = evidence \cup {replica[r].step} /\ UNCHANGED state
      BY <2>1 DEF AppendOperationEvidencePayload, recordVars
    <3>4. EvidenceIsPrefix'
      BY <3>1, <3>3, SealKeepsPrefix
    <3>5. SucceededIsInstalled'
      BY <3>1, <3>3 DEF SucceededIsInstalled, NextManagedInstallStep
    <3>6. Knows(r)'
      BY <2>1, <3>3, <1>p, <1>g DEF Knows, At, Sealing, Relying
    <3>7. OnlyMoves(r, [replica[r] EXCEPT !.at = "SEALED"]) /\ faults' \in 0..MaxFaults
      BY <2>1, <1>p, Going
    <3> QED
      BY <2>1, <3>2, <3>4, <3>5, <3>6, <3>7 DEF Settles, StoreCall, OnlyMoves
  <2> QED
    BY <1>11, <2>1, EndSettles, QuietCall DEF SealStep
<1>12. CASE ReloadSealed(r)
  <2>1. PICK place \in {"VERIFY", "RELEASE"} :
          /\ Goes(r, place)
          /\ place = "VERIFY" => replica[r].step = StepCount
    BY <1>12 DEF ReloadSealed, AfterSeal
  <2>2. GetOperation(r) /\ At(r, "SEALED")
    BY <1>12 DEF ReloadSealed
  <2>3. Expected(r)' /\ UNCHANGED evidence
    BY <2>2 DEF GetOperation, Expected, auxVars
  <2>4. place = "VERIFY" => evidence = InstallSteps
    BY <2>1, <2>2, LastIsAll DEF Knows
  <2>5. Knows(r)'
    BY <2>1, <2>3, <2>4, <1>p, <1>g DEF Knows, At, Sealing
  <2> QED
    BY <2>1, <2>2, <2>5, <1>p, GoSettles, QuietCall
<1>13. CASE ReleaseAfterStep(r)
  BY <1>13, EndSettles, QuietCall DEF ReleaseAfterStep
<1>14. CASE BeginVerification(r)
  <2>1. CASE BeginOperationVerification(r) /\ Goes(r, "COMPLETE")
    <3>1. evidence = InstallSteps
      BY <1>14 DEF BeginVerification, Knows, At
    <3>2. Expected(r)' /\ UNCHANGED evidence
      BY <2>1 DEF BeginOperationVerification, Commit, Expected, auxVars
    <3>3. Knows(r)'
      BY <2>1, <3>1, <3>2, <1>p, <1>g DEF Knows, At, Sealing
    <3>4. EvidenceIsPrefix' /\ SucceededIsInstalled'
      BY <3>1, <3>2 DEF EvidenceIsPrefix, SucceededIsInstalled
    <3>5. OnlyMoves(r, [replica[r] EXCEPT !.at = "COMPLETE"]) /\ faults' \in 0..MaxFaults
      BY <2>1, <1>p, Going
    <3> QED
      BY <2>1, <3>3, <3>4, <3>5 DEF Settles, StoreCall, OnlyMoves
  <2> QED
    BY <1>14, <2>1, EndSettles, QuietCall DEF BeginVerification
<1>15. CASE CompleteInstall(r)
  BY <1>15, EndSettles, QuietCall DEF CompleteInstall
<1>16. CASE IterationAborted(r)
  <2>1. replica' = [replica EXCEPT ![r] = Idle] /\ UNCHANGED vars /\ faults' \in 0..MaxFaults
    BY <1>16, InstallAssumption DEF IterationAborted, Fault, InstallTypeOK
  <2>2. Idle \in ReplicaRecord
    BY <1>p, InstallAssumption DEF Idle, ReplicaRecord, Results
  <2>3. OnlyMoves(r, Idle) /\ replica'[r].at = "IDLE"
    BY <2>1, <2>2 DEF OnlyMoves, Idle
  <2> QED
    BY <2>1, <2>3, EndKnows, EvidenceKept, QuietCall DEF Settles, OnlyMoves
<1> QED
  BY <1>1, <1>2, <1>3, <1>4, <1>5, <1>6, <1>7, <1>8, <1>9, <1>10, <1>11, <1>12, <1>13, <1>14,
     <1>15, <1>16 DEF ReplicaStep

-----------------------------------------------------------------------------
(* The inductive invariant and the theorems. *)

\* createManagedOKDInstall leaves an operation that satisfies the invariant.
LEMMA InstallStarts == InstallInit => InstallInv
<1> SUFFICES ASSUME InstallInit PROVE InstallInv
  OBVIOUS
<1>1. exhausted \in BOOLEAN /\ checkpointOK \in BOOLEAN
  BY Zenon DEF InstallInit
<1>2. TypeOK
  BY <1>1, EngineAssumption
  DEF InstallInit, TypeOK, OperationStates, Classes, FailureClasses, Callers
<1>3. EngineInv
  BY <1>2, PositiveBudget
  DEF InstallInit, EngineInv, ControlInv, AttemptsInBudget, Preparing, LeaseOnlyWhileClaimable,
      Claimable, RetryWaitIsScheduled, RowsInBudget, TokensAreUnique, RolledBackIsUndone,
      CompensationIsEvidenced, ForwardIsPrefix
<1>4. InstallTypeOK
  BY InstallAssumption DEF InstallInit, InstallTypeOK, Idle, Places, Results
<1>5. EvidenceIsPrefix /\ SucceededIsInstalled
  BY DEF InstallInit, EvidenceIsPrefix, SucceededIsInstalled
<1>6. ASSUME NEW r \in Workers PROVE Knows(r)
  BY DEF InstallInit, Idle, Knows, At, Sealing, Relying
<1> QED
  BY <1>3, <1>4, <1>5, <1>6 DEF InstallInv

\* A step of the install is a step of the operation authority, or changes nothing there.
LEMMA InstallIsEngineStep == InstallInv /\ [InstallNext]_installVars => [Next]_vars
<1> SUFFICES ASSUME InstallInv, [InstallNext]_installVars PROVE [Next]_vars
  OBVIOUS
<1>1. ASSUME NEW c \in Clients, ClientCalls(c) PROVE Next
  BY <1>1 DEF ClientCalls, GetManagedOKDInstall, ApproveManagedOKDInstall, CancelOperation,
              Next, ClientStep, Callers
<1>2. ASSUME NEW r \in Workers, ReplicaStep(r) \/ Heartbeat(r) \/ IterationAborted(r)
      PROVE  [Next]_vars
  <2>1. StoreCall(r)
    BY <1>2, ReplicaSettles DEF Settles
  <2> QED
    BY <2>1 DEF StoreCall, Next, WorkerStep, Callers
<1>3. CASE InstallLeaseExpires \/ InstallRetryBecomesDue
  BY <1>3 DEF InstallLeaseExpires, InstallRetryBecomesDue, Next, Environment
<1>4. CASE UNCHANGED installVars
  BY <1>4 DEF installVars
<1> QED
  BY <1>1, <1>2, <1>3, <1>4 DEF InstallNext

\* The invariant of the operation authority holds under the install's steps.
LEMMA EngineStep == EngineInv /\ [Next]_vars => EngineInv'
BY TypeOKStep, ControlStep, RowsInBudgetStep, TokensStep, UndoneStep, EvidencedStep, ForwardStep
DEF EngineInv

\* Every step of clients, replicas, time and faults preserves the invariant.
LEMMA InstallStep == InstallInv /\ [InstallNext]_installVars => InstallInv'
<1> SUFFICES ASSUME InstallInv, [InstallNext]_installVars PROVE InstallInv'
  OBVIOUS
<1>1. EngineInv'
  BY InstallIsEngineStep, EngineStep DEF InstallInv
<1>2. evidence' \subseteq InstallSteps
  BY <1>1, InstallAssumption DEF EngineInv, TypeOK, InstallSteps
<1>3. ASSUME NEW r \in Workers, ReplicaStep(r) \/ Heartbeat(r) \/ IterationAborted(r)
      PROVE  InstallInv'
  <2>1. Settles(r)
    BY <1>3, ReplicaSettles
  <2>2. ASSUME NEW v \in Workers, v # r PROVE Knows(v)'
    BY <2>1, <2>2, <1>2, WorkerDisturbsNobody, KnowsKept DEF InstallInv, Settles
  <2>3. \A v \in Workers : Knows(v)'
    BY <2>1, <2>2 DEF Settles
  <2>4. InstallTypeOK'
    BY <2>1 DEF Settles, InstallTypeOK, ReplicaRecord
  <2> QED
    BY <1>1, <2>1, <2>3, <2>4 DEF InstallInv, Settles
<1>4. ASSUME \/ \E c \in Clients : GetOperation(c) \/ ApproveOperationAndQueue(c)
                                   \/ RequestOperationCancellation(c)
             \/ LeaseExpires \/ RetryBecomesDue \/ UNCHANGED vars,
             UNCHANGED replica, faults' \in 0..MaxFaults
      PROVE  InstallInv'
  <2>1. ASSUME NEW v \in Workers PROVE Knows(v)'
    BY <1>4, <1>2, OthersDisturbNobody, KnowsKept DEF InstallInv
  <2>2. UNCHANGED evidence
        /\ (state' \in {"VERIFYING", "SUCCEEDED"} => state \in {"VERIFYING", "SUCCEEDED"})
    BY <1>4 DEF GetOperation, ApproveOperationAndQueue, RequestOperationCancellation,
                LeaseExpires, RetryBecomesDue, vars, recordVars, auxVars
  <2>3. EvidenceIsPrefix' /\ SucceededIsInstalled'
    BY <2>2, EvidenceKept DEF InstallInv
  <2>4. InstallTypeOK'
    BY <1>4 DEF InstallInv, InstallTypeOK
  <2> QED
    BY <1>1, <2>1, <2>3, <2>4 DEF InstallInv
<1>5. faults \in 0..MaxFaults /\ (Fault => faults' \in 0..MaxFaults)
  BY InstallAssumption DEF InstallInv, InstallTypeOK, Fault
<1>6. ASSUME NEW c \in Clients, ClientCalls(c) PROVE InstallInv'
  BY <1>4, <1>5, <1>6
  DEF ClientCalls, GetManagedOKDInstall, ApproveManagedOKDInstall, CancelOperation
<1>7. CASE InstallLeaseExpires \/ InstallRetryBecomesDue \/ UNCHANGED installVars
  BY <1>4, <1>5, <1>7 DEF InstallLeaseExpires, InstallRetryBecomesDue, installVars
<1> QED
  BY <1>3, <1>6, <1>7 DEF InstallNext

\* The inductive invariant of the install worker: the operation authority's own,
\* the evidence, and what every replica knows at the place it has reached.
THEOREM InstallInvariant == InstallSpec => []InstallInv
BY InstallStarts, InstallStep, PTL DEF InstallSpec

\* Composition: seen from the operation record, the install worker only does what the
\* operation authority allows, so its action properties hold of every install.
THEOREM InstallRefinesEngine == InstallSpec => [][Next]_vars /\ []EngineInv
<1>1. InstallInv => EngineInv
  BY DEF InstallInv
<1> QED
  BY <1>1, InstallInvariant, InstallIsEngineStep, PTL DEF InstallSpec

\* ProcessManagedOKDInstallJobsOnce keeps its places, steps and results typed.
THEOREM InstallTypes == InstallSpec => []InstallTypeOK
BY InstallInvariant, PTL DEF InstallInv

\* However many replicas and faults, the evidence is a prefix of the sequence and the
\* holder of the operation works on its first step without evidence.
THEOREM ResumeIsOrdered == InstallSpec => []ResumesAtFirstUnsealed
<1>1. InstallInv => ResumesAtFirstUnsealed
  BY DEF InstallInv, EvidenceIsPrefix, Knows, ResumesAtFirstUnsealed
<1> QED
  BY <1>1, InstallInvariant, PTL

\* An install is verified, and succeeds, only with the evidence of every step.
THEOREM SuccessIsComplete == InstallSpec => []SucceededIsInstalled
BY InstallInvariant, PTL DEF InstallInv

\* Reloading after the heartbeat suffices: a live holder's revision is current unless
\* the install was cancelled.
THEOREM HeartbeatIsHarmless == InstallSpec => []OwnRevisionIsCurrent
<1>1. InstallInv => OwnRevisionIsCurrent
  BY DEF InstallInv, Knows, OwnRevisionIsCurrent, Relying, Cancelling
<1> QED
  BY <1>1, InstallInvariant, PTL
=============================================================================
