------------------------ MODULE ApplicationDeployment ------------------------
(***************************************************************************)
(* Application deployment: how one EnvironmentBinding is rolled out to one *)
(* managed cluster.  Four parties act on shared state:                     *)
(*                                                                         *)
(*   - API clients, who request, approve and cancel deployments, promote   *)
(*     the binding and revoke its workspace;                               *)
(*   - the hub, whose HTTP handlers make several store calls each, with    *)
(*     anything in between, and which may restart;                         *)
(*   - the cluster's agent, which polls for a task, mutates the cluster,   *)
(*     reads it back and reports, and which may restart or give up waiting *)
(*     at any moment;                                                      *)
(*   - the Kubernetes API server (external), which may carry out a request *)
(*     long after its sender has given up on it.                           *)
(*                                                                         *)
(* The operations are the records OperationEngine describes, reduced to    *)
(* what this path uses: class MUTATING, no compensation plan, and one      *)
(* worker identity ("agent:" + cluster), so that a lease is never refused. *)
(* A refused call changes nothing and is no step, unless its caller moves  *)
(* on because of it.                                                       *)
(***************************************************************************)
EXTENDS Naturals, Sequences, FiniteSets

CONSTANTS
  Clients,      \* concurrent createApplicationDeployment calls
  Handlers,     \* concurrent nextApplicationDeploymentTask calls
  Inventories,  \* digests of fresh, mutation-admitted inventories
  Unfit,        \* inventories that are neither fresh nor admitted
  Services,     \* whether a request may have a Service: a subset of BOOLEAN
  Takeovers,    \* kinds of objects that others write under the workload's name
  MaxOps,       \* bound: operations ever created
  MaxClaims,    \* bound: claims of one operation
  MaxBinding    \* bound: revisions of the EnvironmentBinding

ASSUME DeploymentAssumption ==
  /\ Inventories \cap Unfit = {}
  /\ Services \subseteq BOOLEAN
  /\ Takeovers \subseteq {"Deployment", "Service"}
  /\ {MaxOps, MaxClaims, MaxBinding} \subseteq Nat \ {0}

Kinds == {"Deployment", "Service"}

States == {"AWAITING_APPROVAL", "QUEUED", "RUNNING", "RETRY_WAIT", "CANCEL_REQUESTED",
           "SUCCEEDED", "FAILED", "CANCELLED"}

\* The sealed request: the binding revision (hence the release) it renders,
\* whether it has a Service, and the inventory it was planned against.
Plans == [binding : 1..MaxBinding, service : BOOLEAN, inventory : Inventories]

\* What the rendered objects are told apart by: their authority digests.
Content(plan) == [binding |-> plan.binding, service |-> plan.service]

NoPlan   == [binding |-> 0]
NoTask   == [op |-> 0]
Absent   == [owner |-> "NONE"]
IdleCall == [pc |-> "idle"]
IdleAgent == [pc |-> "idle", task |-> NoTask]

VARIABLES
  binding,    \* EnvironmentBinding.Revision
  workspace,  \* WorkspaceBinding.State
  inventory,  \* digest of the cluster's latest inventory
  ops,        \* the operations of this target, in order of creation
  building,   \* client -> the request its create call has built
  approving,  \* operations an approve call has validated
  calls,      \* handler -> its nextApplicationDeploymentTask call
  agent,      \* the agent process
  reports,    \* results on their way to, or inside, the hub
  target,     \* the cluster's objects of the workload's name
  version,    \* resourceVersion of the last write to them
  wire        \* mutation requests the API server has not decided yet

authVars == <<binding, workspace, inventory>>
hubVars  == <<building, approving, calls>>
kubeVars == <<target, version, wire>>
vars == <<authVars, ops, hubVars, agent, reports, kubeVars>>

-----------------------------------------------------------------------------
(* The operation records. *)

\* Mutant: the transition to AWAITING_APPROVAL is forgotten.
NewOperationInPlanning(plan) ==
  [state |-> "PLANNING", revision |-> 2, fence |-> 0, lease |-> "NONE",
   attempt |-> 0, next |-> "NONE", failure |-> "NONE", plan |-> plan]

\* Created DRAFT, moved to PLANNING and AWAITING_APPROVAL under the same lock.
NewOperation(plan) ==
  [state |-> "AWAITING_APPROVAL", revision |-> 3, fence |-> 0, lease |-> "NONE",
   attempt |-> 0, next |-> "NONE", failure |-> "NONE", plan |-> plan]

\* OperationBlocksExclusiveTargetMutation
OperationBlocksExclusiveTargetMutation(op) ==
  IF op.state = "FAILED" THEN op.failure = "UNKNOWN"
                         ELSE op.state \notin {"SUCCEEDED", "CANCELLED"}

\* Mutant: what is only queued is not in flight yet.
DesiredBlocksUnlessQueued(op) ==
  \/ op.state \in {"AWAITING_APPROVAL", "RUNNING", "RETRY_WAIT", "CANCEL_REQUESTED"}
  \/ op.state = "FAILED" /\ op.failure = "UNKNOWN"

\* ApplicationDeploymentOperationBlocksDesiredMutation
BlocksDesiredMutation(op) ==
  \/ op.state \in {"AWAITING_APPROVAL", "QUEUED", "RUNNING", "RETRY_WAIT", "CANCEL_REQUESTED"}
  \/ op.state = "FAILED" /\ op.failure = "UNKNOWN"

Blocked == \E o \in DOMAIN ops : BlocksDesiredMutation(ops[o])

\* Mutant: an approval queues whatever it finds.
QueuedAnyway(op) == [op EXCEPT !.state = "QUEUED", !.revision = @ + 2]

\* ApproveOperationAndQueue; an approval of anything else is refused.
Queued(op) ==
  IF op.state = "AWAITING_APPROVAL" THEN [op EXCEPT !.state = "QUEUED", !.revision = @ + 2] ELSE op

\* validateApplicationDeploymentCurrentAuthority
CurrentAuthority(plan) ==
  /\ plan.binding = binding
  /\ workspace = "ACTIVE"
  /\ plan.inventory = inventory

MaxAttempts == 3

\* The store's guards on a worker's mutation: expected revision, live lease and
\* the current token.
Authorised(o, t) ==
  /\ ops[o].revision = t.revision
  /\ ops[o].fence = t.token
  /\ ops[o].lease = "LIVE"

CanStart(o, t) == Authorised(o, t) /\ ops[o].state = "QUEUED" /\ ops[o].attempt < MaxAttempts

\* StartOperationAttempt
Started(op) ==
  [op EXCEPT !.state = "RUNNING", !.revision = @ + 1, !.attempt = @ + 1,
             !.next = "NONE", !.failure = "NONE"]

\* What ClaimOperation accepts: the agent's identity already is the lease owner.
ClaimAccepts(op) ==
  \/ op.state = "RETRY_WAIT" /\ op.next = "DUE"
  \/ op.state \in {"QUEUED", "RUNNING", "CANCEL_REQUESTED"}

\* ClaimOperation; a due retry is queued first, a revision of its own.
Claimed(op) ==
  LET due == op.state = "RETRY_WAIT" IN
  [op EXCEPT !.state = IF due THEN "QUEUED" ELSE @,
             !.next = IF due THEN "NONE" ELSE @,
             !.revision = @ + (IF due THEN 2 ELSE 1),
             !.fence = @ + 1, !.lease = "LIVE"]

\* ReportOperationFailure
Failed(op, class) ==
  LET again == class = "DEPENDENCY_UNAVAILABLE" /\ op.attempt < MaxAttempts IN
  [op EXCEPT !.state = IF again THEN "RETRY_WAIT" ELSE "FAILED",
             !.next = IF again THEN "WAITING" ELSE "NONE",
             !.failure = class, !.revision = @ + 1, !.lease = "NONE"]

\* CompleteOperationWithEvidencePayload: through VERIFYING in one commit.
Succeeded(op) ==
  [op EXCEPT !.state = "SUCCEEDED", !.next = "NONE", !.revision = @ + 2, !.lease = "NONE"]

\* ResolveUnknownOperationOutcomeWithEvidence, CONFIRMED_SUCCESS.
Resolved(op) ==
  [op EXCEPT !.state = "SUCCEEDED", !.failure = "NONE", !.next = "NONE",
             !.revision = @ + 1, !.lease = "NONE"]

\* Mutant: a cancellation never waits for the agent.
CancelledAtOnce(op) ==
  [op EXCEPT !.state = "CANCELLED", !.revision = @ + 1, !.lease = "NONE", !.next = "NONE"]

\* RequestOperationCancellation
CancelRequested(op) ==
  IF op.state = "RUNNING"
    THEN [op EXCEPT !.state = "CANCEL_REQUESTED", !.revision = @ + 1]
    ELSE [op EXCEPT !.state = "CANCELLED", !.revision = @ + 1, !.lease = "NONE", !.next = "NONE"]

-----------------------------------------------------------------------------
(* Initial state: nothing requested yet. *)

Init ==
  /\ binding = 1 /\ workspace = "ACTIVE" /\ inventory \in Inventories
  /\ ops = <<>>
  /\ building = [c \in Clients |-> NoPlan]
  /\ approving = {}
  /\ calls = [h \in Handlers |-> IdleCall]
  /\ agent = IdleAgent
  /\ reports = {}
  /\ target = [k \in Kinds |-> Absent]
  /\ version = 0
  /\ wire = {}

-----------------------------------------------------------------------------
(* API clients. *)

\* buildApplicationDeploymentRequest: reads the authority...
BuildRequest(c, service) ==
  /\ building[c] = NoPlan
  /\ workspace = "ACTIVE"
  /\ inventory \in Inventories
  /\ building' = [building EXCEPT ![c] =
       [binding |-> binding, service |-> service, inventory |-> inventory]]
  /\ UNCHANGED <<authVars, ops, approving, calls, agent, reports, kubeVars>>

\* Mutant: only an operation that is executing is looked for.
TargetFreeUnlessRunning == \A o \in DOMAIN ops : ops[o].state # "RUNNING"

\* The exclusivity check, under the lock of the creation.
TargetFree == \A o \in DOMAIN ops : ~OperationBlocksExclusiveTargetMutation(ops[o])

\* ... and CreateExclusiveOperationAwaitingApprovalWithPayload seals what was
\* read.  A call whose idempotency key is known only replays.
CreateExclusiveOperation(c) ==
  /\ building[c] # NoPlan
  /\ building' = [building EXCEPT ![c] = NoPlan]
  /\ IF TargetFree /\ Len(ops) < MaxOps
       THEN ops' = Append(ops, NewOperation(building[c]))
       ELSE UNCHANGED ops
  /\ UNCHANGED <<authVars, approving, calls, agent, reports, kubeVars>>

\* approveApplicationDeployment validates the authority...
ValidateApproval(o) ==
  /\ ops[o].state = "AWAITING_APPROVAL"
  /\ CurrentAuthority(ops[o].plan)
  /\ o \notin approving
  /\ approving' = approving \cup {o}
  /\ UNCHANGED <<authVars, ops, building, calls, agent, reports, kubeVars>>

\* ... and then queues at the revision the approver named.
ApproveOperationAndQueue(o) ==
  /\ o \in approving
  /\ approving' = approving \ {o}
  /\ ops' = [ops EXCEPT ![o] = Queued(ops[o])]
  /\ UNCHANGED <<authVars, building, calls, agent, reports, kubeVars>>

RequestOperationCancellation(o) ==
  /\ ops[o].state \notin {"SUCCEEDED", "CANCELLED", "CANCEL_REQUESTED"}
  /\ ops' = [ops EXCEPT ![o] = CancelRequested(ops[o])]
  /\ UNCHANGED <<authVars, hubVars, agent, reports, kubeVars>>

PromoteEnvironmentBinding ==
  /\ ~Blocked
  /\ workspace = "ACTIVE"
  /\ binding < MaxBinding
  /\ binding' = binding + 1
  /\ UNCHANGED <<workspace, inventory, ops, hubVars, agent, reports, kubeVars>>

RevokeWorkspaceBinding ==
  /\ workspace = "ACTIVE"
  /\ ~Blocked
  /\ workspace' = "REVOKED"
  /\ UNCHANGED <<binding, inventory, ops, hubVars, agent, reports, kubeVars>>

-----------------------------------------------------------------------------
(* nextApplicationDeploymentTask: list, claim, read, validate, start, respond. *)

\* ListClaimableOperationsByKindTargetPrefix
Listed == {o \in DOMAIN ops :
             \/ ops[o].state = "QUEUED"
             \/ ops[o].state = "RETRY_WAIT" /\ ops[o].next = "DUE"
             \/ ops[o].state = "RUNNING" /\ ops[o].lease # "LIVE"}

SetCall(h, call) == calls' = [calls EXCEPT ![h] = call]

AgentWaitsFor(h) == agent.pc = "polling" /\ agent.call = h

\* The call ends without a task (204 or an error).
EndCall(h) ==
  /\ SetCall(h, IdleCall)
  /\ agent' = IF AgentWaitsFor(h) THEN IdleAgent ELSE agent

\* The next candidate of the list, oldest first, if there is one.
ContinueCall(h, jobs) ==
  IF jobs = {} THEN EndCall(h)
               ELSE SetCall(h, [pc |-> "claim", jobs |-> jobs]) /\ UNCHANGED agent

PollNextTask(h) ==
  /\ agent.pc = "idle"
  /\ calls[h].pc = "idle"
  /\ Listed # {}
  /\ agent' = [pc |-> "polling", task |-> NoTask, call |-> h]
  /\ SetCall(h, [pc |-> "claim", jobs |-> Listed])
  /\ UNCHANGED <<authVars, ops, building, approving, reports, kubeVars>>

ClaimOperation(h) ==
  /\ calls[h].pc = "claim"
  /\ \E o \in calls[h].jobs :
       /\ \A p \in calls[h].jobs : o <= p
       /\ IF ClaimAccepts(ops[o]) /\ ops[o].fence < MaxClaims
            THEN /\ ops' = [ops EXCEPT ![o] = Claimed(ops[o])]
                 /\ SetCall(h, [pc |-> "read", jobs |-> calls[h].jobs \ {o},
                                task |-> [op |-> o, token |-> ops[o].fence + 1, revision |-> 0]])
                 /\ UNCHANGED agent
            ELSE ContinueCall(h, calls[h].jobs \ {o}) /\ UNCHANGED ops
  /\ UNCHANGED <<authVars, building, approving, reports, kubeVars>>

\* GetOperation: the claim does not return the revision it made.
ReadOperation(h) ==
  /\ calls[h].pc = "read"
  /\ SetCall(h, [calls[h] EXCEPT !.pc = "validate",
                                 !.task.revision = ops[calls[h].task.op].revision])
  /\ UNCHANGED <<authVars, ops, building, approving, agent, reports, kubeVars>>

ValidateDispatch(h) ==
  /\ calls[h].pc = "validate"
  /\ SetCall(h, [calls[h] EXCEPT !.pc =
       IF CurrentAuthority(ops[calls[h].task.op].plan) THEN "start" ELSE "refuse"])
  /\ UNCHANGED <<authVars, ops, building, approving, agent, reports, kubeVars>>

\* Start the attempt, to execute it or only to fail it.  An error ends the call.
StartOperationAttempt(h) ==
  LET t == calls[h].task IN
  /\ calls[h].pc \in {"start", "refuse"}
  /\ IF CanStart(t.op, t)
       THEN /\ ops' = [ops EXCEPT ![t.op] = Started(ops[t.op])]
            /\ SetCall(h, [calls[h] EXCEPT !.pc = IF @ = "start" THEN "respond" ELSE "fail",
                                           !.task.revision = @ + 1])
            /\ UNCHANGED agent
       ELSE EndCall(h) /\ UNCHANGED ops
  /\ UNCHANGED <<authVars, building, approving, reports, kubeVars>>

\* The authority changed: the attempt is failed for good, and the next
\* candidate taken.
RefuseDispatch(h) ==
  LET t == calls[h].task IN
  /\ calls[h].pc = "fail"
  /\ IF Authorised(t.op, t) /\ ops[t.op].state = "RUNNING"
       THEN ops' = [ops EXCEPT ![t.op] = Failed(@, "PERMANENT")] /\ ContinueCall(h, calls[h].jobs)
       ELSE EndCall(h) /\ UNCHANGED ops
  /\ UNCHANGED <<authVars, building, approving, reports, kubeVars>>

\* The answer reaches the agent only if it is still waiting for it.
RespondTask(h) ==
  /\ calls[h].pc = "respond"
  /\ SetCall(h, IdleCall)
  /\ agent' = IF AgentWaitsFor(h)
                THEN [pc |-> "apply", task |-> calls[h].task, kind |-> "Deployment"]
                ELSE agent
  /\ UNCHANGED <<authVars, ops, building, approving, reports, kubeVars>>

-----------------------------------------------------------------------------
(* The agent executes its task. *)

Plan == ops[agent.task.op].plan

Owned(k) == target[k].owner = "BINDING"

\* The object is the one the plan renders.
Matches(k) == Owned(k) /\ target[k].content = Content(Plan)

Go(pc) == agent' = [pc |-> pc, task |-> agent.task] /\ UNCHANGED reports

\* runApplicationDeployment returns; reportApplicationDeploymentTask sends the
\* result.  Whether the hub's answer arrives makes no difference to the agent.
Finish(result) ==
  /\ agent' = IdleAgent
  /\ reports' = reports \cup {[task |-> agent.task, result |-> result, authority |-> "UNCHECKED"]}

\* Mutant: the request carries no resourceVersion.
NoPrecondition(k, verb) == 0

\* The resourceVersion of the object as it was read.
Precondition(k, verb) == IF verb = "create" THEN 0 ELSE target[k].rv

\* A mutation request leaves for the API server.
Send(k, verb) ==
  LET w == [op |-> agent.task.op, kind |-> k, verb |-> verb,
            content |-> Content(Plan), rv |-> Precondition(k, verb)]
  IN /\ wire' = wire \cup {w}
     /\ agent' = [pc |-> "wait", task |-> agent.task, write |-> w]
     /\ UNCHANGED reports

\* applyApplicationDeploymentResource: read, then create or conditionally apply.
ApplyResource ==
  /\ agent.pc = "apply"
  /\ IF target[agent.kind] = Absent THEN Send(agent.kind, "create")
     ELSE IF Owned(agent.kind) THEN Send(agent.kind, "apply")
     ELSE Finish("failed") /\ UNCHANGED wire
  /\ UNCHANGED <<authVars, ops, hubVars, target, version>>

\* The readback after a mutation; then the next resource.
ReadBack ==
  /\ agent.pc = "readback"
  /\ IF ~Owned(agent.kind) THEN Finish("failed")
     ELSE IF agent.kind = "Service" THEN Go("observe")
     ELSE IF Plan.service
       THEN agent' = [pc |-> "apply", task |-> agent.task, kind |-> "Service"] /\ UNCHANGED reports
       ELSE Go("clean")
  /\ UNCHANGED <<authVars, ops, hubVars, kubeVars>>

\* removeApplicationDeploymentServiceIfNotDesired
RemoveService ==
  /\ agent.pc = "clean"
  /\ IF target["Service"] = Absent THEN Go("observe") /\ UNCHANGED wire
     ELSE IF Owned("Service") THEN Send("Service", "delete")
     ELSE Finish("failed") /\ UNCHANGED wire
  /\ UNCHANGED <<authVars, ops, hubVars, target, version>>

\* The deletion was accepted; wait until the object is gone.
ObserveDeletion ==
  /\ agent.pc = "gone"
  /\ IF target["Service"] = Absent THEN Go("observe") ELSE Finish("unknown")
  /\ UNCHANGED <<authVars, ops, hubVars, kubeVars>>

\* observeApplicationDeployment: the exact Deployment, rolled out ...
ObserveDeployment ==
  /\ agent.pc = "observe"
  /\ IF Matches("Deployment") THEN Go("observeService")
     ELSE target["Deployment"].owner = "FOREIGN" /\ Finish("failed")
  /\ UNCHANGED <<authVars, ops, hubVars, kubeVars>>

\* ... and the exact Service, or none.
ObserveService ==
  /\ agent.pc = "observeService"
  /\ IF Plan.service
       THEN IF target["Service"] = Absent THEN Go("observe")
            ELSE Finish(IF Matches("Service") THEN "success" ELSE "failed")
       ELSE Finish(IF target["Service"] = Absent THEN "success" ELSE "failed")
  /\ UNCHANGED <<authVars, ops, hubVars, kubeVars>>

\* Once a mutation is under way its outcome is unknown; an error of a read, or
\* the deadline, fails the attempt.
ResultOfError(pc) == IF pc \in {"wait", "gone"} THEN "unknown" ELSE "failed"

AgentError ==
  /\ agent.pc \in {"apply", "wait", "readback", "clean", "gone", "observe", "observeService"}
  /\ Finish(ResultOfError(agent.pc))
  /\ UNCHANGED <<authVars, ops, hubVars, kubeVars>>

-----------------------------------------------------------------------------
(* The recovery lane: read-only. *)

\* nextApplicationDeploymentRecoveryTask
PollRecoveryTask(o) ==
  /\ agent.pc = "idle"
  /\ ops[o].state = "FAILED" /\ ops[o].failure = "UNKNOWN"
  /\ agent' = [pc |-> "recover",
               task |-> [op |-> o, token |-> ops[o].fence, revision |-> ops[o].revision]]
  /\ UNCHANGED <<authVars, ops, hubVars, reports, kubeVars>>

\* readApplicationDeploymentRecoveryEvidence; what is not confirmed stays as it
\* is.
RecoverDeployment ==
  /\ agent.pc = "recover"
  /\ IF Matches("Deployment") THEN Go("recoverService")
                              ELSE agent' = IdleAgent /\ UNCHANGED reports
  /\ UNCHANGED <<authVars, ops, hubVars, kubeVars>>

RecoverService ==
  /\ agent.pc = "recoverService"
  /\ IF (IF Plan.service THEN Matches("Service") ELSE target["Service"] = Absent)
       THEN Finish("confirmed")
       ELSE agent' = IdleAgent /\ UNCHANGED reports
  /\ UNCHANGED <<authVars, ops, hubVars, kubeVars>>

-----------------------------------------------------------------------------
(* The API server (external). *)

\* A create needs the name to be free; an apply and a delete need the very
\* version that their precondition names (0: none).
Lands(w) ==
  IF w.verb = "create" THEN target[w.kind] = Absent
  ELSE target[w.kind] # Absent /\ w.rv \in {0, target[w.kind].rv}

\* An apply that changes nothing does not make a new version.
Write(w) ==
  IF w.verb = "delete"
    THEN target' = [target EXCEPT ![w.kind] = Absent] /\ UNCHANGED version
  ELSE IF w.verb = "apply" /\ Owned(w.kind) /\ target[w.kind].content = w.content
    THEN UNCHANGED <<target, version>>
  ELSE /\ version' = version + 1
       /\ target' = [target EXCEPT ![w.kind] =
            [owner |-> "BINDING", content |-> w.content, rv |-> version + 1]]

\* What the agent does on the answer: createKubeObject, serverSideApplyConditional
\* and deleteKubeObjectWithUIDAndResourceVersionAndWait.  Every error of a delete
\* needs recovery.
Answered(w) ==
  CASE w.verb = "delete" ->
         IF Lands(w) THEN Go("gone")
         ELSE IF target[w.kind] = Absent THEN Go("observe") ELSE Finish("unknown")
    [] w.verb = "apply" /\ ~Lands(w) -> Finish("failed")
    [] OTHER ->
         agent' = [pc |-> "readback", task |-> agent.task, kind |-> w.kind] /\ UNCHANGED reports

\* A request is decided; its answer may be lost, or come too late.
DecideWrite(w, answered) ==
  /\ wire' = wire \ {w}
  /\ IF Lands(w) THEN Write(w) ELSE UNCHANGED <<target, version>>
  /\ IF answered
       THEN agent.pc = "wait" /\ agent.write = w /\ Answered(w)
       ELSE UNCHANGED <<agent, reports>>
  /\ UNCHANGED <<authVars, ops, hubVars>>

\* Someone else takes the name, or takes the object over.
ForeignWrite(k) ==
  /\ target[k].owner # "FOREIGN"
  /\ target' = [target EXCEPT ![k] = [owner |-> "FOREIGN", rv |-> version + 1]]
  /\ version' = version + 1
  /\ UNCHANGED <<authVars, ops, hubVars, agent, reports, wire>>

-----------------------------------------------------------------------------
(* The hub handles a report. *)

\* Mutant: the recoveryRequired flag of the result is dropped.
FailureClassWithoutRecovery(result) == "DEPENDENCY_UNAVAILABLE"

FailureClass(result) == IF result = "unknown" THEN "UNKNOWN" ELSE "DEPENDENCY_UNAVAILABLE"

ReportFailure(r) ==
  /\ r.result \in {"failed", "unknown"}
  /\ Authorised(r.task.op, r.task)
  /\ ops[r.task.op].state = "RUNNING"
  /\ ops' = [ops EXCEPT ![r.task.op] = Failed(@, FailureClass(r.result))]
  /\ reports' = reports \ {r}
  /\ UNCHANGED <<authVars, hubVars, agent, kubeVars>>

\* A success is first held against the authority...
ValidateResult(r) ==
  /\ r.result = "success"
  /\ r.authority = "UNCHECKED"
  /\ ops[r.task.op].revision = r.task.revision
  /\ reports' = (reports \ {r}) \cup
       {[r EXCEPT !.authority = IF CurrentAuthority(ops[r.task.op].plan) THEN "CURRENT" ELSE "CHANGED"]}
  /\ UNCHANGED <<authVars, ops, hubVars, agent, kubeVars>>

\* ... and then committed, or failed for good.
CommitResult(r) ==
  /\ r.result = "success"
  /\ r.authority # "UNCHECKED"
  /\ Authorised(r.task.op, r.task)
  /\ ops[r.task.op].state = "RUNNING"
  /\ ops' = [ops EXCEPT ![r.task.op] =
       IF r.authority = "CURRENT" THEN Succeeded(@) ELSE Failed(@, "PERMANENT")]
  /\ reports' = reports \ {r}
  /\ UNCHANGED <<authVars, hubVars, agent, kubeVars>>

\* reportApplicationDeploymentRecoveryTask
ResolveRecovery(r) ==
  /\ r.result = "confirmed"
  /\ ops[r.task.op].revision = r.task.revision
  /\ ops[r.task.op].state = "FAILED" /\ ops[r.task.op].failure = "UNKNOWN"
  /\ ops' = [ops EXCEPT ![r.task.op] = Resolved(@)]
  /\ reports' = reports \ {r}
  /\ UNCHANGED <<authVars, hubVars, agent, kubeVars>>

\* A report that is lost on the way, or refused.
ReportLost(r) ==
  /\ reports' = reports \ {r}
  /\ UNCHANGED <<authVars, ops, hubVars, agent, kubeVars>>

-----------------------------------------------------------------------------
(* Time, failures and the surroundings. *)

LeaseExpires(o) ==
  /\ ops[o].lease = "LIVE"
  /\ ops' = [ops EXCEPT ![o].lease = "EXPIRED"]
  /\ UNCHANGED <<authVars, hubVars, agent, reports, kubeVars>>

RetryBecomesDue(o) ==
  /\ ops[o].next = "WAITING"
  /\ ops' = [ops EXCEPT ![o].next = "DUE"]
  /\ UNCHANGED <<authVars, hubVars, agent, reports, kubeVars>>

\* The agent reports a new inventory, or its report grows stale.
InventoryChanges ==
  /\ inventory' \in (Inventories \cup Unfit) \ {inventory}
  /\ UNCHANGED <<binding, workspace, ops, hubVars, agent, reports, kubeVars>>

\* The agent process restarts, or the request it is waiting for times out.
AgentRestarts ==
  /\ agent.pc # "idle"
  /\ agent' = IdleAgent
  /\ UNCHANGED <<authVars, ops, hubVars, reports, kubeVars>>

\* The hub restarts: every call in progress is gone, the store is not.
HubRestarts ==
  /\ building' = [c \in Clients |-> NoPlan]
  /\ approving' = {}
  /\ calls' = [h \in Handlers |-> IdleCall]
  /\ reports' = {}
  /\ UNCHANGED <<authVars, ops, agent, kubeVars>>

ClientStep ==
  \/ \E c \in Clients, service \in Services : BuildRequest(c, service)
  \/ \E c \in Clients : CreateExclusiveOperation(c)
  \/ \E o \in DOMAIN ops : ValidateApproval(o)
  \/ \E o \in DOMAIN ops : ApproveOperationAndQueue(o)
  \/ \E o \in DOMAIN ops : RequestOperationCancellation(o)
  \/ PromoteEnvironmentBinding
  \/ RevokeWorkspaceBinding

HubStep ==
  \/ \E h \in Handlers :
       \/ PollNextTask(h) \/ ClaimOperation(h) \/ ReadOperation(h) \/ ValidateDispatch(h)
       \/ StartOperationAttempt(h) \/ RefuseDispatch(h) \/ RespondTask(h)
  \/ \E r \in reports :
       \/ ReportFailure(r) \/ ValidateResult(r) \/ CommitResult(r)
       \/ ResolveRecovery(r) \/ ReportLost(r)
  \/ HubRestarts

AgentStep ==
  \/ ApplyResource \/ ReadBack \/ RemoveService \/ ObserveDeletion
  \/ ObserveDeployment \/ ObserveService \/ AgentError
  \/ \E o \in DOMAIN ops : PollRecoveryTask(o)
  \/ RecoverDeployment \/ RecoverService
  \/ AgentRestarts

Surroundings ==
  \/ \E w \in wire, answered \in BOOLEAN : DecideWrite(w, answered)
  \/ \E k \in Takeovers : ForeignWrite(k)
  \/ \E o \in DOMAIN ops : LeaseExpires(o)
  \/ \E o \in DOMAIN ops : RetryBecomesDue(o)
  \/ InventoryChanges

Next == ClientStep \/ HubStep \/ AgentStep \/ Surroundings

Spec == Init /\ [][Next]_vars

-----------------------------------------------------------------------------
(* Properties. *)

Tasks == [op : 1..MaxOps, token : 1..MaxClaims, revision : Nat]

Objects ==
  {Absent} \cup [owner : {"FOREIGN"}, rv : Nat]
    \cup [owner : {"BINDING"}, content : [binding : Nat, service : BOOLEAN], rv : Nat]

\* The stored records, the agent's task and the cluster's objects keep their
\* types (controlplane/model.go Operation, agentApplicationDeploymentTask).
TypeOK ==
  /\ binding \in 1..MaxBinding
  /\ workspace \in {"ACTIVE", "REVOKED"}
  /\ inventory \in Inventories \cup Unfit
  /\ Len(ops) <= MaxOps
  /\ \A o \in DOMAIN ops :
       ops[o] \in [state : States, revision : Nat, fence : 0..MaxClaims,
                   lease : {"NONE", "LIVE", "EXPIRED"}, attempt : 0..MaxAttempts,
                   next : {"NONE", "WAITING", "DUE"},
                   failure : {"NONE", "UNKNOWN", "PERMANENT", "DEPENDENCY_UNAVAILABLE"},
                   plan : Plans]
  /\ building \in [Clients -> Plans \cup {NoPlan}]
  /\ approving \subseteq DOMAIN ops
  /\ agent.task \in Tasks \cup {NoTask}
  /\ \A r \in reports : r.task \in Tasks
  /\ target \in [Kinds -> Objects]
  /\ version \in Nat

\* At most one deployment of a binding is unfinished or ambiguous, whatever
\* creations, claims, retries, cancellations and recoveries interleave.
OneDeploymentInFlight ==
  \A o, p \in DOMAIN ops :
    OperationBlocksExclusiveTargetMutation(ops[o]) /\ OperationBlocksExclusiveTargetMutation(ops[p])
      => o = p

Executing == agent.pc \notin {"idle", "polling", "recover", "recoverService"}

\* The agent executes a task only while its operation is RUNNING or waits for
\* the cancellation to be acknowledged: no retry, result, recovery or new
\* deployment overtakes it.
ExecutionIsAccounted ==
  Executing => ops[agent.task.op].state \in {"RUNNING", "CANCEL_REQUESTED"}

\* What the agent rolls out is the release that the binding designates, in an
\* active workspace: a promotion or a revocation between request, approval,
\* dispatch and execution never leaves an old plan executing.
ExecutesCurrentBinding ==
  Executing => Plan.binding = binding /\ workspace = "ACTIVE"

\* An object another owner holds is never changed or deleted, however late a
\* write arrives (the agent's conditional apply and
\* delete).
ForeignIsUntouched ==
  [][\A k \in Kinds : target[k].owner = "FOREIGN" => target'[k] = target[k]]_vars

\* An operation that no longer fences its binding never fences it again.
SettledStaysSettled ==
  [][\A o \in DOMAIN ops : ~OperationBlocksExclusiveTargetMutation(ops[o])
       => ~OperationBlocksExclusiveTargetMutation(ops'[o])]_vars

\* No ambiguity was given up by a cancellation.
NoAmbiguityLeft == \A o \in DOMAIN ops : ops[o].failure # "UNKNOWN"

\* After the last deployment has succeeded the cluster holds exactly what it
\* rendered, and no delayed write of any operation changes that.
SucceededStaysDeployed ==
  LET last == ops[Len(ops)] IN
  ops # <<>> /\ last.state = "SUCCEEDED" /\ NoAmbiguityLeft =>
    /\ target["Deployment"].owner = "BINDING" => target["Deployment"].content = Content(last.plan)
    /\ target["Deployment"] # Absent
    /\ target["Service"].owner = "BINDING" =>
         last.plan.service /\ target["Service"].content = Content(last.plan)
    /\ target["Service"] = Absent => ~last.plan.service

(* A statement of the repository that the code does not keep. *)

\* docs/PROGRAM_STATUS.md:36: an ambiguous mutation is FAILED/UNKNOWN and "a second
\* deployment for the same EnvironmentBinding is fenced while that ambiguity
\* remains": no operation follows one whose outcome was never resolved.
AmbiguityFencesBinding ==
  \A o \in DOMAIN ops : o < Len(ops) => ops[o].failure # "UNKNOWN"
=============================================================================
