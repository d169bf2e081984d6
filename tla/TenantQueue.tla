----------------------------- MODULE TenantQueue -----------------------------
(***************************************************************************)
(* The tenants of one managed cluster: their records in MemoryStore        *)
(* (internal/controlplane/tenant_store.go), the owner operation that       *)
(* authorises a delete (owner_destructive_operation.go), the agent task    *)
(* queue that hands their work out (NextTenantTask, ReportTenantTask), the *)
(* platform agents that execute it and the objects they write on the       *)
(* target cluster (cmd/platform-agent).                                    *)
(*                                                                         *)
(* A store method is one action: it runs under MemoryStore.mu.  A request  *)
(* of a client carries the revision it last read; a stale one is refused   *)
(* and changes nothing, so a request is made on the current record.  An    *)
(* agent keeps the revision and the token of the task it was handed.       *)
(*                                                                         *)
(* An agent executes a task under taskExecutionContext, whose deadline is  *)
(* the task's LeaseExpiresAt: hub and agent are taken to agree on the time *)
(* and a call that was cut off is taken not to reach the target.           *)
(***************************************************************************)
EXTENDS Naturals, FiniteSets

CONSTANTS
  MaxCreated,   \* bound: tenants ever created
  Plans,        \* catalogue plans
  EntryPlan,    \* the plan tenants are created with
  MaxTenants,   \* Entitlement.MaxTenants
  Agents,       \* agent processes (a rollout overlaps two)
  MaxRequests,  \* bound, by tenant: lifecycle requests of the clients
  MaxFaults     \* bound: crashes, overrun leases, lost admissions, drift

ASSUME TenantAssumption ==
  /\ MaxCreated \in Nat /\ MaxTenants \in Nat
  /\ MaxRequests \in [1..MaxCreated -> Nat] /\ MaxFaults \in Nat
  /\ EntryPlan \in Plans

\* Tenants in the order of CreatedAt.
Tenants == 1..MaxCreated

QueuedStates    == {"QUEUED", "SUSPEND_QUEUED", "RESUME_QUEUED", "RESIZE_QUEUED", "DELETE_QUEUED"}
ExecutingStates == {"PROVISIONING", "SUSPENDING", "RESUMING", "RESIZING", "DELETING"}
RestingStates   == {"NONE", "ACTIVE", "SUSPENDED", "FAILED", "DELETED", "RESIZE_APPROVAL", "DELETE_APPROVAL"}
Actions         == {"PROVISION", "SUSPEND", "RESUME", "RESIZE", "DELETE"}

\* The states of an owner operation between two store calls.
OwnerOpStates == {"NONE", "AWAITING_APPROVAL", "QUEUED", "RUNNING", "CANCEL_REQUESTED",
                  "SUCCEEDED", "FAILED", "CANCELLED"}

\* A desired digest: the plan, and whether pods are quota'd to zero.
NoPlan   == "NO_PLAN"
Digests  == (Plans \cup {NoPlan}) \X BOOLEAN
NoDigest == <<NoPlan, FALSE>>

\* What an agent keeps of a TenantTask, and how far it is: step IDLE (no task),
\* TAKEN, INSPECTED (a delete has read both objects), NAMESPACE (the first of
\* the two objects is done) or DONE with its outcome.
NoTask == [tenant |-> 0, revision |-> 0, fence |-> 0, action |-> "", digest |-> NoDigest,
           step |-> "IDLE", sawNamespace |-> FALSE, sawSchedule |-> FALSE, outcome |-> "NONE"]

VARIABLES
  tenant,   \* TenantEnvironment by tenant, with the state of its DestructiveOperationID
  target,   \* tenant -> its Namespace and its velero Schedule on the cluster
  task,     \* agent -> the TenantTask it executes
  admitted, \* ClusterTaskClaimAdmittedAt: the heartbeat is fresh
  requests, \* requests made so far
  faults    \* faults so far

vars == <<tenant, target, task, admitted, requests, faults>>

-----------------------------------------------------------------------------
(* The record. *)

NoTenant ==
  [state |-> "NONE", action |-> "", plan |-> NoPlan, pending |-> NoPlan,
   revision |-> 0, fence |-> 0, lease |-> "NONE", current |-> FALSE,
   op |-> "NONE", recovery |-> FALSE]

NewTenant ==
  [NoTenant EXCEPT !.state = "QUEUED", !.action = "PROVISION", !.plan = EntryPlan, !.revision = 1]

\* tenantActionForState: what is done in an executing state, and the executing
\* state of a queued one.
ActionOf(s) ==
  CASE s \in {"QUEUED", "PROVISIONING"}           -> "PROVISION"
    [] s \in {"SUSPEND_QUEUED", "SUSPENDING"}     -> "SUSPEND"
    [] s \in {"RESUME_QUEUED", "RESUMING"}        -> "RESUME"
    [] s \in {"RESIZE_QUEUED", "RESIZING"}        -> "RESIZE"
    [] s \in {"DELETE_QUEUED", "DELETING"}        -> "DELETE"
    [] OTHER                                      -> ""

ExecutingState(s) ==
  CASE ActionOf(s) = "SUSPEND" -> "SUSPENDING"
    [] ActionOf(s) = "RESUME"  -> "RESUMING"
    [] ActionOf(s) = "RESIZE"  -> "RESIZING"
    [] ActionOf(s) = "DELETE"  -> "DELETING"
    [] OTHER                   -> "PROVISIONING"

\* Mutant: a resize applies the plan it replaces.
DesiredDigestOfPlan(r, action) == <<r.plan, action = "SUSPEND">>

\* tenantResources: the digest the agent is asked to apply.
DesiredDigest(r, action) ==
  <<IF action = "RESIZE" THEN r.pending ELSE r.plan, action = "SUSPEND">>

\* The record of t becomes r, at its next revision.
Commit(t, r) == tenant' = [tenant EXCEPT ![t] = [r EXCEPT !.revision = tenant[t].revision + 1]]

Request(t) == requests[t] < MaxRequests[t] /\ requests' = [requests EXCEPT ![t] = requests[t] + 1]

Fault == faults < MaxFaults /\ faults' = faults + 1

-----------------------------------------------------------------------------
(* The owner operation. *)

\* cancelOwnerDestructiveOperationLocked
CancellableOp(o) == o \notin {"RUNNING", "SUCCEEDED"}

\* startOwnerDestructiveOperationLocked: the attempt budget of two is never
\* reached, since nothing puts a started owner operation back into QUEUED.
StartableOp(r) == r.op = "QUEUED" /\ r.recovery

\* finishOwnerDestructiveOperationLocked
FinishableOp(r) == r.op = "RUNNING"

\* RequestOperationCancellation: what becomes of the operation.
CancelledOp(o) == IF o = "RUNNING" THEN "CANCEL_REQUESTED" ELSE "CANCELLED"

-----------------------------------------------------------------------------
(* Requests of the clients (internal/api/tenant.go). *)

Live == {t \in Tenants : tenant[t].state \notin {"NONE", "DELETED"}}

\* Under a name no live tenant has: there is always one.
CreateTenant(t) ==
  /\ tenant[t].state = "NONE"
  /\ \A u \in Tenants : u < t => tenant[u].state # "NONE"
  /\ Cardinality(Live) < MaxTenants
  /\ tenant' = [tenant EXCEPT ![t] = NewTenant]
  /\ UNCHANGED <<target, task, admitted, requests, faults>>

QueueTenantResize(t, p) ==
  /\ Request(t)
  /\ tenant[t].state = "ACTIVE"
  /\ p # tenant[t].plan
  /\ Commit(t, [tenant[t] EXCEPT !.state = "RESIZE_APPROVAL", !.action = "RESIZE", !.pending = p])
  /\ UNCHANGED <<target, task, admitted, faults>>

QueueTenantSuspend(t) ==
  /\ Request(t)
  /\ tenant[t].state = "ACTIVE"
  /\ Commit(t, [tenant[t] EXCEPT !.state = "SUSPEND_QUEUED", !.action = "SUSPEND"])
  /\ UNCHANGED <<target, task, admitted, faults>>

QueueTenantResume(t) ==
  /\ Request(t)
  /\ tenant[t].state = "SUSPENDED"
  /\ Commit(t, [tenant[t] EXCEPT !.state = "RESUME_QUEUED", !.action = "RESUME"])
  /\ UNCHANGED <<target, task, admitted, faults>>

\* A waiting delete is superseded, its operation cancelled; the new operation
\* is created under a checkpoint that is valid now.
QueueTenantDelete(t) ==
  /\ Request(t)
  /\ tenant[t].state \in {"ACTIVE", "SUSPENDED", "FAILED", "DELETE_APPROVAL", "DELETE_QUEUED"}
  /\ tenant[t].state \in {"DELETE_APPROVAL", "DELETE_QUEUED"} => CancellableOp(tenant[t].op)
  /\ Commit(t, [tenant[t] EXCEPT !.state = "DELETE_APPROVAL", !.action = "DELETE",
                                 !.op = "AWAITING_APPROVAL", !.recovery = TRUE])
  /\ UNCHANGED <<target, task, admitted, faults>>

\* The checkpoint of the superseding request is not valid: the request is refused, but
\* the old operation is cancelled by then, and the tenant still names it.
QueueTenantDeleteFails(t) ==
  /\ Request(t)
  /\ tenant[t].state \in {"DELETE_APPROVAL", "DELETE_QUEUED"}
  /\ CancellableOp(tenant[t].op)
  /\ tenant' = [tenant EXCEPT ![t].op = "CANCELLED"]
  /\ UNCHANGED <<target, task, admitted, faults>>

\* Mutant: the retried resize is given no state.
RetryStateUnset(action) ==
  CASE action = "PROVISION" -> "QUEUED"
    [] action = "SUSPEND"   -> "SUSPEND_QUEUED"
    [] action = "RESUME"    -> "RESUME_QUEUED"
    [] OTHER                -> ""

\* A failed delete is not retried, nor is a failed contract reconciliation.
RetryState(action) ==
  CASE action = "PROVISION" -> "QUEUED"
    [] action = "SUSPEND"   -> "SUSPEND_QUEUED"
    [] action = "RESUME"    -> "RESUME_QUEUED"
    [] OTHER                -> "RESIZE_QUEUED"

QueueTenantRetry(t) ==
  /\ Request(t)
  /\ tenant[t].state = "FAILED"
  /\ tenant[t].action \in Actions \ {"DELETE"}
  /\ tenant[t].action = "RESIZE" => tenant[t].pending # NoPlan
  /\ Commit(t, [tenant[t] EXCEPT !.state = RetryState(tenant[t].action)])
  /\ UNCHANGED <<target, task, admitted, faults>>

ApproveTenantAction(t) ==
  /\ \/ /\ tenant[t].state = "RESIZE_APPROVAL" /\ tenant[t].pending # NoPlan
        /\ Commit(t, [tenant[t] EXCEPT !.state = "RESIZE_QUEUED"])
     \/ /\ tenant[t].state = "DELETE_APPROVAL"
        /\ tenant[t].op = "AWAITING_APPROVAL" /\ tenant[t].recovery
        /\ Commit(t, [tenant[t] EXCEPT !.state = "DELETE_QUEUED", !.op = "QUEUED"])
  /\ UNCHANGED <<target, task, admitted, requests, faults>>

\* The owner operation is an Operation like any other to the operation API:
\* it may be approved and cancelled there.  The tenant is not told.
ApproveOperationAndQueue(t) ==
  /\ tenant[t].op = "AWAITING_APPROVAL"
  /\ tenant' = [tenant EXCEPT ![t].op = "QUEUED"]
  /\ UNCHANGED <<target, task, admitted, requests, faults>>

RequestOperationCancellation(t) ==
  /\ tenant[t].op \in {"AWAITING_APPROVAL", "QUEUED", "RUNNING", "FAILED"}
  /\ tenant' = [tenant EXCEPT ![t].op = CancelledOp(tenant[t].op)]
  /\ UNCHANGED <<target, task, admitted, requests, faults>>

-----------------------------------------------------------------------------
(* The queue: NextTenantTask and ReportTenantTask. *)

\* AgentTaskLeaseActive
AgentTaskLeaseActive(r) == r.lease = "LIVE"

\* A tenant of an older runtime contract is provisioned again.
Reconcile(r) == r.state = "ACTIVE" /\ ~r.current

\* Mutant: a task under way is reissued at every poll.
RunnableAnyLease(r) == r.state \in QueuedStates \cup ExecutingStates \/ Reconcile(r)

\* Mutant: only queued work is handed out.
RunnableQueuedOnly(r) == r.state \in QueuedStates \/ Reconcile(r)

\* The lease of a queued tenant is not looked at.  (Deletes are withheld from agents
\* without the capability to observe them; the agent of this commit has it.)
Runnable(r) ==
  \/ r.state \in QueuedStates
  \/ (r.state \in ExecutingStates \/ Reconcile(r)) /\ ~AgentTaskLeaseActive(r)

\* Only the oldest runnable tenant is considered.
Oldest(t) == Runnable(tenant[t]) /\ \A u \in Tenants : Runnable(tenant[u]) => t <= u

\* A delete whose lease ran out is failed, together with its operation.
ExpiredDelete(r) == r.state = "DELETING" /\ r.lease # "NONE"

\* Mutant: the operation is left running.
FailExpiredDeleteOnly(t) ==
  /\ ExpiredDelete(tenant[t])
  /\ Commit(t, [tenant[t] EXCEPT !.state = "FAILED", !.lease = "NONE"])
  /\ UNCHANGED task

FailExpiredDelete(t) ==
  /\ ExpiredDelete(tenant[t])
  /\ FinishableOp(tenant[t])
  /\ Commit(t, [tenant[t] EXCEPT !.state = "FAILED", !.lease = "NONE", !.op = "FAILED"])
  /\ UNCHANGED task

\* The record under its new grant.
Granted(r) ==
  [r EXCEPT !.state = ExecutingState(r.state), !.fence = r.fence + 1, !.lease = "LIVE",
            !.op = IF r.state = "DELETE_QUEUED" THEN "RUNNING" ELSE r.op]

TaskOf(t, r) ==
  [NoTask EXCEPT !.tenant = t, !.revision = tenant[t].revision + 1, !.fence = r.fence,
                 !.action = ActionOf(r.state), !.step = "TAKEN",
                 !.digest = IF r.state = "DELETING" THEN NoDigest
                            ELSE DesiredDigest(r, ActionOf(r.state))]

GrantTask(a, t) ==
  /\ ~ExpiredDelete(tenant[t])
  /\ tenant[t].state = "DELETE_QUEUED" => StartableOp(tenant[t])
  /\ Commit(t, Granted(tenant[t]))
  /\ task' = [task EXCEPT ![a] = TaskOf(t, Granted(tenant[t]))]

\* An error on the oldest runnable tenant is the answer to the poll: no other
\* tenant is tried.
NextTenantTask(a, t) ==
  /\ admitted
  /\ task[a].step = "IDLE"
  /\ Oldest(t)
  /\ FailExpiredDelete(t) \/ GrantTask(a, t)
  /\ UNCHANGED <<target, admitted, requests, faults>>

\* The guards of ReportTenantTask on the current record.
ReportCurrent(k, r) ==
  /\ r.revision = k.revision
  /\ r.fence = k.fence
  /\ AgentTaskLeaseActive(r)
  /\ r.state \in ExecutingStates /\ ActionOf(r.state) = k.action

\* A delete that ends, either way, ends its operation too.
DeleteTerminal(k) == k.action = "DELETE" /\ k.outcome # "PENDING"

\* What an accepted result makes of the record.
Reported(k, r) ==
  CASE k.outcome = "FAILURE" ->
         [r EXCEPT !.state = "FAILED", !.lease = "NONE",
                   !.op = IF k.action = "DELETE" THEN "FAILED" ELSE r.op]
    [] k.outcome = "PENDING" -> [r EXCEPT !.lease = "NONE"]
    [] k.outcome = "SUCCESS" /\ k.action = "DELETE" ->
         [r EXCEPT !.state = "DELETED", !.lease = "NONE", !.action = "", !.op = "SUCCEEDED"]
    [] k.outcome = "SUCCESS" /\ k.action = "RESIZE" ->
         [r EXCEPT !.state = "ACTIVE", !.lease = "NONE", !.action = "", !.current = TRUE,
                   !.plan = r.pending, !.pending = NoPlan]
    [] OTHER ->
         [r EXCEPT !.state = IF k.action = "SUSPEND" THEN "SUSPENDED" ELSE "ACTIVE",
                   !.lease = "NONE", !.action = "", !.current = TRUE]

\* The agent posts its result and forgets the task whatever the answer is.
ReportTenantTask(a) ==
  LET k == task[a]  r == tenant[k.tenant] IN
  /\ k.step = "DONE"
  /\ IF ReportCurrent(k, r) /\ (DeleteTerminal(k) => FinishableOp(r))
     THEN Commit(k.tenant, Reported(k, r))
     ELSE UNCHANGED tenant
  /\ task' = [task EXCEPT ![a] = NoTask]
  /\ UNCHANGED <<target, admitted, requests, faults>>

-----------------------------------------------------------------------------
(* The agent at work on the target (executeTenantTask). *)

\* taskExecutionContext has not run out.
InTime(a) == tenant[task[a].tenant].fence = task[a].fence /\ tenant[task[a].tenant].lease = "LIVE"

Advance(a, step)    == task' = [task EXCEPT ![a].step = step]
Finish(a, outcome)  == task' = [task EXCEPT ![a].step = "DONE", ![a].outcome = outcome]

\* Every call to the target, or a check of what it answers, may fail.
TaskFails(a) ==
  /\ task[a].step \in {"TAKEN", "INSPECTED", "NAMESPACE"}
  /\ Finish(a, "FAILURE")
  /\ UNCHANGED <<tenant, target, admitted, requests, faults>>

\* verifyTenantNamespaceOwnership, then the Namespace and what lives in it.
ApplyNamespace(a) ==
  LET k == task[a] IN
  /\ k.step = "TAKEN" /\ k.action # "DELETE"
  /\ InTime(a)
  /\ target[k.tenant].namespace = "PRESENT"
       \/ (target[k.tenant].namespace = "ABSENT" /\ k.action = "PROVISION")
  /\ target' = [target EXCEPT ![k.tenant].namespace = "PRESENT", ![k.tenant].digest = k.digest]
  /\ Advance(a, "NAMESPACE")
  /\ UNCHANGED <<tenant, admitted, requests, faults>>

\* The Schedule, then the read-back of everything applied.
ApplySchedule(a) ==
  LET k == task[a]  x == target[k.tenant] IN
  /\ k.step = "NAMESPACE" /\ k.action # "DELETE"
  /\ InTime(a)
  /\ target' = [target EXCEPT ![k.tenant].schedule = k.digest]
  /\ Finish(a, IF x.namespace = "PRESENT" /\ x.digest = k.digest THEN "SUCCESS" ELSE "FAILURE")
  /\ UNCHANGED <<tenant, admitted, requests, faults>>

\* deleteTenantResources reads both objects before it deletes either.
InspectDelete(a) ==
  LET k == task[a]  x == target[k.tenant] IN
  /\ k.step = "TAKEN" /\ k.action = "DELETE"
  /\ InTime(a)
  /\ task' = [task EXCEPT ![a].step = "INSPECTED",
                          ![a].sawNamespace = x.namespace # "ABSENT",
                          ![a].sawSchedule = x.schedule # NoDigest]
  /\ UNCHANGED <<tenant, target, admitted, requests, faults>>

\* The Schedule first; one that is held by a finalizer ends the attempt.
DeleteSchedule(a) ==
  LET k == task[a] IN
  /\ k.step = "INSPECTED"
  /\ InTime(a)
  /\ \/ /\ target' = IF k.sawSchedule THEN [target EXCEPT ![k.tenant].schedule = NoDigest] ELSE target
        /\ Advance(a, "NAMESPACE") /\ UNCHANGED faults
     \/ /\ k.sawSchedule /\ Fault
        /\ Finish(a, "PENDING") /\ UNCHANGED target
  /\ UNCHANGED <<tenant, admitted, requests>>

\* Mutant: an accepted deletion request counts as a deletion.
DeleteNamespaceUnverified(a) ==
  LET k == task[a] IN
  /\ k.step = "NAMESPACE" /\ k.action = "DELETE"
  /\ InTime(a)
  /\ target' = IF k.sawNamespace THEN [target EXCEPT ![k.tenant].namespace = "TERMINATING"] ELSE target
  /\ Finish(a, "SUCCESS")
  /\ UNCHANGED <<tenant, admitted, requests, faults>>

\* The deletion of the Namespace is requested and its absence looked for.  The
\* delete is complete only when it is gone; while it terminates the attempt is
\* pending (and another one that finds it terminating is a delay we bound).
DeleteNamespace(a) ==
  LET k == task[a]  x == target[k.tenant] IN
  /\ k.step = "NAMESPACE" /\ k.action = "DELETE"
  /\ InTime(a)
  /\ \/ /\ k.sawNamespace => x.namespace # "TERMINATING"
        /\ target' = IF k.sawNamespace THEN [target EXCEPT ![k.tenant].namespace = "ABSENT", ![k.tenant].digest = NoDigest]
                     ELSE target
        /\ Finish(a, "SUCCESS") /\ UNCHANGED faults
     \/ /\ k.sawNamespace /\ x.namespace = "PRESENT"
        /\ target' = [target EXCEPT ![k.tenant].namespace = "TERMINATING"]
        /\ Finish(a, "PENDING") /\ UNCHANGED faults
     \/ /\ k.sawNamespace /\ x.namespace = "TERMINATING" /\ Fault
        /\ Finish(a, "PENDING") /\ UNCHANGED target
  /\ UNCHANGED <<tenant, admitted, requests>>

AgentStep(a) ==
  \/ ApplyNamespace(a) \/ ApplySchedule(a)
  \/ InspectDelete(a) \/ DeleteSchedule(a) \/ DeleteNamespace(a)
  \/ TaskFails(a)

-----------------------------------------------------------------------------
(* The environment. *)

\* Kubernetes finishes a namespace that terminates; its contents go with it.
NamespaceGone(t) ==
  /\ target[t].namespace = "TERMINATING"
  /\ target' = [target EXCEPT ![t].namespace = "ABSENT", ![t].digest = NoDigest]
  /\ UNCHANGED <<tenant, task, admitted, requests, faults>>

\* Nobody executes the task under its last token any more.
Abandoned(t) ==
  \A a \in Agents : ~(task[a].step # "IDLE" /\ task[a].tenant = t /\ task[a].fence = tenant[t].fence)

\* Ten minutes pass: on a task nobody executes, or (a fault) under the agent.
LeaseExpires(t) ==
  /\ tenant[t].lease = "LIVE"
  /\ \/ Abandoned(t) /\ UNCHANGED faults
     \/ ~Abandoned(t) /\ Fault
  /\ tenant' = [tenant EXCEPT ![t].lease = "EXPIRED"]
  /\ UNCHANGED <<target, task, admitted, requests>>

\* The agent restarts, loses the answer that carried the task, or its result is
\* lost or refused because the cluster is no longer admitted.
AgentCrash(a) ==
  /\ task[a].step # "IDLE"
  /\ Fault
  /\ task' = [task EXCEPT ![a] = NoTask]
  /\ UNCHANGED <<tenant, target, admitted, requests>>

HeartbeatLost ==
  /\ admitted /\ Fault
  /\ admitted' = FALSE
  /\ UNCHANGED <<tenant, target, task, requests>>

HeartbeatFresh ==
  /\ ~admitted
  /\ admitted' = TRUE
  /\ UNCHANGED <<tenant, target, task, requests, faults>>

\* The checkpoint bound to the owner operation expires, is revoked, or the
\* cluster's inventory digest moves on.  Nothing reads it once the delete runs.
RecoveryInvalidated(t) ==
  /\ tenant[t].op \in {"AWAITING_APPROVAL", "QUEUED"}
  /\ tenant[t].recovery /\ Fault
  /\ tenant' = [tenant EXCEPT ![t].recovery = FALSE]
  /\ UNCHANGED <<target, task, admitted, requests>>

\* A hub release raises CurrentTenantRuntimeContractVersion.
ContractRaised ==
  /\ \E t \in Tenants : tenant[t].current
  /\ Fault
  /\ tenant' = [t \in Tenants |-> [tenant[t] EXCEPT !.current = FALSE]]
  /\ UNCHANGED <<target, task, admitted, requests>>

Init ==
  /\ tenant = [t \in Tenants |-> NoTenant]
  /\ target = [t \in Tenants |-> [namespace |-> "ABSENT", digest |-> NoDigest, schedule |-> NoDigest]]
  /\ task = [a \in Agents |-> NoTask]
  /\ admitted = TRUE
  /\ requests = [t \in Tenants |-> 0] /\ faults = 0

ClientRequest(t) ==
  \/ CreateTenant(t)
  \/ \E p \in Plans : QueueTenantResize(t, p)
  \/ QueueTenantSuspend(t) \/ QueueTenantResume(t) \/ QueueTenantDelete(t)
  \/ QueueTenantDeleteFails(t) \/ QueueTenantRetry(t)
  \/ ApproveTenantAction(t)
  \/ ApproveOperationAndQueue(t) \/ RequestOperationCancellation(t)

Environment(t) == NamespaceGone(t) \/ LeaseExpires(t) \/ RecoveryInvalidated(t)

Next ==
  \/ \E t \in Tenants : ClientRequest(t) \/ Environment(t)
  \/ \E a \in Agents : \/ \E t \in Tenants : NextTenantTask(a, t)
                       \/ AgentStep(a) \/ ReportTenantTask(a) \/ AgentCrash(a)
  \/ HeartbeatLost \/ HeartbeatFresh \/ ContractRaised

\* The agent's task lane polls, works and reports; heartbeats resume; time and
\* the namespace controller go on.  Clients owe nothing.
Fairness ==
  /\ \A a \in Agents : /\ WF_vars(\E t \in Tenants : NextTenantTask(a, t))
                       /\ WF_vars(AgentStep(a))
                       /\ WF_vars(ReportTenantTask(a))
  /\ \A t \in Tenants : /\ WF_vars(Abandoned(t) /\ LeaseExpires(t))
                        /\ WF_vars(NamespaceGone(t))
  /\ WF_vars(HeartbeatFresh)

Spec == Init /\ [][Next]_vars

FairSpec == Spec /\ Fairness

-----------------------------------------------------------------------------
(* Properties. *)

TenantRecord ==
  [state : QueuedStates \cup ExecutingStates \cup RestingStates,
   action : Actions \cup {""}, plan : Plans \cup {NoPlan}, pending : Plans \cup {NoPlan},
   revision : Nat, fence : Nat, lease : {"NONE", "LIVE", "EXPIRED"}, current : BOOLEAN,
   op : OwnerOpStates, recovery : BOOLEAN]

TargetRecord ==
  [namespace : {"ABSENT", "PRESENT", "TERMINATING"},
   digest : Digests, schedule : Digests]

TaskRecord ==
  [tenant : Tenants \cup {0}, revision : Nat, fence : Nat, action : Actions \cup {""},
   digest : Digests, step : {"IDLE", "TAKEN", "INSPECTED", "NAMESPACE", "DONE"},
   sawNamespace : BOOLEAN, sawSchedule : BOOLEAN,
   outcome : {"NONE", "SUCCESS", "FAILURE", "PENDING"}]

\* The records of tenants, targets and agents have their types.
TypeOK ==
  /\ tenant \in [Tenants -> TenantRecord]
  /\ target \in [Tenants -> TargetRecord]
  /\ task \in [Agents -> TaskRecord]
  /\ admitted \in BOOLEAN
  /\ requests \in [Tenants -> Nat] /\ faults \in 0..MaxFaults

\* The queue keeps the promises of agent_task_fencing.go for every tenant: a
\* live lease is not reissued, an expired one only under a larger token, an
\* expired delete never, and a result counts only under a live lease.
Lease == INSTANCE FencedLease WITH
  Tasks <- Tenants,
  token <- [t \in Tenants |-> tenant[t].fence],
  holder <- [t \in Tenants |-> IF tenant[t].lease = "EXPIRED" THEN "LAPSED" ELSE tenant[t].lease],
  destructive <- [t \in Tenants |-> tenant[t].state = "DELETING" /\ tenant[t].lease # "NONE"]

ImplementsFencedLease == Lease!Spec

\* What the hub says of a tenant at rest is what the cluster holds: an ACTIVE
\* tenant has its namespace and its schedule at the desired digest of its plan,
\* a SUSPENDED one at the suspended digest, however many agents, lapsed leases
\* and half-done attempts it went through.
AcceptedIsApplied ==
  \A t \in Tenants :
    LET wanted == <<tenant[t].plan, tenant[t].state = "SUSPENDED">> IN
    tenant[t].state \in {"ACTIVE", "RESIZE_APPROVAL", "SUSPENDED"} =>
      target[t] = [namespace |-> "PRESENT", digest |-> wanted, schedule |-> wanted]

\* A DELETED tenant has left neither a namespace nor a backup schedule behind,
\* and no agent puts them back later (deleteTenantResources, ReportTenantTask).
DeletedLeavesNothing ==
  \A t \in Tenants : tenant[t].state = "DELETED" =>
    target[t].namespace = "ABSENT" /\ target[t].schedule = NoDigest

\* The tenant and its owner operation tell the same story: the operation runs
\* only while the tenant is being deleted, it succeeded exactly when the tenant
\* is gone, and a tenant whose delete failed has no operation that could still run.
OperationMirrorsTenant ==
  \A t \in Tenants :
    /\ tenant[t].op \in {"RUNNING", "CANCEL_REQUESTED"} => tenant[t].state = "DELETING"
    /\ tenant[t].op = "SUCCEEDED" <=> tenant[t].state = "DELETED"
    /\ tenant[t].state = "FAILED" => tenant[t].op \in {"NONE", "FAILED", "CANCELLED"}

\* A delete the queue can neither hand out nor fail: its operation was
\* cancelled through the operation API or by a failed attempt to supersede it, or its
\* checkpoint is no longer valid.
Blocked(t) ==
  \/ tenant[t].state = "DELETE_QUEUED" /\ ~StartableOp(tenant[t])
  \/ tenant[t].state = "DELETING" /\ ~FinishableOp(tenant[t])

Working(t) == tenant[t].state \in QueuedStates \cup ExecutingStates

\* Work that was queued comes to an end, unless a blocked delete stands before
\* it: the queue's only way to starve (NextTenantTask considers one tenant).
QueueDrains ==
  \A t \in Tenants : Working(t) ~> (~Working(t) \/ \E u \in Tenants : u <= t /\ Blocked(u))
=============================================================================
