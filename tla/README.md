# Verification of the 4SO platform factory control plane

TLA+ models, TLC configurations and TLAPS proofs for the durable authority of the
4SO platform factory (`src/`). The program is a Go control plane: an HTTP API and a
set of workers and target-cluster agents that act on external systems (Kubernetes,
OKD, GitOps, notification endpoints) and keep everything they decide in one
authority store. Correctness rests on that store: which process may act, how often,
in which order, and what is left when one of them stops half-way.

## 1. The system

### Components, their state and operations

| Component | State | Operations | Interaction |
|---|---|---|---|
| Operation authority (`internal/controlplane`: `memory_store.go`, `operation_retry.go`, `compensation.go`, `operation_trace.go`, `operation_unknown_recovery.go`, `state_machine.go`) | Operation record (state, revision, lease owner and deadline, fence token, attempt, next attempt, failure class), compensation step rows, sealed evidence | create, transition, plan, approve, claim, renew, release, start, verify, fail, complete, cancel, acknowledge, resolve an unknown outcome, roll back step by step | Every API handler, worker and agent goes through it; one mutex (or one serializable transaction) per call |
| Operation admission (`operation_request_payload.go`, `createOperationLocked`) | idempotency keys, sealed request payloads, operations per target | create (four forms), approve | check-then-create under one lock, replay of a key |
| File-backed store (`file_store.go`, `internal/durablefile`) | the whole snapshot in memory and in one file | every mutator of the memory store, wrapped | writeMu across disk I/O; readers bypass it |
| PostgreSQL authority (`internal/persistence`) | the same rows in SQL | the same methods in SERIALIZABLE transactions with row locks | repeats the guards of the memory store |
| Application deployment (`api/application_deployment_runtime.go`, `cmd/platform-agent`) | one exclusive operation per environment binding | request, approve, dispatch to an agent, report, recover by readback | agent polls over HTTP; reports may be late, lost or repeated |
| Managed OKD install (`api/managed_okd_install.go`, `internal/managedinstall`) | operation whose evidence is the list of finished steps | list, claim, execute under a heartbeat, seal, release, verify, complete | replicas share one worker identity; one step an iteration |
| Dapr, OpenChoreo lifecycle; support bundles; workload logs | operations of their kinds | as above | as above |
| Outbox and notification delivery (`memory_store.go`, `notification_store.go`, `internal/notification`) | events and deliveries with claims and deadlines | claim a batch, publish, deliver, retry | at-least-once, fenced publication |
| Agent task queues (`agent_task_fencing.go` and the baseline, tenant, provider, certification stores) | records with a ten-minute lease and a token; for destructive work an owner operation | request, approve, next task, report result | agents crash, overlap and report late; the operation API reaches the owner operation too |
| Fleet upgrade campaigns, cluster maintenance | waves, gates, operations written directly | start, advance, pause, abort | build on operations and agent tasks |
| Recovery checkpoints, data protection | verified checkpoints with inventory digests | verify, expire, schedule | gate destructive operations |
| Cluster import, agent certificates, identity, tokens, service accounts | enrollment generations, credentials, memberships | enroll, rotate, revoke | revision-checked rows |
| Catalog, blueprints, templates, governance | immutable digested documents | publish, validate | pure validation |
| Installer, bootstrap, host deployment, lifecycle, disaster recovery | journals of sequential external steps | run, resume | external tools |
| Console, CLI, SDK, providers | none of their own | clients of the API | HTTP |

### What is hard

* Workers, agents, operators and the clock act in any order. A worker may be
  suspended past its lease and wake up with an owner and token that still match.
* Every caller acts on a record it read earlier; only the revision protects it.
* Operations fail half-way, are retried, cancelled, rolled back and recovered, and
  these paths cross: a cancellation meets a retry, a rollback meets a late failure.
* Compensation is itself a leased, retried, multi-step execution.
* Several replicas or agents work on one thing at once, and how a takeover ends
  depends on tokens that each of them compares at its own moment.
* Two records must agree: a tenant and its owner operation, an outbox event and its
  notification, evidence and the state it justifies.
* The file-backed store changes memory first and the disk second, and each of the
  disk's steps can fail or be the last one before a power loss.

`PROJECT.json` lists the hazards one by one with their source lines and the
properties that cover them; those without a property say why.

The commit does not compile as it stands (`file_store.go:343-344` calls
`saveLocked` and `RestoreSnapshot`, `operation_unknown_recovery.go:124` calls
`normalizeUnknownOutcomeResolution`, and none of them exists; the first method is
modelled like every other mutator, which use `persist` and `Restore`, the second as
accepting the resolutions its callers build). Go's reading of the source is otherwise
unambiguous and the models follow it.

## 2. The modules

| Module | Models | Run by | Proofs |
|---|---|---|---|
| `OperationEngine` | the operation authority, its workers and clients | `MCOperationEngine` | `OperationEngineProofs` |
| `ApplicationDeployment` | rolling one environment binding out to one cluster: clients, hub handlers, agent, API server | `MCApplicationDeployment` | `ApplicationDeploymentProofs`, `DeploymentExecutionProofs`, `DeploymentTargetProofs` |
| `ManagedInstall` | the install worker's replicas; extends `OperationEngine` | `MCManagedInstall` | `ManagedInstallProofs` |
| `FencedLease` | abstract: what `agent_task_fencing.go` promises of every agent task | (as a property) | |
| `TenantQueue` | tenants of a cluster, owner operations, task queue, agents, target objects | `MCTenantQueue` | `TenantQueueProofs` |
| `Notifications` | outbox, routing, deliveries and the dispatchers | `MCNotifications` | `NotificationsProofs` |
| `FileStore` | the file-backed store with failures and crashes | `MCFileStore` | `FileStoreProofs` |

`ManagedInstall` composes two components: every change it makes to the operation is
an action of `OperationEngine`. `TenantQueue` implements `FencedLease` by the
refinement mapping `Lease`.

### OperationEngine

One Operation record, any number of worker processes and API clients. A store method
runs under `MemoryStore.mu`, so one method is one action; a call that returns an
error and changes nothing is not a step. Of the engine's methods only
`ClaimNextOperationCompensationStep` changes something and returns an error (it hands
a MANUAL step to the operator), and that is a step here. Methods of other components
do so too; see `TenantQueue` and `FileStore`. Audit and outbox rows written by a method
are part of the same critical section and carry nothing the properties look at.

* *What callers know.* `seen[c]` is the revision of the record the caller last got,
  `claim[w]` the token of the worker's last claim. They go stale and are used anyway.
* *Identities.* `NameOf` maps processes to worker identities. Replicas of one worker
  may share an identity, as the managed OKD install worker does; the theorems that
  need distinct identities say so.
* *Time.* A deadline is `LIVE`/`WAITING` until it passes, at any moment; so every
  lease length, every backoff and every scheduling delay is covered. The store
  compares deadlines with its own clock; `ClaimOperation` and `RenewOperationLease`
  use the time the caller passes, which is the same machine's clock in every caller.
* *Failure classes.* `TRANSIENT` stands for the three classes that every retry policy
  retries.
* *Evidence.* A payload is its digest. Trace rows of FORWARD steps are not kept: no
  guard reads them. Evidence of COMPENSATION steps is, since completion requires it.
* *Checkpoint.* `validateDestructiveRecoveryLocked` is one bit that the environment
  may flip: expiry, revocation and inventory drift look alike to the guard.

PostgresStore makes the same decisions in `postgres_operation_retry.go`,
`postgres_compensation.go` and `postgres_store.go` inside serializable transactions
with `FOR UPDATE`; the model is mapped to the memory store, which is the reference.

### ApplicationDeployment

One `EnvironmentBinding` on one managed cluster, and all the operations ever created
for it. The operation records follow the same store methods as `OperationEngine`,
reduced to what this path uses (class MUTATING, budget 3, no compensation plan).

* *Clients.* A create call reads the authority (`BuildRequest`) and seals the request
  later (`CreateExclusiveOperation`); an approve call validates and then queues. They
  also cancel, promote the binding and revoke its workspace. The last two check for
  a blocking operation under the store's lock, so each is one step.
* *Hub.* `nextApplicationDeploymentTask` makes five store calls in a row (list, claim,
  read, start, perhaps fail) with a validation between them; `calls[h]` is where one
  call stands. Several may run, because the agent's HTTP client gives up and polls
  again while the first is still being served. A success report is validated and
  committed in two steps. A restart of the hub drops all calls, not the store.
* *Agent.* `runApplicationDeployment` step by step: read, create or conditional apply,
  readback, the same for the Service or its removal, observation, report. It may
  restart at any point; a report may be lost.
* *API server (external).* A mutation request waits in `wire` until it is decided,
  perhaps after the agent has given up; the answer may be lost. A create needs a free
  name, an apply or delete the resourceVersion it names. Another owner may take a
  name.

An object's content is the binding revision and the runtime choice its authority
digests pin; the revision also stands for the release. Every call of a cluster's
agent has one worker identity, so a claim is refused only by the operation's state,
never by a live lease. Left out: replays of idempotency keys (no change), the rule
that the approver is not the requester, read errors of the recovery lane (they report
nothing and look like `AgentRestarts`), and the generic executor routes, which no
shipped agent calls for this kind of operation. So nobody acknowledges a cancelled
execution: it stays `CANCEL_REQUESTED` and fences the binding.

### ManagedInstall

One install operation, as `createManagedOKDInstall` leaves it, the clients that read,
approve and cancel it, and the replicas that run `ProcessManagedOKDInstallJobsOnce`.

* *A replica.* `replica[r].at` is the store call it makes next: list, claim, read,
  start, evidence, (execute), read again, seal or report, read again, release or
  verify and complete. Each call is one step, so two replicas interleave between any
  two calls. All have one identity (`managedOKDInstallWorkerID`), hence
  `ClaimOperation` never refuses a replica because of another one's lease, and the
  list shows a QUEUED operation whatever its lease.
* *Steps* are `1..StepCount`; `OrderedStepsFor` chooses among two sequences, both
  ending in COMPLETE. A step's payload is its number, so `evidence` is the set of
  sealed steps. What a step does to the machines is its outcome: success, a
  dependency that is unavailable, an invalid request.
* *Heartbeat.* Renews the lease, and with it the revision, any number of times
  while a step executes; a refused renewal ends the iteration.
* *Faults.* A crash, a failing store call and a renewal cut short by the end of its
  step all end the iteration and leave the lease: `IterationAborted`. A lease runs
  out freely once its holder has gone; under its holder (a claim taken late in a
  batch with the time of the poll, a late heartbeat) it counts as a fault.

Left out: the sealed request that does not parse (the same bytes were parsed when it
was created), and the order in which an iteration goes through several installs, but
for the late claim it causes. Nobody acknowledges a cancelled execution: the install
stays `CANCEL_REQUESTED`.

### TenantQueue and FencedLease

The tenants of one cluster with `tenant_store.go`'s lifecycle (provision, suspend,
resume, resize, delete, retry), the state of the owner operation that authorises a
delete, the agents that poll for work, and for every tenant the Namespace and the
Velero Schedule on the target.

* *Client requests* are made on the current revision; a stale one changes nothing. A
  delete that supersedes a waiting one cancels the old owner operation first; when the
  new one is then refused, the cancellation stays (`QueueTenantDeleteFails`). The
  operation API can approve and cancel the owner operation without the tenant
  knowing, and does here.
* *Queue.* `NextTenantTask` looks at the oldest runnable tenant only. A poll either
  grants it, fails an expired delete, or is refused. The filter on
  `TenantDeleteObservedCapability` (`tenant_store.go:467-469`) is left out: it holds
  deletes back from agents older than this commit, whose own agent always has the
  capability. A task carries revision, token,
  action and desired digest; the agent keeps them.
* *Agent.* `taskExecutionContext` ends with the lease, so a call to the target is made
  only under a live lease (hub and agent are taken to agree on the time). Applying is
  two steps, the namespaced objects and the Schedule, then the read-back; a delete
  reads both objects, deletes the Schedule, then the Namespace, and succeeds only
  when both are gone. Every call may fail.
* *Digest.* A plan and whether pods are quota'd to zero: what `tenantResources`
  renders into the desired digest. Names, quotas and policies follow the plan.
* *Environment.* Crashes and lost results, leases that run out, admission lost with
  the heartbeat, a checkpoint that becomes invalid, a hub release that raises the
  runtime contract version and so requeues every ACTIVE tenant.

`FencedLease` has a token, a holder and a destructive flag per task and four actions:
grant, lapse, settle, give up. A live lease is never granted again, a lapsed
destructive one neither; only a live one settles. `ImplementsFencedLease` is its
specification under the mapping of a tenant's token, lease and state.

### Notifications

Outbox events in the order of `AvailableAt`, the notification and deliveries
`RouteNotificationEvent` makes of an event, destinations, routes, and dispatchers in
the loop of `worker.go`: claim a batch, route and publish event by event, claim the
due deliveries, then one goroutine per delivery (check the destination, post, report).

* *Identity.* `newWorkerID` draws one per process; after a crash the old claims belong
  to `"DEAD"` and only run out.
* *Time.* `ProcessOnce` reads the clock once; the delivery claim may therefore be born
  expired. Claims run out freely when nobody works under them, and as a fault under
  their worker.
* *Routing* matches or not: patterns, severities and scopes are left out. Which events
  are actionable is a constant; the others are published without a notification.
* *Health scan.* A failure that may happen between outbox and deliveries.
* *Endpoint.* Accepts, accepts and the answer is lost (a fault), is unavailable, or
  refuses. `accepted` counts what it accepted.
* *Authority.* `UniqueAttempts` is the PostgreSQL authority's index on the attempts of a
  delivery; the memory and file stores have none.

### FileStore

The contents are the set of applied mutations. `mutate` takes `writeMu`, snapshots,
calls the method of `MemoryStore`, and persists: temporary file, sync, rename,
directory sync, close. Any of these can fail, and then the memory is restored; the
process can die between any two; a power loss keeps either the synced or the renamed
directory entry, and may tear data that was never synced.

A method may return an error, and what that means depends on the method and on its
wrapper:

* `Refuse`: nothing changed, nothing is persisted. Every method can do this.
* `RefuseUnsaved`: the memory changed and `mutate` passes the error on, with neither
  `persist` nor `Restore` (`file_store.go:135-138`). The calls in `Unsaved`:
  `NextTenantTask` and `NextBaselineTask` fail an expired task and find no other,
  `NextProviderClusterTask` likewise (its own wrapper, `provider_file_store.go:84-87`,
  does as `mutate`), `QueueTenantAction` cancels an owner operation
  and is refused its successor.
* `RefuseSaved`: the wrapper persists and returns the error afterwards. The calls in
  `Saved`: `NextClusterMaintenanceTask`, `NextVirtualClusterTask`,
  `ClaimNextOperationCompensationStep`.

The temporary file's removal is left out (nothing reads it), and so are calls that
replay an earlier one. `Restore(before)` is taken to succeed on a snapshot the same
process has just made. `OpenFileStore` refuses a torn file (checksum), so a torn state
file would stop the store for good. It is small enough to be proved for every set of
calls.

## 3. The runs

| Run | Expect | Checks |
|---|---|---|
| `operation_engine` | pass | eleven properties of the engine, about 770 000 distinct states |
| `rollback_row` | violation | `RollbackFollowsItsRow` against `state_machine.go:15` |
| `cancelled_undone` | violation | `CancelledLeavesNothingDone` against `operation_retry.go:307` |
| `reverse_order` | violation | `CompensatesInReverse` against `compensation_test.go:85` |
| `deployment` | pass | control and cluster side: one deployment in flight, execution accounted for and current, settled stays settled, what succeeded stays deployed, foreign objects are untouched; about 1 800 000 distinct states |
| `ambiguity` | violation | `AmbiguityFencesBinding` against `docs/PROGRAM_STATUS.md:36` |
| `managed_install` | pass | crash-resume order, completeness of what succeeded, own revisions, progress; about 170 000 distinct states |
| `tenant_queue` | pass | hub and cluster agree, deletes are complete, tenant and owner operation agree, refinement of `FencedLease`, progress; about 190 000 distinct states |
| `notifications` | pass | publication after routing, routing once, no repeated webhook without a fault, progress; about 68 000 distinct states |
| `file_store` | pass | durability, serving, failure atomicity, and that every call ends; about 17 000 distinct states |
| `failed_mutation` | violation | `FailedIsNeverServed` against `file_store.go:17` |
| `unsaved_refusal` | violation | `ServedSurvivesRestart` against `cluster_maintenance_file_store.go:79` |

**Bounds of `operation_engine`.** Two workers and two clients: every race in the code
is between two holders of something. All three operation classes, hence retry
budgets of 5, 3 and 2. Plans of two steps, once both AUTOMATIC and once MANUAL then
AUTOMATIC: the smallest with an order, and with both outcomes of a rollback. Two
attempts per compensation step: one retry. One operation-level payload, which can be
absent or sealed. Revisions and tokens are unbounded; `EngineView` identifies states
that differ only in *how* stale a stale revision or token is. This loses nothing: a
guard compares a revision only with the current one (or, for a worker that finishes
a VERIFYING operation, with the one before), a token only with the current token,
and neither ever becomes current again. The action properties compare a step's two
ends, which the view keeps apart, because TLC evaluates them on the states and not
on the view.

**Bounds of `deployment`.** Control and cluster together: two operations, two claims of
each (so a retry), two binding revisions, an inventory that grows stale and comes back,
workloads with and without a Service (so that a Service is created, replaced and
removed), a takeover of the Service's name, one dispatch call at a time, which a restart
of the hub may drop at any point. Two operations are enough for every statement about a
deployment and its successor. Two dispatch calls at once, takeovers of both names and the
exhausted budget are beyond what TLC finishes in minutes together with the rest: all
seven properties are proved for any number of handlers, operations, claims and binding
revisions (section 4). The view keeps of every copied revision, token and
resourceVersion whether it is current, and drops reports and conditional writes that can
only be refused; all of these counters only grow, and a guard only compares them with
the current value.

**Bounds of `managed_install`.** Two replicas, two clients, two steps (a first and a
last one), two faults: one for the first replica's iteration and one for the
iteration that resumes it. The MUTATING budget of three attempts is the code's. The
view keeps of tokens and revisions whether they are current.

**Bounds of `tenant_queue`.** Two tenants, because one must wait behind the other; the
older one gets two requests (so delete after suspend, resize, or a superseded delete
happen), the younger one is provisioned. Two agents, because a rollout overlaps them.
Two plans. One fault: together with the second agent it is enough for a takeover, a
lost result, an expired delete, an invalid checkpoint or a reconciliation.

**Bounds of `notifications`.** Two events, one of them actionable, one route, one
destination, two dispatchers, two attempts, three changes of the configuration (two to
set it up, one to disturb it or requeue a delivery), one fault, and the PostgreSQL
authority's index. The safety properties are proved for any number of changes, so the
bound only limits the two liveness properties. The view forgets `accepted` once the property no longer reads it.

**Violations.** Each is a statement of the repository about itself.

1. `rollback_row`: `ReportOperationFailure` accepts `ROLLING_BACK` and sends the
   operation to `RETRY_WAIT` or `FAILED`; forward execution then starts again over
   partly compensated steps, and even a cancelled operation may end `SUCCEEDED`.
   `transitionOperationLocked` would refuse this by the table, but this method does
   not ask it.
2. `cancelled_undone`: `RequestOperationCancellation` is immediate outside execution.
   From `RETRY_WAIT`, `FAILED`, `ROLLBACK_FAILED` or `NEEDS_OPERATOR` it leaves
   completed steps that no later call can compensate, `CANCELLED` being final.
3. `reverse_order`: a compensation step whose worker loses its lease stays `RUNNING`
   under a dead token. The next claimant skips it, compensates earlier steps first,
   and the rollback never reaches `ROLLED_BACK`.
4. `failed_mutation`: a failed directory sync is reported as a failed mutation
   although the renamed file is what the next start reads.
5. `ambiguity`: a deployment whose mutation timed out is `FAILED/UNKNOWN` and fences
   its binding until the recovery lane has read the target back. A cancellation makes
   it `CANCELLED` at once, and the next deployment is admitted while the first one's
   write may still be carried out. `SucceededStaysDeployed` is therefore stated for
   the histories in which no ambiguity was given up this way.
6. `unsaved_refusal`: an agent polls, its expired delete is failed in memory, no other
   task is found, and `mutate` returns `ErrNotFound` without saving. The store serves
   the failure and a restart forgets it. The wrapper of the maintenance queue persists in
   this case and says why; those of the tenant, baseline and provider queues do not. The
   window closes with the next acknowledged mutation, whose snapshot is whole
   (`AcknowledgementSavesAll`), and nothing else is ever served unsaved
   (`ServesWhatItSaved`).

**A deployment that never ends.** If the answer to the dispatch call is lost, or the
agent dies while executing, the operation is `RUNNING`, is listed and claimed again
once its lease has expired, and `StartOperationAttempt` refuses it every time, since it
is not `QUEUED`. `ExecutionIsAccounted` shows the good side (no second execution
over an unknown first one); the binding stays fenced. `DESIGN.md:493` says "Any
ambiguous create/update/delete outcome becomes `FAILED/UNKNOWN`", from where the
recovery lane would take it; this one stays `RUNNING`. To refute it takes a leads-to
under a fairness of agents that the hub cannot count on, so it is recorded as a hazard.

**Seen in the new models, not runs of their own.**

* *A long step is reclaimed.* `docs/MANAGED_OKD_PRODUCTION_RUNTIME_HARDENING_V44.md:39`
  says "Lease heartbeat prevents another worker from reclaiming a legitimate
  long-running step". A replica that listed the operation while it was QUEUED claims
  it later, RUNNING and under a live lease, because both have one identity. In
  `MCManagedInstall`, without any fault, the action property "a replica at EXECUTE
  under a live lease keeps its token" fails. `ResumesAtFirstUnsealed` shows the
  damage is limited to one step executed twice at the same time.
* *A verification that never ends.* `managed_okd_install.go:281` promises bounded crash
  recovery; a replica that dies between `BeginOperationVerification` and
  `CompleteOperation` leaves `VERIFYING`, which `ListClaimableOperationsByKind` never
  lists. `InstallAdvances` therefore ends at `VERIFYING`.
* *A requeued webhook is repeated.* Under the PostgreSQL authority
  `RetryNotificationDelivery` resets the attempt to 0 and migration 0020 forbids a
  second attempt row with the same number: every report is refused until the number
  exceeds the old ones, and the endpoint gets the webhook again after each claim.
  `NoRepostWithoutFault` exempts this case and `DeliveriesSettle` shows it ends. With
  `UniqueAttempts = FALSE` no exemption is needed.
* *A readback that fails is not ambiguous.* `DESIGN.md:493` and `PROGRAM_STATUS.md:36`
  count readback ambiguity after a mutation among the outcomes that become
  `FAILED/UNKNOWN`. `platform-agent/application_deployment.go:185-191` reports a failed
  readback as an ordinary, retryable failure, and so does the model. The mutation had
  been answered by then, so `SucceededStaysDeployed` is not affected.
* *A cancelled owner operation strands its tenant.* Cancelled through the operation
  API, a delete can neither start nor be finished or failed, and being the oldest
  runnable tenant it stops the queue of its cluster (`Blocked` in `QueueDrains`).

**Bounds of `file_store`.** Three calls: one failed, one acknowledged, one in flight
at the moment of a crash; one of them may be refused unsaved, another refused but
saved. Crashes are unlimited.

**Deadlock** is checked in every run but `tenant_queue` and `notifications`, whose
requests, changes and faults are bounded: when they are used up and everything is
settled, nothing is left to do.

**Fairness.** `OperationEngine` and `ApplicationDeployment` state none: all their
properties are safety. `ManagedInstall`: replicas poll and work
(`RunManagedOKDInstallWorker` is a ticker loop), abandoned leases run out, retries
become due; strong fairness of the read and the start after a claim, because two
replicas that both list a QUEUED operation could otherwise rob each other of the claim
for ever, which polls seconds apart and calls milliseconds apart exclude.
`TenantQueue`: agents poll, work and report (each call has a timeout; the lane is a
loop), abandoned leases run out, heartbeats resume, Kubernetes finishes namespaces;
clients owe nothing. `Notifications`: dispatchers work, claims and delays run out.
Faults are bounded in all three, so nothing has to be assumed about their frequency.
`FileStore`
assumes weak fairness of the running goroutine's next step, of a waiting goroutine
taking a free mutex (Go's mutex hands over to a starving waiter; each call is issued
once in the model, so weak fairness is enough) and of the restart of a stopped
process. Under it `EveryCallEnds` says that `writeMu` is released on every path.

## 4. The proofs

### OperationEngineProofs

For every set of workers, identities (shared or not), clients, plans of every length
and every step budget, from `EngineAssumption` only (identities are not the empty
owner, workers are not clients, plans are non-empty sequences of strategies, the
step budget is the 1..10 that plan validation enforces).

The inductive invariant `EngineInv` is the conjunction of the state properties and
what they lean on. No conjunct is inductive alone: the budget of a `RETRY_WAIT` or
`QUEUED` operation needs the schedule invariant and the lease scope (a claim of a
due retry queues it), completeness of rollback needs that compensation touched only
compensatable steps and that a `ROLLING_BACK` operation has some, uniqueness of
tokens needs that no process holds a token above the record's. One lemma per action
group shows which rows a step rewrites (`RowsMove`, `RowChange`, `RowFields`), so the
invariants on compensation rows are proved per row and not per action.

From it: `TypeCorrect`, `BudgetIsRespected`, `LeaseIsScoped`, `RetryIsScheduled`,
`TokensStayUnique`, `RollbackIsComplete`, `CompensationHasEvidence`,
`ForwardProgressIsPrefix`, and the action properties `FinishedIsFinal`,
`RevisionsAdvance`, `ExpiryFreezesExecution`. `DistinctWorkersExclude` proves
`LiveLeaseExcludesOthers` when `NameOf` is injective; with shared identities it is
false, which is the managed OKD worker's hazard.

### TenantQueueProofs

For every number of tenants, agents, plans, requests and faults, from
`TenantAssumption`. The invariant `IInv` adds to `TypeOK`: `WorkIsBound` (an agent
at work has a tenant, and one that is done an outcome), and `RecordInv`, which
ties the fields of one record together: a lease is live or lapsed only in an executing
state, a waiting delete has an operation that has not started, a delete under way has
one that is running or asked to stop. Each action changes at most one tenant
(`TenantsMove`) in one of the ways listed in `RecordMoves`; the invariant is proved once
per way and not once per action. From it: `TenantTypes`, `MirrorHolds` (the tenant and
its owner operation), and `QueueImplementsLease`: the initial states map to initial
states of `FencedLease`, and every step maps to a grant, a lapse, a settlement, a
give-up or a stutter.

What the cluster holds needs the agents as well. `TargetInv` says that no agent has a
token above its tenant's and no two agents of one tenant have the same (`TokensOwn`);
that the work of an agent under the current token and a live lease is the record's
work, and that the target is as far as its step says (`WorkFits`); and what a record at
rest says of the target (`RestKept`). `AcceptedIsApplied` alone is not inductive: a
result is accepted on the strength of a read-back made earlier, so the target must be
known not to have moved since, which is what the uniqueness of the live token gives. An
agent that outlived its lease makes no further call, hence changes nothing
(`AgentKeepsTarget`), and a request, a lapse or a give-up takes the record out of the
states `RestKept` speaks of or leaves plan and state alone (`QuietKeeps`). From it:
`RestIsApplied` (`AcceptedIsApplied`) and `DeletedIsGone` (`DeletedLeavesNothing`).

### FileStoreProofs

For every set of calls. `AcknowledgedIsDurable` is not inductive: the next snapshot
is written from memory and a failure restores `before`, so both must already hold
what was acknowledged. `Pipeline` states what each stage of `persist` holds: beyond the
state file, memory and `before` hold only `Strays`, the calls in `Unsaved` that were
refused. `UnappliedIsNowhere` says that a call nobody applied is in no copy. Together
with `TypeOK` they form `StoreInv`, from which follow `StoreTypes`, `Durability`,
`Serving` (`ServesWhatItSaved`), `FailureIsAtomic` (`FailedStaysOut`: a call whose persist
failed has no effect; of refused calls it says nothing) and `AcknowledgementSavesAll`:
with an acknowledgement the file holds all that is served, the strays included.

### ManagedInstallProofs

For every number of replicas (under one identity or several), install steps and
faults, from `EngineAssumption` and `InstallAssumption`. `InstallInv` is
`EngineInv` and, for every replica, `Knows(r)`: the result it carries, the step it may
seal while it holds the operation, the evidence it has seen, and whether its revision is
current. The argument is rely and guarantee: a store call of one replica leaves every
other one `Undisturbed` (`WorkerDisturbsNobody`), because fence tokens are unique even
under a shared identity, and a client or the clock can only take the lease away or
cancel (`OthersDisturbNobody`); so only the acting replica's knowledge is shown action
by action (`ReplicaSettles`). `NextStepExists` (that some step is found while one is
missing) rests on the library's least-element theorem. From it: `InstallTypes`,
`ResumeIsOrdered`, `SuccessIsComplete`, `HeartbeatIsHarmless`, and
`InstallRefinesEngine`: every step of the install worker is a step of `OperationEngine`
or leaves the operation alone, and `EngineInv` holds throughout.

### NotificationsProofs

For every number of events, routes, destinations, dispatchers and attempts, for both
authorities, from `NotificationAssumption`. Each event, delivery and dispatcher makes
one of a few moves (`EventMove`, `DeliveryMove`, `WorkerMove`), and the invariant is
shown of the moves. `PublishedIsRouted` is not inductive: it needs that a dispatcher
whose head event is marked routed has its notification (`WorkerInv`). `RoutedOnce`
needs that a delivery exists only for a routed event and that one that succeeded has no
claim and no delay left (`DeliveryInv`). Theorems: `NotificationTypes`,
`PublishingFollowsRouting`, `RoutingIsOnce`.

`AcceptedIsNotReposted` (`NoRepostWithoutFault`) needs what holds between the post and
its report: as long as no fault happened, a dispatcher that has a delivery in hand is
the owner of its claim, which still runs (`Held`), and what was accepted is either
recorded as succeeded or in the hand of the one dispatcher that posted it
(`PostedOnce`). `FlowInv` adds this to `NotificationInv`; each step before the first
fault is one of the moves of `QuietMove`.

### ApplicationDeploymentProofs, DeploymentExecutionProofs, DeploymentTargetProofs

For every number of clients, handlers, operations, claims and binding revisions, from
`DeploymentAssumption`. A step appends an operation while the target is free or rewrites
one record in one of the ways of `Rewrites`, whoever takes it and however stale its
task is; no rewriting makes a settled record fence its binding again. From that,
`RecordsTyped` and the types of calls, agent, reports and wire: `DeploymentTypes`
(`TypeOK`), `DeploymentsExclude` (`OneDeploymentInFlight`) and `SettlingIsFinal`
(`SettledStaysSettled`).

`ClusterInv` says that a conditional request names a version that was given out, and
one under which the object was the binding's: versions only grow, so a foreign write
makes every request on its way fail its precondition. This gives `ForeignObjectsSafe`
(`ForeignIsUntouched`).

`ExecutionIsAccounted` is about the agent and the store, which never look at each other:
`HandInv` says that whoever holds a started attempt (a call about to respond or to
refuse, or the agent) holds one whose operation is still in hand and whose revision is
not below its task's, that an operation has at most one such holder, and that no report
and no refusal carries a revision from the future. A report concludes an operation only
at the revision it names, and the holder's is the newest. `ExecutesCurrentBinding`
needs in addition `DispatchInv`: authority is validated while the operation blocks
promotions and revocations, and it blocks them until the attempt is concluded; once it
no longer blocks it never does again, so nothing is claimed of it. From them:
`ExecutionAccounted`, `ExecutionIsCurrent`.

`SucceededStaysDeployed` is far from inductive: a success is committed several steps
after the agent observed the target, and requests of earlier attempts may be decided in
between. `DeploymentTargetProofs` strengthens it to `PlanInv /\ (GivenUp \/ QuietInv)`.
`PlanInv` holds always: a request carries what its operation's plan renders, and only
the last operation fences the binding. `QuietInv` holds until an ambiguity is given up
(`GivenUp`: an operation `CANCELLED` with failure `UNKNOWN`, the state
`NoAmbiguityLeft` excludes). It calls an undecided request *harmless* if deciding it
leaves the objects as they are, and says:

- `WireInv`: at most one request is not harmless, and its operation is in hand or
  `FAILED/UNKNOWN`;
- `HandsInv`: every request is harmless when an attempt begins, while the agent works
  (but for the request it waits for), and when an attempt is about to be concluded as
  failed or succeeded;
- `SeenInv`: what the agent observed, what a success report or a confirmation that can
  still be applied says, and what the last deployment rendered if it succeeded, still
  holds on the cluster.

The step proof separates the parties. `OutcomesStep` says what a step makes of an
operation record, `WorksStep` what the agent may know when it moves on. A step then
either sends a request (`SentStep`), or lands the one open request (`LandedStep`), or
leaves the cluster offering nothing new (`ClusterKept`; `KeptWire`, `KeptHands`,
`KeptSeen`). The read-back of the recovery lane closes the argument: an open request
that would change an object the agent has just found matching does not exist
(`MatchedIsHarmless`). From it: `QuietInvariant`, `SuccessStays`.

### Model-checked only

Liveness (`EveryCallEnds`, `InstallAdvances`, `QueueDrains`, `OutboxDrains`,
`DeliveriesSettle`) is out of the prover's reach. The six violations are TLC
counterexamples. Every invariant and every other action property of a passing run is
proved for every value of the constants.

## 5. Not modelled, and the plan

Not modelled: SQL and transaction isolation, HTTP decoding, authorisation of a
request (an API client of the model is one that passed it), rendering, the external
systems themselves, and the components marked `not_modelled` in `PROJECT.json`. Most of
the repository's lines are of these kinds: validation of documents, rendering of
manifests, SQL, HTTP handlers, CLI and console, sequential drivers of external tools.

Next, in this order:

1. The other agent queues (baseline, provider, virtual cluster, data protection) as
   further implementations of `FencedLease`.
2. Fleet upgrade campaigns and cluster maintenance: waves, gates, operations that
   are written past the engine's methods.
3. Idempotency keys of operation creation, in `ApplicationDeployment` or apart.
