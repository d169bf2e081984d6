-------------------------- MODULE TenantQueueProofs --------------------------
(***************************************************************************)
(* TLAPS proofs about TenantQueue, for every number of tenants, every set  *)
(* of plans and agents, and any number of requests and faults.             *)
(***************************************************************************)
EXTENDS TenantQueue, TLAPS

-----------------------------------------------------------------------------
(* What one step may do to the record of a tenant: the only facts about the *)
(* actions that the invariants over records need.                          *)

\* An agent at work has a tenant, and an agent that is done an outcome.
WorkIsBound ==
  \A a \in Agents :
    /\ task[a].step # "IDLE" => task[a].tenant \in Tenants
    /\ task[a].step = "DONE" => task[a].outcome # "NONE"

\* A tenant that was never created has no grant and no operation.
Blank(r) == r.op = "NONE" /\ r.lease = "NONE" /\ r.fence = 0

SameLease(r, s) == s.lease = r.lease /\ s.fence = r.fence
SamePlan(r, s)  == s.plan = r.plan /\ s.pending = r.pending

Asked(r, s) ==
  /\ SameLease(r, s)
  /\ r.state \notin ExecutingStates /\ r.state # "DELETED"
  /\ s.state \notin ExecutingStates \cup {"NONE", "ACTIVE", "SUSPENDED", "FAILED", "DELETED"}
  /\ s.state = "RESIZE_APPROVAL" => r.state = "ACTIVE" /\ s.plan = r.plan
  /\ \/ /\ r.state \in {"NONE", "ACTIVE", "SUSPENDED", "FAILED", "RESIZE_APPROVAL"}
        /\ s.op = r.op
     \/ s.state = "DELETE_APPROVAL" /\ s.op = "AWAITING_APPROVAL"
     \/ s.state = "DELETE_QUEUED" /\ s.op = "QUEUED"

\* The operation API, and a delete that fails to supersede another one, touch the
\* operation alone.
Governed(r, s) ==
  /\ SameLease(r, s) /\ SamePlan(r, s) /\ s.state = r.state
  /\ \/ r.op = "AWAITING_APPROVAL" /\ s.op = "QUEUED"
     \/ r.op = "RUNNING" /\ s.op = "CANCEL_REQUESTED"
     \/ r.op \in {"AWAITING_APPROVAL", "QUEUED", "FAILED"} /\ s.op = "CANCELLED"
     \/ r.state \in {"DELETE_APPROVAL", "DELETE_QUEUED"} /\ s.op = "CANCELLED"

Handed(r, s) ==
  /\ Runnable(r) /\ ~ExpiredDelete(r)
  /\ s.lease = "LIVE" /\ s.fence = r.fence + 1
  /\ SamePlan(r, s) /\ s.state = ExecutingState(r.state)
  /\ \/ r.state = "DELETE_QUEUED" /\ s.op = "RUNNING"
     \/ r.state # "DELETE_QUEUED" /\ s.op = r.op

GivenUp(r, s) ==
  /\ Runnable(r) /\ ExpiredDelete(r)
  /\ s.lease = "NONE" /\ s.fence = r.fence
  /\ s.state = "FAILED" /\ s.op = "FAILED"

Settled(r, s) ==
  /\ r.lease = "LIVE" /\ r.state \in ExecutingStates
  /\ s.lease = "NONE" /\ s.fence = r.fence
  /\ \/ s.state = r.state /\ s.op = r.op
     \/ r.state = "DELETING" /\ s.state = "FAILED" /\ s.op = "FAILED"
     \/ r.state = "DELETING" /\ s.state = "DELETED" /\ s.op = "SUCCEEDED"
     \/ r.state # "DELETING" /\ s.state \in {"FAILED", "ACTIVE", "SUSPENDED"} /\ s.op = r.op

Lapsed(r, s) ==
  /\ r.lease = "LIVE" /\ s.lease = "EXPIRED" /\ s.fence = r.fence
  /\ SamePlan(r, s) /\ s.state = r.state /\ s.op = r.op

Aside(r, s) == SameLease(r, s) /\ SamePlan(r, s) /\ s.state = r.state /\ s.op = r.op

\* The moves that neither give a task out nor take a result.
QuietMoves(r, s) == Asked(r, s) \/ Governed(r, s) \/ GivenUp(r, s) \/ Lapsed(r, s) \/ Aside(r, s)

RecordMoves(r, s) == QuietMoves(r, s) \/ Handed(r, s) \/ Settled(r, s)

\* One tenant moves; the others keep their lease, state, plans and operation.
TenantsMove ==
  /\ tenant' \in [Tenants -> TenantRecord]
  /\ \E t \in Tenants : /\ RecordMoves(tenant[t], tenant'[t])
                        /\ \A u \in Tenants : u # t => Aside(tenant[u], tenant'[u])

TenantsQuiet ==
  /\ tenant' \in [Tenants -> TenantRecord]
  /\ \E t \in Tenants : /\ QuietMoves(tenant[t], tenant'[t])
                        /\ \A u \in Tenants : u # t => Aside(tenant[u], tenant'[u])

\* The record a commit leaves.
LEMMA Committed ==
  ASSUME tenant \in [Tenants -> TenantRecord],
         NEW t \in Tenants, NEW r \in TenantRecord, Commit(t, r),
         RecordMoves(tenant[t], r)
  PROVE  TenantsMove /\ (QuietMoves(tenant[t], r) => TenantsQuiet)
<1> DEFINE s == [r EXCEPT !.revision = tenant[t].revision + 1]
<1>1. tenant[t].revision + 1 \in Nat
  <2>1. tenant[t] \in TenantRecord
    OBVIOUS
  <2>2. tenant[t].revision \in Nat
    BY <2>1, Zenon DEF TenantRecord
  <2>3. QED
    BY <2>2
<1>2. s \in TenantRecord
  BY <1>1, Zenon DEF TenantRecord
<1>3. /\ s.state = r.state /\ s.op = r.op /\ s.lease = r.lease /\ s.fence = r.fence
      /\ s.plan = r.plan /\ s.pending = r.pending
  BY Zenon DEF TenantRecord
<1>4. tenant' = [tenant EXCEPT ![t] = s]
  BY DEF Commit
<1> HIDE DEF s
<1>5. tenant' \in [Tenants -> TenantRecord] /\ tenant'[t] = s
      /\ \A u \in Tenants : u # t => tenant'[u] = tenant[u]
  BY <1>2, <1>4
<1>6. RecordMoves(tenant[t], s) /\ (QuietMoves(tenant[t], r) => QuietMoves(tenant[t], s))
  BY <1>3 DEF RecordMoves, QuietMoves, Asked, Governed, Handed, GivenUp, Settled, Lapsed, Aside, SameLease, SamePlan
<1>7. \A u \in Tenants : u # t => Aside(tenant[u], tenant'[u])
  BY <1>5 DEF Aside, SameLease, SamePlan
<1>8. QED
  BY <1>5, <1>6, <1>7 DEF TenantsMove, TenantsQuiet

\* The requests of the clients.
LEMMA RequestMoves ==
  ASSUME tenant \in [Tenants -> TenantRecord], NEW t \in Tenants,
         \/ \E p \in Plans : QueueTenantResize(t, p)
         \/ QueueTenantSuspend(t) \/ QueueTenantResume(t)
         \/ QueueTenantDelete(t) \/ QueueTenantRetry(t)
  PROVE  TenantsQuiet
<1> DEFINE r == tenant[t]
<1>0. r \in TenantRecord
  OBVIOUS
<1>1. ASSUME NEW p \in Plans, QueueTenantResize(t, p) PROVE TenantsQuiet
  <2> DEFINE s == [r EXCEPT !.state = "RESIZE_APPROVAL", !.action = "RESIZE", !.pending = p]
  <2>1. s \in TenantRecord /\ s.state = "RESIZE_APPROVAL" /\ s.op = r.op /\ s.plan = r.plan /\ SameLease(r, s)
    BY <1>0 DEF TenantRecord, RestingStates, Actions, SameLease
  <2>2. r.state = "ACTIVE" /\ Commit(t, s)
    BY <1>1 DEF QueueTenantResize
  <2> HIDE DEF s
  <2>3. QuietMoves(r, s)
    BY <2>1, <2>2 DEF QuietMoves, Asked, ExecutingStates
  <2>4. QED
    BY <2>1, <2>2, <2>3, Committed DEF RecordMoves
<1>2. CASE QueueTenantSuspend(t)
  <2> DEFINE s == [r EXCEPT !.state = "SUSPEND_QUEUED", !.action = "SUSPEND"]
  <2>1. s \in TenantRecord /\ s.state = "SUSPEND_QUEUED" /\ s.op = r.op /\ SameLease(r, s)
    BY <1>0 DEF TenantRecord, QueuedStates, Actions, SameLease
  <2>2. r.state = "ACTIVE" /\ Commit(t, s)
    BY <1>2 DEF QueueTenantSuspend
  <2> HIDE DEF s
  <2>3. QuietMoves(r, s)
    BY <2>1, <2>2 DEF QuietMoves, Asked, ExecutingStates
  <2>4. QED
    BY <2>1, <2>2, <2>3, Committed DEF RecordMoves
<1>3. CASE QueueTenantResume(t)
  <2> DEFINE s == [r EXCEPT !.state = "RESUME_QUEUED", !.action = "RESUME"]
  <2>1. s \in TenantRecord /\ s.state = "RESUME_QUEUED" /\ s.op = r.op /\ SameLease(r, s)
    BY <1>0 DEF TenantRecord, QueuedStates, Actions, SameLease
  <2>2. r.state = "SUSPENDED" /\ Commit(t, s)
    BY <1>3 DEF QueueTenantResume
  <2> HIDE DEF s
  <2>3. QuietMoves(r, s)
    BY <2>1, <2>2 DEF QuietMoves, Asked, ExecutingStates
  <2>4. QED
    BY <2>1, <2>2, <2>3, Committed DEF RecordMoves
<1>4. CASE QueueTenantDelete(t)
  <2> DEFINE s == [r EXCEPT !.state = "DELETE_APPROVAL", !.action = "DELETE",
                            !.op = "AWAITING_APPROVAL", !.recovery = TRUE]
  <2>1. s \in TenantRecord
    BY <1>0, Zenon DEF TenantRecord, RestingStates, Actions, OwnerOpStates
  <2>2. s.state = "DELETE_APPROVAL" /\ s.op = "AWAITING_APPROVAL" /\ SameLease(r, s)
    BY <1>0, Zenon DEF TenantRecord, SameLease
  <2>3. r.state \in {"ACTIVE", "SUSPENDED", "FAILED", "DELETE_APPROVAL", "DELETE_QUEUED"} /\ Commit(t, s)
    BY <1>4 DEF QueueTenantDelete
  <2> HIDE DEF s
  <2>4. QuietMoves(r, s)
    BY <2>2, <2>3 DEF QuietMoves, Asked, ExecutingStates
  <2>5. QED
    BY <2>1, <2>3, <2>4, Committed DEF RecordMoves
<1>5. CASE QueueTenantRetry(t)
  <2> DEFINE x == RetryState(r.action)
             s == [r EXCEPT !.state = x]
  <2>1. x \in {"QUEUED", "SUSPEND_QUEUED", "RESUME_QUEUED", "RESIZE_QUEUED"}
    BY DEF RetryState
  <2>2. r.state = "FAILED" /\ Commit(t, s)
    BY <1>5 DEF QueueTenantRetry
  <2> HIDE DEF x
  <2>3. s \in TenantRecord /\ s.state = x /\ s.op = r.op /\ SameLease(r, s)
    BY <1>0, <2>1 DEF TenantRecord, QueuedStates, SameLease
  <2> HIDE DEF s
  <2>4. QuietMoves(r, s)
    BY <2>1, <2>2, <2>3 DEF QuietMoves, Asked, ExecutingStates
  <2>5. QED
    BY <2>2, <2>3, <2>4, Committed DEF RecordMoves
<1>6. QED
  BY <1>1, <1>2, <1>3, <1>4, <1>5

\* The creation of a tenant, the approvals and the operation API.
LEMMA GovernanceMoves ==
  ASSUME tenant \in [Tenants -> TenantRecord], NEW t \in Tenants,
         tenant[t].state = "NONE" => Blank(tenant[t]),
         \/ CreateTenant(t) \/ ApproveTenantAction(t)
         \/ ApproveOperationAndQueue(t) \/ RequestOperationCancellation(t) \/ QueueTenantDeleteFails(t)
  PROVE  TenantsQuiet
<1> DEFINE r == tenant[t]
<1>0. r \in TenantRecord
  OBVIOUS
<1>1. CASE CreateTenant(t)
  <2>1. r.state = "NONE" /\ Blank(r) /\ tenant' = [tenant EXCEPT ![t] = NewTenant]
    BY <1>1 DEF CreateTenant
  <2>2. NewTenant \in TenantRecord
    BY TenantAssumption DEF NewTenant, NoTenant, TenantRecord, QueuedStates, Actions, OwnerOpStates, NoPlan
  <2>3. NewTenant.state = "QUEUED" /\ Blank(NewTenant)
    BY DEF NewTenant, NoTenant, Blank
  <2>4. Asked(r, NewTenant)
    BY <2>1, <2>3 DEF Asked, SameLease, Blank, ExecutingStates
  <2>5. QED
    BY <2>1, <2>2, <2>4 DEF TenantsQuiet, QuietMoves, Aside, SameLease, SamePlan
<1>2. CASE ApproveTenantAction(t)
  <2>1. CASE r.state = "RESIZE_APPROVAL" /\ Commit(t, [r EXCEPT !.state = "RESIZE_QUEUED"])
    <3> DEFINE s == [r EXCEPT !.state = "RESIZE_QUEUED"]
    <3>1. s \in TenantRecord /\ s.state = "RESIZE_QUEUED" /\ s.op = r.op /\ SameLease(r, s)
      BY <1>0 DEF TenantRecord, QueuedStates, SameLease
    <3> HIDE DEF s
    <3>2. QuietMoves(r, s)
      BY <2>1, <3>1 DEF QuietMoves, Asked, ExecutingStates
    <3>3. QED
      BY <2>1, <3>1, <3>2, Committed DEF RecordMoves, s
  <2>2. CASE /\ r.state = "DELETE_APPROVAL"
             /\ Commit(t, [r EXCEPT !.state = "DELETE_QUEUED", !.op = "QUEUED"])
    <3> DEFINE s == [r EXCEPT !.state = "DELETE_QUEUED", !.op = "QUEUED"]
    <3>1. s \in TenantRecord /\ s.state = "DELETE_QUEUED" /\ s.op = "QUEUED" /\ SameLease(r, s)
      BY <1>0 DEF TenantRecord, QueuedStates, OwnerOpStates, SameLease
    <3> HIDE DEF s
    <3>2. QuietMoves(r, s)
      BY <2>2, <3>1 DEF QuietMoves, Asked, ExecutingStates
    <3>3. QED
      BY <2>2, <3>1, <3>2, Committed DEF RecordMoves, s
  <2>3. QED
    BY <1>2, <2>1, <2>2 DEF ApproveTenantAction
<1>3. CASE ApproveOperationAndQueue(t) \/ RequestOperationCancellation(t) \/ QueueTenantDeleteFails(t)
  <2>1. PICK o \in OwnerOpStates :
          /\ tenant' = [tenant EXCEPT ![t].op = o]
          /\ \/ r.op = "AWAITING_APPROVAL" /\ o = "QUEUED"
             \/ r.op = "RUNNING" /\ o = "CANCEL_REQUESTED"
             \/ r.op \in {"AWAITING_APPROVAL", "QUEUED", "FAILED"} /\ o = "CANCELLED"
             \/ r.state \in {"DELETE_APPROVAL", "DELETE_QUEUED"} /\ o = "CANCELLED"
    BY <1>3 DEF ApproveOperationAndQueue, RequestOperationCancellation, QueueTenantDeleteFails, CancelledOp,
                OwnerOpStates
  <2>2. /\ tenant' \in [Tenants -> TenantRecord]
        /\ tenant'[t].op = o /\ tenant'[t].state = r.state /\ SameLease(r, tenant'[t]) /\ SamePlan(r, tenant'[t])
        /\ \A u \in Tenants : u # t => tenant'[u] = tenant[u]
    BY <1>0, <2>1 DEF TenantRecord, SameLease, SamePlan
  <2>3. Governed(r, tenant'[t])
    BY <2>1, <2>2 DEF Governed
  <2>4. QED
    BY <2>2, <2>3 DEF TenantsQuiet, QuietMoves, Aside, SameLease, SamePlan
<1>4. QED
  BY <1>1, <1>2, <1>3

\* A delete that is given up moves its tenant quietly.
LEMMA GiveUpQuiet ==
  ASSUME tenant \in [Tenants -> TenantRecord], NEW t \in Tenants,
         Runnable(tenant[t]), FailExpiredDelete(t)
  PROVE  TenantsQuiet
<1> DEFINE r == tenant[t]
           s == [r EXCEPT !.state = "FAILED", !.lease = "NONE", !.op = "FAILED"]
<1>0. r \in TenantRecord
  OBVIOUS
<1>1. s \in TenantRecord
  BY <1>0 DEF TenantRecord, RestingStates, OwnerOpStates
<1>2. s.state = "FAILED" /\ s.op = "FAILED" /\ s.lease = "NONE" /\ s.fence = r.fence
  BY <1>0 DEF TenantRecord
<1>3. ExpiredDelete(r) /\ Commit(t, s)
  BY DEF FailExpiredDelete
<1> HIDE DEF s
<1>4. QuietMoves(r, s)
  BY <1>2, <1>3 DEF QuietMoves, GivenUp
<1>5. QED
  BY <1>1, <1>3, <1>4, Committed DEF RecordMoves

\* A poll hands a task out or gives an expired delete up.
LEMMA PollMoves ==
  ASSUME tenant \in [Tenants -> TenantRecord], NEW a \in Agents, NEW t \in Tenants,
         NextTenantTask(a, t)
  PROVE  TenantsMove
<1> DEFINE r == tenant[t]
<1>0. r \in TenantRecord /\ Runnable(r)
  BY DEF NextTenantTask, Oldest
<1>1. CASE FailExpiredDelete(t)
  BY <1>0, <1>1, GiveUpQuiet DEF TenantsQuiet, TenantsMove, RecordMoves
<1>2. CASE GrantTask(a, t)
  <2> DEFINE x == ExecutingState(r.state)
             f == r.fence + 1
             o == IF r.state = "DELETE_QUEUED" THEN "RUNNING" ELSE r.op
             s == [r EXCEPT !.state = x, !.fence = f, !.lease = "LIVE", !.op = o]
  <2>1. x \in ExecutingStates
    BY DEF ExecutingState, ExecutingStates
  <2>2. f \in Nat /\ o \in OwnerOpStates
    <3>1. r.fence \in Nat /\ r.op \in OwnerOpStates
      BY <1>0, Zenon DEF TenantRecord
    <3>2. QED
      BY <3>1 DEF OwnerOpStates
  <2>3. ~ExpiredDelete(r) /\ Commit(t, s)
    BY <1>2 DEF GrantTask, Granted
  <2>4. s \in TenantRecord /\ s.state = x /\ s.fence = f /\ s.lease = "LIVE" /\ s.op = o /\ SamePlan(r, s)
    <3> HIDE DEF x, f, o
    <3>1. s \in TenantRecord
      BY <1>0, <2>1, <2>2 DEF TenantRecord
    <3>2. s.state = x /\ s.fence = f /\ s.lease = "LIVE" /\ s.op = o /\ SamePlan(r, s)
      BY <1>0 DEF TenantRecord, SamePlan
    <3>3. QED
      BY <3>1, <3>2
  <2> HIDE DEF s
  <2>5. RecordMoves(r, s)
    BY <1>0, <2>3, <2>4 DEF RecordMoves, Handed
  <2>6. QED
    BY <2>3, <2>4, <2>5, Committed
<1>3. QED
  BY <1>1, <1>2 DEF NextTenantTask

\* What an accepted result makes of a record.
LEMMA ReportedMoves ==
  ASSUME NEW r \in TenantRecord, NEW k \in TaskRecord, ReportCurrent(k, r), k.outcome # "NONE"
  PROVE  Reported(k, r) \in TenantRecord /\ Settled(r, Reported(k, r))
<1> DEFINE s == Reported(k, r)
<1> SUFFICES s \in TenantRecord /\ Settled(r, s)
  OBVIOUS
<1>0. r.lease = "LIVE" /\ r.state \in ExecutingStates /\ (k.action = "DELETE" <=> r.state = "DELETING")
  BY DEF ReportCurrent, AgentTaskLeaseActive, ActionOf, ExecutingStates
<1>1. CASE k.outcome = "FAILURE"
  <2> DEFINE o == IF k.action = "DELETE" THEN "FAILED" ELSE r.op
  <2>1. s = [r EXCEPT !.state = "FAILED", !.lease = "NONE", !.op = o]
    BY <1>1 DEF Reported
  <2>2. o \in OwnerOpStates
    BY DEF TenantRecord, OwnerOpStates
  <2>3. s \in TenantRecord /\ s.state = "FAILED" /\ s.lease = "NONE" /\ s.op = o /\ s.fence = r.fence
    <3> HIDE DEF o
    <3>1. QED
      BY <2>1, <2>2 DEF TenantRecord, RestingStates
  <2> HIDE DEF s
  <2>4. QED
    BY <1>0, <2>3 DEF Settled
<1>2. CASE k.outcome = "PENDING"
  <2>1. s = [r EXCEPT !.lease = "NONE"]
    BY <1>2 DEF Reported
  <2>2. s \in TenantRecord /\ s.state = r.state /\ s.lease = "NONE" /\ s.op = r.op /\ s.fence = r.fence
    BY <2>1 DEF TenantRecord
  <2> HIDE DEF s
  <2>3. QED
    BY <1>0, <2>2 DEF Settled
<1>3. CASE k.outcome = "SUCCESS" /\ k.action = "DELETE"
  <2>1. s = [r EXCEPT !.state = "DELETED", !.lease = "NONE", !.action = "", !.op = "SUCCEEDED"]
    BY <1>3 DEF Reported
  <2>2. s \in TenantRecord /\ s.state = "DELETED" /\ s.lease = "NONE" /\ s.op = "SUCCEEDED" /\ s.fence = r.fence
    BY <2>1 DEF TenantRecord, RestingStates, OwnerOpStates
  <2> HIDE DEF s
  <2>3. QED
    BY <1>0, <1>3, <2>2 DEF Settled
<1>4. CASE k.outcome = "SUCCESS" /\ k.action = "RESIZE"
  <2>1. s = [r EXCEPT !.state = "ACTIVE", !.lease = "NONE", !.action = "", !.current = TRUE,
                      !.plan = r.pending, !.pending = NoPlan]
    BY <1>4 DEF Reported
  <2>2. s \in TenantRecord
    BY <2>1, Zenon DEF TenantRecord, RestingStates
  <2>3. s.state = "ACTIVE" /\ s.lease = "NONE" /\ s.op = r.op /\ s.fence = r.fence
    BY <2>1, Zenon DEF TenantRecord
  <2> HIDE DEF s
  <2>4. QED
    BY <1>0, <1>4, <2>2, <2>3 DEF Settled
<1>5. CASE k.outcome = "SUCCESS" /\ k.action \notin {"DELETE", "RESIZE"}
  <2> DEFINE x == IF k.action = "SUSPEND" THEN "SUSPENDED" ELSE "ACTIVE"
  <2>1. s = [r EXCEPT !.state = x, !.lease = "NONE", !.action = "", !.current = TRUE]
    BY <1>5 DEF Reported
  <2>2. x \in {"SUSPENDED", "ACTIVE"}
    OBVIOUS
  <2> HIDE DEF x
  <2>3. x \in RestingStates
    BY <2>2 DEF RestingStates
  <2>4. s \in TenantRecord
    BY <2>1, <2>3, Zenon DEF TenantRecord
  <2>5. s.state = x /\ s.lease = "NONE" /\ s.op = r.op /\ s.fence = r.fence
    BY <2>1, Zenon DEF TenantRecord
  <2> HIDE DEF s
  <2>6. QED
    BY <1>0, <1>5, <2>2, <2>4, <2>5 DEF Settled
<1>6. k.outcome \in {"SUCCESS", "FAILURE", "PENDING"}
  BY DEF TaskRecord
<1>7. QED
  BY <1>1, <1>2, <1>3, <1>4, <1>5, <1>6

\* A report settles the tenant or changes nothing.
LEMMA ReportMoves ==
  ASSUME tenant \in [Tenants -> TenantRecord], task \in [Agents -> TaskRecord], WorkIsBound,
         NEW a \in Agents, ReportTenantTask(a)
  PROVE  TenantsMove \/ UNCHANGED tenant
<1> DEFINE k == task[a]
           r == tenant[k.tenant]
<1>1. k \in TaskRecord /\ k.tenant \in Tenants /\ k.outcome # "NONE"
  BY DEF ReportTenantTask, WorkIsBound
<1>2. CASE ReportCurrent(k, r) /\ Commit(k.tenant, Reported(k, r))
  BY <1>1, <1>2, ReportedMoves, Committed DEF RecordMoves
<1>3. QED
  BY <1>2 DEF ReportTenantTask

\* Time, the checkpoints and a new contract.
LEMMA EnvironmentMoves ==
  ASSUME tenant \in [Tenants -> TenantRecord],
         \/ \E t \in Tenants : LeaseExpires(t) \/ RecoveryInvalidated(t)
         \/ ContractRaised
  PROVE  TenantsQuiet
<1>1. ASSUME NEW t \in Tenants, LeaseExpires(t) PROVE TenantsQuiet
  <2>1. tenant[t].lease = "LIVE" /\ tenant' = [tenant EXCEPT ![t].lease = "EXPIRED"]
    BY <1>1 DEF LeaseExpires
  <2>2. /\ tenant' \in [Tenants -> TenantRecord]
        /\ Lapsed(tenant[t], tenant'[t])
        /\ \A u \in Tenants : u # t => tenant'[u] = tenant[u]
    BY <2>1 DEF TenantRecord, Lapsed, SamePlan
  <2>3. QED
    BY <2>2 DEF TenantsQuiet, QuietMoves, Aside, SameLease, SamePlan
<1>2. ASSUME NEW t \in Tenants, RecoveryInvalidated(t) PROVE TenantsQuiet
  <2>1. tenant' = [tenant EXCEPT ![t].recovery = FALSE]
    BY <1>2 DEF RecoveryInvalidated
  <2>2. /\ tenant' \in [Tenants -> TenantRecord]
        /\ Aside(tenant[t], tenant'[t])
        /\ \A u \in Tenants : u # t => tenant'[u] = tenant[u]
    BY <2>1 DEF TenantRecord, Aside, SameLease, SamePlan
  <2>3. QED
    BY <2>2 DEF TenantsQuiet, QuietMoves, Aside, SameLease, SamePlan
<1>3. CASE ContractRaised
  <2>1. tenant' = [t \in Tenants |-> [tenant[t] EXCEPT !.current = FALSE]]
    BY <1>3 DEF ContractRaised
  <2>2. tenant' \in [Tenants -> TenantRecord] /\ \A t \in Tenants : Aside(tenant[t], tenant'[t])
    BY <2>1 DEF TenantRecord, Aside, SameLease, SamePlan
  <2>3. PICK t \in Tenants : TRUE
    BY <1>3 DEF ContractRaised
  <2>4. QED
    BY <2>2, <2>3 DEF TenantsQuiet, QuietMoves
<1>4. QED
  BY <1>1, <1>2, <1>3

-----------------------------------------------------------------------------
(* The invariants over records. *)

\* A grant exists only while the tenant executes.
LeaseWhileExecuting == \A t \in Tenants : tenant[t].lease # "NONE" => tenant[t].state \in ExecutingStates

UncreatedIsBlank == \A t \in Tenants : tenant[t].state = "NONE" => Blank(tenant[t])

\* An operation that waits belongs to a delete that waits.
WaitingOpWaits ==
  \A t \in Tenants : tenant[t].op \in {"AWAITING_APPROVAL", "QUEUED"} =>
    tenant[t].state \in {"DELETE_APPROVAL", "DELETE_QUEUED"}

RecordInv == LeaseWhileExecuting /\ UncreatedIsBlank /\ WaitingOpWaits /\ OperationMirrorsTenant

IInv == TypeOK /\ WorkIsBound /\ RecordInv

\* The initial state satisfies the invariant.
LEMMA InitIInv == Init => IInv
<1> SUFFICES ASSUME Init PROVE IInv
  OBVIOUS
<1> USE TenantAssumption DEF Init
<1>1. NoTenant \in TenantRecord
  BY DEF NoTenant, TenantRecord, RestingStates, OwnerOpStates, NoPlan
<1>2. NoDigest \in Digests
  BY DEF NoDigest, Digests
<1>3. NoTask \in TaskRecord
  BY <1>2 DEF NoTask, TaskRecord
<1>4. TypeOK
  BY <1>1, <1>2, <1>3 DEF TypeOK, TargetRecord
<1>5. WorkIsBound
  BY DEF WorkIsBound, NoTask
<1>6. RecordInv
  BY DEF RecordInv, LeaseWhileExecuting, UncreatedIsBlank, Blank, WaitingOpWaits,
         OperationMirrorsTenant, NoTenant
<1>7. QED
  BY <1>4, <1>5, <1>6 DEF IInv

\* Every step moves the record of at most one tenant.
LEMMA NextMoves ==
  ASSUME IInv, [Next]_vars
  PROVE  TenantsMove \/ UNCHANGED tenant
<1> USE DEF IInv, TypeOK
<1>0. TenantsQuiet => TenantsMove
  BY DEF TenantsQuiet, TenantsMove, RecordMoves
<1>1. ASSUME NEW t \in Tenants, ClientRequest(t) PROVE TenantsMove
  BY <1>0, <1>1, RequestMoves, GovernanceMoves DEF ClientRequest, RecordInv, UncreatedIsBlank
<1>2. ASSUME NEW t \in Tenants, Environment(t) PROVE TenantsMove \/ UNCHANGED tenant
  BY <1>0, <1>2, EnvironmentMoves DEF Environment, NamespaceGone
<1>3. ASSUME NEW a \in Agents, NEW t \in Tenants, NextTenantTask(a, t) PROVE TenantsMove
  BY <1>3, PollMoves
<1>4. ASSUME NEW a \in Agents, AgentStep(a) \/ AgentCrash(a) PROVE UNCHANGED tenant
  BY <1>4 DEF AgentStep, AgentCrash, ApplyNamespace, ApplySchedule, InspectDelete, DeleteSchedule,
              DeleteNamespace, TaskFails
<1>5. ASSUME NEW a \in Agents, ReportTenantTask(a) PROVE TenantsMove \/ UNCHANGED tenant
  BY <1>5, ReportMoves
<1>6. CASE HeartbeatLost \/ HeartbeatFresh \/ ContractRaised
  BY <1>0, <1>6, EnvironmentMoves DEF HeartbeatLost, HeartbeatFresh
<1>7. QED
  BY <1>1, <1>2, <1>3, <1>4, <1>5, <1>6 DEF Next, vars

\* Every move of one record keeps its lease, its state and its operation in step.
LEMMA RecordInvStep ==
  ASSUME tenant \in [Tenants -> TenantRecord], RecordInv, TenantsMove
  PROVE  RecordInv'
<1> DEFINE Good(r) ==
      /\ r.lease # "NONE" => r.state \in ExecutingStates
      /\ r.state = "NONE" => Blank(r)
      /\ r.op \in {"AWAITING_APPROVAL", "QUEUED"} => r.state \in {"DELETE_APPROVAL", "DELETE_QUEUED"}
      /\ r.op \in {"RUNNING", "CANCEL_REQUESTED"} => r.state = "DELETING"
      /\ r.op = "SUCCEEDED" <=> r.state = "DELETED"
      /\ r.state = "FAILED" => r.op \in {"NONE", "FAILED", "CANCELLED"}
<1>1. ASSUME NEW r \in TenantRecord, NEW s \in TenantRecord, Good(r), RecordMoves(r, s) PROVE Good(s)
  <2>0. r.op \in OwnerOpStates
    BY DEF TenantRecord
  <2>1. CASE Asked(r, s)
    BY <1>1, <2>0, <2>1 DEF Asked, SameLease, ExecutingStates, OwnerOpStates
  <2>2. CASE Governed(r, s)
    BY <1>1, <2>2 DEF Governed, SameLease, ExecutingStates, Blank
  <2>3. CASE Handed(r, s)
    BY <1>1, <2>0, <2>3 DEF Handed, Runnable, ExpiredDelete, Reconcile, QueuedStates, ExecutingStates,
                            ExecutingState, ActionOf, OwnerOpStates
  <2>4. CASE GivenUp(r, s)
    BY <1>1, <2>4 DEF GivenUp
  <2>5. CASE Settled(r, s)
    BY <1>1, <2>0, <2>5 DEF Settled, ExecutingStates, OwnerOpStates
  <2>6. CASE Lapsed(r, s)
    BY <1>1, <2>6 DEF Lapsed, Blank
  <2>7. CASE Aside(r, s)
    BY <1>1, <2>7 DEF Aside, SameLease, Blank
  <2>8. QED
    BY <1>1, <2>1, <2>2, <2>3, <2>4, <2>5, <2>6, <2>7 DEF RecordMoves, QuietMoves
<1>2. \A t \in Tenants : Good(tenant[t])
  BY DEF RecordInv, LeaseWhileExecuting, UncreatedIsBlank, WaitingOpWaits, OperationMirrorsTenant
<1>3. ASSUME NEW t \in Tenants PROVE RecordMoves(tenant[t], tenant'[t])
  BY DEF TenantsMove, RecordMoves, QuietMoves
<1>4. \A t \in Tenants : tenant[t] \in TenantRecord /\ tenant'[t] \in TenantRecord
  BY DEF TenantsMove
<1> HIDE DEF Good
<1>5. \A t \in Tenants : Good(tenant'[t])
  BY <1>1, <1>2, <1>3, <1>4
<1>6. QED
  BY <1>5 DEF Good, RecordInv, LeaseWhileExecuting, UncreatedIsBlank, WaitingOpWaits, OperationMirrorsTenant

-----------------------------------------------------------------------------
(* The invariants over agents and the target. *)

\* The task that is handed out is a task of a tenant.
LEMMA HandedTask ==
  ASSUME tenant \in [Tenants -> TenantRecord], NEW t \in Tenants
  PROVE  LET k == TaskOf(t, Granted(tenant[t])) IN
           /\ k \in TaskRecord /\ k.tenant = t /\ k.step = "TAKEN" /\ k.fence = tenant[t].fence + 1
           /\ k.action = ActionOf(ExecutingState(tenant[t].state))
           /\ k.action # "DELETE" => k.digest = DesiredDigest(tenant[t], k.action)
<1> DEFINE r == Granted(tenant[t])
           x == ActionOf(r.state)
           d == IF r.state = "DELETING" THEN NoDigest ELSE DesiredDigest(r, x)
           v == tenant[t].revision + 1
           f == r.fence
<1>1. tenant[t] \in TenantRecord
  OBVIOUS
<1>2. tenant[t].revision \in Nat /\ tenant[t].fence \in Nat
      /\ tenant[t].plan \in Plans \cup {NoPlan} /\ tenant[t].pending \in Plans \cup {NoPlan}
  BY <1>1, Zenon DEF TenantRecord
<1>3. r.fence = tenant[t].fence + 1 /\ r.plan = tenant[t].plan /\ r.pending = tenant[t].pending
  BY <1>1 DEF Granted, TenantRecord
<1>4. v \in Nat /\ f \in Nat
  BY <1>2, <1>3
<1>5. x \in Actions \cup {""}
  BY DEF ActionOf, Actions
<1>6. d \in Digests
  <2>1. DesiredDigest(r, x) \in Digests /\ NoDigest \in Digests
    BY <1>2, <1>3 DEF DesiredDigest, Digests, NoDigest
  <2>2. QED
    BY <2>1
<1>7. NoTask \in TaskRecord
  BY DEF NoTask, TaskRecord, NoDigest, Digests
<1>8. TaskOf(t, r) = [NoTask EXCEPT !.tenant = t, !.revision = v, !.fence = f, !.action = x,
                                    !.step = "TAKEN", !.digest = d]
  BY DEF TaskOf
<1> HIDE DEF r, x, d, v, f
<1>9. [NoTask EXCEPT !.tenant = t, !.revision = v, !.fence = f, !.action = x,
                     !.step = "TAKEN", !.digest = d] \in TaskRecord
  BY <1>4, <1>5, <1>6, <1>7, Zenon DEF TaskRecord
<1>10. /\ TaskOf(t, r).tenant = t /\ TaskOf(t, r).step = "TAKEN" /\ TaskOf(t, r).fence = f
       /\ TaskOf(t, r).action = x /\ TaskOf(t, r).digest = d
  BY <1>7, <1>8, Zenon DEF TaskRecord
<1>11. r.state = ExecutingState(tenant[t].state)
  BY <1>1 DEF r, Granted, TenantRecord
<1>12. x # "DELETE" => d = DesiredDigest(tenant[t], x)
  <2>1. x # "DELETE" => r.state # "DELETING"
    BY DEF x, ActionOf
  <2>2. DesiredDigest(r, x) = DesiredDigest(tenant[t], x)
    BY <1>3 DEF DesiredDigest
  <2>3. QED
    BY <2>1, <2>2 DEF d
<1>13. f = tenant[t].fence + 1 /\ x = ActionOf(ExecutingState(tenant[t].state))
  BY <1>3, <1>11 DEF f, x
<1>14. QED
  BY <1>8, <1>9, <1>10, <1>12, <1>13 DEF r

\* Every step keeps the agents' tasks typed and bound to a tenant.
LEMMA TasksStep ==
  ASSUME TypeOK, WorkIsBound, [Next]_vars
  PROVE  task' \in [Agents -> TaskRecord] /\ WorkIsBound'
<1> USE DEF TypeOK, WorkIsBound
<1>0. NoTask \in TaskRecord /\ NoTask.step = "IDLE"
  BY DEF NoTask, TaskRecord, NoDigest, Digests
<1>1. ASSUME NEW a \in Agents, NEW t \in Tenants, NextTenantTask(a, t)
      PROVE  task' \in [Agents -> TaskRecord] /\ WorkIsBound'
  <2>1. CASE FailExpiredDelete(t)
    BY <2>1 DEF FailExpiredDelete
  <2>2. CASE GrantTask(a, t)
    BY <2>2, HandedTask DEF GrantTask
  <2>3. QED
    BY <1>1, <2>1, <2>2 DEF NextTenantTask
<1>2. ASSUME NEW a \in Agents, AgentStep(a)
      PROVE  task' \in [Agents -> TaskRecord] /\ WorkIsBound'
  <2>1. CASE ApplyNamespace(a)
    BY <2>1 DEF ApplyNamespace, Advance, TaskRecord
  <2>2. ASSUME NEW o \in {"SUCCESS", "FAILURE", "PENDING"}, Finish(a, o), task[a].step # "IDLE"
        PROVE  task' \in [Agents -> TaskRecord] /\ WorkIsBound'
    <3> DEFINE k == [task[a] EXCEPT !.step = "DONE", !.outcome = o]
    <3>1. task' = [task EXCEPT ![a] = k]
      BY <2>2 DEF Finish
    <3>2. k \in TaskRecord
      BY <2>2, Zenon DEF TaskRecord
    <3>3. k.tenant = task[a].tenant /\ k.step = "DONE" /\ k.outcome = o
      BY Zenon DEF TaskRecord
    <3> HIDE DEF k
    <3>4. QED
      BY <2>2, <3>1, <3>2, <3>3
  <2>3. CASE ApplySchedule(a)
    BY <2>2, <2>3 DEF ApplySchedule
  <2>4. CASE InspectDelete(a)
    <3> DEFINE x == target[task[a].tenant].namespace # "ABSENT"
               y == target[task[a].tenant].schedule # NoDigest
    <3>1. x \in BOOLEAN /\ y \in BOOLEAN
      OBVIOUS
    <3>2. task[a].step = "TAKEN"
          /\ task' = [task EXCEPT ![a].step = "INSPECTED", ![a].sawNamespace = x, ![a].sawSchedule = y]
      BY <2>4, Zenon DEF InspectDelete
    <3> DEFINE k == [task[a] EXCEPT !.step = "INSPECTED", !.sawNamespace = x, !.sawSchedule = y]
    <3> HIDE DEF x, y
    <3>3. task' = [task EXCEPT ![a] = k]
      BY <3>2
    <3>4. k \in TaskRecord
      BY <3>1, Zenon DEF TaskRecord
    <3>5. k.tenant = task[a].tenant /\ k.step = "INSPECTED"
      BY Zenon DEF TaskRecord
    <3> HIDE DEF k
    <3>6. QED
      BY <3>2, <3>3, <3>4, <3>5
  <2>5. CASE DeleteSchedule(a)
    <3>1. CASE Advance(a, "NAMESPACE") /\ task[a].step = "INSPECTED"
      BY <3>1 DEF Advance, TaskRecord
    <3>2. QED
      BY <2>2, <2>5, <3>1 DEF DeleteSchedule
  <2>6. CASE DeleteNamespace(a)
    BY <2>2, <2>6 DEF DeleteNamespace
  <2>7. CASE TaskFails(a)
    BY <2>2, <2>7 DEF TaskFails
  <2>8. QED
    BY <1>2, <2>1, <2>3, <2>4, <2>5, <2>6, <2>7 DEF AgentStep
<1>3. ASSUME NEW a \in Agents, ReportTenantTask(a) \/ AgentCrash(a)
      PROVE  task' \in [Agents -> TaskRecord] /\ WorkIsBound'
  BY <1>0, <1>3 DEF ReportTenantTask, AgentCrash
<1>4. ASSUME NEW t \in Tenants, ClientRequest(t) \/ Environment(t) PROVE UNCHANGED task
  BY <1>4 DEF ClientRequest, Environment, CreateTenant, QueueTenantResize, QueueTenantSuspend,
              QueueTenantResume, QueueTenantDelete, QueueTenantRetry, ApproveTenantAction,
              ApproveOperationAndQueue, RequestOperationCancellation, QueueTenantDeleteFails, NamespaceGone, LeaseExpires,
              RecoveryInvalidated
<1>5. CASE HeartbeatLost \/ HeartbeatFresh \/ ContractRaised
  BY <1>5 DEF HeartbeatLost, HeartbeatFresh, ContractRaised
<1>6. QED
  BY <1>1, <1>2, <1>3, <1>4, <1>5 DEF Next, vars

\* Every step keeps the objects on the target typed.
LEMMA TargetStep ==
  ASSUME TypeOK, WorkIsBound, [Next]_vars
  PROVE  target' \in [Tenants -> TargetRecord]
<1> USE DEF TypeOK
<1>1. ASSUME NEW a \in Agents, AgentStep(a) PROVE target' \in [Tenants -> TargetRecord]
  <2> DEFINE k == task[a]
  <2>0. k.digest \in Digests /\ NoDigest \in Digests
    BY DEF TaskRecord, Digests, NoDigest
  <2>1. CASE ApplyNamespace(a)
    BY <2>0, <2>1 DEF ApplyNamespace, TargetRecord
  <2>2. CASE ApplySchedule(a)
    BY <2>0, <2>2 DEF ApplySchedule, TargetRecord
  <2>3. CASE InspectDelete(a) \/ TaskFails(a)
    BY <2>3 DEF InspectDelete, TaskFails
  <2>4. CASE DeleteSchedule(a)
    BY <2>0, <2>4 DEF DeleteSchedule, TargetRecord
  <2>5. CASE DeleteNamespace(a)
    BY <2>0, <2>5 DEF DeleteNamespace, TargetRecord
  <2>6. QED
    BY <1>1, <2>1, <2>2, <2>3, <2>4, <2>5 DEF AgentStep
<1>2. ASSUME NEW t \in Tenants, NamespaceGone(t) PROVE target' \in [Tenants -> TargetRecord]
  <2>1. NoDigest \in Digests
    BY DEF Digests, NoDigest
  <2>2. QED
    BY <1>2, <2>1 DEF NamespaceGone, TargetRecord
<1>3. ASSUME NEW t \in Tenants, ClientRequest(t) \/ LeaseExpires(t) \/ RecoveryInvalidated(t)
      PROVE  UNCHANGED target
  BY <1>3 DEF ClientRequest, CreateTenant, QueueTenantResize, QueueTenantSuspend,
              QueueTenantResume, QueueTenantDelete, QueueTenantRetry, ApproveTenantAction,
              ApproveOperationAndQueue, RequestOperationCancellation, QueueTenantDeleteFails, LeaseExpires, RecoveryInvalidated
<1>4. ASSUME NEW a \in Agents, NEW t \in Tenants, NextTenantTask(a, t) PROVE UNCHANGED target
  BY <1>4 DEF NextTenantTask
<1>5. ASSUME NEW a \in Agents, ReportTenantTask(a) \/ AgentCrash(a) PROVE UNCHANGED target
  BY <1>5 DEF ReportTenantTask, AgentCrash
<1>6. CASE HeartbeatLost \/ HeartbeatFresh \/ ContractRaised
  BY <1>6 DEF HeartbeatLost, HeartbeatFresh, ContractRaised
<1>7. QED
  BY <1>1, <1>2, <1>3, <1>4, <1>5, <1>6 DEF Next, Environment, vars

BoundsOK == admitted \in BOOLEAN /\ requests \in [Tenants -> Nat] /\ faults \in 0..MaxFaults

\* Every step keeps the admission and the bounds on the environment.
LEMMA BoundsStep ==
  ASSUME TypeOK, [Next]_vars
  PROVE  BoundsOK'
<1> USE TenantAssumption DEF TypeOK, Fault, BoundsOK
<1>1. ASSUME NEW t \in Tenants, ClientRequest(t) PROVE BoundsOK'
  <2>1. requests' = requests \/ Request(t)
    BY <1>1 DEF ClientRequest, CreateTenant, QueueTenantResize, QueueTenantSuspend,
                QueueTenantResume, QueueTenantDelete, QueueTenantRetry, ApproveTenantAction,
                ApproveOperationAndQueue, RequestOperationCancellation, QueueTenantDeleteFails
  <2>2. requests' \in [Tenants -> Nat]
    <3>1. CASE Request(t)
      <4>1. requests[t] \in Nat
        OBVIOUS
      <4>2. requests[t] + 1 \in Nat
        BY <4>1
      <4>3. QED
        BY <3>1, <4>2 DEF Request
    <3>2. QED
      BY <2>1, <3>1
  <2>3. UNCHANGED <<admitted, faults>>
    BY <1>1 DEF ClientRequest, CreateTenant, QueueTenantResize, QueueTenantSuspend,
                QueueTenantResume, QueueTenantDelete, QueueTenantRetry, ApproveTenantAction,
                ApproveOperationAndQueue, RequestOperationCancellation, QueueTenantDeleteFails
  <2>4. QED
    BY <2>2, <2>3
<1>2. ASSUME NEW t \in Tenants, Environment(t) PROVE BoundsOK'
  BY <1>2 DEF Environment, NamespaceGone, LeaseExpires, RecoveryInvalidated
<1>3. ASSUME NEW a \in Agents, NEW t \in Tenants, NextTenantTask(a, t) PROVE BoundsOK'
  BY <1>3 DEF NextTenantTask
<1>4. ASSUME NEW a \in Agents, AgentStep(a) \/ ReportTenantTask(a) \/ AgentCrash(a) PROVE BoundsOK'
  BY <1>4 DEF AgentStep, ApplyNamespace, ApplySchedule, InspectDelete, DeleteSchedule,
              DeleteNamespace, TaskFails, ReportTenantTask, AgentCrash
<1>5. CASE HeartbeatLost \/ HeartbeatFresh \/ ContractRaised
  <2>1. admitted' \in BOOLEAN
    BY <1>5, Zenon DEF HeartbeatLost, HeartbeatFresh, ContractRaised
  <2>2. requests' = requests /\ faults' \in 0..MaxFaults
    BY <1>5 DEF HeartbeatLost, HeartbeatFresh, ContractRaised
  <2>3. QED
    BY <2>1, <2>2
<1>6. CASE UNCHANGED vars
  BY <1>6 DEF vars
<1> HIDE DEF TypeOK, Fault, BoundsOK
<1>7. QED
  BY <1>1, <1>2, <1>3, <1>4, <1>5, <1>6 DEF Next

\* Every step keeps the inductive invariant.
LEMMA IInvStep == IInv /\ [Next]_vars => IInv'
<1> SUFFICES ASSUME IInv, [Next]_vars PROVE IInv'
  OBVIOUS
<1>1. TypeOK /\ WorkIsBound /\ RecordInv
  BY DEF IInv
<1>2. tenant' \in [Tenants -> TenantRecord] /\ RecordInv'
  <2>1. CASE TenantsMove
    BY <1>1, <2>1, RecordInvStep DEF TypeOK, TenantsMove
  <2>2. CASE UNCHANGED tenant
    BY <1>1, <2>2 DEF TypeOK, RecordInv, LeaseWhileExecuting, UncreatedIsBlank, WaitingOpWaits,
                      OperationMirrorsTenant
  <2>3. QED
    BY <2>1, <2>2, NextMoves
<1>3. task' \in [Agents -> TaskRecord] /\ WorkIsBound'
  BY <1>1, TasksStep
<1>4. target' \in [Tenants -> TargetRecord]
  BY <1>1, TargetStep
<1>5. admitted' \in BOOLEAN /\ requests' \in [Tenants -> Nat] /\ faults' \in 0..MaxFaults
  BY <1>1, BoundsStep DEF BoundsOK
<1>6. QED
  BY <1>2, <1>3, <1>4, <1>5 DEF IInv, TypeOK

\* The inductive invariant holds throughout.
THEOREM TenantInvariant == Spec => []IInv
<1>1. QED
  BY InitIInv, IInvStep, PTL DEF Spec

\* Records, tasks and targets keep their types.
THEOREM TenantTypes == Spec => []TypeOK
<1>1. IInv => TypeOK
  BY DEF IInv
<1>2. QED
  BY <1>1, TenantInvariant, PTL

\* The tenant and the operation that authorises its delete never disagree.
THEOREM MirrorHolds == Spec => []OperationMirrorsTenant
<1>1. IInv => OperationMirrorsTenant
  BY DEF IInv, RecordInv
<1>2. QED
  BY <1>1, TenantInvariant, PTL

-----------------------------------------------------------------------------
(* The queue implements the fenced lease. *)

\* One tenant's move is one lease step, or none.
LEMMA MoveIsLeaseStep ==
  ASSUME TypeOK, RecordInv, RecordInv', TenantsMove
  PROVE  [Lease!Next]_(Lease!lvars)
<1> DEFINE tk == [t \in Tenants |-> tenant[t].fence]
           ho == [t \in Tenants |-> IF tenant[t].lease = "EXPIRED" THEN "LAPSED" ELSE tenant[t].lease]
           de == [t \in Tenants |-> tenant[t].state = "DELETING" /\ tenant[t].lease # "NONE"]
           tk2 == [t \in Tenants |-> tenant'[t].fence]
           ho2 == [t \in Tenants |-> IF tenant'[t].lease = "EXPIRED" THEN "LAPSED" ELSE tenant'[t].lease]
           de2 == [t \in Tenants |-> tenant'[t].state = "DELETING" /\ tenant'[t].lease # "NONE"]
<1>1. PICK t \in Tenants : /\ RecordMoves(tenant[t], tenant'[t])
                           /\ \A u \in Tenants : u # t => Aside(tenant[u], tenant'[u])
  BY DEF TenantsMove
<1> DEFINE r == tenant[t]
           s == tenant'[t]
<1>2. \A u \in Tenants : u # t => tk2[u] = tk[u] /\ ho2[u] = ho[u] /\ de2[u] = de[u]
  BY <1>1, Zenon DEF Aside, SameLease
<1>7. r \in TenantRecord /\ r.lease \in {"NONE", "LIVE", "EXPIRED"}
  <2>1. r \in TenantRecord
    BY DEF TypeOK
  <2>2. QED
    BY <2>1, Zenon DEF TenantRecord
<1>3. CASE s.lease = r.lease /\ s.fence = r.fence /\ (s.state = "DELETING" <=> r.state = "DELETING")
  <2>1. tk2[t] = tk[t] /\ ho2[t] = ho[t] /\ de2[t] = de[t]
    BY <1>3, Zenon
  <2>2. tk2 = tk /\ ho2 = ho /\ de2 = de
    BY <1>2, <2>1, Zenon
  <2>3. QED
    BY <2>2 DEF Lease!lvars
<1>4. ASSUME s.lease = "LIVE", s.fence = r.fence + 1, r.lease # "LIVE",
             r.lease = "EXPIRED" => r.state # "DELETING"
      PROVE  Lease!Next
  <2>0. PICK d \in BOOLEAN : d = de2[t]
    OBVIOUS
  <2>1. d \in BOOLEAN /\ ho[t] # "LIVE" /\ (ho[t] = "LAPSED" => ~de[t])
    <3>1. de2[t] = (s.state = "DELETING" /\ s.lease # "NONE") /\ de[t] = (r.state = "DELETING" /\ r.lease # "NONE")
      BY Zenon
    <3>2. ho[t] = IF r.lease = "EXPIRED" THEN "LAPSED" ELSE r.lease
      BY Zenon
    <3>3. ho[t] # "LIVE" /\ (ho[t] = "LAPSED" => r.lease = "EXPIRED" \/ r.lease = "LAPSED")
      BY <1>4, <3>2
    <3>4. r.lease # "LAPSED"
      BY <1>7
    <3>5. QED
      BY <1>4, <3>1, <3>3, <3>4, Zenon
  <2>2. tk2 = [tk EXCEPT ![t] = tk[t] + 1]
    BY <1>2, <1>4
  <2>3. ho2 = [ho EXCEPT ![t] = "LIVE"] /\ de2 = [de EXCEPT ![t] = d]
    <3>1. ho2[t] = "LIVE" /\ \A u \in Tenants : u # t => ho2[u] = ho[u]
      BY <1>2, <1>4
    <3>2. ho2 = [u \in Tenants |-> IF u = t THEN "LIVE" ELSE ho[u]]
      BY <3>1, Zenon
    <3>3. de2 = [u \in Tenants |-> IF u = t THEN d ELSE de[u]]
      BY <1>2, <2>0, Zenon
    <3>4. QED
      BY <3>2, <3>3, Zenon
  <2>4. Lease!Grant(t, d)
    BY <2>1, <2>2, <2>3 DEF Lease!Grant
  <2>5. \E x \in BOOLEAN : Lease!Grant(t, x)
    BY <2>4
  <2>6. QED
    BY <2>5, Zenon DEF Lease!Next
<1>5. ASSUME r.lease = "LIVE", s.lease = "EXPIRED", s.fence = r.fence, s.state = r.state
      PROVE  Lease!Next
  <2>1. tk2[t] = tk[t] /\ de2[t] = de[t] /\ ho[t] = "LIVE" /\ ho2[t] = "LAPSED"
    BY <1>5, Zenon
  <2>2. tk2 = tk /\ de2 = de /\ ho2 = [ho EXCEPT ![t] = "LAPSED"]
    BY <1>2, <2>1, Zenon
  <2>3. Lease!Lapse(t)
    BY <2>1, <2>2 DEF Lease!Lapse
  <2>4. QED
    BY <2>3 DEF Lease!Next
<1>6. ASSUME s.lease = "NONE", s.fence = r.fence,
             r.lease = "LIVE" \/ (r.lease = "EXPIRED" /\ r.state = "DELETING")
      PROVE  Lease!Next
  <2>1. tk2[t] = tk[t] /\ de2[t] = FALSE /\ ho2[t] = "NONE"
        /\ (ho[t] = "LIVE" \/ (ho[t] = "LAPSED" /\ de[t]))
    BY <1>6, Zenon
  <2>2. tk2 = tk /\ de2 = [de EXCEPT ![t] = FALSE] /\ ho2 = [ho EXCEPT ![t] = "NONE"]
    <3>1. tk2 = tk
      BY <1>2, <2>1, Zenon
    <3>2. \A u \in Tenants : de2[u] = IF u = t THEN FALSE ELSE de[u]
      BY <1>2, <2>1, Zenon
    <3>3. \A u \in Tenants : ho2[u] = IF u = t THEN "NONE" ELSE ho[u]
      BY <1>2, <2>1, Zenon
    <3>4. de2 = [de EXCEPT ![t] = FALSE]
      BY <3>2, Zenon
    <3>5. ho2 = [ho EXCEPT ![t] = "NONE"]
      BY <3>3, Zenon
    <3>6. QED
      BY <3>1, <3>4, <3>5
  <2>3. Lease!Settle(t) \/ Lease!GiveUp(t)
    BY <2>1, <2>2 DEF Lease!Settle, Lease!GiveUp
  <2>4. QED
    BY <2>3 DEF Lease!Next
<1>8. r.lease # "NONE" => r.state \in ExecutingStates
  BY DEF RecordInv, LeaseWhileExecuting
<1>9. CASE Asked(r, s) \/ Governed(r, s) \/ Aside(r, s)
  BY <1>3, <1>9 DEF Asked, Governed, Aside, SameLease, ExecutingStates
<1>10. CASE Handed(r, s)
  BY <1>4, <1>8, <1>10 DEF Handed, Runnable, AgentTaskLeaseActive, ExpiredDelete, QueuedStates, ExecutingStates
<1>11. CASE GivenUp(r, s)
  BY <1>6, <1>7, <1>11 DEF GivenUp, ExpiredDelete
<1>12. CASE Settled(r, s)
  BY <1>6, <1>12 DEF Settled
<1>13. CASE Lapsed(r, s)
  BY <1>5, <1>13 DEF Lapsed
<1>14. QED
  BY <1>1, <1>9, <1>10, <1>11, <1>12, <1>13 DEF RecordMoves, QuietMoves

\* The queue of tenant tasks keeps every promise of agent_task_fencing.go: it
\* implements the abstract fenced lease.
THEOREM QueueImplementsLease == Spec => ImplementsFencedLease
<1>1. Init => Lease!Init
  <2> SUFFICES ASSUME Init PROVE Lease!Init
    OBVIOUS
  <2>1. ASSUME NEW t \in Tenants
        PROVE  tenant[t].fence = 0 /\ tenant[t].lease = "NONE" /\ tenant[t].state # "DELETING"
    BY DEF Init, NoTenant
  <2>2. [t \in Tenants |-> tenant[t].fence] = [t \in Tenants |-> 0]
    BY <2>1
  <2>3. [t \in Tenants |-> IF tenant[t].lease = "EXPIRED" THEN "LAPSED" ELSE tenant[t].lease]
        = [t \in Tenants |-> "NONE"]
    BY <2>1
  <2>4. [t \in Tenants |-> tenant[t].state = "DELETING" /\ tenant[t].lease # "NONE"]
        = [t \in Tenants |-> FALSE]
    BY <2>1, Zenon
  <2>5. QED
    BY <2>2, <2>3, <2>4, Zenon DEF Lease!Init
<1>2. IInv /\ IInv' /\ [Next]_vars => [Lease!Next]_(Lease!lvars)
  <2> SUFFICES ASSUME IInv, IInv', [Next]_vars PROVE [Lease!Next]_(Lease!lvars)
    OBVIOUS
  <2>1. CASE TenantsMove
    BY <2>1, MoveIsLeaseStep DEF IInv
  <2>2. CASE UNCHANGED tenant
    BY <2>2 DEF Lease!lvars
  <2>3. QED
    BY <2>1, <2>2, NextMoves
<1>3. QED
  BY <1>1, <1>2, TenantInvariant, PTL DEF Spec, ImplementsFencedLease, Lease!Spec

-----------------------------------------------------------------------------
(* What the cluster holds.  Only the agent whose token is current and whose *)
(* lease is live writes, and there is one such agent for a tenant.         *)

Busy(a) == task[a].step # "IDLE"

Removed(x) == x.namespace = "ABSENT" /\ x.schedule = NoDigest
Applied(digest) == [namespace |-> "PRESENT", digest |-> digest, schedule |-> digest]

\* The task is for what the record says is being done.
Fits(k, r) ==
  /\ r.state \in ExecutingStates /\ ActionOf(r.state) = k.action
  /\ k.action # "DELETE" => k.digest = DesiredDigest(r, k.action)

\* What the target holds when the task is at its step.
RemovalProgress(k, x) ==
  /\ k.step = "INSPECTED" /\ ~k.sawSchedule => x.schedule = NoDigest
  /\ k.step = "NAMESPACE" => x.schedule = NoDigest
  /\ k.step \in {"INSPECTED", "NAMESPACE"} /\ ~k.sawNamespace => x.namespace = "ABSENT"
  /\ k.step = "DONE" /\ k.outcome = "SUCCESS" => Removed(x)
ApplyProgress(k, x) ==
  /\ k.step # "INSPECTED"
  /\ k.step = "NAMESPACE" => x.namespace = "PRESENT" /\ x.digest = k.digest
  /\ k.step = "DONE" /\ k.outcome = "SUCCESS" => x = Applied(k.digest)
Progress(k, x) == (k.action = "DELETE" => RemovalProgress(k, x)) /\ (k.action # "DELETE" => ApplyProgress(k, x))

\* No token of the future, and no token twice.
TokensOwn ==
  /\ \A a \in Agents : Busy(a) => task[a].fence <= tenant[task[a].tenant].fence
  /\ \A a, b \in Agents :
       a # b /\ Busy(a) /\ Busy(b) /\ task[a].tenant = task[b].tenant => task[a].fence # task[b].fence

\* The work of an agent that is in time is the work of the record, as far as it says.
Current(k, r) == r.fence = k.fence /\ r.lease = "LIVE"
Works(k, r, x) == Current(k, r) => Fits(k, r) /\ Progress(k, x)
WorkFits == \A a \in Agents : Busy(a) => Works(task[a], tenant[task[a].tenant], target[task[a].tenant])

\* What a record at rest says of the target.
Kept(r, x) ==
  /\ r.state \in {"ACTIVE", "RESIZE_APPROVAL"} => x = Applied(<<r.plan, FALSE>>)
  /\ r.state = "SUSPENDED" => x = Applied(<<r.plan, TRUE>>)
  /\ r.state = "DELETED" => Removed(x)
RestKept == \A t \in Tenants : Kept(tenant[t], target[t])

TargetInv == TokensOwn /\ WorkFits /\ RestKept

SameTask(k, l) ==
  l.tenant = k.tenant /\ l.fence = k.fence /\ l.action = k.action /\ l.digest = k.digest /\ l.step # "IDLE"

\* What a step of an agent does: it writes only in time, only for its tenant.
AgentWorks(a) ==
  /\ Busy(a) /\ SameTask(task[a], task'[a]) /\ \A b \in Agents : b # a => task'[b] = task[b]
  /\ UNCHANGED tenant
  /\ \/ UNCHANGED target
     \/ InTime(a) /\ \A t \in Tenants : t # task[a].tenant => target'[t] = target[t]
  /\ InTime(a) /\ Progress(task[a], target[task[a].tenant]) => Progress(task'[a], target'[task[a].tenant])

\* Every step of an agent is of this kind.
LEMMA AgentStepWorks ==
  ASSUME TypeOK, WorkIsBound, NEW a \in Agents, AgentStep(a)
  PROVE  AgentWorks(a)
<1>0. PICK k, t, x : k = task[a] /\ t = k.tenant /\ x = target[t]
  OBVIOUS
<1>b. Busy(a)
  BY DEF AgentStep, ApplyNamespace, ApplySchedule, InspectDelete, DeleteSchedule, DeleteNamespace, TaskFails, Busy
<1>t. task \in [Agents -> TaskRecord] /\ k \in TaskRecord /\ t \in Tenants /\ x \in TargetRecord
  BY <1>0, <1>b DEF TypeOK, WorkIsBound, Busy
<1>u. target \in [Tenants -> TargetRecord]
  BY DEF TypeOK
<1>n. UNCHANGED tenant
  BY DEF AgentStep, ApplyNamespace, ApplySchedule, InspectDelete, DeleteSchedule, DeleteNamespace, TaskFails
<1>k. ASSUME NEW l, task' = [task EXCEPT ![a] = l]
      PROVE  task'[a] = l /\ \A b \in Agents : b # a => task'[b] = task[b]
  BY <1>k, <1>t
<1>x. ASSUME NEW y, target' = [target EXCEPT ![t] = y]
      PROVE  target'[t] = y /\ \A u \in Tenants : u # t => target'[u] = target[u]
  BY <1>x, <1>t, <1>u
<1>w. ASSUME NEW l, NEW y, SameTask(k, l), task' = [task EXCEPT ![a] = l],
             \/ UNCHANGED target /\ y = x
             \/ InTime(a) /\ target' = [target EXCEPT ![t] = y],
             InTime(a) /\ Progress(k, x) => Progress(l, y)
      PROVE  AgentWorks(a)
  <2>1. task'[a] = l /\ \A b \in Agents : b # a => task'[b] = task[b]
    BY <1>k, <1>w
  <2>2. target'[t] = y
    BY <1>0, <1>w, <1>x
  <2>3. UNCHANGED target \/ (InTime(a) /\ \A u \in Tenants : u # t => target'[u] = target[u])
    BY <1>w, <1>x
  <2>4. QED
    BY <1>0, <1>b, <1>n, <1>w, <2>1, <2>2, <2>3 DEF AgentWorks
<1>f. ASSUME NEW o, Finish(a, o)
      PROVE  \E l : /\ task' = [task EXCEPT ![a] = l] /\ SameTask(k, l) /\ l.step = "DONE" /\ l.outcome = o
  <2>1. PICK l : l = [k EXCEPT !.step = "DONE", !.outcome = o]
    OBVIOUS
  <2>2. task' = [task EXCEPT ![a] = l]
    BY <1>0, <1>f, <2>1 DEF Finish
  <2>3. SameTask(k, l) /\ l.step = "DONE" /\ l.outcome = o
    BY <1>t, <2>1, Zenon DEF SameTask, TaskRecord
  <2>4. QED
    BY <2>2, <2>3
<1>e. ASSUME NEW o, o # "SUCCESS", Finish(a, o), UNCHANGED target PROVE AgentWorks(a)
  <2>1. PICK l : task' = [task EXCEPT ![a] = l] /\ SameTask(k, l) /\ l.step = "DONE" /\ l.outcome = o
    BY <1>e, <1>f
  <2>2. Progress(l, x)
    BY <1>e, <2>1 DEF Progress, RemovalProgress, ApplyProgress
  <2>3. QED
    BY <1>e, <1>w, <2>1, <2>2
<1>1. CASE TaskFails(a)
  BY <1>1, <1>e DEF TaskFails
<1>2. CASE ApplyNamespace(a)
  <2>1. PICK l, y : l = [k EXCEPT !.step = "NAMESPACE"] /\ y = [x EXCEPT !.namespace = "PRESENT", !.digest = k.digest]
    OBVIOUS
  <2>2. /\ k.action # "DELETE" /\ InTime(a)
        /\ task' = [task EXCEPT ![a] = l] /\ target' = [target EXCEPT ![t] = y]
    BY <1>0, <1>2, <2>1 DEF ApplyNamespace, Advance
  <2>3. SameTask(k, l) /\ l.step = "NAMESPACE"
    BY <1>t, <2>1, Zenon DEF SameTask, TaskRecord
  <2>4. y.namespace = "PRESENT" /\ y.digest = k.digest
    BY <1>t, <2>1, Zenon DEF TargetRecord
  <2>5. Progress(l, y)
    BY <2>2, <2>3, <2>4 DEF Progress, ApplyProgress, SameTask
  <2>6. QED
    BY <1>w, <2>2, <2>3, <2>5
<1>3. CASE ApplySchedule(a)
  <2>1. PICK o : o = IF x.namespace = "PRESENT" /\ x.digest = k.digest THEN "SUCCESS" ELSE "FAILURE"
    OBVIOUS
  <2>2. PICK y : y = [x EXCEPT !.schedule = k.digest]
    OBVIOUS
  <2>3. k.action # "DELETE" /\ InTime(a) /\ target' = [target EXCEPT ![t] = y] /\ Finish(a, o)
    BY <1>0, <1>3, <2>1, <2>2 DEF ApplySchedule
  <2>4. PICK l : task' = [task EXCEPT ![a] = l] /\ SameTask(k, l) /\ l.step = "DONE" /\ l.outcome = o
    BY <1>f, <2>3
  <2>5. o = "SUCCESS" => y = Applied(k.digest)
    BY <1>t, <2>1, <2>2 DEF TargetRecord, Applied
  <2>6. Progress(l, y)
    BY <2>3, <2>4, <2>5 DEF Progress, ApplyProgress, SameTask
  <2>7. QED
    BY <1>w, <2>3, <2>4, <2>6
<1>4. CASE InspectDelete(a)
  <2>1. PICK n \in BOOLEAN, c \in BOOLEAN : n = (x.namespace # "ABSENT") /\ c = (x.schedule # NoDigest)
    OBVIOUS
  <2>2. PICK l : l = [k EXCEPT !.step = "INSPECTED", !.sawNamespace = n, !.sawSchedule = c]
    OBVIOUS
  <2>3. k.action = "DELETE" /\ UNCHANGED target /\ task' = [task EXCEPT ![a] = l]
    <3>1. k.action = "DELETE" /\ UNCHANGED target
      BY <1>0, <1>4 DEF InspectDelete
    <3>2. task' = [task EXCEPT ![a].step = "INSPECTED", ![a].sawNamespace = n, ![a].sawSchedule = c]
      BY <1>0, <1>4, <2>1, Zenon DEF InspectDelete
    <3>3. QED
      BY <1>0, <2>2, <3>1, <3>2
  <2>4. SameTask(k, l) /\ l.step = "INSPECTED" /\ l.sawNamespace = n /\ l.sawSchedule = c
    BY <1>t, <2>2, Zenon DEF SameTask, TaskRecord
  <2>5. (~l.sawSchedule => x.schedule = NoDigest) /\ (~l.sawNamespace => x.namespace = "ABSENT")
    BY <2>1, <2>4, Zenon
  <2>6. Progress(l, x)
    BY <2>3, <2>4, <2>5, Zenon DEF Progress, RemovalProgress, SameTask
  <2>7. QED
    BY <1>w, <2>3, <2>4, <2>6
<1>5. CASE DeleteSchedule(a)
  <2>0. k.step = "INSPECTED" /\ InTime(a)
    BY <1>0, <1>5 DEF DeleteSchedule
  <2>1. PICK l, y : l = [k EXCEPT !.step = "NAMESPACE"] /\ y = [x EXCEPT !.schedule = NoDigest]
    OBVIOUS
  <2>2. /\ SameTask(k, l) /\ l.step = "NAMESPACE" /\ l.sawNamespace = k.sawNamespace
        /\ y.schedule = NoDigest /\ y.namespace = x.namespace
    <3>1. SameTask(k, l) /\ l.step = "NAMESPACE" /\ l.sawNamespace = k.sawNamespace
      BY <1>t, <2>1, Zenon DEF SameTask, TaskRecord
    <3>2. y.schedule = NoDigest /\ y.namespace = x.namespace
      BY <1>t, <2>1, Zenon DEF TargetRecord
    <3>3. QED
      BY <3>1, <3>2, Zenon
  <2>3. /\ Progress(k, x) => Progress(l, y)
        /\ ~k.sawSchedule /\ Progress(k, x) => Progress(l, x)
    BY <2>0, <2>2, Zenon DEF Progress, RemovalProgress, ApplyProgress, SameTask
  <2>4. CASE task' = [task EXCEPT ![a] = l] /\ k.sawSchedule /\ target' = [target EXCEPT ![t] = y]
    BY <1>w, <2>0, <2>2, <2>3, <2>4
  <2>5. CASE task' = [task EXCEPT ![a] = l] /\ ~k.sawSchedule /\ UNCHANGED target
    BY <1>w, <2>2, <2>3, <2>5
  <2>6. \/ Finish(a, "PENDING") /\ UNCHANGED target
        \/ /\ task' = [task EXCEPT ![a] = l]
           /\ \/ k.sawSchedule /\ target' = [target EXCEPT ![t] = y]
              \/ ~k.sawSchedule /\ UNCHANGED target
    BY <1>0, <1>5, <2>1 DEF DeleteSchedule, Advance
  <2>7. QED
    BY <1>e, <2>4, <2>5, <2>6
<1>6. CASE DeleteNamespace(a)
  <2>0. k.step = "NAMESPACE" /\ k.action = "DELETE" /\ InTime(a)
    BY <1>0, <1>6 DEF DeleteNamespace
  <2>1. PICK y, z : y = [x EXCEPT !.namespace = "ABSENT", !.digest = NoDigest] /\ z = [x EXCEPT !.namespace = "TERMINATING"]
    OBVIOUS
  <2>2. y.namespace = "ABSENT" /\ y.schedule = x.schedule
    BY <1>t, <2>1, Zenon DEF TargetRecord
  <2>3. \/ Finish(a, "SUCCESS") /\ k.sawNamespace /\ target' = [target EXCEPT ![t] = y]
        \/ Finish(a, "SUCCESS") /\ ~k.sawNamespace /\ UNCHANGED target
        \/ Finish(a, "PENDING") /\ target' = [target EXCEPT ![t] = z]
        \/ Finish(a, "PENDING") /\ UNCHANGED target
    BY <1>0, <1>6, <2>1 DEF DeleteNamespace
  <2>4. ASSUME Finish(a, "SUCCESS"),
               \/ k.sawNamespace /\ target' = [target EXCEPT ![t] = y]
               \/ ~k.sawNamespace /\ UNCHANGED target
        PROVE  AgentWorks(a)
    <3>1. PICK l : task' = [task EXCEPT ![a] = l] /\ SameTask(k, l) /\ l.step = "DONE" /\ l.outcome = "SUCCESS"
      BY <1>f, <2>4
    <3>2. /\ Progress(k, x) => Progress(l, y)
          /\ ~k.sawNamespace /\ Progress(k, x) => Progress(l, x)
      BY <2>0, <2>2, <3>1, Zenon DEF Progress, RemovalProgress, Removed, SameTask
    <3>3. QED
      BY <1>w, <2>0, <2>4, <3>1, <3>2
  <2>5. ASSUME Finish(a, "PENDING"), target' = [target EXCEPT ![t] = z] PROVE AgentWorks(a)
    <3>1. PICK l : task' = [task EXCEPT ![a] = l] /\ SameTask(k, l) /\ l.step = "DONE" /\ l.outcome = "PENDING"
      BY <1>f, <2>5
    <3>2. Progress(l, z)
      BY <3>1 DEF Progress, RemovalProgress, ApplyProgress
    <3>3. QED
      BY <1>w, <2>0, <2>5, <3>1, <3>2
  <2>6. QED
    BY <1>e, <2>3, <2>4, <2>5
<1>7. QED
  BY <1>1, <1>2, <1>3, <1>4, <1>5, <1>6 DEF AgentStep

\* A step of one agent disturbs neither another's work nor a tenant at rest.
LEMMA AgentKeepsTarget ==
  ASSUME IInv, TargetInv, NEW a \in Agents, AgentWorks(a)
  PROVE  TargetInv'
<1> USE DEF IInv, TypeOK
<1>1. PICK k, l, t : k = task[a] /\ l = task'[a] /\ t = k.tenant
  OBVIOUS
<1>2. /\ Busy(a) /\ SameTask(k, l) /\ t \in Tenants
      /\ \A b \in Agents : b # a => task'[b] = task[b]
      /\ UNCHANGED tenant
  BY <1>1 DEF AgentWorks, WorkIsBound, Busy
<1>3. \A u \in Tenants : target'[u] # target[u] => u = t /\ Current(k, tenant[t])
  BY <1>1, <1>2 DEF AgentWorks, InTime, Current
<1>4. TokensOwn'
  BY <1>1, <1>2 DEF TargetInv, TokensOwn, Busy, SameTask
<1>5. WorkFits'
  <2> SUFFICES ASSUME NEW b \in Agents, Busy(b)', Current(task[b], tenant[task[b].tenant])'
               PROVE  Fits(task[b], tenant[task[b].tenant])' /\ Progress(task[b], target[task[b].tenant])'
    BY DEF WorkFits, Works
  <2>1. CASE b = a
    <3>1. Current(k, tenant[t]) /\ InTime(a)
      BY <1>1, <1>2, <2>1 DEF Current, SameTask, InTime
    <3>2. Fits(k, tenant[t]) /\ Progress(k, target[t])
      BY <1>1, <1>2, <3>1 DEF TargetInv, WorkFits, Works
    <3>3. Fits(l, tenant[t])
      BY <1>2, <3>2 DEF Fits, SameTask
    <3>4. Progress(l, target'[t])
      BY <1>1, <3>1, <3>2 DEF AgentWorks
    <3>5. QED
      BY <1>1, <1>2, <2>1, <3>3, <3>4 DEF SameTask
  <2>2. CASE b # a
    <3>1. task'[b] = task[b] /\ Busy(b) /\ Current(task[b], tenant[task[b].tenant])
      BY <1>2, <2>2 DEF Busy
    <3>2. task[b].tenant \in Tenants
      BY <3>1 DEF WorkIsBound, Busy
    <3>3. target'[task[b].tenant] = target[task[b].tenant]
      BY <1>1, <1>2, <1>3, <2>2, <3>1, <3>2 DEF TargetInv, TokensOwn, Current
    <3>4. QED
      BY <1>2, <3>1, <3>3 DEF TargetInv, WorkFits, Works
  <2>3. QED
    BY <2>1, <2>2
<1>6. RestKept'
  <2> SUFFICES ASSUME NEW u \in Tenants PROVE Kept(tenant[u], target'[u])
    BY <1>2 DEF RestKept
  <2>1. CASE target'[u] = target[u]
    BY <2>1 DEF TargetInv, RestKept
  <2>2. CASE target'[u] # target[u]
    BY <1>3, <2>2 DEF Current, RecordInv, LeaseWhileExecuting, ExecutingStates, Kept
  <2>3. QED
    BY <2>1, <2>2
<1>7. QED
  BY <1>4, <1>5, <1>6 DEF TargetInv

\* A quiet move takes nobody's work away and puts no tenant to rest.
LEMMA QuietKeeps ==
  ASSUME NEW r, NEW s, QuietMoves(r, s), r.lease # "NONE" => r.state \in ExecutingStates
  PROVE  /\ s.fence = r.fence
         /\ \A k : Current(k, s) => Current(k, r) /\ (Fits(k, r) => Fits(k, s))
         /\ \A x : Kept(r, x) => Kept(s, x)
<1>1. CASE Asked(r, s)
  <2>1. s.fence = r.fence /\ s.lease # "LIVE"
    BY <1>1 DEF Asked, SameLease
  <2>2. \A x : Kept(r, x) => Kept(s, x)
    BY <1>1 DEF Asked, Kept
  <2>3. QED
    BY <2>1, <2>2 DEF Current
<1>2. CASE GivenUp(r, s)
  BY <1>2 DEF GivenUp, Current, Kept
<1>3. CASE Lapsed(r, s)
  BY <1>3 DEF Lapsed, Current, Kept, SamePlan
<1>4. CASE Governed(r, s) \/ Aside(r, s)
  <2>1. s.fence = r.fence /\ s.lease = r.lease /\ s.state = r.state /\ s.plan = r.plan /\ s.pending = r.pending
    BY <1>4 DEF Governed, Aside, SameLease, SamePlan
  <2>2. \A k : DesiredDigest(r, k.action) = DesiredDigest(s, k.action)
    BY <2>1 DEF DesiredDigest
  <2>3. QED
    BY <2>1, <2>2 DEF Current, Fits, Kept
<1>5. QED
  BY <1>1, <1>2, <1>3, <1>4 DEF QuietMoves

\* Requests, expiries and abandoned deletes leave the target's invariant alone.
LEMMA QuietKeepsTarget ==
  ASSUME IInv, TargetInv, TenantsQuiet, UNCHANGED <<task, target>>
  PROVE  TargetInv'
<1>1. ASSUME NEW t \in Tenants
      PROVE  /\ tenant'[t].fence = tenant[t].fence
             /\ \A k : Current(k, tenant'[t]) => Current(k, tenant[t]) /\ (Fits(k, tenant[t]) => Fits(k, tenant'[t]))
             /\ \A x : Kept(tenant[t], x) => Kept(tenant'[t], x)
  <2>1. QuietMoves(tenant[t], tenant'[t])
    BY DEF TenantsQuiet, QuietMoves
  <2>2. tenant[t].lease # "NONE" => tenant[t].state \in ExecutingStates
    BY DEF IInv, RecordInv, LeaseWhileExecuting
  <2>3. QED
    BY <2>1, <2>2, QuietKeeps
<1>2. \A a \in Agents : Busy(a)' = Busy(a) /\ (Busy(a) => task[a].tenant \in Tenants)
  BY DEF Busy, IInv, WorkIsBound
<1>3. TokensOwn'
  BY <1>1, <1>2 DEF TargetInv, TokensOwn, Busy
<1>4. WorkFits'
  BY <1>1, <1>2 DEF TargetInv, WorkFits, Works, Busy
<1>5. RestKept'
  BY <1>1 DEF TargetInv, RestKept
<1>6. QED
  BY <1>3, <1>4, <1>5 DEF TargetInv

\* What a grant does to the record and to the agent that polled.
LEMMA GrantParts ==
  ASSUME IInv, NEW a \in Agents, NEW t \in Tenants, GrantTask(a, t)
  PROVE  /\ tenant'[t].fence = tenant[t].fence + 1
         /\ SamePlan(tenant[t], tenant'[t]) /\ tenant'[t].state = ExecutingState(tenant[t].state)
         /\ \A u \in Tenants : u # t => tenant'[u] = tenant[u]
         /\ \A b \in Agents : b # a => task'[b] = task[b]
         /\ task'[a].tenant = t /\ task'[a].step = "TAKEN" /\ task'[a].fence = tenant[t].fence + 1
         /\ task'[a].action = ActionOf(tenant'[t].state)
         /\ task'[a].action # "DELETE" => task'[a].digest = DesiredDigest(tenant[t], task'[a].action)
<1> USE DEF IInv, TypeOK
<1>1. PICK r, g, k : r = tenant[t] /\ g = Granted(r) /\ k = TaskOf(t, g)
  OBVIOUS
<1>2. r \in TenantRecord
  BY <1>1
<1>3. g.fence = r.fence + 1 /\ g.plan = r.plan /\ g.pending = r.pending /\ g.state = ExecutingState(r.state)
      /\ g = [x \in DOMAIN g |-> g[x]] /\ DOMAIN g = DOMAIN r
  BY <1>1, <1>2 DEF Granted, TenantRecord
<1>4. PICK s : s = [g EXCEPT !.revision = r.revision + 1]
  OBVIOUS
<1>5. s.fence = g.fence /\ s.plan = g.plan /\ s.pending = g.pending /\ s.state = g.state
  BY <1>2, <1>3, <1>4 DEF TenantRecord
<1>6. tenant' = [tenant EXCEPT ![t] = s] /\ task' = [task EXCEPT ![a] = k]
  BY <1>1, <1>4 DEF GrantTask, Commit
<1>7. tenant'[t] = s /\ task'[a] = k
      /\ (\A u \in Tenants : u # t => tenant'[u] = tenant[u])
      /\ (\A b \in Agents : b # a => task'[b] = task[b])
  BY <1>6
<1>8. /\ k.tenant = t /\ k.step = "TAKEN" /\ k.fence = r.fence + 1
      /\ k.action = ActionOf(ExecutingState(r.state))
      /\ k.action # "DELETE" => k.digest = DesiredDigest(r, k.action)
  BY <1>1, HandedTask
<1>9. QED
  BY <1>1, <1>3, <1>5, <1>7, <1>8 DEF SamePlan

\* A grant makes every older token late, and its own work has just begun.
LEMMA GrantKeepsTarget ==
  ASSUME IInv, IInv', TargetInv, NEW a \in Agents, NEW t \in Tenants,
         task[a].step = "IDLE", GrantTask(a, t), UNCHANGED target
  PROVE  TargetInv'
<1>1. PICK r, s, k : r = tenant[t] /\ s = tenant'[t] /\ k = task'[a]
  OBVIOUS
<1>2. /\ s.fence = r.fence + 1 /\ s.plan = r.plan /\ s.pending = r.pending /\ s.state = ExecutingState(r.state)
      /\ \A u \in Tenants : u # t => tenant'[u] = tenant[u]
      /\ \A b \in Agents : b # a => task'[b] = task[b]
      /\ k.tenant = t /\ k.step = "TAKEN" /\ k.fence = s.fence
      /\ k.action = ActionOf(s.state)
      /\ k.action # "DELETE" => k.digest = DesiredDigest(r, k.action)
  BY <1>1, GrantParts DEF SamePlan
<1>3. r.fence \in Nat
  BY <1>1 DEF IInv, TypeOK, TenantRecord
<1>4. ASSUME NEW b \in Agents, Busy(b)', b # a
      PROVE  /\ task'[b] = task[b] /\ Busy(b) /\ task[b].tenant \in Tenants /\ task[b].fence \in Nat
             /\ task[b].fence <= tenant[task[b].tenant].fence
             /\ tenant[task[b].tenant].fence \in Nat
  <2>1. task'[b] = task[b] /\ Busy(b)
    BY <1>2, <1>4 DEF Busy
  <2>2. task[b].tenant \in Tenants
    BY <2>1 DEF IInv, WorkIsBound, Busy
  <2>3. task[b].fence \in Nat
    BY DEF IInv, TypeOK, TaskRecord
  <2>4. tenant[task[b].tenant].fence \in Nat
    BY <2>2 DEF IInv, TypeOK, TenantRecord
  <2>5. QED
    BY <2>1, <2>2, <2>3, <2>4 DEF TargetInv, TokensOwn
<1>5. ASSUME NEW b \in Agents, Busy(b)', b # a, task[b].tenant = t
      PROVE  task[b].fence < s.fence
  BY <1>1, <1>2, <1>3, <1>4, <1>5
<1>6. TokensOwn'
  <2>1. ASSUME NEW b \in Agents, Busy(b)' PROVE task'[b].fence <= tenant'[task'[b].tenant].fence
    <3>1. CASE b = a
      BY <1>1, <1>2, <1>3, <3>1
    <3>2. CASE b # a /\ task[b].tenant = t
      BY <1>1, <1>2, <1>3, <1>4, <1>5, <2>1, <3>2
    <3>3. CASE b # a /\ task[b].tenant # t
      BY <1>2, <1>4, <2>1, <3>3
    <3>4. QED
      BY <3>1, <3>2, <3>3
  <2>2. ASSUME NEW b \in Agents, Busy(b)', b # a, task'[b].tenant = t PROVE task'[b].fence # k.fence
    <3>1. task[b].fence < s.fence /\ task'[b] = task[b] /\ task[b].fence \in Nat
      BY <1>4, <1>5, <2>2
    <3>2. QED
      BY <1>2, <1>3, <3>1
  <2>3. ASSUME NEW b \in Agents, NEW c \in Agents, b # c, Busy(b)', Busy(c)', task'[b].tenant = task'[c].tenant
        PROVE  task'[b].fence # task'[c].fence
    <3>1. CASE b = a
      BY <1>1, <1>2, <2>2, <2>3, <3>1
    <3>2. CASE c = a
      BY <1>1, <1>2, <2>2, <2>3, <3>2
    <3>3. CASE b # a /\ c # a
      BY <1>4, <2>3, <3>3 DEF TargetInv, TokensOwn
    <3>4. QED
      BY <3>1, <3>2, <3>3
  <2>4. QED
    BY <2>1, <2>3 DEF TokensOwn
<1>7. WorkFits'
  <2> SUFFICES ASSUME NEW b \in Agents, Busy(b)', Current(task[b], tenant[task[b].tenant])'
               PROVE  Fits(task[b], tenant[task[b].tenant])' /\ Progress(task[b], target[task[b].tenant])'
    BY DEF WorkFits, Works
  <2>1. CASE b = a
    <3>1. s.state \in ExecutingStates
      BY <1>2 DEF ExecutingState, ExecutingStates
    <3>2. DesiredDigest(r, k.action) = DesiredDigest(s, k.action)
      BY <1>2 DEF DesiredDigest
    <3>3. Fits(k, s)
      BY <1>2, <3>1, <3>2 DEF Fits
    <3>4. Progress(k, target'[t])
      BY <1>2 DEF Progress, RemovalProgress, ApplyProgress
    <3>5. QED
      BY <1>1, <1>2, <2>1, <3>3, <3>4
  <2>2. CASE b # a
    <3>1. task[b].tenant # t
      BY <1>1, <1>2, <1>3, <1>4, <1>5, <2>2 DEF Current
    <3>2. task'[b] = task[b] /\ Busy(b) /\ tenant'[task[b].tenant] = tenant[task[b].tenant]
      BY <1>2, <1>4, <2>2, <3>1
    <3>3. QED
      BY <3>2 DEF TargetInv, WorkFits, Works
  <2>3. QED
    BY <2>1, <2>2
<1>8. RestKept'
  <2>1. Kept(s, target[t])
    BY <1>2 DEF Kept, ExecutingState
  <2>2. QED
    BY <1>1, <1>2, <2>1 DEF TargetInv, RestKept
<1>9. QED
  BY <1>6, <1>7, <1>8 DEF TargetInv

\* Where a result puts a tenant to rest, the target holds what it says.
LEMMA ReportedRest ==
  ASSUME NEW r \in TenantRecord, NEW k \in TaskRecord, NEW x, k.outcome # "NONE", k.step = "DONE",
         r.state \in ExecutingStates, Fits(k, r), Progress(k, x)
  PROVE  /\ Kept(Reported(k, r), x)
         /\ Reported(k, r).lease = "NONE" /\ Reported(k, r).fence = r.fence
<1>1. PICK s : s = Reported(k, r)
  OBVIOUS
<1>2. CASE k.outcome = "FAILURE"
  <2>1. PICK o : o = IF k.action = "DELETE" THEN "FAILED" ELSE r.op
    OBVIOUS
  <2>2. s = [r EXCEPT !.state = "FAILED", !.lease = "NONE", !.op = o]
    BY <1>1, <1>2, <2>1 DEF Reported
  <2>3. s.state = "FAILED" /\ s.lease = "NONE" /\ s.fence = r.fence
    BY <2>2 DEF TenantRecord
  <2>4. QED
    BY <1>1, <2>3 DEF Kept
<1>3. CASE k.outcome = "PENDING"
  <2>1. s = [r EXCEPT !.lease = "NONE"]
    BY <1>1, <1>3 DEF Reported
  <2>2. s.state \in ExecutingStates /\ s.lease = "NONE" /\ s.fence = r.fence
    BY <2>1 DEF TenantRecord
  <2>3. QED
    BY <1>1, <2>2 DEF Kept, ExecutingStates
<1>4. CASE k.outcome = "SUCCESS" /\ k.action = "DELETE"
  <2>1. s = [r EXCEPT !.state = "DELETED", !.lease = "NONE", !.action = "", !.op = "SUCCEEDED"]
    BY <1>1, <1>4 DEF Reported
  <2>2. s.state = "DELETED" /\ s.lease = "NONE" /\ s.fence = r.fence
    BY <2>1 DEF TenantRecord
  <2>3. Removed(x)
    BY <1>4 DEF Progress, RemovalProgress
  <2>4. QED
    BY <1>1, <2>2, <2>3 DEF Kept
<1>5. CASE k.outcome = "SUCCESS" /\ k.action = "RESIZE"
  <2>1. s = [r EXCEPT !.state = "ACTIVE", !.lease = "NONE", !.action = "", !.current = TRUE,
                      !.plan = r.pending, !.pending = NoPlan]
    BY <1>1, <1>5 DEF Reported
  <2>2. s.state = "ACTIVE" /\ s.lease = "NONE" /\ s.fence = r.fence /\ s.plan = r.pending
    BY <2>1, Zenon DEF TenantRecord
  <2>3. k.digest = <<s.plan, FALSE>>
    <3>1. k.digest = <<r.pending, k.action = "SUSPEND">>
      BY <1>5 DEF Fits, DesiredDigest
    <3>2. (k.action = "SUSPEND") = FALSE
      BY <1>5
    <3>3. QED
      BY <2>2, <3>1, <3>2, Zenon
  <2>4. x = Applied(k.digest)
    BY <1>5 DEF Progress, ApplyProgress
  <2>5. QED
    BY <1>1, <2>2, <2>3, <2>4 DEF Kept
<1>6. CASE k.outcome = "SUCCESS" /\ k.action \notin {"DELETE", "RESIZE"}
  <2>0. PICK v : v = IF k.action = "SUSPEND" THEN "SUSPENDED" ELSE "ACTIVE"
    OBVIOUS
  <2>1. s = [r EXCEPT !.state = v, !.lease = "NONE", !.action = "", !.current = TRUE]
    BY <1>1, <1>6, <2>0 DEF Reported
  <2>2. s.state = v /\ s.lease = "NONE" /\ s.fence = r.fence /\ s.plan = r.plan
    BY <2>1, Zenon DEF TenantRecord
  <2>3. k.digest = <<r.plan, k.action = "SUSPEND">>
    BY <1>6 DEF Fits, DesiredDigest
  <2>4. x = Applied(k.digest)
    BY <1>6 DEF Progress, ApplyProgress
  <2>5. CASE k.action = "SUSPEND"
    <3>1. v = "SUSPENDED" /\ (k.action = "SUSPEND") = TRUE
      BY <2>0, <2>5
    <3>2. k.digest = <<s.plan, TRUE>>
      BY <2>2, <2>3, <3>1, Zenon
    <3>3. QED
      BY <1>1, <2>2, <2>4, <3>1, <3>2 DEF Kept
  <2>6. CASE k.action # "SUSPEND"
    <3>1. v = "ACTIVE" /\ (k.action = "SUSPEND") = FALSE
      BY <2>0, <2>6
    <3>2. k.digest = <<s.plan, FALSE>>
      BY <2>2, <2>3, <3>1, Zenon
    <3>3. QED
      BY <1>1, <2>2, <2>4, <3>1, <3>2 DEF Kept
  <2>7. QED
    BY <2>5, <2>6
<1>7. k.outcome \in {"SUCCESS", "FAILURE", "PENDING"}
  BY DEF TaskRecord
<1>8. QED
  BY <1>2, <1>3, <1>4, <1>5, <1>6, <1>7

\* A report that counts ends the only work in time; one that does not changes nothing.
LEMMA ReportKeepsTarget ==
  ASSUME IInv, TargetInv, NEW a \in Agents, ReportTenantTask(a)
  PROVE  TargetInv'
<1>1. PICK k, t, r : k = task[a] /\ t = k.tenant /\ r = tenant[t]
  OBVIOUS
<1>2. k \in TaskRecord /\ t \in Tenants /\ r \in TenantRecord /\ k.step = "DONE" /\ k.outcome # "NONE" /\ Busy(a)
  BY <1>1 DEF ReportTenantTask, IInv, TypeOK, WorkIsBound, Busy
<1>3. NoTask.step = "IDLE"
  BY DEF NoTask
<1>4. ~Busy(a)' /\ (\A b \in Agents : b # a => task'[b] = task[b]) /\ UNCHANGED target
  BY <1>3 DEF ReportTenantTask, IInv, TypeOK, Busy
<1>5. \A b \in Agents : Busy(b)' => b # a /\ Busy(b) /\ task'[b] = task[b] /\ task[b].tenant \in Tenants
  BY <1>4 DEF Busy, IInv, WorkIsBound
<1>6. /\ \A u \in Tenants : u # t => tenant'[u] = tenant[u]
      /\ tenant'[t].fence = r.fence /\ Kept(tenant'[t], target[t])
      /\ tenant'[t].lease = "LIVE" => tenant'[t] = r
  <2>1. CASE ReportCurrent(k, r) /\ Commit(t, Reported(k, r))
    <3>1. Current(k, r) /\ r.state \in ExecutingStates
      BY <2>1 DEF ReportCurrent, AgentTaskLeaseActive, Current
    <3>2. Fits(k, r) /\ Progress(k, target[t])
      BY <1>1, <1>2, <3>1 DEF TargetInv, WorkFits, Works
    <3>3. PICK g : g = Reported(k, r)
      OBVIOUS
    <3>4. Kept(g, target[t]) /\ g.lease = "NONE" /\ g.fence = r.fence
      BY <1>2, <3>1, <3>2, <3>3, ReportedRest
    <3>5. g \in TenantRecord
      BY <1>2, <2>1, <3>3, ReportedMoves
    <3>6. PICK s : s = [g EXCEPT !.revision = r.revision + 1]
      OBVIOUS
    <3>7. s.state = g.state /\ s.plan = g.plan /\ s.lease = g.lease /\ s.fence = g.fence
      BY <3>5, <3>6 DEF TenantRecord
    <3>8. tenant' = [tenant EXCEPT ![t] = s]
      BY <1>1, <2>1, <3>3, <3>6 DEF Commit
    <3>9. tenant'[t] = s /\ \A u \in Tenants : u # t => tenant'[u] = tenant[u]
      BY <1>2, <3>8 DEF IInv, TypeOK
    <3>10. Kept(s, target[t])
      BY <3>4, <3>7 DEF Kept
    <3>11. QED
      BY <3>4, <3>7, <3>9, <3>10
  <2>2. CASE UNCHANGED tenant
    BY <1>1, <1>2, <2>2 DEF TargetInv, RestKept
  <2>3. QED
    BY <1>1, <2>1, <2>2 DEF ReportTenantTask
<1>7. TokensOwn'
  BY <1>1, <1>5, <1>6 DEF TargetInv, TokensOwn
<1>8. WorkFits'
  <2> SUFFICES ASSUME NEW b \in Agents, Busy(b)', Current(task[b], tenant[task[b].tenant])'
               PROVE  Fits(task[b], tenant[task[b].tenant])' /\ Progress(task[b], target[task[b].tenant])'
    BY DEF WorkFits, Works
  <2>1. tenant'[task[b].tenant] = tenant[task[b].tenant] /\ Busy(b) /\ task'[b] = task[b]
    BY <1>1, <1>5, <1>6 DEF Current
  <2>2. QED
    BY <1>4, <2>1 DEF TargetInv, WorkFits, Works
<1>9. RestKept'
  BY <1>4, <1>6 DEF TargetInv, RestKept
<1>10. QED
  BY <1>7, <1>8, <1>9 DEF TargetInv

\* An agent that forgets its task takes nothing away.
LEMMA CrashKeepsTarget ==
  ASSUME IInv, TargetInv, NEW a \in Agents, AgentCrash(a)
  PROVE  TargetInv'
<1>1. NoTask.step = "IDLE"
  BY DEF NoTask
<1>2. ~Busy(a)' /\ (\A b \in Agents : b # a => task'[b] = task[b]) /\ UNCHANGED <<tenant, target>>
  BY <1>1 DEF AgentCrash, IInv, TypeOK, Busy
<1>3. \A b \in Agents : Busy(b)' => b # a /\ Busy(b) /\ task'[b] = task[b]
  BY <1>2 DEF Busy
<1>4. TokensOwn'
  BY <1>2, <1>3 DEF TargetInv, TokensOwn
<1>5. WorkFits'
  BY <1>2, <1>3 DEF TargetInv, WorkFits, Works
<1>6. RestKept'
  BY <1>2 DEF TargetInv, RestKept
<1>7. QED
  BY <1>4, <1>5, <1>6 DEF TargetInv

\* A namespace that terminates belongs to no tenant at rest and to no finished work.
LEMMA GoneKeepsTarget ==
  ASSUME IInv, TargetInv, NEW t \in Tenants, NamespaceGone(t)
  PROVE  TargetInv'
<1>1. PICK x, y : x = target[t] /\ y = [x EXCEPT !.namespace = "ABSENT", !.digest = NoDigest]
  OBVIOUS
<1>2. x \in TargetRecord /\ x.namespace = "TERMINATING" /\ UNCHANGED <<tenant, task>>
      /\ target' = [target EXCEPT ![t] = y]
  BY <1>1 DEF NamespaceGone, IInv, TypeOK
<1>3. target'[t] = y /\ \A u \in Tenants : u # t => target'[u] = target[u]
  BY <1>2 DEF IInv, TypeOK
<1>4. y.namespace = "ABSENT" /\ y.schedule = x.schedule
  BY <1>1, <1>2 DEF TargetRecord
<1>5. \A d : Applied(d).namespace = "PRESENT"
  BY DEF Applied
<1>6. \A k : Progress(k, x) => Progress(k, y)
  BY <1>2, <1>4, <1>5 DEF Progress, RemovalProgress, ApplyProgress, Removed
<1>7. \A r : Kept(r, x) => Kept(r, y)
  BY <1>2, <1>4, <1>5 DEF Kept, Removed
<1>8. TokensOwn'
  BY <1>2 DEF TargetInv, TokensOwn, Busy
<1>9. WorkFits'
  <2> SUFFICES ASSUME NEW b \in Agents, Busy(b), Current(task[b], tenant[task[b].tenant])
               PROVE  Fits(task[b], tenant[task[b].tenant]) /\ Progress(task[b], target'[task[b].tenant])
    BY <1>2 DEF WorkFits, Works, Busy
  <2>1. Fits(task[b], tenant[task[b].tenant]) /\ Progress(task[b], target[task[b].tenant])
    BY DEF TargetInv, WorkFits, Works
  <2>2. task[b].tenant \in Tenants
    BY DEF IInv, WorkIsBound, Busy
  <2>3. CASE task[b].tenant = t
    BY <1>1, <1>3, <1>6, <2>1, <2>3
  <2>4. CASE task[b].tenant # t
    BY <1>3, <2>1, <2>2, <2>4
  <2>5. QED
    BY <2>3, <2>4
<1>10. RestKept'
  BY <1>1, <1>2, <1>3, <1>7 DEF TargetInv, RestKept
<1>11. QED
  BY <1>8, <1>9, <1>10 DEF TargetInv

\* Every step keeps the invariant of the target.
LEMMA TargetInvStep ==
  ASSUME IInv, IInv', TargetInv, [Next]_vars
  PROVE  TargetInv'
<1>0. TypeOK /\ WorkIsBound /\ tenant \in [Tenants -> TenantRecord] /\ UncreatedIsBlank
  BY DEF IInv, TypeOK, RecordInv
<1>1. ASSUME NEW t \in Tenants, ClientRequest(t) PROVE TargetInv'
  <2>1. TenantsQuiet
    BY <1>0, <1>1, RequestMoves, GovernanceMoves DEF ClientRequest, UncreatedIsBlank
  <2>2. UNCHANGED <<task, target>>
    BY <1>1 DEF ClientRequest, CreateTenant, QueueTenantResize, QueueTenantSuspend,
                QueueTenantResume, QueueTenantDelete, QueueTenantRetry, ApproveTenantAction,
                ApproveOperationAndQueue, RequestOperationCancellation, QueueTenantDeleteFails
  <2>3. QED
    BY <2>1, <2>2, QuietKeepsTarget
<1>2. ASSUME NEW t \in Tenants, LeaseExpires(t) \/ RecoveryInvalidated(t) PROVE TargetInv'
  <2>1. UNCHANGED <<task, target>>
    BY <1>2 DEF LeaseExpires, RecoveryInvalidated
  <2>2. QED
    BY <1>0, <1>2, <2>1, EnvironmentMoves, QuietKeepsTarget
<1>3. CASE ContractRaised
  <2>1. UNCHANGED <<task, target>>
    BY <1>3 DEF ContractRaised
  <2>2. QED
    BY <1>0, <1>3, <2>1, EnvironmentMoves, QuietKeepsTarget
<1>4. ASSUME NEW a \in Agents, NEW t \in Tenants, NextTenantTask(a, t) PROVE TargetInv'
  <2>1. task[a].step = "IDLE" /\ Runnable(tenant[t]) /\ UNCHANGED target
    BY <1>4 DEF NextTenantTask, Oldest
  <2>2. CASE FailExpiredDelete(t)
    BY <1>0, <2>1, <2>2, GiveUpQuiet, QuietKeepsTarget DEF FailExpiredDelete
  <2>3. CASE GrantTask(a, t)
    BY <2>1, <2>3, GrantKeepsTarget
  <2>4. QED
    BY <1>4, <2>2, <2>3 DEF NextTenantTask
<1>5. ASSUME NEW a \in Agents, AgentStep(a) PROVE TargetInv'
  BY <1>0, <1>5, AgentStepWorks, AgentKeepsTarget
<1>6. ASSUME NEW a \in Agents, ReportTenantTask(a) PROVE TargetInv'
  BY <1>6, ReportKeepsTarget
<1>7. ASSUME NEW a \in Agents, AgentCrash(a) PROVE TargetInv'
  BY <1>7, CrashKeepsTarget
<1>8. ASSUME NEW t \in Tenants, NamespaceGone(t) PROVE TargetInv'
  BY <1>8, GoneKeepsTarget
<1>9. CASE UNCHANGED <<tenant, target, task>>
  BY <1>9 DEF TargetInv, TokensOwn, WorkFits, RestKept, Busy
<1>10. HeartbeatLost \/ HeartbeatFresh \/ UNCHANGED vars => UNCHANGED <<tenant, target, task>>
  BY DEF HeartbeatLost, HeartbeatFresh, vars
<1>11. QED
  BY <1>1, <1>2, <1>3, <1>4, <1>5, <1>6, <1>7, <1>8, <1>9, <1>10 DEF Next, Environment

\* The work in time is the work of the record, and a tenant at rest is what the
\* cluster holds: the inductive invariant of the target holds throughout.
THEOREM TargetInvariant == Spec => []TargetInv
<1>1. Init => TargetInv
  <2> SUFFICES ASSUME Init PROVE TargetInv
    OBVIOUS
  <2>1. \A a \in Agents : ~Busy(a)
    BY DEF Init, NoTask, Busy
  <2>2. \A t \in Tenants : tenant[t].state = "NONE"
    BY DEF Init, NoTenant
  <2>3. QED
    BY <2>1, <2>2 DEF TargetInv, TokensOwn, WorkFits, RestKept, Kept
<1>2. IInv /\ IInv' /\ TargetInv /\ [Next]_vars => TargetInv'
  BY TargetInvStep
<1>3. QED
  BY <1>1, <1>2, TenantInvariant, PTL DEF Spec

\* What the hub says of a tenant at rest is what the cluster holds, whatever
\* number of agents, lapsed leases and half-done attempts it went through.
THEOREM RestIsApplied == Spec => []AcceptedIsApplied
<1>1. TargetInv => AcceptedIsApplied
  <2> SUFFICES ASSUME TargetInv, NEW t \in Tenants,
                      tenant[t].state \in {"ACTIVE", "RESIZE_APPROVAL", "SUSPENDED"}
               PROVE  target[t] = Applied(<<tenant[t].plan, tenant[t].state = "SUSPENDED">>)
    BY Zenon DEF AcceptedIsApplied, Applied
  <2>1. Kept(tenant[t], target[t])
    BY DEF TargetInv, RestKept
  <2>2. CASE tenant[t].state = "SUSPENDED"
    <3>1. (tenant[t].state = "SUSPENDED") = TRUE /\ target[t] = Applied(<<tenant[t].plan, TRUE>>)
      BY <2>1, <2>2, Zenon DEF Kept
    <3>2. QED
      BY <3>1, Zenon
  <2>3. CASE tenant[t].state # "SUSPENDED"
    <3>1. target[t] = Applied(<<tenant[t].plan, FALSE>>)
      BY <2>1, <2>3 DEF Kept
    <3>2. (tenant[t].state = "SUSPENDED") = FALSE
      BY <2>3, Zenon
    <3>3. QED
      BY <3>1, <3>2, Zenon
  <2>4. QED
    BY <2>2, <2>3
<1>2. QED
  BY <1>1, TargetInvariant, PTL

\* A deleted tenant has left no namespace and no backup schedule behind, and no
\* late agent ever puts one back.
THEOREM DeletedIsGone == Spec => []DeletedLeavesNothing
<1>1. TargetInv => DeletedLeavesNothing
  BY DEF TargetInv, RestKept, Kept, Removed, DeletedLeavesNothing
<1>2. QED
  BY <1>1, TargetInvariant, PTL

=============================================================================
