------------------------ MODULE DeploymentTargetProofs ------------------------
(***************************************************************************)
(* TLAPS proof that what a deployment reported as done stays done.         *)
(*                                                                         *)
(* The argument: among the requests that the API server has not decided    *)
(* yet at most one can still change an object.  It belongs to an operation *)
(* that is in hand or whose outcome is unknown; as long as nobody gives    *)
(* such an outcome up, the operation fences the binding until the agent    *)
(* has seen the answer, or has read back that the request changes nothing. *)
(***************************************************************************)
EXTENDS DeploymentExecutionProofs

-----------------------------------------------------------------------------
(* How an operation moves on. *)

\* A request of the operation may still be on its way.
Ambiguous(op) == InHand(op) \/ (op.state = "FAILED" /\ op.failure = "UNKNOWN")

\* An ambiguity was cancelled instead of resolved.
GivenUp == \E o \in DOMAIN ops : ops[o].state = "CANCELLED" /\ ops[o].failure = "UNKNOWN"

\* The task names the revision its operation is at, and the operation waits for the
\* attempt's end, or for its recovery.
Cur(u)        == ops[u.op].revision = u.revision
Awaited(u)    == Cur(u) /\ InHand(ops[u.op])
Unresolved(u) == Cur(u) /\ ops[u.op].state = "FAILED" /\ ops[u.op].failure = "UNKNOWN"

\* The tasks that may be concluded without an ambiguity.
Conclusive ==
  {calls[h].task : h \in {g \in Handlers : calls[g].pc = "fail"}}
    \cup {r.task : r \in {q \in reports : q.result \in {"failed", "success"}}}

EndsNow(o)      == \E u \in Conclusive : u.op = o /\ Awaited(u)
SucceedsNow(o)  == \E r \in reports : r.result = "success" /\ r.task.op = o /\ Awaited(r.task)
ConfirmedNow(o) == \E r \in reports : r.result = "confirmed" /\ r.task.op = o /\ Unresolved(r.task)

\* What a step makes of operation o.
Outcome(o, new) ==
  /\ new.revision = ops[o].revision => new.state = ops[o].state /\ new.failure = ops[o].failure
  /\ ops[o].state = "CANCELLED" => new.state = "CANCELLED" /\ new.failure = ops[o].failure
  /\ Ambiguous(ops[o]) => \/ Ambiguous(new) \/ EndsNow(o) \/ ConfirmedNow(o)
                          \/ new.state = "CANCELLED" /\ new.failure = "UNKNOWN"
  /\ new.state = "SUCCEEDED" => ops[o].state = "SUCCEEDED" \/ SucceedsNow(o) \/ ConfirmedNow(o)

\* The failure a rewritten record carries.
LEMMA FailuresWritten ==
  ASSUME NEW op \in OperationRow, NEW class \in {"UNKNOWN", "PERMANENT", "DEPENDENCY_UNAVAILABLE"}
  PROVE  /\ Queued(op) = op \/ (op.state = "AWAITING_APPROVAL" /\ Queued(op).state = "QUEUED"
                                  /\ Queued(op).revision = op.revision + 2)
         /\ Claimed(op).failure = op.failure /\ CancelRequested(op).failure = op.failure
         /\ Failed(op, class).failure = class /\ (class = "UNKNOWN" => Failed(op, class).state = "FAILED")
<1> USE DEF OperationRow
<1>1. Queued(op) = op \/ (op.state = "AWAITING_APPROVAL" /\ Queued(op).state = "QUEUED"
                            /\ Queued(op).revision = op.revision + 2)
  BY DEF Queued
<1>2. Claimed(op).failure = op.failure
  BY DEF Claimed
<1>3. CancelRequested(op).failure = op.failure
  BY DEF CancelRequested
<1>4. Failed(op, class).failure = class /\ (class = "UNKNOWN" => Failed(op, class).state = "FAILED")
  BY DEF Failed
<1> QED
  BY <1>1, <1>2, <1>3, <1>4

\* Each way to rewrite a record is such an outcome.
LEMMA OutcomesWritten ==
  ASSUME NEW o \in DOMAIN ops, ops[o] \in OperationRow,
         NEW class \in {"UNKNOWN", "PERMANENT", "DEPENDENCY_UNAVAILABLE"}
  PROVE  /\ Outcome(o, Queued(ops[o]))
         /\ ops[o].state \notin {"SUCCEEDED", "CANCELLED", "CANCEL_REQUESTED"} => Outcome(o, CancelRequested(ops[o]))
         /\ ClaimAccepts(ops[o]) => Outcome(o, Claimed(ops[o]))
         /\ ops[o].state = "QUEUED" => Outcome(o, Started(ops[o]))
         /\ ops[o].state = "RUNNING" /\ (class = "UNKNOWN" \/ EndsNow(o)) => Outcome(o, Failed(ops[o], class))
         /\ ops[o].state = "RUNNING" /\ EndsNow(o) /\ SucceedsNow(o) => Outcome(o, Succeeded(ops[o]))
         /\ ops[o].state = "FAILED" /\ ConfirmedNow(o) => Outcome(o, Resolved(ops[o]))
<1>0. ops[o].revision \in Nat
  BY DEF OperationRow
<1> USE DEF Outcome, Ambiguous, InHand
<1>1. Outcome(o, Queued(ops[o]))
  <2>1. \/ Queued(ops[o]) = ops[o]
        \/ ops[o].state = "AWAITING_APPROVAL" /\ Queued(ops[o]).state = "QUEUED" /\ Queued(ops[o]).revision = ops[o].revision + 2
    BY FailuresWritten
  <2> QED
    BY <1>0, <2>1
<1>2. ASSUME ops[o].state \notin {"SUCCEEDED", "CANCELLED", "CANCEL_REQUESTED"} PROVE Outcome(o, CancelRequested(ops[o]))
  <2>1. /\ ops[o].revision < CancelRequested(ops[o]).revision
        /\ CancelRequested(ops[o]).state = (IF ops[o].state = "RUNNING" THEN "CANCEL_REQUESTED" ELSE "CANCELLED")
        /\ CancelRequested(ops[o]) \in OperationRow
    BY FieldsWritten, RecordsWritten
  <2>2. CancelRequested(ops[o]).failure = ops[o].failure
    BY FailuresWritten
  <2> QED
    BY <1>0, <1>2, <2>1, <2>2 DEF OperationRow
<1>3. ASSUME ClaimAccepts(ops[o]) PROVE Outcome(o, Claimed(ops[o]))
  <2>1. /\ ops[o].revision < Claimed(ops[o]).revision
        /\ Claimed(ops[o]).state = (IF ops[o].state = "RETRY_WAIT" THEN "QUEUED" ELSE ops[o].state)
    BY FieldsWritten
  <2>2. ops[o].revision # Claimed(ops[o]).revision
    BY <1>0, <2>1 DEF Claimed, OperationRow
  <2> QED
    BY <1>3, <2>1, <2>2 DEF ClaimAccepts
<1>4. ASSUME ops[o].state = "QUEUED" PROVE Outcome(o, Started(ops[o]))
  <2>1. Started(ops[o]).revision = ops[o].revision + 1 /\ Started(ops[o]).state = "RUNNING"
    BY FieldsWritten
  <2> QED
    BY <1>0, <1>4, <2>1
<1>5. ASSUME ops[o].state = "RUNNING", class = "UNKNOWN" \/ EndsNow(o) PROVE Outcome(o, Failed(ops[o], class))
  <2>1. /\ ops[o].revision < Failed(ops[o], class).revision /\ Failed(ops[o], class) \in OperationRow
        /\ Failed(ops[o], class).state \in {"FAILED", "RETRY_WAIT"}
    BY FieldsWritten, RecordsWritten
  <2>2. Failed(ops[o], class).failure = class /\ (class = "UNKNOWN" => Failed(ops[o], class).state = "FAILED")
    BY FailuresWritten
  <2> QED
    BY <1>0, <1>5, <2>1, <2>2 DEF OperationRow
<1>6. ASSUME ops[o].state = "RUNNING", EndsNow(o), SucceedsNow(o) PROVE Outcome(o, Succeeded(ops[o]))
  <2>1. ops[o].revision < Succeeded(ops[o]).revision /\ Succeeded(ops[o]) \in OperationRow
    BY FieldsWritten, RecordsWritten
  <2> QED
    BY <1>0, <1>6, <2>1 DEF OperationRow
<1>7. ASSUME ops[o].state = "FAILED", ConfirmedNow(o) PROVE Outcome(o, Resolved(ops[o]))
  <2>1. ops[o].revision < Resolved(ops[o]).revision /\ Resolved(ops[o]) \in OperationRow
    BY FieldsWritten, RecordsWritten
  <2> QED
    BY <1>0, <1>7, <2>1 DEF OperationRow
<1> QED
  BY <1>1, <1>2, <1>3, <1>4, <1>5, <1>6, <1>7

\* Every step of clients, hub, agent, cluster and clock has such outcomes.
LEMMA OutcomesStep == RecordsTyped /\ [Next]_vars => \A o \in DOMAIN ops : Outcome(o, ops'[o])
<1> DEFINE Moved == \A o \in DOMAIN ops : Outcome(o, ops'[o])
<1> SUFFICES ASSUME RecordsTyped, [Next]_vars PROVE Moved
  OBVIOUS
<1>0. /\ \A o \in DOMAIN ops : ops[o] \in OperationRow
      /\ ops \in Seq(OperationRow) /\ DOMAIN ops = 1..Len(ops) /\ Len(ops) \in Nat
  BY TaskParts DEF RecordsTyped, OpsTyped
<1>s. \A o \in DOMAIN ops : Outcome(o, ops[o])
  BY DEF Outcome
<1>1. ASSUME UNCHANGED ops PROVE Moved
  BY <1>1, <1>s
<1>r. ASSUME NEW o \in DOMAIN ops, NEW new, Outcome(o, new), ops' = [ops EXCEPT ![o] = new] PROVE Moved
  <2>1. ops'[o] = new /\ \A p \in DOMAIN ops : p # o => ops'[p] = ops[p]
    BY <1>0, <1>r
  <2> QED
    BY <1>r, <1>s, <2>1
<1> HIDE DEF Moved
<1>2. ASSUME NEW c \in Clients, CreateExclusiveOperation(c) PROVE Moved
  <2>1. UNCHANGED ops \/ ops' = Append(ops, NewOperation(building[c]))
    BY <1>2 DEF CreateExclusiveOperation
  <2>2. \A o \in DOMAIN ops : ops'[o] = ops[o]
    BY <1>0, <2>1
  <2> QED
    BY <1>s, <2>2 DEF Moved
<1>w. ASSUME NEW o \in DOMAIN ops, NEW class \in {"UNKNOWN", "PERMANENT", "DEPENDENCY_UNAVAILABLE"}
      PROVE  /\ Outcome(o, Queued(ops[o]))
             /\ ops[o].state \notin {"SUCCEEDED", "CANCELLED", "CANCEL_REQUESTED"} => Outcome(o, CancelRequested(ops[o]))
             /\ ClaimAccepts(ops[o]) => Outcome(o, Claimed(ops[o]))
             /\ ops[o].state = "QUEUED" => Outcome(o, Started(ops[o]))
             /\ ops[o].state = "RUNNING" /\ (class = "UNKNOWN" \/ EndsNow(o)) => Outcome(o, Failed(ops[o], class))
             /\ ops[o].state = "RUNNING" /\ EndsNow(o) /\ SucceedsNow(o) => Outcome(o, Succeeded(ops[o]))
             /\ ops[o].state = "FAILED" /\ ConfirmedNow(o) => Outcome(o, Resolved(ops[o]))
  BY <1>0, OutcomesWritten
<1>3. ASSUME NEW o \in DOMAIN ops, ApproveOperationAndQueue(o) PROVE Moved
  BY <1>3, <1>r, <1>w DEF ApproveOperationAndQueue
<1>4. ASSUME NEW o \in DOMAIN ops, RequestOperationCancellation(o) PROVE Moved
  BY <1>4, <1>r, <1>w DEF RequestOperationCancellation
<1>5. CASE ClientStep
  BY <1>1, <1>2, <1>3, <1>4, <1>5
  DEF ClientStep, BuildRequest, ValidateApproval, PromoteEnvironmentBinding, RevokeWorkspaceBinding
<1>6. ASSUME NEW h \in Handlers, ClaimOperation(h) PROVE Moved
  <2>1. PICK o \in calls[h].jobs :
          \/ UNCHANGED ops
          \/ ClaimAccepts(ops[o]) /\ ops' = [ops EXCEPT ![o] = Claimed(ops[o])]
    BY <1>6 DEF ClaimOperation
  <2>2. o \in DOMAIN ops
    BY <1>6, <2>1, TaskParts DEF ClaimOperation
  <2>3. ClaimAccepts(ops[o]) => Outcome(o, Claimed(ops[o]))
    BY <1>w, <2>2
  <2> QED
    BY <1>1, <1>r, <2>1, <2>2, <2>3
<1>7. ASSUME NEW h \in Handlers, StartOperationAttempt(h) PROVE Moved
  <2>1. PICK o : o = calls[h].task.op
    OBVIOUS
  <2>2. o \in DOMAIN ops
    BY <1>7, <2>1, TaskParts DEF StartOperationAttempt, StartingPcs
  <2>3. UNCHANGED ops \/ (ops[o].state = "QUEUED" /\ ops' = [ops EXCEPT ![o] = Started(ops[o])])
    BY <1>7, <2>1 DEF StartOperationAttempt, CanStart
  <2>4. ops[o].state = "QUEUED" => Outcome(o, Started(ops[o]))
    BY <1>w, <2>2
  <2> QED
    BY <1>1, <1>r, <2>2, <2>3, <2>4
<1>f. ASSUME NEW o \in DOMAIN ops, NEW class \in {"UNKNOWN", "PERMANENT", "DEPENDENCY_UNAVAILABLE"},
             ops[o].state = "RUNNING", class = "UNKNOWN" \/ EndsNow(o), ops' = [ops EXCEPT ![o] = Failed(ops[o], class)]
      PROVE  Moved
  <2>1. Outcome(o, Failed(ops[o], class))
    BY <1>f, <1>w
  <2> QED
    BY <1>f, <1>r, <2>1
<1>8. ASSUME NEW h \in Handlers, RefuseDispatch(h) PROVE Moved
  <2>1. PICK o : o = calls[h].task.op
    OBVIOUS
  <2>2. o \in DOMAIN ops /\ calls[h].pc = "fail"
    BY <1>8, <2>1, TaskParts DEF RefuseDispatch, StartingPcs
  <2>3. \/ UNCHANGED ops
        \/ /\ ops[o].state = "RUNNING" /\ ops[o].revision = calls[h].task.revision
           /\ ops' = [ops EXCEPT ![o] = Failed(ops[o], "PERMANENT")]
    BY <1>8, <2>1, Zenon DEF RefuseDispatch, Authorised
  <2>4. ops[o].revision = calls[h].task.revision /\ ops[o].state = "RUNNING" => EndsNow(o)
    BY <2>1, <2>2 DEF EndsNow, Conclusive, Awaited, Cur, InHand
  <2> QED
    BY <1>1, <1>f, <2>2, <2>3, <2>4
<1>c. ASSUME NEW r \in reports, r.result \in {"failed", "success"}, ops[r.task.op].revision = r.task.revision,
             ops[r.task.op].state = "RUNNING"
      PROVE  EndsNow(r.task.op) /\ (r.result = "success" => SucceedsNow(r.task.op))
  BY <1>c DEF EndsNow, Conclusive, SucceedsNow, Awaited, Cur, InHand
<1>9. ASSUME NEW r \in reports, ReportFailure(r) PROVE Moved
  <2>1. /\ ops[r.task.op].state = "RUNNING" /\ ops[r.task.op].revision = r.task.revision
        /\ ops' = [ops EXCEPT ![r.task.op] = Failed(ops[r.task.op], FailureClass(r.result))]
    BY <1>9, Zenon DEF ReportFailure, Authorised
  <2>2. r.task.op \in DOMAIN ops /\ r.result \in {"failed", "unknown"}
    BY <1>9, TaskParts DEF ReportFailure
  <2>3. /\ FailureClass(r.result) \in {"UNKNOWN", "PERMANENT", "DEPENDENCY_UNAVAILABLE"}
        /\ r.result = "unknown" => FailureClass(r.result) = "UNKNOWN"
    BY DEF FailureClass
  <2> QED
    BY <1>c, <1>f, <2>1, <2>2, <2>3
<1>10. ASSUME NEW r \in reports, CommitResult(r) PROVE Moved
  <2>1. /\ ops[r.task.op].state = "RUNNING" /\ ops[r.task.op].revision = r.task.revision
        /\ \/ ops' = [ops EXCEPT ![r.task.op] = Failed(ops[r.task.op], "PERMANENT")]
           \/ ops' = [ops EXCEPT ![r.task.op] = Succeeded(ops[r.task.op])]
    BY <1>10, Zenon DEF CommitResult, Authorised
  <2>2. r.task.op \in DOMAIN ops /\ r.result = "success"
    BY <1>10, TaskParts DEF CommitResult
  <2>3. EndsNow(r.task.op) /\ SucceedsNow(r.task.op)
    BY <1>c, <2>1, <2>2
  <2>4. Outcome(r.task.op, Succeeded(ops[r.task.op]))
    BY <1>w, <2>1, <2>2, <2>3
  <2> QED
    BY <1>f, <1>r, <2>1, <2>2, <2>3, <2>4
<1>11. ASSUME NEW r \in reports, ResolveRecovery(r) PROVE Moved
  <2>1. /\ ops[r.task.op].state = "FAILED" /\ ops[r.task.op].failure = "UNKNOWN"
        /\ ops[r.task.op].revision = r.task.revision /\ r.result = "confirmed"
        /\ ops' = [ops EXCEPT ![r.task.op] = Resolved(ops[r.task.op])]
    BY <1>11, Zenon DEF ResolveRecovery
  <2>2. r.task.op \in DOMAIN ops
    BY TaskParts
  <2>3. ConfirmedNow(r.task.op)
    BY <2>1 DEF ConfirmedNow, Unresolved, Cur
  <2>4. Outcome(r.task.op, Resolved(ops[r.task.op]))
    BY <1>w, <2>1, <2>2, <2>3
  <2> QED
    BY <1>r, <2>1, <2>2, <2>4
<1>12. CASE HubStep
  BY <1>1, <1>6, <1>7, <1>8, <1>9, <1>10, <1>11, <1>12
  DEF HubStep, PollNextTask, ReadOperation, ValidateDispatch, RespondTask, ValidateResult, ReportLost, HubRestarts
<1>13. CASE AgentStep
  BY <1>1, <1>13
  DEF AgentStep, ApplyResource, ReadBack, RemoveService, ObserveDeletion, ObserveDeployment, ObserveService,
      AgentError, PollRecoveryTask, RecoverDeployment, RecoverService, AgentRestarts
<1>t. ASSUME NEW o \in DOMAIN ops, NEW new, new.state = ops[o].state, new.failure = ops[o].failure
      PROVE  Outcome(o, new)
  BY <1>t DEF Outcome, Ambiguous, InHand
<1>14. ASSUME NEW o \in DOMAIN ops, LeaseExpires(o) PROVE Moved
  <2>1. PICK new : new = [ops[o] EXCEPT !.lease = "EXPIRED"] /\ ops' = [ops EXCEPT ![o] = new]
    BY <1>14, Zenon DEF LeaseExpires
  <2>2. new.state = ops[o].state /\ new.failure = ops[o].failure
    BY <1>0, <2>1 DEF OperationRow
  <2> QED
    BY <1>r, <1>t, <2>1, <2>2
<1>15. ASSUME NEW o \in DOMAIN ops, RetryBecomesDue(o) PROVE Moved
  <2>1. PICK new : new = [ops[o] EXCEPT !.next = "DUE"] /\ ops' = [ops EXCEPT ![o] = new]
    BY <1>15, Zenon DEF RetryBecomesDue
  <2>2. new.state = ops[o].state /\ new.failure = ops[o].failure
    BY <1>0, <2>1 DEF OperationRow
  <2> QED
    BY <1>r, <1>t, <2>1, <2>2
<1>16. CASE Surroundings
  BY <1>1, <1>14, <1>15, <1>16 DEF Surroundings, DecideWrite, ForeignWrite, InventoryChanges
<1>17. CASE UNCHANGED vars
  BY <1>1, <1>17 DEF vars
<1> QED
  BY <1>5, <1>12, <1>13, <1>16, <1>17 DEF Next

-----------------------------------------------------------------------------
(* What the agent knows when it moves on. *)

\* The agent sends a request: to make what is not there, or to change what it owns.
Sent ==
  /\ \/ agent.pc = "apply" /\ target[agent.kind] = Absent /\ Send(agent.kind, "create")
     \/ agent.pc = "apply" /\ Owned(agent.kind) /\ Send(agent.kind, "apply")
     \/ agent.pc = "clean" /\ Owned("Service") /\ Send("Service", "delete")
  /\ UNCHANGED <<ops, calls, target, version>>

\* A request is decided; somebody else writes.
Decided(w) ==
  /\ wire' = wire \ {w} /\ (IF Lands(w) THEN Write(w) ELSE UNCHANGED <<target, version>>)
  /\ UNCHANGED <<ops, calls>>
Seized(k) ==
  /\ target' = [target EXCEPT ![k] = [owner |-> "FOREIGN", rv |-> version + 1]]
  /\ version' = version + 1 /\ UNCHANGED <<ops, calls, agent, reports, wire>>

\* After this step the agent waits for no answer.
Clear == agent.pc # "wait" \/ agent.write \notin wire'

\* The Service is as the plan of the agent's task wants it.
ServiceMatches == IF Plan.service THEN Matches("Service") ELSE target["Service"] = Absent

\* A report of a step is an earlier one, or what the agent knows by now.
Repeated(r) == \E q \in reports : q.task = r.task /\ q.result = r.result
Found(result) ==
  \/ result = "unknown"
  \/ result = "failed" /\ Executing /\ Clear
  \/ result = "success" /\ agent.pc = "observeService" /\ ServiceMatches /\ UNCHANGED kubeVars
  \/ result = "confirmed" /\ agent.pc = "recoverService" /\ ServiceMatches /\ UNCHANGED kubeVars

\* The agent goes on with its task.
GoesOn == agent'.task = agent.task /\ agent.pc \notin {"idle", "polling"}

WorkMove ==
  /\ Executing' => agent' = agent \/ (\E h \in Handlers : Handover(h)) \/ (Executing /\ GoesOn /\ Clear)
  /\ \A r \in reports' : Repeated(r) \/ (r.task = agent.task /\ Found(r.result))
  /\ agent'.pc = "observeService" => agent' = agent \/ (GoesOn /\ Matches("Deployment") /\ UNCHANGED kubeVars)
  /\ agent'.pc = "recover" => agent' = agent \/ (agent'.task.op \in DOMAIN ops /\ Cur(agent'.task))
  /\ agent'.pc = "recoverService" =>
       agent' = agent \/ (agent.pc = "recover" /\ GoesOn /\ Matches("Deployment") /\ UNCHANGED kubeVars)
  /\ agent'.pc = "apply" => agent' = agent \/ agent'.kind = "Deployment" \/ (GoesOn /\ Plan.service)
  /\ agent'.pc = "clean" => agent' = agent \/ (GoesOn /\ ~Plan.service)

\* What the agent's steps, and the hub's, do with what is known.
LEMMA WorksStep ==
  ASSUME RecordsTyped, [Next]_vars
  PROVE  \/ Sent
         \/ WorkMove /\ \/ UNCHANGED kubeVars
                        \/ \E w \in wire : Decided(w)
                        \/ \E k \in Kinds : Seized(k)
<1> DEFINE Known == \/ Sent
                    \/ WorkMove /\ \/ UNCHANGED kubeVars
                                   \/ \E w \in wire : Decided(w)
                                   \/ \E k \in Kinds : Seized(k)
<1> SUFFICES Known
  OBVIOUS
<1>s. Sent => Known
  OBVIOUS
<1>k. WorkMove /\ UNCHANGED kubeVars => Known
  OBVIOUS
<1>d. ASSUME NEW w \in wire, WorkMove, Decided(w) PROVE Known
  BY <1>d
<1>z. ASSUME NEW k \in Kinds, WorkMove, Seized(k) PROVE Known
  BY <1>z
<1> HIDE DEF Known
<1>1. ASSUME UNCHANGED agent, \A r \in reports' : Repeated(r) PROVE WorkMove
  BY <1>1 DEF WorkMove, Executing
<1>i. ASSUME agent'.pc \in {"idle", "polling"}, \A r \in reports' : Repeated(r) PROVE WorkMove
  BY <1>i DEF WorkMove, Executing
<1>q. \A r \in reports : Repeated(r)
  BY DEF Repeated
<1>f. ASSUME NEW result, Finish(result), Found(result) PROVE WorkMove
  <2>1. PICK q : q = [task |-> agent.task, result |-> result, authority |-> "UNCHECKED"] /\ reports' = reports \cup {q}
    BY <1>f DEF Finish
  <2>2. q.task = agent.task /\ q.result = result
    BY <2>1
  <2>3. \A r \in reports' : Repeated(r) \/ (r.task = agent.task /\ Found(r.result))
    BY <1>f, <1>q, <2>1, <2>2
  <2>4. agent'.pc = "idle"
    BY <1>f DEF Finish, IdleAgent
  <2> QED
    BY <2>3, <2>4 DEF WorkMove, Executing
<1>g. ASSUME NEW pc, Go(pc), Executing, Clear, pc \notin {"recover", "recoverService", "apply"},
             pc = "observeService" => Matches("Deployment") /\ UNCHANGED kubeVars, pc = "clean" => ~Plan.service
      PROVE  WorkMove
  <2>1. agent'.pc = pc /\ GoesOn /\ UNCHANGED reports
    BY <1>g DEF Go, GoesOn, Executing
  <2> QED
    BY <1>g, <1>q, <2>1 DEF WorkMove
<1>w. ASSUME NEW k, NEW pc \in {"apply", "readback"}, agent' = [pc |-> pc, task |-> agent.task, kind |-> k], UNCHANGED reports,
             Executing, Clear, pc = "apply" => Plan.service
      PROVE  WorkMove
  <2>1. agent'.pc = pc /\ GoesOn
    BY <1>w DEF GoesOn, Executing
  <2> QED
    BY <1>q, <1>w, <2>1 DEF WorkMove
<1>2. CASE ApplyResource
  <2>1. agent.pc = "apply" /\ UNCHANGED <<ops, calls, target, version>>
    BY <1>2 DEF ApplyResource, hubVars
  <2>2. \/ target[agent.kind] = Absent /\ Send(agent.kind, "create")
        \/ Owned(agent.kind) /\ Send(agent.kind, "apply")
        \/ Finish("failed") /\ UNCHANGED wire
    BY <1>2, Zenon DEF ApplyResource
  <2>3. Found("failed")
    BY <2>1 DEF Found, Executing, Clear
  <2> QED
    BY <1>f, <1>k, <1>s, <2>1, <2>2, <2>3 DEF Sent, kubeVars
<1>3. CASE ReadBack
  <2>1. Executing /\ Clear /\ UNCHANGED kubeVars
    BY <1>3 DEF ReadBack, Executing, Clear
  <2>2. \/ Finish("failed") \/ Go("observe") \/ (Go("clean") /\ ~Plan.service)
        \/ agent' = [pc |-> "apply", task |-> agent.task, kind |-> "Service"] /\ UNCHANGED reports /\ Plan.service
    BY <1>3, Zenon DEF ReadBack
  <2>3. Found("failed")
    BY <2>1 DEF Found
  <2> QED
    BY <1>f, <1>g, <1>k, <1>w, <2>1, <2>2, <2>3
<1>4. CASE RemoveService
  <2>1. agent.pc = "clean" /\ UNCHANGED <<ops, calls, target, version>>
    BY <1>4 DEF RemoveService, hubVars
  <2>2. \/ Finish("failed") /\ UNCHANGED wire
        \/ Go("observe") /\ UNCHANGED wire
        \/ Owned("Service") /\ Send("Service", "delete")
    BY <1>4, Zenon DEF RemoveService
  <2>3. Found("failed") /\ Executing /\ Clear
    BY <2>1 DEF Found, Executing, Clear
  <2> QED
    BY <1>f, <1>g, <1>k, <1>s, <2>1, <2>2, <2>3 DEF Sent, kubeVars
<1>5. CASE ObserveDeletion
  <2>1. Executing /\ Clear /\ UNCHANGED kubeVars /\ (Go("observe") \/ Finish("unknown"))
    BY <1>5, Zenon DEF ObserveDeletion, Executing, Clear
  <2> QED
    BY <1>f, <1>g, <1>k, <2>1 DEF Found
<1>6. CASE ObserveDeployment
  <2>1. Executing /\ Clear /\ UNCHANGED kubeVars /\ ((Matches("Deployment") /\ Go("observeService")) \/ Finish("failed"))
    BY <1>6, Zenon DEF ObserveDeployment, Executing, Clear
  <2> QED
    BY <1>f, <1>g, <1>k, <2>1 DEF Found
<1>7. CASE ObserveService
  <2>1. agent.pc = "observeService" /\ Executing /\ Clear /\ UNCHANGED kubeVars
    BY <1>7 DEF ObserveService, Executing, Clear
  <2>2. Go("observe") \/ Finish("failed") \/ (ServiceMatches /\ Finish("success"))
    BY <1>7, Zenon DEF ObserveService, ServiceMatches
  <2> QED
    BY <1>f, <1>g, <1>k, <2>1, <2>2 DEF Found
<1>8. CASE AgentError
  <2>1. UNCHANGED kubeVars /\ Executing /\ (Finish("unknown") \/ (Finish("failed") /\ agent.pc # "wait"))
    BY <1>8, Zenon DEF AgentError, ResultOfError, Executing
  <2> QED
    BY <1>f, <1>k, <2>1 DEF Found, Clear
<1>9. ASSUME NEW o \in DOMAIN ops, PollRecoveryTask(o) PROVE Known
  <2>1. PICK t : t = [op |-> o, token |-> ops[o].fence, revision |-> ops[o].revision]
    OBVIOUS
  <2>2. t.op = o /\ t.revision = ops[o].revision
    BY <2>1
  <2>3. agent' = [pc |-> "recover", task |-> t] /\ UNCHANGED reports /\ UNCHANGED kubeVars
    BY <1>9, <2>1 DEF PollRecoveryTask
  <2>4. agent'.pc = "recover" /\ agent'.task = t
    BY <2>3
  <2>5. WorkMove
    BY <1>q, <2>2, <2>3, <2>4 DEF WorkMove, Executing, Cur
  <2> QED
    BY <1>k, <2>3, <2>5
<1>10. CASE RecoverDeployment
  <2>1. agent.pc = "recover" /\ UNCHANGED kubeVars /\ UNCHANGED reports
    BY <1>10 DEF RecoverDeployment, Go
  <2>2. agent' = IdleAgent \/ (Matches("Deployment") /\ agent' = [pc |-> "recoverService", task |-> agent.task])
    BY <1>10 DEF RecoverDeployment, Go
  <2>3. CASE agent' = IdleAgent
    BY <1>i, <1>k, <1>q, <2>1, <2>3 DEF IdleAgent
  <2>4. CASE Matches("Deployment") /\ agent' = [pc |-> "recoverService", task |-> agent.task]
    <3>1. agent'.pc = "recoverService" /\ GoesOn
      BY <2>1, <2>4 DEF GoesOn
    <3>2. WorkMove
      BY <1>q, <2>1, <2>4, <3>1 DEF WorkMove, Executing
    <3> QED
      BY <1>k, <2>1, <3>2
  <2> QED
    BY <2>2, <2>3, <2>4
<1>11. CASE RecoverService
  <2>1. agent.pc = "recoverService" /\ UNCHANGED kubeVars
    BY <1>11 DEF RecoverService
  <2>2. (ServiceMatches /\ Finish("confirmed")) \/ (agent' = IdleAgent /\ UNCHANGED reports)
    BY <1>11, Zenon DEF RecoverService, ServiceMatches
  <2> QED
    BY <1>f, <1>i, <1>k, <1>q, <2>1, <2>2 DEF Found, IdleAgent
<1>12. CASE AgentRestarts
  BY <1>12, <1>i, <1>k, <1>q DEF AgentRestarts, IdleAgent
<1>13. CASE AgentStep
  BY <1>2, <1>3, <1>4, <1>5, <1>6, <1>7, <1>8, <1>9, <1>10, <1>11, <1>12, <1>13 DEF AgentStep
<1>u. ASSUME UNCHANGED kubeVars, UNCHANGED agent, reports' \subseteq reports PROVE Known
  BY <1>1, <1>k, <1>q, <1>u
<1>14. ASSUME NEW h \in Handlers, EndCall(h), UNCHANGED reports, UNCHANGED kubeVars PROVE Known
  BY <1>14, <1>i, <1>k, <1>q, <1>u DEF EndCall, IdleAgent
<1>15. ASSUME NEW h \in Handlers, PollNextTask(h) PROVE Known
  BY <1>15, <1>i, <1>k, <1>q DEF PollNextTask
<1>16. ASSUME NEW h \in Handlers, ClaimOperation(h) \/ StartOperationAttempt(h) \/ RefuseDispatch(h) PROVE Known
  <2>1. EndCall(h) \/ UNCHANGED agent
    BY <1>16 DEF ClaimOperation, StartOperationAttempt, RefuseDispatch, ContinueCall
  <2>2. UNCHANGED reports /\ UNCHANGED kubeVars
    BY <1>16 DEF ClaimOperation, StartOperationAttempt, RefuseDispatch
  <2> QED
    BY <1>14, <1>u, <2>1, <2>2
<1>17. ASSUME NEW h \in Handlers, RespondTask(h) PROVE Known
  <2>1. UNCHANGED reports /\ UNCHANGED kubeVars
    BY <1>17 DEF RespondTask
  <2>2. CASE Handover(h)
    <3>1. agent'.pc = "apply" /\ agent'.kind = "Deployment"
      BY <2>2 DEF Handover
    <3> QED
      BY <1>k, <1>q, <2>1, <2>2, <3>1 DEF WorkMove
  <2> QED
    BY <1>17, <1>u, <2>1, <2>2 DEF RespondTask, Handover
<1>18. ASSUME NEW r \in reports, ValidateResult(r) PROVE Known
  <2>1. PICK new : /\ new = [r EXCEPT !.authority = IF CurrentAuthority(ops[r.task.op].plan) THEN "CURRENT" ELSE "CHANGED"]
                   /\ reports' = (reports \ {r}) \cup {new}
    BY <1>18, Zenon DEF ValidateResult
  <2>2. new.task = r.task /\ new.result = r.result
    BY <2>1 DEF RecordsTyped, AgentTyped, ReportRows
  <2>3. \A q \in reports' : Repeated(q)
    BY <1>q, <2>1, <2>2 DEF Repeated
  <2> QED
    BY <1>1, <1>18, <1>k, <2>3 DEF ValidateResult
<1>19. ASSUME NEW r \in reports, ReportFailure(r) \/ CommitResult(r) \/ ResolveRecovery(r) \/ ReportLost(r) PROVE Known
  BY <1>19, <1>u DEF ReportFailure, CommitResult, ResolveRecovery, ReportLost
<1>20. CASE HubStep
  BY <1>15, <1>16, <1>17, <1>18, <1>19, <1>20, <1>u DEF HubStep, ReadOperation, ValidateDispatch, HubRestarts
<1>21. CASE ClientStep
  BY <1>21, <1>u
  DEF ClientStep, BuildRequest, CreateExclusiveOperation, ValidateApproval, ApproveOperationAndQueue,
      RequestOperationCancellation, PromoteEnvironmentBinding, RevokeWorkspaceBinding
<1>22. ASSUME NEW w \in wire, NEW answered \in BOOLEAN, DecideWrite(w, answered) PROVE Known
  <2>1. Decided(w) /\ wire' = wire \ {w}
    BY <1>22, Zenon DEF DecideWrite, Decided, hubVars
  <2>2. UNCHANGED <<agent, reports>> \/ (agent.pc = "wait" /\ agent.write = w /\ Answered(w))
    BY <1>22 DEF DecideWrite
  <2>3. CASE UNCHANGED <<agent, reports>>
    BY <1>1, <1>d, <1>q, <2>1, <2>3
  <2>4. CASE agent.pc = "wait" /\ agent.write = w /\ Answered(w)
    <3>1. Executing /\ Clear
      BY <2>1, <2>4 DEF Executing, Clear
    <3>2. \/ Go("gone") \/ Go("observe") \/ Finish("unknown") \/ Finish("failed")
          \/ agent' = [pc |-> "readback", task |-> agent.task, kind |-> w.kind] /\ UNCHANGED reports
      BY <2>4, Zenon DEF Answered
    <3>3. WorkMove
      BY <1>f, <1>g, <1>w, <3>1, <3>2 DEF Found
    <3> QED
      BY <1>d, <2>1, <3>3
  <2> QED
    BY <2>2, <2>3, <2>4
<1>23. ASSUME NEW k \in Takeovers, ForeignWrite(k) PROVE Known
  <2>1. k \in Kinds
    BY DeploymentAssumption DEF Kinds
  <2>2. Seized(k) /\ UNCHANGED <<agent, reports>>
    BY <1>23, Zenon DEF ForeignWrite, Seized, hubVars
  <2> QED
    BY <1>1, <1>q, <1>z, <2>1, <2>2
<1>24. CASE Surroundings
  BY <1>22, <1>23, <1>24, <1>u DEF Surroundings, LeaseExpires, RetryBecomesDue, InventoryChanges
<1>25. CASE UNCHANGED vars
  BY <1>25, <1>u DEF vars
<1> QED
  BY <1>13, <1>20, <1>21, <1>24, <1>25 DEF Next

-----------------------------------------------------------------------------
(* Whatever is ambiguous, requests and tasks are what their operations say. *)

\* A request carries what its operation's plan renders.
Rendered ==
  \A w \in wire :
    /\ w.op \in DOMAIN ops /\ w.content = Content(ops[w.op].plan)
    /\ w.verb = "delete" => w.kind = "Service" /\ ~ops[w.op].plan.service
    /\ w.kind = "Service" /\ w.verb # "delete" => ops[w.op].plan.service
AgentRenders ==
  /\ agent.pc = "apply" => agent.kind = "Deployment" \/ Plan.service
  /\ agent.pc = "clean" => ~Plan.service

\* No recovery is of a revision that is still to come.
Behind ==
  /\ agent.pc \in {"recover", "recoverService"} => agent.task.revision <= ops[agent.task.op].revision
  /\ \A r \in reports : r.result = "confirmed" => r.task.revision <= ops[r.task.op].revision

\* Only the last operation fences the binding.
LastBlocks == \A o \in DOMAIN ops : Blocks(ops[o]) => o = Len(ops)

PlanInv == Rendered /\ AgentRenders /\ Behind /\ LastBlocks

\* What every step keeps of an operation.
LEMMA PlansKept ==
  ASSUME RecordsTyped, [Next]_vars
  PROVE  /\ \A o \in DOMAIN ops : /\ o \in DOMAIN ops' /\ ops'[o].plan = ops[o].plan
                                  /\ ops[o].revision \in Nat /\ ops'[o].revision \in Nat
                                  /\ ops[o].revision <= ops'[o].revision
                                  /\ ~Blocks(ops[o]) => ~Blocks(ops'[o])
         /\ agent.pc \notin {"idle", "polling"} => agent.task \in TasksOf(Len(ops)) /\ agent.task.op \in DOMAIN ops
         /\ \A r \in reports : r.task \in TasksOf(Len(ops)) /\ r.task.op \in DOMAIN ops
<1>1. \A o \in DOMAIN ops : ops[o] \in OperationRow /\ Rewrite(ops[o], ops'[o]) /\ o \in DOMAIN ops'
  BY OperationsStep, OperationsKept, TaskParts DEF RecordsTyped
<1>2. Len(ops) \in Nat /\ DOMAIN ops = 1..Len(ops)
  BY TaskParts
<1>3. agent.pc \notin {"idle", "polling"} => agent.task \in TasksOf(Len(ops))
  BY <1>2, AgentParts DEF RecordsTyped, AgentTyped
<1>4. \A r \in reports : r.task \in TasksOf(Len(ops))
  BY DEF RecordsTyped, AgentTyped, ReportRows
<1>5. \A t \in TasksOf(Len(ops)) : t.op \in DOMAIN ops
  BY <1>2 DEF TasksOf
<1>6. ASSUME NEW o \in DOMAIN ops
      PROVE  /\ o \in DOMAIN ops' /\ ops'[o].plan = ops[o].plan
             /\ ops[o].revision \in Nat /\ ops'[o].revision \in Nat
             /\ ops[o].revision <= ops'[o].revision
             /\ ~Blocks(ops[o]) => ~Blocks(ops'[o])
  BY <1>1 DEF Rewrite, OperationRow
<1> QED
  BY <1>3, <1>4, <1>5, <1>6

\* The last operation stays the only one that may fence the binding.
LEMMA LastBlocksStep ==
  ASSUME RecordsTyped, LastBlocks, [Next]_vars
  PROVE  LastBlocks'
<1>0. ops \in Seq(OperationRow) /\ Len(ops) \in Nat /\ DOMAIN ops = 1..Len(ops) /\ OperationsMove
  BY OperationsStep, TaskParts DEF RecordsTyped, OpsTyped
<1>b. \A o \in DOMAIN ops : ~Blocks(ops[o]) => ~Blocks(ops'[o])
  BY PlansKept
<1>g. LastBlocks' <=> \A o \in DOMAIN ops' : Blocks(ops'[o]) => o = Len(ops')
  BY DEF LastBlocks, Blocks, OperationBlocksExclusiveTargetMutation
<1>1. CASE UNCHANGED ops
  BY <1>1, <1>g DEF LastBlocks
<1>2. ASSUME TargetFree, NEW plan \in Plans, ops' = Append(ops, NewOperation(plan)) PROVE LastBlocks'
  <2>1. DOMAIN ops' = DOMAIN ops \cup {Len(ops) + 1} /\ Len(ops') = Len(ops) + 1
    BY <1>0, <1>2
  <2>2. \A o \in DOMAIN ops : ~Blocks(ops'[o])
    BY <1>2, <1>b DEF TargetFree, Blocks
  <2> QED
    BY <2>1, <2>2, <1>g
<1>3. ASSUME NEW o \in DOMAIN ops, NEW new, ops' = [ops EXCEPT ![o] = new], Rewrite(ops[o], new) PROVE LastBlocks'
  <2>1. DOMAIN ops' = DOMAIN ops /\ ops' \in Seq(OperationRow)
    BY <1>0, <1>3, ExceptSeq DEF Rewrite
  <2>2. Len(ops') = Len(ops)
    BY <1>0, <2>1
  <2> QED
    BY <1>b, <1>g, <2>1, <2>2 DEF LastBlocks
<1> QED
  BY <1>0, <1>1, <1>2, <1>3 DEF OperationsMove

\* The request that is sent is the agent's.
LEMMA SentParts ==
  ASSUME RecordsTyped, AgentRenders, Sent
  PROVE  \E w : /\ wire' = wire \cup {w} /\ agent' = [pc |-> "wait", task |-> agent.task, write |-> w]
                /\ UNCHANGED <<ops, calls, reports, target, version>>
                /\ agent.pc \in {"apply", "clean"}
                /\ w.op = agent.task.op /\ w.content = Content(Plan) /\ w.kind \in Kinds
                /\ w.verb = "delete" => w.kind = "Service" /\ ~Plan.service
                /\ w.kind = "Service" /\ w.verb # "delete" => Plan.service
                /\ w.verb = "create" => ~Owned(w.kind)
<1>1. ASSUME NEW k \in Kinds, NEW verb, Send(k, verb), UNCHANGED <<ops, calls, target, version>>, agent.pc \in {"apply", "clean"},
             verb = "delete" => k = "Service" /\ ~Plan.service,
             k = "Service" /\ verb # "delete" => Plan.service, verb = "create" => ~Owned(k)
      PROVE  \E w : /\ wire' = wire \cup {w} /\ agent' = [pc |-> "wait", task |-> agent.task, write |-> w]
                    /\ UNCHANGED <<ops, calls, reports, target, version>>
                    /\ agent.pc \in {"apply", "clean"}
                    /\ w.op = agent.task.op /\ w.content = Content(Plan) /\ w.kind \in Kinds
                    /\ w.verb = "delete" => w.kind = "Service" /\ ~Plan.service
                    /\ w.kind = "Service" /\ w.verb # "delete" => Plan.service
                    /\ w.verb = "create" => ~Owned(w.kind)
  <2>1. PICK w : w = Request(k, verb)
    OBVIOUS
  <2>2. w.op = agent.task.op /\ w.content = Content(Plan) /\ w.kind = k /\ w.verb = verb
    BY <2>1 DEF Request
  <2>3. /\ wire' = wire \cup {w} /\ agent' = [pc |-> "wait", task |-> agent.task, write |-> w]
        /\ UNCHANGED reports
    BY <1>1, <2>1, Zenon DEF Send, Request
  <2> WITNESS w
  <2> QED
    BY <1>1, <2>2, <2>3
<1>2. agent.pc = "apply" => agent.kind \in Kinds
  <2>1. ASSUME agent.pc = "apply" PROVE agent \in [pc : {"apply", "readback"}, task : TasksOf(Len(ops)), kind : Kinds]
    BY <2>1, TaskParts, AgentParts DEF RecordsTyped, AgentTyped
  <2> QED
    BY <2>1
<1>3. UNCHANGED <<ops, calls, target, version>>
  BY DEF Sent
<1>4. CASE agent.pc = "apply" /\ target[agent.kind] = Absent /\ Send(agent.kind, "create")
  <2>1. agent.kind = "Service" => Plan.service
    BY <1>4 DEF AgentRenders
  <2>2. ~Owned(agent.kind)
    BY <1>4 DEF Owned, Absent
  <2> QED
    BY <1>1, <1>2, <1>3, <1>4, <2>1, <2>2
<1>5. CASE agent.pc = "apply" /\ Owned(agent.kind) /\ Send(agent.kind, "apply")
  <2>1. agent.kind = "Service" => Plan.service
    BY <1>5 DEF AgentRenders
  <2> QED
    BY <1>1, <1>2, <1>3, <1>5, <2>1
<1>6. CASE agent.pc = "clean" /\ Owned("Service") /\ Send("Service", "delete")
  <2>1. ~Plan.service
    BY <1>6 DEF AgentRenders
  <2> QED
    BY <1>1, <1>3, <1>6, <2>1 DEF Kinds
<1> QED
  BY <1>4, <1>5, <1>6 DEF Sent

\* A step keeps PlanInv.
LEMMA PlanStep == RecordsTyped /\ PlanInv /\ [Next]_vars => PlanInv'
<1> SUFFICES ASSUME RecordsTyped, PlanInv, [Next]_vars PROVE PlanInv'
  OBVIOUS
<1>o. \A o \in DOMAIN ops : /\ o \in DOMAIN ops' /\ ops'[o].plan = ops[o].plan
                            /\ ops[o].revision \in Nat /\ ops'[o].revision \in Nat
                            /\ ops[o].revision <= ops'[o].revision
  BY PlansKept
<1>t. /\ agent.pc \notin {"idle", "polling"} => agent.task \in TasksOf(Len(ops)) /\ agent.task.op \in DOMAIN ops
      /\ \A r \in reports : r.task \in TasksOf(Len(ops)) /\ r.task.op \in DOMAIN ops
  BY PlansKept
<1>n. \A t \in TasksOf(Len(ops)) : t.revision \in Nat
  BY DEF TasksOf
<1>l. LastBlocks'
  BY LastBlocksStep DEF PlanInv
<1>w. ASSUME NEW w \in wire PROVE /\ w.op \in DOMAIN ops' /\ w.content = Content(ops'[w.op].plan)
                                  /\ w.verb = "delete" => w.kind = "Service" /\ ~ops'[w.op].plan.service
                                  /\ w.kind = "Service" /\ w.verb # "delete" => ops'[w.op].plan.service
  <2>1. w.op \in DOMAIN ops
    BY DEF PlanInv, Rendered
  <2> QED
    BY <1>o, <2>1 DEF PlanInv, Rendered
<1>1. CASE Sent
  <2>1. PICK w : /\ wire' = wire \cup {w} /\ agent' = [pc |-> "wait", task |-> agent.task, write |-> w]
                 /\ UNCHANGED <<ops, reports>> /\ agent.pc \in {"apply", "clean"}
                 /\ w.op = agent.task.op /\ w.content = Content(Plan)
                 /\ w.verb = "delete" => w.kind = "Service" /\ ~Plan.service
                 /\ w.kind = "Service" /\ w.verb # "delete" => Plan.service
    BY <1>1, SentParts DEF PlanInv
  <2>2. Rendered'
    BY <1>t, <1>w, <2>1 DEF Rendered, Plan
  <2>3. agent'.pc = "wait"
    BY <2>1
  <2>4. AgentRenders' /\ Behind'
    BY <2>1, <2>3 DEF AgentRenders, Behind, PlanInv
  <2> QED
    BY <1>l, <2>2, <2>4 DEF PlanInv
<1>2. ASSUME WorkMove, wire' \subseteq wire PROVE PlanInv'
  <2>1. Rendered'
    BY <1>2, <1>w DEF Rendered
  <2>p. ASSUME agent.pc \notin {"idle", "polling"}, agent'.task = agent.task PROVE Plan' = Plan
    BY <1>o, <1>t, <2>p DEF Plan
  <2>2. ASSUME agent'.pc = "apply" PROVE agent'.kind = "Deployment" \/ Plan'.service
    BY <1>2, <2>2, <2>p DEF WorkMove, GoesOn, PlanInv, AgentRenders
  <2>3. ASSUME agent'.pc = "clean" PROVE ~Plan'.service
    BY <1>2, <2>3, <2>p DEF WorkMove, GoesOn, PlanInv, AgentRenders
  <2>b. ASSUME NEW u \in TasksOf(Len(ops)), u.op \in DOMAIN ops, u.revision <= ops[u.op].revision
        PROVE  u.revision <= ops'[u.op].revision
    BY <1>n, <1>o, <2>b
  <2>4. ASSUME agent'.pc \in {"recover", "recoverService"} PROVE agent'.task.revision <= ops'[agent'.task.op].revision
    <3>1. CASE agent' = agent \/ (GoesOn /\ agent.pc = "recover")
      BY <1>t, <2>4, <2>b, <3>1 DEF GoesOn, PlanInv, Behind
    <3>2. CASE agent'.task.op \in DOMAIN ops /\ Cur(agent'.task)
      BY <1>o, <3>2 DEF Cur
    <3> QED
      BY <1>2, <2>4, <3>1, <3>2 DEF WorkMove
  <2>5. ASSUME NEW r \in reports', r.result = "confirmed" PROVE r.task.revision <= ops'[r.task.op].revision
    <3>1. ASSUME NEW q \in reports, q.task = r.task, q.result = r.result PROVE r.task.revision <= ops'[r.task.op].revision
      BY <1>t, <2>5, <2>b, <3>1 DEF PlanInv, Behind
    <3>2. CASE r.task = agent.task /\ agent.pc = "recoverService"
      BY <1>t, <2>b, <3>2 DEF PlanInv, Behind
    <3> QED
      BY <1>2, <2>5, <3>1, <3>2 DEF WorkMove, Repeated, Found
  <2>6. AgentRenders' /\ Behind'
    BY <2>2, <2>3, <2>4, <2>5 DEF AgentRenders, Behind
  <2> QED
    BY <1>l, <2>1, <2>6 DEF PlanInv
<1> QED
  BY <1>1, <1>2, WorksStep DEF Decided, Seized, kubeVars

-----------------------------------------------------------------------------
(* What is on its way, and what it can still change. *)

\* Whenever the API server decides it, the request leaves the objects as they are.
Harmless(w) ==
  w.verb # "create" /\ (Lands(w) => w.verb = "apply" /\ Owned(w.kind) /\ target[w.kind].content = w.content)
Quiet == \A w \in wire : Harmless(w)

\* The objects are the ones plan p renders, as far as nobody else took them.
DeploymentOK(p) ==
  /\ Owned("Deployment") => target["Deployment"].content = Content(p)
  /\ target["Deployment"] # Absent
ServiceOK(p) ==
  /\ Owned("Service") => p.service /\ target["Service"].content = Content(p)
  /\ target["Service"] = Absent => ~p.service

\* At most one request can still change something; its operation is in hand or
\* ambiguous, and it does not make anew what the binding already has.
OneOpen == \A v, w \in wire : ~Harmless(v) /\ ~Harmless(w) => v = w
OpenIsAmbiguous == \A w \in wire : ~Harmless(w) => Ambiguous(ops[w.op]) /\ (w.verb = "create" => ~Owned(w.kind))

\* Nothing is open when an attempt begins, nor while the agent works but for the request
\* it waits for, nor when an attempt is about to be concluded.
HandsQuiet == \A h \in Handlers : Holds(h) => Quiet
AgentQuiet == Executing => \A w \in wire : Harmless(w) \/ (agent.pc = "wait" /\ agent.write = w)
ConclusionsQuiet == \A u \in Conclusive : Awaited(u) => Quiet

\* What the agent has observed, and what its reports say, still is so.
Observed == agent.pc = "observeService" => DeploymentOK(Plan)
SuccessSeen ==
  \A r \in reports : r.result = "success" /\ Awaited(r.task) =>
    DeploymentOK(ops[r.task.op].plan) /\ ServiceOK(ops[r.task.op].plan)
RecoverySeen ==
  agent.pc = "recoverService" /\ Unresolved(agent.task) =>
    DeploymentOK(Plan) /\ \A w \in wire : w.kind = "Deployment" => Harmless(w)
ConfirmedSeen ==
  \A r \in reports : r.result = "confirmed" /\ Unresolved(r.task) =>
    Quiet /\ DeploymentOK(ops[r.task.op].plan) /\ ServiceOK(ops[r.task.op].plan)

\* What the last deployment, if it succeeded, rendered is there.
LastDeployed ==
  ops # <<>> /\ ops[Len(ops)].state = "SUCCEEDED" => DeploymentOK(ops[Len(ops)].plan) /\ ServiceOK(ops[Len(ops)].plan)

WireInv  == OneOpen /\ OpenIsAmbiguous
HandsInv == HandsQuiet /\ AgentQuiet /\ ConclusionsQuiet
SeenInv  == Observed /\ SuccessSeen /\ RecoverySeen /\ ConfirmedSeen /\ LastDeployed
QuietInv == WireInv /\ HandsInv /\ SeenInv

\* The cluster offers nothing new: what was harmless or deployed still is.
ClusterKept ==
  /\ \A v \in wire' : v \in wire /\ (Harmless(v) => Harmless(v)')
  /\ \A k \in Kinds : Owned(k)' => Owned(k)
  /\ \A p : (DeploymentOK(p) => DeploymentOK(p)') /\ (ServiceOK(p) => ServiceOK(p)')

\* So it is as long as no request of the binding lands with an effect.
LEMMA ClusterStays ==
  ASSUME KubeTyped, ClusterInv,
         \/ wire' \subseteq wire /\ UNCHANGED target
         \/ \E k \in Kinds : Seized(k)
  PROVE  ClusterKept
<1>0. target \in [Kinds -> Objects] /\ version \in Nat /\ wire \subseteq Writes(Len(ops))
  BY DEF KubeTyped
<1>1. CASE wire' \subseteq wire /\ UNCHANGED target
  <2>1. \A v \in wire' : v \in wire /\ (Harmless(v) => Harmless(v)')
    BY <1>1 DEF Harmless, Lands, Owned
  <2>2. \A k \in Kinds : Owned(k)' => Owned(k)
    BY <1>1 DEF Owned
  <2>3. \A p : (DeploymentOK(p) => DeploymentOK(p)') /\ (ServiceOK(p) => ServiceOK(p)')
    BY <1>1 DEF DeploymentOK, ServiceOK, Owned
  <2> QED
    BY <2>1, <2>2, <2>3 DEF ClusterKept
<1>2. ASSUME NEW k \in Kinds, Seized(k) PROVE ClusterKept
  <2>1. PICK new : new = [owner |-> "FOREIGN", rv |-> version + 1]
    OBVIOUS
  <2>2. new.rv = version + 1 /\ new.owner = "FOREIGN" /\ new # Absent
    BY <2>1 DEF Absent
  <2>3. target' = [target EXCEPT ![k] = new] /\ UNCHANGED wire
    BY <1>2, <2>1, Zenon DEF Seized
  <2>4. target'[k] = new /\ \A j \in Kinds : j # k => target'[j] = target[j]
    BY <1>0, <2>3
  <2>5. ASSUME NEW v \in wire, Harmless(v) PROVE Harmless(v)'
    <3>1. v.kind \in Kinds /\ v.verb # "create" /\ v.rv \in Nat /\ v.rv > 0 /\ v.rv <= version
      BY <1>0, <2>5 DEF Harmless, ClusterInv, RequestsGuarded, Writes
    <3>2. CASE v.kind = k
      BY <1>0, <2>2, <2>4, <3>1, <3>2 DEF Harmless, Lands
    <3>3. CASE v.kind # k
      BY <2>4, <2>5, <3>1, <3>3 DEF Harmless, Lands, Owned
    <3> QED
      BY <3>2, <3>3
  <2>6. \A j \in Kinds : Owned(j)' => Owned(j)
    BY <2>2, <2>4 DEF Owned
  <2>7. \A p : (DeploymentOK(p) => DeploymentOK(p)') /\ (ServiceOK(p) => ServiceOK(p)')
    BY <2>2, <2>4 DEF DeploymentOK, ServiceOK, Owned, Kinds
  <2> QED
    BY <2>3, <2>5, <2>6, <2>7 DEF ClusterKept
<1> QED
  BY <1>1, <1>2

\* When the open request lands nothing is open any more, and one object has changed.
LEMMA LandingQuiets ==
  ASSUME KubeTyped, ClusterInv, OneOpen, NEW w \in wire, Decided(w), Lands(w), ~Harmless(w)
  PROVE  Quiet' /\ \A k \in Kinds : k # w.kind => target'[k] = target[k]
<1>0. target \in [Kinds -> Objects] /\ version \in Nat /\ wire \subseteq Writes(Len(ops))
  BY DEF KubeTyped
<1>1. w.kind \in Kinds /\ wire' = wire \ {w} /\ Write(w)
  BY <1>0 DEF Writes, Decided
<1>2. \/ target' = [target EXCEPT ![w.kind] = Absent]
      \/ target' = [target EXCEPT ![w.kind] = [owner |-> "BINDING", content |-> w.content, rv |-> version + 1]]
  <2>1. ~(w.verb = "apply" /\ Owned(w.kind) /\ target[w.kind].content = w.content)
    BY DEF Harmless
  <2> QED
    BY <1>1, <2>1, Zenon DEF Write
<1>3. PICK new : /\ target' = [target EXCEPT ![w.kind] = new]
                 /\ new = Absent \/ new = [owner |-> "BINDING", content |-> w.content, rv |-> version + 1]
  BY <1>2, Zenon
<1>4. target'[w.kind] = new /\ \A k \in Kinds : k # w.kind => target'[k] = target[k]
  BY <1>0, <1>1, <1>3
<1>5. new = Absent \/ new.rv = version + 1
  BY <1>3
<1>6. ASSUME NEW v \in wire' PROVE Harmless(v)'
  <2>1. v \in wire /\ v # w
    BY <1>1
  <2>2. Harmless(v)
    BY <2>1 DEF OneOpen
  <2>3. v.kind \in Kinds /\ v.verb # "create" /\ v.rv \in Nat /\ v.rv > 0 /\ v.rv <= version
    BY <1>0, <2>1, <2>2 DEF Harmless, ClusterInv, RequestsGuarded, Writes
  <2>4. CASE v.kind = w.kind
    BY <1>0, <1>4, <1>5, <2>3, <2>4 DEF Harmless, Lands
  <2>5. CASE v.kind # w.kind
    BY <1>4, <2>2, <2>3, <2>5 DEF Harmless, Lands, Owned
  <2> QED
    BY <2>4, <2>5
<1> QED
  BY <1>4, <1>6 DEF Quiet

\* What is ambiguous fences the binding.
LEMMA AmbiguousBlocks ==
  ASSUME NEW op, Ambiguous(op)
  PROVE  Blocks(op)
BY DEF Ambiguous, InHand, Blocks, OperationBlocksExclusiveTargetMutation

\* So an open request is of the last operation, and no other one fences the binding.
LEMMA OpenOwner ==
  ASSUME PlanInv, OpenIsAmbiguous, NEW w \in wire, ~Harmless(w)
  PROVE  /\ w.op \in DOMAIN ops /\ Ambiguous(ops[w.op]) /\ w.op = Len(ops)
         /\ \A o \in DOMAIN ops : Blocks(ops[o]) => o = w.op
<1>1. w.op \in DOMAIN ops /\ Ambiguous(ops[w.op])
  BY DEF PlanInv, Rendered, OpenIsAmbiguous
<1>2. Blocks(ops[w.op])
  BY <1>1, AmbiguousBlocks
<1> QED
  BY <1>1, <1>2 DEF PlanInv, LastBlocks

\* Nothing is open when an attempt begins.
LEMMA BegunQuiet ==
  ASSUME PlanInv, OpenIsAmbiguous, NEW t, Begun(t)
  PROVE  Quiet
<1>1. t.op \in DOMAIN ops /\ Blocks(ops[t.op]) /\ ~Ambiguous(ops[t.op])
  BY DEF Begun, Blocks, OperationBlocksExclusiveTargetMutation, Ambiguous, InHand
<1> QED
  BY <1>1, OpenOwner DEF Quiet

\* A task that names the revision its operation will be at names the one it is at.
LEMMA StillCurrent ==
  ASSUME RecordsTyped, [Next]_vars, NEW u, u.op \in DOMAIN ops, u.revision \in Nat, u.revision <= ops[u.op].revision
  PROVE  (Awaited(u)' => Awaited(u)) /\ (Unresolved(u)' => Unresolved(u))
<1>1. ops[u.op].revision \in Nat /\ ops'[u.op].revision \in Nat /\ ops[u.op].revision <= ops'[u.op].revision
  BY PlansKept
<1>2. ops'[u.op].revision = ops[u.op].revision => ops'[u.op].state = ops[u.op].state /\ ops'[u.op].failure = ops[u.op].failure
  BY OutcomesStep DEF Outcome
<1> QED
  BY <1>1, <1>2 DEF Awaited, Unresolved, Cur, InHand

\* Who may conclude an attempt after a step.
LEMMA ConclusiveStep ==
  ASSUME RecordsTyped, CallsMove, WorkMove, NEW u \in Conclusive'
  PROVE  \/ u \in Conclusive /\ u \in Finishers
         \/ Begun(u)
         \/ Executing /\ Clear
<1>1. \/ \E h \in Handlers : calls'[h].pc = "fail" /\ u = calls'[h].task
      \/ \E r \in reports' : r.result \in {"failed", "success"} /\ u = r.task
  BY Zenon DEF Conclusive
<1>2. ASSUME NEW h \in Handlers, calls'[h].pc = "fail", u = calls'[h].task
      PROVE  (u \in Conclusive /\ u \in Finishers) \/ Begun(u)
  <2>1. calls'[h] = calls[h] \/ Begun(u)
    BY <1>2, CallsHold
  <2> QED
    BY <1>2, <2>1 DEF Conclusive, Finishers
<1>3. ASSUME NEW r \in reports', r.result \in {"failed", "success"}, u = r.task
      PROVE  (u \in Conclusive /\ u \in Finishers) \/ (Executing /\ Clear)
  <2>1. ASSUME NEW q \in reports, q.task = r.task, q.result = r.result PROVE u \in Conclusive /\ u \in Finishers
    BY <1>3, <2>1 DEF Conclusive, Finishers
  <2>2. CASE Found(r.result)
    BY <1>3, <2>2 DEF Found, Executing, Clear
  <2> QED
    BY <2>1, <2>2 DEF WorkMove, Repeated
<1> QED
  BY <1>1, <1>2, <1>3

\* Nothing is open when the agent has no answer to wait for.
LEMMA ClearQuiet ==
  ASSUME AgentQuiet, ClusterKept, Executing, Clear
  PROVE  Quiet'
BY DEF AgentQuiet, ClusterKept, Clear, Quiet

\* A step under which the cluster offers nothing new keeps what is on the wire in order,
\* unless it gives an ambiguity up.
LEMMA KeptWire ==
  ASSUME RecordsTyped, HandInv, PlanInv, WireInv, ConclusionsQuiet, ConfirmedSeen, ClusterKept, [Next]_vars, ~GivenUp'
  PROVE  WireInv'
<1>1. OneOpen'
  BY DEF WireInv, OneOpen, ClusterKept
<1>2. ASSUME NEW w \in wire', ~Harmless(w)' PROVE Ambiguous(ops'[w.op]) /\ (w.verb = "create" => ~Owned(w.kind)')
  <2>1. w \in wire /\ ~Harmless(w)
    BY <1>2 DEF ClusterKept
  <2>2. w.op \in DOMAIN ops /\ Ambiguous(ops[w.op]) /\ (w.verb = "create" => ~Owned(w.kind)) /\ w.kind \in Kinds
    BY <2>1 DEF WireInv, OpenIsAmbiguous, PlanInv, Rendered, RecordsTyped, KubeTyped, Writes
  <2>3. ~EndsNow(w.op) /\ ~ConfirmedNow(w.op)
    BY <2>1 DEF EndsNow, ConfirmedNow, ConclusionsQuiet, ConfirmedSeen, Quiet
  <2>4. ~(ops'[w.op].state = "CANCELLED" /\ ops'[w.op].failure = "UNKNOWN")
    BY <2>2, PlansKept DEF GivenUp
  <2>5. Ambiguous(ops'[w.op])
    BY <2>2, <2>3, <2>4, OutcomesStep DEF Outcome
  <2> QED
    BY <2>2, <2>5 DEF ClusterKept
<1>3. OpenIsAmbiguous'
  BY <1>2 DEF OpenIsAmbiguous, Ambiguous, InHand
<1> QED
  BY <1>1, <1>3 DEF WireInv

\* Nor does it leave anything open under the hands of whoever begins, executes or
\* concludes an attempt.
LEMMA KeptHands ==
  ASSUME RecordsTyped, HandInv, PlanInv, WireInv, HandsInv, ClusterKept, WorkMove, [Next]_vars
  PROVE  HandsInv'
<1>0. CallsMove
  BY CallsStep
<1>q. Quiet => Quiet'
  BY DEF Quiet, ClusterKept
<1>x. Executing /\ Clear => Quiet'
  BY ClearQuiet DEF HandsInv
<1>b. ASSUME NEW t, Begun(t) PROVE Quiet'
  BY <1>b, <1>q, BegunQuiet DEF WireInv
<1>1. ASSUME NEW h \in Handlers, calls'[h].pc = "respond" PROVE Quiet'
  <2>1. calls'[h] = calls[h] \/ Begun(calls'[h].task)
    BY <1>0, <1>1, CallsHold
  <2>2. CASE calls'[h] = calls[h]
    BY <1>1, <1>q, <2>2 DEF HandsInv, HandsQuiet, Holds
  <2> QED
    BY <1>b, <2>1, <2>2
<1>2. ASSUME Executing', NEW w \in wire' PROVE Harmless(w)' \/ (agent'.pc = "wait" /\ agent'.write = w)
  <2>1. CASE agent' = agent
    <3>1. Executing
      BY <1>2, <2>1 DEF Executing
    <3>2. w \in wire /\ (Harmless(w) => Harmless(w)')
      BY <1>2 DEF ClusterKept
    <3> QED
      BY <2>1, <3>1, <3>2 DEF HandsInv, AgentQuiet
  <2>2. ASSUME NEW h \in Handlers, Handover(h) PROVE Quiet'
    BY <1>q, <2>2 DEF Handover, HandsInv, HandsQuiet, Holds
  <2>3. Quiet' => Harmless(w)'
    BY DEF Quiet
  <2> QED
    BY <1>2, <1>x, <2>1, <2>2, <2>3 DEF WorkMove
<1>3. ASSUME NEW u \in Conclusive', Awaited(u)' PROVE Quiet'
  <2>1. CASE u \in Conclusive /\ u \in Finishers
    <3>1. u.op \in DOMAIN ops /\ u.revision <= ops[u.op].revision
      BY <2>1 DEF HandInv, NoneAhead
    <3>2. u.revision \in Nat
      <4>1. \A h \in Handlers : calls[h].pc = "fail" => calls[h].task \in TasksOf(Len(ops))
        BY TaskParts DEF StartingPcs
      <4>2. \A r \in reports : r.task \in TasksOf(Len(ops))
        BY DEF RecordsTyped, AgentTyped, ReportRows
      <4>3. u \in TasksOf(Len(ops))
        BY <2>1, <4>1, <4>2 DEF Finishers
      <4> QED
        BY <4>3 DEF TasksOf
    <3>3. Awaited(u)
      BY <1>3, <3>1, <3>2, StillCurrent
    <3> QED
      BY <1>q, <2>1, <3>3 DEF HandsInv, ConclusionsQuiet
  <2> QED
    BY <1>0, <1>3, <1>b, <1>x, <2>1, ConclusiveStep
<1> QED
  BY <1>1, <1>2, <1>3 DEF HandsInv, HandsQuiet, AgentQuiet, ConclusionsQuiet, Holds

\* A request of an unresolved operation changes nothing in an object that is already as
\* the operation's plan renders it.
LEMMA MatchedIsHarmless ==
  ASSUME RecordsTyped, PlanInv, OpenIsAmbiguous, agent.task.op \in DOMAIN ops, Unresolved(agent.task)
  PROVE  /\ Matches("Deployment") => \A w \in wire : w.kind = "Deployment" => Harmless(w)
         /\ ServiceMatches => \A w \in wire : w.kind = "Service" => Harmless(w)
<1>0. Blocks(ops[agent.task.op])
  BY DEF Unresolved, Blocks, OperationBlocksExclusiveTargetMutation
<1>1. ASSUME NEW w \in wire, ~Harmless(w)
      PROVE  /\ w.op = agent.task.op /\ w.content = Content(Plan)
             /\ w.verb = "delete" => w.kind = "Service" /\ ~Plan.service /\ Lands(w)
             /\ w.kind = "Service" /\ w.verb # "delete" => Plan.service
             /\ ~Matches(w.kind) \/ w.verb = "delete"
  <2>1. w.op = agent.task.op
    BY <1>0, <1>1, OpenOwner
  <2>2. /\ w.content = Content(Plan)
        /\ w.verb = "delete" => w.kind = "Service" /\ ~Plan.service
        /\ w.kind = "Service" /\ w.verb # "delete" => Plan.service
    BY <2>1 DEF PlanInv, Rendered, Plan
  <2>3. w.verb # "create" => Lands(w) /\ ~(w.verb = "apply" /\ Owned(w.kind) /\ target[w.kind].content = w.content)
    BY <1>1 DEF Harmless
  <2>4. w.verb = "create" => ~Owned(w.kind)
    BY <1>1 DEF OpenIsAmbiguous
  <2>5. w.verb \in {"create", "apply", "delete"}
    BY DEF RecordsTyped, KubeTyped, Writes
  <2> QED
    BY <2>1, <2>2, <2>3, <2>4, <2>5 DEF Matches
<1>2. ASSUME Matches("Deployment"), NEW w \in wire, w.kind = "Deployment" PROVE Harmless(w)
  BY <1>1, <1>2
<1>3. ASSUME ServiceMatches, NEW w \in wire, w.kind = "Service" PROVE Harmless(w)
  <2>1. CASE Plan.service
    BY <1>1, <1>3, <2>1 DEF ServiceMatches
  <2>2. CASE ~Plan.service
    <3>1. target["Service"] = Absent
      BY <1>3, <2>2 DEF ServiceMatches
    <3> QED
      BY <1>1, <1>3, <2>2, <3>1 DEF Lands
  <2> QED
    BY <2>1, <2>2
<1> QED
  BY <1>2, <1>3

\* Such a step also keeps what was seen, and what the last deployment left.
LEMMA KeptSeen ==
  ASSUME RecordsTyped, HandInv, PlanInv, WireInv, HandsInv, SeenInv, ClusterKept, WorkMove, [Next]_vars
  PROVE  SeenInv'
<1>o. \A o \in DOMAIN ops : o \in DOMAIN ops' /\ ops'[o].plan = ops[o].plan
  BY PlansKept
<1>t. /\ agent.pc \notin {"idle", "polling"} => agent.task.revision \in Nat /\ agent.task.op \in DOMAIN ops
      /\ \A r \in reports : r.task.revision \in Nat /\ r.task.op \in DOMAIN ops
  BY PlansKept DEF TasksOf
<1>q. Quiet => Quiet'
  BY DEF Quiet, ClusterKept
<1>p. ASSUME agent.pc \notin {"idle", "polling"}, agent'.task = agent.task PROVE Plan' = Plan
  BY <1>o, <1>p, <1>t DEF Plan
<1>d. \A p : (DeploymentOK(p) => DeploymentOK(p)') /\ (ServiceOK(p) => ServiceOK(p)')
  BY DEF ClusterKept
<1>m. /\ Matches("Deployment") => DeploymentOK(Plan)
      /\ ServiceMatches => ServiceOK(Plan)
  BY DEF Matches, ServiceMatches, DeploymentOK, ServiceOK, Owned, Absent
<1>1. ASSUME agent'.pc = "observeService" PROVE DeploymentOK(Plan)'
  <2>1. agent' = agent \/ (GoesOn /\ Matches("Deployment"))
    BY <1>1 DEF WorkMove
  <2>2. DeploymentOK(Plan) /\ Plan' = Plan
    BY <1>1, <1>m, <1>p, <2>1 DEF SeenInv, Observed, GoesOn
  <2>3. PICK p : p = Plan
    OBVIOUS
  <2> QED
    BY <1>d, <2>2, <2>3 DEF DeploymentOK, Owned
<1>r. ASSUME NEW r \in reports', r.result \in {"success", "confirmed"}
      PROVE  /\ r.task.op \in DOMAIN ops
             /\ Repeated(r) \/ (r.task = agent.task /\ agent.pc \notin {"idle", "polling"} /\ Found(r.result))
  <2>1. Repeated(r) \/ (r.task = agent.task /\ Found(r.result))
    BY DEF WorkMove
  <2>2. CASE Repeated(r)
    BY <1>t, <2>2 DEF Repeated
  <2>3. CASE r.task = agent.task /\ Found(r.result)
    BY <1>r, <1>t, <2>3 DEF Found
  <2> QED
    BY <2>1, <2>2, <2>3
<1>k. ASSUME NEW o \in DOMAIN ops, DeploymentOK(ops[o].plan), ServiceOK(ops[o].plan)
      PROVE  (DeploymentOK(ops[o].plan) /\ ServiceOK(ops[o].plan))'
  <2>1. PICK p : p = ops[o].plan
    OBVIOUS
  <2>2. DeploymentOK(p)' /\ ServiceOK(p)' /\ ops'[o].plan = p
    BY <1>d, <1>k, <1>o, <2>1
  <2> QED
    BY <2>2 DEF DeploymentOK, ServiceOK, Owned
<1>2. ASSUME NEW r \in reports', r.result = "success", Awaited(r.task)'
      PROVE  DeploymentOK(ops[r.task.op].plan) /\ ServiceOK(ops[r.task.op].plan)
  <2>1. ASSUME NEW q \in reports, q.task = r.task, q.result = r.result
        PROVE  DeploymentOK(ops[r.task.op].plan) /\ ServiceOK(ops[r.task.op].plan)
    <3>1. q.task \in Finishers
      BY <1>2, <2>1 DEF Finishers
    <3>2. q.task.op \in DOMAIN ops /\ q.task.revision \in Nat /\ q.task.revision <= ops[q.task.op].revision
      BY <1>t, <3>1 DEF HandInv, NoneAhead
    <3>3. PICK u : u = q.task
      OBVIOUS
    <3>4. Awaited(u)
      BY <1>2, <2>1, <3>2, <3>3, StillCurrent
    <3> QED
      BY <1>2, <2>1, <3>3, <3>4 DEF SeenInv, SuccessSeen
  <2>2. CASE r.task = agent.task /\ Found(r.result)
    <3>1. agent.pc = "observeService" /\ ServiceMatches
      BY <1>2, <2>2 DEF Found
    <3> QED
      BY <1>m, <2>2, <3>1 DEF SeenInv, Observed, Plan
  <2> QED
    BY <1>2, <1>r, <2>1, <2>2 DEF Repeated
<1>3. ASSUME agent'.pc = "recoverService", Unresolved(agent.task)'
      PROVE  DeploymentOK(Plan)' /\ \A w \in wire' : w.kind = "Deployment" => Harmless(w)'
  <2>1. agent' = agent \/ (agent.pc = "recover" /\ GoesOn /\ Matches("Deployment"))
    BY <1>3 DEF WorkMove
  <2>2. agent.pc \in {"recover", "recoverService"} /\ agent'.task = agent.task
    BY <1>3, <2>1 DEF GoesOn
  <2>3. /\ agent.task.op \in DOMAIN ops /\ agent.task.revision \in Nat /\ agent.task.revision <= ops[agent.task.op].revision
        /\ Plan' = Plan
    BY <1>p, <1>t, <2>2 DEF PlanInv, Behind
  <2>4. PICK u : u = agent.task
    OBVIOUS
  <2>5. Unresolved(u)'
    BY <1>3, <2>2, <2>4 DEF Unresolved, Cur
  <2>6. Unresolved(agent.task)
    BY <2>3, <2>4, <2>5, StillCurrent
  <2>7. DeploymentOK(Plan) /\ \A w \in wire : w.kind = "Deployment" => Harmless(w)
    <3>1. CASE agent' = agent
      BY <1>3, <2>6, <3>1 DEF SeenInv, RecoverySeen
    <3>2. CASE Matches("Deployment")
      BY <1>m, <2>3, <2>6, <3>2, MatchedIsHarmless DEF WireInv
    <3> QED
      BY <2>1, <3>1, <3>2
  <2>8. PICK p : p = Plan
    OBVIOUS
  <2>9. DeploymentOK(Plan)'
    BY <1>d, <2>3, <2>7, <2>8 DEF DeploymentOK, Owned
  <2> QED
    BY <2>7, <2>9 DEF ClusterKept
<1>4. ASSUME NEW r \in reports', r.result = "confirmed", Unresolved(r.task)'
      PROVE  Quiet /\ DeploymentOK(ops[r.task.op].plan) /\ ServiceOK(ops[r.task.op].plan)
  <2>0. /\ r.task.op \in DOMAIN ops /\ r.task.revision \in Nat /\ r.task.revision <= ops[r.task.op].revision
        /\ Repeated(r) \/ (r.task = agent.task /\ agent.pc = "recoverService" /\ ServiceMatches)
    <3>1. CASE Repeated(r)
      BY <1>4, <1>t, <3>1 DEF Repeated, PlanInv, Behind
    <3>2. CASE r.task = agent.task /\ Found(r.result)
      BY <1>4, <1>t, <3>2 DEF Found, PlanInv, Behind
    <3> QED
      BY <1>4, <1>r, <3>1, <3>2
  <2>1. PICK u : u = r.task
    OBVIOUS
  <2>2. Unresolved(u)
    BY <1>4, <2>0, <2>1, StillCurrent
  <2>3. CASE Repeated(r)
    BY <1>4, <2>1, <2>2, <2>3 DEF Repeated, SeenInv, ConfirmedSeen
  <2>4. CASE r.task = agent.task /\ agent.pc = "recoverService" /\ ServiceMatches
    <3>1. DeploymentOK(Plan) /\ (\A w \in wire : w.kind = "Deployment" => Harmless(w)) /\ ServiceOK(Plan)
      BY <1>m, <2>1, <2>2, <2>4 DEF SeenInv, RecoverySeen
    <3>2. \A w \in wire : w.kind = "Service" => Harmless(w)
      BY <2>0, <2>1, <2>2, <2>4, MatchedIsHarmless DEF WireInv
    <3>3. \A w \in wire : w.kind \in {"Deployment", "Service"}
      BY DEF RecordsTyped, KubeTyped, Writes, Kinds
    <3> QED
      BY <2>4, <3>1, <3>2, <3>3 DEF Quiet, Plan
  <2> QED
    BY <2>0, <2>3, <2>4
<1>5. ASSUME ops' # <<>>, ops'[Len(ops')].state = "SUCCEEDED"
      PROVE  (DeploymentOK(ops[Len(ops)].plan) /\ ServiceOK(ops[Len(ops)].plan))'
  <2>0. ops \in Seq(OperationRow) /\ OperationsMove /\ Len(ops) \in Nat /\ DOMAIN ops = 1..Len(ops)
    BY OperationsStep, TaskParts DEF RecordsTyped, OpsTyped
  <2>1. PICK o : o = Len(ops')
    OBVIOUS
  <2>2. o \in DOMAIN ops /\ o = Len(ops)
    <3>1. CASE UNCHANGED ops
      BY <1>5, <2>0, <2>1, <3>1
    <3>2. ASSUME NEW plan \in Plans, ops' = Append(ops, NewOperation(plan)) PROVE FALSE
      <4>1. ops'[Len(ops')] = NewOperation(plan)
        BY <2>0, <3>2 DEF NewOperation
      <4> QED
        BY <1>5, <4>1 DEF NewOperation
    <3>3. ASSUME NEW i \in DOMAIN ops, NEW new, ops' = [ops EXCEPT ![i] = new], Rewrite(ops[i], new)
          PROVE  o \in DOMAIN ops /\ o = Len(ops)
      <4>1. DOMAIN ops' = DOMAIN ops /\ ops' \in Seq(OperationRow)
        BY <2>0, <3>3, ExceptSeq DEF Rewrite
      <4>2. Len(ops') = Len(ops)
        BY <2>0, <4>1
      <4> QED
        BY <2>0, <2>1, <3>3, <4>2
    <3> QED
      BY <2>0, <3>1, <3>2, <3>3 DEF OperationsMove
  <2>3. ops[o].state = "SUCCEEDED" \/ SucceedsNow(o) \/ ConfirmedNow(o)
    BY <1>5, <2>1, <2>2, OutcomesStep DEF Outcome
  <2>4. DeploymentOK(ops[o].plan) /\ ServiceOK(ops[o].plan)
    <3>1. CASE ops[o].state = "SUCCEEDED"
      BY <2>0, <2>2, <3>1 DEF SeenInv, LastDeployed
    <3>2. CASE SucceedsNow(o)
      BY <3>2 DEF SucceedsNow, SeenInv, SuccessSeen
    <3>3. CASE ConfirmedNow(o)
      BY <3>3 DEF ConfirmedNow, SeenInv, ConfirmedSeen
    <3> QED
      BY <2>3, <3>1, <3>2, <3>3
  <2>5. (DeploymentOK(ops[o].plan) /\ ServiceOK(ops[o].plan))'
    BY <1>k, <2>2, <2>4
  <2> QED
    BY <2>1, <2>5 DEF DeploymentOK, ServiceOK, Owned
<1>6. Observed' /\ RecoverySeen' /\ LastDeployed'
  BY <1>1, <1>3, <1>5 DEF Observed, RecoverySeen, LastDeployed
<1>7. SuccessSeen'
  <2>1. ASSUME NEW r \in reports', r.result = "success", Awaited(r.task)'
        PROVE  (DeploymentOK(ops[r.task.op].plan) /\ ServiceOK(ops[r.task.op].plan))'
    <3>1. PICK o \in DOMAIN ops : o = r.task.op
      BY <1>r, <2>1
    <3>2. (DeploymentOK(ops[o].plan) /\ ServiceOK(ops[o].plan))'
      BY <1>2, <1>k, <2>1, <3>1
    <3> QED
      BY <3>1, <3>2
  <2> QED
    BY <2>1 DEF SuccessSeen
<1>8. ConfirmedSeen'
  <2>1. ASSUME NEW r \in reports', r.result = "confirmed", Unresolved(r.task)'
        PROVE  (Quiet /\ DeploymentOK(ops[r.task.op].plan) /\ ServiceOK(ops[r.task.op].plan))'
    <3>1. PICK o \in DOMAIN ops : o = r.task.op
      BY <1>r, <2>1
    <3>2. (DeploymentOK(ops[o].plan) /\ ServiceOK(ops[o].plan))'
      BY <1>4, <1>k, <2>1, <3>1
    <3>3. Quiet'
      BY <1>4, <1>q, <2>1
    <3> QED
      BY <3>1, <3>2, <3>3
  <2> QED
    BY <2>1 DEF ConfirmedSeen
<1> QED
  BY <1>6, <1>7, <1>8 DEF SeenInv

\* A request is sent only when nothing is open, and for the one operation in hand.
LEMMA SentStep ==
  ASSUME RecordsTyped, HandInv, PlanInv, QuietInv, Sent
  PROVE  QuietInv'
<1>1. PICK w : /\ wire' = wire \cup {w} /\ agent' = [pc |-> "wait", task |-> agent.task, write |-> w]
               /\ UNCHANGED <<ops, calls, reports, target, version>>
               /\ agent.pc \in {"apply", "clean"}
               /\ w.op = agent.task.op /\ (w.verb = "create" => ~Owned(w.kind))
  BY SentParts DEF PlanInv
<1>2. Executing /\ agent.pc # "wait" /\ agent'.pc = "wait" /\ agent'.write = w
  BY <1>1 DEF Executing
<1>3. Quiet
  BY <1>2 DEF QuietInv, HandsInv, AgentQuiet, Quiet
<1>4. \A v : Harmless(v)' <=> Harmless(v)
  BY <1>1 DEF Harmless, Lands, Owned
<1>5. \A k \in Kinds : Owned(k)' <=> Owned(k)
  BY <1>1 DEF Owned
<1>6. \A v \in wire' : Harmless(v)' \/ v = w
  BY <1>1, <1>3, <1>4 DEF Quiet
<1>t. PICK t : t = agent.task
  OBVIOUS
<1>7. InTime(t) /\ t.op = w.op
  BY <1>1, <1>2, <1>t DEF HandInv, AgentInTime
<1>8. t.op \in DOMAIN ops /\ InHand(ops[t.op]) /\ Blocks(ops[t.op]) /\ Ambiguous(ops[t.op])
  BY <1>7 DEF InTime, InHand, Ambiguous, Blocks, OperationBlocksExclusiveTargetMutation
<1>9. \A o \in DOMAIN ops : Blocks(ops[o]) => o = t.op
  BY <1>8 DEF PlanInv, LastBlocks
<1>10. WireInv'
  <2>1. OneOpen'
    BY <1>6 DEF OneOpen
  <2>2. Ambiguous(ops'[w.op]) /\ (w.verb = "create" => ~Owned(w.kind)')
    BY <1>1, <1>7, <1>8 DEF Owned
  <2>3. OpenIsAmbiguous'
    BY <1>6, <2>2 DEF OpenIsAmbiguous, Ambiguous, InHand
  <2> QED
    BY <2>1, <2>3 DEF WireInv
<1>11. ASSUME NEW h \in Handlers PROVE ~Holds(h)
  <2>1. SUFFICES ASSUME Holds(h) PROVE FALSE
    OBVIOUS
  <2>2. calls[h].task.op # t.op /\ InTime(calls[h].task)
    BY <1>2, <1>t, <2>1 DEF HandInv, OneHandEach, AnswersInTime
  <2>3. calls[h].task.op \in DOMAIN ops /\ Blocks(ops[calls[h].task.op])
    BY <2>2 DEF InTime, InHand, Blocks, OperationBlocksExclusiveTargetMutation
  <2> QED
    BY <1>9, <2>2, <2>3
<1>12. ASSUME NEW u \in Conclusive, Awaited(u) PROVE FALSE
  <2>1. u \in Finishers
    BY <1>12 DEF Conclusive, Finishers
  <2>2. u.op \in DOMAIN ops /\ Blocks(ops[u.op])
    BY <1>12, <2>1 DEF HandInv, NoneAhead, Awaited, InHand, Blocks, OperationBlocksExclusiveTargetMutation
  <2>3. u.op = t.op /\ u.revision = ops[t.op].revision
    BY <1>9, <1>12, <2>2 DEF Awaited, Cur
  <2>4. u.revision < t.revision /\ t.revision <= ops[t.op].revision
    BY <1>7, <2>1, <2>3 DEF InTime
  <2>5. t.revision \in Nat /\ ops[t.op].revision \in Nat
    <3>1. Len(ops) \in Nat /\ ops[t.op] \in OperationRow
      BY <1>8, TaskParts
    <3>2. t \in TasksOf(Len(ops))
      BY <1>1, <1>t, <3>1, AgentParts DEF RecordsTyped, AgentTyped
    <3> QED
      BY <3>1, <3>2 DEF TasksOf, OperationRow
  <2> QED
    BY <2>3, <2>4, <2>5
<1>13. HandsInv'
  <2>1. HandsQuiet'
    BY <1>1, <1>11 DEF HandsQuiet, Holds
  <2>2. AgentQuiet'
    BY <1>2, <1>6 DEF AgentQuiet
  <2>3. Conclusive' = Conclusive /\ \A u : Awaited(u)' <=> Awaited(u)
    BY <1>1 DEF Conclusive, Awaited, Cur
  <2>4. ConclusionsQuiet'
    BY <1>12, <2>3 DEF ConclusionsQuiet
  <2> QED
    BY <2>1, <2>2, <2>4 DEF HandsInv
<1>14. SeenInv'
  <2>1. \A p : (DeploymentOK(p)' <=> DeploymentOK(p)) /\ (ServiceOK(p)' <=> ServiceOK(p))
    BY <1>1 DEF DeploymentOK, ServiceOK, Owned
  <2>2. ASSUME NEW r \in reports, Unresolved(r.task) PROVE FALSE
    <3>1. r.task.op \in DOMAIN ops /\ Blocks(ops[r.task.op])
      BY <2>2, TaskParts DEF Unresolved, Blocks, OperationBlocksExclusiveTargetMutation
    <3> QED
      BY <1>8, <1>9, <2>2, <3>1 DEF Unresolved, InHand
  <2>3. Observed' /\ RecoverySeen'
    BY <1>2 DEF Observed, RecoverySeen
  <2>4. \A u : (Awaited(u)' <=> Awaited(u)) /\ (Unresolved(u)' <=> Unresolved(u))
    BY <1>1 DEF Awaited, Unresolved, Cur
  <2>5. ASSUME NEW o PROVE (DeploymentOK(ops[o].plan) /\ ServiceOK(ops[o].plan))' <=> DeploymentOK(ops[o].plan) /\ ServiceOK(ops[o].plan)
    <3>1. PICK p : p = ops[o].plan
      OBVIOUS
    <3>2. ops'[o].plan = p
      BY <1>1, <3>1
    <3> QED
      BY <2>1, <3>1, <3>2 DEF DeploymentOK, ServiceOK, Owned
  <2>6. SuccessSeen'
    <3>1. ASSUME NEW r \in reports, r.result = "success", Awaited(r.task)'
          PROVE  (DeploymentOK(ops[r.task.op].plan) /\ ServiceOK(ops[r.task.op].plan))'
      BY <2>4, <2>5, <3>1 DEF QuietInv, SeenInv, SuccessSeen
    <3> QED
      BY <1>1, <3>1 DEF SuccessSeen
  <2>7. ConfirmedSeen'
    BY <1>1, <2>2, <2>4 DEF ConfirmedSeen
  <2>8. LastDeployed'
    <3>1. ASSUME ops # <<>>, ops[Len(ops)].state = "SUCCEEDED"
          PROVE  (DeploymentOK(ops[Len(ops)].plan) /\ ServiceOK(ops[Len(ops)].plan))'
      <4>1. PICK o : o = Len(ops)
        OBVIOUS
      <4>2. (DeploymentOK(ops[o].plan) /\ ServiceOK(ops[o].plan))'
        BY <2>5, <3>1, <4>1 DEF QuietInv, SeenInv, LastDeployed
      <4>3. Len(ops') = o
        BY <1>1, <4>1
      <4> QED
        BY <4>2, <4>3
    <3> QED
      BY <1>1, <3>1 DEF LastDeployed
  <2> QED
    BY <2>3, <2>6, <2>7, <2>8 DEF SeenInv
<1> QED
  BY <1>10, <1>13, <1>14 DEF QuietInv

\* When the open request lands, nobody has concluded on the state it changes.
LEMMA LandedStep ==
  ASSUME RecordsTyped, ClusterInv, HandInv, PlanInv, QuietInv, WorkMove,
         NEW w \in wire, Decided(w), Lands(w), ~Harmless(w)
  PROVE  QuietInv'
<1>1. Quiet' /\ \A k \in Kinds : k # w.kind => target'[k] = target[k]
  BY LandingQuiets DEF RecordsTyped, QuietInv, WireInv
<1>2. ~Quiet /\ UNCHANGED <<ops, calls>> /\ wire' \subseteq wire
  BY DEF Quiet, Decided
<1>3. WireInv' /\ HandsInv'
  BY <1>1 DEF Quiet, WireInv, OneOpen, OpenIsAmbiguous, HandsInv, HandsQuiet, AgentQuiet, ConclusionsQuiet
<1>4. ~(\E u \in Conclusive : Awaited(u)) /\ ~(\E r \in reports : r.result = "confirmed" /\ Unresolved(r.task))
  BY <1>2 DEF QuietInv, HandsInv, ConclusionsQuiet, SeenInv, ConfirmedSeen
<1>5. UNCHANGED kubeVars => FALSE
  BY DEF kubeVars, Decided
<1>6. agent'.pc # "observeService"
  <2>1. agent.pc = "observeService" => Quiet
    BY DEF QuietInv, HandsInv, AgentQuiet, Executing, Quiet
  <2> QED
    BY <1>2, <1>5, <2>1 DEF WorkMove
<1>7. ASSUME NEW r \in reports', r.result = "success" \/ r.result = "confirmed" PROVE Repeated(r)
  BY <1>5, <1>7 DEF WorkMove, Found
<1>8. ASSUME NEW r \in reports', r.result = "success" PROVE ~Awaited(r.task)'
  <2>1. PICK q \in reports : q.task = r.task /\ q.result = "success"
    BY <1>7, <1>8 DEF Repeated
  <2>2. q.task \in Conclusive
    BY <2>1 DEF Conclusive
  <2>3. ~Awaited(r.task)
    BY <1>4, <2>1, <2>2
  <2> QED
    BY <1>2, <2>3 DEF Awaited, Cur
<1>9. ASSUME NEW r \in reports', r.result = "confirmed" PROVE ~Unresolved(r.task)'
  <2>1. PICK q \in reports : q.task = r.task /\ q.result = "confirmed"
    BY <1>7, <1>9 DEF Repeated
  <2>2. ~Unresolved(r.task)
    BY <1>4, <2>1
  <2> QED
    BY <1>2, <2>2 DEF Unresolved, Cur
<1>10. ASSUME agent'.pc = "recoverService", Unresolved(agent.task)' PROVE DeploymentOK(Plan)'
  <2>1. agent' = agent
    BY <1>5, <1>10 DEF WorkMove
  <2>2. Unresolved(agent.task)
    BY <1>2, <1>10, <2>1 DEF Unresolved, Cur
  <2>3. DeploymentOK(Plan) /\ w.kind # "Deployment"
    BY <1>10, <2>1, <2>2 DEF QuietInv, SeenInv, RecoverySeen
  <2>4. target'["Deployment"] = target["Deployment"] /\ Plan' = Plan
    BY <1>1, <1>2, <2>1, <2>3 DEF Kinds, Plan
  <2> QED
    BY <2>3, <2>4 DEF DeploymentOK, Owned
<1>11. ops = <<>> \/ ops[Len(ops)].state # "SUCCEEDED"
  <2>1. w.op = Len(ops) /\ Ambiguous(ops[w.op])
    BY OpenOwner DEF QuietInv, WireInv
  <2> QED
    BY <2>1 DEF Ambiguous, InHand
<1>12. Observed' /\ RecoverySeen' /\ LastDeployed'
  BY <1>1, <1>2, <1>6, <1>10, <1>11 DEF Observed, RecoverySeen, LastDeployed, Quiet
<1>13. SuccessSeen' /\ ConfirmedSeen'
  BY <1>8, <1>9 DEF SuccessSeen, ConfirmedSeen
<1> QED
  BY <1>3, <1>12, <1>13 DEF QuietInv, SeenInv

-----------------------------------------------------------------------------
(* The theorem. *)

\* What was given up stays given up; until then every step keeps QuietInv.
LEMMA QuietStep ==
  ASSUME RecordsTyped, ClusterInv, HandInv, PlanInv, GivenUp \/ QuietInv, [Next]_vars
  PROVE  (GivenUp \/ QuietInv)'
<1>1. CASE GivenUp
  <2>1. PICK o \in DOMAIN ops : ops[o].state = "CANCELLED" /\ ops[o].failure = "UNKNOWN"
    BY <1>1 DEF GivenUp
  <2>2. o \in DOMAIN ops' /\ ops'[o].state = "CANCELLED" /\ ops'[o].failure = "UNKNOWN"
    BY <2>1, PlansKept, OutcomesStep DEF Outcome
  <2> QED
    BY <2>2 DEF GivenUp
<1>2. CASE QuietInv /\ ~GivenUp'
  <2>1. ASSUME ClusterKept, WorkMove PROVE QuietInv'
    <3>1. WireInv /\ HandsInv /\ SeenInv /\ ConclusionsQuiet /\ ConfirmedSeen
      BY <1>2 DEF QuietInv, HandsInv, SeenInv
    <3>2. WireInv' /\ HandsInv' /\ SeenInv'
      BY <1>2, <2>1, <3>1, KeptWire, KeptHands, KeptSeen
    <3> QED
      BY <3>2 DEF QuietInv
  <2>2. ASSUME WorkMove, NEW w \in wire, Decided(w) PROVE QuietInv'
    <3>1. CASE Lands(w) /\ ~Harmless(w)
      BY <1>2, <2>2, <3>1, LandedStep
    <3>2. CASE ~Lands(w) \/ Harmless(w)
      <4>1. wire' \subseteq wire /\ UNCHANGED target
        BY <2>2, <3>2 DEF Decided, Harmless, Write
      <4>2. ClusterKept
        BY <4>1, ClusterStays DEF RecordsTyped
      <4> QED
        BY <2>1, <2>2, <4>2
    <3> QED
      BY <3>1, <3>2
  <2>3. ASSUME WorkMove, (UNCHANGED kubeVars \/ \E k \in Kinds : Seized(k)) PROVE QuietInv'
    <3>1. ClusterKept
      BY <2>3, ClusterStays DEF RecordsTyped, kubeVars
    <3> QED
      BY <2>1, <2>3, <3>1
  <2>4. CASE Sent
    BY <1>2, <2>4, SentStep
  <2> QED
    BY <2>2, <2>3, <2>4, WorksStep
<1> QED
  BY <1>1, <1>2

\* What can still change the cluster belongs to the operation that fences the binding,
\* for as long as no ambiguity is given up.
THEOREM QuietInvariant == Spec => [](PlanInv /\ (GivenUp \/ QuietInv))
<1>1. Init => PlanInv /\ QuietInv
  <2>1. ASSUME Init PROVE /\ wire = {} /\ reports = {} /\ ops = <<>> /\ DOMAIN ops = {} /\ agent.pc = "idle"
                          /\ \A h \in Handlers : calls[h].pc = "idle"
    BY <2>1 DEF Init, IdleAgent, IdleCall
  <2>2. ASSUME Init PROVE PlanInv
    BY <2>1, <2>2 DEF PlanInv, Rendered, AgentRenders, Behind, LastBlocks
  <2>3. ASSUME Init PROVE Conclusive = {}
    BY <2>1, <2>3 DEF Conclusive
  <2>4. ASSUME Init PROVE QuietInv
    BY <2>1, <2>3, <2>4 DEF QuietInv, WireInv, OneOpen, OpenIsAmbiguous, HandsInv, HandsQuiet, AgentQuiet, ConclusionsQuiet,
      SeenInv, Observed, SuccessSeen, RecoverySeen, ConfirmedSeen, LastDeployed, Holds, Executing
  <2> QED
    BY <2>2, <2>4
<1>2. DeploymentInv /\ ClusterInv /\ HandInv /\ PlanInv /\ (GivenUp \/ QuietInv) /\ [Next]_vars
        => PlanInv' /\ (GivenUp \/ QuietInv)'
  BY PlanStep, QuietStep DEF DeploymentInv
<1> QED
  BY <1>1, <1>2, DeploymentInvariant, ClusterInvariant, HandInvariant, PTL DEF Spec

\* After the last deployment has succeeded the cluster holds what it rendered, however
\* many retries, recoveries and delayed requests came before.
THEOREM SuccessStays == Spec => []SucceededStaysDeployed
<1>1. QuietInv => SucceededStaysDeployed
  BY DEF QuietInv, SeenInv, LastDeployed, DeploymentOK, ServiceOK, Owned, SucceededStaysDeployed
<1>2. DeploymentInv /\ GivenUp => SucceededStaysDeployed
  BY DEF GivenUp, SucceededStaysDeployed, NoAmbiguityLeft
<1> QED
  BY <1>1, <1>2, QuietInvariant, DeploymentInvariant, PTL
=============================================================================
