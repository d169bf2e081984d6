--------------------- MODULE ApplicationDeploymentProofs ---------------------
(***************************************************************************)
(* TLAPS proofs about ApplicationDeployment, for every number of clients,  *)
(* handlers, operations, claims and revisions of the binding.              *)
(*                                                                         *)
(* The argument: a step appends an operation to a free target, or rewrites *)
(* one operation's record in one of a few ways, none of which makes a      *)
(* settled operation fence its binding again.                              *)
(***************************************************************************)
EXTENDS ApplicationDeployment, SequenceTheorems, TLAPS

OperationRow ==
  [state : States, revision : Nat, fence : 0..MaxClaims, lease : {"NONE", "LIVE", "EXPIRED"},
   attempt : 0..MaxAttempts, next : {"NONE", "WAITING", "DUE"},
   failure : {"NONE", "UNKNOWN", "PERMANENT", "DEPENDENCY_UNAVAILABLE"}, plan : Plans]

Blocks(op) == OperationBlocksExclusiveTargetMutation(op)

\* An attempt was started under a claim.
FenceUsed(op) == op.state \in {"RUNNING", "FAILED"} => op.fence > 0

\* The agent may be at work on it.
InHand(op) == op.state \in {"RUNNING", "CANCEL_REQUESTED"}

\* Calls, agent and reports hold tasks of the first n operations.
TasksOf(n) == [op : 1..n, token : 1..MaxClaims, revision : Nat]

StartingPcs == {"read", "validate", "start", "refuse", "respond", "fail"}
CallRows(n) ==
  {IdleCall} \cup [pc : {"claim"}, jobs : SUBSET (1..n)]
    \cup [pc : StartingPcs, jobs : SUBSET (1..n), task : TasksOf(n)]

Contents == [binding : Nat, service : BOOLEAN]
Writes(n) == [op : 1..n, kind : Kinds, verb : {"create", "apply", "delete"}, content : Contents, rv : Nat]

SteppingPcs == {"clean", "gone", "observe", "observeService", "recover", "recoverService"}
AgentRows(n) ==
  {IdleAgent} \cup [pc : {"polling"}, task : {NoTask}, call : Handlers]
    \cup [pc : {"apply", "readback"}, task : TasksOf(n), kind : Kinds]
    \cup [pc : {"wait"}, task : TasksOf(n), write : Writes(n)]
    \cup [pc : SteppingPcs, task : TasksOf(n)]

ReportRows(n) ==
  [task : TasksOf(n), result : {"success", "failed", "unknown", "confirmed"},
   authority : {"UNCHECKED", "CURRENT", "CHANGED"}]

\* TypeOK, with the operations, the calls, the agent, the reports and the writes typed
\* row by row: all they name are operations that exist.
OpsTyped ==
  /\ ops \in Seq(OperationRow) /\ Len(ops) <= MaxOps
  /\ \A o \in DOMAIN ops : FenceUsed(ops[o])
HubTyped ==
  /\ binding \in 1..MaxBinding /\ workspace \in {"ACTIVE", "REVOKED"} /\ inventory \in Inventories \cup Unfit
  /\ building \in [Clients -> Plans \cup {NoPlan}]
  /\ approving \subseteq DOMAIN ops
CallsTyped == calls \in [Handlers -> CallRows(Len(ops))]
AgentTyped == agent \in AgentRows(Len(ops)) /\ reports \subseteq ReportRows(Len(ops))
KubeTyped  == target \in [Kinds -> Objects] /\ version \in Nat /\ wire \subseteq Writes(Len(ops))

RecordsTyped == OpsTyped /\ HubTyped /\ CallsTyped /\ AgentTyped /\ KubeTyped

-----------------------------------------------------------------------------
(* Rows. *)

\* What names the first m operations names the first n.
LEMMA RowsGrow ==
  ASSUME NEW m \in Nat, NEW n \in Nat, m <= n
  PROVE  /\ TasksOf(m) \subseteq TasksOf(n) /\ CallRows(m) \subseteq CallRows(n)
         /\ Writes(m) \subseteq Writes(n) /\ AgentRows(m) \subseteq AgentRows(n)
         /\ ReportRows(m) \subseteq ReportRows(n)
<1>1. 1..m \subseteq 1..n
  OBVIOUS
<1>2. TasksOf(m) \subseteq TasksOf(n) /\ Writes(m) \subseteq Writes(n)
  BY <1>1, Zenon DEF TasksOf, Writes
<1>3. SUBSET (1..m) \subseteq SUBSET (1..n)
  BY <1>1, Zenon
<1>4. CallRows(m) \subseteq CallRows(n)
  BY <1>2, <1>3, Zenon DEF CallRows
<1>5. AgentRows(m) \subseteq AgentRows(n)
  BY <1>2, Zenon DEF AgentRows
<1>6. ReportRows(m) \subseteq ReportRows(n)
  BY <1>2, Zenon DEF ReportRows
<1> QED
  BY <1>2, <1>4, <1>5, <1>6

\* What a call has at each point.
LEMMA CallParts ==
  ASSUME NEW n \in Nat, NEW c \in CallRows(n)
  PROVE  /\ c.pc \in {"idle", "claim"} \cup StartingPcs
         /\ c.pc = "idle" => c = IdleCall
         /\ c.pc = "claim" => c \in [pc : {"claim"}, jobs : SUBSET (1..n)]
         /\ c.pc \in StartingPcs => c \in [pc : StartingPcs, jobs : SUBSET (1..n), task : TasksOf(n)]
BY DEF CallRows, IdleCall, StartingPcs

\* What the agent has at each point.
LEMMA AgentParts ==
  ASSUME NEW n \in Nat, agent \in AgentRows(n)
  PROVE  /\ agent.pc = "polling" => agent \in [pc : {"polling"}, task : {NoTask}, call : Handlers]
         /\ agent.pc \in {"apply", "readback"} => agent \in [pc : {"apply", "readback"}, task : TasksOf(n), kind : Kinds]
         /\ agent.pc = "wait" => agent \in [pc : {"wait"}, task : TasksOf(n), write : Writes(n)]
         /\ agent.pc \in SteppingPcs => agent \in [pc : SteppingPcs, task : TasksOf(n)]
         /\ agent.pc = "idle" => agent = IdleAgent
         /\ agent.pc \in {"idle", "polling", "apply", "readback", "wait"} \cup SteppingPcs
         /\ agent.pc \notin {"idle", "polling"} => agent.task \in TasksOf(n)
         /\ agent.task \in TasksOf(n) \cup {NoTask}
BY DEF AgentRows, IdleAgent, SteppingPcs

-----------------------------------------------------------------------------
(* One record. *)

\* A rewritten record is a record of the same plan, at no earlier revision, and does
\* not fence the binding anew.
Rewrite(op, new) ==
  /\ new \in OperationRow /\ new.plan = op.plan /\ op.revision <= new.revision
  /\ FenceUsed(op) => FenceUsed(new)
  /\ ~Blocks(op) => ~Blocks(new)

\* The records the store writes are records, in the states it says.
LEMMA RecordsWritten ==
  ASSUME NEW op \in OperationRow, NEW class \in {"UNKNOWN", "PERMANENT", "DEPENDENCY_UNAVAILABLE"}
  PROVE  /\ Queued(op) \in OperationRow
         /\ op.fence < MaxClaims => Claimed(op) \in OperationRow
         /\ Failed(op, class) \in OperationRow
         /\ Succeeded(op) \in OperationRow /\ Resolved(op) \in OperationRow
         /\ CancelRequested(op) \in OperationRow
         /\ op.attempt < MaxAttempts => Started(op) \in OperationRow
         /\ [op EXCEPT !.lease = "EXPIRED"] \in OperationRow
         /\ [op EXCEPT !.next = "DUE"] \in OperationRow
<1>1. /\ op.revision + 1 \in Nat /\ op.revision + 2 \in Nat
      /\ op.attempt < MaxAttempts => op.attempt + 1 \in 0..MaxAttempts
      /\ op.fence < MaxClaims => op.fence + 1 \in 0..MaxClaims
      /\ {"AWAITING_APPROVAL", "QUEUED", "RUNNING", "RETRY_WAIT", "CANCEL_REQUESTED",
          "SUCCEEDED", "FAILED", "CANCELLED"} = States
  BY DeploymentAssumption DEF OperationRow, States, MaxAttempts
<1> USE DEF OperationRow
<1>2. Queued(op) \in OperationRow
  BY <1>1 DEF Queued
<1>3. op.fence < MaxClaims => Claimed(op) \in OperationRow
  <2>1. CASE op.state = "RETRY_WAIT" /\ op.fence < MaxClaims
    <3>1. Claimed(op) = [op EXCEPT !.state = "QUEUED", !.next = "NONE", !.revision = op.revision + 2,
                                   !.fence = op.fence + 1, !.lease = "LIVE"]
      BY <2>1 DEF Claimed
    <3> QED
      BY <1>1, <2>1, <3>1
  <2>2. CASE op.state # "RETRY_WAIT" /\ op.fence < MaxClaims
    <3>1. Claimed(op) = [op EXCEPT !.state = op.state, !.next = op.next, !.revision = op.revision + 1,
                                   !.fence = op.fence + 1, !.lease = "LIVE"]
      BY <2>2 DEF Claimed
    <3> QED
      BY <1>1, <2>2, <3>1
  <2> QED
    BY <2>1, <2>2
<1>4. Failed(op, class) \in OperationRow
  <2>1. \/ Failed(op, class) = [op EXCEPT !.state = "RETRY_WAIT", !.next = "WAITING", !.failure = class,
                                          !.revision = op.revision + 1, !.lease = "NONE"]
        \/ Failed(op, class) = [op EXCEPT !.state = "FAILED", !.next = "NONE", !.failure = class,
                                          !.revision = op.revision + 1, !.lease = "NONE"]
    BY DEF Failed
  <2> QED
    BY <1>1, <2>1
<1>5. Succeeded(op) \in OperationRow /\ Resolved(op) \in OperationRow
  BY <1>1 DEF Succeeded, Resolved
<1>6. CancelRequested(op) \in OperationRow
  BY <1>1 DEF CancelRequested
<1>7. op.attempt < MaxAttempts => Started(op) \in OperationRow
  BY <1>1 DEF Started
<1>8. [op EXCEPT !.lease = "EXPIRED"] \in OperationRow /\ [op EXCEPT !.next = "DUE"] \in OperationRow
  OBVIOUS
<1> QED
  BY <1>2, <1>3, <1>4, <1>5, <1>6, <1>7, <1>8

\* The fields of a rewritten record.
LEMMA FieldsWritten ==
  ASSUME NEW op \in OperationRow, NEW class \in {"UNKNOWN", "PERMANENT", "DEPENDENCY_UNAVAILABLE"}
  PROVE  /\ Queued(op).plan = op.plan /\ op.revision <= Queued(op).revision
         /\ Claimed(op).plan = op.plan /\ op.revision < Claimed(op).revision /\ Claimed(op).fence = op.fence + 1
         /\ Claimed(op).state = (IF op.state = "RETRY_WAIT" THEN "QUEUED" ELSE op.state)
         /\ Failed(op, class).plan = op.plan /\ op.revision < Failed(op, class).revision
         /\ Failed(op, class).fence = op.fence /\ Failed(op, class).state \in {"FAILED", "RETRY_WAIT"}
         /\ Succeeded(op).plan = op.plan /\ op.revision < Succeeded(op).revision /\ Succeeded(op).state = "SUCCEEDED"
         /\ Resolved(op).plan = op.plan /\ op.revision < Resolved(op).revision /\ Resolved(op).state = "SUCCEEDED"
         /\ CancelRequested(op).plan = op.plan /\ op.revision < CancelRequested(op).revision
         /\ CancelRequested(op).state = (IF op.state = "RUNNING" THEN "CANCEL_REQUESTED" ELSE "CANCELLED")
         /\ Started(op).plan = op.plan /\ Started(op).revision = op.revision + 1
         /\ Started(op).state = "RUNNING" /\ Started(op).fence = op.fence
<1> USE DEF OperationRow
<1>1. Queued(op).plan = op.plan /\ op.revision <= Queued(op).revision
  BY DEF Queued
<1>2. /\ Claimed(op).plan = op.plan /\ op.revision < Claimed(op).revision /\ Claimed(op).fence = op.fence + 1
      /\ Claimed(op).state = (IF op.state = "RETRY_WAIT" THEN "QUEUED" ELSE op.state)
  BY DEF Claimed
<1>3. /\ Failed(op, class).plan = op.plan /\ op.revision < Failed(op, class).revision
      /\ Failed(op, class).fence = op.fence /\ Failed(op, class).state \in {"FAILED", "RETRY_WAIT"}
  BY DEF Failed
<1>4. /\ Succeeded(op).plan = op.plan /\ op.revision < Succeeded(op).revision /\ Succeeded(op).state = "SUCCEEDED"
      /\ Resolved(op).plan = op.plan /\ op.revision < Resolved(op).revision /\ Resolved(op).state = "SUCCEEDED"
  BY DEF Succeeded, Resolved
<1>5. /\ CancelRequested(op).plan = op.plan /\ op.revision < CancelRequested(op).revision
      /\ CancelRequested(op).state = (IF op.state = "RUNNING" THEN "CANCEL_REQUESTED" ELSE "CANCELLED")
  BY DEF CancelRequested
<1>6. /\ Started(op).plan = op.plan /\ Started(op).revision = op.revision + 1
      /\ Started(op).state = "RUNNING" /\ Started(op).fence = op.fence
  BY DEF Started
<1> QED
  BY <1>1, <1>2, <1>3, <1>4, <1>5, <1>6

\* Only what fences its binding is queued, claimed, started, failed or retried.
LEMMA Rewrites ==
  ASSUME NEW op \in OperationRow, NEW class \in {"UNKNOWN", "PERMANENT", "DEPENDENCY_UNAVAILABLE"}
  PROVE  /\ Rewrite(op, Queued(op)) /\ (InHand(op) => Queued(op) = op)
         /\ Rewrite(op, CancelRequested(op))
         /\ ClaimAccepts(op) /\ op.fence < MaxClaims => Rewrite(op, Claimed(op))
         /\ op.state = "QUEUED" /\ op.attempt < MaxAttempts /\ op.fence > 0 => Rewrite(op, Started(op))
         /\ op.state = "RUNNING" => Rewrite(op, Failed(op, class)) /\ Rewrite(op, Succeeded(op))
         /\ op.state = "FAILED" /\ op.failure = "UNKNOWN" => Rewrite(op, Resolved(op))
         /\ Rewrite(op, [op EXCEPT !.lease = "EXPIRED"]) /\ [op EXCEPT !.lease = "EXPIRED"].state = op.state
         /\ Rewrite(op, [op EXCEPT !.next = "DUE"]) /\ [op EXCEPT !.next = "DUE"].state = op.state
<1>0. op.revision \in Nat /\ op.fence \in Nat
  BY DEF OperationRow
<1>r. /\ Queued(op) \in OperationRow /\ Failed(op, class) \in OperationRow
      /\ op.fence < MaxClaims => Claimed(op) \in OperationRow
      /\ Succeeded(op) \in OperationRow /\ Resolved(op) \in OperationRow /\ CancelRequested(op) \in OperationRow
      /\ op.attempt < MaxAttempts => Started(op) \in OperationRow
  BY RecordsWritten
<1>q. Queued(op).plan = op.plan /\ op.revision <= Queued(op).revision
  BY FieldsWritten
<1>c. /\ Claimed(op).plan = op.plan /\ op.revision < Claimed(op).revision /\ Claimed(op).fence = op.fence + 1
      /\ Claimed(op).state = (IF op.state = "RETRY_WAIT" THEN "QUEUED" ELSE op.state)
  BY FieldsWritten
<1>s. /\ Started(op).plan = op.plan /\ Started(op).revision = op.revision + 1
      /\ Started(op).state = "RUNNING" /\ Started(op).fence = op.fence
  BY FieldsWritten
<1>e. /\ Failed(op, class).plan = op.plan /\ op.revision < Failed(op, class).revision
      /\ Failed(op, class).fence = op.fence
      /\ Succeeded(op).plan = op.plan /\ op.revision < Succeeded(op).revision /\ Succeeded(op).state = "SUCCEEDED"
      /\ Resolved(op).plan = op.plan /\ op.revision < Resolved(op).revision /\ Resolved(op).state = "SUCCEEDED"
  BY FieldsWritten
<1>x. /\ CancelRequested(op).plan = op.plan /\ op.revision < CancelRequested(op).revision
      /\ CancelRequested(op).state = (IF op.state = "RUNNING" THEN "CANCEL_REQUESTED" ELSE "CANCELLED")
  BY FieldsWritten
<1> USE DEF Rewrite, Blocks, OperationBlocksExclusiveTargetMutation, FenceUsed
<1>1. Rewrite(op, Queued(op)) /\ (InHand(op) => Queued(op) = op)
  <2>2. Queued(op) = op \/ (op.state = "AWAITING_APPROVAL" /\ Queued(op).state = "QUEUED")
    BY DEF Queued, OperationRow
  <2> QED
    BY <1>0, <1>q, <1>r, <2>2 DEF InHand
<1>2. Rewrite(op, CancelRequested(op))
  BY <1>0, <1>r, <1>x DEF OperationRow
<1>3. ClaimAccepts(op) /\ op.fence < MaxClaims => Rewrite(op, Claimed(op))
  BY <1>0, <1>c, <1>r DEF ClaimAccepts, OperationRow
<1>4. op.state = "QUEUED" /\ op.attempt < MaxAttempts /\ op.fence > 0 => Rewrite(op, Started(op))
  BY <1>0, <1>r, <1>s DEF OperationRow
<1>5. op.state = "RUNNING" => Rewrite(op, Failed(op, class)) /\ Rewrite(op, Succeeded(op))
  BY <1>0, <1>e, <1>r DEF OperationRow
<1>6. op.state = "FAILED" /\ op.failure = "UNKNOWN" => Rewrite(op, Resolved(op))
  BY <1>0, <1>e, <1>r DEF OperationRow
<1>7. ASSUME NEW new \in OperationRow, new.state = op.state, new.failure = op.failure, new.plan = op.plan,
             new.revision = op.revision, new.fence = op.fence
      PROVE  Rewrite(op, new)
  BY <1>0, <1>7
<1>8. Rewrite(op, [op EXCEPT !.lease = "EXPIRED"]) /\ [op EXCEPT !.lease = "EXPIRED"].state = op.state
  <2>1. [op EXCEPT !.lease = "EXPIRED"] \in OperationRow
    BY RecordsWritten
  <2>2. PICK new : new = [op EXCEPT !.lease = "EXPIRED"]
    OBVIOUS
  <2>3. /\ new.state = op.state /\ new.failure = op.failure /\ new.plan = op.plan
        /\ new.revision = op.revision /\ new.fence = op.fence
    BY <2>2 DEF OperationRow
  <2>4. Rewrite(op, new)
    BY <1>7, <2>1, <2>2, <2>3
  <2> QED
    BY <2>2, <2>3, <2>4, Zenon
<1>9. Rewrite(op, [op EXCEPT !.next = "DUE"]) /\ [op EXCEPT !.next = "DUE"].state = op.state
  <2>1. [op EXCEPT !.next = "DUE"] \in OperationRow
    BY RecordsWritten
  <2>2. PICK new : new = [op EXCEPT !.next = "DUE"]
    OBVIOUS
  <2>3. /\ new.state = op.state /\ new.failure = op.failure /\ new.plan = op.plan
        /\ new.revision = op.revision /\ new.fence = op.fence
    BY <2>2 DEF OperationRow
  <2>4. Rewrite(op, new)
    BY <1>7, <2>1, <2>2, <2>3
  <2> QED
    BY <2>2, <2>3, <2>4, Zenon
<1> QED
  BY <1>1, <1>2, <1>3, <1>4, <1>5, <1>6, <1>8, <1>9

-----------------------------------------------------------------------------
(* One step. *)

\* The tasks somebody may still conclude: a dispatch that was refused, and the reports
\* of attempts.
Finishers ==
  {calls[h].task : h \in {g \in Handlers : calls[g].pc = "fail"}}
    \cup {r.task : r \in {q \in reports : q.result # "confirmed"}}

Concluded(o) == \E u \in Finishers : u.op = o /\ u.revision = ops[o].revision

\* What a step does to the operations: an attempt ends only by a conclusion that names
\* the current revision.
OperationsMove ==
  \/ UNCHANGED ops
  \/ TargetFree /\ Len(ops) < MaxOps /\ \E plan \in Plans : ops' = Append(ops, NewOperation(plan))
  \/ \E o \in DOMAIN ops : \E new :
       /\ Rewrite(ops[o], new) /\ (InHand(ops[o]) => InHand(new) \/ Concluded(o))
       /\ ops' = [ops EXCEPT ![o] = new]

\* The tasks of calls, reports and the agent are of operations that exist.
LEMMA TaskParts ==
  ASSUME RecordsTyped
  PROVE  /\ Len(ops) \in Nat /\ DOMAIN ops = 1..Len(ops) /\ \A o \in DOMAIN ops : ops[o] \in OperationRow
         /\ \A h \in Handlers : calls[h].pc \in StartingPcs =>
              calls[h].task \in TasksOf(Len(ops)) /\ calls[h].task.op \in DOMAIN ops /\ calls[h].task.token > 0
         /\ \A h \in Handlers : calls[h].pc \in StartingPcs \cup {"claim"} => calls[h].jobs \subseteq DOMAIN ops
         /\ \A r \in reports : r.task.op \in DOMAIN ops
<1>1. Len(ops) \in Nat /\ DOMAIN ops = 1..Len(ops) /\ \A o \in DOMAIN ops : ops[o] \in OperationRow
  BY DEF RecordsTyped, OpsTyped
<1>2. ASSUME NEW h \in Handlers, calls[h].pc \in StartingPcs
      PROVE  /\ calls[h].task \in TasksOf(Len(ops)) /\ calls[h].task.op \in DOMAIN ops /\ calls[h].task.token > 0
             /\ calls[h].jobs \subseteq DOMAIN ops
  <2>1. calls[h] \in [pc : StartingPcs, jobs : SUBSET (1..Len(ops)), task : TasksOf(Len(ops))]
    BY <1>1, <1>2, CallParts DEF RecordsTyped, CallsTyped
  <2>2. calls[h].task \in TasksOf(Len(ops)) /\ calls[h].jobs \in SUBSET (1..Len(ops))
    BY <2>1
  <2> QED
    BY <1>1, <2>2, DeploymentAssumption DEF TasksOf
<1>3. ASSUME NEW h \in Handlers, calls[h].pc = "claim" PROVE calls[h].jobs \subseteq DOMAIN ops
  <2>1. calls[h] \in [pc : {"claim"}, jobs : SUBSET (1..Len(ops))]
    BY <1>1, <1>3, CallParts DEF RecordsTyped, CallsTyped
  <2> QED
    BY <1>1, <2>1
<1>4. \A r \in reports : r.task.op \in DOMAIN ops
  BY <1>1 DEF RecordsTyped, AgentTyped, ReportRows, TasksOf
<1> QED
  BY <1>1, <1>2, <1>3, <1>4

\* Every step of clients, hub, agent, cluster and clock is one of these.
LEMMA OperationsStep == RecordsTyped /\ [Next]_vars => OperationsMove
<1> SUFFICES ASSUME RecordsTyped, [Next]_vars PROVE OperationsMove
  OBVIOUS
<1>0. \A o \in DOMAIN ops : ops[o] \in OperationRow
  BY TaskParts
<1>1. ASSUME UNCHANGED ops PROVE OperationsMove
  BY <1>1 DEF OperationsMove
<1>r. ASSUME NEW o \in DOMAIN ops, NEW new, Rewrite(ops[o], new), InHand(ops[o]) => InHand(new) \/ Concluded(o),
             ops' = [ops EXCEPT ![o] = new]
      PROVE  OperationsMove
  BY <1>r, Zenon DEF OperationsMove
<1>2. ASSUME NEW c \in Clients, CreateExclusiveOperation(c) PROVE OperationsMove
  BY <1>2 DEF CreateExclusiveOperation, RecordsTyped, HubTyped, OperationsMove
<1>3. ASSUME NEW o \in DOMAIN ops, ApproveOperationAndQueue(o) PROVE OperationsMove
  <2>1. Rewrite(ops[o], Queued(ops[o])) /\ (InHand(ops[o]) => InHand(Queued(ops[o])))
    BY <1>0, Rewrites
  <2> QED
    BY <1>3, <1>r, <2>1 DEF ApproveOperationAndQueue
<1>4. ASSUME NEW o \in DOMAIN ops, RequestOperationCancellation(o) PROVE OperationsMove
  <2>1. Rewrite(ops[o], CancelRequested(ops[o]))
    BY <1>0, Rewrites
  <2>2. CancelRequested(ops[o]).state = (IF ops[o].state = "RUNNING" THEN "CANCEL_REQUESTED" ELSE "CANCELLED")
    BY <1>0, FieldsWritten
  <2>3. InHand(ops[o]) => InHand(CancelRequested(ops[o]))
    BY <1>4, <2>2 DEF InHand, RequestOperationCancellation
  <2> QED
    BY <1>4, <1>r, <2>1, <2>3 DEF RequestOperationCancellation
<1>5. CASE ClientStep
  BY <1>1, <1>2, <1>3, <1>4, <1>5
  DEF ClientStep, BuildRequest, ValidateApproval, PromoteEnvironmentBinding, RevokeWorkspaceBinding
<1>6. ASSUME NEW h \in Handlers, ClaimOperation(h) PROVE OperationsMove
  <2>1. PICK o \in calls[h].jobs :
          \/ UNCHANGED ops
          \/ ClaimAccepts(ops[o]) /\ ops[o].fence < MaxClaims /\ ops' = [ops EXCEPT ![o] = Claimed(ops[o])]
    BY <1>6 DEF ClaimOperation
  <2>2. o \in DOMAIN ops
    BY <1>6, <2>1, TaskParts DEF ClaimOperation
  <2>3. Claimed(ops[o]).state = (IF ops[o].state = "RETRY_WAIT" THEN "QUEUED" ELSE ops[o].state)
    BY <1>0, <2>2, FieldsWritten
  <2>4. InHand(ops[o]) => InHand(Claimed(ops[o]))
    BY <2>3 DEF InHand
  <2>5. ClaimAccepts(ops[o]) /\ ops[o].fence < MaxClaims => Rewrite(ops[o], Claimed(ops[o]))
    BY <1>0, <2>2, Rewrites
  <2> QED
    BY <1>1, <1>r, <2>1, <2>2, <2>4, <2>5
<1>7. ASSUME NEW h \in Handlers, StartOperationAttempt(h) PROVE OperationsMove
  <2>1. PICK o : o = calls[h].task.op
    OBVIOUS
  <2>2. o \in DOMAIN ops /\ calls[h].task.token > 0
    BY <1>7, <2>1, TaskParts DEF StartOperationAttempt, StartingPcs
  <2>3. \/ UNCHANGED ops
        \/ /\ ops[o].state = "QUEUED" /\ ops[o].attempt < MaxAttempts /\ ops[o].fence = calls[h].task.token
           /\ ops' = [ops EXCEPT ![o] = Started(ops[o])]
    BY <1>7, <2>1 DEF StartOperationAttempt, CanStart, Authorised
  <2>4. ops[o].state = "QUEUED" /\ ops[o].attempt < MaxAttempts /\ ops[o].fence > 0 => Rewrite(ops[o], Started(ops[o]))
    BY <1>0, <2>2, Rewrites
  <2>5. ops[o].state = "QUEUED" => ~InHand(ops[o])
    BY DEF InHand
  <2> QED
    BY <1>1, <1>r, <2>2, <2>3, <2>4, <2>5
<1>8. ASSUME NEW o \in DOMAIN ops, NEW class \in {"UNKNOWN", "PERMANENT", "DEPENDENCY_UNAVAILABLE"},
             ops[o].state = "RUNNING", Concluded(o),
             \/ ops' = [ops EXCEPT ![o] = Failed(ops[o], class)]
             \/ ops' = [ops EXCEPT ![o] = Succeeded(ops[o])]
      PROVE  OperationsMove
  <2>1. Rewrite(ops[o], Failed(ops[o], class)) /\ Rewrite(ops[o], Succeeded(ops[o]))
    BY <1>0, <1>8, Rewrites
  <2> QED
    BY <1>8, <1>r, <2>1
<1>9. ASSUME NEW h \in Handlers, RefuseDispatch(h) PROVE OperationsMove
  <2>1. PICK o : o = calls[h].task.op
    OBVIOUS
  <2>2. o \in DOMAIN ops /\ calls[h].pc = "fail"
    BY <1>9, <2>1, TaskParts DEF RefuseDispatch, StartingPcs
  <2>3. \/ UNCHANGED ops
        \/ /\ ops[o].state = "RUNNING" /\ ops[o].revision = calls[h].task.revision
           /\ ops' = [ops EXCEPT ![o] = Failed(ops[o], "PERMANENT")]
    BY <1>9, <2>1, Zenon DEF RefuseDispatch, Authorised
  <2>4. ops[o].revision = calls[h].task.revision => Concluded(o)
    BY <2>1, <2>2 DEF Concluded, Finishers
  <2> QED
    BY <1>1, <1>8, <2>2, <2>3, <2>4
<1>c. ASSUME NEW r \in reports, r.result # "confirmed", ops[r.task.op].revision = r.task.revision
      PROVE  Concluded(r.task.op)
  BY <1>c DEF Concluded, Finishers
<1>10. ASSUME NEW r \in reports, ReportFailure(r) PROVE OperationsMove
  <2>1. /\ ops[r.task.op].state = "RUNNING" /\ ops[r.task.op].revision = r.task.revision
        /\ ops' = [ops EXCEPT ![r.task.op] = Failed(ops[r.task.op], FailureClass(r.result))]
    BY <1>10, Zenon DEF ReportFailure, Authorised
  <2>2. FailureClass(r.result) \in {"UNKNOWN", "PERMANENT", "DEPENDENCY_UNAVAILABLE"}
    BY DEF FailureClass
  <2>3. r.result # "confirmed" /\ r.task.op \in DOMAIN ops
    BY <1>10, TaskParts DEF ReportFailure
  <2> QED
    BY <1>8, <1>c, <2>1, <2>2, <2>3
<1>11. ASSUME NEW r \in reports, CommitResult(r) PROVE OperationsMove
  <2>1. /\ ops[r.task.op].state = "RUNNING" /\ ops[r.task.op].revision = r.task.revision
        /\ \/ ops' = [ops EXCEPT ![r.task.op] = Failed(ops[r.task.op], "PERMANENT")]
           \/ ops' = [ops EXCEPT ![r.task.op] = Succeeded(ops[r.task.op])]
    BY <1>11, Zenon DEF CommitResult, Authorised
  <2>2. r.result # "confirmed" /\ r.task.op \in DOMAIN ops
    BY <1>11, TaskParts DEF CommitResult
  <2> QED
    BY <1>8, <1>c, <2>1, <2>2
<1>12. ASSUME NEW r \in reports, ResolveRecovery(r) PROVE OperationsMove
  <2>1. /\ ops[r.task.op].state = "FAILED" /\ ops[r.task.op].failure = "UNKNOWN"
        /\ ops' = [ops EXCEPT ![r.task.op] = Resolved(ops[r.task.op])]
    BY <1>12, Zenon DEF ResolveRecovery
  <2>2. r.task.op \in DOMAIN ops
    BY TaskParts
  <2>3. Rewrite(ops[r.task.op], Resolved(ops[r.task.op])) /\ ~InHand(ops[r.task.op])
    BY <1>0, <2>1, <2>2, Rewrites DEF InHand
  <2> QED
    BY <1>r, <2>1, <2>2, <2>3
<1>13. CASE HubStep
  BY <1>1, <1>6, <1>7, <1>9, <1>10, <1>11, <1>12, <1>13
  DEF HubStep, PollNextTask, ReadOperation, ValidateDispatch, RespondTask, ValidateResult, ReportLost, HubRestarts
<1>14. CASE AgentStep
  BY <1>1, <1>14
  DEF AgentStep, ApplyResource, ReadBack, RemoveService, ObserveDeletion, ObserveDeployment, ObserveService,
      AgentError, PollRecoveryTask, RecoverDeployment, RecoverService, AgentRestarts
<1>15. ASSUME NEW o \in DOMAIN ops, LeaseExpires(o) PROVE OperationsMove
  <2>1. PICK new : new = [ops[o] EXCEPT !.lease = "EXPIRED"] /\ ops' = [ops EXCEPT ![o] = new]
    BY <1>15, Zenon DEF LeaseExpires
  <2>2. Rewrite(ops[o], new) /\ new.state = ops[o].state
    BY <1>0, <2>1, Rewrites
  <2> QED
    BY <1>r, <2>1, <2>2 DEF InHand
<1>16. ASSUME NEW o \in DOMAIN ops, RetryBecomesDue(o) PROVE OperationsMove
  <2>1. PICK new : new = [ops[o] EXCEPT !.next = "DUE"] /\ ops' = [ops EXCEPT ![o] = new]
    BY <1>16, Zenon DEF RetryBecomesDue
  <2>2. Rewrite(ops[o], new) /\ new.state = ops[o].state
    BY <1>0, <2>1, Rewrites
  <2> QED
    BY <1>r, <2>1, <2>2 DEF InHand
<1>17. CASE Surroundings
  BY <1>1, <1>15, <1>16, <1>17 DEF Surroundings, DecideWrite, ForeignWrite, InventoryChanges
<1>18. CASE UNCHANGED vars
  BY <1>1, <1>18 DEF vars
<1> QED
  BY <1>5, <1>13, <1>14, <1>17, <1>18 DEF Next

\* What that means for each operation: records stay records, and none is forgotten.
LEMMA OperationsKept ==
  ASSUME OpsTyped, OperationsMove
  PROVE  /\ OpsTyped' /\ DOMAIN ops \subseteq DOMAIN ops'
         /\ Len(ops) \in Nat /\ Len(ops') \in Nat /\ Len(ops) <= Len(ops')
         /\ \A o \in DOMAIN ops :
              Rewrite(ops[o], ops'[o]) /\ (InHand(ops[o]) => InHand(ops'[o]) \/ Concluded(o))
<1>0. /\ ops \in Seq(OperationRow) /\ Len(ops) \in Nat /\ DOMAIN ops = 1..Len(ops)
      /\ \A o \in DOMAIN ops : ops[o] \in OperationRow /\ Rewrite(ops[o], ops[o])
  <2>1. /\ ops \in Seq(OperationRow) /\ Len(ops) \in Nat /\ DOMAIN ops = 1..Len(ops)
        /\ \A o \in DOMAIN ops : ops[o] \in OperationRow
    BY DEF OpsTyped
  <2>2. ASSUME NEW o \in DOMAIN ops PROVE Rewrite(ops[o], ops[o])
    BY <2>1 DEF Rewrite, OperationRow
  <2> QED
    BY <2>1, <2>2
<1>1. CASE UNCHANGED ops
  <2>1. OpsTyped'
    BY <1>1 DEF OpsTyped
  <2> QED
    BY <1>0, <1>1, <2>1
<1>2. ASSUME Len(ops) < MaxOps, NEW plan \in Plans, ops' = Append(ops, NewOperation(plan))
      PROVE  /\ OpsTyped' /\ DOMAIN ops \subseteq DOMAIN ops'
             /\ Len(ops') \in Nat /\ Len(ops) <= Len(ops')
             /\ \A o \in DOMAIN ops : ops'[o] = ops[o]
  <2>1. NewOperation(plan) \in OperationRow
    BY DeploymentAssumption DEF NewOperation, OperationRow, States, MaxAttempts
  <2>2. /\ ops' \in Seq(OperationRow) /\ Len(ops') = Len(ops) + 1 /\ DOMAIN ops' = DOMAIN ops \cup {Len(ops) + 1}
        /\ ops'[Len(ops) + 1] = NewOperation(plan) /\ \A o \in DOMAIN ops : ops'[o] = ops[o]
    BY <1>0, <1>2, <2>1
  <2>3. FenceUsed(NewOperation(plan))
    BY DEF FenceUsed, NewOperation
  <2>4. \A o \in DOMAIN ops' : FenceUsed(ops'[o])
    BY <2>2, <2>3 DEF OpsTyped
  <2>5. Len(ops') <= MaxOps
    BY <1>0, <1>2, <2>2, DeploymentAssumption
  <2> QED
    BY <1>0, <2>2, <2>4, <2>5 DEF OpsTyped
<1>3. ASSUME NEW o \in DOMAIN ops, NEW new, Rewrite(ops[o], new), InHand(ops[o]) => InHand(new) \/ Concluded(o),
             ops' = [ops EXCEPT ![o] = new]
      PROVE  /\ OpsTyped' /\ DOMAIN ops \subseteq DOMAIN ops'
             /\ Len(ops') \in Nat /\ Len(ops) <= Len(ops')
             /\ \A p \in DOMAIN ops :
                  Rewrite(ops[p], ops'[p]) /\ (InHand(ops[p]) => InHand(ops'[p]) \/ Concluded(p))
  <2>1. new \in OperationRow
    BY <1>3 DEF Rewrite
  <2>2. ops' \in Seq(OperationRow)
    BY <1>0, <1>3, <2>1, ExceptSeq
  <2>3. DOMAIN ops' = DOMAIN ops /\ ops'[o] = new /\ \A p \in DOMAIN ops : p # o => ops'[p] = ops[p]
    BY <1>0, <1>3
  <2>4. Len(ops') = Len(ops)
    BY <1>0, <2>2, <2>3
  <2>5. ASSUME NEW p \in DOMAIN ops
        PROVE  Rewrite(ops[p], ops'[p]) /\ (InHand(ops[p]) => InHand(ops'[p]) \/ Concluded(p))
    BY <1>0, <1>3, <2>3
  <2>6. \A p \in DOMAIN ops' : FenceUsed(ops'[p])
    BY <2>3, <2>5 DEF OpsTyped, Rewrite
  <2> QED
    BY <1>0, <2>2, <2>3, <2>4, <2>5, <2>6 DEF OpsTyped
<1> QED
  BY <1>0, <1>1, <1>2, <1>3 DEF OperationsMove

\* A step keeps the fence exclusive, and settled operations settled.
LEMMA FenceStep ==
  RecordsTyped /\ OneDeploymentInFlight /\ [Next]_vars
    => /\ OneDeploymentInFlight'
       /\ \A o \in DOMAIN ops : ~Blocks(ops[o]) => ~Blocks(ops'[o])
<1> SUFFICES ASSUME RecordsTyped, OneDeploymentInFlight, OperationsMove
             PROVE  /\ OneDeploymentInFlight'
                    /\ \A o \in DOMAIN ops : ~Blocks(ops[o]) => ~Blocks(ops'[o])
  BY OperationsStep
<1>0. OpsTyped /\ ops \in Seq(OperationRow)
  BY DEF RecordsTyped, OpsTyped
<1>k. \A o \in DOMAIN ops : ~Blocks(ops[o]) => ~Blocks(ops'[o])
  BY <1>0, OperationsKept DEF Rewrite
<1>f. OneDeploymentInFlight <=> \A o, p \in DOMAIN ops : Blocks(ops[o]) /\ Blocks(ops[p]) => o = p
  BY DEF OneDeploymentInFlight, Blocks
<1>g. OneDeploymentInFlight' <=> \A o, p \in DOMAIN ops' : Blocks(ops'[o]) /\ Blocks(ops'[p]) => o = p
  BY DEF OneDeploymentInFlight, Blocks
<1>1. ASSUME DOMAIN ops' = DOMAIN ops PROVE OneDeploymentInFlight'
  BY <1>1, <1>f, <1>g, <1>k
<1>2. ASSUME TargetFree, NEW plan \in Plans, ops' = Append(ops, NewOperation(plan))
      PROVE  OneDeploymentInFlight'
  <2>1. DOMAIN ops' = DOMAIN ops \cup {Len(ops) + 1}
    BY <1>0, <1>2
  <2>2. \A o \in DOMAIN ops : ~Blocks(ops'[o])
    BY <1>2, <1>k DEF TargetFree, Blocks
  <2> QED
    BY <2>1, <2>2, <1>g
<1>3. ASSUME NEW o \in DOMAIN ops, NEW new, ops' = [ops EXCEPT ![o] = new] PROVE DOMAIN ops' = DOMAIN ops
  BY <1>0, <1>3
<1> QED
  BY <1>k, <1>1, <1>2, <1>3 DEF OperationsMove

-----------------------------------------------------------------------------
(* The calls. *)

CallMove(c, new) ==
  \/ new = IdleCall
  \/ new \in [pc : {"claim"}, jobs : SUBSET DOMAIN ops]
  \/ /\ new \in [pc : {"read", "validate", "refuse"}, jobs : SUBSET DOMAIN ops, task : TasksOf(Len(ops))]
  \/ /\ new \in [pc : {"start"}, jobs : SUBSET DOMAIN ops, task : TasksOf(Len(ops))]
     /\ CurrentAuthority(ops[new.task.op].plan)
  \/ /\ new \in [pc : {"respond", "fail"}, jobs : SUBSET DOMAIN ops, task : TasksOf(Len(ops))]
     /\ c.pc \in {"start", "refuse"} /\ (new.pc = "respond" => c.pc = "start")
     /\ new.task.op = c.task.op
     /\ ops[new.task.op].state = "QUEUED" /\ new.task.revision = ops[new.task.op].revision + 1
     /\ ops' = [ops EXCEPT ![new.task.op] = Started(ops[new.task.op])]

\* What a step does to the calls: an attempt begins with the start of its operation.
CallsMove ==
  \/ UNCHANGED calls
  \/ calls' = [h \in Handlers |-> IdleCall]
  \/ \E h \in Handlers : \E new : CallMove(calls[h], new) /\ calls' = [calls EXCEPT ![h] = new]

\* The steps of the hub move its calls so; no other step touches them.
LEMMA CallsStep == RecordsTyped /\ [Next]_vars => CallsMove
<1> SUFFICES ASSUME RecordsTyped, [Next]_vars PROVE CallsMove
  OBVIOUS
<1>0. Len(ops) \in Nat /\ DOMAIN ops = 1..Len(ops) /\ \A o \in DOMAIN ops : ops[o] \in OperationRow
  BY TaskParts
<1>1. ASSUME UNCHANGED calls PROVE CallsMove
  BY <1>1 DEF CallsMove
<1>m. ASSUME NEW h \in Handlers, NEW new, CallMove(calls[h], new), SetCall(h, new) PROVE CallsMove
  BY <1>m, Zenon DEF CallsMove, SetCall
<1>e. ASSUME NEW h \in Handlers, EndCall(h) PROVE CallsMove
  BY <1>e, <1>m DEF EndCall, CallMove
<1>c. ASSUME NEW h \in Handlers, NEW jobs \in SUBSET DOMAIN ops, ContinueCall(h, jobs) PROVE CallsMove
  <2>1. CASE jobs = {}
    BY <1>c, <1>e, <2>1 DEF ContinueCall
  <2>2. CASE jobs # {}
    <3>1. CallMove(calls[h], [pc |-> "claim", jobs |-> jobs])
      BY DEF CallMove
    <3> QED
      BY <1>c, <1>m, <2>2, <3>1 DEF ContinueCall
  <2> QED
    BY <2>1, <2>2
<1>r. ASSUME NEW h \in Handlers, calls[h].pc \in StartingPcs
      PROVE  /\ calls[h] \in [pc : StartingPcs, jobs : SUBSET DOMAIN ops, task : TasksOf(Len(ops))]
             /\ calls[h].jobs \in SUBSET DOMAIN ops /\ calls[h].task \in TasksOf(Len(ops))
             /\ calls[h].task.op \in DOMAIN ops
  BY <1>0, <1>r, CallParts, TaskParts DEF RecordsTyped, CallsTyped
<1>2. ASSUME NEW h \in Handlers, PollNextTask(h) PROVE CallsMove
  <2>1. CallMove(calls[h], [pc |-> "claim", jobs |-> Listed])
    BY DEF CallMove, Listed
  <2> QED
    BY <1>2, <1>m, <2>1 DEF PollNextTask
<1>3. ASSUME NEW h \in Handlers, ClaimOperation(h) PROVE CallsMove
  <2>1. calls[h].jobs \subseteq DOMAIN ops
    BY <1>3, TaskParts DEF ClaimOperation
  <2>2. PICK o \in calls[h].jobs :
          \/ ContinueCall(h, calls[h].jobs \ {o})
          \/ /\ ops[o].fence < MaxClaims
             /\ SetCall(h, [pc |-> "read", jobs |-> calls[h].jobs \ {o},
                            task |-> [op |-> o, token |-> ops[o].fence + 1, revision |-> 0]])
    BY <1>3 DEF ClaimOperation
  <2>3. calls[h].jobs \ {o} \in SUBSET DOMAIN ops /\ o \in DOMAIN ops
    BY <2>1
  <2>4. ASSUME ops[o].fence < MaxClaims
        PROVE  CallMove(calls[h], [pc |-> "read", jobs |-> calls[h].jobs \ {o},
                                   task |-> [op |-> o, token |-> ops[o].fence + 1, revision |-> 0]])
    <3>1. ops[o].fence + 1 \in 1..MaxClaims
      BY <1>0, <2>3, <2>4, DeploymentAssumption DEF OperationRow
    <3>2. [op |-> o, token |-> ops[o].fence + 1, revision |-> 0] \in TasksOf(Len(ops))
      BY <1>0, <2>3, <3>1 DEF TasksOf
    <3> QED
      BY <2>3, <3>2 DEF CallMove
  <2> QED
    BY <1>c, <1>m, <2>2, <2>3, <2>4
<1>4. ASSUME NEW h \in Handlers, ReadOperation(h) PROVE CallsMove
  <2>1. PICK new : new = [calls[h] EXCEPT !.pc = "validate", !.task.revision = ops[calls[h].task.op].revision]
    OBVIOUS
  <2>2. ops[calls[h].task.op].revision \in Nat
    BY <1>0, <1>4, <1>r DEF ReadOperation, StartingPcs, OperationRow
  <2>3. new \in [pc : {"validate"}, jobs : SUBSET DOMAIN ops, task : TasksOf(Len(ops))]
    BY <1>4, <1>r, <2>1, <2>2 DEF ReadOperation, StartingPcs, TasksOf
  <2>4. CallMove(calls[h], new)
    BY <2>3 DEF CallMove
  <2> QED
    BY <1>4, <1>m, <2>1, <2>4, Zenon DEF ReadOperation
<1>5. ASSUME NEW h \in Handlers, ValidateDispatch(h) PROVE CallsMove
  <2>1. PICK new : new = [calls[h] EXCEPT !.pc =
                            IF CurrentAuthority(ops[calls[h].task.op].plan) THEN "start" ELSE "refuse"]
    OBVIOUS
  <2>2. new.task = calls[h].task /\ new.pc = (IF CurrentAuthority(ops[calls[h].task.op].plan) THEN "start" ELSE "refuse")
    BY <1>5, <1>r, <2>1, Zenon DEF ValidateDispatch, StartingPcs
  <2>3. new \in [pc : {"start", "refuse"}, jobs : SUBSET DOMAIN ops, task : TasksOf(Len(ops))]
    BY <1>5, <1>r, <2>1 DEF ValidateDispatch, StartingPcs
  <2>4. CallMove(calls[h], new)
    BY <2>2, <2>3 DEF CallMove
  <2> QED
    BY <1>5, <1>m, <2>1, <2>4, Zenon DEF ValidateDispatch
<1>6. ASSUME NEW h \in Handlers, StartOperationAttempt(h) PROVE CallsMove
  <2>1. PICK t, new : /\ t = calls[h].task
                      /\ new = [calls[h] EXCEPT !.pc = IF @ = "start" THEN "respond" ELSE "fail", !.task.revision = @ + 1]
    OBVIOUS
  <2>2. calls[h].pc \in {"start", "refuse"}
    BY <1>6 DEF StartOperationAttempt
  <2>3. \/ EndCall(h)
        \/ CanStart(t.op, t) /\ ops' = [ops EXCEPT ![t.op] = Started(ops[t.op])] /\ SetCall(h, new)
    BY <1>6, <2>1, Zenon DEF StartOperationAttempt
  <2>4. t \in TasksOf(Len(ops)) /\ t.op \in DOMAIN ops /\ t.revision \in Nat
    BY <1>r, <2>1, <2>2 DEF StartingPcs, TasksOf
  <2>c. /\ calls[h] \in [pc : StartingPcs, jobs : SUBSET DOMAIN ops, task : TasksOf(Len(ops))]
        /\ calls[h].task = t /\ t.revision \in Nat
    BY <1>r, <2>1, <2>2, <2>4 DEF StartingPcs
  <2>f. /\ new.pc = (IF calls[h].pc = "start" THEN "respond" ELSE "fail") /\ new.jobs = calls[h].jobs
        /\ new.task = [t EXCEPT !.revision = t.revision + 1]
    BY <2>1, <2>c
  <2>n. new \in [pc : {"respond", "fail"}, jobs : SUBSET DOMAIN ops, task : TasksOf(Len(ops))]
    <3>1. [t EXCEPT !.revision = t.revision + 1] \in TasksOf(Len(ops))
      BY <2>4 DEF TasksOf
    <3>2. new = [pc |-> new.pc, jobs |-> calls[h].jobs, task |-> [t EXCEPT !.revision = t.revision + 1]]
      BY <2>1, <2>c, <2>f
    <3> QED
      BY <2>c, <2>f, <3>1, <3>2
  <2>5. /\ new \in [pc : {"respond", "fail"}, jobs : SUBSET DOMAIN ops, task : TasksOf(Len(ops))]
        /\ new.pc = (IF calls[h].pc = "start" THEN "respond" ELSE "fail")
        /\ new.task.op = t.op /\ new.task.revision = t.revision + 1
    BY <2>f, <2>n, <2>4 DEF TasksOf
  <2>6. ASSUME CanStart(t.op, t), ops' = [ops EXCEPT ![t.op] = Started(ops[t.op])]
        PROVE  CallMove(calls[h], new)
    BY <2>1, <2>2, <2>5, <2>6 DEF CallMove, CanStart, Authorised
  <2> QED
    BY <1>e, <1>m, <2>3, <2>6
<1>7. ASSUME NEW h \in Handlers, RefuseDispatch(h) PROVE CallsMove
  <2>1. calls[h].jobs \in SUBSET DOMAIN ops
    BY <1>7, <1>r DEF RefuseDispatch, StartingPcs
  <2>2. ContinueCall(h, calls[h].jobs) \/ EndCall(h)
    BY <1>7 DEF RefuseDispatch
  <2> QED
    BY <1>c, <1>e, <2>1, <2>2
<1>8. ASSUME NEW h \in Handlers, RespondTask(h) PROVE CallsMove
  BY <1>8, <1>m DEF RespondTask, CallMove
<1>9. ASSUME HubRestarts PROVE CallsMove
  BY <1>9 DEF HubRestarts, CallsMove
<1>10. CASE HubStep
  BY <1>1, <1>2, <1>3, <1>4, <1>5, <1>6, <1>7, <1>8, <1>9, <1>10
  DEF HubStep, ReportFailure, ValidateResult, CommitResult, ResolveRecovery, ReportLost, hubVars
<1>11. CASE ClientStep
  BY <1>1, <1>11
  DEF ClientStep, BuildRequest, CreateExclusiveOperation, ValidateApproval, ApproveOperationAndQueue,
      RequestOperationCancellation, PromoteEnvironmentBinding, RevokeWorkspaceBinding, hubVars
<1>12. CASE AgentStep
  BY <1>1, <1>12
  DEF AgentStep, ApplyResource, ReadBack, RemoveService, ObserveDeletion, ObserveDeployment, ObserveService,
      AgentError, PollRecoveryTask, RecoverDeployment, RecoverService, AgentRestarts, hubVars
<1>13. CASE Surroundings
  BY <1>1, <1>13
  DEF Surroundings, DecideWrite, ForeignWrite, LeaseExpires, RetryBecomesDue, InventoryChanges, hubVars
<1>14. CASE UNCHANGED vars
  BY <1>1, <1>14 DEF vars, hubVars
<1> QED
  BY <1>10, <1>11, <1>12, <1>13, <1>14 DEF Next

\* Calls stay calls.
LEMMA CallsKept ==
  ASSUME CallsTyped, Len(ops) \in Nat, DOMAIN ops = 1..Len(ops), CallsMove
  PROVE  calls' \in [Handlers -> CallRows(Len(ops))]
<1>1. ASSUME NEW c, NEW new, CallMove(c, new) PROVE new \in CallRows(Len(ops))
  BY <1>1 DEF CallMove, CallRows, StartingPcs
<1> QED
  BY <1>1 DEF CallsTyped, CallsMove, CallRows

-----------------------------------------------------------------------------
(* The agent. *)

\* What a step does to the agent and its reports: reports are lost, decided, or checked
\* against the authority; the agent stops, concludes its task, starts to poll, takes the
\* task a call hands over, goes on with its task, or looks at an ambiguous operation.
ReportsMove ==
  \A r \in reports' :
    \/ r \in reports
    \/ r \in ReportRows(Len(ops)) /\ \E q \in reports : r.task = q.task /\ r.result = q.result

Conclude(result) == Finish(result) /\ agent.task \in TasksOf(Len(ops)) /\ (result = "confirmed" <=> ~Executing)

Handover(h) ==
  /\ calls[h].pc = "respond" /\ SetCall(h, IdleCall)
  /\ agent' = [pc |-> "apply", task |-> calls[h].task, kind |-> "Deployment"] /\ UNCHANGED reports

AgentMove ==
  \/ UNCHANGED agent /\ ReportsMove
  \/ agent' = IdleAgent /\ UNCHANGED reports
  \/ \E result \in {"success", "failed", "unknown", "confirmed"} : Conclude(result)
  \/ agent' \in [pc : {"polling"}, task : {NoTask}, call : Handlers] /\ UNCHANGED reports
  \/ \E h \in Handlers : Handover(h)
  \/ Executing /\ agent' \in AgentRows(Len(ops)) /\ agent'.task = agent.task /\ UNCHANGED reports
  \/ agent' \in [pc : {"recover", "recoverService"}, task : TasksOf(Len(ops))] /\ UNCHANGED reports

\* The request Send puts on the wire.
Request(k, verb) ==
  [op |-> agent.task.op, kind |-> k, verb |-> verb, content |-> Content(Plan), rv |-> Precondition(k, verb)]

\* It is well formed when it was meant for an object of the binding, or to make one.
LEMMA RequestTyped ==
  ASSUME RecordsTyped, agent.task \in TasksOf(Len(ops)), NEW k \in Kinds, NEW verb \in {"create", "apply", "delete"},
         verb = "create" \/ Owned(k)
  PROVE  Request(k, verb) \in Writes(Len(ops))
<1>1. agent.task.op \in 1..Len(ops) /\ Plan \in Plans
  BY TaskParts DEF TasksOf, Plan, OperationRow
<1>2. Content(Plan) \in Contents
  BY <1>1, DeploymentAssumption DEF Content, Contents, Plans
<1>3. target[k] \in Objects
  BY DEF RecordsTyped, KubeTyped
<1>4. Precondition(k, verb) \in Nat
  BY <1>3 DEF Precondition, Owned, Objects, Absent
<1> QED
  BY <1>1, <1>2, <1>4, Zenon DEF Request, Writes

\* What the agent's and the hub's steps do to the agent.
LEMMA AgentsStep == RecordsTyped /\ [Next]_vars => AgentMove
<1> SUFFICES ASSUME RecordsTyped, [Next]_vars PROVE AgentMove
  OBVIOUS
<1>0. Len(ops) \in Nat /\ DOMAIN ops = 1..Len(ops) /\ \A o \in DOMAIN ops : ops[o] \in OperationRow
  BY TaskParts
<1>a. agent \in AgentRows(Len(ops)) /\ reports \subseteq ReportRows(Len(ops))
  BY DEF RecordsTyped, AgentTyped
<1>t. ASSUME agent.pc \notin {"idle", "polling"} PROVE agent.task \in TasksOf(Len(ops))
  BY <1>0, <1>a, <1>t, AgentParts
<1>k. ASSUME agent.pc \in {"apply", "readback"} PROVE agent.kind \in Kinds
  <2>1. agent \in [pc : {"apply", "readback"}, task : TasksOf(Len(ops)), kind : Kinds]
    BY <1>0, <1>a, <1>k, AgentParts
  <2> QED
    BY <2>1
<1>1. ASSUME UNCHANGED <<agent, reports>> PROVE AgentMove
  BY <1>1 DEF AgentMove, ReportsMove
<1>2. ASSUME UNCHANGED agent, reports' \subseteq reports PROVE AgentMove
  BY <1>2 DEF AgentMove, ReportsMove
<1>3. ASSUME agent' = IdleAgent, UNCHANGED reports PROVE AgentMove
  BY <1>3 DEF AgentMove
<1>f. ASSUME NEW result \in {"success", "failed", "unknown", "confirmed"}, Finish(result),
             agent.pc \notin {"idle", "polling"}, result = "confirmed" <=> ~Executing
      PROVE  AgentMove
  BY <1>f, <1>t, Zenon DEF AgentMove, Conclude
<1>x. ASSUME NEW new \in AgentRows(Len(ops)), new.task = agent.task, agent' = new, UNCHANGED reports, Executing
      PROVE  AgentMove
  BY <1>x, Zenon DEF AgentMove
<1>g. ASSUME NEW pc \in {"clean", "gone", "observe", "observeService"}, Go(pc), Executing PROVE AgentMove
  <2>1. agent.task \in TasksOf(Len(ops))
    BY <1>g, <1>t DEF Executing
  <2>2. [pc |-> pc, task |-> agent.task] \in AgentRows(Len(ops))
    BY <2>1 DEF AgentRows, SteppingPcs
  <2> QED
    BY <1>g, <1>x, <2>2 DEF Go
<1>w. ASSUME NEW k \in Kinds, NEW pc \in {"apply", "readback"}, Executing, UNCHANGED reports,
             agent' = [pc |-> pc, task |-> agent.task, kind |-> k]
      PROVE  AgentMove
  <2>1. agent.task \in TasksOf(Len(ops))
    BY <1>w, <1>t DEF Executing
  <2>2. [pc |-> pc, task |-> agent.task, kind |-> k] \in AgentRows(Len(ops))
    BY <2>1 DEF AgentRows
  <2> QED
    BY <1>w, <1>x, <2>2
<1>s. ASSUME NEW k \in Kinds, NEW verb \in {"create", "apply", "delete"}, verb = "create" \/ Owned(k), Send(k, verb), Executing
      PROVE  AgentMove
  <2>1. agent.task \in TasksOf(Len(ops))
    BY <1>s, <1>t DEF Executing
  <2>2. Request(k, verb) \in Writes(Len(ops))
    BY <1>s, <2>1, RequestTyped
  <2>3. PICK w : w = Request(k, verb)
    OBVIOUS
  <2>4. [pc |-> "wait", task |-> agent.task, write |-> w] \in AgentRows(Len(ops))
    BY <2>1, <2>2, <2>3 DEF AgentRows
  <2>5. agent' = [pc |-> "wait", task |-> agent.task, write |-> w] /\ UNCHANGED reports
    BY <1>s, <2>3 DEF Send, Request
  <2> QED
    BY <1>s, <1>x, <2>4, <2>5
<1>4. CASE ApplyResource
  <2>1. Executing /\ agent.kind \in Kinds
    BY <1>4, <1>k DEF ApplyResource, Executing
  <2>2. \/ Send(agent.kind, "create") \/ (Owned(agent.kind) /\ Send(agent.kind, "apply")) \/ Finish("failed")
    BY <1>4, Zenon DEF ApplyResource
  <2> QED
    BY <1>f, <1>s, <2>1, <2>2 DEF Executing
<1>5. CASE ReadBack
  <2>1. Executing
    BY <1>5 DEF ReadBack, Executing
  <2>2. \/ Finish("failed") \/ Go("observe") \/ Go("clean")
        \/ agent' = [pc |-> "apply", task |-> agent.task, kind |-> "Service"] /\ UNCHANGED reports
    BY <1>5, Zenon DEF ReadBack
  <2> QED
    BY <1>f, <1>g, <1>w, <2>1, <2>2 DEF Executing, Kinds
<1>6. CASE RemoveService
  <2>1. Executing
    BY <1>6 DEF RemoveService, Executing
  <2>2. \/ Finish("failed") \/ Go("observe") \/ (Owned("Service") /\ Send("Service", "delete"))
    BY <1>6, Zenon DEF RemoveService
  <2> QED
    BY <1>f, <1>g, <1>s, <2>1, <2>2 DEF Executing, Kinds
<1>7. CASE ObserveDeletion \/ ObserveDeployment \/ ObserveService
  <2>1. Executing
    BY <1>7 DEF ObserveDeletion, ObserveDeployment, ObserveService, Executing
  <2>2. \/ Finish("failed") \/ Finish("unknown") \/ Finish("success") \/ Go("observe") \/ Go("observeService")
    BY <1>7, Zenon DEF ObserveDeletion, ObserveDeployment, ObserveService
  <2> QED
    BY <1>f, <1>g, <2>1, <2>2 DEF Executing
<1>8. CASE AgentError
  <2>1. Executing /\ (Finish("failed") \/ Finish("unknown"))
    BY <1>8, Zenon DEF AgentError, ResultOfError, Executing
  <2> QED
    BY <1>f, <2>1 DEF Executing
<1>l. ASSUME NEW task \in TasksOf(Len(ops)), NEW pc \in {"recover", "recoverService"},
             agent' = [pc |-> pc, task |-> task], UNCHANGED reports
      PROVE  AgentMove
  BY <1>l DEF AgentMove
<1>9. ASSUME NEW o \in DOMAIN ops, PollRecoveryTask(o) PROVE AgentMove
  <2>1. PICK task : task = [op |-> o, token |-> ops[o].fence, revision |-> ops[o].revision]
    OBVIOUS
  <2>2. ops[o].fence > 0 /\ ops[o] \in OperationRow
    BY <1>0, <1>9 DEF PollRecoveryTask, RecordsTyped, OpsTyped, FenceUsed
  <2>3. o \in 1..Len(ops) /\ ops[o].fence \in 1..MaxClaims /\ ops[o].revision \in Nat
    BY <1>0, <2>2, DeploymentAssumption DEF OperationRow
  <2>4. task \in TasksOf(Len(ops))
    BY <2>1, <2>3 DEF TasksOf
  <2>5. agent' = [pc |-> "recover", task |-> task] /\ UNCHANGED reports
    BY <1>9, <2>1 DEF PollRecoveryTask
  <2> QED
    BY <1>l, <2>4, <2>5
<1>10. CASE RecoverDeployment
  <2>1. agent.task \in TasksOf(Len(ops))
    BY <1>10, <1>t DEF RecoverDeployment
  <2> QED
    BY <1>3, <1>10, <1>l, <2>1 DEF RecoverDeployment, Go
<1>11. CASE RecoverService
  <2>1. agent.pc = "recoverService" /\ (Finish("confirmed") \/ (agent' = IdleAgent /\ UNCHANGED reports))
    BY <1>11, Zenon DEF RecoverService
  <2> QED
    BY <1>3, <1>f, <2>1 DEF Executing
<1>12. CASE AgentRestarts
  BY <1>3, <1>12 DEF AgentRestarts
<1>13. CASE AgentStep
  BY <1>4, <1>5, <1>6, <1>7, <1>8, <1>9, <1>10, <1>11, <1>12, <1>13 DEF AgentStep
<1>e. ASSUME NEW h \in Handlers, EndCall(h), UNCHANGED reports PROVE AgentMove
  BY <1>1, <1>3, <1>e DEF EndCall
<1>14. ASSUME NEW h \in Handlers, PollNextTask(h) PROVE AgentMove
  BY <1>14 DEF PollNextTask, AgentMove
<1>15. ASSUME NEW h \in Handlers, RespondTask(h) PROVE AgentMove
  <2>1. CASE AgentWaitsFor(h)
    BY <1>15, <2>1, Zenon DEF RespondTask, AgentMove, Handover
  <2>2. CASE ~AgentWaitsFor(h)
    BY <1>1, <1>15, <2>2 DEF RespondTask
  <2> QED
    BY <2>1, <2>2
<1>16. ASSUME NEW h \in Handlers, ClaimOperation(h) \/ StartOperationAttempt(h) \/ RefuseDispatch(h) PROVE AgentMove
  <2>1. EndCall(h) \/ UNCHANGED agent
    BY <1>16 DEF ClaimOperation, StartOperationAttempt, RefuseDispatch, ContinueCall
  <2>2. UNCHANGED reports
    BY <1>16 DEF ClaimOperation, StartOperationAttempt, RefuseDispatch
  <2> QED
    BY <1>1, <1>e, <2>1, <2>2
<1>17. ASSUME NEW r \in reports, ValidateResult(r) PROVE AgentMove
  <2>1. PICK new : /\ new = [r EXCEPT !.authority = IF CurrentAuthority(ops[r.task.op].plan) THEN "CURRENT" ELSE "CHANGED"]
                   /\ reports' = (reports \ {r}) \cup {new}
    BY <1>17, Zenon DEF ValidateResult
  <2>2. new \in ReportRows(Len(ops)) /\ new.task = r.task /\ new.result = r.result
    BY <1>a, <2>1 DEF ReportRows
  <2>3. ReportsMove
    BY <2>1, <2>2, Zenon DEF ReportsMove
  <2> QED
    BY <1>17, <2>3 DEF ValidateResult, AgentMove
<1>18. ASSUME NEW r \in reports, ReportFailure(r) \/ CommitResult(r) \/ ResolveRecovery(r) \/ ReportLost(r) PROVE AgentMove
  BY <1>2, <1>18 DEF ReportFailure, CommitResult, ResolveRecovery, ReportLost
<1>19. CASE HubStep
  BY <1>1, <1>2, <1>14, <1>15, <1>16, <1>17, <1>18, <1>19 DEF HubStep, ReadOperation, ValidateDispatch, HubRestarts
<1>20. ASSUME NEW w \in wire, NEW answered \in BOOLEAN, DecideWrite(w, answered) PROVE AgentMove
  <2>1. w.kind \in Kinds
    BY DEF RecordsTyped, KubeTyped, Writes
  <2>2. \/ UNCHANGED <<agent, reports>>
        \/ agent.pc = "wait" /\ Answered(w)
    BY <1>20 DEF DecideWrite
  <2>3. Answered(w) => \/ Go("gone") \/ Go("observe") \/ Finish("unknown") \/ Finish("failed")
                       \/ agent' = [pc |-> "readback", task |-> agent.task, kind |-> w.kind] /\ UNCHANGED reports
    BY Zenon DEF Answered
  <2> QED
    BY <1>1, <1>f, <1>g, <1>w, <2>1, <2>2, <2>3 DEF Executing
<1>21. CASE Surroundings
  BY <1>1, <1>20, <1>21 DEF Surroundings, ForeignWrite, LeaseExpires, RetryBecomesDue, InventoryChanges
<1>22. CASE ClientStep
  BY <1>1, <1>22
  DEF ClientStep, BuildRequest, CreateExclusiveOperation, ValidateApproval, ApproveOperationAndQueue,
      RequestOperationCancellation, PromoteEnvironmentBinding, RevokeWorkspaceBinding
<1>23. CASE UNCHANGED vars
  BY <1>1, <1>23 DEF vars
<1> QED
  BY <1>13, <1>19, <1>21, <1>22, <1>23 DEF Next

\* The agent stays an agent, its reports reports.
LEMMA AgentKept ==
  ASSUME AgentTyped, CallsTyped, Len(ops) \in Nat, AgentMove
  PROVE  agent' \in AgentRows(Len(ops)) /\ reports' \subseteq ReportRows(Len(ops))
<1>0. agent \in AgentRows(Len(ops)) /\ reports \subseteq ReportRows(Len(ops))
  BY DEF AgentTyped
<1>1. CASE UNCHANGED agent /\ ReportsMove
  BY <1>0, <1>1 DEF ReportsMove
<1>2. CASE agent' = IdleAgent /\ UNCHANGED reports
  BY <1>0, <1>2 DEF AgentRows
<1>3. ASSUME NEW result \in {"success", "failed", "unknown", "confirmed"}, Conclude(result)
      PROVE  agent' \in AgentRows(Len(ops)) /\ reports' \subseteq ReportRows(Len(ops))
  <2>1. agent' \in AgentRows(Len(ops))
    BY <1>3 DEF Conclude, Finish, AgentRows
  <2>2. [task |-> agent.task, result |-> result, authority |-> "UNCHECKED"] \in ReportRows(Len(ops))
    BY <1>3 DEF Conclude, ReportRows
  <2> QED
    BY <1>0, <1>3, <2>1, <2>2 DEF Conclude, Finish
<1>4. CASE agent' \in [pc : {"polling"}, task : {NoTask}, call : Handlers] /\ UNCHANGED reports
  BY <1>0, <1>4 DEF AgentRows
<1>5. ASSUME NEW h \in Handlers, Handover(h)
      PROVE  agent' \in AgentRows(Len(ops)) /\ reports' \subseteq ReportRows(Len(ops))
  <2>1. calls[h] \in CallRows(Len(ops)) /\ calls[h].pc = "respond"
    BY <1>5 DEF CallsTyped, Handover
  <2>2. calls[h].task \in TasksOf(Len(ops))
    BY <2>1, CallParts DEF StartingPcs
  <2> QED
    BY <1>0, <1>5, <2>2 DEF Handover, AgentRows, Kinds
<1>6. CASE Executing /\ agent' \in AgentRows(Len(ops)) /\ agent'.task = agent.task /\ UNCHANGED reports
  BY <1>0, <1>6
<1>7. CASE agent' \in [pc : {"recover", "recoverService"}, task : TasksOf(Len(ops))] /\ UNCHANGED reports
  BY <1>0, <1>7 DEF AgentRows, SteppingPcs
<1> QED
  BY <1>1, <1>2, <1>3, <1>4, <1>5, <1>6, <1>7 DEF AgentMove

-----------------------------------------------------------------------------
(* The cluster. *)

\* What a step does to the cluster: the agent's request goes out, conditional on the
\* object it read; a request is decided; someone else writes.
KubeMove ==
  \/ UNCHANGED kubeVars
  \/ /\ UNCHANGED <<target, version>>
     /\ \E w \in Writes(Len(ops)) :
          wire' = wire \cup {w} /\ (w.verb # "create" => Owned(w.kind) /\ w.rv = target[w.kind].rv)
  \/ \E w \in wire : wire' = wire \ {w} /\ (IF Lands(w) THEN Write(w) ELSE UNCHANGED <<target, version>>)
  \/ \E k \in Kinds :
       /\ target' = [target EXCEPT ![k] = [owner |-> "FOREIGN", rv |-> version + 1]]
       /\ target[k].owner # "FOREIGN" /\ version' = version + 1 /\ UNCHANGED wire

\* The steps of agent and surroundings move the cluster so.
LEMMA KubeStep == RecordsTyped /\ [Next]_vars => KubeMove
<1> SUFFICES ASSUME RecordsTyped, [Next]_vars PROVE KubeMove
  OBVIOUS
<1>0. Len(ops) \in Nat /\ agent \in AgentRows(Len(ops))
  BY TaskParts DEF RecordsTyped, AgentTyped
<1>1. ASSUME UNCHANGED kubeVars PROVE KubeMove
  BY <1>1 DEF KubeMove
<1>s. ASSUME NEW k \in Kinds, NEW verb \in {"create", "apply", "delete"}, verb = "create" \/ Owned(k),
             Send(k, verb), agent.pc \in {"apply", "clean"}, UNCHANGED <<target, version>>
      PROVE  KubeMove
  <2>1. agent.task \in TasksOf(Len(ops))
    BY <1>0, <1>s, AgentParts
  <2>2. PICK w : w = Request(k, verb)
    OBVIOUS
  <2>3. w \in Writes(Len(ops))
    BY <1>s, <2>1, <2>2, RequestTyped
  <2>4. w.kind = k /\ w.verb = verb /\ w.rv = Precondition(k, verb)
    BY <2>2 DEF Request
  <2>5. wire' = wire \cup {w}
    BY <1>s, <2>2, Zenon DEF Send, Request
  <2> QED
    BY <1>s, <2>3, <2>4, <2>5 DEF KubeMove, Precondition
<1>2. CASE ApplyResource
  <2>1. agent \in [pc : {"apply", "readback"}, task : TasksOf(Len(ops)), kind : Kinds]
    BY <1>0, <1>2, AgentParts DEF ApplyResource
  <2>2. agent.kind \in Kinds /\ agent.pc = "apply" /\ UNCHANGED <<target, version>>
    BY <1>2, <2>1 DEF ApplyResource
  <2>3. Send(agent.kind, "create") \/ (Owned(agent.kind) /\ Send(agent.kind, "apply")) \/ UNCHANGED wire
    BY <1>2, Zenon DEF ApplyResource
  <2> QED
    BY <1>1, <1>s, <2>2, <2>3 DEF kubeVars
<1>3. CASE RemoveService
  <2>1. agent.pc = "clean" /\ UNCHANGED <<target, version>>
    BY <1>3 DEF RemoveService
  <2>2. (Owned("Service") /\ Send("Service", "delete")) \/ UNCHANGED wire
    BY <1>3, Zenon DEF RemoveService
  <2> QED
    BY <1>1, <1>s, <2>1, <2>2 DEF kubeVars, Kinds
<1>4. CASE AgentStep
  BY <1>1, <1>2, <1>3, <1>4
  DEF AgentStep, ReadBack, ObserveDeletion, ObserveDeployment, ObserveService,
      AgentError, PollRecoveryTask, RecoverDeployment, RecoverService, AgentRestarts
<1>5. ASSUME NEW w \in wire, NEW answered \in BOOLEAN, DecideWrite(w, answered) PROVE KubeMove
  <2>1. wire' = wire \ {w} /\ (IF Lands(w) THEN Write(w) ELSE UNCHANGED <<target, version>>)
    BY <1>5, Zenon DEF DecideWrite
  <2> QED
    BY <2>1, Zenon DEF KubeMove
<1>6. ASSUME NEW k \in Takeovers, ForeignWrite(k) PROVE KubeMove
  <2>1. k \in Kinds
    BY DeploymentAssumption DEF Kinds
  <2> QED
    BY <1>6, <2>1, Zenon DEF ForeignWrite, KubeMove
<1>7. CASE Surroundings
  BY <1>1, <1>5, <1>6, <1>7 DEF Surroundings, LeaseExpires, RetryBecomesDue, InventoryChanges
<1>8. CASE HubStep
  BY <1>1, <1>8
  DEF HubStep, PollNextTask, ClaimOperation, ReadOperation, ValidateDispatch, StartOperationAttempt, RefuseDispatch,
      RespondTask, ReportFailure, ValidateResult, CommitResult, ResolveRecovery, ReportLost, HubRestarts
<1>9. CASE ClientStep
  BY <1>1, <1>9
  DEF ClientStep, BuildRequest, CreateExclusiveOperation, ValidateApproval, ApproveOperationAndQueue,
      RequestOperationCancellation, PromoteEnvironmentBinding, RevokeWorkspaceBinding
<1>10. CASE UNCHANGED vars
  BY <1>1, <1>10 DEF vars
<1> QED
  BY <1>4, <1>7, <1>8, <1>9, <1>10 DEF Next

\* Objects stay objects.
LEMMA KubeKept ==
  ASSUME KubeTyped, KubeMove
  PROVE  target' \in [Kinds -> Objects] /\ version' \in Nat /\ wire' \subseteq Writes(Len(ops))
<1>0. target \in [Kinds -> Objects] /\ version \in Nat /\ wire \subseteq Writes(Len(ops))
  BY DEF KubeTyped
<1>w. ASSUME NEW k \in Kinds, NEW new \in Objects, target' = [target EXCEPT ![k] = new]
      PROVE  target' \in [Kinds -> Objects]
  BY <1>0, <1>w
<1>1. ASSUME NEW w \in wire, wire' = wire \ {w}, IF Lands(w) THEN Write(w) ELSE UNCHANGED <<target, version>>
      PROVE  target' \in [Kinds -> Objects] /\ version' \in Nat /\ wire' \subseteq Writes(Len(ops))
  <2>1. w.kind \in Kinds /\ w.content \in Contents
    BY <1>0 DEF Writes
  <2>2. [owner |-> "BINDING", content |-> w.content, rv |-> version + 1] \in Objects /\ Absent \in Objects
    BY <1>0, <2>1 DEF Objects, Contents
  <2>3. \/ UNCHANGED <<target, version>>
        \/ target' = [target EXCEPT ![w.kind] = Absent] /\ UNCHANGED version
        \/ /\ version' = version + 1
           /\ target' = [target EXCEPT ![w.kind] = [owner |-> "BINDING", content |-> w.content, rv |-> version + 1]]
    BY <1>1, Zenon DEF Write
  <2> QED
    BY <1>0, <1>1, <1>w, <2>1, <2>2, <2>3
<1>2. ASSUME NEW k \in Kinds, target' = [target EXCEPT ![k] = [owner |-> "FOREIGN", rv |-> version + 1]]
      PROVE  target' \in [Kinds -> Objects]
  <2>1. [owner |-> "FOREIGN", rv |-> version + 1] \in Objects
    BY <1>0 DEF Objects
  <2> QED
    BY <1>2, <1>w, <2>1
<1> QED
  BY <1>0, <1>1, <1>2 DEF KubeMove, kubeVars

-----------------------------------------------------------------------------
(* The authority and the API calls. *)

\* What a step does to the authority: the binding and the workspace change only while
\* nothing blocks a change of what is desired.
AuthorityMove == UNCHANGED <<binding, workspace>> \/ (~Blocked /\ UNCHANGED ops)

RequestsTyped ==
  /\ binding \in 1..MaxBinding /\ workspace \in {"ACTIVE", "REVOKED"} /\ inventory \in Inventories \cup Unfit
  /\ building \in [Clients -> Plans \cup {NoPlan}]

HubMove == AuthorityMove /\ RequestsTyped' /\ approving' \subseteq DOMAIN ops

\* Clients and hub keep what they hold of the authority and the requests.
LEMMA AuthorityStep == RecordsTyped /\ [Next]_vars => HubMove
<1> SUFFICES ASSUME RecordsTyped, [Next]_vars PROVE HubMove
  OBVIOUS
<1>0. RequestsTyped /\ approving \subseteq DOMAIN ops
  BY DEF RecordsTyped, HubTyped, RequestsTyped
<1>1. ASSUME UNCHANGED <<binding, workspace, inventory, building, approving>> PROVE HubMove
  BY <1>0, <1>1 DEF HubMove, RequestsTyped, AuthorityMove
<1>2. ASSUME NEW c \in Clients, NEW service \in Services, BuildRequest(c, service) PROVE HubMove
  <2>1. [binding |-> binding, service |-> service, inventory |-> inventory] \in Plans
    BY <1>0, <1>2, DeploymentAssumption DEF BuildRequest, Plans, RequestsTyped
  <2>2. /\ building' = [building EXCEPT ![c] = [binding |-> binding, service |-> service, inventory |-> inventory]]
        /\ UNCHANGED <<binding, workspace, inventory, approving>>
    BY <1>2 DEF BuildRequest, authVars
  <2>3. building' \in [Clients -> Plans \cup {NoPlan}]
    BY <1>0, <2>1, <2>2 DEF RequestsTyped
  <2> QED
    BY <1>0, <2>2, <2>3 DEF RequestsTyped, HubMove, AuthorityMove
<1>3. ASSUME NEW c \in Clients, CreateExclusiveOperation(c) PROVE HubMove
  BY <1>0, <1>3 DEF CreateExclusiveOperation, authVars, RequestsTyped, HubMove, AuthorityMove
<1>4. ASSUME NEW o \in DOMAIN ops, ValidateApproval(o) \/ ApproveOperationAndQueue(o) PROVE HubMove
  <2>1. UNCHANGED <<binding, workspace, inventory, building>> /\ approving' \subseteq DOMAIN ops
    BY <1>0, <1>4 DEF ValidateApproval, ApproveOperationAndQueue, authVars
  <2> QED
    BY <1>0, <2>1 DEF RequestsTyped, HubMove, AuthorityMove
<1>5. CASE PromoteEnvironmentBinding \/ RevokeWorkspaceBinding
  <2>1. ~Blocked /\ UNCHANGED <<inventory, ops, building, approving>>
    BY <1>5 DEF PromoteEnvironmentBinding, RevokeWorkspaceBinding, hubVars
  <2>2. binding' \in 1..MaxBinding /\ workspace' \in {"ACTIVE", "REVOKED"}
    BY <1>0, <1>5, DeploymentAssumption DEF PromoteEnvironmentBinding, RevokeWorkspaceBinding, RequestsTyped
  <2> QED
    BY <1>0, <2>1, <2>2 DEF RequestsTyped, HubMove, AuthorityMove
<1>6. CASE ClientStep
  BY <1>1, <1>2, <1>3, <1>4, <1>5, <1>6 DEF ClientStep, RequestOperationCancellation, authVars, hubVars
<1>7. CASE HubRestarts
  BY <1>0, <1>7 DEF HubRestarts, authVars, RequestsTyped, HubMove, AuthorityMove
<1>8. CASE HubStep
  BY <1>1, <1>7, <1>8
  DEF HubStep, PollNextTask, ClaimOperation, ReadOperation, ValidateDispatch, StartOperationAttempt, RefuseDispatch,
      RespondTask, ReportFailure, ValidateResult, CommitResult, ResolveRecovery, ReportLost, authVars, hubVars
<1>9. CASE AgentStep
  BY <1>1, <1>9
  DEF AgentStep, ApplyResource, ReadBack, RemoveService, ObserveDeletion, ObserveDeployment, ObserveService,
      AgentError, PollRecoveryTask, RecoverDeployment, RecoverService, AgentRestarts, authVars, hubVars
<1>10. CASE InventoryChanges
  BY <1>0, <1>10 DEF InventoryChanges, hubVars, RequestsTyped, HubMove, AuthorityMove
<1>11. CASE Surroundings
  BY <1>1, <1>10, <1>11 DEF Surroundings, DecideWrite, ForeignWrite, LeaseExpires, RetryBecomesDue, authVars, hubVars
<1>12. CASE UNCHANGED vars
  BY <1>1, <1>12 DEF vars, authVars, hubVars
<1> QED
  BY <1>6, <1>8, <1>9, <1>11, <1>12 DEF Next

\* Every step keeps every row a row.
LEMMA RecordsStep == RecordsTyped /\ [Next]_vars => RecordsTyped'
<1> SUFFICES ASSUME RecordsTyped, [Next]_vars PROVE RecordsTyped'
  OBVIOUS
<1>0. Len(ops) \in Nat /\ DOMAIN ops = 1..Len(ops)
  BY TaskParts
<1>1. OpsTyped' /\ DOMAIN ops \subseteq DOMAIN ops' /\ Len(ops') \in Nat /\ Len(ops) <= Len(ops')
  BY OperationsStep, OperationsKept DEF RecordsTyped
<1>2. /\ TasksOf(Len(ops)) \subseteq TasksOf(Len(ops')) /\ CallRows(Len(ops)) \subseteq CallRows(Len(ops'))
      /\ Writes(Len(ops)) \subseteq Writes(Len(ops')) /\ AgentRows(Len(ops)) \subseteq AgentRows(Len(ops'))
      /\ ReportRows(Len(ops)) \subseteq ReportRows(Len(ops'))
  BY <1>0, <1>1, RowsGrow
<1>3. HubTyped'
  BY <1>1, AuthorityStep DEF HubTyped, HubMove, RequestsTyped
<1>4. CallsTyped'
  <2>1. calls' \in [Handlers -> CallRows(Len(ops))]
    BY <1>0, CallsStep, CallsKept DEF RecordsTyped
  <2> QED
    BY <1>2, <2>1 DEF CallsTyped
<1>5. AgentTyped'
  <2>1. agent' \in AgentRows(Len(ops)) /\ reports' \subseteq ReportRows(Len(ops))
    BY <1>0, AgentsStep, AgentKept DEF RecordsTyped
  <2> QED
    BY <1>2, <2>1 DEF AgentTyped
<1>6. KubeTyped'
  <2>1. target' \in [Kinds -> Objects] /\ version' \in Nat /\ wire' \subseteq Writes(Len(ops))
    BY KubeStep, KubeKept DEF RecordsTyped
  <2> QED
    BY <1>2, <2>1 DEF KubeTyped
<1> QED
  BY <1>1, <1>3, <1>4, <1>5, <1>6 DEF RecordsTyped

-----------------------------------------------------------------------------
(* The theorems. *)

\* Every record, call, task, report, request and object is one, of operations that
\* exist, and at most one operation fences the binding.
DeploymentInv == RecordsTyped /\ OneDeploymentInFlight

\* DeploymentInv is inductive.
THEOREM DeploymentInvariant == Spec => []DeploymentInv
<1>1. ASSUME Init PROVE DeploymentInv
  <2>1. ops \in Seq(OperationRow) /\ Len(ops) = 0 /\ DOMAIN ops = {}
    BY <1>1 DEF Init
  <2>2. OpsTyped /\ HubTyped /\ OneDeploymentInFlight
    BY <1>1, <2>1, DeploymentAssumption DEF Init, OpsTyped, HubTyped, OneDeploymentInFlight
  <2>3. CallsTyped /\ AgentTyped /\ KubeTyped
    BY <1>1 DEF Init, CallsTyped, AgentTyped, KubeTyped, CallRows, AgentRows, Objects
  <2> QED
    BY <2>2, <2>3 DEF DeploymentInv, RecordsTyped
<1>2. DeploymentInv /\ [Next]_vars => DeploymentInv'
  BY RecordsStep, FenceStep DEF DeploymentInv
<1> QED
  BY <1>1, <1>2, PTL DEF Spec

\* Records, tasks, reports and objects keep their types: whatever call, agent or report
\* names an operation names one that exists, under a claim that was made.
THEOREM DeploymentTypes == Spec => []TypeOK
<1>1. ASSUME RecordsTyped PROVE TypeOK
  <2>1. Len(ops) \in Nat /\ Len(ops) <= MaxOps /\ 1..Len(ops) \subseteq 1..MaxOps
    BY <1>1, DeploymentAssumption DEF RecordsTyped, OpsTyped
  <2>2. TasksOf(Len(ops)) \subseteq Tasks
    BY <2>1, Zenon DEF TasksOf, Tasks
  <2>3. agent.task \in Tasks \cup {NoTask}
    BY <1>1, <2>1, <2>2, AgentParts DEF RecordsTyped, AgentTyped
  <2>4. \A r \in reports : r.task \in Tasks
    BY <1>1, <2>2 DEF RecordsTyped, AgentTyped, ReportRows
  <2>5. \A o \in DOMAIN ops : ops[o] \in OperationRow
    BY <1>1, TaskParts
  <2> QED
    BY <1>1, <2>1, <2>3, <2>4, <2>5 DEF TypeOK, RecordsTyped, HubTyped, KubeTyped, OperationRow
<1> QED
  BY <1>1, DeploymentInvariant, PTL DEF DeploymentInv

\* CreateExclusiveOperation's check holds through every later step: at most one
\* deployment of a binding is unfinished or ambiguous.
THEOREM DeploymentsExclude == Spec => []OneDeploymentInFlight
BY DeploymentInvariant, PTL DEF DeploymentInv

\* No late report, claim, retry or approval makes a settled deployment fence its
\* binding again.
THEOREM SettlingIsFinal == Spec => SettledStaysSettled
<1>1. DeploymentInv /\ [Next]_vars =>
        [\A o \in DOMAIN ops : ~OperationBlocksExclusiveTargetMutation(ops[o])
           => ~OperationBlocksExclusiveTargetMutation(ops'[o])]_vars
  BY FenceStep DEF DeploymentInv, Blocks
<1> QED
  BY <1>1, DeploymentInvariant, PTL DEF Spec, SettledStaysSettled
=============================================================================
