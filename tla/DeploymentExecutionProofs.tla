---------------------- MODULE DeploymentExecutionProofs ----------------------
(***************************************************************************)
(* TLAPS proofs of what the agent does to the cluster while operations     *)
(* move on without it: it executes only what is still in hand and still    *)
(* designated, and it never touches what somebody else owns.               *)
(*                                                                         *)
(* The argument: the revision an attempt was started at is newer than any  *)
(* report or refusal that could still conclude its operation, so whoever   *)
(* holds the attempt's task holds an operation that nobody has concluded.  *)
(***************************************************************************)
EXTENDS ApplicationDeploymentProofs

-----------------------------------------------------------------------------
(* The cluster: a precondition never names what somebody else wrote. *)

\* Objects carry versions that were given out, and a conditional request names a
\* version under which the object was the binding's.
VersionsGiven == \A k \in Kinds : target[k] # Absent => target[k].rv > 0 /\ target[k].rv <= version
RequestsGuarded ==
  \A w \in wire : w.verb # "create" =>
    w.rv > 0 /\ w.rv <= version /\ (target[w.kind].owner = "FOREIGN" => target[w.kind].rv # w.rv)

ClusterInv == VersionsGiven /\ RequestsGuarded

\* What one write does: the object of one kind gets the next version, or goes, or
\* nothing happens.
LEMMA WriteParts ==
  ASSUME KubeTyped, NEW w \in wire, Lands(w), Write(w)
  PROVE  /\ w.kind \in Kinds
         /\ \/ UNCHANGED <<target, version>>
            \/ target' = [target EXCEPT ![w.kind] = Absent] /\ UNCHANGED version
            \/ /\ version' = version + 1
               /\ target' = [target EXCEPT ![w.kind] = [owner |-> "BINDING", content |-> w.content, rv |-> version + 1]]
<1>1. w.kind \in Kinds
  BY DEF KubeTyped, Writes
<1> QED
  BY <1>1, Zenon DEF Write

\* A step keeps that, and leaves the objects of others alone.
LEMMA ClusterStep ==
  ASSUME KubeTyped, ClusterInv, KubeMove
  PROVE  /\ ClusterInv'
         /\ \A k \in Kinds : target[k].owner = "FOREIGN" => target'[k] = target[k]
<1>0. target \in [Kinds -> Objects] /\ version \in Nat /\ wire \subseteq Writes(Len(ops))
  BY DEF KubeTyped
<1>w. \A w \in wire : w.kind \in Kinds /\ w.rv \in Nat
  BY <1>0 DEF Writes
<1>a. Absent.owner = "NONE"
  BY DEF Absent
<1>r. \A k \in Kinds : target[k] # Absent => target[k].rv \in Nat
  BY <1>0 DEF Objects
<1>k. ASSUME NEW k \in Kinds, NEW new, target' = [target EXCEPT ![k] = new]
      PROVE  target'[k] = new /\ \A j \in Kinds : j # k => target'[j] = target[j]
  BY <1>0, <1>k
<1>1. CASE UNCHANGED kubeVars
  BY <1>1 DEF kubeVars, ClusterInv, VersionsGiven, RequestsGuarded
<1>2. ASSUME UNCHANGED <<target, version>>, NEW w \in Writes(Len(ops)), wire' = wire \cup {w},
             w.verb # "create" => Owned(w.kind) /\ w.rv = target[w.kind].rv
      PROVE  ClusterInv'
  <2>1. w.kind \in Kinds
    BY DEF Writes
  <2>2. w.verb # "create" => /\ w.rv > 0 /\ w.rv <= version
                             /\ target[w.kind].owner # "FOREIGN"
    BY <1>2, <1>a, <2>1 DEF Owned, ClusterInv, VersionsGiven
  <2> QED
    BY <1>2, <2>2 DEF ClusterInv, VersionsGiven, RequestsGuarded
<1>3. ASSUME NEW w \in wire, wire' = wire \ {w}, IF Lands(w) THEN Write(w) ELSE UNCHANGED <<target, version>>
      PROVE  ClusterInv' /\ \A k \in Kinds : target[k].owner = "FOREIGN" => target'[k] = target[k]
  <2>1. CASE UNCHANGED <<target, version>>
    BY <1>3, <2>1 DEF ClusterInv, VersionsGiven, RequestsGuarded
  <2>2. CASE Lands(w)
    <3>1. target[w.kind].owner # "FOREIGN"
      BY <1>a, <1>w, <2>2 DEF Lands, ClusterInv, RequestsGuarded
    <3>2. CASE target' = [target EXCEPT ![w.kind] = Absent] /\ UNCHANGED version
      <4>1. target'[w.kind] = Absent /\ \A j \in Kinds : j # w.kind => target'[j] = target[j]
        BY <1>k, <1>w, <3>2
      <4> QED
        BY <1>3, <1>a, <1>w, <3>1, <3>2, <4>1 DEF ClusterInv, VersionsGiven, RequestsGuarded
    <3>3. CASE /\ version' = version + 1
               /\ target' = [target EXCEPT ![w.kind] = [owner |-> "BINDING", content |-> w.content, rv |-> version + 1]]
      <4>1. PICK new : new = [owner |-> "BINDING", content |-> w.content, rv |-> version + 1]
        OBVIOUS
      <4>2. new.owner = "BINDING" /\ new.rv = version + 1
        BY <4>1
      <4>3. target'[w.kind] = new /\ \A j \in Kinds : j # w.kind => target'[j] = target[j]
        BY <1>k, <1>w, <3>3, <4>1
      <4>4. VersionsGiven'
        BY <1>0, <1>r, <3>3, <4>2, <4>3 DEF ClusterInv, VersionsGiven
      <4>5. RequestsGuarded'
        BY <1>0, <1>3, <1>w, <3>3, <4>2, <4>3 DEF ClusterInv, RequestsGuarded
      <4> QED
        BY <3>1, <4>3, <4>4, <4>5 DEF ClusterInv
    <3> QED
      BY <1>3, <2>1, <2>2, <3>2, <3>3, WriteParts
  <2> QED
    BY <1>3, <2>1, <2>2
<1>4. ASSUME NEW k \in Kinds, target[k].owner # "FOREIGN", version' = version + 1, UNCHANGED wire,
             target' = [target EXCEPT ![k] = [owner |-> "FOREIGN", rv |-> version + 1]]
      PROVE  ClusterInv' /\ \A j \in Kinds : target[j].owner = "FOREIGN" => target'[j] = target[j]
  <2>1. PICK new : new = [owner |-> "FOREIGN", rv |-> version + 1]
    OBVIOUS
  <2>2. new.rv = version + 1
    BY <2>1
  <2>3. target'[k] = new /\ \A j \in Kinds : j # k => target'[j] = target[j]
    <3>1. target' = [target EXCEPT ![k] = new]
      BY <1>4, <2>1, Zenon
    <3> QED
      BY <1>k, <3>1
  <2>4. VersionsGiven'
    BY <1>0, <1>4, <1>r, <2>2, <2>3 DEF ClusterInv, VersionsGiven
  <2>5. RequestsGuarded'
    BY <1>0, <1>4, <1>w, <2>2, <2>3 DEF ClusterInv, RequestsGuarded
  <2> QED
    BY <1>4, <2>3, <2>4, <2>5 DEF ClusterInv
<1> QED
  BY <1>1, <1>2, <1>3, <1>4 DEF KubeMove, kubeVars

\* ClusterInv is an invariant.
THEOREM ClusterInvariant == Spec => []ClusterInv
<1>1. Init => ClusterInv
  BY DEF Init, ClusterInv, VersionsGiven, RequestsGuarded
<1>2. DeploymentInv /\ ClusterInv /\ [Next]_vars => ClusterInv'
  BY KubeStep, ClusterStep DEF DeploymentInv, RecordsTyped
<1> QED
  BY <1>1, <1>2, DeploymentInvariant, PTL DEF Spec

\* The agent's conditional writes never change or delete an object another owner holds,
\* however long the API server sits on them and however often the object changes hands.
THEOREM ForeignObjectsSafe == Spec => ForeignIsUntouched
<1>1. DeploymentInv /\ ClusterInv /\ [Next]_vars =>
        [\A k \in Kinds : target[k].owner = "FOREIGN" => target'[k] = target[k]]_vars
  BY KubeStep, ClusterStep DEF DeploymentInv, RecordsTyped
<1> QED
  BY <1>1, DeploymentInvariant, ClusterInvariant, PTL DEF Spec, ForeignIsUntouched
-----------------------------------------------------------------------------
(* Who has an attempt in hand. *)

\* Nobody can conclude what was started for t: its operation is in hand, and all that
\* may still conclude it is older.
InTime(t) ==
  /\ t.op \in DOMAIN ops /\ InHand(ops[t.op]) /\ t.revision <= ops[t.op].revision
  /\ \A u \in Finishers : u.op = t.op => u.revision < t.revision

Holds(h) == calls[h].pc = "respond"

\* Answers on their way and the executing agent are in time, each for an operation of
\* its own; no conclusion is of a revision that is still to come.
AnswersInTime == \A h \in Handlers : Holds(h) => InTime(calls[h].task)
AgentInTime   == Executing => InTime(agent.task)
OneHandEach ==
  /\ \A h, g \in Handlers : h # g /\ Holds(h) /\ Holds(g) => calls[h].task.op # calls[g].task.op
  /\ \A h \in Handlers : Executing /\ Holds(h) => agent.task.op # calls[h].task.op
NoneAhead == \A u \in Finishers : u.op \in DOMAIN ops /\ u.revision <= ops[u.op].revision

HandInv == AnswersInTime /\ AgentInTime /\ OneHandEach /\ NoneAhead

\* t is the task of an attempt that this step starts.
Begun(t) ==
  /\ t.op \in DOMAIN ops /\ ops[t.op].state = "QUEUED"
  /\ t.revision = ops[t.op].revision + 1
  /\ ops' = [ops EXCEPT ![t.op] = Started(ops[t.op])]

\* A call that has an attempt, or refuses one, had it before or starts it now, and only
\* one call does anything.
LEMMA CallsHold ==
  ASSUME RecordsTyped, CallsMove
  PROVE  /\ \A h \in Handlers : calls'[h].pc \in {"respond", "fail"} => calls'[h] = calls[h] \/ Begun(calls'[h].task)
         /\ \A h, g \in Handlers : h # g => calls'[h] = calls[h] \/ calls'[g] = calls[g] \/ calls'[h] = IdleCall
         /\ \A h \in Handlers : calls'[h].pc = "start" =>
              calls'[h] = calls[h] \/ CurrentAuthority(ops[calls'[h].task.op].plan)
         /\ \A h \in Handlers : calls'[h].pc = "respond" =>
              calls'[h] = calls[h] \/ (calls[h].pc = "start" /\ calls'[h].task.op = calls[h].task.op)
<1>0. calls \in [Handlers -> CallRows(Len(ops))] /\ DOMAIN ops = 1..Len(ops)
  BY TaskParts DEF RecordsTyped, CallsTyped
<1>1. CASE UNCHANGED calls
  BY <1>1
<1>2. CASE calls' = [h \in Handlers |-> IdleCall]
  <2>1. \A h \in Handlers : calls'[h] = IdleCall /\ calls'[h].pc = "idle"
    BY <1>2 DEF IdleCall
  <2> QED
    BY <2>1
<1>3. ASSUME NEW h \in Handlers, NEW new, CallMove(calls[h], new), calls' = [calls EXCEPT ![h] = new]
      PROVE  /\ \A g \in Handlers : g # h => calls'[g] = calls[g]
             /\ calls'[h] = new
             /\ new.pc \in {"respond", "fail"} => Begun(new.task)
             /\ new.pc = "start" => CurrentAuthority(ops[new.task.op].plan)
             /\ new.pc = "respond" => calls[h].pc = "start" /\ new.task.op = calls[h].task.op
  <2>1. calls'[h] = new /\ \A g \in Handlers : g # h => calls'[g] = calls[g]
    BY <1>0, <1>3
  <2>2. CASE new = IdleCall
    BY <2>1, <2>2 DEF IdleCall
  <2>3. CASE new \in [pc : {"claim"}, jobs : SUBSET DOMAIN ops]
    BY <2>1, <2>3
  <2>4. CASE new \in [pc : {"read", "validate", "refuse"}, jobs : SUBSET DOMAIN ops, task : TasksOf(Len(ops))]
    BY <2>1, <2>4
  <2>5. CASE /\ new \in [pc : {"start"}, jobs : SUBSET DOMAIN ops, task : TasksOf(Len(ops))]
             /\ CurrentAuthority(ops[new.task.op].plan)
    BY <2>1, <2>5
  <2>6. CASE /\ new \in [pc : {"respond", "fail"}, jobs : SUBSET DOMAIN ops, task : TasksOf(Len(ops))]
             /\ calls[h].pc \in {"start", "refuse"} /\ (new.pc = "respond" => calls[h].pc = "start")
             /\ new.task.op = calls[h].task.op
             /\ ops[new.task.op].state = "QUEUED" /\ new.task.revision = ops[new.task.op].revision + 1
             /\ ops' = [ops EXCEPT ![new.task.op] = Started(ops[new.task.op])]
    <3>1. new.task.op \in DOMAIN ops /\ new.pc \in {"respond", "fail"}
      BY <1>0, <2>6 DEF TasksOf
    <3>2. Begun(new.task)
      BY <2>6, <3>1, Zenon DEF Begun
    <3> QED
      BY <2>1, <2>6, <3>1, <3>2
  <2> QED
    BY <1>3, <2>2, <2>3, <2>4, <2>5, <2>6 DEF CallMove
<1> QED
  BY <1>1, <1>2, <1>3, Zenon DEF CallsMove

\* The agent goes on with its task, or takes the one a call answers with.
LEMMA AgentHolds ==
  ASSUME RecordsTyped, AgentMove
  PROVE  Executing' => \/ Executing /\ agent'.task = agent.task
                       \/ \E h \in Handlers : Holds(h) /\ SetCall(h, IdleCall) /\ agent'.task = calls[h].task
<1>1. CASE UNCHANGED agent
  BY <1>1 DEF Executing
<1>2. CASE agent' = IdleAgent
  BY <1>2 DEF Executing, IdleAgent
<1>3. ASSUME NEW h \in Handlers, Handover(h) PROVE Holds(h) /\ SetCall(h, IdleCall) /\ agent'.task = calls[h].task
  BY <1>3 DEF Handover, Holds
<1>4. CASE agent' \in [pc : {"polling"}, task : {NoTask}, call : Handlers]
  BY <1>4 DEF Executing
<1>5. CASE agent' \in [pc : {"recover", "recoverService"}, task : TasksOf(Len(ops))]
  BY <1>5 DEF Executing
<1> QED
  BY <1>1, <1>2, <1>3, <1>4, <1>5 DEF AgentMove, Conclude, Finish

\* What may conclude an operation after a step: what could before, an attempt refused
\* as it starts, and the task of the agent, which is done with it.
LEMMA FinishersStep ==
  ASSUME RecordsTyped, CallsMove, AgentMove
  PROVE  \A u \in Finishers' :
           \/ u \in Finishers
           \/ \E h \in Handlers : calls'[h].pc = "fail" /\ calls'[h] # calls[h] /\ u = calls'[h].task /\ Begun(u)
           \/ u = agent.task /\ Executing /\ ~Executing'
<1>1. ASSUME NEW h \in Handlers, calls'[h].pc = "fail"
      PROVE  calls'[h].task \in Finishers \/ (calls'[h] # calls[h] /\ Begun(calls'[h].task))
  <2>1. calls'[h] = calls[h] \/ Begun(calls'[h].task)
    BY <1>1, CallsHold
  <2> QED
    BY <1>1, <2>1 DEF Finishers
<1>2. ASSUME NEW r \in reports', r.result # "confirmed"
      PROVE  r.task \in Finishers \/ (r.task = agent.task /\ Executing /\ ~Executing')
  <2>1. ASSUME NEW q \in reports, q.result = r.result, q.task = r.task PROVE r.task \in Finishers
    BY <1>2, <2>1 DEF Finishers
  <2>2. CASE ReportsMove
    BY <1>2, <2>1, <2>2 DEF ReportsMove
  <2>3. CASE UNCHANGED reports
    BY <1>2, <2>1, <2>3
  <2>4. ASSUME NEW result, Conclude(result) PROVE r.task \in Finishers \/ (r.task = agent.task /\ Executing /\ ~Executing')
    <3>1. PICK q : /\ q = [task |-> agent.task, result |-> result, authority |-> "UNCHECKED"]
                   /\ reports' = reports \cup {q}
      BY <2>4 DEF Conclude, Finish
    <3>2. q.task = agent.task /\ q.result = result
      BY <3>1
    <3>3. ~Executing'
      BY <2>4 DEF Conclude, Finish, Executing, IdleAgent
    <3> QED
      BY <1>2, <2>1, <2>4, <3>1, <3>2, <3>3 DEF Conclude
  <2> QED
    BY <2>2, <2>3, <2>4 DEF AgentMove, Handover
<1>3. ASSUME NEW u \in Finishers'
      PROVE  \/ \E h \in Handlers : calls'[h].pc = "fail" /\ u = calls'[h].task
             \/ \E r \in reports' : r.result # "confirmed" /\ u = r.task
  BY Zenon DEF Finishers
<1> QED
  BY <1>1, <1>2, <1>3

\* Starting an attempt makes its operation RUNNING at the revision of its task.
LEMMA BegunParts ==
  ASSUME OpsTyped, NEW t, Begun(t)
  PROVE  /\ t.op \in DOMAIN ops' /\ InHand(ops'[t.op]) /\ ops'[t.op].revision = t.revision
         /\ ~InHand(ops[t.op]) /\ t.revision \in Nat /\ ops[t.op].revision < t.revision
<1>1. PICK o : o = t.op
  OBVIOUS
<1>2. ops \in Seq(OperationRow) /\ o \in DOMAIN ops /\ ops[o] \in OperationRow
  BY <1>1 DEF OpsTyped, Begun
<1>3. Started(ops[o]).state = "RUNNING" /\ Started(ops[o]).revision = ops[o].revision + 1 /\ ops[o].revision \in Nat
  BY <1>2, FieldsWritten DEF OperationRow
<1>4. ops' = [ops EXCEPT ![o] = Started(ops[o])] /\ t.revision = ops[o].revision + 1 /\ ops[o].state = "QUEUED"
  BY <1>1 DEF Begun
<1>5. ops'[o] = Started(ops[o]) /\ o \in DOMAIN ops'
  BY <1>2, <1>4
<1> QED
  BY <1>1, <1>3, <1>4, <1>5 DEF InHand

\* A step that leaves HandInv's parts in hand.
LEMMA HandStep == RecordsTyped /\ HandInv /\ [Next]_vars => HandInv'
<1> SUFFICES ASSUME RecordsTyped, HandInv, [Next]_vars PROVE HandInv'
  OBVIOUS
<1>0. OpsTyped /\ OperationsMove /\ CallsMove /\ AgentMove
  BY OperationsStep, CallsStep, AgentsStep DEF RecordsTyped
<1>o. /\ DOMAIN ops \subseteq DOMAIN ops' /\ OpsTyped'
      /\ \A o \in DOMAIN ops : Rewrite(ops[o], ops'[o]) /\ (InHand(ops[o]) => InHand(ops'[o]) \/ Concluded(o))
  BY <1>0, OperationsKept
<1>r. \A o \in DOMAIN ops : /\ ops[o].revision \in Nat /\ ops'[o].revision \in Nat
                            /\ ops[o].revision <= ops'[o].revision
  BY <1>o, TaskParts DEF Rewrite, OperationRow
<1>t. /\ \A u \in Finishers : u.revision \in Nat
      /\ \A h \in Handlers : Holds(h) => calls[h].task.revision \in Nat
      /\ Executing => agent.task.revision \in Nat
  <2>1. \A h \in Handlers : calls[h].pc \in {"respond", "fail"} => calls[h].task \in TasksOf(Len(ops))
    BY TaskParts DEF StartingPcs
  <2>2. Executing => agent.task \in TasksOf(Len(ops))
    BY TaskParts, AgentParts DEF RecordsTyped, AgentTyped, Executing
  <2>3. \A r \in reports : r.task \in TasksOf(Len(ops))
    BY DEF RecordsTyped, AgentTyped, ReportRows
  <2>4. \A u \in Finishers : u \in TasksOf(Len(ops))
    BY <2>1, <2>3 DEF Finishers
  <2> QED
    BY <2>1, <2>2, <2>4 DEF TasksOf, Holds
<1>f. \A u \in Finishers' :
        \/ u \in Finishers
        \/ \E h \in Handlers : calls'[h].pc = "fail" /\ calls'[h] # calls[h] /\ u = calls'[h].task /\ Begun(u)
        \/ u = agent.task /\ Executing /\ ~Executing'
  BY <1>0, FinishersStep
<1>b. ASSUME NEW t, NEW u, InTime(t), Begun(u) PROVE u.op # t.op
  BY <1>b DEF InTime, Begun, InHand
<1>k. ASSUME NEW t, InTime(t), t.revision \in Nat, ~(t.op = agent.task.op /\ Executing /\ ~Executing')
      PROVE  InTime(t)'
  <2>1. t.op \in DOMAIN ops /\ t.op \in DOMAIN ops'
    BY <1>k, <1>o DEF InTime
  <2>2. ~Concluded(t.op)
    BY <1>k, <1>r, <1>t, <2>1 DEF InTime, Concluded
  <2>3. InHand(ops'[t.op]) /\ t.revision <= ops'[t.op].revision
    BY <1>k, <1>o, <1>r, <2>1, <2>2 DEF InTime
  <2>4. ASSUME NEW u \in Finishers', u.op = t.op PROVE u.revision < t.revision
    BY <1>b, <1>f, <1>k, <2>4 DEF InTime
  <2> QED
    BY <2>1, <2>3, <2>4 DEF InTime, InHand
<1>n. ASSUME NEW h \in Handlers, calls'[h].pc = "respond", calls'[h] # calls[h]
      PROVE  Begun(calls'[h].task) /\ InTime(calls[h].task)'
  <2>1. PICK t : t = calls'[h].task
    OBVIOUS
  <2>2. Begun(t)
    BY <1>0, <1>n, <2>1, CallsHold
  <2>3. /\ t.op \in DOMAIN ops /\ t.op \in DOMAIN ops' /\ InHand(ops'[t.op]) /\ t.revision = ops'[t.op].revision
        /\ t.revision \in Nat /\ ops[t.op].revision < t.revision
    BY <1>0, <2>2, BegunParts DEF Begun
  <2>4. ASSUME NEW u \in Finishers', u.op = t.op PROVE u.revision < t.revision
    <3>1. CASE u \in Finishers
      BY <1>r, <1>t, <2>3, <2>4, <3>1 DEF HandInv, NoneAhead
    <3>2. ASSUME NEW g \in Handlers, calls'[g].pc = "fail", calls'[g] # calls[g] PROVE FALSE
      <4>1. g # h /\ calls'[h] # IdleCall
        BY <1>n, <3>2 DEF IdleCall
      <4> QED
        BY <1>0, <1>n, <3>2, <4>1, CallsHold
    <3>3. CASE u = agent.task /\ Executing
      BY <1>b, <2>2, <2>4, <3>3 DEF HandInv, AgentInTime
    <3> QED
      BY <1>f, <3>1, <3>2, <3>3
  <2>5. InTime(t)'
    BY <2>3, <2>4 DEF InTime, InHand
  <2> QED
    BY <2>1, <2>2, <2>5 DEF InTime
<1>h. ASSUME NEW h \in Handlers, Holds(h) PROVE InTime(calls[h].task) /\ calls[h].task.revision \in Nat
  BY <1>h, <1>t DEF HandInv, AnswersInTime
<1>g. Executing => InTime(agent.task) /\ agent.task.revision \in Nat
  BY <1>t DEF HandInv, AgentInTime
<1>d. ASSUME NEW h \in Handlers, Holds(h), Executing PROVE calls[h].task.op # agent.task.op
  BY <1>d DEF HandInv, OneHandEach
<1>1. ASSUME NEW h \in Handlers, calls'[h].pc = "respond" PROVE InTime(calls[h].task)'
  <2>1. CASE calls'[h] = calls[h]
    <3>1. PICK t : t = calls[h].task
      OBVIOUS
    <3>2. InTime(t)'
      BY <1>1, <1>h, <1>k, <1>d, <2>1, <3>1 DEF Holds
    <3> QED
      BY <2>1, <3>1, <3>2 DEF InTime
  <2> QED
    BY <1>1, <1>n, <2>1
<1>a. Executing' => \/ Executing /\ agent'.task = agent.task
                    \/ \E h \in Handlers : Holds(h) /\ SetCall(h, IdleCall) /\ agent'.task = calls[h].task
  BY <1>0, AgentHolds
<1>2. ASSUME Executing' PROVE InTime(agent.task)'
  <2>1. PICK t : t = agent'.task
    OBVIOUS
  <2>2. InTime(t) /\ t.revision \in Nat
    BY <1>2, <1>a, <1>g, <1>h, <2>1
  <2>3. InTime(t)'
    BY <1>2, <1>k, <2>2
  <2> QED
    BY <2>1, <2>3 DEF InTime
<1>c. calls \in [Handlers -> CallRows(Len(ops))]
  BY DEF RecordsTyped, CallsTyped
<1>3. ASSUME NEW h \in Handlers, NEW g \in Handlers, h # g, calls'[h].pc = "respond", calls'[g].pc = "respond"
      PROVE  calls'[h].task.op # calls'[g].task.op
  <2>1. calls'[h] # IdleCall /\ calls'[g] # IdleCall
    BY <1>3 DEF IdleCall
  <2>2. calls'[h] = calls[h] \/ calls'[g] = calls[g]
    BY <1>0, <1>3, <2>1, CallsHold
  <2>3. CASE calls'[h] = calls[h] /\ calls'[g] = calls[g]
    BY <1>3, <2>3 DEF HandInv, OneHandEach, Holds
  <2>4. CASE calls'[h] # calls[h] /\ calls'[g] = calls[g]
    BY <1>3, <1>b, <1>h, <1>n, <2>4 DEF Holds
  <2>5. CASE calls'[h] = calls[h] /\ calls'[g] # calls[g]
    BY <1>3, <1>b, <1>h, <1>n, <2>5 DEF Holds
  <2> QED
    BY <2>2, <2>3, <2>4, <2>5
<1>4. ASSUME NEW h \in Handlers, Executing', calls'[h].pc = "respond" PROVE agent'.task.op # calls'[h].task.op
  <2>1. CASE Executing /\ agent'.task = agent.task
    <3>1. CASE calls'[h] = calls[h]
      BY <1>4, <1>d, <2>1, <3>1 DEF Holds
    <3>2. CASE calls'[h] # calls[h]
      BY <1>4, <1>b, <1>g, <1>n, <2>1, <3>2
    <3> QED
      BY <3>1, <3>2
  <2>2. ASSUME NEW g \in Handlers, Holds(g), SetCall(g, IdleCall), agent'.task = calls[g].task
        PROVE  agent'.task.op # calls'[h].task.op
    <3>1. calls'[g] = IdleCall /\ (h # g => calls'[h] = calls[h])
      BY <1>c, <2>2 DEF SetCall
    <3>2. h # g
      BY <1>4, <3>1 DEF IdleCall
    <3> QED
      BY <1>4, <2>2, <3>1, <3>2 DEF HandInv, OneHandEach, Holds
  <2> QED
    BY <1>4, <1>a, <2>1, <2>2
<1>5. ASSUME NEW u \in Finishers' PROVE u.op \in DOMAIN ops' /\ u.revision <= ops'[u.op].revision
  <2>1. CASE u \in Finishers
    <3>1. u.op \in DOMAIN ops /\ u.revision <= ops[u.op].revision /\ u.revision \in Nat
      BY <1>t, <2>1 DEF HandInv, NoneAhead
    <3> QED
      BY <1>o, <1>r, <3>1
  <2>2. CASE Begun(u)
    BY <1>0, <2>2, BegunParts
  <2>3. CASE u = agent.task /\ Executing
    BY <1>g, <1>o, <1>r, <2>3 DEF InTime
  <2> QED
    BY <1>f, <2>1, <2>2, <2>3
<1> QED
  BY <1>1, <1>2, <1>3, <1>4, <1>5 DEF HandInv, AnswersInTime, AgentInTime, OneHandEach, NoneAhead, Holds

\* HandInv is an invariant.
THEOREM HandInvariant == Spec => []HandInv
<1>1. ASSUME Init PROVE HandInv
  <2>1. /\ \A h \in Handlers : calls[h].pc = "idle"
        /\ agent.pc = "idle" /\ reports = {}
    BY <1>1 DEF Init, IdleCall, IdleAgent
  <2>2. Finishers = {}
    BY <2>1 DEF Finishers
  <2> QED
    BY <2>1, <2>2 DEF HandInv, AnswersInTime, AgentInTime, OneHandEach, NoneAhead, Holds, Executing
<1>2. DeploymentInv /\ HandInv /\ [Next]_vars => HandInv'
  BY HandStep DEF DeploymentInv
<1> QED
  BY <1>1, <1>2, DeploymentInvariant, PTL DEF Spec

\* Whatever the agent executes is RUNNING, or asked to be cancelled, in the store: no
\* retry, result, refusal, recovery or new deployment has overtaken it.
THEOREM ExecutionAccounted == Spec => []ExecutionIsAccounted
<1>1. HandInv => ExecutionIsAccounted
  BY DEF HandInv, AgentInTime, InTime, InHand, ExecutionIsAccounted
<1> QED
  BY <1>1, HandInvariant, PTL

-----------------------------------------------------------------------------
(* What is in hand is designated. *)

\* While operation o blocks a change of what is desired, it renders what the binding
\* designates, in an active workspace.
Designated(o) == BlocksDesiredMutation(ops[o]) => ops[o].plan.binding = binding /\ workspace = "ACTIVE"

\* So it is from the dispatch's check of the authority until the agent is done.
DispatchInv ==
  /\ \A h \in Handlers : calls[h].pc \in {"start", "respond"} => Designated(calls[h].task.op)
  /\ Executing => Designated(agent.task.op)

\* No step takes that from an operation: the authority waits for it.
LEMMA DesignationKept ==
  ASSUME RecordsTyped, OperationsMove, AuthorityMove, NEW o \in DOMAIN ops,
         Designated(o) \/ CurrentAuthority(ops[o].plan)
  PROVE  Designated(o)'
<1>0. ops[o] \in OperationRow /\ Rewrite(ops[o], ops'[o])
  BY TaskParts, OperationsKept DEF RecordsTyped
<1>1. ops'[o] \in OperationRow /\ ops'[o].plan = ops[o].plan /\ (~Blocks(ops[o]) => ~Blocks(ops'[o]))
  BY <1>0 DEF Rewrite
<1>2. ASSUME NEW op \in OperationRow PROVE BlocksDesiredMutation(op) <=> Blocks(op)
  BY DEF BlocksDesiredMutation, Blocks, OperationBlocksExclusiveTargetMutation, OperationRow, States
<1>3. BlocksDesiredMutation(ops'[o]) => BlocksDesiredMutation(ops[o])
  BY <1>0, <1>1, <1>2
<1>4. CASE UNCHANGED <<binding, workspace>>
  <2>1. BlocksDesiredMutation(ops'[o]) => ops'[o].plan.binding = binding' /\ workspace' = "ACTIVE"
    BY <1>1, <1>3, <1>4 DEF Designated, CurrentAuthority
  <2> QED
    BY <2>1 DEF Designated, BlocksDesiredMutation
<1>5. CASE ~Blocked /\ UNCHANGED ops
  BY <1>5 DEF Blocked, Designated, BlocksDesiredMutation
<1> QED
  BY <1>4, <1>5 DEF AuthorityMove

\* A step keeps DispatchInv.
LEMMA DispatchStep == RecordsTyped /\ HandInv /\ DispatchInv /\ [Next]_vars => DispatchInv'
<1> SUFFICES ASSUME RecordsTyped, HandInv, DispatchInv, [Next]_vars PROVE DispatchInv'
  OBVIOUS
<1>0. OperationsMove /\ AuthorityMove /\ CallsMove /\ AgentMove
  BY OperationsStep, AuthorityStep, CallsStep, AgentsStep DEF HubMove
<1>k. ASSUME NEW o \in DOMAIN ops, Designated(o) \/ CurrentAuthority(ops[o].plan) PROVE Designated(o)'
  BY <1>0, <1>k, DesignationKept
<1>c. ASSUME NEW h \in Handlers, calls[h].pc \in {"start", "respond"}
      PROVE  calls[h].task.op \in DOMAIN ops /\ Designated(calls[h].task.op)
  BY <1>c, TaskParts DEF StartingPcs, DispatchInv
<1>n. ASSUME NEW h \in Handlers, calls'[h].pc \in StartingPcs PROVE calls'[h].task.op \in DOMAIN ops
  <2>0. calls' \in [Handlers -> CallRows(Len(ops))] /\ Len(ops) \in Nat /\ DOMAIN ops = 1..Len(ops)
    BY <1>0, TaskParts, CallsKept DEF RecordsTyped
  <2>1. calls'[h] \in CallRows(Len(ops))
    BY <2>0
  <2>2. PICK c : c = calls'[h]
    OBVIOUS
  <2>3. c \in [pc : StartingPcs, jobs : SUBSET (1..Len(ops)), task : TasksOf(Len(ops))]
    BY <1>n, <2>0, <2>1, <2>2, CallParts
  <2> QED
    BY <2>0, <2>2, <2>3 DEF TasksOf
<1>1. ASSUME NEW h \in Handlers, calls'[h].pc \in {"start", "respond"} PROVE Designated(calls[h].task.op)'
  <2>1. PICK o : o = calls'[h].task.op
    OBVIOUS
  <2>2. o \in DOMAIN ops
    BY <1>1, <1>n, <2>1 DEF StartingPcs
  <2>3. Designated(o) \/ CurrentAuthority(ops[o].plan)
    <3>1. CASE calls'[h] = calls[h]
      BY <1>1, <1>c, <2>1, <3>1
    <3>2. CASE calls'[h].pc = "start" /\ calls'[h] # calls[h]
      BY <1>0, <2>1, <3>2, CallsHold
    <3>3. CASE calls'[h].pc = "respond" /\ calls'[h] # calls[h]
      <4>1. calls[h].pc = "start" /\ calls'[h].task.op = calls[h].task.op
        BY <1>0, <3>3, CallsHold
      <4> QED
        BY <1>c, <2>1, <4>1
    <3> QED
      BY <1>1, <3>1, <3>2, <3>3
  <2>4. Designated(o)'
    BY <1>k, <2>2, <2>3
  <2> QED
    BY <2>1, <2>4 DEF Designated
<1>2. ASSUME Executing' PROVE Designated(agent.task.op)'
  <2>1. PICK o : o = agent'.task.op
    OBVIOUS
  <2>2. \/ Executing /\ agent'.task = agent.task
        \/ \E h \in Handlers : Holds(h) /\ agent'.task = calls[h].task
    BY <1>0, <1>2, AgentHolds
  <2>3. o \in DOMAIN ops /\ Designated(o)
    <3>1. CASE Executing /\ agent'.task = agent.task
      BY <2>1, <3>1 DEF DispatchInv, HandInv, AgentInTime, InTime
    <3>2. ASSUME NEW h \in Handlers, Holds(h), agent'.task = calls[h].task PROVE o \in DOMAIN ops /\ Designated(o)
      BY <1>c, <2>1, <3>2 DEF Holds
    <3> QED
      BY <2>2, <3>1, <3>2
  <2>4. Designated(o)'
    BY <1>k, <2>3
  <2> QED
    BY <2>1, <2>4 DEF Designated
<1> QED
  BY <1>1, <1>2 DEF DispatchInv

\* What the agent rolls out is what the binding designates, in an active workspace: a
\* promotion or a revocation between request, approval, dispatch and execution never
\* leaves an old plan executing.
THEOREM ExecutionIsCurrent == Spec => []ExecutesCurrentBinding
<1>1. Init => DispatchInv
  BY DEF Init, DispatchInv, IdleCall, IdleAgent, Executing
<1>2. DeploymentInv /\ HandInv /\ DispatchInv /\ [Next]_vars => DispatchInv'
  BY DispatchStep DEF DeploymentInv
<1>3. HandInv /\ DispatchInv => ExecutesCurrentBinding
  BY DEF HandInv, AgentInTime, InTime, InHand, DispatchInv, Designated, BlocksDesiredMutation, ExecutesCurrentBinding, Plan
<1> QED
  BY <1>1, <1>2, <1>3, DeploymentInvariant, HandInvariant, PTL DEF Spec

=============================================================================
