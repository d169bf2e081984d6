---------------------- MODULE MCApplicationDeployment ----------------------
(***************************************************************************)
(* Revisions, tokens and resourceVersions only ever grow and are only      *)
(* compared with the current ones.  The view keeps of each copy whether it *)
(* is current, and forgets what can have no effect any more: the counters  *)
(* of a settled operation, reports that will be refused, and conditional   *)
(* writes of an old version that nobody waits for.                         *)
(***************************************************************************)
EXTENDS ApplicationDeployment, TLC

Symmetric == Permutations(Clients) \cup Permutations(Handlers)

Settled(o) == ~OperationBlocksExclusiveTargetMutation(ops[o])

OperationView(o) ==
  IF Settled(o)
    THEN [state |-> ops[o].state, failure |-> ops[o].failure, plan |-> ops[o].plan]
    ELSE [ops[o] EXCEPT !.revision = 0]

Current(t) == ~Settled(t.op) /\ t.revision = ops[t.op].revision

TaskView(t) ==
  IF t = NoTask THEN t
  ELSE [op |-> t.op, current |-> Current(t), held |-> ~Settled(t.op) /\ t.token = ops[t.op].fence]

Awaited(w) == agent.pc = "wait" /\ agent.write = w

WriteView(w) ==
  [op |-> w.op, kind |-> w.kind, verb |-> w.verb, content |-> w.content,
   lands |-> Lands(w)]

AgentView ==
  IF agent.pc = "wait"
    THEN [pc |-> "wait", task |-> TaskView(agent.task), write |-> WriteView(agent.write)]
    ELSE [agent EXCEPT !.task = TaskView(@)]

CallView(call) == IF "task" \in DOMAIN call THEN [call EXCEPT !.task = TaskView(@)] ELSE call

View ==
  <<authVars, [o \in DOMAIN ops |-> OperationView(o)], building, approving,
    [h \in Handlers |-> CallView(calls[h])], AgentView,
    {[r EXCEPT !.task = TaskView(@)] : r \in {q \in reports : Current(q.task)}},
    [k \in Kinds |-> IF target[k] = Absent THEN Absent ELSE [target[k] EXCEPT !.rv = 0]],
    {WriteView(w) : w \in {v \in wire : v.verb = "create" \/ Lands(v) \/ Awaited(v)}}>>
=============================================================================
