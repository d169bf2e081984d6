---------------------------- MODULE MCTenantQueue ----------------------------
(***************************************************************************)
(* Revisions and tokens are only ever compared with the ones a task was    *)
(* handed out with, and grow: two states that agree on which tasks are     *)
(* current have the same futures.                                          *)
(***************************************************************************)
EXTENDS TenantQueue

\* The older tenant goes through its lifecycle, the younger one waits behind it.
OldestOnly == [t \in 1..2 |-> IF t = 1 THEN 2 ELSE 0]

RelativeView ==
  <<[t \in Tenants |-> [tenant[t] EXCEPT !.revision = 0, !.fence = 0]],
    [a \in Agents |-> LET k == task[a] IN
       [[k EXCEPT !.revision = 0, !.fence = 0] EXCEPT
          !.revision = IF k.step # "IDLE" /\ k.revision = tenant[k.tenant].revision THEN 1 ELSE 0,
          !.fence = IF k.step # "IDLE" /\ k.fence = tenant[k.tenant].fence THEN 1 ELSE 0]],
    target, admitted, requests, faults>>
=============================================================================
