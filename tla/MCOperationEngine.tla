------------------------- MODULE MCOperationEngine -------------------------
(***************************************************************************)
(* Instance of OperationEngine for TLC.  Revisions and fence tokens grow   *)
(* without bound, but a guard only asks whether they are current.          *)
(* EngineView keeps what the guards and the properties can tell apart, so  *)
(* the state space is finite with no bound on the number of claims,        *)
(* renewals, retries or commits:                                           *)
(*   - a caller's revision is current, one behind (which only matters to a *)
(*     worker finishing a VERIFYING operation) or stale for good;          *)
(*   - a token opens the fence or never will again;                        *)
(*   - a step's token and sealed evidence matter for its current attempt;  *)
(*   - the failure class is only read in FAILED.                           *)
(***************************************************************************)
EXTENDS OperationEngine, TLC

CONSTANTS w1, w2, alice, bob, none

\* Two processes under two worker identities, or under one.
OwnNames   == (w1 :> "one") @@ (w2 :> "two")
SharedName == [w \in {w1, w2} |-> "replica"]

Lag(c) ==
  CASE IsTerminal(state)  -> 0
    [] seen[c] = revision -> 0
    [] c \in Workers /\ state = "VERIFYING" /\ seen[c] + 1 = revision -> 1
    [] OTHER              -> 2

EngineView ==
  <<class, state, leaseOwner, lease, attempt, nextAttempt, evidence, checkpointOK,
    IF state = "FAILED" THEN failure = "UNKNOWN" ELSE FALSE,
    [i \in DOMAIN steps |->
       [steps[i] EXCEPT !.fence = (@ = fence /\ leaseOwner # NoOwner)]],
    {i \in DOMAIN steps : <<i, steps[i].attempt>> \in sealed},
    [w \in Workers |-> claim[w] = fence /\ leaseOwner = NameOf[w]],
    [c \in Callers |-> Lag(c)]>>

TwoSteps == {<<"AUTOMATIC", "AUTOMATIC">>, <<"MANUAL", "AUTOMATIC">>}
=============================================================================
