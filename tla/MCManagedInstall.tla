-------------------------- MODULE MCManagedInstall --------------------------
(***************************************************************************)
(* Instance of ManagedInstall for TLC: two replicas under one identity.    *)
(* A guard compares a token or a revision only with the current one, and   *)
(* both only grow, so the view keeps whether they are current: a token     *)
(* always, a replica's revision until its next read or its end.  Once the  *)
(* install is approved, all a client can do is cancel, so the view counts  *)
(* the clients that are up to date.                                        *)
(***************************************************************************)
EXTENDS MCOperationEngine, ManagedInstall

UpToDate == {c \in Clients : Expected(c)}

InstallView ==
  <<state, leaseOwner, lease, attempt, nextAttempt, evidence, replica, faults,
    [r \in Workers |-> claim[r] = fence],
    {r \in Workers : replica[r].at \notin {"IDLE", "LISTED", "CLAIMED", "SEAL", "SEALED"} /\ Expected(r)},
    IF IsTerminal(state) THEN {}
    ELSE IF state = "AWAITING_APPROVAL" THEN UpToDate
    ELSE {UpToDate # {}, UpToDate = Clients}>>
=============================================================================
