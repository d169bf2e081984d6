--------------------------- MODULE MCNotifications ---------------------------
(***************************************************************************)
(* Instance of Notifications for TLC.  Nothing reads what an endpoint has  *)
(* accepted, and NoRepostWithoutFault reads it only before the first fault *)
(* or the exempted requeue, neither of which is ever undone; the view has *)
(* it until then.                                                          *)
(***************************************************************************)
EXTENDS Notifications

EndpointView ==
  <<outbox, routed, destination, route, delivery, worker, changes, faults,
    [d \in Deliveries |-> IF faults > 0 \/ (UniqueAttempts /\ delivery[d].requeued) THEN 0 ELSE accepted[d]]>>
=============================================================================
