------------------------- MODULE NotificationsProofs -------------------------
(***************************************************************************)
(* TLAPS proofs about Notifications, for every number of events, routes,   *)
(* destinations, dispatchers, attempts, changes and faults, and for both   *)
(* authorities.                                                            *)
(*                                                                         *)
(* The argument: whatever the action, each outbox event, each delivery and *)
(* each dispatcher is left alone or makes one of a few moves; what has to  *)
(* hold is shown of the moves.                                             *)
(***************************************************************************)
EXTENDS Notifications, TLAPS

EventRow == [state : {"NONE", "WAITING", "PUBLISHED"}, by : Workers \cup {"NONE", "DEAD"}, claim : Claims]
DeliveryRow ==
  [state : OpenStates \cup SettledStates \cup {"NONE"}, attempt : Nat, due : BOOLEAN,
   by : Workers \cup {"NONE", "DEAD"}, claim : Claims, recorded : SUBSET Nat, requeued : BOOLEAN]
WorkerRow == [phase : {"IDLE", "OUTBOX", "DELIVERIES"}, batch : SUBSET Events, head : BOOLEAN,
              job : [Deliveries -> Jobs]]

-----------------------------------------------------------------------------
(* The deliveries. *)

\* What may happen to the record of delivery d in one step.
Routing(d)   == d[1] \notin routed /\ d[1] \in routed' /\ delivery'[d] = [NoDelivery EXCEPT !.state = "PENDING"]
Taking(d)    == /\ delivery[d].state \in OpenStates
                /\ \E w \in Workers, c \in {"LIVE", "EXPIRED"} :
                     delivery'[d] = [delivery[d] EXCEPT !.state = "DELIVERING", !.attempt = @ + 1, !.by = w, !.claim = c]
Reporting(d) == /\ delivery[d].state = "DELIVERING"
                /\ \E outcome \in Jobs : delivery'[d] = Reported(delivery[d], outcome)
Requeuing(d) == /\ delivery[d].state = "DEAD_LETTER"
                /\ delivery'[d] = [delivery[d] EXCEPT !.state = "PENDING", !.attempt = 0, !.due = TRUE, !.by = "NONE",
                                                      !.claim = "NONE", !.requeued = TRUE]
Expiring(d)  == delivery[d].claim = "LIVE" /\ delivery'[d] = [delivery[d] EXCEPT !.claim = "EXPIRED"]
Maturing(d)  == ~delivery[d].due /\ delivery'[d] = [delivery[d] EXCEPT !.due = TRUE]
Orphaning(d) == delivery[d].by \in Workers /\ delivery'[d] = [delivery[d] EXCEPT !.by = "DEAD"]

DeliveryMove(d) ==
  \/ delivery'[d] = delivery[d]
  \/ Routing(d) \/ Taking(d) \/ Reporting(d) \/ Requeuing(d) \/ Expiring(d) \/ Maturing(d) \/ Orphaning(d)

DeliveriesMove ==
  /\ delivery' = [d \in Deliveries |-> delivery'[d]]
  /\ \A d \in Deliveries : DeliveryMove(d)
  /\ routed \subseteq routed'

\* One delivery's record changes, or none does.
LEMMA OneMoves ==
  ASSUME TypeOK, NEW x \in Deliveries, NEW row, routed \subseteq routed',
         delivery' = [delivery EXCEPT ![x] = row], delivery'[x] = row => DeliveryMove(x)
  PROVE  DeliveriesMove
<1>1. delivery = [d \in Deliveries |-> delivery[d]]
  BY DEF TypeOK
<1>2. delivery'[x] = row /\ \A d \in Deliveries : d # x => delivery'[d] = delivery[d]
  BY <1>1
<1>3. delivery' = [d \in Deliveries |-> delivery'[d]]
  BY <1>1
<1> QED
  BY <1>2, <1>3 DEF DeliveriesMove, DeliveryMove

\* Every step moves the deliveries in these ways only.
LEMMA DeliveriesStep == TypeOK /\ [Next]_vars => DeliveriesMove
<1> SUFFICES ASSUME TypeOK, [Next]_vars PROVE DeliveriesMove
  OBVIOUS
<1>0. delivery = [d \in Deliveries |-> delivery[d]]
  BY DEF TypeOK
<1>1. ASSUME UNCHANGED delivery, routed \subseteq routed' PROVE DeliveriesMove
  BY <1>0, <1>1 DEF DeliveriesMove, DeliveryMove
<1>2. ASSUME NEW d \in Deliveries, RetryNotificationDelivery(d) PROVE DeliveriesMove
  <2>1. /\ delivery' = [delivery EXCEPT ![d] =
             [delivery[d] EXCEPT !.state = "PENDING", !.attempt = 0, !.due = TRUE, !.by = "NONE",
                                 !.claim = "NONE", !.requeued = TRUE]]
        /\ delivery[d].state = "DEAD_LETTER" /\ UNCHANGED routed
    BY <1>2, Zenon DEF RetryNotificationDelivery
  <2> QED
    BY <2>1, OneMoves DEF DeliveryMove, Requeuing
<1>3. ASSUME NEW w \in Workers, NEW e \in Events, RouteNotificationEvent(w, e) PROVE DeliveriesMove
  <2>1. CASE e \in Actionable
    <3>1. routed' = routed \cup {e} /\ delivery' = RoutedDeliveries(e)
      BY <1>3, <2>1 DEF RouteNotificationEvent
    <3>2. delivery' = [d \in Deliveries |-> delivery'[d]]
      BY <3>1 DEF RoutedDeliveries
    <3>3. ASSUME NEW d \in Deliveries PROVE DeliveryMove(d)
      BY <3>1 DEF RoutedDeliveries, DeliveryMove, Routing
    <3> QED
      BY <3>1, <3>2, <3>3 DEF DeliveriesMove
  <2> QED
    BY <1>1, <1>3, <2>1 DEF RouteNotificationEvent
<1>4. ASSUME NEW w \in Workers, ClaimNotificationDeliveries(w) PROVE DeliveriesMove
  <2> DEFINE mine == {d \in Deliveries : Claimable(d)}
  <2>1. PICK c \in {"LIVE", "EXPIRED"} :
          delivery' = [d \in Deliveries |->
            IF d \in mine THEN [delivery[d] EXCEPT !.state = "DELIVERING", !.attempt = @ + 1, !.by = w, !.claim = c]
            ELSE delivery[d]]
    BY <1>4, Zenon DEF ClaimNotificationDeliveries
  <2>2. delivery' = [d \in Deliveries |-> delivery'[d]]
    BY <2>1, Zenon
  <2>3. ASSUME NEW d \in Deliveries, d \in mine PROVE DeliveryMove(d)
    <3>1. delivery[d].state \in OpenStates
      BY <2>3 DEF Claimable
    <3>2. delivery'[d] = [delivery[d] EXCEPT !.state = "DELIVERING", !.attempt = @ + 1, !.by = w, !.claim = c]
      BY <2>1, <2>3, Zenon
    <3> QED
      BY <3>1, <3>2, Zenon DEF DeliveryMove, Taking
  <2>4. ASSUME NEW d \in Deliveries, d \notin mine PROVE DeliveryMove(d)
    BY <2>1, <2>4, Zenon DEF DeliveryMove
  <2> QED
    BY <1>4, <2>2, <2>3, <2>4 DEF DeliveriesMove, ClaimNotificationDeliveries
<1>5. ASSUME NEW w \in Workers, NEW d \in Deliveries, ReportNotificationDelivery(w, d) PROVE DeliveriesMove
  <2>1. CASE OwnsDelivery(w, d) /\ AttemptIsNew(d)
    <3>1. PICK outcome \in Jobs : delivery' = [delivery EXCEPT ![d] = Reported(delivery[d], outcome)]
      BY <1>5, <2>1 DEF ReportNotificationDelivery, Jobs
    <3>2. delivery[d].state = "DELIVERING" /\ UNCHANGED routed
      BY <1>5, <2>1 DEF OwnsDelivery, ReportNotificationDelivery
    <3> QED
      BY <3>1, <3>2, OneMoves DEF DeliveryMove, Reporting
  <2> QED
    BY <1>1, <1>5, <2>1 DEF ReportNotificationDelivery
<1>6. ASSUME NEW d \in Deliveries, DeliveryClaimExpires(d) PROVE DeliveriesMove
  <2>1. delivery' = [delivery EXCEPT ![d] = [delivery[d] EXCEPT !.claim = "EXPIRED"]]
        /\ delivery[d].claim = "LIVE" /\ UNCHANGED routed
    BY <1>6, Zenon DEF DeliveryClaimExpires
  <2> QED
    BY <2>1, OneMoves DEF DeliveryMove, Expiring
<1>7. ASSUME NEW d \in Deliveries, RetryDelayPasses(d) PROVE DeliveriesMove
  <2>1. delivery' = [delivery EXCEPT ![d] = [delivery[d] EXCEPT !.due = TRUE]]
        /\ ~delivery[d].due /\ UNCHANGED routed
    BY <1>7, Zenon DEF RetryDelayPasses
  <2> QED
    BY <2>1, OneMoves, Zenon DEF DeliveryMove, Maturing
<1>8. ASSUME NEW w \in Workers, WorkerCrash(w) PROVE DeliveriesMove
  <2>1. delivery' = [d \in Deliveries |-> IF delivery[d].by = w THEN [delivery[d] EXCEPT !.by = "DEAD"] ELSE delivery[d]]
        /\ UNCHANGED routed
    BY <1>8, Zenon DEF WorkerCrash
  <2>2. ASSUME NEW d \in Deliveries PROVE DeliveryMove(d)
    BY <2>1 DEF DeliveryMove, Orphaning
  <2> QED
    BY <2>1, <2>2 DEF DeliveriesMove
<1>9. CASE UNCHANGED vars
  BY <1>1, <1>9 DEF vars
<1>10. CASE Configure
  BY <1>1, <1>2, <1>10
  DEF Configure, CreateNotificationDestination, DisableNotificationDestination, UpdateNotificationDestination,
      CreateNotificationRoute, UpdateNotificationRoute
<1>11. ASSUME NEW w \in Workers, WorkerStep(w) \/ ProcessOnceFails(w) \/ WorkerCrash(w) PROVE DeliveriesMove
  BY <1>1, <1>3, <1>4, <1>5, <1>8, <1>11
  DEF WorkerStep, ClaimOutbox, MarkOutboxPublished, CheckDestination, PostWebhook, ProcessOnceFails
<1>12. CASE TimePasses \/ \E e \in Events : AppendOutbox(e)
  BY <1>1, <1>6, <1>7, <1>12 DEF TimePasses, OutboxClaimExpires, AppendOutbox
<1> QED
  BY <1>9, <1>10, <1>11, <1>12 DEF Next

\* The attempts of a delivery that was never requeued are recorded once: the one
\* under way is later than the recorded ones.
FreshAttempt(d) ==
  /\ delivery[d].state = "NONE" => ~delivery[d].requeued
  /\ ~delivery[d].requeued =>
       \A n \in delivery[d].recorded :
         n <= delivery[d].attempt /\ (delivery[d].state = "DELIVERING" => n < delivery[d].attempt)

\* A delivery exists only for a routed event, and one that succeeded is claimed by
\* nobody and waits for nothing.
DeliveryInv(d) ==
  /\ delivery[d].state # "NONE" => d[1] \in routed
  /\ delivery[d].state = "SUCCEEDED" => delivery[d].by = "NONE" /\ delivery[d].claim = "NONE" /\ delivery[d].due

\* What RoutedOnce says of one delivery.
KeptOnce(d) ==
  /\ delivery[d].state = "NONE" /\ delivery'[d].state # "NONE" => d[1] \notin routed
  /\ delivery[d].state = "SUCCEEDED" => delivery'[d] = delivery[d]

\* A report settles the delivery or schedules its next attempt.
LEMMA ReportTyped ==
  ASSUME NEW row \in DeliveryRow, NEW outcome \in Jobs
  PROVE  /\ Reported(row, outcome) \in DeliveryRow
         /\ Reported(row, outcome).state \in {"SUCCEEDED", "RETRY_WAIT", "DEAD_LETTER"}
         /\ Reported(row, outcome).by = "NONE" /\ Reported(row, outcome).claim = "NONE"
         /\ Reported(row, outcome).state = "SUCCEEDED" => Reported(row, outcome).due
<1> DEFINE to == ReportedState(outcome, row.attempt)
<1>1. to \in {"SUCCEEDED", "RETRY_WAIT", "DEAD_LETTER"}
  BY DEF ReportedState
<1>2. to \in OpenStates \cup SettledStates \cup {"NONE"} /\ "NONE" \in Workers \cup {"NONE", "DEAD"} /\ "NONE" \in Claims
  BY <1>1 DEF OpenStates, SettledStates, Claims
<1>3. row.recorded \cup {row.attempt} \in SUBSET Nat
  BY DEF DeliveryRow
<1>4. PICK due \in BOOLEAN : due = (to # "RETRY_WAIT")
  OBVIOUS
<1>5. Reported(row, outcome) = [row EXCEPT !.state = to, !.by = "NONE", !.claim = "NONE", !.due = due,
                                           !.recorded = row.recorded \cup {row.attempt}]
  BY <1>4, Zenon DEF Reported
<1>6. to = "SUCCEEDED" => due
  BY <1>4
<1> HIDE DEF to
<1>7. Reported(row, outcome) \in DeliveryRow
  BY <1>2, <1>3, <1>5, Zenon DEF DeliveryRow
<1>8. /\ Reported(row, outcome).state = to /\ Reported(row, outcome).by = "NONE"
      /\ Reported(row, outcome).claim = "NONE" /\ Reported(row, outcome).due = due
  BY <1>5, Zenon DEF DeliveryRow
<1> QED
  BY <1>1, <1>6, <1>7, <1>8, Zenon

\* Each move keeps the record typed, its invariant, and what must not change.
LEMMA MoveKeeps ==
  ASSUME NEW d \in Deliveries, delivery[d] \in DeliveryRow, DeliveryInv(d), DeliveryMove(d), routed \subseteq routed'
  PROVE  delivery'[d] \in DeliveryRow /\ DeliveryInv(d)' /\ KeptOnce(d)
<1> USE DEF DeliveryInv, KeptOnce
<1>1. CASE delivery'[d] = delivery[d]
  BY <1>1
<1>2. CASE Routing(d)
  <2>1. NoDelivery \in DeliveryRow
    BY DEF NoDelivery, DeliveryRow, Claims
  <2>2. delivery'[d] \in DeliveryRow
    BY <1>2, <2>1 DEF Routing, DeliveryRow, OpenStates
  <2>3. delivery'[d].state = "PENDING"
    BY <1>2, <2>1 DEF Routing, DeliveryRow
  <2> QED
    BY <1>2, <2>2, <2>3 DEF Routing
<1>3. CASE Taking(d)
  <2>1. PICK w \in Workers, c \in {"LIVE", "EXPIRED"} :
          delivery'[d] = [delivery[d] EXCEPT !.state = "DELIVERING", !.attempt = delivery[d].attempt + 1, !.by = w, !.claim = c]
    BY <1>3, Zenon DEF Taking
  <2>2. /\ "DELIVERING" \in OpenStates \cup SettledStates \cup {"NONE"} /\ c \in Claims
        /\ delivery[d].attempt + 1 \in Nat
    BY DEF OpenStates, Claims, DeliveryRow
  <2>3. delivery'[d] \in DeliveryRow
    BY <2>1, <2>2, Zenon DEF DeliveryRow
  <2>4. delivery'[d].state = "DELIVERING"
    BY <2>1, Zenon DEF DeliveryRow
  <2> QED
    BY <1>3, <2>3, <2>4 DEF Taking, OpenStates
<1>4. CASE Reporting(d)
  <2>1. PICK outcome \in Jobs : delivery'[d] = Reported(delivery[d], outcome)
    BY <1>4 DEF Reporting
  <2>2. /\ delivery'[d] \in DeliveryRow /\ delivery'[d].by = "NONE" /\ delivery'[d].claim = "NONE"
        /\ delivery'[d].state = "SUCCEEDED" => delivery'[d].due
    <3> DEFINE new == Reported(delivery[d], outcome)
    <3>1. /\ new \in DeliveryRow /\ new.by = "NONE" /\ new.claim = "NONE"
          /\ new.state = "SUCCEEDED" => new.due
      BY ReportTyped, Zenon
    <3> HIDE DEF new
    <3>2. delivery'[d] = new
      BY <2>1 DEF new
    <3> QED
      BY <3>1, <3>2, Zenon
  <2>3. delivery[d].state = "DELIVERING"
    BY <1>4 DEF Reporting
  <2>4. delivery[d].state # "NONE" /\ delivery[d].state # "SUCCEEDED"
    BY <2>3
  <2> QED
    BY <2>2, <2>4, Zenon
<1>5. CASE Requeuing(d)
  <2>1. delivery'[d] \in DeliveryRow
    <3>1. "PENDING" \in OpenStates \cup SettledStates \cup {"NONE"} /\ "NONE" \in Claims /\ 0 \in Nat
      BY DEF OpenStates, Claims
    <3> QED
      BY <1>5, <3>1, Zenon DEF Requeuing, DeliveryRow
  <2>2. delivery'[d].state = "PENDING"
    BY <1>5, Zenon DEF Requeuing, DeliveryRow
  <2> QED
    BY <1>5, <2>1, <2>2 DEF Requeuing
<1>6. CASE Expiring(d)
  <2>1. delivery'[d] \in DeliveryRow /\ delivery'[d].state = delivery[d].state
    BY <1>6 DEF Expiring, DeliveryRow, Claims
  <2> QED
    BY <1>6, <2>1 DEF Expiring
<1>7. CASE Maturing(d)
  <2>1. delivery'[d] \in DeliveryRow
    BY <1>7, Zenon DEF Maturing, DeliveryRow
  <2>2. delivery'[d].state = delivery[d].state
    BY <1>7, Zenon DEF Maturing, DeliveryRow
  <2> QED
    BY <1>7, <2>1, <2>2 DEF Maturing
<1>8. CASE Orphaning(d)
  <2>1. delivery'[d] \in DeliveryRow /\ delivery'[d].state = delivery[d].state
    BY <1>8 DEF Orphaning, DeliveryRow
  <2> QED
    BY <1>8, <2>1, NotificationAssumption DEF Orphaning
<1> QED
  BY <1>1, <1>2, <1>3, <1>4, <1>5, <1>6, <1>7, <1>8 DEF DeliveryMove

\* Each move keeps the attempts apart.
LEMMA AttemptKeeps ==
  ASSUME NEW d \in Deliveries, delivery[d] \in DeliveryRow, FreshAttempt(d), DeliveryMove(d)
  PROVE  FreshAttempt(d)'
<1>1. ASSUME delivery'[d].requeued, delivery'[d].state # "NONE" PROVE FreshAttempt(d)'
  BY <1>1, Zenon DEF FreshAttempt
<1>2. ASSUME delivery'[d].requeued = delivery[d].requeued, delivery'[d].recorded = delivery[d].recorded,
             delivery'[d].attempt = delivery[d].attempt, delivery'[d].state = delivery[d].state
      PROVE  FreshAttempt(d)'
  BY <1>2, Zenon DEF FreshAttempt
<1>3. CASE Routing(d)
  BY <1>3 DEF Routing, NoDelivery, FreshAttempt
<1>4. CASE Taking(d)
  <2>1. PICK w \in Workers, c \in {"LIVE", "EXPIRED"} :
          delivery'[d] = [delivery[d] EXCEPT !.state = "DELIVERING", !.attempt = delivery[d].attempt + 1, !.by = w, !.claim = c]
    BY <1>4, Zenon DEF Taking
  <2>2. delivery'[d].requeued = delivery[d].requeued
    BY <2>1, Zenon DEF DeliveryRow
  <2>3. delivery'[d].recorded = delivery[d].recorded /\ delivery'[d].attempt = delivery[d].attempt + 1
    BY <2>1, Zenon DEF DeliveryRow
  <2>4. delivery[d].attempt \in Nat /\ delivery[d].recorded \subseteq Nat
    BY DEF DeliveryRow
  <2>5. ASSUME \A n \in delivery[d].recorded : n <= delivery[d].attempt
        PROVE  \A n \in delivery'[d].recorded : n <= delivery'[d].attempt /\ n < delivery'[d].attempt
    BY <2>3, <2>4, <2>5
  <2>6. delivery'[d].state = "DELIVERING"
    BY <2>1, Zenon DEF DeliveryRow
  <2>7. delivery'[d].state # "NONE"
    BY <2>6
  <2> QED
    BY <2>2, <2>5, <2>7, Zenon DEF FreshAttempt
<1>5. CASE Reporting(d)
  <2>1. PICK outcome \in Jobs : delivery'[d] = Reported(delivery[d], outcome)
    BY <1>5 DEF Reporting
  <2>2. delivery'[d].requeued = delivery[d].requeued
    BY <2>1, Zenon DEF DeliveryRow, Reported
  <2>3. delivery'[d].attempt = delivery[d].attempt
    BY <2>1, Zenon DEF DeliveryRow, Reported
  <2>4. delivery'[d].recorded = delivery[d].recorded \cup {delivery[d].attempt}
    BY <2>1, Zenon DEF DeliveryRow, Reported
  <2>5. delivery'[d].state # "DELIVERING" /\ delivery'[d].state # "NONE"
    BY <2>1, ReportTyped
  <2>6. delivery[d].attempt \in Nat /\ delivery[d].recorded \subseteq Nat
    BY DEF DeliveryRow
  <2>7. ASSUME \A n \in delivery[d].recorded : n <= delivery[d].attempt
        PROVE  \A n \in delivery'[d].recorded : n <= delivery'[d].attempt
    BY <2>3, <2>4, <2>6, <2>7
  <2> QED
    BY <2>2, <2>5, <2>7, Zenon DEF FreshAttempt
<1>6. CASE Requeuing(d)
  <2>1. delivery'[d].requeued
    BY <1>6, Zenon DEF Requeuing, DeliveryRow
  <2>2. delivery'[d].state = "PENDING"
    BY <1>6, Zenon DEF Requeuing, DeliveryRow
  <2> QED
    BY <1>1, <2>1, <2>2
<1>7. CASE Expiring(d) \/ Maturing(d) \/ Orphaning(d) \/ delivery'[d] = delivery[d]
  BY <1>2, <1>7, Zenon DEF Expiring, Maturing, Orphaning, DeliveryRow
<1> QED
  BY <1>3, <1>4, <1>5, <1>6, <1>7 DEF DeliveryMove

-----------------------------------------------------------------------------
(* The dispatchers. *)

\* What may happen to dispatcher w in one step: its iteration ends, it claims a
\* batch, routes the oldest event of it, publishes that event, or works on deliveries.
Ending(w)     == worker'[w] = IdleWorker
Batching(w)   == /\ worker[w].phase = "IDLE"
                 /\ \E b \in SUBSET Events : worker'[w] = [worker[w] EXCEPT !.phase = "OUTBOX", !.batch = b, !.head = FALSE]
Heading(w)    == \E e \in Events : /\ Current(w, e) /\ (e \in Actionable => e \in routed')
                                   /\ worker'[w] = [worker[w] EXCEPT !.head = TRUE]
Advancing(w)  == \E e \in Events : worker'[w] = [worker[w] EXCEPT !.batch = worker[w].batch \ {e}, !.head = FALSE]
Delivering(w) == \E job \in [Deliveries -> Jobs] :
                   \/ /\ \E d \in Deliveries : worker[w].job[d] # "NONE"
                      /\ worker'[w] = [worker[w] EXCEPT !.job = job]
                   \/ worker'[w] = [IdleWorker EXCEPT !.phase = "DELIVERIES", !.job = job]

WorkerMove(w) ==
  worker'[w] = worker[w] \/ Ending(w) \/ Batching(w) \/ Heading(w) \/ Advancing(w) \/ Delivering(w)

WorkersMove ==
  /\ worker' = [w \in Workers |-> worker'[w]]
  /\ \A w \in Workers : WorkerMove(w)
  /\ routed \subseteq routed'

\* One dispatcher moves, or none does.
LEMMA OneWorkerMoves ==
  ASSUME TypeOK, NEW x \in Workers, NEW row, routed \subseteq routed',
         worker' = [worker EXCEPT ![x] = row], worker'[x] = row => WorkerMove(x)
  PROVE  WorkersMove
<1>1. worker = [w \in Workers |-> worker[w]]
  BY DEF TypeOK
<1>2. worker'[x] = row /\ \A w \in Workers : w # x => worker'[w] = worker[w]
  BY <1>1
<1>3. worker' = [w \in Workers |-> worker'[w]]
  BY <1>1
<1> QED
  BY <1>2, <1>3 DEF WorkersMove, WorkerMove

\* Every step moves the dispatchers in these ways only.
LEMMA WorkersStep == TypeOK /\ [Next]_vars => WorkersMove
<1> SUFFICES ASSUME TypeOK, [Next]_vars PROVE WorkersMove
  OBVIOUS
<1>0. worker = [w \in Workers |-> worker[w]] /\ \A w \in Workers : worker[w] \in WorkerRow
  BY DEF TypeOK, WorkerRow
<1>1. ASSUME UNCHANGED worker, routed \subseteq routed' PROVE WorkersMove
  BY <1>0, <1>1 DEF WorkersMove, WorkerMove
<1>2. ASSUME NEW w \in Workers, worker' = [worker EXCEPT ![w] = IdleWorker], UNCHANGED routed PROVE WorkersMove
  BY <1>2, OneWorkerMoves DEF WorkerMove, Ending
<1>3. ASSUME NEW w \in Workers, ClaimOutbox(w) PROVE WorkersMove
  <2>1. PICK b \in SUBSET Events :
          worker' = [worker EXCEPT ![w] = [worker[w] EXCEPT !.phase = "OUTBOX", !.batch = b, !.head = FALSE]]
    <3>1. ClaimedBatch \in SUBSET Events
      BY DEF ClaimedBatch, ClaimableEvents
    <3> QED
      BY <1>3, <3>1, Zenon DEF ClaimOutbox
  <2>2. UNCHANGED routed
    BY <1>3 DEF ClaimOutbox
  <2>3. worker'[w] = [worker[w] EXCEPT !.phase = "OUTBOX", !.batch = b, !.head = FALSE] => WorkerMove(w)
    BY <1>3, Zenon DEF WorkerMove, Batching, ClaimOutbox
  <2> QED
    BY <2>1, <2>2, <2>3, OneWorkerMoves
<1>4. ASSUME NEW w \in Workers, NEW e \in Events, RouteNotificationEvent(w, e) PROVE WorkersMove
  <2>1. worker' = [worker EXCEPT ![w] = [worker[w] EXCEPT !.head = TRUE]]
    BY <1>4, Zenon DEF RouteNotificationEvent
  <2>2. Current(w, e) /\ (e \in Actionable => e \in routed') /\ routed \subseteq routed'
    BY <1>4 DEF RouteNotificationEvent
  <2>3. worker'[w] = [worker[w] EXCEPT !.head = TRUE] => WorkerMove(w)
    BY <2>2, Zenon DEF WorkerMove, Heading
  <2> QED
    BY <2>1, <2>2, <2>3, OneWorkerMoves
<1>5. ASSUME NEW w \in Workers, NEW e \in Events, MarkOutboxPublished(w, e) PROVE WorkersMove
  <2>1. UNCHANGED routed
    BY <1>5 DEF MarkOutboxPublished
  <2>2. CASE OwnsEvent(w, e)
    <3>1. worker' = [worker EXCEPT ![w] = [worker[w] EXCEPT !.batch = worker[w].batch \ {e}, !.head = FALSE]]
      BY <1>5, <2>2, Zenon DEF MarkOutboxPublished
    <3>2. worker'[w] = [worker[w] EXCEPT !.batch = worker[w].batch \ {e}, !.head = FALSE] => WorkerMove(w)
      BY Zenon DEF WorkerMove, Advancing
    <3> QED
      BY <2>1, <3>1, <3>2, OneWorkerMoves
  <2> QED
    BY <1>2, <1>5, <2>1, <2>2 DEF MarkOutboxPublished
<1>6. ASSUME NEW w \in Workers, ClaimNotificationDeliveries(w) PROVE WorkersMove
  <2> DEFINE mine == {d \in Deliveries : Claimable(d)}
  <2>1. UNCHANGED routed
    BY <1>6 DEF ClaimNotificationDeliveries
  <2>2. PICK job \in [Deliveries -> Jobs] : job = [d \in Deliveries |-> IF d \in mine THEN "CLAIMED" ELSE "NONE"]
    BY DEF Jobs
  <2>3. \/ worker' = [worker EXCEPT ![w] = IdleWorker]
        \/ worker' = [worker EXCEPT ![w] = [IdleWorker EXCEPT !.phase = "DELIVERIES", !.job = job]]
    BY <1>6, <2>2, Zenon DEF ClaimNotificationDeliveries
  <2>4. worker'[w] = [IdleWorker EXCEPT !.phase = "DELIVERIES", !.job = job] => WorkerMove(w)
    BY Zenon DEF WorkerMove, Delivering
  <2> QED
    BY <1>2, <2>1, <2>3, <2>4, OneWorkerMoves
<1>7. ASSUME NEW w \in Workers, NEW job \in [Deliveries -> Jobs], UNCHANGED routed,
             NEW d \in Deliveries, worker[w].job[d] # "NONE",
             worker' = [worker EXCEPT ![w] = [worker[w] EXCEPT !.job = job]]
      PROVE  WorkersMove
  <2>1. worker'[w] = [worker[w] EXCEPT !.job = job] => WorkerMove(w)
    BY <1>7, Zenon DEF WorkerMove, Delivering
  <2> QED
    BY <1>7, <2>1, OneWorkerMoves
<1>8. ASSUME NEW w \in Workers, NEW d \in Deliveries, NEW outcome \in Jobs, UNCHANGED routed,
             worker[w].job[d] # "NONE", worker' = [worker EXCEPT ![w].job[d] = outcome]
      PROVE  WorkersMove
  <2>1. worker[w].job \in [Deliveries -> Jobs]
    BY <1>0 DEF WorkerRow
  <2>2. [worker[w].job EXCEPT ![d] = outcome] \in [Deliveries -> Jobs]
    BY <2>1
  <2>3. worker' = [worker EXCEPT ![w] = [worker[w] EXCEPT !.job = [worker[w].job EXCEPT ![d] = outcome]]]
    BY <1>8, Zenon
  <2> QED
    BY <1>7, <1>8, <2>2, <2>3, Zenon
<1>9. ASSUME NEW w \in Workers, NEW d \in Deliveries, CheckDestination(w, d) PROVE WorkersMove
  <2>1. PICK outcome \in Jobs : worker' = [worker EXCEPT ![w].job[d] = outcome]
    <3>1. (CASE destination[DestinationOf(d)] = "WEBHOOK" -> "CHECKED"
             [] destination[DestinationOf(d)] = "CONSOLE" -> "SUCCESS"
             [] OTHER -> "PERMANENT") \in Jobs
      BY DEF Jobs
    <3> QED
      BY <1>9, <3>1, Zenon DEF CheckDestination
  <2>2. UNCHANGED routed /\ worker[w].job[d] # "NONE"
    BY <1>9 DEF CheckDestination
  <2> QED
    BY <1>8, <2>1, <2>2
<1>10. ASSUME NEW w \in Workers, NEW d \in Deliveries, PostWebhook(w, d) PROVE WorkersMove
  <2>1. PICK outcome \in Jobs : worker' = [worker EXCEPT ![w].job[d] = outcome]
    <3>1. {"SUCCESS", "RETRYABLE", "PERMANENT"} \subseteq Jobs
      BY DEF Jobs
    <3> QED
      BY <1>10, <3>1, Zenon DEF PostWebhook
  <2>2. UNCHANGED routed /\ worker[w].job[d] # "NONE"
    BY <1>10 DEF PostWebhook
  <2> QED
    BY <1>8, <2>1, <2>2
<1>11. ASSUME NEW w \in Workers, NEW d \in Deliveries, ReportNotificationDelivery(w, d) PROVE WorkersMove
  <2>1. worker[w].job \in [Deliveries -> Jobs]
    BY <1>0 DEF WorkerRow
  <2>2. PICK job \in [Deliveries -> Jobs] : job = [worker[w].job EXCEPT ![d] = "NONE"]
    BY <2>1 DEF Jobs
  <2>3. \/ worker' = [worker EXCEPT ![w] = IdleWorker]
        \/ worker' = [worker EXCEPT ![w] = [worker[w] EXCEPT !.job = job]]
    BY <1>11, <2>2, Zenon DEF ReportNotificationDelivery
  <2>4. UNCHANGED routed /\ worker[w].job[d] # "NONE"
    BY <1>11 DEF ReportNotificationDelivery
  <2> QED
    BY <1>2, <1>7, <2>3, <2>4
<1>12. ASSUME NEW w \in Workers, ProcessOnceFails(w) \/ WorkerCrash(w) PROVE WorkersMove
  BY <1>2, <1>12 DEF ProcessOnceFails, WorkerCrash
<1>13. CASE UNCHANGED vars
  BY <1>1, <1>13 DEF vars
<1>14. CASE Configure
  BY <1>1, <1>14
  DEF Configure, CreateNotificationDestination, DisableNotificationDestination, UpdateNotificationDestination,
      CreateNotificationRoute, UpdateNotificationRoute, RetryNotificationDelivery
<1>15. ASSUME NEW w \in Workers, WorkerStep(w) PROVE WorkersMove
  BY <1>3, <1>4, <1>5, <1>6, <1>9, <1>10, <1>11, <1>15 DEF WorkerStep
<1>16. CASE TimePasses \/ \E e \in Events : AppendOutbox(e)
  BY <1>1, <1>16 DEF TimePasses, OutboxClaimExpires, DeliveryClaimExpires, RetryDelayPasses, AppendOutbox
<1> QED
  BY <1>12, <1>13, <1>14, <1>15, <1>16 DEF Next

\* A dispatcher that has routed the event it is at: the notification exists.
RoutedHead(w) ==
  worker[w].head => \A e \in Events : Current(w, e) /\ e \in Actionable => e \in routed

\* It has a batch only while it works on the outbox, and goroutines only while it
\* works on deliveries.
OnePhase(w) ==
  /\ worker[w].batch # {} => worker[w].phase = "OUTBOX"
  /\ \A d \in Deliveries : worker[w].job[d] # "NONE" => worker[w].phase = "DELIVERIES"

WorkerInv(w) == RoutedHead(w) /\ OnePhase(w)

\* Each move keeps the dispatcher typed and what it relies on.
LEMMA WorkerKeeps ==
  ASSUME NEW w \in Workers, worker[w] \in WorkerRow, WorkerInv(w), WorkerMove(w), routed \subseteq routed'
  PROVE  worker'[w] \in WorkerRow /\ WorkerInv(w)'
<1>0. IdleWorker \in WorkerRow
  BY DEF IdleWorker, WorkerRow, Jobs
<1>i. /\ IdleWorker.batch = {} /\ ~IdleWorker.head /\ IdleWorker.phase = "IDLE"
      /\ \A d \in Deliveries : IdleWorker.job[d] = "NONE"
  BY DEF IdleWorker
<1>1. CASE worker'[w] = worker[w]
  BY <1>1 DEF WorkerInv, RoutedHead, OnePhase, Current
<1>2. ASSUME ~worker'[w].head PROVE RoutedHead(w)'
  BY <1>2 DEF RoutedHead
<1>3. CASE Ending(w)
  BY <1>0, <1>2, <1>3, <1>i DEF Ending, WorkerInv, OnePhase
<1>4. CASE Batching(w)
  <2>1. PICK b \in SUBSET Events : worker'[w] = [worker[w] EXCEPT !.phase = "OUTBOX", !.batch = b, !.head = FALSE]
    BY <1>4 DEF Batching
  <2>2. worker'[w] \in WorkerRow
    BY <2>1, Zenon DEF WorkerRow
  <2>3. ~worker'[w].head
    BY <2>1, Zenon DEF WorkerRow
  <2>4. worker'[w].phase = "OUTBOX" /\ worker'[w].job = worker[w].job
    BY <2>1, Zenon DEF WorkerRow
  <2>5. OnePhase(w)'
    BY <1>4, <2>4 DEF Batching, WorkerInv, OnePhase
  <2> QED
    BY <1>2, <2>2, <2>3, <2>5 DEF WorkerInv
<1>5. CASE Heading(w)
  <2>1. PICK e \in Events : /\ Current(w, e) /\ (e \in Actionable => e \in routed')
                            /\ worker'[w] = [worker[w] EXCEPT !.head = TRUE]
    BY <1>5 DEF Heading
  <2>2. worker'[w] \in WorkerRow
    BY <2>1, Zenon DEF WorkerRow
  <2>3. worker'[w].batch = worker[w].batch /\ worker'[w].phase = worker[w].phase /\ worker'[w].job = worker[w].job
    BY <2>1, Zenon DEF WorkerRow
  <2>4. ASSUME NEW f \in Events, Current(w, f)', f \in Actionable PROVE f \in routed'
    <3>1. f = e
      BY <2>1, <2>3, <2>4, NotificationAssumption DEF Current, Events
    <3> QED
      BY <2>1, <2>4, <3>1
  <2>5. OnePhase(w)'
    BY <2>3 DEF WorkerInv, OnePhase
  <2> QED
    BY <2>2, <2>4, <2>5 DEF WorkerInv, RoutedHead
<1>6. CASE Advancing(w)
  <2>1. PICK e \in Events : worker'[w] = [worker[w] EXCEPT !.batch = worker[w].batch \ {e}, !.head = FALSE]
    BY <1>6 DEF Advancing
  <2>2. worker[w].batch \ {e} \in SUBSET Events
    BY DEF WorkerRow
  <2>3. worker'[w] \in WorkerRow
    BY <2>1, <2>2, Zenon DEF WorkerRow
  <2>4. ~worker'[w].head
    BY <2>1, Zenon DEF WorkerRow
  <2>5. /\ worker'[w].batch = worker[w].batch \ {e} /\ worker'[w].phase = worker[w].phase
        /\ worker'[w].job = worker[w].job
    BY <2>1, Zenon DEF WorkerRow
  <2>6. OnePhase(w)'
    BY <2>5 DEF WorkerInv, OnePhase
  <2> QED
    BY <1>2, <2>3, <2>4, <2>6 DEF WorkerInv
<1>7. CASE Delivering(w)
  <2>1. PICK job \in [Deliveries -> Jobs] :
          \/ /\ \E d \in Deliveries : worker[w].job[d] # "NONE"
             /\ worker'[w] = [worker[w] EXCEPT !.job = job]
          \/ worker'[w] = [IdleWorker EXCEPT !.phase = "DELIVERIES", !.job = job]
    BY <1>7 DEF Delivering
  <2>2. ASSUME NEW d \in Deliveries, worker[w].job[d] # "NONE", worker'[w] = [worker[w] EXCEPT !.job = job]
        PROVE  worker'[w] \in WorkerRow /\ WorkerInv(w)'
    <3>1. worker'[w] \in WorkerRow
      BY <2>2, Zenon DEF WorkerRow
    <3>2. /\ worker'[w].batch = worker[w].batch /\ worker'[w].phase = worker[w].phase
      BY <2>2, Zenon DEF WorkerRow
    <3>3. worker'[w].head = worker[w].head
      BY <2>2, Zenon DEF WorkerRow
    <3>4. worker[w].phase = "DELIVERIES"
      BY <2>2 DEF WorkerInv, OnePhase
    <3>5. RoutedHead(w)'
      BY <3>2, <3>3, Zenon DEF WorkerInv, RoutedHead, Current
    <3>6. OnePhase(w)'
      BY <3>2, <3>4 DEF WorkerInv, OnePhase
    <3> QED
      BY <3>1, <3>5, <3>6 DEF WorkerInv
  <2>3. CASE worker'[w] = [IdleWorker EXCEPT !.phase = "DELIVERIES", !.job = job]
    <3>1. worker'[w] \in WorkerRow
      BY <1>0, <2>3, Zenon DEF WorkerRow
    <3>2. worker'[w].head = IdleWorker.head
      BY <1>0, <2>3, Zenon DEF WorkerRow
    <3>3. ~worker'[w].head
      BY <1>i, <3>2, Zenon
    <3>4. worker'[w].batch = {} /\ worker'[w].phase = "DELIVERIES"
      BY <1>0, <1>i, <2>3, Zenon DEF WorkerRow
    <3> QED
      BY <1>2, <3>1, <3>3, <3>4 DEF WorkerInv, OnePhase
  <2> QED
    BY <2>1, <2>2, <2>3
<1> QED
  BY <1>1, <1>3, <1>4, <1>5, <1>6, <1>7 DEF WorkerMove

-----------------------------------------------------------------------------
(* The outbox. *)

\* What may happen to event e in one step: published it is only if it has been routed.
EventMove(e) ==
  \/ outbox'[e] = outbox[e]
  \/ outbox'[e] = [outbox[e] EXCEPT !.state = "WAITING"]
  \/ \E w \in Workers : outbox'[e] = [outbox[e] EXCEPT !.by = w, !.claim = "LIVE"]
  \/ /\ outbox'[e] = [state |-> "PUBLISHED", by |-> "NONE", claim |-> "NONE"]
     /\ e \in Actionable => e \in routed
  \/ outbox'[e] = [outbox[e] EXCEPT !.claim = "EXPIRED"]
  \/ outbox'[e] = [outbox[e] EXCEPT !.by = "DEAD"]

OutboxMove == outbox' = [e \in Events |-> outbox'[e]] /\ \A e \in Events : EventMove(e)

\* One event moves, or none does.
LEMMA OneEventMoves ==
  ASSUME TypeOK, NEW x \in Events, NEW row, outbox' = [outbox EXCEPT ![x] = row],
         outbox'[x] = row => EventMove(x)
  PROVE  OutboxMove
<1>1. outbox = [e \in Events |-> outbox[e]]
  BY DEF TypeOK
<1>2. outbox'[x] = row /\ \A e \in Events : e # x => outbox'[e] = outbox[e]
  BY <1>1
<1>3. outbox' = [e \in Events |-> outbox'[e]]
  BY <1>1
<1> QED
  BY <1>2, <1>3 DEF OutboxMove, EventMove

\* Every step moves the outbox in these ways only.
LEMMA OutboxStep == TypeOK /\ (\A w \in Workers : WorkerInv(w)) /\ [Next]_vars => OutboxMove
<1> SUFFICES ASSUME TypeOK, \A w \in Workers : WorkerInv(w), [Next]_vars PROVE OutboxMove
  OBVIOUS
<1>0. outbox = [e \in Events |-> outbox[e]]
  BY DEF TypeOK
<1>1. ASSUME UNCHANGED outbox PROVE OutboxMove
  BY <1>0, <1>1 DEF OutboxMove, EventMove
<1>2. ASSUME NEW e \in Events, AppendOutbox(e) PROVE OutboxMove
  <2>1. outbox' = [outbox EXCEPT ![e] = [outbox[e] EXCEPT !.state = "WAITING"]]
    BY <1>2, Zenon DEF AppendOutbox
  <2> QED
    BY <2>1, OneEventMoves DEF EventMove
<1>3. ASSUME NEW w \in Workers, ClaimOutbox(w) PROVE OutboxMove
  <2>1. outbox' = [e \in Events |-> IF e \in ClaimedBatch THEN [outbox[e] EXCEPT !.by = w, !.claim = "LIVE"]
                                    ELSE outbox[e]]
    BY <1>3, Zenon DEF ClaimOutbox
  <2>2. ASSUME NEW e \in Events PROVE EventMove(e)
    BY <2>1 DEF EventMove
  <2> QED
    BY <2>1, <2>2 DEF OutboxMove
<1>4. ASSUME NEW w \in Workers, NEW e \in Events, MarkOutboxPublished(w, e) PROVE OutboxMove
  <2>1. e \in Actionable => e \in routed
    BY <1>4 DEF MarkOutboxPublished, WorkerInv, RoutedHead
  <2>2. CASE OwnsEvent(w, e)
    <3>1. outbox' = [outbox EXCEPT ![e] = [state |-> "PUBLISHED", by |-> "NONE", claim |-> "NONE"]]
      BY <1>4, <2>2, Zenon DEF MarkOutboxPublished
    <3> QED
      BY <2>1, <3>1, OneEventMoves DEF EventMove
  <2> QED
    BY <1>1, <1>4, <2>2 DEF MarkOutboxPublished
<1>5. ASSUME NEW e \in Events, OutboxClaimExpires(e) PROVE OutboxMove
  <2>1. outbox' = [outbox EXCEPT ![e] = [outbox[e] EXCEPT !.claim = "EXPIRED"]]
    BY <1>5, Zenon DEF OutboxClaimExpires
  <2> QED
    BY <2>1, OneEventMoves DEF EventMove
<1>6. ASSUME NEW w \in Workers, WorkerCrash(w) PROVE OutboxMove
  <2>1. outbox' = [e \in Events |-> IF outbox[e].by = w THEN [outbox[e] EXCEPT !.by = "DEAD"] ELSE outbox[e]]
    BY <1>6, Zenon DEF WorkerCrash
  <2>2. ASSUME NEW e \in Events PROVE EventMove(e)
    BY <2>1 DEF EventMove
  <2> QED
    BY <2>1, <2>2 DEF OutboxMove
<1>7. CASE UNCHANGED vars
  BY <1>1, <1>7 DEF vars
<1>8. CASE Configure
  BY <1>1, <1>8
  DEF Configure, CreateNotificationDestination, DisableNotificationDestination, UpdateNotificationDestination,
      CreateNotificationRoute, UpdateNotificationRoute, RetryNotificationDelivery
<1>9. ASSUME NEW w \in Workers, WorkerStep(w) \/ ProcessOnceFails(w) \/ WorkerCrash(w) PROVE OutboxMove
  BY <1>1, <1>3, <1>4, <1>6, <1>9
  DEF WorkerStep, RouteNotificationEvent, ClaimNotificationDeliveries, CheckDestination, PostWebhook,
      ReportNotificationDelivery, ProcessOnceFails
<1>10. CASE TimePasses
  BY <1>1, <1>5, <1>10 DEF TimePasses, DeliveryClaimExpires, RetryDelayPasses
<1> QED
  BY <1>2, <1>7, <1>8, <1>9, <1>10 DEF Next

\* Each move keeps the event typed, and a published one routed.
LEMMA EventKeeps ==
  ASSUME NEW e \in Events, outbox[e] \in EventRow, EventMove(e), routed \subseteq routed',
         outbox[e].state = "PUBLISHED" /\ e \in Actionable => e \in routed
  PROVE  /\ outbox'[e] \in EventRow
         /\ outbox'[e].state = "PUBLISHED" /\ e \in Actionable => e \in routed'
<1>1. outbox'[e] \in EventRow
  <2>1. ASSUME NEW w \in Workers, outbox'[e] = [outbox[e] EXCEPT !.by = w, !.claim = "LIVE"]
        PROVE  outbox'[e] \in EventRow
    BY <2>1 DEF EventRow, Claims
  <2>2. CASE outbox'[e] = [outbox[e] EXCEPT !.state = "WAITING"] \/ outbox'[e] = outbox[e]
    BY <2>2 DEF EventRow
  <2>3. CASE outbox'[e] = [outbox[e] EXCEPT !.claim = "EXPIRED"]
    BY <2>3 DEF EventRow, Claims
  <2>4. CASE outbox'[e] = [outbox[e] EXCEPT !.by = "DEAD"]
    BY <2>4 DEF EventRow
  <2>5. CASE outbox'[e] = [state |-> "PUBLISHED", by |-> "NONE", claim |-> "NONE"]
    BY <2>5 DEF EventRow, Claims
  <2> QED
    BY <2>1, <2>2, <2>3, <2>4, <2>5 DEF EventMove
<1>2. outbox'[e].state = "PUBLISHED" => outbox[e].state = "PUBLISHED" \/ (e \in Actionable => e \in routed)
  BY DEF EventMove, EventRow
<1> QED
  BY <1>1, <1>2

-----------------------------------------------------------------------------
(* The configuration and the counters. *)

\* Destinations, routes and counters keep their types.
ConfigTyped ==
  /\ routed \subseteq Events
  /\ destination \in [Destinations -> {"NONE", "WEBHOOK", "CONSOLE", "DISABLED"}]
  /\ route \in [Routes -> [enabled : BOOLEAN, destinations : SUBSET Destinations]]
  /\ accepted \in [Deliveries -> Nat]
  /\ changes \in 0..MaxChanges /\ faults \in 0..MaxFaults

\* Whatever operators and dispatchers do to them.
LEMMA ConfigStep == ConfigTyped /\ [Next]_vars => ConfigTyped'
<1> SUFFICES ASSUME ConfigTyped, [Next]_vars PROVE ConfigTyped'
  OBVIOUS
<1> USE NotificationAssumption DEF ConfigTyped
<1>1. ASSUME UNCHANGED <<routed, destination, route, accepted>>,
             changes' \in 0..MaxChanges, faults' \in 0..MaxFaults
      PROVE  ConfigTyped'
  BY <1>1
<1>2. (Change => changes' \in 0..MaxChanges) /\ (Fault => faults' \in 0..MaxFaults)
  BY DEF Change, Fault
<1>3. ASSUME NEW x \in Destinations,
             \/ CreateNotificationDestination(x) \/ DisableNotificationDestination(x)
             \/ \E kind \in {"WEBHOOK", "CONSOLE"} : UpdateNotificationDestination(x, kind)
      PROVE  ConfigTyped'
  BY <1>2, <1>3 DEF CreateNotificationDestination, DisableNotificationDestination, UpdateNotificationDestination
<1>4. ASSUME NEW r \in Routes, NEW xs \in SUBSET Destinations, NEW enabled \in BOOLEAN,
             CreateNotificationRoute(r, xs) \/ UpdateNotificationRoute(r, xs, enabled)
      PROVE  ConfigTyped'
  <2>1. PICK on \in BOOLEAN : route' = [route EXCEPT ![r] = [enabled |-> on, destinations |-> xs]]
    BY <1>4, Zenon DEF CreateNotificationRoute, UpdateNotificationRoute
  <2>2. [enabled |-> on, destinations |-> xs] \in [enabled : BOOLEAN, destinations : SUBSET Destinations]
    BY Zenon
  <2>3. route' \in [Routes -> [enabled : BOOLEAN, destinations : SUBSET Destinations]]
    BY <2>1, <2>2, Zenon
  <2> QED
    BY <1>2, <1>4, <2>3 DEF CreateNotificationRoute, UpdateNotificationRoute
<1>5. ASSUME NEW d \in Deliveries, RetryNotificationDelivery(d) PROVE ConfigTyped'
  BY <1>2, <1>5 DEF RetryNotificationDelivery
<1>6. ASSUME NEW w \in Workers, WorkerStep(w) PROVE ConfigTyped'
  <2>1. ASSUME NEW e \in Events, RouteNotificationEvent(w, e) PROVE ConfigTyped'
    BY <2>1 DEF RouteNotificationEvent
  <2>2. ASSUME NEW d \in Deliveries, PostWebhook(w, d) PROVE ConfigTyped'
    <3>1. accepted' \in [Deliveries -> Nat]
      BY <2>2 DEF PostWebhook
    <3> QED
      BY <1>2, <2>2, <3>1 DEF PostWebhook
  <2>3. CASE ClaimNotificationDeliveries(w)
    BY <1>1, <1>2, <2>3 DEF ClaimNotificationDeliveries
  <2> QED
    BY <1>1, <1>6, <2>1, <2>2, <2>3
    DEF WorkerStep, ClaimOutbox, MarkOutboxPublished, CheckDestination, ReportNotificationDelivery
<1>7. ASSUME NEW w \in Workers, ProcessOnceFails(w) \/ WorkerCrash(w) PROVE ConfigTyped'
  BY <1>1, <1>2, <1>7 DEF ProcessOnceFails, WorkerCrash
<1>8. CASE TimePasses \/ (\E e \in Events : AppendOutbox(e)) \/ UNCHANGED vars
  BY <1>1, <1>2, <1>8
  DEF TimePasses, OutboxClaimExpires, DeliveryClaimExpires, RetryDelayPasses, AppendOutbox, vars
<1>9. CASE Configure
  <2>1. ASSUME NEW r \in Routes, NEW xs \in SUBSET Destinations, CreateNotificationRoute(r, xs) PROVE ConfigTyped'
    BY <1>4, <2>1
  <2>2. ASSUME NEW x \in Destinations, NEW kind \in {"WEBHOOK", "CONSOLE"}, UpdateNotificationDestination(x, kind)
        PROVE  ConfigTyped'
    BY <1>3, <2>2
  <2>3. ASSUME NEW r \in Routes, NEW xs \in SUBSET Destinations, NEW enabled \in BOOLEAN,
               UpdateNotificationRoute(r, xs, enabled)
        PROVE  ConfigTyped'
    BY <1>4, <2>3
  <2>4. ASSUME NEW x \in Destinations, CreateNotificationDestination(x) \/ DisableNotificationDestination(x)
        PROVE  ConfigTyped'
    BY <1>3, <2>4
  <2> HIDE DEF ConfigTyped
  <2> QED
    BY <1>5, <1>9, <2>1, <2>2, <2>3, <2>4, Zenon DEF Configure
<1> QED
  BY <1>6, <1>7, <1>8, <1>9 DEF Next

-----------------------------------------------------------------------------
(* The inductive invariant and the theorems. *)

NotificationInv ==
  /\ TypeOK
  /\ PublishedIsRouted
  /\ \A d \in Deliveries : DeliveryInv(d) /\ FreshAttempt(d)
  /\ \A w \in Workers : WorkerInv(w)

\* TypeOK, row by row.
LEMMA TypeOKByRow ==
  TypeOK <=> /\ ConfigTyped
             /\ outbox \in [Events -> EventRow] /\ delivery \in [Deliveries -> DeliveryRow]
             /\ worker \in [Workers -> WorkerRow]
BY Zenon DEF TypeOK, ConfigTyped, EventRow, DeliveryRow, WorkerRow

\* Nothing is written, configured, claimed or delivered at first.
LEMMA NotificationStarts == Init => NotificationInv
<1> SUFFICES ASSUME Init PROVE NotificationInv
  OBVIOUS
<1>1. NoEvent \in EventRow /\ NoDelivery \in DeliveryRow /\ IdleWorker \in WorkerRow
  BY DEF NoEvent, EventRow, NoDelivery, DeliveryRow, IdleWorker, WorkerRow, Claims, Jobs
<1>2. ConfigTyped
  BY NotificationAssumption DEF Init, ConfigTyped
<1>3. TypeOK
  BY <1>1, <1>2, TypeOKByRow DEF Init
<1>4. PublishedIsRouted
  BY DEF Init, PublishedIsRouted, NoEvent
<1>5. ASSUME NEW d \in Deliveries PROVE DeliveryInv(d) /\ FreshAttempt(d)
  BY DEF Init, DeliveryInv, FreshAttempt, NoDelivery
<1>6. ASSUME NEW w \in Workers PROVE WorkerInv(w)
  BY DEF Init, WorkerInv, RoutedHead, OnePhase, IdleWorker
<1> QED
  BY <1>3, <1>4, <1>5, <1>6 DEF NotificationInv

\* Every step preserves the invariant and does what RoutedOnce allows.
LEMMA NotificationStep ==
  NotificationInv /\ [Next]_vars => NotificationInv' /\ \A d \in Deliveries : KeptOnce(d)
<1> SUFFICES ASSUME NotificationInv, [Next]_vars
             PROVE  NotificationInv' /\ \A d \in Deliveries : KeptOnce(d)
  OBVIOUS
<1>0. /\ TypeOK /\ ConfigTyped
      /\ outbox \in [Events -> EventRow] /\ delivery \in [Deliveries -> DeliveryRow]
      /\ worker \in [Workers -> WorkerRow]
  BY TypeOKByRow DEF NotificationInv
<1>1. DeliveriesMove /\ WorkersMove /\ OutboxMove /\ routed \subseteq routed'
  BY <1>0, DeliveriesStep, WorkersStep, OutboxStep DEF NotificationInv, WorkersMove
<1>2. ASSUME NEW d \in Deliveries 
      PROVE  delivery'[d] \in DeliveryRow /\ DeliveryInv(d)' /\ FreshAttempt(d)' /\ KeptOnce(d)
  BY <1>0, <1>1, MoveKeeps, AttemptKeeps DEF NotificationInv, DeliveriesMove
<1>3. ASSUME NEW w \in Workers PROVE worker'[w] \in WorkerRow /\ WorkerInv(w)'
  BY <1>0, <1>1, WorkerKeeps DEF NotificationInv, WorkersMove
<1>4. ASSUME NEW e \in Events
      PROVE  /\ outbox'[e] \in EventRow
             /\ outbox'[e].state = "PUBLISHED" /\ e \in Actionable => e \in routed'
  BY <1>0, <1>1, EventKeeps DEF NotificationInv, OutboxMove, PublishedIsRouted
<1>5. /\ outbox' \in [Events -> EventRow] /\ delivery' \in [Deliveries -> DeliveryRow]
      /\ worker' \in [Workers -> WorkerRow]
  BY <1>1, <1>2, <1>3, <1>4 DEF OutboxMove, DeliveriesMove, WorkersMove
<1>6. ConfigTyped'
  BY <1>0, ConfigStep
<1>7. TypeOK'
  BY <1>5, <1>6, Zenon DEF TypeOK, ConfigTyped, EventRow, DeliveryRow, WorkerRow
<1> QED
  BY <1>2, <1>3, <1>4, <1>7 DEF NotificationInv, PublishedIsRouted

\* The inductive invariant of the outbox, the deliveries and the dispatchers.
THEOREM NotificationInvariant == Spec => []NotificationInv
BY NotificationStarts, NotificationStep, PTL DEF Spec

\* Outbox, configuration, deliveries and dispatchers keep their types.
THEOREM NotificationTypes == Spec => []TypeOK
BY NotificationInvariant, PTL DEF NotificationInv

\* processOutbox: no actionable event is published without its notification, for
\* every number of dispatchers, crashes and lost claims.
THEOREM PublishingFollowsRouting == Spec => []PublishedIsRouted
BY NotificationInvariant, PTL DEF NotificationInv

\* RouteNotificationEvent and ReportNotificationDelivery: a delivery is made with
\* its event or never, and one that succeeded is never touched again.
THEOREM RoutingIsOnce == Spec => RoutedOnce
<1>1. NotificationInv /\ [Next]_vars =>
        [\A d \in Deliveries :
           /\ delivery[d].state = "NONE" /\ delivery'[d].state # "NONE" => d[1] \notin routed
           /\ delivery[d].state = "SUCCEEDED" => delivery'[d] = delivery[d]]_vars
  BY NotificationStep DEF KeptOnce
<1> QED
  BY <1>1, NotificationInvariant, PTL DEF Spec, RoutedOnce

-----------------------------------------------------------------------------
(* Without faults an endpoint accepts a delivery once. *)

\* Whoever has a goroutine on d holds its claim.
Held(d) ==
  \A w \in Workers : worker[w].job[d] # "NONE" =>
    delivery[d].state = "DELIVERING" /\ delivery[d].by = w /\ delivery[d].claim = "LIVE"

\* What was accepted has been recorded as delivered, or is about to be.
Exempt(d) == UniqueAttempts /\ delivery[d].requeued
PostedOnce(d) ==
  \/ Exempt(d) \/ accepted[d] = 0
  \/ accepted[d] = 1 /\ (delivery[d].state = "SUCCEEDED" \/ \E w \in Workers : worker[w].job[d] = "SUCCESS")

FlowInv == NotificationInv /\ (faults = 0 => \A d \in Deliveries : Held(d) /\ PostedOnce(d))

\* What a step that is no fault may do to delivery d, its goroutines and its endpoint.
JobSet(w, d, j) == /\ worker'[w].job[d] = j
                   /\ \A v \in Workers : v # w => worker'[v].job[d] = worker[v].job[d]
JobsKept(d)     == \A v \in Workers : worker'[v].job[d] = worker[v].job[d]

Resting(d)   == delivery'[d] = delivery[d] /\ accepted'[d] = accepted[d] /\ JobsKept(d)
Changing(d)  == /\ Routing(d) \/ Requeuing(d) \/ Maturing(d) \/ (Expiring(d) /\ IdleDelivery(d))
                /\ accepted'[d] = accepted[d] /\ JobsKept(d)
Claiming(w, d) == /\ Claimable(d) /\ JobSet(w, d, "CLAIMED") /\ accepted'[d] = accepted[d]
                  /\ delivery'[d] = [delivery[d] EXCEPT !.state = "DELIVERING", !.attempt = @ + 1, !.by = w, !.claim = "LIVE"]
Checking(w, d) == /\ worker[w].job[d] = "CLAIMED" /\ delivery'[d] = delivery[d] /\ accepted'[d] = accepted[d]
                  /\ \E j \in {"CHECKED", "SUCCESS", "PERMANENT"} : JobSet(w, d, j)
Posting(w, d)  == /\ worker[w].job[d] = "CHECKED" /\ delivery'[d] = delivery[d]
                  /\ \/ accepted'[d] = accepted[d] + 1 /\ JobSet(w, d, "SUCCESS")
                     \/ accepted'[d] = accepted[d] /\ \E j \in {"RETRYABLE", "PERMANENT"} : JobSet(w, d, j)
Answering(w, d) == /\ worker[w].job[d] \in {"SUCCESS", "RETRYABLE", "PERMANENT"}
                   /\ accepted'[d] = accepted[d] /\ JobSet(w, d, "NONE")
                   /\ delivery'[d] = IF OwnsDelivery(w, d) /\ AttemptIsNew(d)
                                     THEN Reported(delivery[d], worker[w].job[d]) ELSE delivery[d]

QuietMove(d) ==
  \/ Resting(d) \/ Changing(d)
  \/ \E w \in Workers : Claiming(w, d) \/ Checking(w, d) \/ Posting(w, d) \/ Answering(w, d)

\* A dispatcher outside its deliveries has no goroutine to lose.
LEMMA NoGoroutine ==
  ASSUME TypeOK, NEW w \in Workers, OnePhase(w), worker[w].phase # "DELIVERIES" \/ worker[w].batch # {}
  PROVE  \A d \in Deliveries : worker[w].job[d] = "NONE"
BY DEF OnePhase

\* The dispatcher that moves, and the others.
LEMMA OneWorkerRow ==
  ASSUME TypeOK, NEW w \in Workers, NEW row, worker' = [worker EXCEPT ![w] = row]
  PROVE  worker'[w] = row /\ \A v \in Workers : v # w => worker'[v] = worker[v]
BY DEF TypeOK

\* Every step without a fault is such a move.
LEMMA QuietStep ==
  ASSUME NotificationInv, faults = 0, [Next]_vars, faults' = 0, NEW d \in Deliveries
  PROVE  QuietMove(d)
<1>0. /\ TypeOK /\ DeliveryInv(d) /\ \A w \in Workers : OnePhase(w)
      /\ \A w \in Workers : worker[w] \in WorkerRow
  BY DEF NotificationInv, WorkerInv, TypeOK, WorkerRow
<1>f. ~Fault
  BY DEF Fault
<1>i. \A x \in Deliveries : IdleWorker.job[x] = "NONE"
  BY DEF IdleWorker
<1>1. ASSUME UNCHANGED <<delivery, worker, accepted>> PROVE QuietMove(d)
  BY <1>1 DEF QuietMove, Resting, JobsKept
<1>2. ASSUME NEW w \in Workers, NEW row, worker' = [worker EXCEPT ![w] = row],
             row.job[d] = worker[w].job[d], UNCHANGED <<delivery, accepted>>
      PROVE  QuietMove(d)
  <2>1. JobsKept(d)
    BY <1>0, <1>2, OneWorkerRow DEF JobsKept
  <2> QED
    BY <1>2, <2>1 DEF QuietMove, Resting
<1>3. ASSUME NEW x \in Deliveries, UNCHANGED <<worker, accepted>>,
             NEW row, delivery' = [delivery EXCEPT ![x] = row],
             delivery'[x] = row => Routing(x) \/ Requeuing(x) \/ Maturing(x) \/ (Expiring(x) /\ IdleDelivery(x))
      PROVE  QuietMove(d)
  <2>1. delivery'[x] = row /\ (d # x => delivery'[d] = delivery[d])
    BY <1>0, <1>3 DEF TypeOK
  <2>2. JobsKept(d) /\ accepted'[d] = accepted[d]
    BY <1>3 DEF JobsKept
  <2> QED
    BY <1>3, <2>1, <2>2 DEF QuietMove, Resting, Changing
<1>4. CASE Configure
  <2>1. ASSUME NEW x \in Deliveries, RetryNotificationDelivery(x) PROVE QuietMove(d)
    <3>1. /\ delivery' = [delivery EXCEPT ![x] =
               [delivery[x] EXCEPT !.state = "PENDING", !.attempt = 0, !.due = TRUE, !.by = "NONE",
                                   !.claim = "NONE", !.requeued = TRUE]]
          /\ delivery[x].state = "DEAD_LETTER" /\ UNCHANGED <<worker, accepted>>
      BY <2>1, Zenon DEF RetryNotificationDelivery
    <3> QED
      BY <1>3, <3>1, Zenon DEF Requeuing
  <2> QED
    BY <1>1, <1>4, <2>1
    DEF Configure, CreateNotificationDestination, DisableNotificationDestination, UpdateNotificationDestination,
        CreateNotificationRoute, UpdateNotificationRoute
<1>5. CASE TimePasses \/ (\E e \in Events : AppendOutbox(e)) \/ UNCHANGED vars
  <2>1. ASSUME NEW x \in Deliveries, DeliveryClaimExpires(x) PROVE QuietMove(d)
    <3>1. /\ delivery' = [delivery EXCEPT ![x] = [delivery[x] EXCEPT !.claim = "EXPIRED"]]
          /\ delivery[x].claim = "LIVE" /\ IdleDelivery(x) /\ UNCHANGED <<worker, accepted>>
      BY <1>f, <2>1, Zenon DEF DeliveryClaimExpires
    <3> QED
      BY <1>3, <3>1, Zenon DEF Expiring
  <2>2. ASSUME NEW x \in Deliveries, RetryDelayPasses(x) PROVE QuietMove(d)
    <3>1. /\ delivery' = [delivery EXCEPT ![x] = [delivery[x] EXCEPT !.due = TRUE]]
          /\ ~delivery[x].due /\ UNCHANGED <<worker, accepted>>
      BY <2>2, Zenon DEF RetryDelayPasses
    <3> QED
      BY <1>3, <3>1, Zenon DEF Maturing
  <2> QED
    BY <1>1, <1>5, <2>1, <2>2 DEF TimePasses, OutboxClaimExpires, AppendOutbox, vars
<1>6. ASSUME NEW w \in Workers, ProcessOnceFails(w) \/ WorkerCrash(w) PROVE FALSE
  BY <1>f, <1>6 DEF ProcessOnceFails, WorkerCrash
<1>7. ASSUME NEW w \in Workers, ClaimOutbox(w) PROVE QuietMove(d)
  <2>1. PICK row : /\ worker' = [worker EXCEPT ![w] = row]
                   /\ row = [worker[w] EXCEPT !.phase = "OUTBOX", !.batch = ClaimedBatch, !.head = FALSE]
    BY <1>7, Zenon DEF ClaimOutbox
  <2>2. row.job = worker[w].job
    BY <1>0, <2>1, Zenon DEF WorkerRow
  <2> QED
    BY <1>2, <1>7, <2>1, <2>2 DEF ClaimOutbox
<1>8. ASSUME NEW w \in Workers, NEW e \in Events, RouteNotificationEvent(w, e) PROVE QuietMove(d)
  <2>1. PICK row : worker' = [worker EXCEPT ![w] = row] /\ row = [worker[w] EXCEPT !.head = TRUE]
    BY <1>8, Zenon DEF RouteNotificationEvent
  <2>2. row.job = worker[w].job
    BY <1>0, <2>1, Zenon DEF WorkerRow
  <2>3. JobsKept(d)
    BY <1>0, <2>1, <2>2, OneWorkerRow DEF JobsKept
  <2>4. delivery'[d] = delivery[d] \/ Routing(d)
    <3>1. CASE e \in Actionable
      <4>1. routed' = routed \cup {e} /\ delivery' = RoutedDeliveries(e)
        BY <1>8, <3>1 DEF RouteNotificationEvent
      <4> QED
        BY <4>1 DEF RoutedDeliveries, Routing
    <3> QED
      BY <1>8, <3>1 DEF RouteNotificationEvent
  <2>5. accepted' = accepted
    BY <1>8 DEF RouteNotificationEvent
  <2> QED
    BY <2>3, <2>4, <2>5 DEF QuietMove, Resting, Changing
<1>9. ASSUME NEW w \in Workers, NEW e \in Events, MarkOutboxPublished(w, e) PROVE QuietMove(d)
  <2>0. UNCHANGED <<delivery, accepted>> /\ worker[w].batch # {}
    BY <1>9 DEF MarkOutboxPublished, Current
  <2>1. PICK row : /\ worker' = [worker EXCEPT ![w] = row]
                   /\ \/ row = [worker[w] EXCEPT !.batch = worker[w].batch \ {e}, !.head = FALSE]
                      \/ row = IdleWorker
    BY <1>9, Zenon DEF MarkOutboxPublished
  <2>2. row.job = worker[w].job \/ row = IdleWorker
    BY <1>0, <2>1, Zenon DEF WorkerRow
  <2>3. row.job[d] = worker[w].job[d]
    BY <1>0, <1>i, <2>0, <2>2, NoGoroutine
  <2> QED
    BY <1>2, <2>0, <2>1, <2>3
<1>10. ASSUME NEW w \in Workers, ClaimNotificationDeliveries(w) PROVE QuietMove(d)
  <2> DEFINE mine == {x \in Deliveries : Claimable(x)}
  <2>0. accepted' = accepted /\ worker[w].job[d] = "NONE"
    BY <1>0, <1>10, NoGoroutine DEF ClaimNotificationDeliveries
  <2>1. delivery' = [x \in Deliveries |->
          IF x \in mine THEN [delivery[x] EXCEPT !.state = "DELIVERING", !.attempt = @ + 1, !.by = w, !.claim = "LIVE"]
          ELSE delivery[x]]
    BY <1>f, <1>10, Zenon DEF ClaimNotificationDeliveries
  <2>2. PICK row : /\ worker' = [worker EXCEPT ![w] = row]
                   /\ row = IF mine = {} THEN IdleWorker
                            ELSE [IdleWorker EXCEPT !.phase = "DELIVERIES",
                                    !.job = [x \in Deliveries |-> IF x \in mine THEN "CLAIMED" ELSE "NONE"]]
    BY <1>10, Zenon DEF ClaimNotificationDeliveries
  <2>3. row.job[d] = IF d \in mine THEN "CLAIMED" ELSE "NONE"
    <3>1. CASE mine = {}
      BY <1>i, <2>2, <3>1
    <3>2. CASE mine # {}
      <4>1. row = [IdleWorker EXCEPT !.phase = "DELIVERIES",
                                     !.job = [x \in Deliveries |-> IF x \in mine THEN "CLAIMED" ELSE "NONE"]]
        BY <2>2, <3>2, Zenon
      <4>2. row.job = [x \in Deliveries |-> IF x \in mine THEN "CLAIMED" ELSE "NONE"]
        BY <4>1, Zenon DEF IdleWorker
      <4> QED
        BY <4>2
    <3> QED
      BY <3>1, <3>2
  <2>4. worker'[w] = row /\ \A v \in Workers : v # w => worker'[v] = worker[v]
    BY <1>0, <2>2, OneWorkerRow
  <2>5. CASE d \in mine
    <3>1. delivery'[d] = [delivery[d] EXCEPT !.state = "DELIVERING", !.attempt = @ + 1, !.by = w, !.claim = "LIVE"]
      BY <2>1, <2>5, Zenon
    <3>2. JobSet(w, d, "CLAIMED") /\ Claimable(d)
      BY <2>3, <2>4, <2>5 DEF JobSet
    <3> QED
      BY <2>0, <3>1, <3>2, Zenon DEF QuietMove, Claiming
  <2>6. CASE d \notin mine
    <3>1. delivery'[d] = delivery[d]
      BY <2>1, <2>6, Zenon
    <3>2. JobsKept(d)
      BY <2>0, <2>3, <2>4, <2>6 DEF JobsKept
    <3> QED
      BY <2>0, <3>1, <3>2 DEF QuietMove, Resting
  <2> QED
    BY <2>5, <2>6
<1>11. ASSUME NEW w \in Workers, NEW x \in Deliveries, NEW j, worker' = [worker EXCEPT ![w].job[x] = j]
       PROVE  JobSet(w, x, j) /\ (d # x => JobsKept(d))
  <2>1. PICK row : worker' = [worker EXCEPT ![w] = row] /\ row = [worker[w] EXCEPT !.job = [worker[w].job EXCEPT ![x] = j]]
    BY <1>11, Zenon
  <2>2. row.job = [worker[w].job EXCEPT ![x] = j]
    BY <1>0, <2>1, Zenon DEF WorkerRow
  <2>3. worker[w].job \in [Deliveries -> Jobs]
    BY <1>0 DEF WorkerRow
  <2>4. row.job[x] = j /\ (d # x => row.job[d] = worker[w].job[d])
    BY <2>2, <2>3
  <2>5. worker'[w] = row /\ \A v \in Workers : v # w => worker'[v] = worker[v]
    BY <1>0, <2>1, OneWorkerRow
  <2> QED
    BY <2>4, <2>5 DEF JobSet, JobsKept
<1>12. ASSUME NEW w \in Workers, NEW x \in Deliveries, CheckDestination(w, x) PROVE QuietMove(d)
  <2>1. PICK j \in {"CHECKED", "SUCCESS", "PERMANENT"} : worker' = [worker EXCEPT ![w].job[x] = j]
    <3>1. (CASE destination[DestinationOf(x)] = "WEBHOOK" -> "CHECKED"
             [] destination[DestinationOf(x)] = "CONSOLE" -> "SUCCESS"
             [] OTHER -> "PERMANENT") \in {"CHECKED", "SUCCESS", "PERMANENT"}
      OBVIOUS
    <3> QED
      BY <1>12, <3>1, Zenon DEF CheckDestination
  <2>2. UNCHANGED <<delivery, accepted>> /\ worker[w].job[x] = "CLAIMED"
    BY <1>12 DEF CheckDestination
  <2> QED
    BY <1>11, <2>1, <2>2 DEF QuietMove, Resting, Checking
<1>13. ASSUME NEW w \in Workers, NEW x \in Deliveries, PostWebhook(w, x) PROVE QuietMove(d)
  <2>1. UNCHANGED delivery /\ worker[w].job[x] = "CHECKED"
    BY <1>13 DEF PostWebhook
  <2>2. \/ accepted' = [accepted EXCEPT ![x] = @ + 1] /\ worker' = [worker EXCEPT ![w].job[x] = "SUCCESS"]
        \/ accepted' = accepted /\ \E j \in {"RETRYABLE", "PERMANENT"} : worker' = [worker EXCEPT ![w].job[x] = j]
    BY <1>f, <1>13, Zenon DEF PostWebhook
  <2>3. CASE accepted' = [accepted EXCEPT ![x] = @ + 1] /\ worker' = [worker EXCEPT ![w].job[x] = "SUCCESS"]
    <3>1. accepted'[x] = accepted[x] + 1 /\ (d # x => accepted'[d] = accepted[d])
      BY <1>0, <2>3 DEF TypeOK
    <3> QED
      BY <1>11, <2>1, <2>3, <3>1 DEF QuietMove, Resting, Posting
  <2>4. ASSUME NEW j \in {"RETRYABLE", "PERMANENT"}, accepted' = accepted, worker' = [worker EXCEPT ![w].job[x] = j]
        PROVE  QuietMove(d)
    BY <1>11, <2>1, <2>4 DEF QuietMove, Resting, Posting
  <2> QED
    BY <2>2, <2>3, <2>4
<1>14. ASSUME NEW w \in Workers, NEW x \in Deliveries, ReportNotificationDelivery(w, x) PROVE QuietMove(d)
  <2>1. PICK job : job = [worker[w].job EXCEPT ![x] = "NONE"]
    OBVIOUS
  <2>2. job[x] = "NONE" /\ (d # x => job[d] = worker[w].job[d])
    BY <1>0, <2>1 DEF WorkerRow
  <2>3. PICK row : /\ worker' = [worker EXCEPT ![w] = row]
                   /\ row = IF \A y \in Deliveries : job[y] = "NONE" THEN IdleWorker ELSE [worker[w] EXCEPT !.job = job]
    BY <1>14, <2>1, Zenon DEF ReportNotificationDelivery
  <2>4. row.job[x] = job[x] /\ row.job[d] = job[d]
    <3>1. CASE \A y \in Deliveries : job[y] = "NONE"
      BY <1>i, <2>3, <3>1
    <3>2. CASE ~\A y \in Deliveries : job[y] = "NONE"
      <4>1. row.job = job
        BY <1>0, <2>3, <3>2, Zenon DEF WorkerRow
      <4> QED
        BY <4>1
    <3> QED
      BY <3>1, <3>2
  <2>5. worker'[w] = row /\ \A v \in Workers : v # w => worker'[v] = worker[v]
    BY <1>0, <2>3, OneWorkerRow
  <2>6. JobSet(w, x, "NONE") /\ (d # x => JobsKept(d))
    BY <2>2, <2>4, <2>5 DEF JobSet, JobsKept
  <2>7. accepted' = accepted /\ worker[w].job[x] \in {"SUCCESS", "RETRYABLE", "PERMANENT"}
    BY <1>14 DEF ReportNotificationDelivery
  <2>8. delivery' = IF OwnsDelivery(w, x) /\ AttemptIsNew(x)
                    THEN [delivery EXCEPT ![x] = Reported(delivery[x], worker[w].job[x])] ELSE delivery
    BY <1>14, Zenon DEF ReportNotificationDelivery
  <2>9. /\ delivery'[x] = IF OwnsDelivery(w, x) /\ AttemptIsNew(x) THEN Reported(delivery[x], worker[w].job[x]) ELSE delivery[x]
        /\ d # x => delivery'[d] = delivery[d]
    BY <1>0, <2>8 DEF TypeOK
  <2> QED
    BY <2>6, <2>7, <2>9 DEF QuietMove, Resting, Answering
<1>15. ASSUME NEW w \in Workers, WorkerStep(w) PROVE QuietMove(d)
  BY <1>7, <1>8, <1>9, <1>10, <1>12, <1>13, <1>14, <1>15 DEF WorkerStep
<1> QED
  BY <1>4, <1>5, <1>6, <1>15 DEF Next

\* Each of them leaves the goroutines with their claims, and what was accepted
\* recorded or about to be.
LEMMA QuietKeeps ==
  ASSUME NEW d \in Deliveries, delivery[d] \in DeliveryRow, delivery'[d] \in DeliveryRow,
         DeliveryInv(d), FreshAttempt(d), accepted[d] \in Nat, Held(d), PostedOnce(d), QuietMove(d)
  PROVE  Held(d)' /\ PostedOnce(d)'
<1>1. ASSUME delivery'[d].state = delivery[d].state, delivery'[d].by = delivery[d].by,
             delivery'[d].claim = delivery[d].claim, delivery'[d].requeued = delivery[d].requeued,
             accepted'[d] = accepted[d], JobsKept(d)
      PROVE  Held(d)' /\ PostedOnce(d)'
  BY <1>1, Zenon DEF Held, PostedOnce, Exempt, JobsKept
<1>2. ASSUME \A w \in Workers : worker[w].job[d] = "NONE", JobsKept(d), delivery[d].state # "SUCCEEDED",
             accepted'[d] = accepted[d], delivery[d].requeued => delivery'[d].requeued
      PROVE  Held(d)' /\ PostedOnce(d)'
  <2>1. \A w \in Workers : worker'[w].job[d] = "NONE"
    BY <1>2 DEF JobsKept
  <2>2. Exempt(d) \/ accepted[d] = 0
    <3>1. ~\E w \in Workers : worker[w].job[d] = "SUCCESS"
      BY <1>2
    <3> QED
      BY <1>2, <3>1 DEF PostedOnce
  <2>3. Held(d)'
    BY <2>1 DEF Held
  <2>4. PostedOnce(d)'
    BY <1>2, <2>2, Zenon DEF PostedOnce, Exempt
  <2> QED
    BY <2>3, <2>4
<1>3. CASE Resting(d)
  BY <1>1, <1>3, Zenon DEF Resting
<1>4. CASE Changing(d)
  <2>1. JobsKept(d) /\ accepted'[d] = accepted[d]
    BY <1>4 DEF Changing
  <2>2. CASE Routing(d)
    <3>1. delivery[d].state = "NONE"
      BY <2>2 DEF Routing, DeliveryInv
    <3>2. \A w \in Workers : worker[w].job[d] = "NONE"
      BY <3>1 DEF Held
    <3>3. accepted[d] = 0
      BY <3>1, <3>2 DEF PostedOnce, Exempt, FreshAttempt
    <3>4. accepted[d] = 0 => Held(d)' /\ PostedOnce(d)'
      BY <2>1, <3>2 DEF Held, PostedOnce, JobsKept
    <3> QED
      BY <3>3, <3>4
  <2>3. CASE Requeuing(d)
    <3>1. delivery[d].state = "DEAD_LETTER"
      BY <2>3 DEF Requeuing
    <3>2. delivery'[d].requeued
      BY <2>3, Zenon DEF Requeuing, DeliveryRow
    <3>3. \A w \in Workers : worker[w].job[d] = "NONE"
      BY <3>1 DEF Held
    <3> QED
      BY <1>2, <2>1, <3>1, <3>2, <3>3
  <2>4. CASE Maturing(d)
    <3>1. /\ delivery'[d].state = delivery[d].state /\ delivery'[d].by = delivery[d].by
          /\ delivery'[d].claim = delivery[d].claim
      BY <2>4, Zenon DEF Maturing, DeliveryRow
    <3>2. delivery'[d].requeued = delivery[d].requeued
      BY <2>4, Zenon DEF Maturing, DeliveryRow
    <3> QED
      BY <1>1, <2>1, <3>1, <3>2, Zenon
  <2>5. CASE Expiring(d) /\ IdleDelivery(d)
    <3>1. delivery'[d].requeued = delivery[d].requeued
      BY <2>5, Zenon DEF Expiring, DeliveryRow
    <3>2. \A w \in Workers : worker[w].job[d] = "NONE"
      BY <2>5 DEF IdleDelivery, Held
    <3>3. delivery[d].state # "SUCCEEDED"
      BY <2>5 DEF Expiring, DeliveryInv
    <3> QED
      BY <1>2, <2>1, <3>1, <3>2, <3>3
  <2> QED
    BY <1>4, <2>2, <2>3, <2>4, <2>5 DEF Changing
<1>5. ASSUME NEW w \in Workers, Claiming(w, d) PROVE Held(d)' /\ PostedOnce(d)'
  <2>1. /\ delivery'[d].state = "DELIVERING" /\ delivery'[d].by = w /\ delivery'[d].claim = "LIVE"
    BY <1>5, Zenon DEF Claiming, DeliveryRow
  <2>2. delivery'[d].requeued = delivery[d].requeued
    BY <1>5, Zenon DEF Claiming, DeliveryRow
  <2>3. delivery[d].claim # "LIVE" /\ delivery[d].state # "SUCCEEDED"
    BY <1>5 DEF Claiming, Claimable, OpenStates
  <2>4. \A v \in Workers : worker[v].job[d] = "NONE"
    BY <2>3 DEF Held
  <2>5. Exempt(d) \/ accepted[d] = 0
    BY <2>3, <2>4 DEF PostedOnce
  <2>6. \A v \in Workers : worker'[v].job[d] # "NONE" => v = w
    BY <1>5, <2>4 DEF Claiming, JobSet
  <2>7. Held(d)'
    BY <2>1, <2>6, Zenon DEF Held
  <2>8. accepted'[d] = accepted[d]
    BY <1>5 DEF Claiming
  <2>9. PostedOnce(d)'
    BY <2>2, <2>5, <2>8, Zenon DEF PostedOnce, Exempt
  <2> QED
    BY <2>7, <2>9
\* What is known while w has a goroutine on d.
<1>6. ASSUME NEW w \in Workers, worker[w].job[d] # "NONE"
      PROVE  /\ \A v \in Workers : v # w => worker[v].job[d] = "NONE"
             /\ delivery[d].state = "DELIVERING" /\ delivery[d].by = w /\ delivery[d].claim = "LIVE"
             /\ worker[w].job[d] # "SUCCESS" => Exempt(d) \/ accepted[d] = 0
  <2>1. \A v \in Workers : v # w => worker[v].job[d] = "NONE"
    BY <1>6 DEF Held
  <2>2. delivery[d].state = "DELIVERING" /\ delivery[d].by = w /\ delivery[d].claim = "LIVE"
    BY <1>6 DEF Held
  <2> QED
    BY <2>1, <2>2 DEF PostedOnce
<1>7. ASSUME NEW w \in Workers, NEW j, worker[w].job[d] # "NONE", JobSet(w, d, j), delivery'[d] = delivery[d]
      PROVE  Held(d)' /\ (Exempt(d) => Exempt(d)')
  BY <1>6, <1>7, Zenon DEF Held, JobSet, Exempt
<1>8. ASSUME NEW w \in Workers, Checking(w, d) PROVE Held(d)' /\ PostedOnce(d)'
  <2>1. Held(d)' /\ (Exempt(d) => Exempt(d)')
    BY <1>7, <1>8 DEF Checking
  <2> QED
    BY <1>6, <1>8, <2>1 DEF Checking, PostedOnce
<1>9. ASSUME NEW w \in Workers, Posting(w, d) PROVE Held(d)' /\ PostedOnce(d)'
  <2>1. Held(d)' /\ (Exempt(d) => Exempt(d)')
    BY <1>7, <1>9 DEF Posting
  <2>2. Exempt(d) \/ accepted[d] = 0
    BY <1>6, <1>9 DEF Posting
  <2> QED
    BY <1>9, <2>1, <2>2 DEF Posting, PostedOnce, JobSet
<1>10. ASSUME NEW w \in Workers, Answering(w, d) PROVE Held(d)' /\ PostedOnce(d)'
  <2>1. /\ worker[w].job[d] \in {"SUCCESS", "RETRYABLE", "PERMANENT"} /\ worker[w].job[d] # "NONE"
        /\ accepted'[d] = accepted[d]
    BY <1>10 DEF Answering
  <2>2. \A v \in Workers : worker'[v].job[d] = "NONE"
    BY <1>6, <1>10, <2>1 DEF Answering, JobSet
  <2>3. Held(d)'
    BY <2>2 DEF Held
  <2>4. CASE OwnsDelivery(w, d) /\ AttemptIsNew(d)
    <3>1. delivery'[d] = Reported(delivery[d], worker[w].job[d])
      BY <1>10, <2>4, Zenon DEF Answering
    <3>2. delivery'[d].requeued = delivery[d].requeued
      BY <3>1, Zenon DEF DeliveryRow, Reported
    <3>3. CASE worker[w].job[d] = "SUCCESS"
      <4>1. delivery'[d].state = ReportedState("SUCCESS", delivery[d].attempt)
        BY <3>1, <3>3, Zenon DEF DeliveryRow, Reported
      <4>2. delivery'[d].state = "SUCCEEDED"
        BY <4>1 DEF ReportedState
      <4> QED
        BY <2>1, <2>3, <3>2, <4>2, Zenon DEF PostedOnce, Exempt
    <3>4. CASE worker[w].job[d] # "SUCCESS"
      <4>1. Exempt(d) \/ accepted[d] = 0
        BY <1>6, <2>1, <3>4
      <4> QED
        BY <2>1, <2>3, <3>2, <4>1, Zenon DEF PostedOnce, Exempt
    <3> QED
      BY <3>3, <3>4
  <2>5. CASE ~(OwnsDelivery(w, d) /\ AttemptIsNew(d))
    <3>1. OwnsDelivery(w, d)
      BY <1>6, <2>1 DEF OwnsDelivery
    <3>2. UniqueAttempts /\ delivery[d].attempt \in delivery[d].recorded
      BY <2>5, <3>1, NotificationAssumption DEF AttemptIsNew
    <3>3. delivery[d].attempt \in Nat
      BY DEF DeliveryRow
    <3>4. delivery[d].requeued
      <4>1. ~(delivery[d].attempt < delivery[d].attempt)
        BY <3>3
      <4> QED
        BY <1>6, <2>1, <3>2, <4>1, Zenon DEF FreshAttempt
    <3>5. delivery'[d] = delivery[d]
      BY <1>10, <2>5, Zenon DEF Answering
    <3>6. Exempt(d)'
      BY <3>2, <3>4, <3>5, Zenon DEF Exempt
    <3> QED
      BY <2>3, <3>6 DEF PostedOnce
  <2> QED
    BY <2>4, <2>5
<1> QED
  BY <1>3, <1>4, <1>5, <1>8, <1>9, <1>10 DEF QuietMove

\* FlowInv is inductive: the counter of faults only grows, and until the first one
\* each step is a move of QuietKeeps.
LEMMA FlowStep == FlowInv /\ [Next]_vars => FlowInv'
<1> SUFFICES ASSUME FlowInv, [Next]_vars PROVE FlowInv'
  OBVIOUS
<1>1. NotificationInv /\ NotificationInv'
  BY NotificationStep DEF FlowInv
<1>2. ASSUME faults' = 0, NEW d \in Deliveries PROVE Held(d)' /\ PostedOnce(d)'
  <2>1. faults = 0
    <3>1. faults \in Nat
      BY <1>1, NotificationAssumption DEF NotificationInv, TypeOK
    <3>2. UNCHANGED faults \/ Fault
      <4>1. CASE Configure
        BY <4>1 DEF Configure, CreateNotificationDestination, DisableNotificationDestination,
          UpdateNotificationDestination, CreateNotificationRoute, UpdateNotificationRoute, RetryNotificationDelivery
      <4>2. ASSUME NEW w \in Workers, WorkerStep(w) PROVE UNCHANGED faults \/ Fault
        BY <4>2 DEF WorkerStep, ClaimOutbox, RouteNotificationEvent, MarkOutboxPublished, ClaimNotificationDeliveries,
          CheckDestination, PostWebhook, ReportNotificationDelivery
      <4>3. CASE TimePasses \/ (\E e \in Events : AppendOutbox(e)) \/ UNCHANGED vars
        BY <4>3 DEF TimePasses, OutboxClaimExpires, DeliveryClaimExpires, RetryDelayPasses, AppendOutbox, vars
      <4>4. ASSUME NEW w \in Workers, ProcessOnceFails(w) \/ WorkerCrash(w) PROVE Fault
        BY <4>4 DEF ProcessOnceFails, WorkerCrash
      <4> QED
        BY <4>1, <4>2, <4>3, <4>4 DEF Next
    <3> QED
      BY <1>2, <3>1, <3>2 DEF Fault
  <2>2. QuietMove(d)
    BY <1>1, <1>2, <2>1, QuietStep
  <2>3. /\ delivery[d] \in DeliveryRow /\ DeliveryInv(d) /\ FreshAttempt(d) /\ accepted[d] \in Nat
        /\ Held(d) /\ PostedOnce(d)
    BY <2>1, TypeOKByRow DEF FlowInv, NotificationInv, ConfigTyped
  <2>4. delivery'[d] \in DeliveryRow
    <3>1. TypeOK'
      BY <1>1 DEF NotificationInv
    <3> QED
      BY <3>1, Zenon DEF TypeOK, DeliveryRow
  <2> QED
    BY <2>2, <2>3, <2>4, QuietKeeps
<1> QED
  BY <1>1, <1>2 DEF FlowInv

\* ClaimNotificationDeliveries and ReportNotificationDelivery: as long as no process
\* crashes, no claim is overrun and no answer is lost, no dispatcher sends again what
\* an endpoint has accepted, whatever the operators change meanwhile and however many
\* dispatchers there are, under both authorities.
THEOREM AcceptedIsNotReposted == Spec => []NoRepostWithoutFault
<1>1. Init => FlowInv
  <2>1. ASSUME Init, NEW d \in Deliveries PROVE Held(d) /\ PostedOnce(d)
    BY <2>1 DEF Init, IdleWorker, Held, PostedOnce
  <2> QED
    BY <2>1, NotificationStarts DEF FlowInv
<1>2. FlowInv => NoRepostWithoutFault
  <2>1. ASSUME FlowInv, faults = 0, NEW d \in Deliveries PROVE accepted[d] <= 1 \/ Exempt(d)
    BY <2>1 DEF FlowInv, PostedOnce
  <2> QED
    BY <2>1 DEF NoRepostWithoutFault, Exempt
<1> QED
  BY <1>1, <1>2, FlowStep, PTL DEF Spec
=============================================================================
