---------------------------- MODULE Notifications ----------------------------
(***************************************************************************)
(* Outbox, routing and delivery of notifications: the outbox and the       *)
(* notification records of MemoryStore (internal/controlplane/             *)
(* memory_store.go, notification_store.go) and the dispatcher processes    *)
(* that poll them (internal/notification/worker.go).                       *)
(*                                                                         *)
(* A store method is one action.  A dispatcher runs ProcessOnce in a loop: *)
(* it claims a batch of outbox events and routes and publishes them one    *)
(* after the other, then claims the due deliveries and works on them in    *)
(* parallel, one goroutine each.  A claim carries the identity newWorkerID *)
(* drew for the process, so the claims of a process that died belong to    *)
(* nobody who is alive.                                                    *)
(*                                                                         *)
(* UniqueAttempts tells the two authorities apart: the PostgreSQL one has  *)
(* a unique index on the attempts of a delivery (migration 0020), the      *)
(* memory and file stores have none.                                       *)
(***************************************************************************)
EXTENDS Naturals, FiniteSets

CONSTANTS
  MaxEvents,      \* bound: outbox events ever written
  Actionable,     \* the ones classifyOutboxEvent makes a notification of
  Routes,
  Destinations,
  Workers,        \* dispatcher processes
  OutboxLimit,    \* events claimed at a time (64)
  MaxAttempts,    \* NotificationDelivery.MaxAttempts (5)
  UniqueAttempts, \* notification_delivery_attempt_uq exists
  MaxChanges,     \* bound: changes of the configuration and retries by the operators
  MaxFaults       \* bound: crashes, overrun claims, failing calls, lost answers

Events == 1..MaxEvents

ASSUME NotificationAssumption ==
  /\ MaxEvents \in Nat /\ Actionable \subseteq Events
  /\ OutboxLimit \in Nat \ {0} /\ MaxAttempts \in Nat \ {0}
  /\ UniqueAttempts \in BOOLEAN /\ MaxChanges \in Nat /\ MaxFaults \in Nat
  /\ "NONE" \notin Workers /\ "DEAD" \notin Workers

\* A delivery is identified by what it is for (notification_delivery_route_destination_uq).
Deliveries == Events \X Routes \X Destinations
DestinationOf(d) == d[3]

OpenStates    == {"PENDING", "DELIVERING", "RETRY_WAIT"}
SettledStates == {"SUCCEEDED", "DEAD_LETTER"}
Claims        == {"NONE", "LIVE", "EXPIRED"}
Jobs          == {"NONE", "CLAIMED", "CHECKED", "SUCCESS", "RETRYABLE", "PERMANENT"}

VARIABLES
  outbox,      \* event -> whether it is written and published, and its claim
  routed,      \* events that have a NotificationEvent
  destination, \* NONE, WEBHOOK, CONSOLE or DISABLED
  route,       \* route -> enabled, its destinations ({} before it is created)
  delivery,    \* the NotificationDelivery, its recorded attempts, whether it was ever requeued
  worker,      \* the dispatcher: what is left of its batch, its goroutines
  accepted,    \* delivery -> webhooks the endpoint has accepted
  changes,     \* changes so far
  faults       \* faults so far

vars == <<outbox, routed, destination, route, delivery, worker, accepted, changes, faults>>

Change == changes < MaxChanges /\ changes' = changes + 1
Fault  == faults < MaxFaults /\ faults' = faults + 1

NoEvent    == [state |-> "NONE", by |-> "NONE", claim |-> "NONE"]
NoDelivery == [state |-> "NONE", attempt |-> 0, due |-> TRUE, by |-> "NONE", claim |-> "NONE",
               recorded |-> {}, requeued |-> FALSE]

\* phase IDLE (between two polls), OUTBOX (batch is what is left to do, head
\* tells whether its oldest event has been routed) or DELIVERIES.
IdleWorker == [phase |-> "IDLE", batch |-> {}, head |-> FALSE, job |-> [d \in Deliveries |-> "NONE"]]

-----------------------------------------------------------------------------
(* Configuration (internal/api/notification.go). *)

CreateNotificationDestination(x) ==
  /\ Change
  /\ destination[x] = "NONE"
  /\ destination' = [destination EXCEPT ![x] = "WEBHOOK"]
  /\ UNCHANGED <<outbox, routed, route, delivery, worker, accepted, faults>>

\* An active destination may become one of the other kind.
UpdateNotificationDestination(x, kind) ==
  /\ Change
  /\ destination[x] \in {"WEBHOOK", "CONSOLE"}
  /\ destination' = [destination EXCEPT ![x] = kind]
  /\ UNCHANGED <<outbox, routed, route, delivery, worker, accepted, faults>>

DisableNotificationDestination(x) ==
  /\ Change
  /\ destination[x] \in {"WEBHOOK", "CONSOLE"}
  /\ destination' = [destination EXCEPT ![x] = "DISABLED"]
  /\ UNCHANGED <<outbox, routed, route, delivery, worker, accepted, faults>>

ActiveDestination(x) == destination[x] \in {"WEBHOOK", "CONSOLE"}

\* validateNotificationRouteLocked
ValidRoute(xs) == xs # {} /\ \A x \in xs : ActiveDestination(x)

CreateNotificationRoute(r, xs) ==
  /\ Change
  /\ route[r].destinations = {}
  /\ ValidRoute(xs)
  /\ route' = [route EXCEPT ![r] = [enabled |-> TRUE, destinations |-> xs]]
  /\ UNCHANGED <<outbox, routed, destination, delivery, worker, accepted, faults>>

UpdateNotificationRoute(r, xs, enabled) ==
  /\ Change
  /\ route[r].destinations # {}
  /\ ValidRoute(xs)
  /\ route' = [route EXCEPT ![r] = [enabled |-> enabled, destinations |-> xs]]
  /\ UNCHANGED <<outbox, routed, destination, delivery, worker, accepted, faults>>

\* An operator requeues a dead letter.
RetryNotificationDelivery(d) ==
  /\ Change
  /\ delivery[d].state = "DEAD_LETTER"
  /\ ActiveDestination(DestinationOf(d))
  /\ delivery' = [delivery EXCEPT ![d] =
       [@ EXCEPT !.state = "PENDING", !.attempt = 0, !.due = TRUE, !.by = "NONE", !.claim = "NONE",
                 !.requeued = TRUE]]
  /\ UNCHANGED <<outbox, routed, destination, route, worker, accepted, faults>>

-----------------------------------------------------------------------------
(* The outbox. *)

\* appendOutboxLocked: some store method commits, in the order of AvailableAt.
AppendOutbox(e) ==
  /\ outbox[e].state = "NONE"
  /\ \A f \in 1..(e - 1) : outbox[f].state # "NONE"
  /\ outbox' = [outbox EXCEPT ![e].state = "WAITING"]
  /\ UNCHANGED <<routed, destination, route, delivery, worker, accepted, changes, faults>>

\* Mutant: an event is claimed once only.
ClaimableEventsOnce == {e \in Events : outbox[e].state = "WAITING" /\ outbox[e].claim = "NONE"}

ClaimableEvents == {e \in Events : outbox[e].state = "WAITING" /\ outbox[e].claim # "LIVE"}

\* The oldest claimable events, at most OutboxLimit of them.
ClaimedBatch ==
  {e \in ClaimableEvents : Cardinality({f \in ClaimableEvents : f < e}) < OutboxLimit}

\* ProcessOnce begins.
ClaimOutbox(w) ==
  /\ worker[w].phase = "IDLE"
  /\ outbox' = [e \in Events |-> IF e \in ClaimedBatch THEN [outbox[e] EXCEPT !.by = w, !.claim = "LIVE"]
                                 ELSE outbox[e]]
  /\ worker' = [worker EXCEPT ![w].phase = "OUTBOX", ![w].batch = ClaimedBatch, ![w].head = FALSE]
  /\ UNCHANGED <<routed, destination, route, delivery, accepted, changes, faults>>

\* notificationRouteMatches: patterns, severities and scopes are left out.
NotificationRouteMatches(r) == route[r].enabled

NewDelivery(d) == NotificationRouteMatches(d[2]) /\ d[3] \in route[d[2]].destinations /\ ActiveDestination(d[3])

\* Mutant: an event that comes again is routed again.
RoutedDeliveriesAgain(e) ==
  [d \in Deliveries |-> IF d[1] = e /\ NewDelivery(d) THEN [NoDelivery EXCEPT !.state = "PENDING"] ELSE delivery[d]]

\* What RouteNotificationEvent makes of the deliveries: nothing, if the event
\* was routed before.
RoutedDeliveries(e) ==
  [d \in Deliveries |-> IF d[1] = e /\ e \notin routed /\ NewDelivery(d)
                        THEN [NoDelivery EXCEPT !.state = "PENDING"] ELSE delivery[d]]

\* The event the worker is at.
Current(w, e) == e \in worker[w].batch /\ \A f \in worker[w].batch : e <= f

\* It is classified and, if it is actionable, routed.
RouteNotificationEvent(w, e) ==
  /\ Current(w, e) /\ ~worker[w].head
  /\ worker' = [worker EXCEPT ![w].head = TRUE]
  /\ IF e \in Actionable
     THEN routed' = routed \cup {e} /\ delivery' = RoutedDeliveries(e)
     ELSE UNCHANGED <<routed, delivery>>
  /\ UNCHANGED <<outbox, destination, route, accepted, changes, faults>>

\* The fence of MarkOutboxPublished.
OwnsEvent(w, e) == outbox[e].by = w /\ outbox[e].claim = "LIVE"

\* Mutant: the event is published before it is routed.
MarkOutboxPublishedFirst(w, e) ==
  /\ Current(w, e) /\ OwnsEvent(w, e)
  /\ outbox' = [outbox EXCEPT ![e] = [state |-> "PUBLISHED", by |-> "NONE", claim |-> "NONE"]]
  /\ UNCHANGED <<routed, destination, route, delivery, worker, accepted, changes, faults>>

\* Then published, under its claim.  A claim that was lost ends ProcessOnce.
MarkOutboxPublished(w, e) ==
  /\ Current(w, e) /\ worker[w].head
  /\ IF OwnsEvent(w, e)
     THEN /\ outbox' = [outbox EXCEPT ![e] = [state |-> "PUBLISHED", by |-> "NONE", claim |-> "NONE"]]
          /\ worker' = [worker EXCEPT ![w].batch = @ \ {e}, ![w].head = FALSE]
     ELSE worker' = [worker EXCEPT ![w] = IdleWorker] /\ UNCHANGED outbox
  /\ UNCHANGED <<routed, destination, route, delivery, accepted, changes, faults>>

\* Classification, routing, the health scan or a claim fails: ProcessOnce
\* returns, the rest of the batch stays claimed and no delivery is made.
ProcessOnceFails(w) ==
  /\ worker[w].phase = "OUTBOX"
  /\ Fault
  /\ worker' = [worker EXCEPT ![w] = IdleWorker]
  /\ UNCHANGED <<outbox, routed, destination, route, delivery, accepted, changes>>

-----------------------------------------------------------------------------
(* Deliveries. *)

\* Mutant: the claim of another worker is not looked at.
ClaimableAlways(d) == delivery[d].state \in OpenStates /\ delivery[d].due

\* Mutant: a delivery somebody took is not taken again.
ClaimableNotTaken(d) == delivery[d].state \in OpenStates \ {"DELIVERING"} /\ delivery[d].due

Claimable(d) == delivery[d].state \in OpenStates /\ delivery[d].due /\ delivery[d].claim # "LIVE"

\* The claim runs from the instant ProcessOnce began, so after a slow batch it
\* may have run out when it is made (a fault).  The limit of eight deliveries
\* is not reached here.
ClaimNotificationDeliveries(w) ==
  LET mine == {d \in Deliveries : Claimable(d)} IN
  /\ worker[w].phase = "OUTBOX" /\ worker[w].batch = {}
  /\ \E claim \in {"LIVE", "EXPIRED"} :
       /\ IF claim = "EXPIRED" THEN mine # {} /\ Fault ELSE UNCHANGED faults
       /\ delivery' = [d \in Deliveries |->
            IF d \in mine THEN [delivery[d] EXCEPT !.state = "DELIVERING", !.attempt = @ + 1, !.by = w, !.claim = claim]
            ELSE delivery[d]]
  /\ worker' = [worker EXCEPT ![w] =
       IF mine = {} THEN IdleWorker
       ELSE [IdleWorker EXCEPT !.phase = "DELIVERIES",
                               !.job = [d \in Deliveries |-> IF d \in mine THEN "CLAIMED" ELSE "NONE"]]]
  /\ UNCHANGED <<outbox, routed, destination, route, accepted, changes>>

\* deliver reads the destination: a console needs no call, a disabled one gets none.
CheckDestination(w, d) ==
  /\ worker[w].job[d] = "CLAIMED"
  /\ worker' = [worker EXCEPT ![w].job[d] =
       CASE destination[DestinationOf(d)] = "WEBHOOK" -> "CHECKED"
         [] destination[DestinationOf(d)] = "CONSOLE" -> "SUCCESS"
         [] OTHER                                     -> "PERMANENT"]
  /\ UNCHANGED <<outbox, routed, destination, route, delivery, accepted, changes, faults>>

\* The endpoint accepts, accepts but its answer is lost, is unavailable or refuses.
PostWebhook(w, d) ==
  /\ worker[w].job[d] = "CHECKED"
  /\ \/ /\ accepted' = [accepted EXCEPT ![d] = @ + 1] /\ UNCHANGED faults
        /\ worker' = [worker EXCEPT ![w].job[d] = "SUCCESS"]
     \/ /\ accepted' = [accepted EXCEPT ![d] = @ + 1] /\ Fault
        /\ worker' = [worker EXCEPT ![w].job[d] = "RETRYABLE"]
     \/ /\ UNCHANGED <<accepted, faults>>
        /\ worker' = [worker EXCEPT ![w].job[d] = "RETRYABLE"]
     \/ /\ UNCHANGED <<accepted, faults>>
        /\ worker' = [worker EXCEPT ![w].job[d] = "PERMANENT"]
  /\ UNCHANGED <<outbox, routed, destination, route, delivery, changes>>

\* The fence of ReportNotificationDelivery, and the index on attempts.
OwnsDelivery(w, d) == delivery[d].state = "DELIVERING" /\ delivery[d].by = w /\ delivery[d].claim = "LIVE"
AttemptIsNew(d)    == UniqueAttempts => delivery[d].attempt \notin delivery[d].recorded

\* Mutant: a retryable failure is given no state.
ReportedStateUnset(outcome, attempt) ==
  CASE outcome = "SUCCESS"   -> "SUCCEEDED"
    [] outcome = "RETRYABLE" -> ""
    [] OTHER                 -> "DEAD_LETTER"

ReportedState(outcome, attempt) ==
  CASE outcome = "SUCCESS"                             -> "SUCCEEDED"
    [] outcome = "RETRYABLE" /\ attempt < MaxAttempts  -> "RETRY_WAIT"
    [] OTHER                                           -> "DEAD_LETTER"

Reported(r, outcome) ==
  LET to == ReportedState(outcome, r.attempt) IN
  [r EXCEPT !.state = to, !.by = "NONE", !.claim = "NONE", !.due = to # "RETRY_WAIT",
            !.recorded = @ \cup {r.attempt}]

\* The goroutine ends whatever the answer is; ProcessOnce waits for all of them.
ReportNotificationDelivery(w, d) ==
  LET outcome == worker[w].job[d]
      job     == [worker[w].job EXCEPT ![d] = "NONE"] IN
  /\ outcome \in {"SUCCESS", "RETRYABLE", "PERMANENT"}
  /\ delivery' = IF OwnsDelivery(w, d) /\ AttemptIsNew(d)
                 THEN [delivery EXCEPT ![d] = Reported(@, outcome)]
                 ELSE delivery
  /\ worker' = [worker EXCEPT ![w] =
       IF \A x \in Deliveries : job[x] = "NONE" THEN IdleWorker ELSE [@ EXCEPT !.job = job]]
  /\ UNCHANGED <<outbox, routed, destination, route, accepted, changes, faults>>

-----------------------------------------------------------------------------
(* Time and faults. *)

\* Nobody works on it under its claim.
IdleEvent(e)    == \A w \in Workers : ~(e \in worker[w].batch /\ outbox[e].by = w)
IdleDelivery(d) == \A w \in Workers : ~(worker[w].job[d] # "NONE" /\ delivery[d].by = w)

\* The claim of an event runs out, on an event nobody works on or (a fault) under its worker.
OutboxClaimExpires(e) ==
  /\ outbox[e].claim = "LIVE"
  /\ IF IdleEvent(e) THEN UNCHANGED faults ELSE Fault
  /\ outbox' = [outbox EXCEPT ![e].claim = "EXPIRED"]
  /\ UNCHANGED <<routed, destination, route, delivery, worker, accepted, changes>>

DeliveryClaimExpires(d) ==
  /\ delivery[d].claim = "LIVE"
  /\ IF IdleDelivery(d) THEN UNCHANGED faults ELSE Fault
  /\ delivery' = [delivery EXCEPT ![d].claim = "EXPIRED"]
  /\ UNCHANGED <<outbox, routed, destination, route, worker, accepted, changes>>

\* notificationRetryDelay is over.
RetryDelayPasses(d) ==
  /\ ~delivery[d].due
  /\ delivery' = [delivery EXCEPT ![d].due = TRUE]
  /\ UNCHANGED <<outbox, routed, destination, route, worker, accepted, changes, faults>>

\* The process dies and comes back under another identity (newWorkerID).
WorkerCrash(w) ==
  /\ worker[w] # IdleWorker
  /\ Fault
  /\ worker' = [worker EXCEPT ![w] = IdleWorker]
  /\ outbox' = [e \in Events |-> IF outbox[e].by = w THEN [outbox[e] EXCEPT !.by = "DEAD"] ELSE outbox[e]]
  /\ delivery' = [d \in Deliveries |-> IF delivery[d].by = w THEN [delivery[d] EXCEPT !.by = "DEAD"] ELSE delivery[d]]
  /\ UNCHANGED <<routed, destination, route, accepted, changes>>

-----------------------------------------------------------------------------

Init ==
  /\ outbox = [e \in Events |-> NoEvent] /\ routed = {}
  /\ destination = [x \in Destinations |-> "NONE"]
  /\ route = [r \in Routes |-> [enabled |-> FALSE, destinations |-> {}]]
  /\ delivery = [d \in Deliveries |-> NoDelivery]
  /\ worker = [w \in Workers |-> IdleWorker]
  /\ accepted = [d \in Deliveries |-> 0]
  /\ changes = 0 /\ faults = 0

Configure ==
  \/ \E x \in Destinations : \/ CreateNotificationDestination(x) \/ DisableNotificationDestination(x)
                             \/ \E kind \in {"WEBHOOK", "CONSOLE"} : UpdateNotificationDestination(x, kind)
  \/ \E r \in Routes, xs \in SUBSET Destinations :
       \/ CreateNotificationRoute(r, xs)
       \/ \E enabled \in BOOLEAN : UpdateNotificationRoute(r, xs, enabled)
  \/ \E d \in Deliveries : RetryNotificationDelivery(d)

WorkerStep(w) ==
  \/ ClaimOutbox(w)
  \/ \E e \in Events : RouteNotificationEvent(w, e) \/ MarkOutboxPublished(w, e)
  \/ ClaimNotificationDeliveries(w)
  \/ \E d \in Deliveries : CheckDestination(w, d) \/ PostWebhook(w, d) \/ ReportNotificationDelivery(w, d)

TimePasses ==
  \/ \E e \in Events : OutboxClaimExpires(e)
  \/ \E d \in Deliveries : DeliveryClaimExpires(d) \/ RetryDelayPasses(d)

Next ==
  \/ Configure
  \/ \E e \in Events : AppendOutbox(e)
  \/ \E w \in Workers : WorkerStep(w) \/ ProcessOnceFails(w) \/ WorkerCrash(w)
  \/ TimePasses

\* Dispatchers poll and work (each call has a timeout), and time passes.
Fairness ==
  /\ \A w \in Workers : WF_vars(WorkerStep(w))
  /\ \A e \in Events : WF_vars(IdleEvent(e) /\ OutboxClaimExpires(e))
  /\ \A d \in Deliveries : WF_vars(IdleDelivery(d) /\ DeliveryClaimExpires(d)) /\ WF_vars(RetryDelayPasses(d))

Spec == Init /\ [][Next]_vars

FairSpec == Spec /\ Fairness

-----------------------------------------------------------------------------
(* Properties. *)

\* The outbox, the deliveries and the dispatchers have their types.
TypeOK ==
  /\ outbox \in [Events -> [state : {"NONE", "WAITING", "PUBLISHED"}, by : Workers \cup {"NONE", "DEAD"}, claim : Claims]]
  /\ routed \subseteq Events
  /\ destination \in [Destinations -> {"NONE", "WEBHOOK", "CONSOLE", "DISABLED"}]
  /\ route \in [Routes -> [enabled : BOOLEAN, destinations : SUBSET Destinations]]
  /\ delivery \in [Deliveries ->
       [state : OpenStates \cup SettledStates \cup {"NONE"}, attempt : Nat, due : BOOLEAN,
        by : Workers \cup {"NONE", "DEAD"}, claim : Claims, recorded : SUBSET Nat,
        requeued : BOOLEAN]]
  /\ worker \in [Workers -> [phase : {"IDLE", "OUTBOX", "DELIVERIES"}, batch : SUBSET Events,
                             head : BOOLEAN, job : [Deliveries -> Jobs]]]
  /\ accepted \in [Deliveries -> Nat]
  /\ changes \in 0..MaxChanges /\ faults \in 0..MaxFaults

\* No actionable event is published before its notification exists, whoever
\* crashes, loses its claim or takes it over (processOutbox).
PublishedIsRouted ==
  \A e \in Events : outbox[e].state = "PUBLISHED" /\ e \in Actionable => e \in routed

\* An event is routed once: a delivery comes into being only together with its
\* event, and one that succeeded is never touched again, although the event may
\* be dispatched many times and the routes change in between
\* (RouteNotificationEvent, ReportNotificationDelivery).
RoutedOnce ==
  [][\A d \in Deliveries :
       /\ delivery[d].state = "NONE" /\ delivery'[d].state # "NONE" => d[1] \notin routed
       /\ delivery[d].state = "SUCCEEDED" => delivery'[d] = delivery[d]]_vars

\* A webhook the endpoint has accepted is sent again only after a fault: without
\* crashes, overruns and lost answers an endpoint sees every delivery at most once
\* (ClaimNotificationDeliveries, ReportNotificationDelivery).  The exception is a
\* dead letter that was requeued under the PostgreSQL authority: its attempts are
\* numbered from one again and the index refuses their reports.
NoRepostWithoutFault ==
  faults = 0 =>
    \A d \in Deliveries : accepted[d] <= 1 \/ (UniqueAttempts /\ delivery[d].requeued)

\* Every event is published in the end.
OutboxDrains == \A e \in Events : outbox[e].state = "WAITING" ~> outbox[e].state = "PUBLISHED"

\* Every delivery ends, delivered or as a dead letter.
DeliveriesSettle ==
  \A d \in Deliveries : delivery[d].state \in OpenStates ~> delivery[d].state \in SettledStates
=============================================================================
