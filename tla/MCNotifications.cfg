SPECIFICATION FairSpec
CONSTANTS
  MaxEvents = 2
  Actionable = {1}
  Routes = {r1}
  Destinations = {d1}
  Workers = {w1, w2}
  OutboxLimit = 2
  MaxAttempts = 2
  UniqueAttempts = TRUE
  MaxChanges = 3
  MaxFaults = 1
INVARIANTS TypeOK PublishedIsRouted NoRepostWithoutFault
PROPERTIES RoutedOnce OutboxDrains DeliveriesSettle
CHECK_DEADLOCK FALSE
VIEW EndpointView
