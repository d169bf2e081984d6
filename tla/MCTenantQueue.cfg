SPECIFICATION FairSpec
CONSTANTS
  MaxCreated = 2
  Plans = {"small", "large"}
  EntryPlan = "small"
  MaxTenants = 2
  Agents = {a1, a2}
  MaxRequests <- OldestOnly
  MaxFaults = 1
INVARIANTS TypeOK AcceptedIsApplied DeletedLeavesNothing OperationMirrorsTenant
PROPERTIES ImplementsFencedLease QueueDrains
VIEW RelativeView
CHECK_DEADLOCK FALSE
