SPECIFICATION Spec
CONSTANTS
  w1 = w1
  w2 = w2
  alice = alice
  bob = bob
  none = none
  Workers = {w1, w2}
  Names = {"one", "two"}
  NameOf <- OwnNames
  NoOwner = none
  Clients = {alice, bob}
  Requester = alice
  Plans <- TwoSteps
  StepMaxAttempts = 2
  Payloads = {"p1"}
VIEW EngineView
INVARIANTS
  TypeOK
  BudgetRespected
  LeaseOnlyWhileClaimable
  TokensAreUnique
  RolledBackIsUndone
  CompensationIsEvidenced
  ForwardIsPrefix
PROPERTIES
  RevisionAdvances
  TerminalIsFinal
  ExpiredLeaseFreezesExecution
  LiveLeaseExcludesOthers
