SPECIFICATION Spec
CONSTANTS
  Clients = {c1}
  Handlers = {h1}
  Inventories = {i1}
  Unfit = {stale}
  Services = {TRUE, FALSE}
  Takeovers = {"Service"}
  MaxOps = 2
  MaxClaims = 2
  MaxBinding = 2
INVARIANTS TypeOK OneDeploymentInFlight ExecutionIsAccounted ExecutesCurrentBinding SucceededStaysDeployed
PROPERTIES SettledStaysSettled ForeignIsUntouched
VIEW View
