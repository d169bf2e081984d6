SPECIFICATION FairInstallSpec
CONSTANTS
  w1 = w1
  w2 = w2
  alice = alice
  bob = bob
  none = none
  Workers = {w1, w2}
  Names = {"replica"}
  NameOf <- SharedName
  NoOwner = none
  Clients = {alice, bob}
  Requester = alice
  Plans = {}
  StepMaxAttempts = 2
  Payloads = {1, 2}
  StepCount = 2
  MaxFaults = 2
VIEW InstallView
INVARIANTS
  InstallTypeOK
  ResumesAtFirstUnsealed
  SucceededIsInstalled
  OwnRevisionIsCurrent
PROPERTIES
  InstallAdvances
