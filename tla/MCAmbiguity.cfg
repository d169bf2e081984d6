SPECIFICATION Spec
CONSTANTS
  Clients = {c1}
  Handlers = {h1}
  Inventories = {i1}
  Unfit = {}
  Services = {FALSE}
  Takeovers = {}
  MaxOps = 2
  MaxClaims = 1
  MaxBinding = 1
INVARIANT AmbiguityFencesBinding
VIEW View
