SPECIFICATION Spec
CONSTANTS
  h1 = h1
  h2 = h2
  h3 = h3
  r1 = r1
  r2 = r2
  AllHosts = AllHosts
  Hosts <- MCThreeHosts
  Requests <- MCRequests
  Selections <- MCPairs
  MaxAttempts = 1
  MaxFaults = 1
INVARIANTS
  TypeOK
  ComputedFromOwnHosts
SYMMETRY MCSymmetry3
CHECK_DEADLOCK FALSE
