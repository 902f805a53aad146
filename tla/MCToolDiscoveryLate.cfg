SPECIFICATION Spec
CONSTANTS
  h1 = h1
  h2 = h2
  m1 = m1
  m2 = m2
  r1 = r1
  r2 = r2
  NoModule = NO_MODULE
  Hosts <- MCHosts
  Modules <- MCModules
  HloOf <- MCHloOf
  Requests <- MCRequests
  MaxFaults = 0
INVARIANT ListedModulesHaveFiles
CHECK_DEADLOCK FALSE
