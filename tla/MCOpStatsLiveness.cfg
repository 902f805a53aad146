SPECIFICATION FairSpec
CONSTANTS
  h1 = h1
  h2 = h2
  h3 = h3
  r1 = r1
  r2 = r2
  AllHosts = AllHosts
  Hosts <- MCHosts
  Requests <- MCOneRequest
  Selections <- MCSelections
  MaxAttempts = 3
  MaxFaults = 3
PROPERTY
  EveryRequestAnswered
CHECK_DEADLOCK FALSE
