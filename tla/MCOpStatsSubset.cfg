SPECIFICATION Spec
CONSTANTS
  h1 = h1
  h2 = h2
  h3 = h3
  r1 = r1
  r2 = r2
  AllHosts = AllHosts
  Hosts <- MCHosts
  Requests <- MCRequests
  Selections <- MCSelections
  MaxAttempts = 1
  MaxFaults = 0
INVARIANT
  AnswerIsForSelectedHosts
CHECK_DEADLOCK FALSE
