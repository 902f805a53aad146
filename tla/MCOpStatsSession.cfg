SPECIFICATION Spec
CONSTANTS
  h1 = h1
  h2 = h2
  h3 = h3
  r1 = r1
  r2 = r2
  AllHosts = AllHosts
  Hosts <- MCHosts
  Requests <- MCRequests
  Selections <- MCSelections
  MaxAttempts = 2
  MaxFaults = 1
INVARIANTS
  UndisturbedAnswerIsComplete
  UndisturbedErrorHasCause
  ReduceHasEveryHost
PROPERTY
  OnlyRefreshDeletes
SYMMETRY MCSymmetry
CHECK_DEADLOCK FALSE
