SPECIFICATION Spec
CONSTANTS
  c1 = c1
  c2 = c2
  c3 = c3
  w1 = w1
  w2 = w2
  Nowhere = Nowhere
  Calls <- MCCalls
  Workers <- MCWorkers
  Configs <- MCConfigs
  Permits = 1
  MaxAttempts = 2
  MaxFaults = 2
INVARIANTS
  TypeOK
  PermitsBalanced
PROPERTIES
  ReturnedOnce
  AdmissionSpec
SYMMETRY MCSymmetry
CHECK_DEADLOCK FALSE
