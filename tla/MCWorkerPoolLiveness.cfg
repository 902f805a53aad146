SPECIFICATION FairSpec
CONSTANTS
  c1 = c1
  c2 = c2
  c3 = c3
  w1 = w1
  w2 = w2
  Nowhere = Nowhere
  Calls <- MCTwoCalls
  Workers <- MCWorkers
  Configs <- MCConfigs
  Permits = 1
  MaxAttempts = 2
  MaxFaults = 2
PROPERTIES
  CallsReturn
  QueueDrains
CHECK_DEADLOCK FALSE
