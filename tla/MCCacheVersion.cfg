SPECIFICATION Spec
CONSTANTS
  overview_page = overview_page
  memory_viewer = memory_viewer
  OP_STATS = OP_STATS
  HLO = HLO
  SSTABLE = SSTABLE
  trace_viewer = trace_viewer
  j1 = j1
  j2 = j2
  j3 = j3
  Tools <- MCTools
  Caches <- MCCaches
  CacheOf <- MCCacheOf
  Cleared <- MCCleared
  Forgetful <- MCForgetful
  Jobs <- MCJobs
  Versions <- MCVersions
  MaxFaults = 1
INVARIANTS TypeOK OldCacheMarkedHasCause
PROPERTIES OldAnswerHasCause
SYMMETRY MCSymmetry
VIEW MCView
CHECK_DEADLOCK FALSE
