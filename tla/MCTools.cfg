SPECIFICATION ToolsSpec

CONSTANTS
  h1 = h1
  h2 = h2
  q1 = q1
  q2 = q2
  noHost = noHost
  allHosts = allHosts
  t1 = t1
  t2 = t2
  t3 = t3
  nobody = nobody
  urlA = urlA
  urlB = urlB
  noUrl = noUrl
  rowA = rowA
  rowB = rowB
  rowC = rowC
  modM = modM
  modN = modN
  nameA = nameA
  nameB = nameB
  collA = collA
  collB = collB
  collC = collC
  bufA = bufA
  bufB = bufB
  bufC = bufC
  bufD = bufD
  noBuffer = noBuffer
  opF = opF
  opG = opG
  opT = opT
  idleOp = idleOp
  noOp = noOp
  progP = progP
  progQ = progQ
  noGroup = noGroup
  noValue = noValue

  DcnHosts = {h1, h2}
  NoHost = noHost
  AllHosts = allHosts
  DcnRequests = {q1, q2}
  DcnMaxFaults = 2

  TtHosts = {h1}
  TtRequests = {q1, q2}
  TtMaxFaults = 1

  SsProfiles <- MCProfiles
  SsMaxFaults = 2

  LzThreads = {t1, t2, t3}
  LzNobody = nobody

  TvUrls = {urlA, urlB}
  TvNoUrl = noUrl
  TvEnd <- MCEnd
  TvUrlView <- MCUrlView
  TvViews <- MCViews
  TvMinFetch = 16
  TvMaxCalls = 3

  SiInputs <- MCInputs
  SiMaxSteps = 2

  EsTypes = {1, 2, 3}
  EsEvents <- MCEvents
  EsMaxLen = 3

  DlTags <- MCTags
  DlPaths <- MCPaths
  DlLengths = {1, 4}
  DlGaps = {0, 9}
  DlNs = 2
  DlMaxInputs = 3

  TlResolution <- MCResolution
  TlRows = {rowA, rowB, rowC}
  TlCounters = {rowC}
  TlFlows = {1}
  TlKinds <- MCKinds
  TlMaxEvents = 4

  CwChunks = 4
  CwWindow = 2
  CwThreads = 2

  DcEnd = 3
  DcSpans <- MCSpans

  DbEnd = 3
  DbKeys <- MCKeys
  DbRing = 2
  DbMaxDisplay = 3
  DbFew = 30
  DbMuch = 60
  DbMaxMessages = 3

  SlRendezvous = {collA, collB}
  SlTimes <- MCTimes
  SlLengths = {2}
  SlMaxOps <- MCMaxOps
  SlMaxTrace = 7
  SlHosted = {collA}
  SlMaxEvents = 2

  MpSizes <- MCSizes
  MpThreads = 2
  MpSteps = {1}
  MpBases = {{2}}
  MpStacks = {1}
  MpMaxSamples = 2
  MpMaxEvents = 4

  HsBuffers = {bufA, bufB, bufC, bufD}
  HsSize <- MCBufferSize
  HsAllocation <- MCAllocation
  HsIndefinite <- MCIndefinite
  HsSmall = 2
  HsNone = noBuffer
  HsMaxEvents = 6

  OmWord = 1024
  OmIdle = idleOp
  HoKinds <- MCHostKinds
  HoInfeed = {opG}
  HoEnd = 3
  HoMaxEvents = 3

  DoKernels <- MCKernels
  DoNoGroup = noGroup
  DoFlops <- MCFlops
  DoTfOp <- MCTfOp
  DoLengths = {2}
  DoWaits = {0, 1}
  DoMaxEvents = 3

  ToOps = {opF, opG}
  OmNoSymbol = noOp
  ToOffloads = {{}, {1}}
  ToModuleSets <- MCModuleSets
  ToSteps <- MCTpuSteps
  ToEnd = 3
  ToMaxOps = 3

  FcProcesses <- MCProcesses
  FcThreads <- MCThreads
  FcNone = noValue
  FcKinds <- MCChartKinds
  FcMarks <- MCMarks
  FcCounters <- MCCounters
  FcMaxEvents = 3
  FcMaxMarks = 2

  IhTraces <- MCTraces
  IhNone = noValue

  IsInputs <- MCStats
  IsColumns = {"time", "size"}
  IsWanted <- MCWanted
  IsMaxSelected = 1
  IsMaxFaults = 1

  SdTraces <- MCSdTraces
  SdEnough = 5
  TsTraces <- MCTsTraces
  IpHostOps <- MCHostOps

INVARIANTS
  ToolsTypeOK
  
  
  TtUndisturbedAnswer
  
  LzEveryGetIsTheSame
  TvShowsTheLastAsked
  TvCanAskAgain
  SiStepsExist
  StepsAreRight
  
  
  CwBothTablesOrError
  CwSomeoneGoesOn
  CollectivesAreMeasured
  DcActiveIsMeasured
  MemoryIsExplained
  HsPeakIsReal
  OpTimesAreMeasured
  FcLayoutIsTrue
  InferenceIsRight

CHECK_DEADLOCK FALSE
