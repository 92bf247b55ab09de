SPECIFICATION Spec
CONSTANTS
  noRegexp = noRegexp
  NoRegexp = noRegexp
  NoProfile = noProfile
  Libraries = {"lib.so"}
  FuncForPC <- SmallFuncForPC
  PageSize = 4
  Simplified <- SmallSimplified
  Wires <- SmallWires
  Texts <- SmallTexts
  MaxAddress = 63
  ExpectedStart = 16
  SimilarSamples = 3
  FrameRegexps <- SmallFrameRegexps
  Weight <- SmallWeight
  Regexps <- SmallRegexps
  Filters <- SmallFilters
  Ratios <- SmallRatios
  LabelKeys = {"k"}
  MaxOperations = 1
  CPUProfiles <- SmallCPUProfiles
  BlockProfiles <- SmallBlockProfiles
  HeapProfiles <- SmallHeapProfiles
  Durations = {1, 4}
  ServeHTTPNames = {"ServeHTTP"}
  ServerFiles = {"server.go"}
  MinAllocation = 2
  NumCPU = 1
  Goexit = "goexit"
  AgentFiles = {"agent.go"}
  ProfileAgent = FALSE
  MaxRecords = 2
PROPERTY MatchingRootEmptiesStack
