CONSTANTS
  Accuracies = {56, 58}
  MaxVersions = 2
  Runs = {"scheduled", "manual"}
  Threshold = 57
  Improvement = 2
  MaxDrop = 2
  MaxLoops = 1
  Durations <- MCDurations
  Allocations <- MCAllocations
  Candidates = {"v1", "v2"}
  Degradations = {5, 6}
  MaxDays = 13
  MaxFeatures = 4
  MaxChecks = 2
  AlertKeys = {k1, k2}
  Channels = {"webhook"}
  Severities = {1, 3}
  MinSeverity = 2
  Throttle = 2
  MaxMinutes = 5
  Window = 2
  Models = {"m1", "m2"}
  Vectors = {x1}
  Versions = {1, 2}
  CacheTtls = {0, 2}
  CacheSize = 1
  Requests = {q1}
  MaxClock = 3
  MaxRequests = 2
  Names = {"a", "b", "c"}
  UnknownName = "u"
  Symbols = {s1}
  Asked = {{}, {"a"}, {"a", "b"}}
  StoreTtl = 2
  MaxReplaced = 1
  MaxSeconds = 2
SPECIFICATION MlopsSpec
INVARIANTS
  CapitalKeepsUp
  AlertsSpaced
  AnswersAccountFor
  DependenciesFirst
PROPERTIES
  ImprovesUnlessRaced
CHECK_DEADLOCK FALSE
