SPECIFICATION Spec
CONSTANTS
  Threads = {t1, t2, t3}
  States = {bgra8, rgba8, rgba16Float}
  Limit = 2
  Library = library
  Builds = {1, 2, 3, 4, 5}
INVARIANTS
  NobodyWaitsInACircle
  OneBuildPerKey
  LimitKept
PROPERTIES
  AnswersWithABuild
  EveryCallReturns
