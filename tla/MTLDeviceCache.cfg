SPECIFICATION Spec
CONSTANTS
  Devices = {egpu}
  Formats = {rgba16Float}
  DefaultFormat = rgba16Float
  AnyFormat = anyFormat
  Plugins = {noPlugin, oscPlugin}
  NoPlugin = noPlugin
  Threads = {t1, t2}
  InitialQueues = 1
  MaxItems = 2
  MaxNotices = 2
SYMMETRY ThreadSymmetry
INVARIANTS
  QueueExclusive
  NoQueueLeak
  LookupsAddNoDuplicate
  PoolsBounded
PROPERTY LeasesKept
