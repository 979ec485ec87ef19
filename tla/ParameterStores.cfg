SPECIFICATION Spec
CONSTANTS
  Entries = {"tag", "reset"}
  Configured = {"reset"}
  Refusable = {"flags"}
  MaxEdits = 2
INVARIANTS
  TypeOK
  MetaClean
  UntouchedKept
  FlagsInStep
PROPERTIES
  FlushCaptures
