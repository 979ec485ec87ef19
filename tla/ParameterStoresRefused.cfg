SPECIFICATION Spec
CONSTANTS
  Entries = {"tag", "reset"}
  Configured = {"reset"}
  Refusable = {"meta"}
  MaxEdits = 2
INVARIANTS
  MetaClean
