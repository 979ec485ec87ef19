SPECIFICATION Spec
CONSTANTS
  Callers = {main, analysis}
  MaxToken = 5
INVARIANTS
  TypeOK
  GeneratingHasRun
PROPERTY
  GenerationEnds
CHECK_DEADLOCK FALSE
