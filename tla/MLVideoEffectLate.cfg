SPECIFICATION Spec
CONSTANTS
  Callers = {main}
  MaxToken = 6
PROPERTY
  LateResultIgnored
CHECK_DEADLOCK FALSE
