SPECIFICATION Spec
CONSTANTS
  r1 = r1
  r2 = r2
  r3 = r3
  r4 = r4
  vertexMain = vertexMain
  fragmentMain = fragmentMain
  Requests = {r1, r2, r3, r4}
  Names = {vertexMain, fragmentMain}
  NameOf <- MCNameOf
  MaxClears = 2
INVARIANTS
  NoStrandedHandler
  CompilesBoundedByClears
PROPERTIES
  EachHandlerOnce
CHECK_DEADLOCK FALSE
