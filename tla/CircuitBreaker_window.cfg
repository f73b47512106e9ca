SPECIFICATION Spec
CONSTANTS
  o1 = o1
  o2 = o2
  o3 = o3
  Outcomes = {o1, o2, o3}
  Window = 2
  Buffer = 1
  MinCalls = 2
  Percent = 50
  RedisFails = TRUE
  WritesFail = TRUE
  MaxClock = 3
  MaxResumes = 1
SYMMETRY Symmetry
INVARIANTS
  TypeOK
  OverloadIsSeen
PROPERTIES
  CountsTheWindow
CHECK_DEADLOCK FALSE
