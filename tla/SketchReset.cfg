CONSTANTS
  UnitSize = 8
  Granularity = 2
  Capacity = 4
  MaxCount = 3
  Rows = {1, 2}
  Accesses <- MCAccesses
  Index <- MCIndex
  Half <- MCHalf
  Threads = {h1, h2}
  Patient = FALSE
  MustResets = FALSE
  MaxCalls = 5
SPECIFICATION Spec
PROPERTIES HalvedWhenReached
\* After MaxCalls calls nothing is left to do.
CHECK_DEADLOCK FALSE
