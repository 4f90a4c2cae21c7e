CONSTANTS
  UnitSize = 8
  Granularity = 2
  Capacity = 4
  MaxCount = 3
  Rows = {1, 2}
  Accesses <- MCAccesses
  Index <- MCIndex
  Half <- MCHalf
  Threads = {h1, h2}
  Patient = TRUE
  MustResets = TRUE
  MaxCalls = 5
SPECIFICATION FairSpec
INVARIANTS TypeOK NodesCount NeverUnder UnderByLevels
PROPERTIES CountingResumes
\* After MaxCalls calls nothing is left to do.
CHECK_DEADLOCK FALSE
