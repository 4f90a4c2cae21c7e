SPECIFICATION FairSpec
CONSTANTS
  s1 = s1
  a1 = a1
  h1 = h1
  b1 = b1
  u1 = u1
  Requests = {s1, a1, h1, b1, u1}
  Kind <- MCKind
  Pubs = {p1}
  NoMsg = NoMsg
  UseTimer = TRUE
  MaxFaults = 1
INVARIANTS TypeOK WriteOwnsFront OwnId
PROPERTIES PromiseSpec Served IdleCloses
CHECK_DEADLOCK FALSE
