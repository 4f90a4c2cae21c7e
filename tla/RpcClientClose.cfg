SPECIFICATION Spec
CONSTANTS
  Calls = {c1, c2}
  Callbacks = {c1}
  Subs = {s1}
  Pubs = {p1}
  Beats = {b1}
  NoMsg = NoMsg
  AutoReconnect = FALSE
  EarlyCalls = TRUE
  UserCloses = TRUE
  Reconnects = 1
  MaxFaults = 2
CHECK_DEADLOCK FALSE
PROPERTIES PromiseSpec
INVARIANTS TypeOK WriteOwnsFront RepliesExpected
