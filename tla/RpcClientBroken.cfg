SPECIFICATION Spec
CONSTANTS
  Calls = {c1, c2}
  Callbacks = {c1}
  Subs = {s1}
  Pubs = {p1}
  Beats = {}
  NoMsg = NoMsg
  AutoReconnect = FALSE
  EarlyCalls = FALSE
  UserCloses = FALSE
  Reconnects = 0
  MaxFaults = 1
CHECK_DEADLOCK FALSE
INVARIANTS AssertionsHold
