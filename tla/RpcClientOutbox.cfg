SPECIFICATION Spec
CONSTANTS
  Calls = {c1, c2}
  Callbacks = {c1}
  Subs = {s1}
  Pubs = {}
  Beats = {}
  NoMsg = NoMsg
  AutoReconnect = FALSE
  EarlyCalls = TRUE
  UserCloses = FALSE
  Reconnects = 0
  MaxFaults = 0
CHECK_DEADLOCK FALSE
INVARIANTS WriteOutstanding
