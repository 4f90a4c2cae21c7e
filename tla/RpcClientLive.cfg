SPECIFICATION FairSpec
CONSTANTS
  Calls = {c1, c2}
  Callbacks = {c1}
  Subs = {}
  Pubs = {}
  Beats = {b1}
  NoMsg = NoMsg
  AutoReconnect = TRUE
  EarlyCalls = FALSE
  UserCloses = FALSE
  Reconnects = 0
  MaxFaults = 2
CHECK_DEADLOCK FALSE
PROPERTIES RepliesFinal Answered Reconnected
INVARIANTS GenuineReplies
