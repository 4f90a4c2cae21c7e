SPECIFICATION FairSpec
CONSTANTS
  n1 = n1
  n2 = n2
  t1 = t1
  Conns = {c1, c2}
  Names = {n1, n2}
  Tokens = {t1}
  TokenOf <- MCTokenOf
  Within <- MCWithin
  NoToken = NoToken
  NoConn = NoConn
INVARIANTS TypeOK Tracked ReportedOnce TokensUsed JoinedOnce
PROPERTIES Forgotten StopEnds
CHECK_DEADLOCK FALSE
