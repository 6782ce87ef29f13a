CONSTANTS
  Research = {r1, r2}
  Refresh = {b1, b2}
  NoReport = NoReport
  RedisUrlOk = TRUE
SPECIFICATION FairSpec
\* Every report is made once, so the model stops when all of them have ended.
CHECK_DEADLOCK FALSE
INVARIANTS CardOfOneRefresh DecisionBacked
PROPERTIES ClearedStaysCleared TerminalIsFinal WorkEnds
