CONSTANTS
  Client = {c1}
  Ticker = {spy, qqq}
  spy = spy
  qqq = qqq
  c1 = c1
  Filter <- MCFilter
  QueueMax = 1
  MaxMessages = 3
SPECIFICATION FairSpec
INVARIANTS InOrder
PROPERTIES LatestArrives
