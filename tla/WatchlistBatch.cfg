SPECIFICATION FairSpec
CONSTANTS
  spy = spy
  qqq = qqq
  aapl = aapl
  NoTicker = NoTicker
  Ticker = {spy, qqq, aapl}
  Watchlist <- ThreeTickers
  Batch = {b1, b2}
INVARIANTS NothingStranded RefreshedOnce
PROPERTIES BatchCoversWatchlist BatchReturns ImplementsBoard EveryRequestBegun
