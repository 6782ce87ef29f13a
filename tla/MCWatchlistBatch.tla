-------------------------- MODULE MCWatchlistBatch --------------------------
(* Small instances of WatchlistBatch for TLC.                              *)
EXTENDS WatchlistBatch

CONSTANTS spy, qqq, aapl

TwoTickers == <<spy, qqq>>
ThreeTickers == <<spy, qqq, aapl>>
=============================================================================
