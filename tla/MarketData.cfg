CONSTANTS
  Threshold = 1
  Price = {1, 2}
  LastMinute = 2
  MaxSamples = 3
SPECIFICATION MarketSpec
INVARIANTS RowLiveIsRecent SlotSummarises
