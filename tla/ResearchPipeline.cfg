CONSTANTS
  Run = {r1, r2}
  Caller = {"route", "socket", "batch"}
  Order <- MCOrder
  Source = {"finnhub", "newsapi"}
  From <- MCFrom
  Reliability <- MCReliability
  Fingerprint <- MCFingerprint
  Similar <- MCSimilar
  Mentions <- MCMentions
  None = None
  Close = Close
  Live = Live
  DilEnabled = TRUE
  MaxFaults = 1
  Prices = {1, 2, 3, 4, 5, 6, 7, 8}
  Mass = {0, 1}
  Keys = {"quarter", "sector"}
  Path = {8, 9, 10, 12, 14}
SYMMETRY Symmetry

SPECIFICATION Spec
CHECK_DEADLOCK FALSE
INVARIANTS ReportIsBacked DeliberatedOnce FailuresAreContained PriceIsOne
           StoryKept BlocksAreSound CardsAreConsistent
