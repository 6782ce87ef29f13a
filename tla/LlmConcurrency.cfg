SPECIFICATION FairSpec
CONSTANTS
  Call = {c1, c2, c3, c4}
  MaxLlm = 2
  MaxLoop = 2
  MaxWaiting = 4
INVARIANTS NoLostWakeup
PROPERTIES WaitersServed ImplementsPool
