CONSTANTS
  Price = {1, 2}
  Iv = {1, 2}
  DaySlots = 4
  OpenSlot = 1
  Weekend = {1}
  MaxAge = 2
  LastSlot = 9
  MaxVersions = 2
  MaxDistance = 100
  WingMin = 1
  WingMax = 2
  MaxLegs = 4
  MinCredit = 1
  MinLegOi = 2
  TopN = 2
  WhatIfMax = 2
  Window = 3
  Amounts = {0, 1, 2, 3, 4, 5}
  Enough = 2
  NoContract = NoContract
SPECIFICATION FairSpec
INVARIANTS BasisIsLive RowsAreHonest OrdersAreWellSpent
PROPERTIES SkipsAreSpaced MoveIsRecalculated
