SPECIFICATION FairSpec
CONSTANTS
  Claims = {c1}
  Cards = {}
  Pods = {p}
  CardsOf <- EveryCard
  UsedBy <- AllUsed
  Restored = {}
  Unsupported = {}
  Interval = 1
  MaxAge = 1
  MaxClock = 3
  MaxTokens = 0
  MaxEnds = 0
  NoClaim = NoClaim
  NoPod = NoPod
PROPERTIES RefreshesGoOn CloseEnds
CHECK_DEADLOCK FALSE
