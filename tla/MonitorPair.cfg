SPECIFICATION OpenSpec
CONSTANTS
  Claims = {c1, c2}
  Cards = {x}
  Pods = {p}
  CardsOf <- EveryCard
  UsedBy <- AllUsed
  Restored = {}
  Unsupported = {}
  Interval = 1
  MaxAge = 1
  MaxClock = 1
  MaxTokens = 2
  MaxEnds = 2
  NoClaim = NoClaim
  NoPod = NoPod
INVARIANTS EndedNotShown MemoryOfLifetime NoDuplicateSeries MonitorTypeOK
CHECK_DEADLOCK FALSE
