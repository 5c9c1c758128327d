SPECIFICATION OpenSpec
CONSTANTS
  Claims = {c1}
  Cards = {x}
  Pods = {p}
  CardsOf <- EveryCard
  UsedBy <- AllUsed
  Restored = {c1}
  Unsupported = {}
  Interval = 1
  MaxAge = 1
  MaxClock = 3
  MaxTokens = 1
  MaxEnds = 0
  NoClaim = NoClaim
  NoPod = NoPod
INVARIANTS FreshWhenShown ReadyIsShown
CHECK_DEADLOCK FALSE
