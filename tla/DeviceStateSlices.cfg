SPECIFICATION StateSpec
SYMMETRY ClaimSymmetry
CONSTANTS
  Cards = {c1}
  Templates <- TwoTemplates
  NoTemplate = NoTemplate
  Vir01 <- MCVir01
  AICore <- MCAICore
  Memory <- MCMemory
  MaxIndex = 5
  Claims = {a, b}
  Core = FALSE
  Legacy = {}
  None = None
  Faults = {"read", "spec", "checkpoint", "unspec"}
  MaxFaults = 1
  MaxTokens = 3
  MaxDevices = 1
  Configs = {"valid", "rejected"}
INVARIANTS
  
  SlicesDistinct
  FullCardExclusive
  IdleCardIsWhole
  StateTypeOK
  SpecMatchesSlice
PROPERTY
  ReleaseIsLocal
