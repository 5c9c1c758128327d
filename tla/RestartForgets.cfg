SPECIFICATION StateSpec
CONSTANTS
  Cards = {c1}
  Templates <- OneTemplate
  NoTemplate = NoTemplate
  Vir01 <- MCVir01
  AICore <- MCAICore
  Memory <- MCMemory
  MaxIndex = 4
  Claims = {a, b}
  Core = FALSE
  Legacy = {}
  None = None
  Faults = {"crash"}
  MaxFaults = 1
  MaxTokens = 2
  MaxDevices = 1
  Configs = {"valid"}
INVARIANT
  PreparedSlicesInUse
