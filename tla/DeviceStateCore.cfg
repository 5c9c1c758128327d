SPECIFICATION FairStateSpec
CONSTANTS
  Cards = {c1}
  Templates <- OneTemplate
  NoTemplate = NoTemplate
  Vir01 <- MCVir01
  AICore <- MCAICore
  Memory <- MCMemory
  MaxIndex = 10
  Claims = {a, b}
  Core = TRUE
  Legacy = {b}
  None = None
  Faults = {"read", "mkdir", "spec", "checkpoint", "unspec", "rmdir", "crash"}
  MaxFaults = 2
  MaxTokens = 4
  MaxDevices = 1
  Configs = {"valid", "unreadable", "rejected"}
INVARIANTS
  TokensFollowCheckpoint
  PreparedHasFiles
PROPERTIES
  TokensAreLifetimes
  UnprepareCompletes
