SPECIFICATION FairDriverSpec
CONSTANTS
  Cards = {c1}
  Templates <- TwoTemplates
  NoTemplate = NoTemplate
  Vir01 <- MCVir01
  AICore <- MCAICore
  Memory <- MCMemory
  MaxIndex = 5
  Claims = {a, b}
  Core = FALSE
  Legacy = {}
  None = None
  Faults = {"checkpoint", "publish", "crash", "unspec", "read"}
  MaxFaults = 1
  MaxTokens = 2
  MaxDevices = 1
  Configs = {"valid"}
INVARIANTS
  DriverTypeOK
  WholeCardClaimAlone
  PreparedStaysListed
PROPERTY
  PublishCatchesUp
