SPECIFICATION Spec
CONSTANTS
  Cards = {c1}
  Templates <- MCTemplates
  NoTemplate = NoTemplate
  Vir01 <- MCVir01
  AICore <- MCAICore
  Memory <- MCMemory
  MaxIndex = 5
INVARIANT
  FreeSliceAllocatable
