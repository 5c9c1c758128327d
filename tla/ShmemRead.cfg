SPECIFICATION Spec
CONSTANTS
  Slots = 2
  Pids <- MCPids
  SignBit = 4
  MaxUint = 3
  Usages <- MCUsages
  Quotas <- MCQuotas
  MaxStores = 3
  Nil = Nil
INVARIANTS
  ShmemTypeOK
  UsageOfHolder
  LimitIsQuota
  SumIsExact
