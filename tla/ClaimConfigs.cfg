SPECIFICATION Spec
CONSTANTS
  Requests = {r1, r2}
  Devices = {d1, d2}
  Templates = {"t", "u"}
  NpuConfigs <- MCNpuConfigs
  Quotas <- MCQuotas
  Capacity <- MCCapacity
  MiB = 2
  MaxConfigs = 2
  MaxResults = 2
  Nil = Nil
  NoTemplate = NoTemplate
INVARIANTS ConfigsTypeOK ConfigPrecedence SupportedSeesAll 
CHECK_DEADLOCK FALSE
