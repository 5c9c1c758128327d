SPECIFICATION Spec
CONSTANTS
  Requests = {r1}
  Devices = {d1, d2}
  Templates = {"t", "u"}
  NpuConfigs <- MCTemplateConfigs
  Quotas <- MCQuotas
  Capacity <- MCCapacity
  MiB = 2
  MaxConfigs = 2
  MaxResults = 1
  Nil = Nil
  NoTemplate = NoTemplate
INVARIANT TemplatePrecedence
CHECK_DEADLOCK FALSE
