SPECIFICATION FairStartupSpec
CONSTANTS
  n1 = n1
  n2 = n2
  p1 = p1
  p2 = p2
  p3 = p3
  None = None
  Nodes = {n1, n2}
  Pods = {p1, p2, p3}
  NodeOf <- MCNodeOf
  Image <- MCImage
  Files = 2
  Faults = {"copy", "signal", "kill", "query", "share", "chip", "vdevs", "files", "api", "crash"}
  MaxFaults = 1
  Fleets <- MCFleets
  TemplateTypes <- MCTypes
  MaxVirtualDeviceNum = 2
  Known = {n2}
  SafeChip <- MCSafe
  OldClasses <- MCOldClasses
  MaxVersion = 8
INVARIANTS
  StartupTypeOK
  InstalledIdentical
  SharedBeforeServed
  ListsAllOrNothing
  FinishedNodeServed
PROPERTIES
  NeverOverwritten
  RightClassesStay
  NodesComeUp
CHECK_DEADLOCK FALSE
