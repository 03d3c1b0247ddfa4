CONSTANTS
  p1 = p1
  p2 = p2
  self = self
  a = a
  b = b
  x = x
  k1 = k1
  k2 = k2
  NULL = NULL
  ProcOrder <- MCProcOrder
  SelfPid = self
  UserMods <- MCUserMods
  Exes = {x}
  KernelMods <- MCKernelMods
  ModOrder <- MCModOrder
  KernelPathMods = {}
  KernelMissing = {}
  Faults <- MCVersionFault
  HaveZwQuery = FALSE
  MaxPasses = 2
  MaxEnv = 1
  MaxSessions = 1
SPECIFICATION Spec
CHECK_DEADLOCK FALSE
PROPERTIES
  RegistryRefinement
