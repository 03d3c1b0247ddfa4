CONSTANTS
  p1 = p1
  p2 = p2
  self = self
  a = a
  b = b
  x = x
  k1 = k1
  k2 = k2
  NULL = NULL
  ProcOrder <- MCProcOrder
  SelfPid = self
  UserMods <- MCUserMods
  Exes = {x}
  KernelMods <- MCKernelMods
  ModOrder <- MCModOrder
  KernelPathMods = {}
  KernelMissing = {k1}
  Faults <- MCNoFaults
  HaveZwQuery = TRUE
  MaxPasses = 3
  MaxEnv = 2
  MaxSessions = 2
SPECIFICATION Spec
CHECK_DEADLOCK FALSE
INVARIANTS
  NoLeakedRecord
PROPERTIES
  RegistryRefinement
