CONSTANTS
  p1 = p1
  p2 = p2
  self = self
  a = a
  b = b
  x = x
  k1 = k1
  k2 = k2
  NULL = NULL
  ProcOrder <- MCProcOrder
  SelfPid = self
  UserMods <- MCUserMods2
  Exes = {x}
  KernelMods <- MCKernelMods
  ModOrder <- MCModOrder2
  KernelPathMods = {k2}
  KernelMissing = {k1}
  Faults <- MCAllFaults
  HaveZwQuery = TRUE
  MaxPasses = 2
  MaxEnv = 1
  MaxSessions = 2
SPECIFICATION Spec
CHECK_DEADLOCK FALSE
INVARIANTS
  PSTypeOK
  NoDanglingRecord
