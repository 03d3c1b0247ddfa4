CONSTANTS
  Faults = {"init", "spawn"}
  MaxEnv = 2
SPECIFICATION Spec
CHECK_DEADLOCK FALSE
PROPERTIES
  ServiceStops
