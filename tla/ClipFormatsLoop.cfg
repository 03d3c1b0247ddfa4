CONSTANTS
  PeerAtoms = {"COMPOUND_TEXT", "UTF8_STRING", "text/plain", "STRING", "TARGETS", "image/png"}
  MaxTargets = 3
SPECIFICATION Spec
INVARIANTS
  TextFormatLoopAgrees
  CreateTargetsLoopAgrees
