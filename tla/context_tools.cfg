CONSTANTS
  Lines <- MCLines
  Silent = "silent"
  StandStill = "stand_still"
  Mark <- MCMark
  Calls <- MCCalls
  Keep = 2
  LineLimit = 3
  PinLimit = 2
  FactLimit = 2
  Room = 2
  Requests = {"r1"}
  Bodies <- MCBodies
  Weight <- MCWeight
  CompactAt = 4
  HardAt = 6
SPECIFICATION Spec
INVARIANT ToolLoopsWhole
