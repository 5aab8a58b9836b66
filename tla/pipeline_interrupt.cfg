CONSTANTS
  None = None
  Packets <- TwoTalks
  Rules = {1}
  Policies <- BothPolicies
  MaxActiveFlows = 2
  MaxPackets = 2
  MaxFailures = 0
  MaxInterrupts = 1
SPECIFICATION Spec
INVARIANTS EndFlushesAll
CHECK_DEADLOCK FALSE
