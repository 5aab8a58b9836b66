CONSTANTS
  None = None
  Rules <- SmallRules
  Events <- SmallEvents
  MaxEvents = 1
  Enabled = TRUE
SPECIFICATION Spec
INVARIANTS ConsistentAfterRun
CHECK_DEADLOCK FALSE
