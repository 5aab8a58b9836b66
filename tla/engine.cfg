CONSTANTS
  None = None
  Rules <- SmallRules
  Events <- SmallEvents
  MaxEvents = 2
  Enabled = TRUE
SPECIFICATION Spec
INVARIANTS TypeOK DetectionsExact StatisticsBalance
CHECK_DEADLOCK FALSE
