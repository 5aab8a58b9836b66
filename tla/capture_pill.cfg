CONSTANTS
  Capacity = 2
  MaxPackets = 3
  Pill = Pill
SPECIFICATION FairSpec
PROPERTIES SnifferEndEndsCapture
CHECK_DEADLOCK FALSE
