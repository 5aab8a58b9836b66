CONSTANTS
  Capacity = 2
  MaxPackets = 5
  Pill = Pill
SPECIFICATION FairSpec
INVARIANTS TypeOK InOrderOnce DrainedIsComplete
PROPERTIES PillEndsCapture StopEndsSniffer
CHECK_DEADLOCK FALSE
