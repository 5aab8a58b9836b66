CONSTANTS
  None = None
  Packets <- SmallTraffic
  Rules = {1, 2}
  Policies <- BothPolicies
  MaxActiveFlows = 1
  MaxPackets = 2
  MaxFailures = 1
  MaxInterrupts = 1
SPECIFICATION FairSpec
INVARIANTS TypeOK FlowsAccounted EventsAccounted UntrustedLeavesNoTrace CountsBalance DetectionsBeforeEvent TaggedIsCounted
PROPERTIES FirstErrorKept Progress ImplementsJournal
CHECK_DEADLOCK FALSE
