CONSTANTS
  e1 = e1
  e2 = e2
  e3 = e3
  None = None
  PortOf <- SmallPorts
  KnownPorts = {3}
  Endpoints = {e1, e2, e3}
  Channels <- ThreeTuples
  FlagSets <- OpenAndClose
  Apps = {None}
  Times <- Clock4
  MaxLateness = 2
  UdpTimeout = 2
  HandshakeTimeout = 1
  LingerTimeout = 1
  IdleTimeout = 2
  SweepInterval = 2
  MaxActiveFlows = 2
  MaxPackets = 4
  RequiresFinalAck = FALSE
SPECIFICATION Spec
INVARIANTS TypeOK Conservation FlowsOfKeyDisjoint BoundedStaleness ReasonJustified
PROPERTIES OwnFlowSurvives EvictsLeastRecent ImplementsLedger
CHECK_DEADLOCK FALSE
