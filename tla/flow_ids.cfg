CONSTANTS
  e1 = e1
  e2 = e2
  e3 = e3
  None = None
  PortOf <- SmallPorts
  KnownPorts = {3}
  Endpoints = {e1, e2}
  Channels <- OneConnection
  FlagSets <- OpenAndReset
  Apps = {None}
  Times <- Instant
  MaxLateness = 2
  UdpTimeout = 1
  HandshakeTimeout = 1
  LingerTimeout = 1
  IdleTimeout = 2
  SweepInterval = 2
  MaxActiveFlows = 1
  MaxPackets = 3
  RequiresFinalAck = FALSE
SPECIFICATION Spec
INVARIANTS FlowIdsDistinct
CHECK_DEADLOCK FALSE
