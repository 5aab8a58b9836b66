CONSTANTS
  e1 = e1
  e2 = e2
  e3 = e3
  None = None
  PortOf <- SmallPorts
  KnownPorts = {3}
  Endpoints = {e1, e2}
  Channels <- BothProtocols
  FlagSets <- AllFlagSets
  Apps = {"HTTP", "DNS"}
  Times <- Instant
  MaxLateness = 1
  UdpTimeout = 1
  HandshakeTimeout = 1
  LingerTimeout = 1
  IdleTimeout = 2
  SweepInterval = 1
  MaxActiveFlows = 2
  MaxPackets = 5
  RequiresFinalAck = TRUE
SPECIFICATION Spec
INVARIANTS StateWitnessed
PROPERTIES IdentityStable RolesSettled EstablishedPersists
CHECK_DEADLOCK FALSE
