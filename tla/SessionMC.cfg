SPECIFICATION PartsSpec
CONSTANTS
  Scripts <- MCScripts
  ClientKinds = {"plain", "veil", "xhttp", "h3", "raw", "chain"}
  Tags = {"block", "direct", "proxy", "unknown"}
  Hellos <- MCHellos
  Responses <- MCResponses
  AppPayload <- MCAppPayload
  Request = 100
  AppData <- MCAppData
  ATTEMPTS = 3
  UplinkPosts = {p1, p2}
  DownlinkGets = {g1, g2}
  None = none
  ChanCap = 1
CHECK_DEADLOCK FALSE
INVARIANTS
  PairingExclusive BothSidesExact GaugesReturn RequestOnce PayloadExact
PROPERTIES
  PairServed 
