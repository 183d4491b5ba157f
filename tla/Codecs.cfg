SPECIFICATION Spec
CONSTANTS
  None = None
  RandomLen = 2
  HrrRandom = 53025
  SessionMax = 3
  Samples <- MCSamples
  Altered = {0, 1, 4, 20, 43, 255}
  IdLen = 2
  V4Len = 2
  V6Len = 3
  FlowName <- MCFlow
  NoneName <- MCNone
  VarintMax = 3
  MetaMax = 12
  Wide = 5
  Bits <- MCBits
  ByteMod = 256
  SidLen = 4
INVARIANTS
  EncodingsAgree WireUnderstood RoutesAsConfigured DeploymentServes
CHECK_DEADLOCK FALSE
