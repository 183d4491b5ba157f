SPECIFICATION PartsSpec
CONSTANTS
  None = None
  Threads = {t1, t2}
  Lifetime = 1
  Kinds = {"Switcher", "Rotator"}
  MaxClock = 3
  MaxKeys = 5
  Scripts <- MCScripts
  HsHeader = 2
  MaxHs = 3
  JoinMax = 16
  WireMax = 9
  ReadSize = 4
  MaxEmpty = 2
  Budget = 6
  Confs <- MCConfs
  MaxUpdates = 2
  Writes <- MCWrites
  MaxFrag = 2
  Limits <- MCLimits
  IovMax = 2
  MaxRead = 2
  MaxPad = 1
  MaxPayload = 300
  Plans <- MCPlans
  WriteMax = 3
  SoftLimit = 8
  HardLimit = 10
  TicketLen = 2
  KeyUpdates = 3
INVARIANTS
  TicketLasts DeliveredExactly OneKeyPerUse PeersUnderstand
PROPERTIES
  WrittenIsRead OneByteQueue
