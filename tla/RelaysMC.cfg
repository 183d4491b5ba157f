SPECIFICATION PartsSpec
CONSTANTS
  HeaderLen = 2
  MaxRecord = 6
  Lo = 0
  Hi = 2
  MaxBytes = 9
  MaxWrite = 4
  MaxUp = 2
  MaxDown = 3
  Ahead = 1
  KeyUpdates = 1
  FilterMax = 2
  InnerTls = TRUE
  PlainUp = 4
  PlainDown = 2
  MaxEmpty = 1
  Cap = 1
  Uuid <- MCUuid
  Streams <- MCStreams
  MaxPad = 2
  Seed <- MCSeed
  BufSize = 11
  PadFrames = 2
  Base = 2
  ReadMax = 12
INVARIANTS
  HelloSplit UplinkFaithful DownlinkDecodable ContentExact
PROPERTIES
  Relayed SilenceReaped
