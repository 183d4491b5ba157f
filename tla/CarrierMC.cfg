SPECIFICATION PartsSpec
CONSTANTS
  Modes = {"h1", "h3", "bidi"}
  Capacity = 1
  Window = 1
  MaxWrites <- MCMaxWrites
  ClientModes = {"packet-up", "stream-up"}
  PathPrefixes <- MCPrefixes
  Placements = {"path", "query", "header", "cookie"}
  SeqPlacements = {"path", "query", "header", "cookie"}
  Pins <- MCPins
  Host <- MCHost
  Sid = sid
  store = store
  Chunks <- MCChunks
  Pipe = 2
  None = None
INVARIANTS
  EndIsComplete UploadComplete
PROPERTIES
  FailureReachesAll
