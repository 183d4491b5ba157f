SPECIFICATION FairSpec
CONSTANTS
    Sids = {s1}
    Targets = {far}
    Chained = {far}
    Addrs = {a1, a2}
    Links = {l1}
    None = none
    Local = local
    Vision = FALSE
    RespCap = 1
    TunCap = 1
    PipeCap = 1
    MaxFrames = 3
    MaxReplies = 4
CHECK_DEADLOCK FALSE
PROPERTY Reaped
