SPECIFICATION FairSpec
CONSTANTS
    Sids = {s1, s2}
    Targets = {far, near}
    Chained = {far}
    Addrs = {a1, a2}
    Links = {l1, l2}
    None = none
    Local = local
    Vision = TRUE
    RespCap = 1
    TunCap = 1
    PipeCap = 1
    MaxFrames = 3
    MaxReplies = 2
CHECK_DEADLOCK FALSE
INVARIANT AnsweredToAsker
PROPERTY Reaped
