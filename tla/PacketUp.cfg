SPECIFICATION FairSpec
CONSTANTS
    NumSeq = 3
    Resent = {1}
    Gets = {g1, g2}
    MaxBuffered = 1
    ChunkLen = 1
    PipeCap = 1
    Envs = {{}, {"overlap"}, {"cancel"}, {"overlap", "cancel"}}
CHECK_DEADLOCK FALSE
INVARIANTS InOrder SessionConserved
PROPERTY Delivered
