SPECIFICATION Spec
CONSTANTS
    NumSeq = 3
    Resent = {}
    Gets = {g1}
    MaxBuffered = 2
    ChunkLen = 1
    PipeCap = 2
    Envs = {{"overlap"}}
CHECK_DEADLOCK FALSE
INVARIANT ReleasedInOrder
