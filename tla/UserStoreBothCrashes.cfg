SPECIFICATION Spec
CONSTANTS
    Users = {u1, u2}
    Seed = {u1}
    Tasks = {t1, t2}
    Boot = boot
    None = none
    Crashes = {"kill", "power"}
    DirSyncMayFail = FALSE
INVARIANT PromiseKept
