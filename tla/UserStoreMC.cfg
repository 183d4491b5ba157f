SPECIFICATION WorldsSpec
CONSTANTS
    Users = {u1, u2}
    Seed = {u1}
    Tasks = {t1, t2}
    Boot = boot
    None = none
    Crashes = {"power"}
    DirSyncMayFail = FALSE
INVARIANTS PromiseKept PromiseSurvivesKill
PROPERTIES ImplementsUserSet RequestsAnswered
