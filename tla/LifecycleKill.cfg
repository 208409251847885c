SPECIFICATION Spec
CONSTANTS
    NSLOT = 3
    NREG = 3
    GenMax = 12
    MAX_CHILD = 2
    MaxPid = 3
    ForkKinds <- MCFork
    ExitKinds <- MCExit
    SigKinds <- MCKill
    WaitPids <- MCAnyChild
    MaxExec = 1
    MaxSig = 1
    MaxFail = 0
    MaxHalt = 0
    MaxRun = 1
    LateExecFail = FALSE
PROPERTIES
    KillKept
CHECK_DEADLOCK FALSE
