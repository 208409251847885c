SPECIFICATION Spec
CONSTANTS
    NSLOT = 2
    NREG = 3
    GenMax = 3
    MAX_CHILD = 1
    MaxPid = 2
    ForkKinds <- MCForkThread
    ExitKinds <- MCExit
    SigKinds <- MCNoSignal
    WaitPids <- MCAnyChild
    MaxExec = 1
    MaxSig = 0
    MaxFail = 1
    MaxHalt = 1
    MaxRun = 2
    LateExecFail = FALSE
INVARIANTS
    TypeOK
    FreeSlotHasNoTask
    RegionAccounting
PROPERTIES
    ExitCompletes
CHECK_DEADLOCK FALSE
