SPECIFICATION Spec
CONSTANTS
    NSLOT = 3
    NREG = 3
    GenMax = 12
    MAX_CHILD = 1
    MaxPid = 3
    ForkKinds <- MCForks
    ExitKinds <- MCExits
    SigKinds <- MCNoSignal
    WaitPids <- MCChild
    MaxExec = 0
    MaxSig = 0
    MaxFail = 0
    MaxHalt = 0
    MaxRun = 1
    LateExecFail = FALSE
INVARIANTS
    ChildAccounting
    ReportedIsDead
PROPERTIES
    ExitReported
    GroupExits
CHECK_DEADLOCK FALSE
