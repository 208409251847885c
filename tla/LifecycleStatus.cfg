SPECIFICATION Spec
CONSTANTS
    NSLOT = 3
    NREG = 3
    GenMax = 12
    MAX_CHILD = 1
    MaxPid = 3
    ForkKinds <- MCFork
    ExitKinds <- MCExit
    SigKinds <- MCJobControl
    WaitPids <- MCAnyChild
    MaxExec = 0
    MaxSig = 2
    MaxFail = 0
    MaxHalt = 0
    MaxRun = 1
    LateExecFail = FALSE
PROPERTIES
    ExitReported
CHECK_DEADLOCK FALSE
