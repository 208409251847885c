SPECIFICATION Spec
CONSTANTS
    NSLOT = 3
    NREG = 3
    GenMax = 12
    MAX_CHILD = 2
    MaxPid = 3
    ForkKinds <- MCFork
    ExitKinds <- MCExit
    SigKinds <- MCJobControl
    WaitPids <- MCAnyChild
    MaxExec = 1
    MaxSig = 2
    MaxFail = 0
    MaxHalt = 0
    MaxRun = 1
    LateExecFail = TRUE
INVARIANTS
    SnapshotIntact
    VforkSuspended
    ParkedHasReason
    WaitsSound
PROPERTIES
    VforkRestored
CHECK_DEADLOCK FALSE
