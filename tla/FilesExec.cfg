SPECIFICATION Spec
CONSTANTS
    Procs <- MCProcs
    MAX_FDS = 3
    NPIPE = 1
    NEVENTFD = 1
    PIPE_BUF = 2
    EFD_MAX = 2
    Byte <- MCByte
    Payloads <- MCPayloads
    ReadLens <- MCReadLens
    AddVals <- MCAddVals
    CallSets <- MCCalls
PROPERTY
    ExecFailureKeepsFiles
CHECK_DEADLOCK FALSE
