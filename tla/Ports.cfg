SPECIFICATION FairSpec
CONSTANTS
    NSLOT = 3
    NREG = 2
    Scenarios <- MCScenarios
INVARIANTS
    OneGuestRuns
    ViewsCorrect
PROPERTIES
    ContractHeld
    GuestsRotate
CHECK_DEADLOCK FALSE
