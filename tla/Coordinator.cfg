CONSTANTS
    NSLOT = 3
    EVENT_BURST = 2
    SIGNAL_NEST_MAX = 2
    Profiles <- MCProfiles
SPECIFICATION Spec
INVARIANTS
    NoTaskLost
    MailboxFree
    MaskKept
    NoLostWake
PROPERTIES
    StoppedRests
    ReadyServed
    KillEnds
CHECK_DEADLOCK FALSE
