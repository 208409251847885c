CONSTANTS
    NSLOT = 3
    EVENT_BURST = 2
    SIGNAL_NEST_MAX = 2
    Profiles <- KillProfiles
SPECIFICATION KillSpec
PROPERTY KillUnwedges
CHECK_DEADLOCK FALSE
