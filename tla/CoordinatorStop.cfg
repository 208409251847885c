CONSTANTS
    NSLOT = 3
    EVENT_BURST = 2
    SIGNAL_NEST_MAX = 2
    Profiles <- StopProfiles
SPECIFICATION Spec
INVARIANT StopResumes
CHECK_DEADLOCK FALSE
