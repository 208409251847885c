SPECIFICATION ComponentsSpec
CONSTANTS
    Owners <- MCOwners
    Tags <- MCTags
    MaxReq = 4
    NetGuests <- Guests
    NREQ = 2
    NFID = 2
    NOPEN = 1
    NCLUNK = 2
    NetProfiles <- MCNetProfiles
    ExecBlocks = 2
    MaxDrop = 1
    StoreGuests <- Guests
    NHOSTOPEN = 1
    NDEVOPEN = 2
    NPART = 2
    DiskBlocks = 3
    Tables <- MCTables
    StoreProfiles = {"fs", "block"}
    SockGuests <- Guests
    NSOCK = 2
    TtyGuests <- Guests
    NPTY = 1
    PTYBUF = 2
    CANON = 1
    TYPEAHEAD = 1
    Keys = {"a", "cr", "int", "susp"}
    Uses <- MCUses
    PtyWrites <- MCPtyWrites
    ReadLens = {2}
    TermModes <- MCModes
    MaxTyped = 3
    MaxEnds = 1
    TtyProfiles = {"pty", "console"}
    ALIGN = 2
    HDR = 2
    MAXMAPPINGS = 3
    ArenaBytes = 24
    BrkBytes = 2
    MapLens = {1, 4}
    NWNODE <- MCNodes
    NOFD = 1
    PATHMAX = 2
    SYMLOOPMAX = 2
    POOL = 10
    ROUND = 2
    RootFs <- MCRootFs
    MountPoints <- MCMounts
    NameArgs <- MCNameArgs
    DataArgs <- MCDataArgs
    OpenFlags <- MCOpenFlags
    Targets <- MCTargets
    Writes <- MCWrites
    NameProfiles = {"names", "data"}
INVARIANTS
    GateExclusive
    CollectsOwnResult
    OfferIsLive
    RepliesReachTheirCall
    OpensRespectMount
    HandlesOwned
    TypedInOrder
    MappingsSound
    FilesHold
PROPERTIES
    GateReopens
    DiskExclusive
    NetfsCallEnds
CHECK_DEADLOCK FALSE
