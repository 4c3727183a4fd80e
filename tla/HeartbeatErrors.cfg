SPECIFICATION HeartbeatAlone
CONSTANTS
    TELEMETRY_MAX_QUEUE_ITEMS = 2
    RADIO_MAX_QUEUE_ITEMS = 2
    Numbers = 4
    PerFile = 2
    AllocFiles = 3
    Indices = 4
    Playbacks <- MCPlaybacks
    MaxEntries = 9
    MaxMeanwhile = 2
    MaxResets = 1
    Users = {"asu", "psu"}
    Tokens = {"t", "s"}
    Quota = 3
    MaxWrite = 2
    Width = 16
    COMMAND_SYNC_BYTES <- MCSync
    AX25_FLAG = 3
    AdminToken = 1
    ApidOf <- MCApids
    COMMAND_MAX_QUEUE_ITEMS = 1
    MsgLen = 3
    Packets <- MCPackets
    Fill <- MCFill
    Inputs <- MCInputs
    MaxSent = 2
    Epoch = 124
    FieldLength <- MCFields
    Deadman = 4
    SaveInterval = 1
    HeartbeatInterval = 1
    Shifts = {0, 4}
    MaxTime = 7
    Times <- MCTimes
    Probes = {"eps"}
    MaxBeats = 3
    MaxBoots = 2
    MaxFailures = 1
    MaxSets = 1
    BuiltIn = 10
    Pin = 6
    Delay = 1
    Lag = 2
INVARIANT ErrorsAreMarked
CHECK_DEADLOCK FALSE
