SPECIFICATION RadioFairSpec
CONSTANTS
    TELEMETRY_MAX_QUEUE_ITEMS = 1
    RADIO_MAX_QUEUE_ITEMS = 1
    Numbers = 1
    Requests = {"SET_OUTPUT_POWER", "ENABLE_RFM98", "ENABLE_SX1268", "RETURN_STATS"}
    Fragile = {"RFM98"}
INVARIANTS RadioReady SilentUntilHeard Attended
PROPERTIES HearsAgain QueueMoves
CHECK_DEADLOCK FALSE
