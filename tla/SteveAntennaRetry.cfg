SPECIFICATION FairSpec
CONSTANTS
    Ptr = {1, 2, 3, 4, 5}
    NULL = 0
    MaxJobs = 4
    Wrap = 8
    LastTick = 2
    MaxCommands = 2
    Delay <- MCDelay
    Rates = {0, 2}
PROPERTY AntennaRetryScheduled
CHECK_DEADLOCK FALSE
