SPECIFICATION FairSpec
CONSTANTS
    Ptr = {1, 2, 3, 4, 5}
    NULL = 0
    MaxJobs = 4
    Wrap = 3
    LastTick = 3
    MaxCommands = 2
    Delay <- MCDelay
    Rates = {0, 2}
INVARIANTS TypeOK ArrayBounded ListIntact CurrentAtIndex OnTime
PROPERTIES LeavesOnlyWhenRun DueJobsRun
CHECK_DEADLOCK FALSE
