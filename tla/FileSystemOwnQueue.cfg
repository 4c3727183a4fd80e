SPECIFICATION FsFairSpec
CONSTANTS
    Callers = {c1}
    FS = fs
    Calls <- MCCalls
    QueueLength = 3
PROPERTY QueueIsServed
CHECK_DEADLOCK FALSE
