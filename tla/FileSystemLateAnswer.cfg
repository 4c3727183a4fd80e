SPECIFICATION FsSpec
CONSTANTS
    Callers = {c1}
    FS = fs
    Calls <- MCCalls
    QueueLength = 3
INVARIANT AnswerIsOwn
CHECK_DEADLOCK FALSE
