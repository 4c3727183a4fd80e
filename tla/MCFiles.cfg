SPECIFICATION FilesSpec
CONSTANTS
    Length <- MCLength
    WindowSize = 2
    MaxPacketSize = 3
    Sizes = {0, 1, 2, 4}
    Tids = {0, 1}
    MsPerTick = 4
    WindowTimeout = 4
    TransferTimeout = 8
    QueueSize = 2
    MaxAge = 2
    MaxTransfers = 2
    MaxOther = 2
    Callers = {c1}
    FS = fs
    Calls <- MCCalls
    QueueLength = 3
INVARIANTS TypeOK PacketsTile EofEndsFile FileReassembles FsTypeOK AnswerComing OneAnswerEach OrderKept NoReadInFs
PROPERTIES WindowRespected TransferEnds FilesystemReturns
CHECK_DEADLOCK FALSE
