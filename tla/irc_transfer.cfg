SPECIFICATION DccSpec
CONSTANTS
    Transfers = {"t1"}
    Chunk = 2
    MaxSize = 3
INVARIANT TransferedIsWhatWasSent
CHECK_DEADLOCK FALSE
