\* Requests in a row, longer than the buffer of one read.
CONSTANTS
    Crc <- MCCrc
    Requests <- MCRequests
    BufLen = 13
    Chunks = {4, 9}
    RingCap = 32
    QueueLen = 2
    MaxJunk = 0
    MaxResets = 0
    ShortWrites = {}
    SlowLine = FALSE
SPECIFICATION Spec
PROPERTY EveryRequestServed
CHECK_DEADLOCK FALSE
