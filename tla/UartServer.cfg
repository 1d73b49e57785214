\* Three requests, 19 bytes; every buffer is smaller, so that reads cut packets and
\* bytes and events get lost, but not so small that none is served.
CONSTANTS
    Crc <- MCCrc
    Requests <- MCRequests
    BufLen = 13
    Chunks = {4, 9}
    RingCap = 16
    QueueLen = 2
    MaxJunk = 1
    MaxResets = 1
    ShortWrites = {4}
    SlowLine = TRUE
SPECIFICATION Spec
INVARIANTS
    TypeOK
    NoLostWakeup
    NothingMadeUp
    UncutServesAll
PROPERTIES
    ImplementsRequestQueue
    UncutRequestsServed
CHECK_DEADLOCK FALSE
