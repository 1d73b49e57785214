\* Up to three requests; responses of 7, 8 and 13 bytes that arrive in pieces.
CONSTANTS
    Crc <- MCCrc
    Lines <- MCLines
    ReadLen = 16
    MaxSent = 3
    Factory <- MCFactory
    Measured <- MCMeasured
    LogText <- MCLogText
    Chunks = {5, 8}
    MaxFailures = 1
SPECIFICATION Spec
INVARIANTS
    TypeOK
    ShownWereAnswered
    SoundAreShown
    ShownAsTyped
    NothingMadeUp
PROPERTY ResponsesArrive
CHECK_DEADLOCK FALSE
