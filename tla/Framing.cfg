\* Buffers of up to three pieces out of four packets and seven kinds of noise.
CONSTANTS
    Crc <- MCCrc
    Reads <- MCReads
    Noises <- MCNoises
    MaxPieces = 3
SPECIFICATION Spec
INVARIANTS
    TypeOK
    HandledDisjoint
    QuietNoiseHarmless
    ScanIsFunction
PROPERTY ScanEnds
