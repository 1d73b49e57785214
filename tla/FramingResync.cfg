\* The comment on the skip of one byte, against buffers of two pieces.
CONSTANTS
    Crc <- MCCrc
    Reads <- MCReads
    Noises <- MCNoises
    MaxPieces = 2
SPECIFICATION Spec
PROPERTY RetryAtNextByte
