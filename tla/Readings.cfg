\* Every register, every reading at the boundaries of its bytes, read and failed.
CONSTANTS
    Images <- MCImages
    Asked <- AllRegs
    Rewritten <- MCRewritten
    Bytes <- MCBytes
SPECIFICATION Spec
INVARIANTS
    TypeOK
    ReadingsExact
    ConfigAgrees
PROPERTY WriteBackHarmless
