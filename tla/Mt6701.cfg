\* Four registers that do not share bits, two of them in one byte; requests one
\* after the other, a loss of power at any point, and a probe that fails at the boot.
CONSTANTS
    Written = {"HYST", "Z_PULSE_WIDTH", "PWM_FREQ", "unknown"}
    Values <- MCValues
    Factory <- MCFactory
    Faults = {"probe"}
    MaxFaults = 1
    Resets = {"power"}
    MaxResets = 1
SPECIFICATION Spec
INVARIANTS
    TypeOK
    WriteReadsBack
PROPERTIES
    NeighboursKept
    SavedNeighboursKept
    ImplementsConfigStore
