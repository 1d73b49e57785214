\* A read fails before the write that depends on it.
CONSTANTS
    Written = {"HYST", "Z_PULSE_WIDTH"}
    Values <- MCValues
    Factory <- OneFactory
    Faults = {"read"}
    MaxFaults = 1
    Resets = {}
    MaxResets = 0
SPECIFICATION Spec
PROPERTY NeighboursKept
