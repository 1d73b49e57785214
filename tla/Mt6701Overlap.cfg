\* Fields whose write reaches into another field.
CONSTANTS
    Written = {"A_START", "A_STOP", "UVW_RES", "ABZ_RES"}
    Values <- MCValues
    Factory <- OneFactory
    Faults = {}
    MaxFaults = 0
    Resets = {}
    MaxResets = 0
SPECIFICATION Spec
PROPERTY NeighboursKept
