\* Fields that do not read back what was written to them.
CONSTANTS
    Written = {"ABZ_MUX", "DIR", "ZERO", "PWM_POL", "OUT_MODE", "A_START", "A_STOP"}
    Values <- MCValues
    Factory <- OneFactory
    Faults = {}
    MaxFaults = 0
    Resets = {}
    MaxResets = 0
SPECIFICATION Spec
INVARIANT WriteReadsBack
