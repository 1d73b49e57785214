\* Two transactions of any kind fail, and the ESP32 resets or power is lost once.
CONSTANTS
    Written = {"HYST", "Z_PULSE_WIDTH"}
    Values <- MCValues
    Factory <- OneFactory
    Faults = {"read", "data", "key", "cmd", "probe"}
    MaxFaults = 2
    Resets = {"esp", "power"}
    MaxResets = 1
SPECIFICATION Spec
INVARIANTS
    CleanWritePersists
    WriteReadsBack
PROPERTIES
    TaskReturns
