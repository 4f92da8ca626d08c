SPECIFICATION Spec
CONSTANTS
    Callers     = {"c1"}
    CounterSize = 16
    MaxStill    = 40
INVARIANTS TypeOK LedAgrees KeepsBlinking WorkStops
