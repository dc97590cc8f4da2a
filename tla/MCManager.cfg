\* Two manager processes, one after the other or at once, and two turns.
SPECIFICATION Spec
CONSTANTS
    NoFile = NoFile
    MaxTurn = 2
    MaxEpoch = 1
    MaxFaults = 1
    Process = {1, 2}
CONSTRAINT Bounded
CHECK_DEADLOCK FALSE
INVARIANTS
    TurnsAreOwned
    OneInterruptPerTurn
PROPERTIES
    ControlIsHonoured
