SPECIFICATION Spec
CONSTANTS
    Proc = {a, b}
    None = None
    ChainModes = {TRUE, FALSE}
    Faults = {"flush", "fsync", "tip", "kill", "power"}
    MaxRecords = 4
SYMMETRY MCSymmetry
CHECK_DEADLOCK FALSE
INVARIANTS
    ChainStaysLinked
    WarningNeedsInterruption
    NoSilentLoss
