SPECIFICATION Spec
CONSTANTS
    Key = {k1, k2}
    Token = {d1, d2}
    Task = {s, t}
    None = None
    MaxSlots = 2
    MaxRows = 3
    Faults = {"generate", "late generate", "store", "undo", "discard",
              "audit", "record", "crash", "restore"}
SYMMETRY MCSymmetry
CHECK_DEADLOCK FALSE
INVARIANTS
    WaysInAreKept
    FailureIsTrue
    OneWrongPinPerCall
PROPERTIES
    UserKeysKept
