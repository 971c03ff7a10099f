SPECIFICATION Spec
CONSTANTS
    Writer = {w1, w2, w3}
    Old = Old
    Posix = TRUE
SYMMETRY MCSymmetry
CHECK_DEADLOCK FALSE
INVARIANTS
    FailureLeavesNothing
    ConfirmedSurvives
PROPERTIES
    ImplementsRegister
