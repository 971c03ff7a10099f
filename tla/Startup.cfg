SPECIFICATION FairSpec
CONSTANTS
    Inst = {a, b}
    Path = {opt}
    Hash = {h1, h2}
    NoPath = NoPath
    NoPin = NoPin
    NoFile = NoFile
    MaxChanges = 1
CHECK_DEADLOCK FALSE
INVARIANTS
    OnlyAcceptedIsTrusted
    MarkerOutlivesData
PROPERTIES
    
    StartSettles
