SPECIFICATION FairSpec
CONSTANTS
    Inst = {a}
    Path = {opt}
    Hash = {h1}
    NoPath = NoPath
    NoPin = NoPin
    NoFile = NoFile
    MaxChanges = 0
CHECK_DEADLOCK FALSE
PROPERTIES
    AskedOnce
