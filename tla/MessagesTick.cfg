SPECIFICATION FairSpec
CONSTANTS
    Key = {k1, k2}
    Msg = {m1}
    NoMsg = NoMsg
    Worker = {1}
    Armor = Armor
    Foreign = Foreign
    Nothing = Nothing
    MaxEncryptOps = 1
    MaxDecryptOps = 0
CHECK_DEADLOCK FALSE
INVARIANTS
    TickCoversAll
