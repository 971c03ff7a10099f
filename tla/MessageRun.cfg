SPECIFICATION PartFairSpec
CONSTANTS
    Key = {k1, k2}
    Msg = {m1, m2}
    NoMsg = NoMsg
    Worker = {1, 2}
    Armor = Armor
    Foreign = Foreign
    Nothing = Nothing
    MaxEncryptOps = 2
    MaxDecryptOps = 5
    Limit = 3
    MaxSigs = 2
\* The program may have ended, or the call of gpg.
CHECK_DEADLOCK FALSE
INVARIANTS
    RecipientsAreApproved
    HiddenIsScrubbed
    CopyHasTimer
    VerdictIsEarned
    
PROPERTIES
    ForeignIsLeft
    SecretsAreWiped
    CallReturns
