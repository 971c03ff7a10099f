SPECIFICATION PagesFairSpec
CONSTANTS
    k1 = k1
    c1 = c1
    Key <- MCKey
    NoKey = NoKey
    OnCard <- MCCard
    Stubs <- MCCard
    TokenBacked <- MCToken
    Worker = {1, 2}
    Blank = Blank
    Phrase = Phrase
    Bounds <- MCBounds
    Vault = {v1, v2}
    Damaged = {v2}
    None = None
    MaxJobs = 4
\* The wizard may have been closed.
CHECK_DEADLOCK FALSE
INVARIANTS
    TokenOnlyIsAsked
    SecretsAccounted
    SelectHasKeys
    PatientUserGetsPreview
PROPERTIES
    UnlockedWithSomething
    UnlockPageRecovers
