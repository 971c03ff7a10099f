SPECIFICATION Spec
CONSTANTS
    k1 = k1
    c1 = c1
    Key <- MCKey
    NoKey = NoKey
    OnCard <- MCCard
    Stubs <- MCCard
    TokenBacked <- MCToken
    Worker = {1, 2}
    Blank = Blank
    Phrase = Phrase
    Bounds <- MCBounds
INVARIANTS
    PassphraseKeepsWorking
