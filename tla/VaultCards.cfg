SPECIFICATION PartFairSpec
CONSTANTS
    Task = {t1, t2, t3}
    Frame = {f1, f2}
    None = None
    Faults <- MCFaults
    c1 = c1  c2 = c2
    k1 = k1  k2 = k2  g1 = g1  g2 = g2
    sig = sig  enc = enc
    Card = {c1, c2}  NoCard = NoCard  Slot = {sig, enc}
    Key = {k1, k2, g1, g2}  NoKey = NoKey
    Job = {j1}  Sync = {s1}
    UserPin = user  AdminPin = admin  NewPin = new  Passphrase = phrase
    Local = {k2}  Held <- MCHeld
    MaxTries = 2  MaxSlots = 2  MaxSubmits = 1  MaxSwaps = 1
\* Every frame may have been written, and every task may have died.
CHECK_DEADLOCK FALSE
INVARIANTS
    PairBelongsTogether
    NoKeyVanishes
    ReportIsHonest
PROPERTIES
    ReportedVaultIsThere
    MismatchIsExplained
    CallEnds
    JobEnds
