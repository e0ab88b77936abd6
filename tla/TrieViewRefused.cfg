SPECIFICATION Spec
CONSTANTS
    k0 = k0  k1 = k1  k2 = k2
    g = g  b1 = b1  b2 = b2  c2 = c2  c3 = c3  x2 = x2  z2 = z2  s = s
    Keys = {k0, k1, k2}
    CoinBaseKey = k0
    Blocks = {g, b1, b2, c2, x2, z2}
    NoBlock = NoBlock  NoNode = NoNode  NoUndo = NoUndo  NoFile = NoFile  Damaged = Damaged
    Genesis = g
    Parent <- MCParent
    Height <- MCHeight
    Ancestors <- MCAncestors
    Operations <- MCOperations
    AccountRoot <- MCAccountRoot
    Templates <- NoTemplates
    Unreadable = {c2}
    DiskMayFail = TRUE
    MIN_BALANCE = 1  MIN_LIMIT_TIME = 0  MAX_MONEY = 20  SUBSIDY = 4  UINT64_MAX = 99
CONSTRAINT UpToFault
INVARIANTS
    LedgerMatchesBest
    SnapshotCoherent
    NeverBlamesValid
