SPECIFICATION Spec
CONSTANTS
    g = g  a1 = a1  a2 = a2  a3 = a3  b1 = b1  b2 = b2  c2 = c2  t = t
    Blocks = {g, a1, a2, b1, b2}
    NoBlock = NoBlock  Unknown = Unknown
    Genesis = g
    Parent <- MCParent
    Height <- MCHeight
    Work <- UnevenWork
    Ancestors <- MCAncestors
    Tx = {t}
    Txs <- NoTx
    BadScripts = {}
    BadLedger = {b2}
    Tangled = {}
    Torn = Torn
    Fragile = {}
    MIN_HISTORY = 1
    START_BACK = 0
CONSTRAINT StoredInOrder
INVARIANTS
    NeverFailsValid
    BestAtRest
    NeverHangs
