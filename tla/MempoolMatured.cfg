SPECIFICATION Spec
CONSTANTS
    ka = ka  kb = kb  p1 = p1  p2 = p2  p3 = p3  q1 = q1  l1 = l1  l2 = l2
    Keys = {ka, kb}
    NoKey = NoKey  NoNode = NoNode
    Txs = {p1, p2, q1}
    TxOrder <- MCTxOrder
    From <- MCFrom
    Value <- MCValue
    To <- MCTo
    Paid <- MCPaid
    SetsLimit = {}
    NewLimit <- MCNewLimit
    LockHeight <- MCLockHeight
    FirstView <- PendingView
    MaxHeight = 4
    MaxBlock = 2
    MIN_HISTORY = 4
    MIN_LIMIT_TIME = 1
    HEIGHT_SKEW = 2
    UINT64_MAX = 9
INVARIANT
    PoolMinable
