SPECIFICATION FairSpec
CONSTANTS
    p1 = p1  p2 = p2
    Peers = {p1, p2}
    Faulty = {p2}
    Width = 3
    MIN_HISTORY = 1
    Fudge = 1
    OldSlack = 1
    StallTime = 0
    MaxSlice = 2
    FirstTip = 2
    MaxTip = 2
    MaxTime = 1
    ClockMayGoBack = FALSE
    Credit <- MCCredit
    Debit <- MCDebit
    Ledger <- MCLedger
    NoSlice = NoSlice
PROPERTY
    SilentDropped
