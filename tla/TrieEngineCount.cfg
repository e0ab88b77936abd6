SPECIFICATION Spec
CONSTANTS
    W = 4
    Keys <- MCKeys
    Borders <- MCBorders
    MaxBalance = 1
INVARIANT
    AccountsCounted
