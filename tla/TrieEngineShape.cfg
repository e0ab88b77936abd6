SPECIFICATION Spec
CONSTANTS
    W = 4
    Keys <- MCKeys
    Borders <- MCBorders
    MaxBalance = 2
INVARIANTS
    HashOfAccounts
    FindsExactly
    CountCoversLeaves
    SliceCarriesAll
    HonestSliceProves
