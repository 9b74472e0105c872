SPECIFICATION Spec
CONSTANTS
    t1 = t1
    t2 = t2
    h1 = h1
    h2 = h2
    Tasks = {t1, t2}
    HolderOf <- OwnClients
    Mints = {1, 2, 5}
    Amounts = {1, 2}
    MinStake = 2
    MaxSupply = 4
    Precision = 4
    Word = 1000
    Word64 = 6
    MaxMinted = 6
    MaxFees = 2
    MaxOps = 1
SYMMETRY Symmetry
INVARIANT RewardsCovered
