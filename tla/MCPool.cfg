SPECIFICATION Spec
CONSTANTS
    t1 = t1
    t2 = t2
    o1 = o1
    o2 = o2
    Tasks = {t1, t2}
    OwnerOf <- OwnClients
    Deposits = {1, 3, 4}
    Locks = {3}
    Burns = {1, 2}
    MinDeposit = 1
    InitialPrice = 2
    Word = 10
    MaxOverlaps = 2
SYMMETRY Symmetry
INVARIANT TypeOK
INVARIANT SharesConserved
INVARIANT Backed
INVARIANT Solvent
PROPERTY NoDilution
