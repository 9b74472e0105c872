SPECIFICATION Spec
CONSTANTS
    t1 = t1
    t2 = t2
    o1 = o1
    o2 = o2
    Tasks = {t1, t2}
    OwnerOf <- SharedOwner
    Deposits = {4}
    Locks = {4}
    Burns = {2}
    MinDeposit = 1
    InitialPrice = 2
    Word = 16
    MaxOverlaps = 1
INVARIANT SharesConserved
