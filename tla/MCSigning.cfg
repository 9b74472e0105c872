SPECIFICATION Spec
CONSTANTS
    Tasks = {t1, t2}
    Amounts = {0, 1, 2, 3}
    MaxPerMinute = 2
    MaxPerSign = 2
    MaxPerHour = 3
    Minute = 2
    Hour = 3
    MaxTime = 5
    MaxSigns = 5
SYMMETRY Symmetry
INVARIANT TypeOK
INVARIANT RateBound
INVARIANT AmountBound
CHECK_DEADLOCK FALSE
