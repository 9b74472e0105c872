SPECIFICATION Spec
CONSTANTS
    t1 = t1
    t2 = t2
    c1 = c1
    c2 = c2
    a1 = a1
    a2 = a2
    NoOne = NoOne
    Contracts = {c1}
    Callers = {t1}
    Accepters = {a1}
    Drivers <- SoleDriver
    Ops <- AllButDelete
    MaxWrites = 7
    MaxFaults = 3
INVARIANT IndexExact
INVARIANT IndexNeverAhead
PROPERTY RefinesLifecycle
CHECK_DEADLOCK FALSE
