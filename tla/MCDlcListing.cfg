SPECIFICATION Spec
CONSTANTS
    t1 = t1
    t2 = t2
    c1 = c1
    c2 = c2
    a1 = a1
    a2 = a2
    NoOne = NoOne
    Contracts = {c1, c2}
    Callers = {t1, t2}
    Accepters = {a1}
    Drivers <- OneDriver
    Ops <- ProtocolAndList
    MaxWrites = 5
    MaxFaults = 0
INVARIANT ListActiveComplete
CHECK_DEADLOCK FALSE
