SPECIFICATION Spec
CONSTANTS
    Depositors = {d1}
    SentimentCap = 1
    SignalCap = 1
    EventCap = 1
    OperatorSignals <- BreakByHand
    MaxAlarms = 2
INVARIANT TypeOK
INVARIANT BreakerHasTimer
INVARIANT SpreadFollowsAgent
PROPERTY NeverBlocked
PROPERTY PauseEnds
