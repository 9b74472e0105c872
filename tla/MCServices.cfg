SPECIFICATION Spec
CONSTANTS
    t1 = t1
    t2 = t2
    t3 = t3
    alice = alice
    bob = bob
    LboTasks = {t1, t2, t3}
    ContributorOf <- Serves
    ProofAmounts = {2, 6}
    MinContribution = 2
    MaxContribution = 6
    RateNum = 5
    RateDen = 3
    TotalAllocation = 5
    LboMaxSupply = 7
    LboWord = 10
    MaxProofs = 2
    JsonTasks = {t1, t2}
    MaxJsonKeys = 2
    MaxJsonFaults = 2
    FileTasks = {t1, t2}
    Passwords = {"one", "other"}
    MaxFileKeys = 2
    MaxFileFaults = 2
    MemTasks = {t1, t2}
    MaxMemKeys = 3
    Timeout = 3
    CheckPeriod = 2
    PollPeriod = 1
    Processes = {"cli", "desktop"}
    Desktops = {"desktop"}
    FileAmounts = {2}
    FileMinStake = 2
    FileMaxSupply = 5
    Gift = 1
    MaxCommands = 5
    MaxMetCommands = 2
    MaxFileStops = 1
    Outcomes <- OutcomesHere
    Collateral = 4
    CurveAmounts = {0, 1, 3, 4, 5, 7}
    CurveWord = 8
    MaxPoints = 2
    Oracles = {"o1", "o2"}
    Results = {"yes", "no"}
    MaxOracles = 3
    MaxAttestations = 3
SYMMETRY Symmetry
INVARIANT ServicesTypeOK
INVARIANT ProofsMintedOnce
INVARIANT AllocationKept
INVARIANT ContributionCapped
INVARIANT JsonKeysKept
INVARIANT JsonReadable
INVARIANT ListedCanSign
INVARIANT FileKeysKept
INVARIANT MemNamesKept
INVARIANT IdleCloses
PROPERTY ShownStaysOpen
INVARIANT DoneIsOnDisk
INVARIANT CrashesNeverOverpay
INVARIANT PaysAsDrawn
CHECK_DEADLOCK FALSE
