CONSTANTS
    c1 = c1
    c2 = c2
    o = o
    Client = {c1, c2}
    Other = {o}
    Recoded = {"plain"}
    Outside <- MCOutside
    Asks <- MCAsks
    StakerOf <- MCStakerOf
    Zero = Zero
    Stranger = Stranger
    LookbackWindow = 1
    TargetBlockRate = 1
    TargetUnits = 1
    MinPrice = 0
    MaxBlockSize = 2
    CacheSize = 2
    Word = 64
    MaxTime = 2
    MaxBlocks = 2
    MaxTries <- MCTries
    MaxRestarts = 1
SPECIFICATION MCSpec
INVARIANTS AsAsked ExecutedOnce AnswersRight FeesRight
CHECK_DEADLOCK FALSE
