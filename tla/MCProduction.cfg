CONSTANTS
    cheap = cheap
    dear = dear
    big = big
    NoTx = NoTx
    Tx <- MCTx
    Price <- MCPrice
    LoadUnits <- MCLoadUnits
    MaxSize = 2
    TargetBlockSize = 2
    MaxBlockSize = 2
    BlockPrice = 2
    NewTxsBound = 1
SPECIFICATION MCFairSpec
INVARIANTS StatusExact HeldOnce
PROPERTIES ArrivalTriggersBuild ShutdownCompletes
CHECK_DEADLOCK FALSE
