CONSTANTS
    cheap = cheap
    dear = dear
    big = big
    NoTx = NoTx
    Tx <- MCTx
    Price <- MCPrice
    LoadUnits <- MCLoadUnits
    MaxSize = 2
    TargetBlockSize = 2
    MaxBlockSize = 2
    BlockPrice = 2
    NewTxsBound = 2
SPECIFICATION MCSpec
INVARIANTS NeverPopsEmpty
CHECK_DEADLOCK FALSE
