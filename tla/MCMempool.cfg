CONSTANTS
    cheap = cheap
    dear = dear
    big = big
    Tx <- MCTx
    Price <- MCPrice
    LoadUnits <- MCLoadUnits
    MaxSize = 2
    TargetBlockSize = 2
    NewTxsBound = 4
SPECIFICATION MCSpec
INVARIANTS WithinLimit GossipCoversPool
PROPERTIES EventuallyHandedOut
