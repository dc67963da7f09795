CONSTANTS
    Block = {g, b1, b2, b3}
    Genesis = g
    Tx = {t1, t2, t3}
    NoBlock = NoBlock
    Disk = Disk
    LookbackWindow = 1
    FutureBound = 2
    MaxTime = 2
    MaxBlockTxs = 1
SPECIFICATION MCSpec
INVARIANTS NoReplay DiskIsAcceptedChain LayersComplete AncestryRetrievable
PROPERTIES LastAcceptedAdvances
SYMMETRY BlockAndTxSymmetry
CHECK_DEADLOCK FALSE
