CONSTANTS
    NumTx = 7
    Tx <- MCTx
    Price <- MCPrice
    LoadUnits <- MCLoadUnits
    MaxSize = 6
    TargetBlockSize = 2
SPECIFICATION HeapsSpec
VIEW HeapView
INVARIANTS HeapInvariant
PROPERTIES ImplementsMempool
