CONSTANTS
    a = a
    b = b
    u = u
    Address = {a, b}
    User = {u}
    Alloc = 9
    TxFee = 1
    StakeAmount = 2
    UserFee = 2
    Yield = 1
    Day = 2
    Week = 4
    Year = 3
    MinStake = 1
    Effective = 1
    MaxTime = 5
    MaxTxs = 4
    MaxLag = 1
SPECIFICATION Spec
SYMMETRY Symm
INVARIANTS Conservation StakesBacked CreditedOnce RecordsRight
PROPERTIES ClaimsSpaced
CHECK_DEADLOCK FALSE
