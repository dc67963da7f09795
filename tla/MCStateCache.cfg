CONSTANTS
    Address = {a1, a2}
    Calls = {"fail", "ahead", "build", "submit"}
    Block = {b1, b2}
    MaxBlockTxs = 2
    MaxLocked = 1
SPECIFICATION MCUndisturbedSpec
INVARIANTS UndisturbedMatchesDB PendingMatchesLayer
SYMMETRY Interchangeable
CHECK_DEADLOCK FALSE
