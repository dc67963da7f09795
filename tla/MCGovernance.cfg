CONSTANTS
    a1 = a1
    a2 = a2
    a3 = a3
    Address = {a1, a2, a3}
    Root = root
    i1 = i1
    i2 = i2
    ActionID = {i1, i2}
    ParamKey = {"routePerc", "serPerc"}
    TypeKey = {"t1"}
    Percent = {80}
    Fee = {1}
    Week = 1
    MaxTime = 2
    MaxTxs = 3
SPECIFICATION Spec
SYMMETRY Symm
INVARIANTS ActionsWellFormed CommitMatchesReload
PROPERTIES VotesKept DecidedBefore
CHECK_DEADLOCK FALSE
