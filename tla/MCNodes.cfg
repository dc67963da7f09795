CONSTANTS
    Work = {"a", "b"}
    Staker = {"b", "c"}
    BadKey = "bad"
    Version = {1}
    MaxSent = 3
    MaxCalls = 2
    MaxStakes = 2
    MaxRestarts = 1
SPECIFICATION Spec
INVARIANTS DetailsRight KeysListed
PROPERTIES ProofsBacked
CHECK_DEADLOCK FALSE
