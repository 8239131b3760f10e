SPECIFICATION ViewSpec
CONSTANTS
    Ids = {1, 2}
    Weight <- MCWeight
    Cost <- MCCost
    Budget = 2
    RemoveBudget = 1
    PriorityCap = 4
    MaxUniq = 1
    MaxFrame = 5
    MaxTransit = 1
    MaxFaults = 1
    MaxWait = 2
CHECK_DEADLOCK FALSE
INVARIANT NackRecovers
