\* As engine_kept, for a referrer and the miner they referred.
SPECIFICATION Spec
CONSTANTS
    u1 = u1
    u2 = u2
    p1 = p1
    h1 = h1
    Users = {u1, u2}
    Referrer <- MCPair
    Savers = {p1}
    Loads = {}
    Handlers = {h1}
    Amounts <- MCPrice
    BoostCost = 1
    UpgradeCost = 9
    Reward = 1
    Commission = 1
    Funds = {1}
    MaxBalance = 3
    MaxDebt = 0
    FaultKinds <- MCCrash
    MaxFaults = 1
INVARIANTS ReferredSafe
CHECK_DEADLOCK FALSE
