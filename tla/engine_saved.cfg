\* The persist timer saves what boosts, upgrades and lost blocks moved.
SPECIFICATION FairSpec
CONSTANTS
    u1 = u1
    u2 = u2
    p1 = p1
    Users = {u1}
    Referrer <- MCNobody
    Savers = {p1}
    Loads = {}
    Handlers = {}
    Amounts = {}
    BoostCost = 1
    UpgradeCost = 2
    Reward = 1
    Commission = 0
    Funds = {2}
    MaxBalance = 2
    MaxDebt = 0
    FaultKinds <- MCCrashAndBlock
    MaxFaults = 2
PROPERTY EventuallySaved
CHECK_DEADLOCK FALSE
