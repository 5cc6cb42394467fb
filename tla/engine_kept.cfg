\* One save at a time for each user, joins, reloads, requests, blocks and restarts.
SPECIFICATION Spec
CONSTANTS
    u1 = u1
    u2 = u2
    p1 = p1
    l1 = l1
    h1 = h1
    Users = {u1}
    Referrer <- MCNobody
    Savers = {p1}
    Loads = {l1}
    Handlers = {h1}
    Amounts <- MCBoth
    BoostCost = 1
    UpgradeCost = 1
    Reward = 1
    Commission = 0
    Funds = {0, 1}
    MaxBalance = 1
    MaxDebt = 0
    FaultKinds <- MCRecoverable
    MaxFaults = 1
INVARIANTS TypeOK NothingLost
CHECK_DEADLOCK FALSE
