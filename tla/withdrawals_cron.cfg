\* Payouts by the cron alone: runs do not overlap; an answer gets lost or the server dies.
SPECIFICATION FairSpec
CONSTANTS
    u1 = u1
    u2 = u2
    i1 = i1
    i2 = i2
    i3 = i3
    r1 = r1
    r2 = r2
    p1 = p1
    NoId = NoId
    Users = {u1, u2}
    Amounts <- MCOneAmount
    OpeningBalance = 4
    Ids = {i1, i2, i3}
    Requests = {r1, r2}
    Admins = {}
    Payers = {p1}
    AutoPayers = {}
    AdminGoals <- MCNoGoal
    ApproveSees <- MCOpen
    FaultKinds <- MCUnmarked
    MaxFaults = 2
INVARIANTS RepeatsFollowFaults LiveAgrees
PROPERTIES EventuallySettled ImplementsPromise
CHECK_DEADLOCK FALSE
