\* Payouts by hand: no hot-wallet key, one administrator whose lists may be stale.
SPECIFICATION Spec
CONSTANTS
    u1 = u1
    u2 = u2
    i1 = i1
    i2 = i2
    i3 = i3
    r1 = r1
    r2 = r2
    a1 = a1
    NoId = NoId
    Users = {u1, u2}
    Amounts <- MCAmounts
    OpeningBalance = 3
    Ids = {i1, i2, i3}
    Requests = {r1, r2}
    Admins = {a1}
    Payers = {}
    AutoPayers = {}
    AdminGoals <- MCAnyGoal
    ApproveSees <- MCOpen
    FaultKinds <- MCAnyFault
    MaxFaults = 1
SYMMETRY Symmetry
INVARIANTS TypeOK FundsConserved RefundedAtMostOnce
PROPERTY HashKept
CHECK_DEADLOCK FALSE
