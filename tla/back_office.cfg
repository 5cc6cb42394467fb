\* Payouts, the admin panel, messages and published content, one of them in each behaviour.
SPECIFICATION MCSpec
CONSTANTS
    r1 = r1
    r2 = r2
    i1 = i1
    i2 = i2
    f1 = f1
    x1 = x1
    x2 = x2
    k1 = k1
    k2 = k2
    b1 = b1
    b2 = b2
    e1 = e1
    e2 = e2
    z1 = z1
    z2 = z2
    \* Withdrawals: the cron with every fault, or one call of each kind at a time
    Users = {u1}
    Amounts <- MCOneAmount
    OpeningBalance = 4
    Ids = {i1, i2, i3}
    NoId = NoId
    Requests = {r1, r2}
    Admins = {a1}
    Payers = {p1}
    AutoPayers = {y1}
    AdminGoals <- MCGoals
    ApproveSees <- MCPending
    FaultKinds <- MCFaults
    MaxFaults = 3
    \* AdminPages
    Filters = {f1, f2}
    LastPage = 2
    Subjects = {x1, x2}
    MaxPageAsks = 3
    \* AdminForms
    MaxRows = 2
    MaxForms = 3
    \* AdminGate
    GateUsers <- MCGateUsers
    LevelOf <- MCLevels
    Tabs = {b1, b2}
    TokenLife = 1
    MaxAdminTime = 2
    MaxAdminAsks = 4
    \* Messages
    Talkers = {z1, z2, z3}
    TalkCalls = {k1, k2}
    PageSize = 1
    NoticePage = 1
    MaxWritten = 2
    MaxTalks = 4
    \* Content
    Editors = {e1, e2}
    Readers = {u1}
    Zones <- MCZones
    Typed = {2, 3}
    MaxBroadcasts = 2
    MaxContentAsks = 3
SYMMETRY Symmetry
INVARIANTS PayoutsSafe PagesSafe FormsSafe GateSafe MessagesSafe ContentSafe
PROPERTIES RowsKept
CHECK_DEADLOCK FALSE
