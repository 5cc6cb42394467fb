\* Deposits, tickets, check-ins, workshop and crons, one of them in each behaviour.
SPECIFICATION MCSpec
CONSTANTS
    u1 = u1
    u2 = u2
    h1 = h1
    h2 = h2
    h3 = h3
    x1 = x1
    x2 = x2
    t1 = t1
    t2 = t2
    c1 = c1
    c2 = c2
    k1 = k1
    k2 = k2
    a1 = a1
    a2 = a2
    r1 = r1
    r2 = r2
    \* Deposits: one handler and one verifier run at a time, with restarts
    Users = {u1, u2}
    Hashes = {f1, f2}
    Valid = {f1}
    Spellings = {"lower"}
    Ids = {i1, i2, i3}
    Submits = {s1}
    Detectors = {}
    Runs = {v1}
    MaxAttempts = 2
    FaultKinds <- MCFaults
    MaxFaults = 2
    \* DepositTickets
    TicketUsers = {u3}
    Tickets = {t1, t2}
    Transfers = {f1}
    Openers = {o1, o2}
    Desks = {d1}
    DeskCalls = {k1, k2}
    NoTransfer = NoTransfer
    NoTicket = NoTicket
    MaxOpen = 1
    MaxDeskCalls = 3
    MaxTicketFaults = 1
    \* CheckIn
    CheckUsers = {c1, c2}
    Payments = {h1, h2, h3}
    ChainTxs = {x1, x2}
    TxOf <- MCTxOf
    SentBy <- MCSentBy
    Evaluators = {e1}
    CheckCalls = {k1, k2}
    MaxDay = 2
    Window = 1
    MaxCheckAsks = 2
    \* Workshop
    Machines = {m1, m2}
    Wide = {m2}
    Owned = {m2}
    NoId = NoId
    RacksPerRoom = 2
    RoomMax = 2
    RoomPrice = 2
    MinerPrice = 1
    WorkshopFunds = 2
    OldSlots = 2
    RackOffset = 10
    WorkshopCalls = {k1, k2}
    MaxWorkshopCalls = 4
    MaxWorkshopFaults = 1
    \* CronRunner
    CronActions = {a1, a2}
    CronRuns = {r1, r2, r3}
    \* Listings
    ListRows = {1, 2, 3}
    PageRows = 1
    MaxListAsks = 3
SYMMETRY Symmetry
INVARIANTS DepositsSafe TicketsSafe CheckInsSafe WorkshopSafe CronsSafe ListingSafe
PROPERTIES OutcomesAreFinal KeepsBelongings
CHECK_DEADLOCK FALSE
