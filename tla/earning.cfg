\* Rewarded actions, games and the request limiter, one of them in each behaviour.
SPECIFICATION MCSpec
CONSTANTS
    s1 = s1
    s2 = s2
    k1 = k1
    k2 = k2
    g1 = g1
    g2 = g2
    x1 = x1
    x2 = x2
    y1 = y1
    y2 = y2
    \* Faucet
    FaucetCalls = {k1, k2}
    Cooldown = 3
    PartnerWait = 1
    DayLength = 3
    MaxFaucetTime = 5
    MaxFaucetAsks = 3
    \* Shortlink
    LinkPages = {g1, g2}
    LinkCalls = {k1, k2}
    StepNumbers = {1, 2, 3}
    StepWait = 1
    LinkDay = 8
    MaxLinkTime = 8
    MaxLinkAsks = 4
    MaxLinkCrossedAsks = 3
    \* WatchTime
    WatchCalls = {k1, k2}
    Cards = {g1, g2}
    BeatGap = 2
    BeatSeconds = 1
    VideoPrice = 1
    CardPrice = 1
    CardGap = 1
    PowerLife = 3
    VideoLimit = 1
    CardLimit = 1
    MaxWatchTime = 4
    MaxWatchAsks = 5
    MaxWatchCrossedAsks = 3
    \* Games and MatchThree
    Sockets = {s1, s2}
    PlayerOf <- MCOnePlayer
    GameNames = {memory}
    GameCalls = {k1, k2}
    Goal = 2
    GameCooldown = 2
    MinPlay = 1
    LongPower = 2
    ShortPower = 1
    MaxPowers = 1
    MaxGameTime = 3
    MaxGameAsks = 3
    Width = 3
    Height = 3
    Symbols = {e1, e2}
    Hole = Hole
    CellPoints = 2
    WinPoints = 12
    MaxScore = 16
    \* RateLimit
    Keys = {y1, y2}
    WindowMs = 2
    MaxHits = 2
    CleanupIntervalMs = 2
    MaxKeys = 1
    MaxCount = 4
    MaxClock = 8
SYMMETRY Symmetry
INVARIANTS FaucetSafe LinkSafe WatchSafe GamesSafe LimitSafe
PROPERTIES BoardKept
CHECK_DEADLOCK FALSE
