\* Accounts, offer events, the shop and partners, one of them in each behaviour.
SPECIFICATION MCSpec
CONSTANTS
    k1 = k1
    k2 = k2
    u1 = u1
    u2 = u2
    o1 = o1
    o2 = o2
    w1 = w1
    w2 = w2
    v1 = v1
    v2 = v2
    n1 = n1
    n2 = n2
    x1 = x1
    x2 = x2
    pw = pw
    bob = bob
    Bob = Bob
    ann = ann
    \* OfferEvents
    Users = {u1, u2}
    Offers = {o1, o2}
    Buyers = {k1, k2}
    Admins = {a1}
    Quantities = {1, 2}
    Stocks = {2}
    Limits = {0, 2}
    Prices = {0, 1}
    Funds = 2
    MaxTries = 2
    MaxPieces = 3
    MaxEdits = 2
    FaultKinds <- MCFaults
    MaxFaults = 1
    \* Shop
    Shoppers = {u1, u2}
    BuyCalls = {k1, k2}
    Wares = {w1, w2}
    Slugs = {"g1", "g2"}
    WarePrices = {0, 1, 2}
    MaxBulk = 2
    ShopFunds = 3
    MaxWareEdits = 2
    MaxPurchases = 2
    \* Partners
    Viewers = {v1, v2}
    PartnerCalls = {k1, k2}
    SwapAmounts <- MCSwapAmounts
    AdCost = 2
    ViewReward = 1
    TargetViews = 1
    Rates = {1, 2}
    StartMoney = 3
    MaxPartnerAsks = 5
    \* Accounts
    People = {u1, u2}
    Names = {bob, Bob, ann}
    SameName <- MCAnyCase
    Nets = {n1, n2}
    Passwords = {pw, q}
    Secrets = {x1, x2}
    AccountCalls = {k1, k2}
    NetLimit = 1
    MaxAccountAsks = 2
SYMMETRY Symmetry
INVARIANTS OffersSafe ShopSafe PartnersSafe AccountsSafe
PROPERTIES SalesSteps
CHECK_DEADLOCK FALSE
