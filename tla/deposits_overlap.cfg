\* Runs, a submission and a createDepositRequest call that overlap, with a restart or an error.
SPECIFICATION FairSpec
CONSTANTS
    u1 = u1
    h1 = h1
    h2 = h2
    i1 = i1
    i2 = i2
    s1 = s1
    d1 = d1
    v1 = v1
    v2 = v2
    Users = {u1}
    Hashes = {h1, h2}
    Valid = {h1}
    Spellings = {"lower", "mixed"}
    Ids = {i1, i2}
    Submits = {s1}
    Detectors = {d1}
    Runs = {v1, v2}
    MaxAttempts = 1
    FaultKinds <- MCAnyFault
    MaxFaults = 1
INVARIANT CreditedIsOnChain
PROPERTY EventuallyResolved
CHECK_DEADLOCK FALSE
