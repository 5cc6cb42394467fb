\* Two verifier runs work on one row.
SPECIFICATION Spec
CONSTANTS
    u1 = u1
    h1 = h1
    i1 = i1
    s1 = s1
    v1 = v1
    v2 = v2
    Users = {u1}
    Hashes = {h1}
    Valid = {h1}
    Spellings = {"lower"}
    Ids = {i1}
    Submits = {s1}
    Detectors = {}
    Runs = {v1, v2}
    MaxAttempts = 2
    FaultKinds <- MCNoFault
    MaxFaults = 0
INVARIANT CreditedOnce
CHECK_DEADLOCK FALSE
