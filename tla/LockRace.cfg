\* As ReplanLoop, but the edit may fall between PersistLock and VerifyLock.
CONSTANTS
    p1 = p1  p2 = p2
    t1 = t1  t2 = t2
    v1 = v1  v2 = v2
    w1 = w1  w2 = w2
    Procs = {p1}
    Threads = {t1, t2}
    Pruners = {}
    ProcOf <- BothInOne
    LeaseId <- OwnLeaseId
    Versions = {v1, v2}
    Resolved <- ResolvedV2
    Policies = {FALSE}
    Calls <- LoadAndCheck
    Worlds = {w1}
    Missing = Missing
    Damaged = Damaged
    Free = Free
    Faults = {"edit", "editRacesVerify"}
    MaxEdits = 1
    MaxMishaps = 0
SPECIFICATION Spec
INVARIANTS
    VerifiedMatchesLock
