\* Locked builds while somebody edits the dependency lock.
CONSTANTS
    p1 = p1  p2 = p2
    t1 = t1  t2 = t2
    v1 = v1  v2 = v2
    w1 = w1  w2 = w2
    Procs = {p1, p2}
    Threads = {t1, t2}
    Pruners = {r1}
    ProcOf <- OneThreadEach
    LeaseId <- OwnLeaseId
    Versions = {v1, v2}
    Resolved <- ResolvedV2
    Policies = {TRUE}
    Calls <- LockedBuild
    Worlds = {w1}
    MaxEdits = 1
    MaxMishaps = 0
    Missing = Missing
    Damaged = Damaged
    Free = Free
    Faults = {"edit"}
SPECIFICATION Spec
PROPERTIES
    LockedKeepsLock
