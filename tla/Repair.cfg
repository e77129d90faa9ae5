\* Repairs: damaged entries and changing inputs, crashes and prunes.
CONSTANTS
    p1 = p1  p2 = p2
    t1 = t1  t2 = t2
    v1 = v1  v2 = v2
    w1 = w1  w2 = w2
    Procs = {p1, p2}
    Threads = {t1, t2}
    Pruners = {r1}
    ProcOf <- OneThreadEach
    LeaseId <- OwnLeaseId
    Versions = {v1, v2}
    Resolved <- ResolvedBoth
    Policies = {FALSE}
    Calls <- LoadBuildExpand
    Worlds = {w1, w2}
    MaxEdits = 0
    MaxMishaps = 2
    Missing = Missing
    Damaged = Damaged
    Free = Free
    Faults = {"prune", "crash", "damage", "world"}
SPECIFICATION Spec
INVARIANTS
    PublishedEntryStays
PROPERTIES
    VerifiedIsImmutable
    ResolvedLockIsStable
SYMMETRY Swap
