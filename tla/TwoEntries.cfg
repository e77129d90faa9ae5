\* Two entries of one unit (locked and unlocked), mapped, pruned, repaired.
CONSTANTS
    p1 = p1  p2 = p2
    t1 = t1  t2 = t2
    v1 = v1  v2 = v2
    w1 = w1  w2 = w2
    Procs = {p1, p2}
    Threads = {t1, t2}
    Pruners = {r1}
    ProcOf <- OneThreadEach
    LeaseId <- OwnLeaseId
    Versions = {v1}
    Resolved <- ResolvedV1
    Policies = {TRUE, FALSE}
    Calls <- LoadEither
    Worlds = {w1}
    MaxEdits = 0
    MaxMishaps = 1
    Missing = Missing
    Damaged = Damaged
    Free = Free
    Faults = {"prune", "exit", "damage"}
SPECIFICATION Spec
INVARIANTS
    MappedIsLeased
PROPERTIES
    StoreSpec
SYMMETRY Swap
