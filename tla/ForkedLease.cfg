\* Two processes forked after the import, so with one lease id.
CONSTANTS
    p1 = p1  p2 = p2
    t1 = t1  t2 = t2
    v1 = v1  v2 = v2
    w1 = w1  w2 = w2
    Procs = {p1, p2}
    Threads = {t1, t2}
    Pruners = {r1}
    ProcOf <- OneThreadEach
    LeaseId <- ParentLeaseId
    Versions = {v1, v2}
    Resolved <- ResolvedV2
    Policies = {FALSE}
    Calls <- LoadAndCheck
    Worlds = {w1}
    MaxEdits = 0
    MaxMishaps = 0
    Missing = Missing
    Damaged = Damaged
    Free = Free
    Faults = {}
SPECIFICATION Spec
INVARIANTS
    MappedIsLeased
