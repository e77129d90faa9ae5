\* Three handles, of which two may be arguments of one call; two threads;
\* calls within calls.
CONSTANTS
    h1 = h1  h2 = h2  h3 = h3  v1 = v1  v2 = v2
    t1 = t1  t2 = t2
    Threads = {t1, t2}
    Handles = {h1, h2, h3}
    Values = {v1, v2}
    Functions <- SomeFunctions
    Class <- SomeClasses
    Shareable = {"struct"}
    Foreign = {}
    MaxDepth = 2
    Nothing = Nothing
SPECIFICATION Spec
SYMMETRY Symmetric
INVARIANTS
    TypeOK
    ContextsAreBorrows
    MovedHasSite
PROPERTIES
    DisciplineSpec
    RefusedCallTakesNothing
