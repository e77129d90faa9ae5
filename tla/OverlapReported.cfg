\* What the documentation says of overlapping access.
CONSTANTS
    h1 = h1  h2 = h2  h3 = h3  v1 = v1  v2 = v2
    t1 = t1  t2 = t2
    Threads = {t1, t2}
    Handles = {h1, h2, h3}
    Values = {v1, v2}
    Functions <- PrintingFunctions
    Class <- SomeClasses
    Shareable = {"struct"}
    Foreign = {}
    MaxDepth = 2
    Nothing = Nothing
SPECIFICATION Spec
INVARIANT
    OverlapIsBorrowError
