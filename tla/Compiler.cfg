\* Packages of three functions; bodies of at most five statements; matches of
\* two arms; chains until a type of more than five constructors; two calls
\* that store two files of one source.
CONSTANTS
    Functions <- MCFunctions
    Order <- MCOrder
    Nodes <- MCNodes
    Statements <- SomeStatements
    LocalNames = {"x", "y", "z", "n", "i", "v", "m", "it"}
    CopyNames = {"n", "i", "v", "m"}
    OpaqueNames = {"it"}
    Enums <- SomeEnums
    Structs <- SomeStructs
    Rayon = TRUE
    Callers = {"p", "q"}
    Parts = 2
    Attempts = 2
    MaxMeddling = 2
SPECIFICATION Spec
\* A pass ends with its input.
CHECK_DEADLOCK FALSE
INVARIANTS
    EffectsAreReachable
    DetachedCallsStayNative
    WorkersStayNative
    MovesAreCaught
    ReturnsOnEveryPath
    ArmsAgree
    NamesResolve
    ImportsAgree
    ExpressionsAgree
    TypesAgree
    ReceiversAreGiven
    SnapshotsHold
