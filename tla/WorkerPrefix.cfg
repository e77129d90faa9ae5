\* The packages of Compiler.cfg, followed into the prefix of a worker's closure.
CONSTANTS
    Functions <- MCFunctions
    Order <- MCOrder
    Nodes <- MCNodes
    Statements <- SomeStatements
    LocalNames = {"x", "y", "z", "n", "i", "v", "m", "it"}
    CopyNames = {"n", "i", "v", "m"}
    OpaqueNames = {"it"}
    Enums <- SomeEnums
    Structs <- SomeStructs
    Rayon = TRUE
    Callers = {"p", "q"}
    Parts = 2
    Attempts = 2
    MaxMeddling = 2
SPECIFICATION PolicySpec
\* A call ends with its function.
CHECK_DEADLOCK FALSE
INVARIANT WorkersNeverReachPython
