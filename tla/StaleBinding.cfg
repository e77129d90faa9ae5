\* The instance of Host.cfg, following its binding sessions only.
CONSTANTS
    a = a  b = b  c = c
    Size = 2
    Jobs = {a, b, c}
    Panics = {b, c}
    Needs <- AWaitsForB
    Nobody = Nobody
    Nodes <- SomeNodes
    Root = "root"
    Kind <- SomeKinds
    Awaits <- SomeChildren
    Channels = {"c"}
    Channel <- OneChannel
    Owns <- RightSends
    ThreadSends = 3
    Modules = {"p.a", "p.b"}
    Names = {"f", "g", "h"}
    Binds <- SomeBinds
    MaxEdits = 1
    Cargo = "cargo"
    Children = {"rustc", "script", "server"}
    Writers = {"rustc", "script"}
    Deaf = {"server"}
    Processes = {"p", "q"}
    Entries = {"e", "f", "g"}
    Sizes = {1, 2}
    Horizon = 2
    Now = 3
    MaxBytes = 2
    Builders = {"p", "q"}
    Versions = {1, 2}
    MaxChanges = 2
SPECIFICATION SessionSpec
PROPERTIES
    EditsAreSeen
