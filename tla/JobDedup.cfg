SPECIFICATION Spec
CONSTANTS
    j1 = j1
    j2 = j2
    k1 = k1
    Jobs = {j1, j2}
    Agents = {a1, a2}
    Handlers = {h1}
    Users = {u1}
    Keys = {k1}
    DedupKey <- SameKey
    Window = 1
    MaxParallel = 1
    TargetSets <- WholeFleet
    Gates = {FALSE}
    NoUser = NoUser
    NoJob = NoJob
    NoAgent = NoAgent
    NoHandler = NoHandler
    Events = {"sweep"}
SYMMETRY Symmetry
INVARIANT OneActivePerKey
CHECK_DEADLOCK FALSE
