SPECIFICATION Spec
CONSTANTS
    j1 = j1
    j2 = j2
    k1 = k1
    Jobs = {j1, j2}
    Agents = {a1}
    Handlers = {h1, h2}
    Users = {u1}
    Keys = {j1, j2}
    DedupKey <- OwnKey
    Window = 1
    MaxParallel = 1
    TargetSets <- WholeFleet
    Gates = {FALSE}
    NoUser = NoUser
    NoJob = NoJob
    NoAgent = NoAgent
    NoHandler = NoHandler
    Events = {"signing", "refuse", "restart", "sweep"}
SYMMETRY Symmetry
INVARIANTS
    AtMostOnce
    NoSilentLoss
CHECK_DEADLOCK FALSE
