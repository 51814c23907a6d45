SPECIFICATION PlatformSpec
\* A gate before a job: two users, two sessions that may die.
CONSTANTS
    Runs = {1}
    Order <- GateOrder
    Kind <- GateKind
    Edges <- GateEdges
    Disabled = {}
    Sessions = {"s1", "s2"}
    Users = {"ann", "bob"}
    Publisher = "eve"
    MaxJobs = 2
    Events = {"crash", "reject"}
INVARIANTS
    GateHeld
    OneLiveJob
    StartsOnce
    DriftHasPlan
    RevokedIsRefused
    KeysServe
    AppliedIsReal
PROPERTY CompletedIsVerified
CHECK_DEADLOCK FALSE
