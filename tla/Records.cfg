SPECIFICATION RecordsSpec
\* Two sessions of the correlation engine, its sweeper and operators; one may die.
CONSTANTS
    Types = {"cpu"}
    Groups = {"g1"}
    Sessions = {"s1", "s2"}
    Kinds = {"open", "operator", "sweep", "recovery", "signal", "suppress"}
    SweepLimit = 1
    MaxIncidents = 2
    MaxClock = 1
    MaxCrash = 1
INVARIANTS
    OneOpenPerGroup
    OneLeader
    OneSuccessor
    CuratedTakesEffect
    FourEyes
    StoredOnce
    GraphSound
    
    CurrentIsPublished
    NothingLost
    SchemaSound
PROPERTIES
    CuratedSurvives
    ReachesHead
CHECK_DEADLOCK FALSE
