SPECIFICATION Spec
PROPERTIES
    EveryRunEnds
    ExecutionEnds
    EnrollsEventually
    DeploymentSettles
    CriticalStored
    QuietIncidentEnds
    LiveIsActive
    SyncConverges
    EffectiveConverges
CHECK_DEADLOCK FALSE
