\* A resource whose deletion never ends leaves nothing to do.
CHECK_DEADLOCK FALSE
SPECIFICATION FairSpec
CONSTANT MaxCrashes = 2
INVARIANTS
    IInv
    NoOrphan
    ProtectedOnceShown
    ReadyHasRun
PROPERTIES
    DeletionReachesAddon
