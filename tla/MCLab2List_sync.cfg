CONSTANTS
    Sizes <- MCSyncSizes
    Syncs = {"m"}
    Keys = {1, 2}
    WaitTimes = {0}
SPECIFICATION Spec
INVARIANTS
    TypeOK
    LockOwnership
    ListsSound
    SyncNeverFails
PROPERTIES
    RefinesSharedBag
