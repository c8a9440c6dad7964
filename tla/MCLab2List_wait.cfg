CONSTANTS
    Sizes <- MCWaitSizes
    Syncs = {"m"}
    Keys = {1}
    WaitTimes = {0, 1}
SPECIFICATION Spec
INVARIANTS
    WaitIsTotal
