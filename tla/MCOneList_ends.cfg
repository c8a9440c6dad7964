CONSTANTS
    Sizes <- MCSizes
    Syncs = {"n", "m"}
    Keys = {1, 2}
    WaitTimes = {0}
SPECIFICATION OneSpec
PROPERTIES
    EndsAsPromised
