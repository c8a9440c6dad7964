CONSTANTS
    Sizes <- MCRaceSizes
    Syncs = {"n", "m"}
    Keys = {1, 2}
    WaitTimes = {0}
SPECIFICATION FairSpec
INVARIANTS
    LinksAcyclic
    PointersValid
PROPERTIES
    Termination
