CONSTANTS
    Sizes <- MCRaceSizes
    Syncs = {"n"}
    IntModulus <- MCModulus
SPECIFICATION FairSpec
INVARIANTS
    RaceBounds
