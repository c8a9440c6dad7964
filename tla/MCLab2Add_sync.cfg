CONSTANTS
    Sizes <- MCSyncSizes
    Syncs = {"s", "m", "c"}
    IntModulus <- MCModulus
SPECIFICATION FairSpec
INVARIANTS
    TypeOK
    MutualExclusion
    CounterExact
    ReportExact
PROPERTIES
    RefinesAtomicCounter
    Termination
