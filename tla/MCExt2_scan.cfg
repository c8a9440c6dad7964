CONSTANTS
    BitmapBits = 24
    Images <- MCImages
    Beyond <- MCBeyond
SPECIFICATION FairSpec
INVARIANTS
    IndirectRight
    AuditFaithful
PROPERTIES
    ScanEnds
CHECK_DEADLOCK FALSE
