SPECIFICATION Spec
INVARIANTS
    SilentIffConsistent
    ExitTells
    UnallocatedOnce
CHECK_DEADLOCK FALSE
