CONSTANTS
    Scripts <- MCScripts
    Outputs <- MCOutputs
    BufferSize = 2
    PipeSize = 2
SPECIFICATION FairSpec
INVARIANTS
    TypeOK
    KeysDelivered
    OutputDelivered
    Endings
PROPERTIES
    ProgramEnds
CHECK_DEADLOCK FALSE
