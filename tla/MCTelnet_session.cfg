CONSTANTS
    BufferSize = 2
    SocketSize = 2
    PipeSize = 2
    Outputs <- MCOutputs
    Scripts <- MCScripts
    KeySize = 2
SPECIFICATION FairSpec
INVARIANTS
    TypeOK
    KeysDelivered
    OutputDelivered
    ServerEndings
    TerminalRestored
PROPERTIES
    SessionEnds
CHECK_DEADLOCK FALSE
