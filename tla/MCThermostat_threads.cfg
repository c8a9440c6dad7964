CONSTANTS
    Programs = {"lab4b", "lab4c_tcp", "lab4c_tls"}
    Scripts <- MCScripts
    BufferSize = 5
SPECIFICATION FairSpec
INVARIANTS
    TypeOK
    OneLateReport
    LinesObeyed
    LogFollows
    ShutdownLogged
    CrashCauses
PROPERTIES
    OffEnds
