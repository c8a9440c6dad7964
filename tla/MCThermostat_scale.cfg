CONSTANTS
    Programs = {"lab4b"}
    Scripts <- MCScaleScripts
    BufferSize = 8
SPECIFICATION Spec
INVARIANTS
    ScaleIsKnown
