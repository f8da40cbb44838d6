CONSTANTS
    Program <- MCProgram
    Mapped <- MCMapped
    Starts <- MCStarts
    Handler = 19
    Modes = {"BTM", "HTM"}
    Quirks = {TRUE, FALSE}
    MaxIcnt = 7
    MaxSegments = 3
    MaxStack = 1
    MaxNest = 2
    Depths = {1}
    Lifted = {}
    Nowhere = Nowhere
SPECIFICATION Spec
INVARIANTS StandsWhereHartWas
