CONSTANTS
    Program <- MCProgram
    Mapped <- MCMapped
    Starts <- MCStarts
    Handler = 19
    Modes = {"BTM", "HTM"}
    Quirks = {TRUE, FALSE}
    MaxIcnt = 5
    MaxSegments = 4
    MaxStack = 2
    MaxNest = 2
    Depths = {1, 2}
    Lifted = {}
    Nowhere = Nowhere
SPECIFICATION Spec
INVARIANTS NeverMisled AllShown
PROPERTIES ShowsExecution MakesProgress
