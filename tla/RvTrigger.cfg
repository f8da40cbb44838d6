CONSTANTS
    Cpus = {c1, c2}
    Buffers = {b1, b2}
    Params <- MCParams
    Parsed <- MCParsed
    Symbol <- MCSymbol
    NumTriggers = 2
    NULL = NULL
SPECIFICATION Spec
INVARIANTS TypeOK FirmwareMemoryIsLive MemoryIsAccountedFor UpMeansTriggered DownMeansSilent
PROPERTY LoadEnds
