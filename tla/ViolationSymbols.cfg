CONSTANTS
    Cpus = {c1, c2}
    Buffers = {b1, b2}
    Params <- SymbolsOnly
    Parsed <- MCParsed
    Symbol <- MCSymbol
    NumTriggers = 2
    NULL = NULL
SPECIFICATION Spec
INVARIANT TriggersFireAtSymbols
