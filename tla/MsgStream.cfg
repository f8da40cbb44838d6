CONSTANTS
  None = None
  MaxMsgs = 3
  MaxLen = 3
  Files <- MCFiles
  Bufsizes <- MCBufsizes
  Filters <- MCFilters
  ShortReads = TRUE
  ReadErrors = TRUE
SPECIFICATION Spec
INVARIANTS TypeOK BufferMirrorsFile LastMsgIsInBuffer AssertionsHold
PROPERTIES ImplementsCursor CallsReturn
