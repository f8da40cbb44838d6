CONSTANTS
    Files <- MCFiles
    OpenAt = {0, 2}
    NoIcnt = NoIcnt
    Values = {0, 1, 2}
    IcntBytes <- MCIcntBytes
SPECIFICATION Spec
INVARIANTS FramingKept EditsLand
PROPERTY ShownIsCurrent
