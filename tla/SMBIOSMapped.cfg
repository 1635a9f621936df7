\* The walk when Memory::mmap returns an address above the physical one.
SPECIFICATION Spec
CONSTANTS
    Paragraphs = 2
    AnchorLens = {0, 16}
    Types = {0, 4, 1}
    FmtLen = 4
    Filler = 1
    LastBytes = {0}
    MinStrings = 1
    MaxStrings = 2
    MaxStructs = 2
    EndMarked = {TRUE, FALSE}
    Deltas = {0, 64}
INVARIANT WalkReturnsFirst
CHECK_DEADLOCK FALSE
