\* Every shape of table and window: zero and non-zero last bytes, structures
\* without strings, no end marker, anchors reaching past the window, and the
\* table mapped below, at or above its physical address.
SPECIFICATION Spec
CONSTANTS
    Paragraphs = 2
    AnchorLens = {0, 31}
    Types = {0, 4, 1}
    FmtLen = 4
    Filler = 1
    LastBytes = {0, 255}
    MinStrings = 0
    MaxStrings = 2
    MaxStructs = 2
    EndMarked = {TRUE, FALSE}
    Deltas <- MCDeltas
INVARIANT TypeOK
PROPERTY WalkTerminates
CHECK_DEADLOCK FALSE
