\* Two cache slots and a character past them; the keyboard handler may
\* interrupt the main flow anywhere.  An assert halts the kernel, so the
\* model may stop.
SPECIFICATION Spec
CONSTANTS
    CacheSize = 2
    Chars = {0, 1, 2}
    MaxStores = 3
INVARIANTS TypeOK NoDanglingGlyph
CHECK_DEADLOCK FALSE
