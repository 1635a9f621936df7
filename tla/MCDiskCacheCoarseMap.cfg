\* A PIT clock (100 Hz) that several cache touches can share, with a
\* std::map recency index.  The kernel halts on a panic, so a state with
\* no successor is not an error here.
CONSTANTS
    NumSectors = 2
    MaxCount = 2
    Vals = {v1, v2}
    OutOfRange = OutOfRange
    Ratios <- MCRatios
    MaxTick = 3
    FineClock = FALSE
    PartialLast = FALSE
    DiskFails = FALSE
SPECIFICATION Spec
SYMMETRY MCSymmetry
INVARIANT AssertionsHold
CHECK_DEADLOCK FALSE
