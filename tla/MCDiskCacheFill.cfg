\* The sectors add_span reads into the cache, under a fine clock.
CONSTANTS
    NumSectors = 3
    MaxCount = 3
    Vals = {v1, v2}
    OutOfRange = OutOfRange
    Ratios <- MCRatios
    MaxTick = 9
    FineClock = TRUE
    PartialLast = FALSE
    DiskFails = FALSE
SPECIFICATION Spec
SYMMETRY MCSymmetry
PROPERTY FillStaysInRange
