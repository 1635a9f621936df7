\* Safety of the cache under a clock fine enough that no two touches share
\* a tick, for a std::map recency index.
CONSTANTS
    NumSectors = 3
    MaxCount = 2
    Vals = {v1, v2}
    OutOfRange = OutOfRange
    Ratios <- MCRatios
    MaxTick = 8
    FineClock = TRUE
    PartialLast = FALSE
    DiskFails = TRUE
SPECIFICATION Spec
SYMMETRY MCSymmetry
INVARIANTS TypeOK RecencyConsistent
PROPERTIES LRUEviction ImplementsSectorStore
