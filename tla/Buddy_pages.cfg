\* The model stops where the pointers of a free list go wrong (pc = corrupt).
SPECIFICATION Spec
CONSTANTS
    MaxOrder = 2
    NumPages = 12
    Pow <- MCPow
    Ranges <- MCRanges
CHECK_DEADLOCK FALSE
INVARIANTS
    EveryPageHeldOnce
    HeadersTell
    PoolSound
    OnlyReservedMisleads
PROPERTIES
    AllocatorPromise
