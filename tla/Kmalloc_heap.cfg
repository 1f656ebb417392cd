SPECIFICATION Spec
CONSTANTS
    MaxOrder = 1
    NumPages = 4
    Pow <- MCPow
    PageSize = 64
    HeaderSize = 32
    SlabShift = 3
    CacheCount = 2
    SlabMax = 16
    IntBits = 10
    Sizes = {8, 9, 16, 17, 65, 128}
    Pointers = {v1, v2, v3, v4}
    NULL = NULL
SYMMETRY MCSymmetry
INVARIANTS
    HeapSound
PROPERTIES
    HeapPromise
