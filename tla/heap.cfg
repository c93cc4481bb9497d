\* A small heap, blocks of four bins, and the request that rounds up to none.
SPECIFICATION Spec
CONSTANTS
    HeapSize = 36
    Overhead = 4
    MinAlloc = 2
    Above <- MCAbove
    WordSize = 256
    Requests = {0, 3, 6, 10, 255}
INVARIANTS Tiles HasRoom BinsHoldHoles TakesBestFit
CHECK_DEADLOCK FALSE
