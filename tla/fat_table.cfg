\* Two buffers of two sectors on a FAT of four.
SPECIFICATION TableSpec
CONSTANTS
    LastSector = 3
    FatBuffers = 2
    BufferSectors = 2
    SectorValues = {0, 1}
    Beyond = 2
INVARIANTS CoherentApart SavedApart
CHECK_DEADLOCK FALSE
