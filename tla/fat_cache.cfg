\* The cluster cache as fat_custom.h ships it, against what a file is for.
SPECIFICATION Spec
CONSTANTS
    Files = {f, g}
    LastCluster = 4
    SectorEntries = 2
    SectorSize = 2
    MaxLen = 4
    Lengths = {1, 4}
    Values = {1}
    Modes <- MCModes
    Positions = {1}
    Seekers = {f}
INVARIANT GivesBack
