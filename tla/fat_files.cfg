\* Two files on a small card, with and without the cluster cache.
SPECIFICATION Spec
CONSTANTS
    Files = {f, g}
    LastCluster = 4
    SectorEntries = 2
    SectorSize = 2
    MaxLen = 4
    Lengths = {1, 4}
    Values = {1}
    Modes <- MCModes
    Positions = {1}
    Seekers = {f}
INVARIANTS ClosedSurvives ReadsBack ChainsDisjoint
PROPERTY ImplementsFatVolume
CHECK_DEADLOCK FALSE
