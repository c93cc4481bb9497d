\* Two uploads to one board, the second over what the first left behind.
SPECIFICATION FairSpec
CONSTANTS
    RecordLength = 2
    MemorySize = 4
    Loads = {1}
    Sizes = {0, 3, 4}
    MaxRetries = 1
    MaxUploads = 2
    Budget <- MCEverything
INVARIANTS MemoryOK StartsWhole ProgressHonest ResetHarmless FailureStartsNothing EnoughRetries
PROPERTY EndsAndStarts
