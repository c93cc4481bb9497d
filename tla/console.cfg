\* Both kinds of session and everything that can go wrong with the far end.
SPECIFICATION FairSpec
CONSTANTS
    SessionKinds = {"Uart", "Emulator"}
    Faults = {"closes", "fails", "stalls", "write", "eof"}
    MaxKeys = 2
    MaxPrinted = 3
INVARIANTS ForwardsInOrder OutputOK OnlyQuitEnds
PROPERTY SessionEnds
