\* Sequence numbers wrap within the file, and faults are fewer than attempts by
\* one: one more would break RetriesSuffice.
SPECIFICATION MCSpec
CONSTANTS
    NumChunks = 2
    SeqMod = 2
    MaxRetries = 4
    MaxFaults = 3
    Fatal = {"io", "name", "remote", "dead", "cancel"}
INVARIANTS
    InOrder
    SuccessIsDelivery
    ProgressHonest
    RetriesSuffice
PROPERTIES
    ImplementsFileTransfer
    EndsAndArrives
