\* One session whose console wait ends while Docker is still to create the container.
SPECIFICATION FairSpec
CONSTANTS
    Procs = {p1}
    AsRoot = {}
    Runners = {"docker"}
    Faults = {}
INVARIANTS NothingOutlives
