\* Two sessions side by side, one of them root's, either of which may be killed and
\* swept up after.
SPECIFICATION FairSpec
CONSTANTS
    Procs = {p1, p2}
    AsRoot = {p1}
    Runners = {"here", "docker"}
    Faults = {"rom", "spawn", "rm", "killed"}
INVARIANTS SweepsAbandoned LeavesNothing
PROPERTIES WaitEnds
