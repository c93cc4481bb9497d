\* Two commands side by side; nothing the user names is relative.
SPECIFICATION Spec
CONSTANTS
    Procs = {p1, p2}
    Programs = {"self", "tree"}
    Default = "default"
    Itself = "self"
    Relative = {}
    Cwds = {"/"}
    Trees = {"none", "other", "part", "built"}
    Inline = TRUE
    Faults = {"open", "full", "killed", "clone"}
SYMMETRY Interchangeable
INVARIANTS KeepsTheRest AskedOnceOfTables 
CHECK_DEADLOCK FALSE
