\* Every kind of project and every command, with three edits in between.
SPECIFICATION Spec
CONSTANT
    MaxEdits = 3
    None = None
INVARIANTS
    RunHandsOverItsOwn
    LinkedAgainstWhole
