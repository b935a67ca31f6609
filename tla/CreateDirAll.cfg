\* Three processes and three components.
CONSTANTS
    Procs = {p1, p2, p3}
    Depth = 3
SPECIFICATION Spec
CHECK_DEADLOCK FALSE
INVARIANTS Created FailsOnlyOvertaken
PROPERTIES Returns
