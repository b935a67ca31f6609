\* Two threads call call_once on the same Once.
CONSTANTS
    Threads = {t1, t2}
    Forcing = {}
SPECIFICATION Spec
CHECK_DEADLOCK FALSE
INVARIANTS RunsOnce
