\* Three threads and as many addresses: all three can allocate at once, and the
\* address of a loser's pal mutex is handed out again.
CONSTANTS
    Threads = {t1, t2, t3}
    Boxes = {b1, b2, b3}
    Null = null
SPECIFICATION Spec
CHECK_DEADLOCK FALSE
INVARIANTS UseSafe
PROPERTIES DestroyedUnlocked RefinesMutex
