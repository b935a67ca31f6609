\* Two waiters, two mutexes, one notifier and as many addresses as threads;
\* timed waits of one tick that the pal object may end early, and a
\* clock that passes one tick and may fail.
CONSTANTS
    Threads = {w1, w2, n1}
    Notifiers = {n1}
    Boxes = {b1, b2, b3}
    Mutexes = {m1, m2}
    Durs = {0, 1}
    MaxClock = 2
    Null = null
SPECIFICATION CvSpec
CHECK_DEADLOCK FALSE
INVARIANTS OneMutex Meet
PROPERTIES WaitersLeave
