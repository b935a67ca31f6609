\* Three threads: two nodes in the queue and a holder, and a third node when the
\* holder comes back before the queue is unlocked.
CONSTANTS
    t1 = t1
    t2 = t2
    Threads = {t1, t2, t3}
    Calls <- SomeCalls
    SpinCount = 1
    Spurious = TRUE
    Null = null
SPECIFICATION FairSpec
INVARIANTS TypeOK NodesLive ReadersCounted WaitersAttended
PROPERTIES RefinesRwLock AllServed
