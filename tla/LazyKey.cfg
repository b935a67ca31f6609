\* Three racing threads and four keys, the sentinel among them: the pool can
\* run out, and a key a thread gave up can be handed to another one.
CONSTANTS
    Threads = {t1, t2, t3}
    Keys = {0, 1, 2, 3}
    NoKey = none
SPECIFICATION Spec
CHECK_DEADLOCK FALSE
INVARIANTS KeysAgree NoKeyLeaked
