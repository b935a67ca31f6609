\* Two programs on one volume, each one task, which number their scripts from
\* zero and may both be inside wait.  There are two children, and one usable
\* signal bit, which may be pending from one wait at the next one; the task of
\* the first program also takes it for itself.
CONSTANTS
    t1 = t1
    t2 = t2
    g1 = g1
    g2 = g2
    Procs = {p1, p2}
    Tasks = {t1, t2}
    Programs = {g1, g2}
    ProgramOf <- OwnPrograms
    Bits = {b1}
    SignalUsers = {t1}
    ExitCodes = {20}
    Polling = {p1}
    MaxScripts = 2
    None = none
SPECIFICATION Spec
CHECK_DEADLOCK FALSE
INVARIANTS HandleSafe WaiterInsideWait ScriptKept
PROPERTIES WaitMeansExited WaitReturns KillEndsWait
