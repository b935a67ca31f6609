--------------------------- MODULE AbstractRwLock ---------------------------
(***************************************************************************)
(* What std::sync::RwLock promises: many readers or one writer inside, a   *)
(* downgrade that lets nobody in between, a try that fails only because    *)
(* somebody is inside (a try_read also because somebody waits), and a free *)
(* lock that is asked for is taken by one of those who ask.                *)
(***************************************************************************)
CONSTANTS Threads

VARIABLES
    readers, writers,   \* the threads inside
    call                \* the call each thread is in

vars == <<readers, writers, call>>

Requests == {"read", "write", "try_read", "try_write"}

Init == readers = {} /\ writers = {} /\ call = [t \in Threads |-> "none"]

Answer(t) == call' = [call EXCEPT ![t] = "none"]

Ask(t, c) ==
    /\ call[t] = "none" /\ t \notin readers \cup writers
    /\ call' = [call EXCEPT ![t] = c]
    /\ UNCHANGED <<readers, writers>>

EnterRead(t) ==
    /\ call[t] \in {"read", "try_read"} /\ writers = {}
    /\ readers' = readers \cup {t} /\ Answer(t) /\ UNCHANGED writers

EnterWrite(t) ==
    /\ call[t] \in {"write", "try_write"} /\ readers \cup writers = {}
    /\ writers' = {t} /\ Answer(t) /\ UNCHANGED readers

Refuse(t) ==
    /\ \/ call[t] \in {"try_read", "try_write"} /\ readers \cup writers # {}
       \/ call[t] = "try_read" /\ \E u \in Threads : call[u] \in {"read", "write"}
    /\ Answer(t) /\ UNCHANGED <<readers, writers>>

Downgrade(t) ==
    /\ t \in writers
    /\ writers' = writers \ {t} /\ readers' = readers \cup {t} /\ UNCHANGED call

Leave(t) ==
    /\ t \in readers \cup writers
    /\ readers' = readers \ {t} /\ writers' = writers \ {t} /\ UNCHANGED call

Enter(t) == EnterRead(t) \/ EnterWrite(t)

Next == \E t \in Threads :
    Enter(t) \/ Refuse(t) \/ Downgrade(t) \/ Leave(t) \/ \E c \in Requests : Ask(t, c)

Safety == Init /\ [][Next]_vars

\* Nobody in particular is promised the lock, but once everybody has left
\* somebody gets it.
Spec == Safety /\ WF_vars(readers \cup writers = {} /\ \E t \in Threads : Enter(t) \/ Refuse(t))
=============================================================================
