--------------------------- MODULE AbstractMutex ----------------------------
(***************************************************************************)
(* What std::sync::Mutex promises: at most one thread is inside, a lock    *)
(* waits for that, a try_lock fails only because somebody is inside, and a *)
(* free mutex that is asked for is taken by one of those who ask.          *)
(***************************************************************************)
CONSTANTS Threads

VARIABLES
    inside,    \* the threads that hold the lock, by a guard they may have leaked
    call       \* the call each thread is in

vars == <<inside, call>>

Calls == {"lock", "try_lock"}

Init == inside = {} /\ call = [t \in Threads |-> "none"]

Ask(t, c) == call[t] = "none" /\ call' = [call EXCEPT ![t] = c] /\ UNCHANGED inside

Enter(t) ==
    /\ call[t] \in Calls /\ inside = {}
    /\ inside' = {t} /\ call' = [call EXCEPT ![t] = "none"]

Refuse(t) ==
    /\ call[t] = "try_lock" /\ inside # {}
    /\ call' = [call EXCEPT ![t] = "none"] /\ UNCHANGED inside

Leave(t) == t \in inside /\ inside' = inside \ {t} /\ UNCHANGED call

Next == \E t \in Threads : Enter(t) \/ Refuse(t) \/ Leave(t) \/ \E c \in Calls : Ask(t, c)

Safety == Init /\ [][Next]_vars

\* Nobody in particular is promised the lock, but somebody gets it.
Spec == Safety /\ WF_vars(\E t \in Threads : Enter(t) \/ Refuse(t))
=============================================================================
