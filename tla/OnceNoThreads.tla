--------------------------- MODULE OnceNoThreads ----------------------------
(***************************************************************************)
(* std::sync::Once as AROS gets it: sys/sync/once/mod.rs knows neither the *)
(* target nor its family, so it selects no_threads.rs, whose state is a    *)
(* Cell, while AROS does run threads.  Any number of threads call the same *)
(* Once through call_once or call_once_force.  A Cell has no atomicity     *)
(* beyond one load or one store, so those are the steps.                   *)
(***************************************************************************)
CONSTANTS
    Threads,
    Forcing      \* the threads that use call_once_force

VARIABLES
    state,    \* Once.state
    pc,       \* where each thread is
    seen,     \* what `call` loaded
    setTo     \* CompletionGuard.set_state_on_drop_to

vars == <<state, pc, seen, setTo>>

States == {"Incomplete", "Poisoned", "Running", "Complete"}

Init ==
    /\ state = "Incomplete"
    /\ pc = [t \in Threads |-> "idle"]
    /\ seen = [t \in Threads |-> "Incomplete"]
    /\ setTo = [t \in Threads |-> "Incomplete"]

Goto(t, l) == pc' = [pc EXCEPT ![t] = l]

\* The fast path of call_once: is_completed.
FastPath(t) ==
    /\ pc[t] = "idle"
    /\ Goto(t, IF state = "Complete" THEN "returned" ELSE "get")
    /\ UNCHANGED <<state, seen, setTo>>

\* call loads the state and decides.
Get(t) ==
    /\ pc[t] = "get"
    /\ seen' = [seen EXCEPT ![t] = state]
    /\ \/ state = "Poisoned" /\ t \notin Forcing /\ Goto(t, "poison_panic")
       \/ state = "Poisoned" /\ t \in Forcing /\ Goto(t, "set")
       \/ state = "Incomplete" /\ Goto(t, "set")
       \/ state = "Running" /\ Goto(t, "recursion_panic")
       \/ state = "Complete" /\ Goto(t, "returned")
    /\ UNCHANGED <<state, setTo>>

\* The guard is made with Poisoned, for a closure that unwinds.
SetRunning(t) ==
    /\ pc[t] = "set"
    /\ state' = "Running"
    /\ setTo' = [setTo EXCEPT ![t] = "Poisoned"]
    /\ Goto(t, "running")
    /\ UNCHANGED seen

\* The closure returns, returns after OnceState::poison (which only the closure
\* of call_once_force can reach), or unwinds.
Finish(t) ==
    /\ pc[t] = "running"
    /\ \/ setTo' = [setTo EXCEPT ![t] = "Complete"] /\ Goto(t, "done")
       \/ t \in Forcing /\ UNCHANGED setTo /\ Goto(t, "done")
       \/ UNCHANGED setTo /\ Goto(t, "unwinding")
    /\ UNCHANGED <<state, seen>>

GuardDrop(t) ==
    /\ pc[t] \in {"done", "unwinding"}
    /\ state' = setTo[t]
    /\ Goto(t, IF pc[t] = "done" THEN "returned" ELSE "closure_panic")
    /\ UNCHANGED <<seen, setTo>>

CallOnce(t) == FastPath(t) \/ Get(t) \/ SetRunning(t) \/ Finish(t) \/ GuardDrop(t)

Next == \E t \in Threads : CallOnce(t)

Spec == Init /\ [][Next]_vars

-----------------------------------------------------------------------------
(* Properties *)

\* The closure of t ran to its end without asking for poison.
Completed(t) == pc[t] \in {"done", "returned"} /\ setTo[t] = "Complete"

\* "Performs an initialization routine once and only once": no closure starts
\* while another is running or after one has completed.
RunsOnce ==
    \A t, u \in Threads :
        pc[t] = "running" /\ (pc[u] = "running" \/ Completed(u)) => t = u
=============================================================================
