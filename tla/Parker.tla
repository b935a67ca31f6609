------------------------------- MODULE Parker -------------------------------
(***************************************************************************)
(* The thread parker AROS selects: library/std/src/sys/sync/thread_parking *)
(* /pthread.rs over the pal Mutex and Condvar of pal/unsupported/sync.     *)
(*                                                                         *)
(* One owner thread parks; any number of other threads unpark it.  Every   *)
(* atomic operation on `state`, and every call of the mutex and of the     *)
(* condition variable, is a step of its own.  The C glue behind the mutex  *)
(* and the condition variable is external and modelled by POSIX: wait      *)
(* releases the mutex and blocks in one step, a blocked thread may wake    *)
(* for no reason, a timed wait may expire, and whoever wakes takes the     *)
(* mutex again before it returns.                                          *)
(*                                                                         *)
(* The memory orderings are modelled by two sets: `unread`, the unparkers  *)
(* whose writes made before unpark the owner has not synchronised with,    *)
(* and `released`, the ones carried by the release sequence of `state`.    *)
(***************************************************************************)
EXTENDS Naturals

CONSTANTS
    Owner,       \* the thread the parker belongs to
    Unparkers,   \* the threads that hold a handle to it
    NoThread     \* the holder of a mutex nobody holds

ASSUME ThreadsAssumption ==
    /\ Owner \notin Unparkers
    /\ NoThread \notin Unparkers \cup {Owner}

VARIABLES
    state,      \* Parker.state
    lock,       \* the thread that holds Parker.lock
    waiting,    \* TRUE iff the owner is blocked on Parker.cvar
    opc,        \* where the owner is
    op,         \* the parking call it is in, or was in last
    upc,        \* where each unparker is
    unread,     \* see above
    released

vars == <<state, lock, waiting, opc, op, upc, unread, released>>
sync == <<unread, released>>

EMPTY    == 0
PARKED   == 1
NOTIFIED == 2

Calls == {"park", "park_timeout"}
OwnerPC == {"idle", "fast", "lock", "set", "reread", "wait", "blocked", "woken",
            "unlock", "panic"}
UnparkerPC == {"idle", "swap", "lock", "unlock", "notify"}

\* Parker::new_in_place, before any thread has a reference to it.
Init ==
    /\ state = EMPTY /\ lock = NoThread /\ waiting = FALSE
    /\ opc = "idle" /\ op = "park"
    /\ upc = [u \in Unparkers |-> "idle"]
    /\ unread = {} /\ released = {}

-----------------------------------------------------------------------------
(* Memory orderings: an acquiring read of `state` makes visible what its   *)
(* release sequence carries.                                               *)
Acquire == unread' = unread \ released /\ released' = {}
Release(u) == released' = released \cup {u} /\ UNCHANGED unread

-----------------------------------------------------------------------------
(* The owner: park and park_timeout share every step but the last.         *)

CallPark(c) ==
    /\ opc = "idle"
    /\ opc' = "fast" /\ op' = c
    /\ UNCHANGED <<state, lock, waiting, upc, sync>>

\* An earlier notification is consumed without taking the lock.
FastPath ==
    /\ opc = "fast"
    /\ \/ state = NOTIFIED /\ state' = EMPTY /\ opc' = "idle" /\ Acquire
       \/ state # NOTIFIED /\ opc' = "lock" /\ UNCHANGED <<state, sync>>
    /\ UNCHANGED <<lock, waiting, op, upc>>

LockPark ==
    /\ opc = "lock" /\ lock = NoThread
    /\ lock' = Owner /\ opc' = "set"
    /\ UNCHANGED <<state, waiting, op, upc, sync>>

\* compare_exchange(EMPTY, PARKED) and its three outcomes.
SetParked ==
    /\ opc = "set"
    /\ \/ state = EMPTY /\ state' = PARKED /\ opc' = "wait" /\ UNCHANGED lock
       \/ state = NOTIFIED /\ opc' = "reread" /\ UNCHANGED <<state, lock>>
       \/ state = PARKED /\ opc' = "panic" /\ lock' = NoThread /\ UNCHANGED state
    /\ UNCHANGED <<waiting, op, upc, sync>>

\* An unpark came between the fast path and the lock: swap it out.
Reread ==
    /\ opc = "reread"
    /\ state' = EMPTY /\ Acquire
    /\ \/ state = NOTIFIED /\ opc' = "unlock" /\ UNCHANGED lock
       \/ state # NOTIFIED /\ opc' = "panic" /\ lock' = NoThread
    /\ UNCHANGED <<waiting, op, upc>>

CondWait ==
    /\ opc = "wait"
    /\ lock' = NoThread /\ waiting' = TRUE /\ opc' = "blocked"
    /\ UNCHANGED <<state, op, upc, sync>>

SpuriousWake ==
    /\ waiting
    /\ waiting' = FALSE
    /\ UNCHANGED <<state, lock, opc, op, upc, sync>>

\* aros_cond_timedwait reaches its deadline.
TimeOut ==
    /\ waiting /\ op = "park_timeout"
    /\ waiting' = FALSE
    /\ UNCHANGED <<state, lock, opc, op, upc, sync>>

\* The waiting call takes the mutex again before it returns.
Relock ==
    /\ opc = "blocked" /\ ~waiting /\ lock = NoThread
    /\ lock' = Owner /\ opc' = "woken"
    /\ UNCHANGED <<state, waiting, op, upc, sync>>

MutWokenPark ==
    /\ opc = "woken" /\ op = "park"
    /\ opc' = "unlock" /\ state' = EMPTY /\ Acquire
    /\ UNCHANGED <<lock, waiting, op, upc>>

\* park: only a notification ends the wait, anything else goes back to it.
WokenPark ==
    /\ opc = "woken" /\ op = "park"
    /\ \/ state = NOTIFIED /\ state' = EMPTY /\ opc' = "unlock" /\ Acquire
       \/ state # NOTIFIED /\ opc' = "wait" /\ UNCHANGED <<state, sync>>
    /\ UNCHANGED <<lock, waiting, op, upc>>

\* park_timeout: whatever ended the wait, the state goes back to EMPTY.
WokenTimeout ==
    /\ opc = "woken" /\ op = "park_timeout"
    /\ state' = EMPTY /\ Acquire
    /\ \/ state \in {NOTIFIED, PARKED} /\ opc' = "unlock" /\ UNCHANGED lock
       \/ state = EMPTY /\ opc' = "panic" /\ lock' = NoThread
    /\ UNCHANGED <<waiting, op, upc>>

UnlockPark ==
    /\ opc = "unlock"
    /\ lock' = NoThread /\ opc' = "idle"
    /\ UNCHANGED <<state, waiting, op, upc, sync>>

OwnerStep ==
    \/ FastPath \/ LockPark \/ SetParked \/ Reread \/ CondWait \/ Relock
    \/ WokenPark \/ WokenTimeout \/ UnlockPark

Park == CallPark("park") \/ SpuriousWake \/ OwnerStep
ParkTimeout == CallPark("park_timeout") \/ TimeOut

-----------------------------------------------------------------------------
(* An unparker.  It may write what it likes before it calls unpark.        *)

CallUnpark(u) ==
    /\ upc[u] = "idle"
    /\ upc' = [upc EXCEPT ![u] = "swap"]
    /\ unread' = unread \cup {u} /\ released' = released \ {u}
    /\ UNCHANGED <<state, lock, waiting, opc, op>>

MutSwapNotified(u) ==
    /\ upc[u] = "swap"
    /\ \/ state = NOTIFIED /\ upc' = [upc EXCEPT ![u] = "idle"] /\ UNCHANGED <<state, sync>>
       \/ /\ state # NOTIFIED /\ state' = NOTIFIED
          /\ upc' = [upc EXCEPT ![u] = IF state = PARKED THEN "lock" ELSE "idle"]
          /\ Release(u)
    /\ UNCHANGED <<lock, waiting, opc, op>>

\* swap(NOTIFIED, Release): only the unpark that finds PARKED goes on.
SwapNotified(u) ==
    /\ upc[u] = "swap"
    /\ state' = NOTIFIED /\ Release(u)
    /\ upc' = [upc EXCEPT ![u] = IF state = PARKED THEN "lock" ELSE "idle"]
    /\ UNCHANGED <<lock, waiting, opc, op>>

MutLockUnpark(u) ==
    /\ upc[u] = "lock"
    /\ upc' = [upc EXCEPT ![u] = "notify"]
    /\ UNCHANGED <<state, lock, waiting, opc, op, sync>>

\* Wait until the owner is past the gap between PARKED and cvar.wait.
LockUnpark(u) ==
    /\ upc[u] = "lock" /\ lock = NoThread
    /\ lock' = u /\ upc' = [upc EXCEPT ![u] = "unlock"]
    /\ UNCHANGED <<state, waiting, opc, op, sync>>

UnlockUnpark(u) ==
    /\ upc[u] = "unlock"
    /\ lock' = NoThread /\ upc' = [upc EXCEPT ![u] = "notify"]
    /\ UNCHANGED <<state, waiting, opc, op, sync>>

\* A signal with nobody blocked on the condition variable is lost.
NotifyOne(u) ==
    /\ upc[u] = "notify"
    /\ waiting' = FALSE /\ upc' = [upc EXCEPT ![u] = "idle"]
    /\ UNCHANGED <<state, lock, opc, op, sync>>

UnparkStep(u) == SwapNotified(u) \/ LockUnpark(u) \/ UnlockUnpark(u) \/ NotifyOne(u)

Unpark(u) == CallUnpark(u) \/ UnparkStep(u)

Next == Park \/ ParkTimeout \/ \E u \in Unparkers : Unpark(u)

(* exec schedules every runnable task, so a started call keeps taking its  *)
(* steps and a deadline that is reached fires.  Nobody has to start one,   *)
(* and no spurious wakeup is promised.                                     *)
Fairness ==
    /\ WF_vars(OwnerStep) /\ WF_vars(TimeOut)
    /\ \A u \in Unparkers : WF_vars(UnparkStep(u))

Spec == Init /\ [][Next]_vars /\ Fairness

-----------------------------------------------------------------------------
(* Properties *)

\* The types of the state, and: only a blocked owner is on the condition
\* variable's queue (a wait that returns has left it).
TypeOK ==
    /\ state \in {EMPTY, PARKED, NOTIFIED}
    /\ lock \in Unparkers \cup {Owner, NoThread}
    /\ waiting \in BOOLEAN /\ (waiting => opc = "blocked")
    /\ opc \in OwnerPC /\ op \in Calls
    /\ upc \in [Unparkers -> UnparkerPC]
    /\ unread \in SUBSET Unparkers /\ released \in SUBSET Unparkers

\* None of the panics of park and park_timeout ("inconsistent park state",
\* "park state changed unexpectedly", "inconsistent park_timeout state") can
\* be reached, however parks, timeouts, spurious wakeups and unparks mix.
NoPanic == opc # "panic"

\* The lost-wakeup hazard the comment in unpark describes: whenever the owner
\* is committed to sleep although a notification is in `state`, some unparker
\* has still to signal it, and it does so only after the owner is asleep.
NoLostWakeup ==
    state = NOTIFIED =>
        /\ opc = "wait" => \E u \in Unparkers : upc[u] = "lock"
        /\ waiting => \E u \in Unparkers : upc[u] \in {"lock", "unlock", "notify"}

\* park "must observe any writes [unpark] made before the call": taking the
\* notification synchronises with every unpark that had swapped by then, the
\* ones that found NOTIFIED already there included.
WritesVisible ==
    [][state = NOTIFIED /\ state' # NOTIFIED
         => \A u \in Unparkers : upc[u] # "swap" => u \notin unread']_vars

\* Where the owner is, seen by a caller: the token is taken at the atomic
\* operation that clears NOTIFIED, and the rest of the call is bookkeeping.
AbstractOwner ==
    IF opc \in {"idle", "unlock"} THEN "running" ELSE IF opc = "panic" THEN "panic" ELSE op

\* The parker implements the token specification: park returns only with a
\* token, each token is consumed once, none is lost, and a parked owner that
\* is unparked or times out does return (liveness included).
Token == INSTANCE ParkToken WITH token <- (state = NOTIFIED), owner <- AbstractOwner
RefinesToken == Token!Spec
=============================================================================
