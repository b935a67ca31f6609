---------------------------- MODULE LazyCondvar -----------------------------
(***************************************************************************)
(* The Condvar AROS selects: sys/sync/condvar/pthread.rs, a pal condition  *)
(* variable in a OnceBox, allocated by whoever waits or notifies first.    *)
(* Its clients are the ones of the std documentation: waiters lock a mutex *)
(* and wait while the predicate `ready` is false, a notifier sets it under *)
(* its mutex and notifies.  A mutex is one lock, as LazyMutex shows.  The  *)
(* pal object is the C glue's pthread_cond_t (external): it wakes those    *)
(* that wait on it, sometimes for no reason, and may give up early.        *)
(* Cv marks the names LazyMutex has too: OnceBoxProof extends both.        *)
(***************************************************************************)
EXTENDS OnceBox, Naturals

CONSTANTS
    Notifiers,   \* the threads that notify; the others wait
    Mutexes,
    Durs,        \* the durations waited for; 0 stands for wait, with none
    MaxClock     \* bound: how far the clock goes

ASSUME CondAssumption ==
    /\ Notifiers \subseteq Threads /\ Null \notin Mutexes
    /\ Durs \subseteq Nat /\ MaxClock \in Nat

VARIABLES
    mutex,     \* Condvar.mutex, Null for 0
    heldBy,    \* who holds each mutex
    ready,     \* the clients' predicate
    waiting,   \* the threads that wait on each pal object
    with,      \* the mutex each thread uses
    dur,       \* the duration it waits for
    start,     \* its local `now`
    woken,     \* its local `woken`
    clock      \* CLOCK_MONOTONIC, which is past zero when the program starts

own_ == <<mutex, heldBy, ready, waiting, with, dur, start, woken, clock>>
cvVars == <<boxVars, own_>>

Waiters == Threads \ Notifiers

CvInit ==
    /\ BoxInit
    /\ mutex = Null /\ ready = FALSE /\ clock = 1
    /\ heldBy = [m \in Mutexes |-> Null]
    /\ waiting = [b \in Boxes |-> {}]
    /\ with = [t \in Threads |-> Null]
    /\ dur = [t \in Threads |-> 0] /\ start = [t \in Threads |-> 0]
    /\ woken = [t \in Threads |-> FALSE]

\* Condvar::get, on behalf of wait, wait_timeout, notify_one and notify_all.
CvGet(t) == GetOrInit(t, IF t \in Waiters THEN "block" ELSE "notify") /\ UNCHANGED own_

LockMutex(t, m) ==
    /\ pc[t] = "idle" /\ heldBy[m] = Null
    /\ heldBy' = [heldBy EXCEPT ![m] = t] /\ with' = [with EXCEPT ![t] = m]
    /\ Goto(t, "locked")
    /\ UNCHANGED <<ptr, heap, observed, own, at, mutex, ready, waiting, dur, start, woken, clock>>

UnlockMutex(t) == heldBy' = [heldBy EXCEPT ![with[t]] = Null]

\* A waiter finds the predicate true and leaves; else it waits.
Leave(t) ==
    /\ t \in Waiters /\ pc[t] = "locked" /\ ready
    /\ UnlockMutex(t) /\ Goto(t, "done")
    /\ UNCHANGED <<ptr, heap, observed, own, at, mutex, ready, waiting, with, dur, start, woken, clock>>

CallWait(t, d) ==
    /\ t \in Waiters /\ pc[t] = "locked" /\ ~ready
    /\ dur' = [dur EXCEPT ![t] = d] /\ Goto(t, "verify")
    /\ UNCHANGED <<ptr, heap, observed, own, at, mutex, heldBy, ready, waiting, with, start, woken, clock>>

MutVerify(t) ==
    /\ pc[t] = "verify"
    /\ mutex' = with[t] /\ Goto(t, IF dur[t] = 0 THEN "load" ELSE "now") /\ UNCHANGED heldBy
    /\ UNCHANGED <<ptr, heap, observed, own, at, ready, waiting, with, dur, start, woken, clock>>

\* verify: one compare_exchange.  The panic ends the program (panic=abort).
Verify(t) ==
    /\ pc[t] = "verify"
    /\ \/ /\ mutex \in {Null, with[t]} /\ mutex' = with[t]
          /\ Goto(t, IF dur[t] = 0 THEN "load" ELSE "now") /\ UNCHANGED heldBy
       \/ /\ mutex \notin {Null, with[t]} /\ Goto(t, "panicked") /\ UNCHANGED <<mutex, heldBy>>
    /\ UNCHANGED <<ptr, heap, observed, own, at, ready, waiting, with, dur, start, woken, clock>>

\* What Instant::now may return: ZERO when clock_gettime fails.
Readings == {0, clock}

Now(t) ==
    /\ pc[t] = "now"
    /\ \E r \in Readings : start' = [start EXCEPT ![t] = r]
    /\ Goto(t, "load")
    /\ UNCHANGED <<ptr, heap, observed, own, at, mutex, heldBy, ready, waiting, with, dur, woken, clock>>

\* pthread_cond_wait, or timedwait: unlock the mutex and wait, in one step.
Block(t) ==
    /\ pc[t] = "block"
    /\ UnlockMutex(t) /\ waiting' = [waiting EXCEPT ![at[t]] = @ \cup {t}] /\ Goto(t, "blocked")
    /\ UNCHANGED <<ptr, heap, observed, own, at, mutex, ready, with, dur, start, woken, clock>>

\* The wait ends with no notification: for no reason, or as timed out.
Unblock(t, w) ==
    /\ pc[t] = "blocked" /\ (w \/ dur[t] # 0)
    /\ waiting' = [waiting EXCEPT ![at[t]] = @ \ {t}]
    /\ woken' = [woken EXCEPT ![t] = w] /\ Goto(t, "relock")
    /\ UNCHANGED <<ptr, heap, observed, own, at, mutex, heldBy, ready, with, dur, start, clock>>

Relock(t) ==
    /\ pc[t] = "relock" /\ heldBy[with[t]] = Null
    /\ heldBy' = [heldBy EXCEPT ![with[t]] = t]
    /\ Goto(t, IF dur[t] = 0 THEN "locked" ELSE "report")
    /\ UNCHANGED <<ptr, heap, observed, own, at, mutex, ready, waiting, with, dur, start, woken, clock>>

\* now.elapsed() for a second reading r, saturating at zero.
Elapsed(t, r) == IF r < start[t] THEN 0 ELSE r - start[t]

\* wait_timeout returns woken || now.elapsed() < dur; a waiter that is told
\* that the time has passed gives up.
Report(t) ==
    /\ pc[t] = "report"
    /\ \/ /\ woken[t] \/ \E r \in Readings : Elapsed(t, r) < dur[t]
          /\ Goto(t, "locked") /\ UNCHANGED heldBy
       \/ /\ ~woken[t] /\ \E r \in Readings : Elapsed(t, r) >= dur[t]
          /\ UnlockMutex(t) /\ Goto(t, "timed_out")
    /\ UNCHANGED <<ptr, heap, observed, own, at, mutex, ready, waiting, with, dur, start, woken, clock>>

\* The notifier sets the predicate, unlocks, and calls notify_one or notify_all.
SetReady(t) ==
    /\ t \in Notifiers /\ pc[t] = "locked"
    /\ ready' = TRUE /\ UnlockMutex(t) /\ Goto(t, "load")
    /\ UNCHANGED <<ptr, heap, observed, own, at, mutex, waiting, with, dur, start, woken, clock>>

\* Notifying needs no lock, and may come, often, before anything has changed.
CallNotify(t) ==
    /\ t \in Notifiers /\ pc[t] = "idle" /\ Goto(t, "load")
    /\ UNCHANGED <<ptr, heap, observed, own, at, own_>>

\* Who has changed the predicate for everybody notifies everybody.
Kinds(t) == IF with[t] = Null THEN {"one", "all"} ELSE {"all"}

\* pthread_cond_signal or broadcast: W is who wakes.
Notify(t, k, W) ==
    /\ pc[t] = "notify" /\ W \subseteq waiting[at[t]]
    /\ k = "all" => W = waiting[at[t]]
    /\ k = "one" => (W = {}) = (waiting[at[t]] = {}) /\ \A u, v \in W : u = v
    /\ waiting' = [waiting EXCEPT ![at[t]] = @ \ W]
    /\ woken' = [u \in Threads |-> woken[u] \/ u \in W]
    /\ pc' = [u \in Threads |-> IF u \in W THEN "relock" ELSE IF u # t THEN pc[u]
                                ELSE IF ready THEN "done" ELSE "idle"]
    /\ UNCHANGED <<ptr, heap, observed, own, at, mutex, heldBy, ready, with, dur, start, clock>>

Tick ==
    /\ clock < MaxClock /\ clock' = clock + 1
    /\ UNCHANGED <<boxVars, mutex, heldBy, ready, waiting, with, dur, start, woken>>

CvStep(t) ==
    \/ CvGet(t) \/ Leave(t) \/ Verify(t) \/ Now(t) \/ Block(t) \/ Relock(t) \/ Report(t)
    \/ SetReady(t) \/ CallNotify(t)
    \/ \E m \in Mutexes : LockMutex(t, m)
    \/ \E d \in Durs : CallWait(t, d)
    \/ \E k \in Kinds(t), W \in SUBSET Threads : Notify(t, k, W)

CvNext ==
    /\ \A t \in Threads : pc[t] # "panicked"
    /\ Tick \/ \E t \in Threads : CvStep(t) \/ \E w \in BOOLEAN : Unblock(t, w)

(* exec schedules every ready task.  No wait has to end by itself.         *)
CvSpec == CvInit /\ [][CvNext]_cvVars /\ \A t \in Threads : WF_cvVars(CvStep(t))

-----------------------------------------------------------------------------
(* Properties *)

\* "we verified that this condition variable is only used with `mutex`": the
\* threads that wait on the pal object, or are about to, use one mutex, also
\* when several came for the first time at once.
OneMutex == \A t, u \in Threads :
    {pc[t], pc[u]} \subseteq {"now", "block", "blocked"} => with[t] = with[u]

\* Waiters and notifiers meet: they work on the published pal object, whose
\* initialization they have seen, and nobody waits on one that is freed.
Meet ==
    /\ \A t \in Threads : pc[t] \in {"block", "blocked", "notify"} =>
        at[t] = ptr /\ heap[ptr] = "object" /\ t \in observed[ptr]
    /\ \A b \in Boxes : waiting[b] # {} => b = ptr

\* No notification is lost in the race to allocate: once the predicate is set
\* under the waiters' mutex and everybody is notified, every waiter leaves.
\* What may keep one is the panic, or a notifier that used another mutex.
WaitersLeave == \A t \in Waiters :
    ready ~> \/ pc[t] \in {"done", "timed_out"}
             \/ \E u \in Waiters : pc[u] = "panicked"
             \/ \A n \in Notifiers : with[n] # with[t]
=============================================================================
