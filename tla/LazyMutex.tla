----------------------------- MODULE LazyMutex ------------------------------
(***************************************************************************)
(* The Mutex AROS selects: sys/sync/mutex/pthread.rs, a pal mutex in a     *)
(* OnceBox, allocated by whoever locks first.  Threads lock, try_lock,     *)
(* unlock, and may forget a guard; when no thread is inside a call any     *)
(* more, the Mutex is dropped.  The pal mutex is the C glue's              *)
(* pthread_mutex_t (external): one holder, any waiter may be next.         *)
(***************************************************************************)
EXTENDS OnceBox

VARIABLES
    holder,    \* who holds each pal mutex
    op,        \* the call each thread is in
    life       \* "shared" until the Mutex is dropped, then "gone"

vars == <<boxVars, holder, op, life>>

Calls == {"lock", "try_lock"}

Init ==
    /\ BoxInit
    /\ holder = [b \in Boxes |-> Null]
    /\ op = [t \in Threads |-> "lock"]
    /\ life = "shared"

CallLock(t, c) ==
    /\ pc[t] = "idle" /\ life = "shared"
    /\ op' = [op EXCEPT ![t] = c]
    /\ Goto(t, "load")
    /\ UNCHANGED <<ptr, heap, observed, own, at, holder, life>>

\* Mutex::get.
Get(t) == GetOrInit(t, "acquire") /\ UNCHANGED <<holder, op, life>>

\* pal lock or try_lock on a mutex nobody holds.
Acquire(t) ==
    /\ pc[t] = "acquire" /\ holder[at[t]] = Null
    /\ holder' = [holder EXCEPT ![at[t]] = t]
    /\ Goto(t, "held")
    /\ UNCHANGED <<ptr, heap, observed, own, at, op, life>>

\* pal try_lock on a mutex somebody holds.
TryFails(t) ==
    /\ pc[t] = "acquire" /\ op[t] = "try_lock" /\ holder[at[t]] # Null
    /\ Goto(t, "idle")
    /\ UNCHANGED <<ptr, heap, observed, own, at, holder, op, life>>

\* unlock finds the pal mutex with get_unchecked, a Relaxed load.
Unlock(t) ==
    /\ pc[t] = "held"
    /\ at' = [at EXCEPT ![t] = ptr]
    /\ holder' = [holder EXCEPT ![ptr] = Null]
    /\ Goto(t, "idle")
    /\ UNCHANGED <<ptr, heap, observed, own, op, life>>

\* mem::forget on the guard: the pal mutex stays locked, for its thread too.
Forget(t) ==
    /\ pc[t] = "held"
    /\ Goto(t, "idle")
    /\ UNCHANGED <<ptr, heap, observed, own, at, holder, op, life>>

MutDrop ==
    /\ life = "shared" /\ \A t \in Threads : pc[t] = "idle"
    /\ life' = "gone" /\ ptr' = Null
    /\ IF ptr # Null THEN Free(ptr) ELSE UNCHANGED <<heap, observed>>
    /\ UNCHANGED <<own, at, pc, holder, op>>

\* Drop takes the box; a pal mutex that try_lock finds locked is leaked.
Drop ==
    /\ life = "shared" /\ \A t \in Threads : pc[t] = "idle"
    /\ life' = "gone" /\ ptr' = Null
    /\ IF ptr # Null /\ holder[ptr] = Null THEN Free(ptr) ELSE UNCHANGED <<heap, observed>>
    /\ UNCHANGED <<own, at, pc, holder, op>>

Step(t) == Get(t) \/ Acquire(t) \/ TryFails(t)

Next ==
    \/ \E t \in Threads :
        \/ Step(t) \/ Unlock(t) \/ Forget(t)
        \/ \E c \in Calls : CallLock(t, c)
    \/ Drop

(* exec schedules every ready task, so a call that can go on does.  Nobody *)
(* has to unlock.                                                          *)
Spec == Init /\ [][Next]_vars /\ \A t \in Threads : WF_vars(Step(t))

-----------------------------------------------------------------------------
(* Properties *)

\* The types of the state; a thread locks and unlocks a pal mutex, never null.
TypeOK ==
    /\ BoxTypeOK
    /\ pc \in [Threads -> BoxPC \cup {"idle", "acquire", "held"}]
    /\ holder \in [Boxes -> Threads \cup {Null}]
    /\ op \in [Threads -> Calls]
    /\ life \in {"shared", "gone"}
    /\ \A t \in Threads : pc[t] \in {"acquire", "held"} => at[t] \in Boxes

\* "the mutex can only be locked if it is already initialized and we observed
\* this initialization since we observed the locking": a thread works only on
\* a pal mutex that is allocated, is the published one, and whose
\* initialization happened before, also when it lost the race to create it.
UseSafe ==
    \A t \in Threads : pc[t] \in {"acquire", "held"} =>
        at[t] = ptr /\ heap[ptr] = "object" /\ t \in observed[ptr]

\* "We're not allowed to pthread_mutex_destroy a locked mutex": the memory of
\* a pal mutex is only given back while nobody holds it.
DestroyedUnlocked ==
    [][\A b \in Boxes : heap[b] = "object" /\ heap'[b] = "free" => holder[b] = Null]_vars

\* "The mutex is locked. This happens if a MutexGuard is leaked. In this case,
\* we just leak the Mutex too": nothing else is leaked, neither the pal mutex
\* of a thread that lost the race nor the one of a dropped, unlocked Mutex.
OnlyLockedLeaked ==
    \A b \in Boxes : BoxAccounted(b) \/ (life = "gone" /\ holder[b] # Null)

\* The race to allocate is invisible: the Mutex behaves as one lock.
Abstract == INSTANCE AbstractMutex WITH
    inside <- {t \in Threads : \E b \in Boxes : holder[b] = t},
    call <- [t \in Threads |-> IF pc[t] \in {"idle", "held"} THEN "none" ELSE op[t]]
RefinesMutex == Abstract!Spec
=============================================================================
