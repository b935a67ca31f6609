---------------------------- MODULE OnceBoxProof ----------------------------
(***************************************************************************)
(* Proofs about the two users of OnceBox, LazyMutex and LazyCondvar, for   *)
(* any number of threads and addresses.  They have the variables of the    *)
(* box in common; the two specifications are about different programs.     *)
(***************************************************************************)
EXTENDS LazyMutex, LazyCondvar, TLAPS

-----------------------------------------------------------------------------
(* LazyMutex *)

\* The published object is allocated; nobody is inside a dropped Mutex.
PtrInv ==
    /\ ptr # Null => heap[ptr] = "object"
    /\ life = "gone" => ptr = Null /\ \A t \in Threads : pc[t] = "idle"

\* An object a thread has not published is its alone, and nobody locked it.
OwnInv ==
    /\ \A t \in Threads : own[t] # Null <=> pc[t] \in {"publish", "drop_own"}
    /\ \A t \in Threads : own[t] # Null =>
          own[t] # ptr /\ heap[own[t]] = "object" /\ holder[own[t]] = Null
    /\ \A t, u \in Threads : own[t] # Null /\ own[t] = own[u] => t = u

\* What get_or_init has returned, already while the loser's object is dropped.
UseInv ==
    \A t \in Threads : pc[t] \in {"drop_own", "acquire", "held"} =>
        at[t] \in Boxes /\ at[t] = ptr /\ t \in observed[ptr]

\* Only the published object, or the one a dropped Mutex leaked, is locked.
HoldInv ==
    /\ \A t \in Threads : pc[t] = "held" => holder[ptr] = t
    /\ \A b \in Boxes : holder[b] # Null => heap[b] = "object" /\ (b = ptr \/ life = "gone")
    /\ \A b, c \in Boxes : holder[b] # Null /\ holder[c] # Null => b = c

IInv == TypeOK /\ PtrInv /\ OwnInv /\ UseInv /\ HoldInv /\ OnlyLockedLeaked

(* Nothing is allocated yet. *)
LEMMA InitInv == Init => IInv
  BY BoxAssumption DEF Init, BoxInit, IInv, TypeOK, BoxTypeOK, BoxPC, Calls, PtrInv, OwnInv, UseInv, HoldInv,
     OnlyLockedLeaked, BoxAccounted

(* Every step of get_or_init keeps the invariant. *)
LEMMA GetStep == ASSUME IInv, NEW t \in Threads, Get(t) PROVE IInv'
<1> USE BoxAssumption DEF Goto, IInv, Get, BoxPC
<1>1. CASE Load(t, "acquire") /\ ptr # Null
  <2>0. /\ pc[t] = "load" /\ ptr \in Boxes /\ at' = [at EXCEPT ![t] = ptr]
        /\ observed' = [observed EXCEPT ![ptr] = @ \cup {t}] /\ pc' = [pc EXCEPT ![t] = "acquire"]
        /\ UNCHANGED <<ptr, heap, own, holder, op, life>>
    BY <1>1 DEF Load, GotBox, TypeOK, BoxTypeOK
  <2>1. TypeOK'
    BY <2>0 DEF TypeOK, BoxTypeOK, PtrInv, OwnInv, UseInv, HoldInv
  <2>2. PtrInv'
    BY <2>0 DEF TypeOK, BoxTypeOK, PtrInv, OwnInv, UseInv, HoldInv
  <2>3. OwnInv'
    BY <2>0 DEF TypeOK, BoxTypeOK, PtrInv, OwnInv, UseInv, HoldInv
  <2>4. UseInv'
    BY <2>0 DEF TypeOK, BoxTypeOK, PtrInv, OwnInv, UseInv, HoldInv
  <2>5. HoldInv'
    BY <2>0 DEF TypeOK, BoxTypeOK, PtrInv, OwnInv, UseInv, HoldInv
  <2>6. OnlyLockedLeaked'
    BY <2>0 DEF TypeOK, BoxTypeOK, PtrInv, OwnInv, UseInv, HoldInv, OnlyLockedLeaked, BoxAccounted
  <2>7. QED
    BY <2>1, <2>2, <2>3, <2>4, <2>5, <2>6
<1>2. CASE Load(t, "acquire") /\ ptr = Null
  <2>0. /\ pc[t] = "load" /\ pc' = [pc EXCEPT ![t] = "create"]
        /\ UNCHANGED <<ptr, heap, own, at, observed, holder, op, life>>
    BY <1>2 DEF Load, GotBox, TypeOK, BoxTypeOK
  <2>1. TypeOK'
    BY <2>0 DEF TypeOK, BoxTypeOK, PtrInv, OwnInv, UseInv, HoldInv
  <2>2. PtrInv'
    BY <2>0 DEF TypeOK, BoxTypeOK, PtrInv, OwnInv, UseInv, HoldInv
  <2>3. OwnInv'
    BY <2>0 DEF TypeOK, BoxTypeOK, PtrInv, OwnInv, UseInv, HoldInv
  <2>4. UseInv'
    BY <2>0 DEF TypeOK, BoxTypeOK, PtrInv, OwnInv, UseInv, HoldInv
  <2>5. HoldInv'
    BY <2>0 DEF TypeOK, BoxTypeOK, PtrInv, OwnInv, UseInv, HoldInv
  <2>6. OnlyLockedLeaked'
    BY <2>0 DEF TypeOK, BoxTypeOK, PtrInv, OwnInv, UseInv, HoldInv, OnlyLockedLeaked, BoxAccounted
  <2>7. QED
    BY <2>1, <2>2, <2>3, <2>4, <2>5, <2>6
<1>3. ASSUME NEW b \in Boxes, Create(t, b) PROVE IInv'
  <2>0. /\ pc[t] = "create" /\ heap[b] = "free" /\ heap' = [heap EXCEPT ![b] = "object"]
        /\ observed' = [observed EXCEPT ![b] = {t}] /\ own' = [own EXCEPT ![t] = b]
        /\ pc' = [pc EXCEPT ![t] = "publish"] /\ UNCHANGED <<ptr, at, holder, op, life>>
    BY <1>3 DEF Create
  <2>1. TypeOK'
    BY <2>0 DEF TypeOK, BoxTypeOK, PtrInv, OwnInv, UseInv, HoldInv
  <2>2. PtrInv'
    BY <2>0 DEF TypeOK, BoxTypeOK, PtrInv, OwnInv, UseInv, HoldInv
  <2>3. OwnInv'
    BY <2>0 DEF TypeOK, BoxTypeOK, PtrInv, OwnInv, UseInv, HoldInv
  <2>4. UseInv'
    BY <2>0 DEF TypeOK, BoxTypeOK, PtrInv, OwnInv, UseInv, HoldInv
  <2>5. HoldInv'
    BY <2>0 DEF TypeOK, BoxTypeOK, PtrInv, OwnInv, UseInv, HoldInv
  <2>6. OnlyLockedLeaked'
    BY <2>0 DEF TypeOK, BoxTypeOK, PtrInv, OwnInv, UseInv, HoldInv, OnlyLockedLeaked, BoxAccounted
  <2>7. QED
    BY <2>1, <2>2, <2>3, <2>4, <2>5, <2>6
<1>4. CASE Publish(t, "acquire") /\ ptr = Null
  <2>0. /\ pc[t] = "publish" /\ ptr = Null /\ own[t] \in Boxes /\ ptr' = own[t] /\ own' = [own EXCEPT ![t] = Null]
        /\ at' = [at EXCEPT ![t] = own[t]] /\ observed' = [observed EXCEPT ![own[t]] = @ \cup {t}]
        /\ pc' = [pc EXCEPT ![t] = "acquire"] /\ UNCHANGED <<heap, holder, op, life>>
    BY <1>4 DEF Publish, GotBox, OwnInv, TypeOK, BoxTypeOK
  <2>1. TypeOK'
    BY <2>0 DEF TypeOK, BoxTypeOK, PtrInv, OwnInv, UseInv, HoldInv
  <2>2. PtrInv'
    BY <2>0 DEF TypeOK, BoxTypeOK, PtrInv, OwnInv, UseInv, HoldInv
  <2>3. OwnInv'
    BY <2>0 DEF TypeOK, BoxTypeOK, PtrInv, OwnInv, UseInv, HoldInv
  <2>4. UseInv'
    BY <2>0 DEF TypeOK, BoxTypeOK, PtrInv, OwnInv, UseInv, HoldInv
  <2>5. HoldInv'
    BY <2>0 DEF TypeOK, BoxTypeOK, PtrInv, OwnInv, UseInv, HoldInv
  <2>6. OnlyLockedLeaked'
    BY <2>0 DEF TypeOK, BoxTypeOK, PtrInv, OwnInv, UseInv, HoldInv, OnlyLockedLeaked, BoxAccounted
  <2>7. QED
    BY <2>1, <2>2, <2>3, <2>4, <2>5, <2>6
<1>5. CASE Publish(t, "acquire") /\ ptr # Null
  <2>0. /\ pc[t] = "publish" /\ ptr \in Boxes /\ at' = [at EXCEPT ![t] = ptr]
        /\ observed' = [observed EXCEPT ![ptr] = @ \cup {t}] /\ pc' = [pc EXCEPT ![t] = "drop_own"]
        /\ UNCHANGED <<ptr, own, heap, holder, op, life>>
    BY <1>5 DEF Publish, GotBox, TypeOK, BoxTypeOK
  <2>1. TypeOK'
    BY <2>0 DEF TypeOK, BoxTypeOK, PtrInv, OwnInv, UseInv, HoldInv
  <2>2. PtrInv'
    BY <2>0 DEF TypeOK, BoxTypeOK, PtrInv, OwnInv, UseInv, HoldInv
  <2>3. OwnInv'
    BY <2>0 DEF TypeOK, BoxTypeOK, PtrInv, OwnInv, UseInv, HoldInv
  <2>4. UseInv'
    BY <2>0 DEF TypeOK, BoxTypeOK, PtrInv, OwnInv, UseInv, HoldInv
  <2>5. HoldInv'
    BY <2>0 DEF TypeOK, BoxTypeOK, PtrInv, OwnInv, UseInv, HoldInv
  <2>6. OnlyLockedLeaked'
    BY <2>0 DEF TypeOK, BoxTypeOK, PtrInv, OwnInv, UseInv, HoldInv, OnlyLockedLeaked, BoxAccounted
  <2>7. QED
    BY <2>1, <2>2, <2>3, <2>4, <2>5, <2>6
<1>6. CASE DropOwn(t, "acquire")
  <2>0. /\ pc[t] = "drop_own" /\ own[t] \in Boxes /\ own[t] # ptr /\ heap' = [heap EXCEPT ![own[t]] = "free"]
        /\ observed' = [observed EXCEPT ![own[t]] = {}] /\ own' = [own EXCEPT ![t] = Null]
        /\ pc' = [pc EXCEPT ![t] = "acquire"] /\ UNCHANGED <<ptr, at, holder, op, life>>
    BY <1>6 DEF DropOwn, Free, OwnInv, TypeOK, BoxTypeOK
  <2>1. TypeOK'
    BY <2>0 DEF TypeOK, BoxTypeOK, PtrInv, OwnInv, UseInv, HoldInv
  <2>2. PtrInv'
    BY <2>0 DEF TypeOK, BoxTypeOK, PtrInv, OwnInv, UseInv, HoldInv
  <2>3. OwnInv'
    BY <2>0 DEF TypeOK, BoxTypeOK, PtrInv, OwnInv, UseInv, HoldInv
  <2>4. UseInv'
    BY <2>0 DEF TypeOK, BoxTypeOK, PtrInv, OwnInv, UseInv, HoldInv
  <2>5. HoldInv'
    BY <2>0 DEF TypeOK, BoxTypeOK, PtrInv, OwnInv, UseInv, HoldInv
  <2>6. OnlyLockedLeaked'
    BY <2>0 DEF TypeOK, BoxTypeOK, PtrInv, OwnInv, UseInv, HoldInv, OnlyLockedLeaked, BoxAccounted
  <2>7. QED
    BY <2>1, <2>2, <2>3, <2>4, <2>5, <2>6
<1>7. QED
  BY <1>1, <1>2, <1>3, <1>4, <1>5, <1>6 DEF GetOrInit

(* Locking, unlocking and leaking a guard keep the invariant. *)
LEMMA LockStep ==
  ASSUME IInv, NEW t \in Threads,
         Acquire(t) \/ TryFails(t) \/ Unlock(t) \/ Forget(t) \/ \E c \in Calls : CallLock(t, c)
  PROVE  IInv'
<1> USE BoxAssumption DEF Goto, IInv, BoxPC
<1>1. CASE Acquire(t)
  <2>0. /\ pc[t] = "acquire" /\ at[t] = ptr /\ ptr \in Boxes /\ holder[ptr] = Null
        /\ holder' = [holder EXCEPT ![ptr] = t] /\ pc' = [pc EXCEPT ![t] = "held"]
        /\ UNCHANGED <<ptr, heap, observed, own, at, op, life>>
    BY <1>1 DEF Acquire, UseInv
  <2>1. TypeOK'
    BY <2>0 DEF TypeOK, BoxTypeOK, PtrInv, OwnInv, UseInv, HoldInv
  <2>2. PtrInv'
    BY <2>0 DEF TypeOK, BoxTypeOK, PtrInv, OwnInv, UseInv, HoldInv
  <2>3. OwnInv'
    BY <2>0 DEF TypeOK, BoxTypeOK, PtrInv, OwnInv, UseInv, HoldInv
  <2>4. UseInv'
    BY <2>0 DEF TypeOK, BoxTypeOK, PtrInv, OwnInv, UseInv, HoldInv
  <2>5. HoldInv'
    BY <2>0 DEF TypeOK, BoxTypeOK, PtrInv, OwnInv, UseInv, HoldInv
  <2>6. OnlyLockedLeaked'
    BY <2>0 DEF TypeOK, BoxTypeOK, PtrInv, OwnInv, UseInv, HoldInv, OnlyLockedLeaked, BoxAccounted
  <2>7. QED
    BY <2>1, <2>2, <2>3, <2>4, <2>5, <2>6
<1>2. CASE TryFails(t) \/ Forget(t)
  <2>0. /\ pc[t] \in {"acquire", "held"} /\ pc' = [pc EXCEPT ![t] = "idle"]
        /\ UNCHANGED <<ptr, heap, observed, own, at, holder, op, life>>
    BY <1>2 DEF TryFails, Forget
  <2>1. TypeOK'
    BY <2>0 DEF TypeOK, BoxTypeOK, PtrInv, OwnInv, UseInv, HoldInv
  <2>2. PtrInv'
    BY <2>0 DEF TypeOK, BoxTypeOK, PtrInv, OwnInv, UseInv, HoldInv
  <2>3. OwnInv'
    BY <2>0 DEF TypeOK, BoxTypeOK, PtrInv, OwnInv, UseInv, HoldInv
  <2>4. UseInv'
    BY <2>0 DEF TypeOK, BoxTypeOK, PtrInv, OwnInv, UseInv, HoldInv
  <2>5. HoldInv'
    BY <2>0 DEF TypeOK, BoxTypeOK, PtrInv, OwnInv, UseInv, HoldInv
  <2>6. OnlyLockedLeaked'
    BY <2>0 DEF TypeOK, BoxTypeOK, PtrInv, OwnInv, UseInv, HoldInv, OnlyLockedLeaked, BoxAccounted
  <2>7. QED
    BY <2>1, <2>2, <2>3, <2>4, <2>5, <2>6
<1>3. CASE Unlock(t)
  <2>0. /\ pc[t] = "held" /\ ptr \in Boxes /\ holder[ptr] = t
        /\ at' = [at EXCEPT ![t] = ptr] /\ holder' = [holder EXCEPT ![ptr] = Null]
        /\ pc' = [pc EXCEPT ![t] = "idle"] /\ UNCHANGED <<ptr, heap, observed, own, op, life>>
    BY <1>3 DEF Unlock, UseInv, HoldInv
  <2>1. TypeOK'
    BY <2>0 DEF TypeOK, BoxTypeOK, PtrInv, OwnInv, UseInv, HoldInv
  <2>2. PtrInv'
    BY <2>0 DEF TypeOK, BoxTypeOK, PtrInv, OwnInv, UseInv, HoldInv
  <2>3. OwnInv'
    BY <2>0 DEF TypeOK, BoxTypeOK, PtrInv, OwnInv, UseInv, HoldInv
  <2>4. UseInv'
    BY <2>0 DEF TypeOK, BoxTypeOK, PtrInv, OwnInv, UseInv, HoldInv
  <2>5. HoldInv'
    BY <2>0 DEF TypeOK, BoxTypeOK, PtrInv, OwnInv, UseInv, HoldInv
  <2>6. OnlyLockedLeaked'
    BY <2>0 DEF TypeOK, BoxTypeOK, PtrInv, OwnInv, UseInv, HoldInv, OnlyLockedLeaked, BoxAccounted
  <2>7. QED
    BY <2>1, <2>2, <2>3, <2>4, <2>5, <2>6
<1>4. ASSUME NEW c \in Calls, CallLock(t, c) PROVE IInv'
  <2>0. /\ pc[t] = "idle" /\ life = "shared" /\ op' = [op EXCEPT ![t] = c]
        /\ pc' = [pc EXCEPT ![t] = "load"] /\ UNCHANGED <<ptr, heap, observed, own, at, holder, life>>
    BY <1>4 DEF CallLock
  <2>1. TypeOK'
    BY <2>0 DEF TypeOK, BoxTypeOK, PtrInv, OwnInv, UseInv, HoldInv
  <2>2. PtrInv'
    BY <2>0 DEF TypeOK, BoxTypeOK, PtrInv, OwnInv, UseInv, HoldInv
  <2>3. OwnInv'
    BY <2>0 DEF TypeOK, BoxTypeOK, PtrInv, OwnInv, UseInv, HoldInv
  <2>4. UseInv'
    BY <2>0 DEF TypeOK, BoxTypeOK, PtrInv, OwnInv, UseInv, HoldInv
  <2>5. HoldInv'
    BY <2>0 DEF TypeOK, BoxTypeOK, PtrInv, OwnInv, UseInv, HoldInv
  <2>6. OnlyLockedLeaked'
    BY <2>0 DEF TypeOK, BoxTypeOK, PtrInv, OwnInv, UseInv, HoldInv, OnlyLockedLeaked, BoxAccounted
  <2>7. QED
    BY <2>1, <2>2, <2>3, <2>4, <2>5, <2>6
<1>5. QED
  BY <1>1, <1>2, <1>3, <1>4

(* Dropping the Mutex keeps the invariant: a locked object is leaked. *)
LEMMA DropStep == ASSUME IInv, Drop PROVE IInv'
<1> USE BoxAssumption DEF IInv, BoxPC, Drop, Free
<1>1. TypeOK'
  BY DEF TypeOK, BoxTypeOK, PtrInv, OwnInv, HoldInv
<1>2. PtrInv'
  BY DEF TypeOK, BoxTypeOK, PtrInv, OwnInv, HoldInv
<1>3. OwnInv'
  BY DEF TypeOK, BoxTypeOK, PtrInv, OwnInv, HoldInv
<1>4. UseInv'
  BY DEF TypeOK, BoxTypeOK, PtrInv, OwnInv, HoldInv, UseInv
<1>5. HoldInv'
  BY DEF TypeOK, BoxTypeOK, PtrInv, OwnInv, HoldInv
<1>6. OnlyLockedLeaked'
  BY DEF TypeOK, BoxTypeOK, PtrInv, OwnInv, HoldInv, OnlyLockedLeaked, BoxAccounted
<1>7. QED
  BY <1>1, <1>2, <1>3, <1>4, <1>5, <1>6

(* Every reachable state satisfies the inductive invariant. *)
THEOREM InvariantHolds == Spec => []IInv
<1>1. IInv /\ [Next]_vars => IInv'
  <2> SUFFICES ASSUME IInv, [Next]_vars PROVE IInv'
    OBVIOUS
  <2>1. CASE Next
    BY <2>1, GetStep, LockStep, DropStep DEF Next, Step
  <2>2. CASE UNCHANGED vars
    BY <2>2 DEF vars, boxVars, IInv, TypeOK, BoxTypeOK, PtrInv, OwnInv, UseInv, HoldInv, OnlyLockedLeaked, BoxAccounted
  <2>3. QED
    BY <2>1, <2>2
<1>2. QED
  BY <1>1, InitInv, PTL DEF Spec

(* lock, try_lock and unlock work only on the one published pal mutex, and  *)
(* only a locked pal mutex is ever leaked.                                  *)
THEOREM LazyMutexSafe == Spec => [](TypeOK /\ UseSafe /\ OnlyLockedLeaked)
<1>1. IInv => TypeOK /\ UseSafe /\ OnlyLockedLeaked
  BY BoxAssumption DEF IInv, UseInv, PtrInv, UseSafe
<1>2. QED
  BY <1>1, InvariantHolds, PTL

(* No pal mutex is destroyed while it is locked: neither the one that a     *)
(* thread which lost the race drops, nor the one of a dropped Mutex.        *)
THEOREM NeverDestroyedLocked == Spec => DestroyedUnlocked
<1>1. IInv /\ [Next]_vars => [\A b \in Boxes : heap[b] = "object" /\ heap'[b] = "free" => holder[b] = Null]_vars
  <2> SUFFICES ASSUME IInv, Next, NEW b \in Boxes, heap[b] = "object", heap'[b] = "free" PROVE holder[b] = Null
    OBVIOUS
  <2> USE BoxAssumption DEF IInv, TypeOK, BoxTypeOK
  <2>1. ASSUME NEW t \in Threads, GetOrInit(t, "acquire") PROVE holder[b] = Null
    BY <2>1 DEF GetOrInit, Load, Create, Publish, DropOwn, Free, OwnInv
  <2>2. CASE Drop
    BY <2>2 DEF Drop, Free
  <2>3. QED
    BY <2>1, <2>2 DEF Next, Step, Get, Acquire, TryFails, Unlock, Forget, CallLock
<1>2. QED
  BY <1>1, InvariantHolds, PTL DEF Spec, DestroyedUnlocked

(* The Mutex implements one lock: the safety part of RefinesMutex.          *)
THEOREM ImplementsMutex == Spec => Abstract!Safety
<1> USE BoxAssumption
<1>1. Init => Abstract!Init
  BY DEF Init, BoxInit, Abstract!Init
<1>2. IInv /\ [Next]_vars => [Abstract!Next]_(Abstract!vars)
  <2> SUFFICES ASSUME IInv, [Next]_vars PROVE [Abstract!Next]_(Abstract!vars)
    OBVIOUS
  <2> USE DEF IInv, TypeOK, BoxTypeOK, BoxPC, Goto, Calls, Abstract!Calls, Abstract!vars
  <2>1. CASE UNCHANGED vars
    BY <2>1 DEF vars, boxVars
  <2> DEFINE quiet(t) == pc[t] \in {"idle", "held"}
             call == [t \in Threads |-> IF quiet(t) THEN "none" ELSE op[t]]
             inside == {t \in Threads : \E b \in Boxes : holder[b] = t}
  <2>2. ASSUME NEW t \in Threads, NEW c \in Calls, CallLock(t, c) PROVE Abstract!Ask(t, c)
    <3>1. call[t] = "none" /\ call' = [call EXCEPT ![t] = c]
      BY <2>2 DEF CallLock
    <3>2. inside' = inside
      BY <2>2 DEF CallLock
    <3>3. QED
      BY <3>1, <3>2 DEF Abstract!Ask
  <2>3. ASSUME NEW t \in Threads, Get(t) PROVE UNCHANGED Abstract!vars
    BY <2>3 DEF Get, GetOrInit, Load, Create, Publish, DropOwn, GotBox
  <2>4. ASSUME NEW t \in Threads, Acquire(t) PROVE Abstract!Enter(t)
    <3>1. call[t] \in Calls /\ call' = [call EXCEPT ![t] = "none"]
      BY <2>4 DEF Acquire
    <3>2. at[t] = ptr /\ ptr \in Boxes /\ holder' = [holder EXCEPT ![ptr] = t]
      BY <2>4 DEF Acquire, UseInv
    <3>3. \A b \in Boxes : holder[b] = Null
      BY <2>4, <3>2 DEF Acquire, HoldInv, PtrInv
    <3>4. inside = {} /\ inside' = {t}
      BY <3>2, <3>3
    <3>5. QED
      BY <3>1, <3>4 DEF Abstract!Enter
  <2>5. ASSUME NEW t \in Threads, TryFails(t) PROVE Abstract!Refuse(t)
    <3>0. inside' = inside
      BY <2>5 DEF TryFails
    <3>1. call[t] = "try_lock" /\ call' = [call EXCEPT ![t] = "none"]
      BY <2>5 DEF TryFails
    <3>2. inside # {}
      <4>1. at[t] \in Boxes /\ holder[at[t]] \in Threads
        BY <2>5 DEF TryFails, UseInv
      <4>2. QED
        BY <4>1
    <3>3. QED
      BY <3>0, <3>1, <3>2 DEF Abstract!Refuse
  <2>6. ASSUME NEW t \in Threads, Unlock(t) PROVE Abstract!Leave(t)
    BY <2>6 DEF Unlock, UseInv, HoldInv, Abstract!Leave
  <2>7. ASSUME NEW t \in Threads, Forget(t) PROVE UNCHANGED Abstract!vars
    BY <2>7 DEF Forget
  <2>8. CASE Drop
    BY <2>8 DEF Drop
  <2>9. QED
    BY <2>1, <2>2, <2>3, <2>4, <2>5, <2>6, <2>7, <2>8 DEF Next, Step, Abstract!Next
<1>3. QED
  BY <1>1, <1>2, InvariantHolds, PTL DEF Spec, Abstract!Safety

-----------------------------------------------------------------------------
(* LazyCondvar *)

\* Where a thread can be; get_or_init is the waiters' or a notifier's.
CvPC == BoxPC \cup {"idle", "locked", "verify", "panicked", "now", "block", "blocked", "relock",
                      "report", "done", "timed_out", "notify"}

CvTypeOK ==
    /\ BoxTypeOK /\ pc \in [Threads -> CvPC]
    /\ mutex \in Mutexes \cup {Null}
    /\ heldBy \in [Mutexes -> Threads \cup {Null}]
    /\ ready \in BOOLEAN
    /\ waiting \in [Boxes -> SUBSET Threads]
    /\ with \in [Threads -> Mutexes \cup {Null}]
    /\ dur \in [Threads -> Nat] /\ start \in [Threads -> Nat]
    /\ woken \in [Threads -> BOOLEAN]
    /\ clock \in Nat

\* An object that is not published belongs to one thread; the published one is
\* allocated, and whoever has left get_or_init has it and has seen it made.
CvBoxInv ==
    /\ ptr # Null => heap[ptr] = "object"
    /\ \A t \in Threads : own[t] # Null <=> pc[t] \in {"publish", "drop_own"}
    /\ \A t \in Threads : own[t] # Null => own[t] # ptr /\ heap[own[t]] = "object"
    /\ \A t, u \in Threads : own[t] # Null /\ own[t] = own[u] => t = u
    /\ \A t \in Threads : pc[t] \in {"drop_own", "block", "blocked", "notify"} =>
          at[t] = ptr /\ ptr \in Boxes /\ t \in observed[ptr]

\* The pal object's waiters are the threads that are blocked in it.
CvWaitInv == \A b \in Boxes, t \in Threads : t \in waiting[b] => pc[t] = "blocked" /\ at[t] = b

\* A waiter past verify uses the mutex that the Condvar is bound to for good.
CvMutexInv == \A t \in Threads :
    /\ pc[t] \in {"locked", "verify"} => with[t] \in Mutexes
    /\ pc[t] \in {"now", "block", "blocked"} \/ (t \in Waiters /\ pc[t] \in BoxPC) =>
          with[t] \in Mutexes /\ mutex = with[t]
    /\ pc[t] \in {"relock", "report"} => with[t] \in Mutexes

CvInv == CvTypeOK /\ CvBoxInv /\ CvWaitInv /\ CvMutexInv

(* Nobody has used the Condvar yet. *)
LEMMA CvInitInv == CvInit => CvInv
<1> SUFFICES ASSUME CvInit PROVE CvInv
  OBVIOUS
<1> USE BoxAssumption, CondAssumption DEF CvInit, BoxInit, CvPC, BoxPC
<1>1. CvTypeOK
  BY DEF CvTypeOK, BoxTypeOK
<1>2. CvBoxInv
  BY DEF CvBoxInv
<1>3. CvWaitInv
  BY DEF CvWaitInv
<1>4. CvMutexInv
  BY DEF CvMutexInv, Waiters
<1>5. QED
  BY <1>1, <1>2, <1>3, <1>4 DEF CvInv

(* Every step of get_or_init keeps the invariant. *)
LEMMA CvGetStep == ASSUME CvInv, NEW t \in Threads, CvGet(t) PROVE CvInv'
<1> USE BoxAssumption, CondAssumption DEF CvInv
<1> DEFINE l == IF t \in Waiters THEN "block" ELSE "notify"
<1>0. UNCHANGED <<mutex, heldBy, ready, waiting, with, dur, start, woken, clock>> /\ GetOrInit(t, l)
  BY DEF CvGet, own_
<1>1. CASE Load(t, l) /\ ptr # Null
  <2>0. /\ pc[t] = "load" /\ ptr \in Boxes /\ at' = [at EXCEPT ![t] = ptr]
        /\ observed' = [observed EXCEPT ![ptr] = @ \cup {t}] /\ pc' = [pc EXCEPT ![t] = l]
        /\ UNCHANGED <<ptr, heap, own>>
    BY <1>1 DEF Load, GotBox, Goto, CvTypeOK, BoxTypeOK
  <2>1. CvTypeOK'
    BY <1>0, <2>0 DEF CvTypeOK, BoxTypeOK, CvPC, BoxPC, CvBoxInv, CvWaitInv, CvMutexInv, Waiters
  <2>2. CvBoxInv'
    BY <1>0, <2>0 DEF CvTypeOK, BoxTypeOK, CvPC, BoxPC, CvBoxInv, CvWaitInv, CvMutexInv, Waiters
  <2>3. CvWaitInv'
    BY <1>0, <2>0 DEF CvTypeOK, BoxTypeOK, CvPC, BoxPC, CvBoxInv, CvWaitInv, CvMutexInv, Waiters
  <2>4. CvMutexInv'
    BY <1>0, <2>0 DEF CvTypeOK, BoxTypeOK, CvPC, BoxPC, CvBoxInv, CvWaitInv, CvMutexInv, Waiters
  <2>5. QED
    BY <2>1, <2>2, <2>3, <2>4
<1>2. CASE Load(t, l) /\ ptr = Null
  <2>0. /\ pc[t] = "load" /\ pc' = [pc EXCEPT ![t] = "create"]
        /\ UNCHANGED <<ptr, heap, own, at, observed>>
    BY <1>2 DEF Load, GotBox, Goto
  <2>1. CvTypeOK'
    BY <1>0, <2>0 DEF CvTypeOK, BoxTypeOK, CvPC, BoxPC, CvBoxInv, CvWaitInv, CvMutexInv, Waiters
  <2>2. CvBoxInv'
    BY <1>0, <2>0 DEF CvTypeOK, BoxTypeOK, CvPC, BoxPC, CvBoxInv, CvWaitInv, CvMutexInv, Waiters
  <2>3. CvWaitInv'
    BY <1>0, <2>0 DEF CvTypeOK, BoxTypeOK, CvPC, BoxPC, CvBoxInv, CvWaitInv, CvMutexInv, Waiters
  <2>4. CvMutexInv'
    BY <1>0, <2>0 DEF CvTypeOK, BoxTypeOK, CvPC, BoxPC, CvBoxInv, CvWaitInv, CvMutexInv, Waiters
  <2>5. QED
    BY <2>1, <2>2, <2>3, <2>4
<1>3. ASSUME NEW b \in Boxes, Create(t, b) PROVE CvInv'
  <2>0. /\ pc[t] = "create" /\ heap[b] = "free" /\ heap' = [heap EXCEPT ![b] = "object"]
        /\ observed' = [observed EXCEPT ![b] = {t}] /\ own' = [own EXCEPT ![t] = b]
        /\ pc' = [pc EXCEPT ![t] = "publish"] /\ UNCHANGED <<ptr, at>>
    BY <1>3 DEF Create, Goto
  <2>1. CvTypeOK'
    BY <1>0, <2>0 DEF CvTypeOK, BoxTypeOK, CvPC, BoxPC, CvBoxInv, CvWaitInv, CvMutexInv, Waiters
  <2>2. CvBoxInv'
    BY <1>0, <2>0 DEF CvTypeOK, BoxTypeOK, CvPC, BoxPC, CvBoxInv, CvWaitInv, CvMutexInv, Waiters
  <2>3. CvWaitInv'
    BY <1>0, <2>0 DEF CvTypeOK, BoxTypeOK, CvPC, BoxPC, CvBoxInv, CvWaitInv, CvMutexInv, Waiters
  <2>4. CvMutexInv'
    BY <1>0, <2>0 DEF CvTypeOK, BoxTypeOK, CvPC, BoxPC, CvBoxInv, CvWaitInv, CvMutexInv, Waiters
  <2>5. QED
    BY <2>1, <2>2, <2>3, <2>4
<1>4. CASE Publish(t, l) /\ ptr = Null
  <2>0. /\ pc[t] = "publish" /\ ptr = Null /\ own[t] \in Boxes /\ ptr' = own[t]
        /\ own' = [own EXCEPT ![t] = Null] /\ at' = [at EXCEPT ![t] = own[t]]
        /\ observed' = [observed EXCEPT ![own[t]] = @ \cup {t}] /\ pc' = [pc EXCEPT ![t] = l]
        /\ UNCHANGED heap
    BY <1>4 DEF Publish, GotBox, Goto, CvTypeOK, BoxTypeOK, CvBoxInv
  <2>1. CvTypeOK'
    BY <1>0, <2>0 DEF CvTypeOK, BoxTypeOK, CvPC, BoxPC, CvBoxInv, CvWaitInv, CvMutexInv, Waiters
  <2>2. CvBoxInv'
    BY <1>0, <2>0 DEF CvTypeOK, BoxTypeOK, CvPC, BoxPC, CvBoxInv, CvWaitInv, CvMutexInv, Waiters
  <2>3. CvWaitInv'
    BY <1>0, <2>0 DEF CvTypeOK, BoxTypeOK, CvPC, BoxPC, CvBoxInv, CvWaitInv, CvMutexInv, Waiters
  <2>4. CvMutexInv'
    BY <1>0, <2>0 DEF CvTypeOK, BoxTypeOK, CvPC, BoxPC, CvBoxInv, CvWaitInv, CvMutexInv, Waiters
  <2>5. QED
    BY <2>1, <2>2, <2>3, <2>4
<1>5. CASE Publish(t, l) /\ ptr # Null
  <2>0. /\ pc[t] = "publish" /\ ptr \in Boxes /\ at' = [at EXCEPT ![t] = ptr]
        /\ observed' = [observed EXCEPT ![ptr] = @ \cup {t}] /\ pc' = [pc EXCEPT ![t] = "drop_own"]
        /\ UNCHANGED <<ptr, own, heap>>
    BY <1>5 DEF Publish, GotBox, Goto, CvTypeOK, BoxTypeOK
  <2>1. CvTypeOK'
    BY <1>0, <2>0 DEF CvTypeOK, BoxTypeOK, CvPC, BoxPC, CvBoxInv, CvWaitInv, CvMutexInv, Waiters
  <2>2. CvBoxInv'
    BY <1>0, <2>0 DEF CvTypeOK, BoxTypeOK, CvPC, BoxPC, CvBoxInv, CvWaitInv, CvMutexInv, Waiters
  <2>3. CvWaitInv'
    BY <1>0, <2>0 DEF CvTypeOK, BoxTypeOK, CvPC, BoxPC, CvBoxInv, CvWaitInv, CvMutexInv, Waiters
  <2>4. CvMutexInv'
    BY <1>0, <2>0 DEF CvTypeOK, BoxTypeOK, CvPC, BoxPC, CvBoxInv, CvWaitInv, CvMutexInv, Waiters
  <2>5. QED
    BY <2>1, <2>2, <2>3, <2>4
<1>6. CASE DropOwn(t, l)
  <2>0. /\ pc[t] = "drop_own" /\ own[t] \in Boxes /\ own[t] # ptr
        /\ heap' = [heap EXCEPT ![own[t]] = "free"] /\ observed' = [observed EXCEPT ![own[t]] = {}]
        /\ own' = [own EXCEPT ![t] = Null] /\ pc' = [pc EXCEPT ![t] = l]
        /\ UNCHANGED <<ptr, at>>
    BY <1>6 DEF DropOwn, Free, Goto, CvTypeOK, BoxTypeOK, CvBoxInv
  <2>1. CvTypeOK'
    BY <1>0, <2>0 DEF CvTypeOK, BoxTypeOK, CvPC, BoxPC, CvBoxInv, CvWaitInv, CvMutexInv, Waiters
  <2>2. CvBoxInv'
    BY <1>0, <2>0 DEF CvTypeOK, BoxTypeOK, CvPC, BoxPC, CvBoxInv, CvWaitInv, CvMutexInv, Waiters
  <2>3. CvWaitInv'
    BY <1>0, <2>0 DEF CvTypeOK, BoxTypeOK, CvPC, BoxPC, CvBoxInv, CvWaitInv, CvMutexInv, Waiters
  <2>4. CvMutexInv'
    BY <1>0, <2>0 DEF CvTypeOK, BoxTypeOK, CvPC, BoxPC, CvBoxInv, CvWaitInv, CvMutexInv, Waiters
  <2>5. QED
    BY <2>1, <2>2, <2>3, <2>4
<1>7. QED
  BY <1>0, <1>1, <1>2, <1>3, <1>4, <1>5, <1>6 DEF GetOrInit

(* Locking, leaving, setting the predicate and calling wait or notify keep the invariant. *)
LEMMA CvClientStep ==
  ASSUME CvInv, NEW t \in Threads,
         \/ \E m \in Mutexes : LockMutex(t, m)
         \/ \E d \in Durs : CallWait(t, d)
         \/ Leave(t) \/ SetReady(t) \/ CallNotify(t)
  PROVE  CvInv'
<1> USE BoxAssumption, CondAssumption DEF CvInv
<1>1. ASSUME NEW m \in Mutexes, LockMutex(t, m) PROVE CvInv'
  <2>0. /\ pc[t] = "idle" /\ heldBy' = [heldBy EXCEPT ![m] = t] /\ with' = [with EXCEPT ![t] = m]
        /\ pc' = [pc EXCEPT ![t] = "locked"]
        /\ UNCHANGED <<ptr, heap, observed, own, at, mutex, ready, waiting, dur, start, woken, clock>>
    BY <1>1 DEF LockMutex, Goto
  <2>1. CvTypeOK'
    BY <2>0 DEF CvTypeOK, BoxTypeOK, CvPC, BoxPC, CvBoxInv, CvWaitInv, CvMutexInv, Waiters
  <2>2. CvBoxInv'
    BY <2>0 DEF CvTypeOK, BoxTypeOK, CvPC, BoxPC, CvBoxInv, CvWaitInv, CvMutexInv, Waiters
  <2>3. CvWaitInv'
    BY <2>0 DEF CvTypeOK, BoxTypeOK, CvPC, BoxPC, CvBoxInv, CvWaitInv, CvMutexInv, Waiters
  <2>4. CvMutexInv'
    BY <2>0 DEF CvTypeOK, BoxTypeOK, CvPC, BoxPC, CvBoxInv, CvWaitInv, CvMutexInv, Waiters
  <2>5. QED
    BY <2>1, <2>2, <2>3, <2>4
<1>2. ASSUME NEW d \in Durs, CallWait(t, d) PROVE CvInv'
  <2>0. /\ pc[t] = "locked" /\ dur' = [dur EXCEPT ![t] = d] /\ pc' = [pc EXCEPT ![t] = "verify"]
        /\ UNCHANGED <<ptr, heap, observed, own, at, mutex, heldBy, ready, waiting, with, start, woken, clock>>
    BY <1>2 DEF CallWait, Goto
  <2>1. CvTypeOK'
    BY <2>0 DEF CvTypeOK, BoxTypeOK, CvPC, BoxPC, CvBoxInv, CvWaitInv, CvMutexInv, Waiters
  <2>2. CvBoxInv'
    BY <2>0 DEF CvTypeOK, BoxTypeOK, CvPC, BoxPC, CvBoxInv, CvWaitInv, CvMutexInv, Waiters
  <2>3. CvWaitInv'
    BY <2>0 DEF CvTypeOK, BoxTypeOK, CvPC, BoxPC, CvBoxInv, CvWaitInv, CvMutexInv, Waiters
  <2>4. CvMutexInv'
    BY <2>0 DEF CvTypeOK, BoxTypeOK, CvPC, BoxPC, CvBoxInv, CvWaitInv, CvMutexInv, Waiters
  <2>5. QED
    BY <2>1, <2>2, <2>3, <2>4
<1>3. CASE Leave(t)
  <2>0. /\ pc[t] = "locked" /\ heldBy' = [heldBy EXCEPT ![with[t]] = Null]
        /\ pc' = [pc EXCEPT ![t] = "done"]
        /\ UNCHANGED <<ptr, heap, observed, own, at, mutex, ready, waiting, with, dur, start, woken, clock>>
    BY <1>3 DEF Leave, UnlockMutex, Goto
  <2>1. CvTypeOK'
    BY <2>0 DEF CvTypeOK, BoxTypeOK, CvPC, BoxPC, CvBoxInv, CvWaitInv, CvMutexInv, Waiters
  <2>2. CvBoxInv'
    BY <2>0 DEF CvTypeOK, BoxTypeOK, CvPC, BoxPC, CvBoxInv, CvWaitInv, CvMutexInv, Waiters
  <2>3. CvWaitInv'
    BY <2>0 DEF CvTypeOK, BoxTypeOK, CvPC, BoxPC, CvBoxInv, CvWaitInv, CvMutexInv, Waiters
  <2>4. CvMutexInv'
    BY <2>0 DEF CvTypeOK, BoxTypeOK, CvPC, BoxPC, CvBoxInv, CvWaitInv, CvMutexInv, Waiters
  <2>5. QED
    BY <2>1, <2>2, <2>3, <2>4
<1>4. CASE SetReady(t)
  <2>0. /\ t \in Notifiers /\ pc[t] = "locked" /\ ready' = TRUE
        /\ heldBy' = [heldBy EXCEPT ![with[t]] = Null] /\ pc' = [pc EXCEPT ![t] = "load"]
        /\ UNCHANGED <<ptr, heap, observed, own, at, mutex, waiting, with, dur, start, woken, clock>>
    BY <1>4 DEF SetReady, UnlockMutex, Goto
  <2>1. CvTypeOK'
    BY <2>0 DEF CvTypeOK, BoxTypeOK, CvPC, BoxPC, CvBoxInv, CvWaitInv, CvMutexInv, Waiters
  <2>2. CvBoxInv'
    BY <2>0 DEF CvTypeOK, BoxTypeOK, CvPC, BoxPC, CvBoxInv, CvWaitInv, CvMutexInv, Waiters
  <2>3. CvWaitInv'
    BY <2>0 DEF CvTypeOK, BoxTypeOK, CvPC, BoxPC, CvBoxInv, CvWaitInv, CvMutexInv, Waiters
  <2>4. CvMutexInv'
    BY <2>0 DEF CvTypeOK, BoxTypeOK, CvPC, BoxPC, CvBoxInv, CvWaitInv, CvMutexInv, Waiters
  <2>5. QED
    BY <2>1, <2>2, <2>3, <2>4
<1>5. CASE CallNotify(t)
  <2>0. /\ t \in Notifiers /\ pc[t] = "idle" /\ pc' = [pc EXCEPT ![t] = "load"]
        /\ UNCHANGED <<ptr, heap, observed, own, at, mutex, heldBy, ready, waiting, with, dur, start, woken, clock>>
    BY <1>5 DEF CallNotify, Goto, own_
  <2>1. CvTypeOK'
    BY <2>0 DEF CvTypeOK, BoxTypeOK, CvPC, BoxPC, CvBoxInv, CvWaitInv, CvMutexInv, Waiters
  <2>2. CvBoxInv'
    BY <2>0 DEF CvTypeOK, BoxTypeOK, CvPC, BoxPC, CvBoxInv, CvWaitInv, CvMutexInv, Waiters
  <2>3. CvWaitInv'
    BY <2>0 DEF CvTypeOK, BoxTypeOK, CvPC, BoxPC, CvBoxInv, CvWaitInv, CvMutexInv, Waiters
  <2>4. CvMutexInv'
    BY <2>0 DEF CvTypeOK, BoxTypeOK, CvPC, BoxPC, CvBoxInv, CvWaitInv, CvMutexInv, Waiters
  <2>5. QED
    BY <2>1, <2>2, <2>3, <2>4
<1>6. QED
  BY <1>1, <1>2, <1>3, <1>4, <1>5

(* Every step of wait and wait_timeout keeps the invariant. *)
LEMMA CvWaitStep ==
  ASSUME CvInv, NEW t \in Threads,
         Verify(t) \/ Now(t) \/ Block(t) \/ Relock(t) \/ Report(t) \/ \E w \in BOOLEAN : Unblock(t, w)
  PROVE  CvInv'
<1> USE BoxAssumption, CondAssumption DEF CvInv
<1>1. CASE Verify(t) /\ mutex \in {Null, with[t]}
  <2>0. /\ pc[t] = "verify" /\ mutex \in {Null, with[t]} /\ mutex' = with[t]
        /\ \E p \in {"load", "now"} : pc' = [pc EXCEPT ![t] = p]
        /\ UNCHANGED <<ptr, heap, observed, own, at, heldBy, ready, waiting, with, dur, start, woken, clock>>
    BY <1>1 DEF Verify, Goto
  <2>1. CvTypeOK'
    BY <2>0 DEF CvTypeOK, BoxTypeOK, CvPC, BoxPC, CvBoxInv, CvWaitInv, CvMutexInv, Waiters
  <2>2. CvBoxInv'
    BY <2>0 DEF CvTypeOK, BoxTypeOK, CvPC, BoxPC, CvBoxInv, CvWaitInv, CvMutexInv, Waiters
  <2>3. CvWaitInv'
    BY <2>0 DEF CvTypeOK, BoxTypeOK, CvPC, BoxPC, CvBoxInv, CvWaitInv, CvMutexInv, Waiters
  <2>4. CvMutexInv'
    BY <2>0 DEF CvTypeOK, BoxTypeOK, CvPC, BoxPC, CvBoxInv, CvWaitInv, CvMutexInv, Waiters
  <2>5. QED
    BY <2>1, <2>2, <2>3, <2>4
<1>2. CASE Verify(t) /\ mutex \notin {Null, with[t]}
  <2>0. /\ pc[t] = "verify" /\ pc' = [pc EXCEPT ![t] = "panicked"]
        /\ UNCHANGED <<ptr, heap, observed, own, at, mutex, heldBy, ready, waiting, with, dur, start, woken, clock>>
    BY <1>2 DEF Verify, Goto
  <2>1. CvTypeOK'
    BY <2>0 DEF CvTypeOK, BoxTypeOK, CvPC, BoxPC, CvBoxInv, CvWaitInv, CvMutexInv, Waiters
  <2>2. CvBoxInv'
    BY <2>0 DEF CvTypeOK, BoxTypeOK, CvPC, BoxPC, CvBoxInv, CvWaitInv, CvMutexInv, Waiters
  <2>3. CvWaitInv'
    BY <2>0 DEF CvTypeOK, BoxTypeOK, CvPC, BoxPC, CvBoxInv, CvWaitInv, CvMutexInv, Waiters
  <2>4. CvMutexInv'
    BY <2>0 DEF CvTypeOK, BoxTypeOK, CvPC, BoxPC, CvBoxInv, CvWaitInv, CvMutexInv, Waiters
  <2>5. QED
    BY <2>1, <2>2, <2>3, <2>4
<1>3. CASE Now(t)
  <2>0. /\ pc[t] = "now" /\ start' \in [Threads -> Nat] /\ pc' = [pc EXCEPT ![t] = "load"]
        /\ UNCHANGED <<ptr, heap, observed, own, at, mutex, heldBy, ready, waiting, with, dur, woken, clock>>
    BY <1>3 DEF Now, Readings, Goto, CvTypeOK
  <2>1. CvTypeOK'
    BY <2>0 DEF CvTypeOK, BoxTypeOK, CvPC, BoxPC, CvBoxInv, CvWaitInv, CvMutexInv, Waiters
  <2>2. CvBoxInv'
    BY <2>0 DEF CvTypeOK, BoxTypeOK, CvPC, BoxPC, CvBoxInv, CvWaitInv, CvMutexInv, Waiters
  <2>3. CvWaitInv'
    BY <2>0 DEF CvTypeOK, BoxTypeOK, CvPC, BoxPC, CvBoxInv, CvWaitInv, CvMutexInv, Waiters
  <2>4. CvMutexInv'
    BY <2>0 DEF CvTypeOK, BoxTypeOK, CvPC, BoxPC, CvBoxInv, CvWaitInv, CvMutexInv, Waiters
  <2>5. QED
    BY <2>1, <2>2, <2>3, <2>4
<1>4. CASE Block(t)
  <2>0. /\ pc[t] = "block" /\ at[t] \in Boxes /\ waiting' = [waiting EXCEPT ![at[t]] = @ \cup {t}]
        /\ heldBy' = [heldBy EXCEPT ![with[t]] = Null] /\ pc' = [pc EXCEPT ![t] = "blocked"]
        /\ UNCHANGED <<ptr, heap, observed, own, at, mutex, ready, with, dur, start, woken, clock>>
    BY <1>4 DEF Block, UnlockMutex, Goto, CvBoxInv
  <2>1. CvTypeOK'
    BY <2>0 DEF CvTypeOK, BoxTypeOK, CvPC, BoxPC, CvBoxInv, CvWaitInv, CvMutexInv, Waiters
  <2>2. CvBoxInv'
    BY <2>0 DEF CvTypeOK, BoxTypeOK, CvPC, BoxPC, CvBoxInv, CvWaitInv, CvMutexInv, Waiters
  <2>3. CvWaitInv'
    BY <2>0 DEF CvTypeOK, BoxTypeOK, CvPC, BoxPC, CvBoxInv, CvWaitInv, CvMutexInv, Waiters
  <2>4. CvMutexInv'
    BY <2>0 DEF CvTypeOK, BoxTypeOK, CvPC, BoxPC, CvBoxInv, CvWaitInv, CvMutexInv, Waiters
  <2>5. QED
    BY <2>1, <2>2, <2>3, <2>4
<1>5. CASE Relock(t)
  <2>0. /\ pc[t] = "relock" /\ heldBy' = [heldBy EXCEPT ![with[t]] = t]
        /\ \E p \in {"locked", "report"} : pc' = [pc EXCEPT ![t] = p]
        /\ UNCHANGED <<ptr, heap, observed, own, at, mutex, ready, waiting, with, dur, start, woken, clock>>
    BY <1>5 DEF Relock, Goto
  <2>1. CvTypeOK'
    BY <2>0 DEF CvTypeOK, BoxTypeOK, CvPC, BoxPC, CvBoxInv, CvWaitInv, CvMutexInv, Waiters
  <2>2. CvBoxInv'
    BY <2>0 DEF CvTypeOK, BoxTypeOK, CvPC, BoxPC, CvBoxInv, CvWaitInv, CvMutexInv, Waiters
  <2>3. CvWaitInv'
    BY <2>0 DEF CvTypeOK, BoxTypeOK, CvPC, BoxPC, CvBoxInv, CvWaitInv, CvMutexInv, Waiters
  <2>4. CvMutexInv'
    BY <2>0 DEF CvTypeOK, BoxTypeOK, CvPC, BoxPC, CvBoxInv, CvWaitInv, CvMutexInv, Waiters
  <2>5. QED
    BY <2>1, <2>2, <2>3, <2>4
<1>6. CASE Report(t)
  <2>0. /\ pc[t] = "report" /\ heldBy' \in {heldBy, [heldBy EXCEPT ![with[t]] = Null]}
        /\ \E p \in {"locked", "timed_out"} : pc' = [pc EXCEPT ![t] = p]
        /\ UNCHANGED <<ptr, heap, observed, own, at, mutex, ready, waiting, with, dur, start, woken, clock>>
    BY <1>6 DEF Report, UnlockMutex, Goto
  <2>1. CvTypeOK'
    BY <2>0 DEF CvTypeOK, BoxTypeOK, CvPC, BoxPC, CvBoxInv, CvWaitInv, CvMutexInv, Waiters
  <2>2. CvBoxInv'
    BY <2>0 DEF CvTypeOK, BoxTypeOK, CvPC, BoxPC, CvBoxInv, CvWaitInv, CvMutexInv, Waiters
  <2>3. CvWaitInv'
    BY <2>0 DEF CvTypeOK, BoxTypeOK, CvPC, BoxPC, CvBoxInv, CvWaitInv, CvMutexInv, Waiters
  <2>4. CvMutexInv'
    BY <2>0 DEF CvTypeOK, BoxTypeOK, CvPC, BoxPC, CvBoxInv, CvWaitInv, CvMutexInv, Waiters
  <2>5. QED
    BY <2>1, <2>2, <2>3, <2>4
<1>7. ASSUME NEW w \in BOOLEAN, Unblock(t, w) PROVE CvInv'
  <2>0. /\ pc[t] = "blocked" /\ at[t] \in Boxes /\ waiting' = [waiting EXCEPT ![at[t]] = @ \ {t}]
        /\ woken' = [woken EXCEPT ![t] = w] /\ pc' = [pc EXCEPT ![t] = "relock"]
        /\ UNCHANGED <<ptr, heap, observed, own, at, mutex, heldBy, ready, with, dur, start, clock>>
    BY <1>7 DEF Unblock, Goto, CvBoxInv
  <2>1. CvTypeOK'
    BY <2>0 DEF CvTypeOK, BoxTypeOK, CvPC, BoxPC, CvBoxInv, CvWaitInv, CvMutexInv, Waiters
  <2>2. CvBoxInv'
    BY <2>0 DEF CvTypeOK, BoxTypeOK, CvPC, BoxPC, CvBoxInv, CvWaitInv, CvMutexInv, Waiters
  <2>3. CvWaitInv'
    BY <2>0 DEF CvTypeOK, BoxTypeOK, CvPC, BoxPC, CvBoxInv, CvWaitInv, CvMutexInv, Waiters
  <2>4. CvMutexInv'
    BY <2>0 DEF CvTypeOK, BoxTypeOK, CvPC, BoxPC, CvBoxInv, CvWaitInv, CvMutexInv, Waiters
  <2>5. QED
    BY <2>1, <2>2, <2>3, <2>4
<1>8. QED
  BY <1>1, <1>2, <1>3, <1>4, <1>5, <1>6, <1>7

(* Whoever a notification wakes was blocked in the published object. *)
LEMMA CvNotifyStep ==
  ASSUME CvInv, NEW t \in Threads, NEW k, NEW W \in SUBSET Threads, Notify(t, k, W)
  PROVE  CvInv'
<1> USE BoxAssumption, CondAssumption DEF CvInv
<1>1. /\ pc[t] = "notify" /\ at[t] \in Boxes
      /\ waiting' = [waiting EXCEPT ![at[t]] = @ \ W]
      /\ woken' = [u \in Threads |-> woken[u] \/ u \in W]
      /\ UNCHANGED <<ptr, heap, observed, own, at, mutex, heldBy, ready, with, dur, start, clock>>
  BY DEF Notify, CvBoxInv
<1>2. \A u \in W : pc[u] = "blocked" /\ at[u] = at[t]
  BY <1>1 DEF Notify, CvWaitInv
<1>3. PICK l \in {"done", "idle"} :
         pc' = [u \in Threads |-> IF u \in W THEN "relock" ELSE IF u # t THEN pc[u] ELSE l]
  BY DEF Notify
<1>4. CvTypeOK'
  <2>1. pc' \in [Threads -> CvPC]
    BY <1>3 DEF CvTypeOK, CvPC
  <2>2. woken' \in [Threads -> BOOLEAN]
    BY <1>1
  <2>3. QED
    BY <1>1, <2>1, <2>2 DEF CvTypeOK, BoxTypeOK
<1>5. CvBoxInv'
  BY <1>1, <1>2, <1>3 DEF CvTypeOK, BoxTypeOK, CvBoxInv
<1>6. CvWaitInv'
  BY <1>1, <1>2, <1>3 DEF CvTypeOK, BoxTypeOK, CvWaitInv
<1>7. CvMutexInv'
  BY <1>1, <1>2, <1>3 DEF CvTypeOK, CvMutexInv, BoxPC
<1>8. QED
  BY <1>4, <1>5, <1>6, <1>7

(* Every reachable state satisfies the inductive invariant. *)
THEOREM CvInvariant == CvSpec => []CvInv
<1>1. CvInv /\ [CvNext]_cvVars => CvInv'
  <2> SUFFICES ASSUME CvInv, [CvNext]_cvVars PROVE CvInv'
    OBVIOUS
  <2>1. CASE Tick
    BY <2>1, CondAssumption DEF Tick, boxVars, CvInv, CvTypeOK, BoxTypeOK, CvBoxInv, CvWaitInv, CvMutexInv
  <2>2. CASE UNCHANGED cvVars
    BY <2>2 DEF cvVars, boxVars, own_, CvInv, CvTypeOK, BoxTypeOK, CvBoxInv, CvWaitInv, CvMutexInv
  <2>3. ASSUME NEW t \in Threads, CvStep(t) PROVE CvInv'
    BY <2>3, CvGetStep, CvClientStep, CvWaitStep, CvNotifyStep DEF CvStep
  <2>4. QED
    BY <2>1, <2>2, <2>3, CvWaitStep DEF CvNext
<1>2. QED
  BY <1>1, CvInitInv, PTL DEF CvSpec

(* The pal object is only ever waited on with one mutex, for any number of  *)
(* threads that wait for the first time at once.                            *)
THEOREM OneMutexHolds == CvSpec => []OneMutex
<1>1. CvInv => OneMutex
  BY DEF CvInv, CvMutexInv, OneMutex
<1>2. QED
  BY <1>1, CvInvariant, PTL

(* Waiters and notifiers work on the one published pal object.              *)
THEOREM WaitersMeet == CvSpec => []Meet
<1>1. CvInv => Meet
  BY BoxAssumption DEF CvInv, CvTypeOK, CvBoxInv, CvWaitInv, Meet
<1>2. QED
  BY <1>1, CvInvariant, PTL
=============================================================================
