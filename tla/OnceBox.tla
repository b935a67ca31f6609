------------------------------ MODULE OnceBox -------------------------------
(***************************************************************************)
(* sys/sync/once_box.rs: a pointer to a heap object that the first threads *)
(* to need it allocate in a race.  LazyMutex and LazyCondvar build on it:  *)
(* they decide when a thread enters get_or_init and where it goes next.    *)
(*                                                                         *)
(* `observed` models the orderings: the threads that happen after the      *)
(* initialization of each object.  Only an Acquire load, or the Acquire of *)
(* a failed compare_exchange, adds a thread to it.                         *)
(***************************************************************************)
CONSTANTS
    Threads,
    Boxes,     \* the addresses the allocator hands out
    Null       \* the null pointer, and no thread

ASSUME BoxAssumption == Null \notin Boxes \cup Threads

VARIABLES
    ptr,        \* OnceBox.ptr
    heap,       \* each address: "free" or "object"
    observed,   \* see above
    own,        \* the object a thread has allocated and not yet published
    at,         \* the object get_or_init returned to it
    pc          \* where it is

boxVars == <<ptr, heap, observed, own, at, pc>>

BoxPC == {"load", "create", "publish", "drop_own"}

BoxInit ==
    /\ ptr = Null
    /\ heap = [b \in Boxes |-> "free"]
    /\ observed = [b \in Boxes |-> {}]
    /\ own = [t \in Threads |-> Null]
    /\ at = [t \in Threads |-> Null]
    /\ pc = [t \in Threads |-> "idle"]

Goto(t, l) == pc' = [pc EXCEPT ![t] = l]

\* The thread goes on at l with the object b, whose initialization it has seen.
GotBox(t, b, l) ==
    /\ at' = [at EXCEPT ![t] = b]
    /\ observed' = [observed EXCEPT ![b] = @ \cup {t}]
    /\ Goto(t, l)

\* The object is destroyed and its memory given back.
Free(b) ==
    /\ heap' = [heap EXCEPT ![b] = "free"]
    /\ observed' = [observed EXCEPT ![b] = {}]

MutLoad(t, l) ==
    /\ pc[t] = "load"
    /\ \/ ptr # Null /\ at' = [at EXCEPT ![t] = ptr] /\ Goto(t, l)
       \/ ptr = Null /\ Goto(t, "create") /\ UNCHANGED at
    /\ UNCHANGED <<ptr, heap, own, observed>>

\* get_or_init: ptr.load(Acquire).
Load(t, l) ==
    /\ pc[t] = "load"
    /\ \/ ptr # Null /\ GotBox(t, ptr, l)
       \/ ptr = Null /\ Goto(t, "create") /\ UNCHANGED <<at, observed>>
    /\ UNCHANGED <<ptr, heap, own>>

\* initialize: f() allocates the object and initializes it.
Create(t, b) ==
    /\ pc[t] = "create" /\ heap[b] = "free"
    /\ heap' = [heap EXCEPT ![b] = "object"]
    /\ observed' = [observed EXCEPT ![b] = {t}]
    /\ own' = [own EXCEPT ![t] = b]
    /\ Goto(t, "publish")
    /\ UNCHANGED <<ptr, at>>

MutPublish(t, l) ==
    /\ pc[t] = "publish"
    /\ ptr' = own[t] /\ GotBox(t, own[t], l) /\ own' = [own EXCEPT ![t] = Null]
    /\ UNCHANGED heap

\* compare_exchange(null, new_ptr, Release, Acquire): a thread that lost the
\* race takes the winner's object and has its own left to drop.
Publish(t, l) ==
    /\ pc[t] = "publish"
    /\ \/ /\ ptr = Null /\ ptr' = own[t]
          /\ GotBox(t, own[t], l) /\ own' = [own EXCEPT ![t] = Null]
       \/ /\ ptr # Null /\ GotBox(t, ptr, "drop_own") /\ UNCHANGED <<ptr, own>>
    /\ UNCHANGED heap

DropOwn(t, l) ==
    /\ pc[t] = "drop_own"
    /\ Free(own[t])
    /\ own' = [own EXCEPT ![t] = Null]
    /\ Goto(t, l)
    /\ UNCHANGED <<ptr, at>>

GetOrInit(t, l) ==
    \/ Load(t, l) \/ Publish(t, l) \/ DropOwn(t, l)
    \/ \E b \in Boxes : Create(t, b)

\* Every object is the published one or still in the hands of one thread.
BoxAccounted(b) == heap[b] = "object" => b = ptr \/ \E t \in Threads : own[t] = b

BoxTypeOK ==
    /\ ptr \in Boxes \cup {Null}
    /\ heap \in [Boxes -> {"free", "object"}]
    /\ observed \in [Boxes -> SUBSET Threads]
    /\ own \in [Threads -> Boxes \cup {Null}]
    /\ at \in [Threads -> Boxes \cup {Null}]
=============================================================================
