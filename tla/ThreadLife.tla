----------------------------- MODULE ThreadLife -----------------------------
(***************************************************************************)
(* A thread from spawn to its end: thread/lifecycle.rs (spawn_unchecked,   *)
(* the Packet, JoinInner), thread/scoped.rs, and under them                *)
(* sys/thread/aros.rs, which makes a pthread.  Main is inside              *)
(* thread::scope; it and the children spawn, join and drop the handles of  *)
(* further children, inside the scope or not.  The target is built with    *)
(* panic=abort, so no closure ends by a panic that is caught.              *)
(***************************************************************************)
EXTENDS Naturals, FiniteSets

CONSTANTS
    Main,
    Children,   \* the threads that can be spawned
    Scoped      \* those of them that are spawned with Scope::spawn

ASSUME LifeAssumption ==
    Main \notin Children /\ Scoped \subseteq Children /\ IsFiniteSet(Children)

VARIABLES
    thr,       \* each thread: its position and the child it works on
    kid,       \* each child: its pthread, its Packet and its handle
    running,   \* ScopeData.num_running_threads
    token      \* the parking token of Main

vars == <<thr, kid, running, token>>

Actors == {Main} \cup Children

Init ==
    /\ thr = [a \in Actors |-> [pc |-> IF a = Main THEN "run" ELSE "none", on |-> a]]
    /\ kid = [c \in Children |-> [native |-> "none", refs |-> {}, result |-> "none",
                                  handle |-> "none", owner |-> Main]]
    /\ running = 0
    /\ token = FALSE

At(a, l) == thr[a].pc = l
Go(a, l, c) == thr' = [thr EXCEPT ![a] = [pc |-> l, on |-> c]]
\* A thread has dropped a Packet and goes on: with its closure, or to its end.
Next_(a) == IF thr[a].on = a THEN "end" ELSE "run"

-----------------------------------------------------------------------------
(* spawn_unchecked *)

\* The lifetime 'scope keeps a Scope from threads that may outlive it.
MaySpawn(a, c) == c \in Scoped => a \in Scoped \cup {Main}

\* The packet, shared by the handle and the closure, and the scope's count,
\* before the thread exists.
Spawn(a, c) ==
    /\ At(a, "run") /\ kid[c].native = "none" /\ MaySpawn(a, c)
    /\ kid' = [kid EXCEPT ![c].native = "starting", ![c].refs = {"join", "thread"}, ![c].owner = a]
    /\ running' = IF c \in Scoped THEN running + 1 ELSE running
    /\ Go(a, "native", c)
    /\ UNCHANGED token

NativeNew(a) ==
    LET c == thr[a].on IN
    /\ At(a, "native")
    /\ kid' = [kid EXCEPT ![c].native = "live", ![c].handle = "held"]
    /\ thr' = [thr EXCEPT ![a].pc = "run", ![c].pc = "start"]
    /\ UNCHANGED <<running, token>>

MutNativeFails(a) ==
    LET c == thr[a].on IN
    /\ At(a, "native")
    /\ kid' = [kid EXCEPT ![c].native = "failed", ![c].refs = {"thread"}]
    /\ Go(a, "run", c)
    /\ UNCHANGED <<running, token>>

\* The pthread could not be made: the closure is reclaimed and dropped, then
\* `?` drops the handle's reference, the last one.
NativeFails(a) ==
    LET c == thr[a].on IN
    /\ At(a, "native")
    /\ kid' = [kid EXCEPT ![c].native = "failed", ![c].refs = {}]
    /\ Go(a, "drop", c)
    /\ UNCHANGED <<running, token>>

-----------------------------------------------------------------------------
(* The Packet, and the thread that was spawned *)

MutRelease(a, c, r, l) ==
    /\ kid' = [kid EXCEPT ![c].refs = {}, ![c].result = "none"]
    /\ Go(a, "drop", c)

\* A reference to c's Packet is dropped, and the Packet if it was the last.
Release(a, c, r, l) ==
    /\ kid' = [kid EXCEPT ![c].refs = @ \ {r},
                          ![c].result = IF kid[c].refs = {r} THEN "none" ELSE @]
    /\ Go(a, IF kid[c].refs = {r} THEN "drop" ELSE l, c)

\* Packet::drop, after the result has been dropped: tell the scope.
DropPacket(a) ==
    LET scoped == thr[a].on \in Scoped IN
    /\ At(a, "drop")
    /\ running' = IF scoped THEN running - 1 ELSE running
    /\ Go(a, IF scoped /\ running = 1 THEN "unpark" ELSE Next_(a), thr[a].on)
    /\ UNCHANGED <<kid, token>>

UnparkMain(a) ==
    /\ At(a, "unpark")
    /\ token' = TRUE /\ Go(a, Next_(a), thr[a].on)
    /\ UNCHANGED <<kid, running>>

\* thread_start runs the closure, after ThreadInit::init.
Start(c) ==
    /\ At(c, "start") /\ Go(c, "run", c)
    /\ UNCHANGED <<kid, running, token>>

Owns(a, c) == kid[c].owner = a /\ kid[c].handle = "held"

MutFinish(c) ==
    /\ At(c, "run") /\ \A d \in Children : ~Owns(c, d)
    /\ Release(c, c, "thread", "end")
    /\ UNCHANGED <<running, token>>

\* The closure returns, its handles consumed, and the result is stored.
Finish(c) ==
    /\ At(c, "run") /\ \A d \in Children : ~Owns(c, d)
    /\ kid' = [kid EXCEPT ![c].result = "ok"] /\ Go(c, "drop_theirs", c)
    /\ UNCHANGED <<running, token>>

DropTheirs(c) ==
    /\ At(c, "drop_theirs") /\ Release(c, c, "thread", "end")
    /\ UNCHANGED <<running, token>>

\* thread_start returns and the pthread ends; guard::enable has arranged for
\* nothing that would clear CURRENT.
End(c) ==
    /\ At(c, "end")
    /\ kid' = [kid EXCEPT ![c].native = IF @ = "detached" THEN "reclaimed" ELSE "exited"]
    /\ Go(c, "gone", c)
    /\ UNCHANGED <<running, token>>

-----------------------------------------------------------------------------
(* JoinHandle *)

MutJoin(a, c) ==
    /\ At(a, "run") /\ Owns(a, c)
    /\ Go(a, "join", c)
    /\ UNCHANGED <<kid, running, token>>

Join(a, c) ==
    /\ At(a, "run") /\ Owns(a, c)
    /\ kid' = [kid EXCEPT ![c].handle = "joined"] /\ Go(a, "join", c)
    /\ UNCHANGED <<running, token>>

\* pthread_join returns, the result is taken and the Packet dropped.
Joined(a) ==
    LET c == thr[a].on IN
    /\ At(a, "join") /\ kid[c].native = "exited"
    /\ kid' = [kid EXCEPT ![c].native = "reclaimed", ![c].result = "none", ![c].refs = @ \ {"join"}]
    /\ Go(a, "drop", c)
    /\ UNCHANGED <<running, token>>

\* Drop for imp::Thread, the first field of JoinInner; then its packet.
Detach(a, c) ==
    /\ At(a, "run") /\ Owns(a, c)
    /\ kid' = [kid EXCEPT ![c].handle = "dropped",
                          ![c].native = IF @ = "exited" THEN "reclaimed" ELSE "detached"]
    /\ Go(a, "drop_mine", c)
    /\ UNCHANGED <<running, token>>

DropMine(a) ==
    /\ At(a, "drop_mine") /\ Release(a, thr[a].on, "join", "run")
    /\ UNCHANGED <<running, token>>

-----------------------------------------------------------------------------
(* thread::scope, after its closure has returned *)

EndOfClosure ==
    /\ At(Main, "run") /\ \A c \in Children : ~Owns(Main, c)
    /\ Go(Main, "check", Main)
    /\ UNCHANGED <<kid, running, token>>

Check ==
    /\ At(Main, "check")
    /\ Go(Main, IF running = 0 THEN "returned" ELSE "parked", Main)
    /\ UNCHANGED <<kid, running, token>>

Park ==
    /\ At(Main, "parked") /\ token
    /\ token' = FALSE /\ Go(Main, "check", Main)
    /\ UNCHANGED <<kid, running>>

Consume(a, c) == Join(a, c) \/ Detach(a, c)

Step(a) ==
    \/ NativeNew(a) \/ NativeFails(a) \/ DropPacket(a) \/ UnparkMain(a) \/ Joined(a) \/ DropMine(a)
    \/ a \in Children /\ (Start(a) \/ Finish(a) \/ DropTheirs(a) \/ End(a))

Next ==
    \/ EndOfClosure \/ Check \/ Park
    \/ \E a \in Actors : Step(a) \/ \E c \in Children : Spawn(a, c) \/ Consume(a, c)

(* exec schedules every ready task, and closures end: they consume their   *)
(* handles and return, though they need not spawn anything.                *)
Spec ==
    /\ Init /\ [][Next]_vars
    /\ WF_vars(Check \/ Park)
    /\ \A a \in Actors : WF_vars(Step(a)) /\ WF_vars(\E c \in Children : Consume(a, c))

-----------------------------------------------------------------------------
(* Properties *)

\* The types of the state; and the scope counts the packets that exist, one for
\* each thread, also for those that could not be made.
TypeOK ==
    /\ token \in BOOLEAN
    /\ running = Cardinality({c \in Scoped : kid[c].refs # {}})
               + Cardinality({a \in Actors : At(a, "drop") /\ thr[a].on \in Scoped})
    /\ \A a \in Actors : thr[a].on \in Actors
    /\ \A c \in Children :
        /\ kid[c].native \in {"none", "starting", "live", "failed", "detached", "exited", "reclaimed"}
        /\ kid[c].refs \subseteq {"join", "thread"} /\ kid[c].result \in {"none", "ok"}
        /\ kid[c].handle \in {"none", "held", "joined", "dropped"} /\ kid[c].owner \in Actors

\* "Wait until all the threads are finished": after scope has returned, no
\* scoped thread is being made, runs its closure, or has a result that may
\* borrow from the scope, whoever spawned it and however its handle ended.
ScopeContained == At(Main, "returned") => \A c \in Scoped :
    /\ thr[c].pc \notin {"start", "run", "drop_theirs"}
    /\ kid[c].native # "starting" /\ kid[c].result = "none" /\ kid[c].refs = {}

\* "the caller will never read this packet until the thread has exited": when
\* pthread_join returns, the handle's reference is the last and the result is
\* there, so neither the expect nor the unwrap of join panics; and
\* is_finished, which only counts references, speaks of a result as well.
ResultReady == \A c \in Children :
    /\ kid[c].native = "exited" /\ kid[c].handle \in {"held", "joined"} =>
        kid[c].refs = {"join"} /\ kid[c].result = "ok"
    /\ kid[c].handle = "held" /\ kid[c].refs = {"join"} => kid[c].result = "ok"

\* A pthread id is joined or detached once, and never after the library has
\* reclaimed the thread and may have given the id to another.
NativeOwned == \A c \in Children :
    kid[c].handle = "held" \/ (\E a \in Actors : At(a, "join") /\ thr[a].on = c) =>
        kid[c].native \in {"live", "exited"}

\* scope returns: the last packet to go, wherever that is, wakes Main.
ScopeReturns == At(Main, "check") ~> At(Main, "returned")
=============================================================================
