---------------------------- MODULE RwLockQueue -----------------------------
(***************************************************************************)
(* sys/sync/rwlock/queue.rs, the RwLock AROS selects: one atomic word and  *)
(* a lock-free queue of waiters whose nodes live on the waiters' stacks.   *)
(*                                                                         *)
(* The word is the set of its flag bits and what the remaining bits hold:  *)
(* a pointer to the first node when QUEUED is set, else a reader count.  A *)
(* thread waits with one node at a time, so a node is named by its thread. *)
(* A node's `next` holds a pointer or, in the last node, the reader count. *)
(* Steps are the atomic accesses to the word and to nodes of other threads *)
(* (one per turn of a traversal); parking is the token of ParkToken.       *)
(***************************************************************************)
EXTENDS Naturals, FiniteSets

CONSTANTS
    Threads,
    Calls,       \* the operations each thread makes use of
    SpinCount,   \* SPIN_COUNT
    Spurious,    \* may compare_exchange_weak fail spuriously
    Null         \* the null pointer

ASSUME RwAssumption ==
    /\ Calls \in [Threads -> SUBSET {"read", "write", "try_read", "try_write", "downgrade"}]
    /\ IsFiniteSet(Threads) /\ SpinCount \in Nat /\ Spurious \in BOOLEAN /\ Null \notin Threads

VARIABLES
    state,    \* RwLock.state
    node,     \* the Node of each thread
    token,    \* the threads whose parking token is available
    my        \* each thread's position, call, lock held and local variables

vars == <<state, node, token, my>>

Word(bits, p, n) == [bits |-> bits, ptr |-> p, count |-> n]
UNLOCKED == Word({}, Null, 0)
LOCKED == Word({"LOCKED"}, Null, 0)
ONE_READER == Word({"LOCKED"}, Null, 1)

Set(w, b) == [w EXCEPT !.bits = @ \cup b]
Mask(w, b) == [w EXCEPT !.bits = @ \ b]

NoNode == [next |-> Null, count |-> 0, prev |-> Null, tail |-> Null,
           write |-> FALSE, completed |-> FALSE]

\* A thread outside every call, holding the lock as h.  `st` is the local
\* `state` of the function it is in, `cur` and `tl` the nodes `current` and
\* `tail` of a traversal, `why` the function that traverses.
Outside(h) == [pc |-> "idle", want |-> "none", held |-> h, st |-> UNLOCKED,
               cur |-> Null, tl |-> Null, why |-> "none", spins |-> 0]

Init ==
    /\ state = UNLOCKED
    /\ node = [t \in Threads |-> NoNode]
    /\ token = {}
    /\ my = [t \in Threads |-> Outside("none")]

At(t, l) == my[t].pc = l
Go(t, r) == my' = [my EXCEPT ![t] = r]
Goto(t, l) == Go(t, [my[t] EXCEPT !.pc = l])

\* compare_exchange(st, new): the thread goes on as r, or as f with the value
\* it found.  Only the weak one can fail without cause.
Swap(t, new, r) == state = my[t].st /\ state' = new /\ Go(t, r)
Retry(t, f) ==
    /\ state # my[t].st \/ Spurious
    /\ Go(t, [f EXCEPT !.st = state]) /\ UNCHANGED state
Exchange(t, new, r) == Swap(t, new, r) \/ Retry(t, my[t])

-----------------------------------------------------------------------------
(* read, try_read, write, try_write *)

Call(t, c) ==
    /\ At(t, "idle") /\ my[t].held = "none"
    /\ Go(t, [my[t] EXCEPT !.pc = "try", !.want = c])
    /\ UNCHANGED <<state, node, token>>

Mode(t) == IF my[t].want \in {"read", "try_read"} THEN "read" ELSE "write"

MutMayLock(t, w) == IF Mode(t) = "read" THEN "QUEUED" \notin w.bits ELSE "LOCKED" \notin w.bits

\* read_lock and write_lock, and when they return None.
MayLock(t, w) ==
    IF Mode(t) = "read" THEN "QUEUED" \notin w.bits /\ w # LOCKED ELSE "LOCKED" \notin w.bits
Locked(t, w) ==
    IF Mode(t) = "read" THEN Word({"LOCKED"}, Null, w.count + 1) ELSE Set(w, {"LOCKED"})

\* try_update(read_lock) or fetch_or(LOCKED), one atomic update of the word.
Try(t) ==
    /\ At(t, "try")
    /\ \/ /\ MayLock(t, state) /\ state' = Locked(t, state)
          /\ Go(t, Outside(Mode(t)))
       \/ /\ ~MayLock(t, state) /\ UNCHANGED state
          /\ IF my[t].want \in {"read", "write"} THEN Goto(t, "load") ELSE Go(t, Outside("none"))
    /\ UNCHANGED <<node, token>>

\* lock_contended: load the state, at first and after having waited.
Load(t) ==
    /\ At(t, "load")
    /\ Go(t, [my[t] EXCEPT !.pc = "contend", !.st = state, !.spins = 0])
    /\ UNCHANGED <<state, node, token>>

\* The lock is available, try locking it.  The node goes out of scope.
Contend(t) ==
    /\ At(t, "contend") /\ MayLock(t, my[t].st)
    /\ \/ /\ Swap(t, Locked(t, my[t].st), Outside(Mode(t)))
          /\ node' = [node EXCEPT ![t] = NoNode]
       \/ Retry(t, my[t]) /\ UNCHANGED node
    /\ UNCHANGED token

MaySpin(t) == "QUEUED" \notin my[t].st.bits /\ my[t].spins < SpinCount

Spin(t) ==
    /\ At(t, "contend") /\ ~MayLock(t, my[t].st) /\ MaySpin(t)
    /\ Go(t, [my[t] EXCEPT !.st = state, !.spins = @ + 1])
    /\ UNCHANGED <<state, node, token>>

Waiting(t) == [Outside("none") EXCEPT !.pc = "wait", !.want = my[t].want]

\* The thread goes and traverses the queue that starts at w's node for f.
Traverse(t, w, f) == [my[t] EXCEPT !.pc = "walk", !.st = w, !.cur = w.ptr, !.tl = Null,
                                     !.why = f, !.spins = 0]

\* Prepare the node and register it; who thereby sets QUEUE_LOCKED has to
\* unlock the queue.  Until it is registered nobody else sees the node.
Enqueue(t) ==
    LET w == my[t].st
        first == "QUEUED" \notin w.bits
        next == Word({"QUEUED"} \cup (w.bits \cap {"LOCKED", "DOWNGRADED"})
                        \cup (IF first THEN {} ELSE {"QUEUE_LOCKED"}), t, 0)
        is_queue_locked == ~first /\ "QUEUE_LOCKED" \notin w.bits
    IN  /\ At(t, "contend") /\ ~MayLock(t, w) /\ ~MaySpin(t)
        /\ \/ /\ Swap(t, next, IF is_queue_locked THEN Traverse(t, next, "unlock_queue")
                                                  ELSE Waiting(t))
              /\ node' = [node EXCEPT ![t] = [next |-> w.ptr, count |-> w.count,
                    prev |-> Null, tail |-> IF first THEN t ELSE Null,
                    write |-> Mode(t) = "write", completed |-> FALSE]]
           \/ Retry(t, my[t]) /\ UNCHANGED node
        /\ UNCHANGED token

\* Node::wait: leave the loop when completed, else park.  A node that was
\* removed is prepared anew before it is registered again.
Wait(t) ==
    /\ At(t, "wait")
    /\ \/ node[t].completed /\ Goto(t, "load") /\ node' = [node EXCEPT ![t] = NoNode]
       \/ ~node[t].completed /\ Goto(t, "parked") /\ UNCHANGED node
    /\ UNCHANGED <<state, token>>

Park(t) ==
    /\ At(t, "parked") /\ t \in token
    /\ token' = token \ {t} /\ Goto(t, "wait")
    /\ UNCHANGED <<state, node>>

-----------------------------------------------------------------------------
(* find_tail_and_add_backlinks and complete_all *)

\* One turn of the loop: the tail is found, or a backlink is set.
Walk(t) ==
    LET c == my[t].cur IN
    /\ At(t, "walk")
    /\ IF node[c].tail # Null
       THEN Go(t, [my[t] EXCEPT !.pc = "found", !.tl = node[c].tail]) /\ UNCHANGED node
       ELSE /\ node' = [node EXCEPT ![node[c].next].prev = c]
            /\ Go(t, [my[t] EXCEPT !.cur = node[c].next])
    /\ UNCHANGED <<state, token>>

\* The tail is cached in the first node, and returned to who asked for it.
Found(t) ==
    /\ At(t, "found")
    /\ node' = [node EXCEPT ![my[t].st.ptr].tail = my[t].tl]
    /\ IF my[t].why = "downgrade" THEN Go(t, [my[t] EXCEPT !.pc = "complete", !.cur = my[t].tl])
                                  ELSE Goto(t, my[t].why)
    /\ UNCHANGED <<state, token>>

\* lock_contended goes on to wait; every other function returns.
Returned(t) == IF my[t].want = "none" THEN Outside(my[t].held) ELSE Waiting(t)

\* complete_all reads prev and clones the handle before it sets completed,
\* which lets the owner of the node go.
Complete(t) ==
    /\ At(t, "complete")
    /\ node' = [node EXCEPT ![my[t].cur].completed = TRUE]
    /\ Go(t, [my[t] EXCEPT !.pc = "unpark", !.tl = node[my[t].cur].prev])
    /\ UNCHANGED <<state, token>>

CompleteOne(t) ==
    /\ At(t, "complete_one")
    /\ node' = [node EXCEPT ![my[t].cur].completed = TRUE]
    /\ Go(t, [my[t] EXCEPT !.pc = "unpark", !.tl = Null])
    /\ UNCHANGED <<state, token>>

Unpark(t) ==
    /\ At(t, "unpark")
    /\ token' = token \cup {my[t].cur}
    /\ Go(t, IF my[t].tl = Null THEN Returned(t)
             ELSE [my[t] EXCEPT !.pc = "complete", !.cur = my[t].tl])
    /\ UNCHANGED <<state, node>>

-----------------------------------------------------------------------------
(* read_unlock, write_unlock, downgrade *)

MutReadUnlock(t) ==
    /\ At(t, "idle") /\ my[t].held = "read"
    /\ \/ /\ "QUEUED" \notin state.bits
          /\ state' = IF state.count > 1 THEN Word({"LOCKED"}, Null, state.count - 1) ELSE UNLOCKED
          /\ Go(t, Outside("none"))
       \/ /\ {"QUEUED", "DOWNGRADED"} \subseteq state.bits
          /\ state' = Mask(state, {"LOCKED"}) /\ Go(t, Outside("none"))
       \/ /\ state.bits \cap {"QUEUED", "DOWNGRADED"} = {"QUEUED"}
          /\ Go(t, Traverse(t, state, "decrement")) /\ UNCHANGED state
    /\ UNCHANGED <<node, token>>

\* One atomic try_update; with a queue the count has moved to its tail.
ReadUnlock(t) ==
    /\ At(t, "idle") /\ my[t].held = "read"
    /\ \/ /\ "QUEUED" \notin state.bits
          /\ state' = IF state.count > 1 THEN Word({"LOCKED"}, Null, state.count - 1) ELSE UNLOCKED
          /\ Go(t, Outside("none"))
       \/ /\ {"QUEUED", "DOWNGRADED"} \subseteq state.bits
          /\ state' = Mask(state, {"DOWNGRADED", "LOCKED"}) /\ Go(t, Outside("none"))
       \/ /\ state.bits \cap {"QUEUED", "DOWNGRADED"} = {"QUEUED"}
          /\ Go(t, Traverse(t, state, "decrement")) /\ UNCHANGED state
    /\ UNCHANGED <<node, token>>

MutDecrement(t) ==
    /\ At(t, "decrement")
    /\ IF node[my[t].tl].count = 1 THEN Goto(t, "unlock_contended") ELSE Go(t, Outside("none"))
    /\ UNCHANGED <<state, node, token>>

\* read_unlock_contended after the traversal.
Decrement(t) ==
    LET tail == my[t].tl IN
    /\ At(t, "decrement")
    /\ node' = [node EXCEPT ![tail].count = @ - 1]
    /\ IF node[tail].count = 1 THEN Goto(t, "unlock_contended") ELSE Go(t, Outside("none"))
    /\ UNCHANGED <<state, token>>

WriteUnlock(t) ==
    /\ At(t, "idle") /\ my[t].held = "write"
    /\ IF state = LOCKED
       THEN state' = UNLOCKED /\ Go(t, Outside("none"))
       ELSE Go(t, [my[t] EXCEPT !.pc = "unlock_contended", !.st = state]) /\ UNCHANGED state
    /\ UNCHANGED <<node, token>>

MutUnlockContended(t) ==
    LET w == my[t].st
        next == Mask(w, {"LOCKED"})
    IN  /\ At(t, "unlock_contended")
        /\ IF "QUEUE_LOCKED" \in w.bits
           THEN Exchange(t, next, Outside("none"))
           ELSE Exchange(t, next, [Traverse(t, next, "unlock_queue") EXCEPT !.held = "none"])
        /\ UNCHANGED <<node, token>>

\* Release the lock, and the waiters with it unless somebody else has the
\* queue lock and so will see to them.
UnlockContended(t) ==
    LET w == my[t].st
        next == Set(Mask(w, {"LOCKED"}), {"QUEUE_LOCKED"})
    IN  /\ At(t, "unlock_contended")
        /\ IF "QUEUE_LOCKED" \in w.bits
           THEN Exchange(t, next, Outside("none"))
           ELSE Exchange(t, next, [Traverse(t, next, "unlock_queue") EXCEPT !.held = "none"])
        /\ UNCHANGED <<node, token>>

Downgrade(t) ==
    /\ At(t, "idle") /\ my[t].held = "write" /\ "downgrade" \in Calls[t]
    /\ IF state = LOCKED
       THEN state' = ONE_READER /\ Go(t, Outside("read"))
       ELSE Go(t, [my[t] EXCEPT !.pc = "downgrade_slow", !.st = state]) /\ UNCHANGED state
    /\ UNCHANGED <<node, token>>

MutDowngradeSlow(t) ==
    LET w == my[t].st IN
    /\ At(t, "downgrade_slow")
    /\ Exchange(t, ONE_READER, [Traverse(t, w, "downgrade") EXCEPT !.held = "read"])
    /\ UNCHANGED <<node, token>>

\* Ask the holder of the queue lock to wake everybody, or take the queue.
DowngradeSlow(t) ==
    LET w == my[t].st IN
    /\ At(t, "downgrade_slow")
    /\ IF "QUEUE_LOCKED" \in w.bits
       THEN Exchange(t, Set(w, {"DOWNGRADED"}), Outside("read"))
       ELSE Exchange(t, ONE_READER, [Traverse(t, w, "downgrade") EXCEPT !.held = "read"])
    /\ UNCHANGED <<node, token>>

-----------------------------------------------------------------------------
(* unlock_queue, after the traversal *)

Again(t) == Traverse(t, state, "unlock_queue")

\* Locked and no downgrade asked for: leave waking to the holder.
LeaveToHolder(t) ==
    /\ At(t, "unlock_queue") /\ my[t].st.bits \cap {"DOWNGRADED", "LOCKED"} = {"LOCKED"}
    /\ Swap(t, Mask(my[t].st, {"QUEUE_LOCKED"}), Returned(t)) \/ Retry(t, Again(t))
    /\ UNCHANGED <<node, token>>

MayWake(t) == At(t, "unlock_queue") /\ my[t].st.bits \cap {"DOWNGRADED", "LOCKED"} # {"LOCKED"}

WakesOne(t) ==
    /\ "DOWNGRADED" \notin my[t].st.bits
    /\ node[my[t].tl].write /\ node[my[t].tl].prev # Null

\* The next is a writer: split it off, then try to release the queue lock.
SplitTail(t) ==
    /\ MayWake(t) /\ WakesOne(t)
    /\ node' = [node EXCEPT ![my[t].st.ptr].tail = node[my[t].tl].prev]
    /\ Goto(t, "split")
    /\ UNCHANGED <<state, token>>

MutWakeOne(t) ==
    /\ At(t, "split")
    /\ \/ Swap(t, Mask(my[t].st, {"QUEUE_LOCKED"}),
               [my[t] EXCEPT !.pc = "complete_one", !.cur = my[t].tl])
       \/ Retry(t, Again(t))
    /\ UNCHANGED <<node, token>>

WakeOne(t) ==
    /\ At(t, "split")
    /\ \/ Swap(t, Mask(my[t].st, {"QUEUE_LOCKED"}),
               [my[t] EXCEPT !.pc = "complete_one", !.cur = my[t].tl])
       \/ Retry(t, [my[t] EXCEPT !.pc = "undo", !.cur = my[t].st.ptr])
    /\ UNCHANGED <<node, token>>

Undo(t) ==
    /\ At(t, "undo")
    /\ node' = [node EXCEPT ![my[t].cur].tail = my[t].tl]
    /\ Go(t, Traverse(t, my[t].st, "unlock_queue"))
    /\ UNCHANGED <<state, token>>

\* A downgrade, a reader, or a single waiter: clear the queue, wake everybody.
WakeAll(t) ==
    /\ MayWake(t) /\ ~WakesOne(t)
    /\ \/ Swap(t, IF "DOWNGRADED" \in my[t].st.bits THEN ONE_READER ELSE UNLOCKED,
               [my[t] EXCEPT !.pc = "complete", !.cur = my[t].tl])
       \/ Retry(t, Again(t))
    /\ UNCHANGED <<node, token>>

-----------------------------------------------------------------------------

Step(t) ==
    \/ Try(t) \/ Load(t) \/ Contend(t) \/ Spin(t) \/ Enqueue(t) \/ Wait(t) \/ Park(t)
    \/ Walk(t) \/ Found(t) \/ Complete(t) \/ CompleteOne(t) \/ Unpark(t)
    \/ Decrement(t) \/ UnlockContended(t) \/ DowngradeSlow(t)
    \/ LeaveToHolder(t) \/ SplitTail(t) \/ WakeOne(t) \/ Undo(t) \/ WakeAll(t)

Release(t) == ReadUnlock(t) \/ WriteUnlock(t)

Next == \E t \in Threads :
    Step(t) \/ Release(t) \/ Downgrade(t) \/ \E c \in Calls[t] \ {"downgrade"} : Call(t, c)

\* The exchanges of unlock_queue, whose failure starts a new traversal.
ReleaseQueue(t) == (LeaveToHolder(t) \/ WakeOne(t) \/ WakeAll(t)) /\ state' # state

(* exec schedules every ready task, so a thread inside a function goes on, *)
(* and an exchange that may fail for no reason does not do so for ever.    *)
Spec ==
    /\ Init /\ [][Next]_vars
    /\ \A t \in Threads : WF_vars(Step(t)) /\ SF_vars(ReleaseQueue(t))

(* Besides, a thread that has the lock gives it back some time.            *)
FairSpec == Spec /\ \A t \in Threads : WF_vars(Release(t))

-----------------------------------------------------------------------------
(* Properties *)

Bits == {"LOCKED", "QUEUED", "QUEUE_LOCKED", "DOWNGRADED"}
Ptr == Threads \cup {Null}
Words == [bits : SUBSET Bits, ptr : Ptr, count : 0..Cardinality(Threads)]

\* The types of the state; a word has either a queue or a reader count, and
\* only a locked lock with a locked queue can wait for a downgrade (the table
\* "State" of queue.rs).  The debug_asserts of unlock_contended, downgrade_slow
\* and unlock_queue hold, also in every later turn of their loops.
TypeOK ==
    /\ state \in Words /\ token \subseteq Threads
    /\ node \in [Threads -> [next : Ptr, count : 0..Cardinality(Threads), prev : Ptr,
                             tail : Ptr, write : BOOLEAN, completed : BOOLEAN]]
    /\ \A t \in Threads :
        /\ my[t].st \in Words /\ my[t].cur \in Ptr /\ my[t].tl \in Ptr
        /\ my[t].held \in {"none", "read", "write"}
        /\ my[t].pc \in {"unlock_contended", "downgrade_slow"} =>
            my[t].st.bits \cap {"DOWNGRADED", "QUEUED", "LOCKED"} = {"QUEUED", "LOCKED"}
        /\ my[t].why = "unlock_queue" => {"QUEUED", "QUEUE_LOCKED"} \subseteq my[t].st.bits
    /\ ("QUEUED" \in state.bits) = (state.ptr # Null)
    /\ "QUEUED" \in state.bits => state.count = 0
    /\ "QUEUED" \notin state.bits => state.bits \subseteq {"LOCKED"}
    /\ "DOWNGRADED" \in state.bits => {"LOCKED", "QUEUE_LOCKED"} \subseteq state.bits

HeldAs(m) == {t \in Threads : my[t].held = m}

\* A thread has registered its node and has not been told that it was removed.
InQueue(t) ==
    /\ my[t].want # "none" /\ ~node[t].completed
    /\ my[t].pc \notin {"try", "load", "contend"}

\* The nodes a thread will read or write next.
Touches(t) ==
    CASE At(t, "walk") -> {my[t].cur, my[t].st.ptr} \cup {node[n].next :
            n \in {m \in Threads \cap {my[t].cur} : node[m].tail = Null}}
      [] At(t, "found") -> {my[t].st.ptr, my[t].tl}
      [] my[t].pc \in {"decrement", "unlock_queue"} -> {my[t].tl, my[t].st.ptr}
      [] my[t].pc \in {"split", "complete_one"} -> {my[t].tl}
      [] At(t, "undo") -> {my[t].cur, my[t].tl}
      [] At(t, "complete") -> {my[t].cur}
      [] OTHER -> {}

\* "the structure must not be mutably accessed or destroyed while other
\* threads may be accessing it": every node a thread touches, on its way
\* through the queue, in an undo or when it wakes the owner, belongs to a
\* thread that still waits, so it is neither out of scope nor prepared anew.
NodesLive == \A t \in Threads : \A n \in Touches(t) : n # Null /\ InQueue(n)

\* "Traverse the queue until we find a node that has a set tail".
TailOf(head) ==
    LET walk[i \in 0..Cardinality(Threads)] ==
            IF i = 0 THEN head
            ELSE IF node[walk[i - 1]].tail # Null THEN walk[i - 1] ELSE node[walk[i - 1]].next
    IN  node[walk[Cardinality(Threads)]].tail

\* "If the lock is read-locked, the last queue node contains the reader
\* count": the count in the word, or in the tail of the queue, is the number
\* of readers that have not counted themselves out; it neither loses one when
\* the first waiter moves it to its node nor falls below zero.
ReadersCounted ==
    LET uncounted == Cardinality(HeldAs("read")
                         \ {t \in Threads : my[t].pc = "unlock_contended"})
    IN  CASE "QUEUED" \notin state.bits -> state.count = uncounted
          [] "DOWNGRADED" \in state.bits -> uncounted = 1
          [] "LOCKED" \notin state.bits -> uncounted = 0
          [] OTHER -> node[TailOf(state.ptr)].count = uncounted

\* "This guarantees forward progress even if the unlocking thread could not
\* acquire the queue lock": while the lock is free and threads are queued,
\* somebody has the queue lock or a writer that was woken is on its way.
WaitersAttended ==
    state.bits \cap {"QUEUED", "LOCKED", "QUEUE_LOCKED"} = {"QUEUED"} =>
        \E t \in Threads : \/ At(t, "complete_one")
                           \/ my[t].want = "write" /\ ~InQueue(t) /\ ~At(t, "try")

\* The queue is invisible: the word and the nodes together behave as one
\* readers-writer lock, exclusion, downgrade and failing tries included.
Abstract == INSTANCE AbstractRwLock WITH
    readers <- HeldAs("read"), writers <- HeldAs("write"),
    call <- [t \in Threads |-> my[t].want]
RefinesRwLock == Abstract!Spec

\* No wakeup is lost, whoever was responsible for it: if the threads stop
\* asking for the lock, every call that was waiting returns.
AllServed ==
    <>[][\A t \in Threads : my'[t].pc = "try" => my[t].pc = "try"]_vars
        => <>[](\A t \in Threads : my[t].want = "none")
=============================================================================
