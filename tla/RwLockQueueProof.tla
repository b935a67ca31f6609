-------------------------- MODULE RwLockQueueProof --------------------------
(***************************************************************************)
(* Proofs about RwLockQueue for any finite set of threads.                 *)
(*                                                                         *)
(* The invariant speaks of three things the program does not store: the    *)
(* set Q of nodes in the queue, the thread wk[n] that has taken the node n *)
(* out of it to wake its owner, and a number pos[n] for each node that     *)
(* grows from the tail of a list to its head.  Its parts are operators on  *)
(* a word w, nodes nd and locals mm, so that a lemma can speak of the      *)
(* values before and after a step.                                         *)
(***************************************************************************)
EXTENDS RwLockQueue, FiniteSetTheorems, WellFoundedInduction, TLAPS

PCs == {"idle", "try", "load", "contend", "wait", "parked", "walk", "found", "complete",
        "complete_one", "unpark", "decrement", "unlock_contended", "downgrade_slow",
        "unlock_queue", "split", "undo"}
Nodes == [next : Ptr, count : 0..Cardinality(Threads), prev : Ptr,
          tail : Ptr, write : BOOLEAN, completed : BOOLEAN]
Locals == [pc : PCs, want : {"none", "read", "write", "try_read", "try_write"},
           held : {"none", "read", "write"}, st : Words, cur : Ptr, tl : Ptr,
           why : {"none", "unlock_queue", "decrement", "downgrade"}, spins : Nat]

Types(w, nd, tk, mm) ==
    /\ w \in Words /\ tk \subseteq Threads
    /\ nd \in [Threads -> Nodes] /\ mm \in [Threads -> Locals]

\* What a thread with the locals m is at: unlock_queue, read_unlock_contended or
\* downgrade_slow inside the queue, complete or complete_all.
Holder(m) == m.why = "unlock_queue" /\ m.pc \in {"walk", "found", "unlock_queue", "split", "undo"}
Leaving(m) == m.why = "decrement" /\ m.pc \in {"walk", "found", "decrement"}
Grabbing(m) == m.why = "downgrade" /\ m.pc \in {"walk", "found"}
Waking(m) == m.pc \in {"complete", "complete_one", "unpark"}
Splitting(m) == m.pc \in {"split", "undo"}

\* What a position says of the call and of the lock held.
CallOK(m) ==
    /\ m.want # "none" => m.held = "none"
    /\ m.pc \in {"load", "contend", "wait", "parked"} => m.want \in {"read", "write"}
    /\ m.pc = "try" => m.want # "none"
    /\ m.want \in {"try_read", "try_write"} => m.pc = "try"
    /\ m.pc \in {"idle", "unlock_contended", "downgrade_slow"} => m.want = "none"
    /\ m.pc = "unlock_contended" => m.held # "none"
    /\ m.pc = "downgrade_slow" => m.held = "write"
    /\ m.pc \in {"walk", "found"} => m.why # "none"
    /\ m.pc \in {"unlock_queue", "split", "undo", "complete_one"} => m.why = "unlock_queue"
    /\ m.pc = "decrement" => m.why = "decrement"
    /\ m.pc = "unpark" => m.cur # Null
    /\ m.why = "unlock_queue" =>
          /\ Holder(m) \/ Waking(m)
          /\ m.held = "none" /\ {"QUEUED", "QUEUE_LOCKED"} \subseteq m.st.bits
    /\ Leaving(m) \/ Grabbing(m) => m.want = "none" /\ m.held = "read"
CallInv(mm) == \A t \in Threads : CallOK(mm[t])

\* The readers that the count knows.
Counted(mm) == {t \in Threads : mm[t].held = "read" /\ mm[t].pc # "unlock_contended"}

\* The word by itself.
WordInv(w) ==
    /\ ("QUEUED" \in w.bits) <=> (w.ptr # Null)
    /\ "QUEUED" \in w.bits => w.count = 0
    /\ "QUEUED" \notin w.bits => w.bits \subseteq {"LOCKED"}
    /\ "DOWNGRADED" \in w.bits => {"LOCKED", "QUEUE_LOCKED"} \subseteq w.bits

\* Queued and locked, and no downgrade has been asked for.
Contended(w) == "QUEUED" \in w.bits /\ "LOCKED" \in w.bits /\ "DOWNGRADED" \notin w.bits

\* No thread but t has the lock.
Alone(mm, t) == \A u \in Threads : mm[u].held # "none" => u = t

\* What the word says of those who hold the lock.
LockInv(w, mm) ==
    /\ "QUEUED" \notin w.bits => w.count = Cardinality(Counted(mm))
    /\ "LOCKED" \in w.bits <=> \E t \in Threads : mm[t].held # "none"
    /\ \A t \in Threads : mm[t].held = "write" => Alone(mm, t)
    /\ \A t \in Threads : mm[t].pc \in {"unlock_contended", "downgrade_slow"} =>
          Contended(w) /\ Contended(mm[t].st) /\ Alone(mm, t)
    /\ "DOWNGRADED" \in w.bits => \E t \in Threads : mm[t].held = "read" /\ Alone(mm, t)
    /\ \A t \in Threads : Leaving(mm[t]) => Contended(w) /\ Contended(mm[t].st)

-----------------------------------------------------------------------------
(* Lists *)

\* A list of nodes is a set S with a position for each; nd are the nodes.
Low(S, pos, n) == n \in S /\ \A m \in S : pos[n] <= pos[m]
High(S, pos, n) == n \in S /\ \A m \in S : pos[m] <= pos[n]
OneEach(S, pos) == \A n, m \in S : pos[n] = pos[m] => n = m
Prev(nd, S, pos, n) == nd[n].prev \in S /\ pos[nd[n].prev] = pos[n] + 1

\* "All nodes preceding this node must have a correct, non-null next field", "all
\* nodes following this node must have a correct, non-null prev field", where
\* this node may be any that has a tail.
List(nd, S, pos, head) ==
    /\ High(S, pos, head) /\ OneEach(S, pos)
    /\ \A n \in S : Low(S, pos, n) \/ (nd[n].next \in S /\ pos[nd[n].next] + 1 = pos[n])
    /\ \A n \in S : nd[n].prev = Null \/ Prev(nd, S, pos, n)
    /\ \A n, m \in S : nd[n].tail # Null /\ pos[m] < pos[n] => nd[m].prev # Null

\* Nothing is missing between two positions.
Dense(S, pos) ==
    \A n \in S, i \in Nat : i <= pos[n] /\ (\E m \in S : pos[m] <= i) => \E k \in S : pos[k] = i

\* The nodes from c to the head have their backlinks.
Linked(nd, S, pos, c, head) ==
    \A n \in S : pos[c] <= pos[n] /\ pos[n] < pos[head] => nd[n].prev # Null

\* No tail is cached above n.
Bare(nd, S, pos, n) == \A m \in S : pos[n] < pos[m] => nd[m].tail = Null

\* "At least one node must contain a non-null, current tail field"; "the first
\* non-null tail field must be valid and current".
SomeTail(nd, S, pos) == \E n \in S : nd[n].tail \in S /\ Bare(nd, S, pos, n)
RightTail(nd, S, pos) == \E n \in S : Low(S, pos, nd[n].tail) /\ Bare(nd, S, pos, n)

\* The same, as a traversal sees it that is at c.
Finds(nd, S, pos, c) ==
    \E n \in S :
        /\ pos[n] <= pos[c] /\ Low(S, pos, nd[n].tail)
        /\ \A m \in S : pos[n] < pos[m] /\ pos[m] <= pos[c] => nd[m].tail = Null

\* Every cached tail is right: nothing has ever been taken out of the queue.
Fresh(nd, S, pos) ==
    /\ \A n \in S : nd[n].tail # Null => Low(S, pos, nd[n].tail)
    /\ \A n \in S : Low(S, pos, n) => nd[n].tail # Null

\* find_tail_and_add_backlinks with the locals m.
Traversing(m, nd, S, pos) ==
    /\ m.st.ptr \in S
    /\ m.pc = "walk" => /\ m.cur \in S /\ pos[m.cur] <= pos[m.st.ptr]
                        /\ Linked(nd, S, pos, m.cur, m.st.ptr)
    /\ m.pc = "found" => Low(S, pos, m.tl) /\ Linked(nd, S, pos, m.tl, m.st.ptr)

\* unlock_queue with the locals m.
HolderOK(m, nd, S, pos) ==
    /\ Traversing(m, nd, S, pos)
    /\ m.pc = "walk" => Finds(nd, S, pos, m.cur)
    /\ m.pc \in {"unlock_queue", "split", "undo"} => Low(S, pos, m.tl)
    /\ m.pc = "unlock_queue" => nd[m.st.ptr].tail = m.tl
    /\ m.pc = "split" =>
          /\ nd[m.tl].prev \in S /\ nd[m.st.ptr].tail = nd[m.tl].prev
          /\ "DOWNGRADED" \notin m.st.bits /\ "LOCKED" \notin m.st.bits /\ nd[m.tl].write
    /\ m.pc = "undo" =>
          /\ m.cur \in S /\ pos[m.cur] <= pos[m.st.ptr] /\ Bare(nd, S, pos, m.cur)
          /\ nd[m.cur].tail \in S /\ ~Low(S, pos, nd[m.cur].tail)
    /\ "LOCKED" \notin m.st.bits /\ m.pc # "undo" => Bare(nd, S, pos, m.st.ptr)

\* read_unlock_contended with the locals m.
LeavingOK(m, nd, S, pos) ==
    Traversing(m, nd, S, pos) /\ (m.pc = "decrement" => Low(S, pos, m.tl))

\* The nodes that complete_all has still to reach.
Backward(nd, S, pos, tail) ==
    /\ OneEach(S, pos) /\ Low(S, pos, tail)
    /\ \A n \in S : (nd[n].prev = Null /\ High(S, pos, n)) \/ Prev(nd, S, pos, n)

\* The nodes S that a thread with the locals m has taken out of the queue.
TakenOK(m, nd, S, pos) ==
    /\ Grabbing(m) =>
          /\ List(nd, S, pos, m.st.ptr) /\ Traversing(m, nd, S, pos)
          /\ m.pc = "walk" => Finds(nd, S, pos, m.cur)
    /\ m.pc = "complete" => Backward(nd, S, pos, m.cur)
    /\ m.pc = "complete_one" => S = {m.cur} /\ m.tl = m.cur /\ nd[m.cur].write
    /\ m.pc = "unpark" => IF m.tl = Null THEN S = {} ELSE Backward(nd, S, pos, m.tl)
    /\ ~Waking(m) /\ ~Grabbing(m) => S = {}

-----------------------------------------------------------------------------
(* The invariant *)

ReadLocked(w, mm) == Contended(w) /\ \E t \in Threads : mm[t].held = "read"

\* The queue of the lock.
ListInv(w, nd, mm, Q, pos) ==
    /\ "QUEUED" \in w.bits <=> Q # {}
    /\ "QUEUED" \in w.bits =>
          /\ List(nd, Q, pos, w.ptr) /\ SomeTail(nd, Q, pos)
          /\ (\A t \in Threads : ~Splitting(mm[t])) => RightTail(nd, Q, pos)
          /\ \E n \in Q : Low(Q, pos, n)
    /\ Dense(Q, pos)
CountInv(w, nd, mm, Q, pos) == \A n \in Q : nd[n].count =
    IF Low(Q, pos, n) /\ "DOWNGRADED" \notin w.bits THEN Cardinality(Counted(mm)) ELSE 0
HolderInv(w, nd, mm, Q, pos) ==
    /\ "QUEUE_LOCKED" \in w.bits <=> \E t \in Threads : Holder(mm[t])
    /\ \A t, u \in Threads : Holder(mm[t]) /\ Holder(mm[u]) => t = u
    /\ \A t \in Threads : Holder(mm[t]) => HolderOK(mm[t], nd, Q, pos)
LeavingInv(nd, mm, Q, pos) == \A t \in Threads : Leaving(mm[t]) => LeavingOK(mm[t], nd, Q, pos)
FreshInv(w, nd, mm, Q, pos) == ReadLocked(w, mm) =>
    /\ Fresh(nd, Q, pos)
    /\ \A t \in Threads : Holder(mm[t]) => "LOCKED" \in mm[t].st.bits /\ ~Splitting(mm[t])

\* wk says, for each node taken out of the queue, which thread is to wake its owner.
Taken(wk, t) == {n \in Threads : wk[n] = t}
TakenInv(nd, mm, wk, pos) == \A t \in Threads : TakenOK(mm[t], nd, Taken(wk, t), pos)

\* Who waits is in the queue or about to be woken.
Waits(m, n) == m.want # "none" /\ ~n.completed /\ m.pc \notin {"try", "load", "contend"}
WaitInv(nd, mm, Q, wk) == \A n \in Threads :
    /\ Waits(mm[n], nd[n]) <=> n \in Q \/ wk[n] # Null
    /\ n \in Q => wk[n] = Null
    /\ Waits(mm[n], nd[n]) => (nd[n].write <=> mm[n].want = "write")

ShapeInv(w, nd, mm, Q, wk, pos) ==
    /\ ListInv(w, nd, mm, Q, pos) /\ HolderInv(w, nd, mm, Q, pos) /\ LeavingInv(nd, mm, Q, pos)
    /\ FreshInv(w, nd, mm, Q, pos) /\ TakenInv(nd, mm, wk, pos) /\ WaitInv(nd, mm, Q, wk)

RwInv(w, nd, tk, mm, Q, wk, pos) ==
    /\ Types(w, nd, tk, mm) /\ CallInv(mm) /\ WordInv(w) /\ LockInv(w, mm)
    /\ CountInv(w, nd, mm, Q, pos) /\ ShapeInv(w, nd, mm, Q, wk, pos)

Ghosts(Q, wk, pos) == Q \in SUBSET Threads /\ wk \in [Threads -> Ptr] /\ pos \in [Threads -> Nat]
Inv == \E Q, wk, pos : Ghosts(Q, wk, pos) /\ RwInv(state, node, token, my, Q, wk, pos)

-----------------------------------------------------------------------------
(* What a change of nodes leaves alone *)

\* The nodes in S are as before, but for backlinks that have been added.
Keeps(nd2, pos2, nd, pos, S) == \A n \in S :
    /\ pos2[n] = pos[n] /\ nd2[n].next = nd[n].next /\ nd2[n].tail = nd[n].tail
    /\ nd2[n].write = nd[n].write
    /\ nd2[n].prev = nd[n].prev \/ (nd[n].prev = Null /\ Prev(nd2, S, pos2, n))

\* Adding a backlink leaves every list a list.
LEMMA KeepList ==
    ASSUME NEW nd, NEW nd2, NEW pos, NEW pos2, NEW S \in SUBSET Threads, Keeps(nd2, pos2, nd, pos, S),
           NEW h, List(nd, S, pos, h)
    PROVE  List(nd2, S, pos2, h)
  <1>1. High(S, pos2, h) /\ OneEach(S, pos2)  BY DEF Keeps, List, High, OneEach
  <1>2. \A n \in S : Low(S, pos, n) => Low(S, pos2, n)  BY DEF Keeps, Low
  <1>3. \A n \in S : Low(S, pos2, n) \/ (nd2[n].next \in S /\ pos2[nd2[n].next] + 1 = pos2[n])
    BY <1>2 DEF Keeps, List
  <1>4. \A n \in S : nd2[n].prev = Null \/ Prev(nd2, S, pos2, n)  BY DEF Keeps, List, Prev
  <1>5. \A n, m \in S : nd2[n].tail # Null /\ pos2[m] < pos2[n] => nd2[m].prev # Null
    BY RwAssumption DEF Keeps, List, Prev
  <1> QED  BY <1>1, <1>3, <1>4, <1>5 DEF List

\* Adding a backlink changes nothing about the tails.
LEMMA KeepTails ==
    ASSUME NEW nd, NEW nd2, NEW pos, NEW pos2, NEW S \in SUBSET Threads, Keeps(nd2, pos2, nd, pos, S)
    PROVE  /\ \A n \in S : Low(S, pos, n) <=> Low(S, pos2, n)
           /\ \A n : Low(S, pos, n) => Low(S, pos2, n)
           /\ \A n \in S : Bare(nd, S, pos, n) => Bare(nd2, S, pos2, n)
           /\ SomeTail(nd, S, pos) => SomeTail(nd2, S, pos2)
           /\ RightTail(nd, S, pos) => RightTail(nd2, S, pos2)
           /\ \A c \in S : Finds(nd, S, pos, c) => Finds(nd2, S, pos2, c)
           /\ Fresh(nd, S, pos) => Fresh(nd2, S, pos2)
  <1>1. \A n \in S : Low(S, pos, n) <=> Low(S, pos2, n)  BY DEF Keeps, Low
  <1>2. \A n : Low(S, pos, n) => Low(S, pos2, n)  BY DEF Keeps, Low
  <1>3. \A n \in S : Bare(nd, S, pos, n) => Bare(nd2, S, pos2, n)  BY DEF Keeps, Bare
  <1>4. SomeTail(nd, S, pos) => SomeTail(nd2, S, pos2)  BY <1>3 DEF Keeps, SomeTail
  <1>5. RightTail(nd, S, pos) => RightTail(nd2, S, pos2)  BY <1>2, <1>3 DEF Keeps, RightTail
  <1>6. \A c \in S : Finds(nd, S, pos, c) => Finds(nd2, S, pos2, c)  BY <1>2 DEF Keeps, Finds
  <1>7. Fresh(nd, S, pos) => Fresh(nd2, S, pos2)  BY <1>1, <1>2 DEF Keeps, Fresh
  <1> QED  BY <1>1, <1>2, <1>3, <1>4, <1>5, <1>6, <1>7

\* Adding a backlink disturbs no traversal.
LEMMA KeepTraversing ==
    ASSUME NEW nd, NEW nd2, NEW pos, NEW pos2, NEW S \in SUBSET Threads, Keeps(nd2, pos2, nd, pos, S),
           NEW m, Traversing(m, nd, S, pos)
    PROVE  Traversing(m, nd2, S, pos2)
  <1>1. \A n : Low(S, pos, n) => Low(S, pos2, n)  BY KeepTails
  <1>2. \A c, h \in S : Linked(nd, S, pos, c, h) => Linked(nd2, S, pos2, c, h)
    BY RwAssumption DEF Keeps, Linked, Prev
  <1>3. m.st.ptr \in S  BY DEF Traversing
  <1>4. m.pc = "walk" => /\ m.cur \in S /\ pos2[m.cur] <= pos2[m.st.ptr]
                         /\ Linked(nd2, S, pos2, m.cur, m.st.ptr)
    BY <1>2, <1>3 DEF Traversing, Keeps
  <1>5. m.pc = "found" => Low(S, pos2, m.tl) /\ Linked(nd2, S, pos2, m.tl, m.st.ptr)
    BY <1>1, <1>2, <1>3 DEF Traversing, Low
  <1> QED  BY <1>3, <1>4, <1>5 DEF Traversing

\* Adding a backlink leaves what unlock_queue relies on.
LEMMA KeepHolder ==
    ASSUME NEW nd, NEW nd2, NEW pos, NEW pos2, NEW S \in SUBSET Threads, Keeps(nd2, pos2, nd, pos, S),
           NEW m, HolderOK(m, nd, S, pos)
    PROVE  HolderOK(m, nd2, S, pos2)
  <1>1. /\ \A n \in S : Low(S, pos, n) <=> Low(S, pos2, n)
        /\ \A n : Low(S, pos, n) => Low(S, pos2, n)
        /\ \A n \in S : Bare(nd, S, pos, n) => Bare(nd2, S, pos2, n)
        /\ \A c \in S : Finds(nd, S, pos, c) => Finds(nd2, S, pos2, c)
    BY KeepTails
  <1>2. Traversing(m, nd2, S, pos2)  BY KeepTraversing DEF HolderOK
  <1>3. m.st.ptr \in S /\ (m.pc = "walk" => m.cur \in S)  BY DEF HolderOK, Traversing
  <1>4. m.pc = "walk" => Finds(nd2, S, pos2, m.cur)  BY <1>1, <1>3 DEF HolderOK
  <1>5. m.pc \in {"unlock_queue", "split", "undo"} => Low(S, pos2, m.tl)  BY <1>1 DEF HolderOK
  <1>6. m.pc = "unlock_queue" => nd2[m.st.ptr].tail = m.tl  BY <1>3 DEF HolderOK, Keeps
  <1>7. m.pc = "split" =>
          /\ nd2[m.tl].prev \in S /\ nd2[m.st.ptr].tail = nd2[m.tl].prev
          /\ "DOWNGRADED" \notin m.st.bits /\ "LOCKED" \notin m.st.bits /\ nd2[m.tl].write
    <2> SUFFICES ASSUME m.pc = "split" PROVE
          /\ nd2[m.tl].prev \in S /\ nd2[m.st.ptr].tail = nd2[m.tl].prev
          /\ "DOWNGRADED" \notin m.st.bits /\ "LOCKED" \notin m.st.bits /\ nd2[m.tl].write
      OBVIOUS
    <2>1. /\ nd[m.tl].prev \in S /\ nd[m.st.ptr].tail = nd[m.tl].prev
          /\ "DOWNGRADED" \notin m.st.bits /\ "LOCKED" \notin m.st.bits /\ nd[m.tl].write
      BY DEF HolderOK
    <2>2. m.tl \in S  BY DEF HolderOK, Low
    <2> QED  BY <2>1, <2>2, <1>3, RwAssumption DEF Keeps
  <1>8. m.pc = "undo" =>
          /\ m.cur \in S /\ pos2[m.cur] <= pos2[m.st.ptr] /\ Bare(nd2, S, pos2, m.cur)
          /\ nd2[m.cur].tail \in S /\ ~Low(S, pos2, nd2[m.cur].tail)
    BY <1>1, <1>3 DEF HolderOK, Keeps
  <1>9. "LOCKED" \notin m.st.bits /\ m.pc # "undo" => Bare(nd2, S, pos2, m.st.ptr)
    BY <1>1, <1>3 DEF HolderOK
  <1> QED  BY <1>2, <1>4, <1>5, <1>6, <1>7, <1>8, <1>9 DEF HolderOK

\* Adding a backlink leaves what read_unlock_contended relies on.
LEMMA KeepLeaving ==
    ASSUME NEW nd, NEW nd2, NEW pos, NEW pos2, NEW S \in SUBSET Threads, Keeps(nd2, pos2, nd, pos, S),
           NEW m, LeavingOK(m, nd, S, pos)
    PROVE  LeavingOK(m, nd2, S, pos2)
  <1>1. Traversing(m, nd2, S, pos2)  BY KeepTraversing DEF LeavingOK
  <1>2. m.pc = "decrement" => Low(S, pos2, m.tl)  BY KeepTails DEF LeavingOK
  <1> QED  BY <1>1, <1>2 DEF LeavingOK

\* Adding a backlink leaves the rest of complete_all's way.
LEMMA KeepBackward ==
    ASSUME NEW nd, NEW nd2, NEW pos \in [Threads -> Nat], NEW pos2, NEW S \in SUBSET Threads,
           Keeps(nd2, pos2, nd, pos, S), NEW n, Backward(nd, S, pos, n)
    PROVE  Backward(nd2, S, pos2, n)
  <1>1. OneEach(S, pos2) /\ Low(S, pos2, n)  BY DEF Keeps, Backward, OneEach, Low
  <1>2. \A k \in S : (nd2[k].prev = Null /\ High(S, pos2, k)) \/ Prev(nd2, S, pos2, k)
    BY DEF Keeps, Backward, Prev, High
  <1> QED  BY <1>1, <1>2 DEF Backward

\* Adding a backlink leaves what the thread relies on that has taken the nodes.
LEMMA KeepTaken ==
    ASSUME NEW nd, NEW nd2, NEW pos \in [Threads -> Nat], NEW pos2, NEW S \in SUBSET Threads,
           Keeps(nd2, pos2, nd, pos, S), NEW m, TakenOK(m, nd, S, pos)
    PROVE  TakenOK(m, nd2, S, pos2)
  <1>1. Grabbing(m) =>
          /\ List(nd2, S, pos2, m.st.ptr) /\ Traversing(m, nd2, S, pos2)
          /\ m.pc = "walk" => Finds(nd2, S, pos2, m.cur)
    <2> SUFFICES ASSUME Grabbing(m) PROVE
          /\ List(nd2, S, pos2, m.st.ptr) /\ Traversing(m, nd2, S, pos2)
          /\ m.pc = "walk" => Finds(nd2, S, pos2, m.cur)
      OBVIOUS
    <2>1. /\ List(nd, S, pos, m.st.ptr) /\ Traversing(m, nd, S, pos)
          /\ m.pc = "walk" => Finds(nd, S, pos, m.cur)
      BY DEF TakenOK
    <2>2. m.pc = "walk" => m.cur \in S  BY <2>1 DEF Traversing
    <2> QED  BY <2>1, <2>2, KeepList, KeepTraversing, KeepTails
  <1>2. m.pc = "complete" => Backward(nd2, S, pos2, m.cur)  BY KeepBackward DEF TakenOK
  <1>3. m.pc = "complete_one" => S = {m.cur} /\ m.tl = m.cur /\ nd2[m.cur].write
    BY DEF TakenOK, Keeps
  <1>4. m.pc = "unpark" => IF m.tl = Null THEN S = {} ELSE Backward(nd2, S, pos2, m.tl)
    BY KeepBackward DEF TakenOK
  <1>5. ~Waking(m) /\ ~Grabbing(m) => S = {}  BY DEF TakenOK
  <1> QED  BY <1>1, <1>2, <1>3, <1>4, <1>5 DEF TakenOK

-----------------------------------------------------------------------------
(* What the operations on a list do *)

\* nd2 is nd but for the tail that the node x has cached.
Caches(nd2, nd, S, x, tl) ==
    /\ nd2[x].tail = tl
    /\ \A n \in S : /\ n # x => nd2[n].tail = nd[n].tail
                    /\ nd2[n].next = nd[n].next /\ nd2[n].prev = nd[n].prev
                    /\ nd2[n].write = nd[n].write

\* A list may cache any tail where the backlinks up to it are set.
LEMMA CacheList ==
    ASSUME NEW nd, NEW nd2, NEW pos, NEW S \in SUBSET Threads, NEW x \in S, NEW tl,
           Caches(nd2, nd, S, x, tl), NEW h, List(nd, S, pos, h),
           \A n \in S : pos[n] < pos[x] => nd[n].prev # Null
    PROVE  List(nd2, S, pos, h)
  <1>1. High(S, pos, h) /\ OneEach(S, pos)  BY DEF List
  <1>2. \A n \in S : Low(S, pos, n) \/ (nd2[n].next \in S /\ pos[nd2[n].next] + 1 = pos[n])
    BY DEF Caches, List
  <1>3. \A n \in S : nd2[n].prev = Null \/ Prev(nd2, S, pos, n)  BY DEF Caches, List, Prev
  <1>4. \A n, m \in S : nd2[n].tail # Null /\ pos[m] < pos[n] => nd2[m].prev # Null
    BY DEF Caches, List
  <1> QED  BY <1>1, <1>2, <1>3, <1>4 DEF List

\* A right tail cached anywhere leaves the tails right.
LEMMA CacheTails ==
    ASSUME NEW nd, NEW nd2, NEW pos \in [Threads -> Nat], NEW S \in SUBSET Threads, NEW x \in S, NEW tl,
           Caches(nd2, nd, S, x, tl), Low(S, pos, tl), OneEach(S, pos)
    PROVE  /\ SomeTail(nd, S, pos) => SomeTail(nd2, S, pos)
           /\ RightTail(nd, S, pos) => RightTail(nd2, S, pos)
           /\ Fresh(nd, S, pos) => Fresh(nd2, S, pos)
           /\ \A c \in S : Finds(nd, S, pos, c) => Finds(nd2, S, pos, c)
           /\ \A c \in S : pos[x] <= pos[c] /\ Bare(nd, S, pos, c) => Bare(nd2, S, pos, c)
  <1>0. tl \in S /\ tl # Null  BY RwAssumption DEF Low
  <1>1. SomeTail(nd, S, pos) => SomeTail(nd2, S, pos)
    <2> SUFFICES ASSUME NEW n \in S, nd[n].tail \in S, Bare(nd, S, pos, n) PROVE SomeTail(nd2, S, pos)
      BY DEF SomeTail
    <2>1. CASE pos[x] < pos[n]  
      <3>1. nd2[n].tail \in S /\ Bare(nd2, S, pos, n)  BY <2>1 DEF Caches, Bare
      <3> QED  BY <3>1 DEF SomeTail
    <2>2. CASE ~(pos[x] < pos[n])
      <3>1. nd2[x].tail \in S /\ Bare(nd2, S, pos, x)  BY <2>2, <1>0 DEF Caches, Bare
      <3> QED  BY <3>1 DEF SomeTail
    <2> QED  BY <2>1, <2>2
  <1>2. RightTail(nd, S, pos) => RightTail(nd2, S, pos)
    <2> SUFFICES ASSUME NEW n \in S, Low(S, pos, nd[n].tail), Bare(nd, S, pos, n)
                 PROVE  RightTail(nd2, S, pos)
      BY DEF RightTail
    <2>1. CASE pos[x] < pos[n]
      <3>1. Low(S, pos, nd2[n].tail) /\ Bare(nd2, S, pos, n)  BY <2>1 DEF Caches, Bare
      <3> QED  BY <3>1 DEF RightTail
    <2>2. CASE ~(pos[x] < pos[n])
      <3>1. Low(S, pos, nd2[x].tail) /\ Bare(nd2, S, pos, x)  BY <2>2 DEF Caches, Bare
      <3> QED  BY <3>1 DEF RightTail
    <2> QED  BY <2>1, <2>2
  <1>3. Fresh(nd, S, pos) => Fresh(nd2, S, pos)  BY <1>0 DEF Fresh, Caches
  <1>4. \A c \in S : Finds(nd, S, pos, c) => Finds(nd2, S, pos, c)
    <2> SUFFICES ASSUME NEW c \in S, NEW n \in S, pos[n] <= pos[c], Low(S, pos, nd[n].tail),
                    \A m \in S : pos[n] < pos[m] /\ pos[m] <= pos[c] => nd[m].tail = Null
                 PROVE  Finds(nd2, S, pos, c)
      BY DEF Finds
    <2>1. CASE pos[x] < pos[n] \/ pos[c] < pos[x]
      <3>1. Low(S, pos, nd2[n].tail)  BY <2>1 DEF Caches
      <3>2. \A m \in S : pos[n] < pos[m] /\ pos[m] <= pos[c] => nd2[m].tail = Null
        BY <2>1 DEF Caches
      <3> QED  BY <3>1, <3>2 DEF Finds
    <2>2. CASE ~(pos[x] < pos[n] \/ pos[c] < pos[x])
      <3>1. Low(S, pos, nd2[x].tail) /\ pos[x] <= pos[c]  BY <2>2 DEF Caches
      <3>2. \A m \in S : pos[x] < pos[m] /\ pos[m] <= pos[c] => nd2[m].tail = Null
        BY <2>2 DEF Caches
      <3> QED  BY <3>1, <3>2 DEF Finds
    <2> QED  BY <2>1, <2>2
  <1>5. \A c \in S : pos[x] <= pos[c] /\ Bare(nd, S, pos, c) => Bare(nd2, S, pos, c)
    BY DEF Bare, Caches
  <1> QED  BY <1>1, <1>2, <1>3, <1>4, <1>5

\* A traversal reads no cached tail it has not come to.
LEMMA CacheTraversing ==
    ASSUME NEW nd, NEW nd2, NEW pos, NEW S \in SUBSET Threads, NEW x \in S, NEW tl,
           Caches(nd2, nd, S, x, tl), NEW m, Traversing(m, nd, S, pos)
    PROVE  Traversing(m, nd2, S, pos)
  <1>1. \A c, h : Linked(nd, S, pos, c, h) => Linked(nd2, S, pos, c, h)  BY DEF Caches, Linked
  <1> QED  BY <1>1 DEF Traversing

\* The tails are right for a traversal that begins at the head.
LEMMA FindsFromHead ==
    ASSUME NEW nd, NEW pos, NEW S, NEW h, High(S, pos, h), RightTail(nd, S, pos)
    PROVE  Finds(nd, S, pos, h)
  BY DEF High, RightTail, Bare, Finds

\* A traversal that finds a tail in the node it has come to has found the right one.
LEMMA FoundTail ==
    ASSUME NEW nd, NEW pos \in [Threads -> Nat], NEW S \in SUBSET Threads, NEW c \in S,
           Finds(nd, S, pos, c), nd[c].tail # Null, OneEach(S, pos)
    PROVE  Low(S, pos, nd[c].tail)
  <1>1. PICK n \in S : 
          /\ pos[n] <= pos[c] /\ Low(S, pos, nd[n].tail)
          /\ \A m \in S : pos[n] < pos[m] /\ pos[m] <= pos[c] => nd[m].tail = Null
    BY DEF Finds
  <1>2. ~(pos[n] < pos[c])  BY <1>1
  <1> QED  BY <1>1, <1>2 DEF OneEach

\* A traversal that has come to a node without a tail can go on to the next.
LEMMA FindsOn ==
    ASSUME NEW nd, NEW pos \in [Threads -> Nat], NEW S \in SUBSET Threads, NEW c \in S, NEW h,
           List(nd, S, pos, h), Finds(nd, S, pos, c), nd[c].tail = Null
    PROVE  nd[c].next \in S /\ pos[nd[c].next] + 1 = pos[c] /\ Finds(nd, S, pos, nd[c].next)
  <1>1. PICK n \in S : 
          /\ pos[n] <= pos[c] /\ Low(S, pos, nd[n].tail)
          /\ \A m \in S : pos[n] < pos[m] /\ pos[m] <= pos[c] => nd[m].tail = Null
    BY DEF Finds
  <1>2. nd[n].tail # Null /\ n # c  BY <1>1, RwAssumption DEF Low
  <1>3. pos[n] < pos[c]  BY <1>1, <1>2 DEF List, OneEach
  <1>4. nd[c].next \in S /\ pos[nd[c].next] + 1 = pos[c]  BY <1>3 DEF List, Low
  <1>5. pos[n] <= pos[nd[c].next]  BY <1>3, <1>4
  <1>6. \A m \in S : pos[n] < pos[m] /\ pos[m] <= pos[nd[c].next] => nd[m].tail = Null
    BY <1>1, <1>4
  <1> QED  BY <1>1, <1>4, <1>5, <1>6 DEF Finds

\* The same in a queue whose tails are all right.
LEMMA FreshOn ==
    ASSUME NEW nd, NEW pos \in [Threads -> Nat], NEW S \in SUBSET Threads, NEW c \in S, NEW h,
           List(nd, S, pos, h), Fresh(nd, S, pos), nd[c].tail = Null
    PROVE  nd[c].next \in S /\ pos[nd[c].next] + 1 = pos[c]
  BY DEF List, Fresh

\* Setting the backlink of the next node is a change that Keeps allows.
LEMMA LinkKeeps ==
    ASSUME NEW nd, NEW nd2, NEW pos \in [Threads -> Nat], NEW S \in SUBSET Threads, NEW c \in S, NEW h,
           List(nd, S, pos, h), NEW x \in S, pos[x] + 1 = pos[c],
           nd2[x].prev = c, \A n \in S : n # x => nd2[n].prev = nd[n].prev,
           \A n \in S : /\ nd2[n].next = nd[n].next /\ nd2[n].tail = nd[n].tail
                        /\ nd2[n].write = nd[n].write
    PROVE  Keeps(nd2, pos, nd, pos, S)
  <1>1. Prev(nd2, S, pos, x)  BY DEF Prev
  <1>2. nd[x].prev # Null => nd[x].prev = c  BY DEF List, Prev, OneEach
  <1> QED  BY <1>1, <1>2 DEF Keeps

\* ... and the traversal at c can go on to x.
LEMMA LinkedOn ==
    ASSUME NEW nd, NEW nd2, NEW pos \in [Threads -> Nat], NEW S \in SUBSET Threads, NEW c \in S, 
           NEW h \in S, OneEach(S, pos), Keeps(nd2, pos, nd, pos, S), Linked(nd, S, pos, c, h),
           NEW x \in S, pos[x] + 1 = pos[c], nd2[x].prev = c
    PROVE  Linked(nd2, S, pos, x, h)
  <1> SUFFICES ASSUME NEW n \in S, pos[x] <= pos[n], pos[n] < pos[h] PROVE nd2[n].prev # Null
    BY DEF Linked
  <1>1. CASE pos[n] = pos[x]  BY <1>1, RwAssumption DEF OneEach
  <1>2. CASE pos[n] # pos[x]
    <2>1. pos[c] <= pos[n]  BY <1>2
    <2>2. nd[n].prev # Null  BY <2>1 DEF Linked
    <2> QED  BY <2>2, RwAssumption DEF Keeps
  <1> QED  BY <1>1, <1>2

\* Below a node with a tail everything is linked.
LEMMA LinkedBelow ==
    ASSUME NEW nd, NEW pos \in [Threads -> Nat], NEW S \in SUBSET Threads, NEW c \in S, NEW h \in S,
           NEW k,
           List(nd, S, pos, k), nd[c].tail # Null, Linked(nd, S, pos, c, h)
    PROVE  \A n \in S : pos[n] < pos[h] => nd[n].prev # Null
  BY DEF List, Linked

\* nd2 and pos2 are a list with t put before the head h.
Pushes(nd2, pos2, nd, pos, S, h, t) ==
    /\ pos2[t] = pos[h] + 1 /\ nd2[t].next = h /\ nd2[t].prev = Null /\ nd2[t].tail = Null
    /\ \A n \in S : pos2[n] = pos[n] /\ nd2[n] = nd[n]

\* A node put before the head makes a list again, whose end is as before.
LEMMA PushList ==
    ASSUME NEW nd, NEW nd2, NEW pos \in [Threads -> Nat], NEW pos2 \in [Threads -> Nat],
           NEW S \in SUBSET Threads, NEW h, List(nd, S, pos, h), NEW t \in Threads, t \notin S,
           Pushes(nd2, pos2, nd, pos, S, h, t)
    PROVE  /\ List(nd2, S \cup {t}, pos2, t)
           /\ \A n \in S : Low(S, pos, n) <=> Low(S \cup {t}, pos2, n)
           /\ \A n : Low(S, pos, n) => Low(S \cup {t}, pos2, n)
           /\ ~Low(S \cup {t}, pos2, t)
  <1>1. h \in S /\ \A n \in S : pos[n] <= pos[h]  BY DEF List, High
  <1>2. \A n \in S : pos2[n] = pos[n] /\ pos2[n] < pos2[t] BY <1>1 DEF Pushes
  <1>3. High(S \cup {t}, pos2, t)  BY <1>2 DEF High
  <1>4. OneEach(S \cup {t}, pos2)  BY <1>2 DEF List, OneEach
  <1>5. \A n \in S : Low(S, pos, n) <=> Low(S \cup {t}, pos2, n)  BY <1>2 DEF Low
  <1>6. \A n : Low(S, pos, n) => Low(S \cup {t}, pos2, n)  BY <1>5 DEF Low
  <1>7. ~Low(S \cup {t}, pos2, t)  BY <1>1, <1>2 DEF Low
  <1>8. \A n \in S \cup {t} : \/ Low(S \cup {t}, pos2, n)
                              \/ nd2[n].next \in S \cup {t} /\ pos2[nd2[n].next] + 1 = pos2[n]
    BY <1>1, <1>2, <1>5, ZenonT(30) DEF List, Pushes
  <1>9. \A n \in S \cup {t} : nd2[n].prev = Null \/ Prev(nd2, S \cup {t}, pos2, n)
    BY <1>2 DEF List, Pushes, Prev
  <1>10. \A n, m \in S \cup {t} : nd2[n].tail # Null /\ pos2[m] < pos2[n] => nd2[m].prev # Null
    <2> SUFFICES ASSUME NEW n \in S \cup {t}, NEW m \in S \cup {t}, nd2[n].tail # Null,
                        pos2[m] < pos2[n]
                 PROVE  nd2[m].prev # Null
      OBVIOUS
    <2>1. n \in S /\ m \in S  BY <1>2 DEF Pushes
    <2> QED  BY <2>1, <1>2 DEF Pushes, List
  <1> QED  BY <1>3, <1>4, <1>5, <1>6, <1>7, <1>8, <1>9, <1>10 DEF List

\* ... and leaves the tails, and every traversal below it, as they were.
LEMMA PushTails ==
    ASSUME NEW nd, NEW nd2, NEW pos \in [Threads -> Nat], NEW pos2 \in [Threads -> Nat],
           NEW S \in SUBSET Threads, NEW h, List(nd, S, pos, h), NEW t \in Threads, t \notin S,
           Pushes(nd2, pos2, nd, pos, S, h, t)
    PROVE  /\ \A n \in S : Bare(nd, S, pos, n) => Bare(nd2, S \cup {t}, pos2, n)
           /\ SomeTail(nd, S, pos) => SomeTail(nd2, S \cup {t}, pos2)
           /\ RightTail(nd, S, pos) => RightTail(nd2, S \cup {t}, pos2)
           /\ \A c \in S : Finds(nd, S, pos, c) => Finds(nd2, S \cup {t}, pos2, c)
           /\ Fresh(nd, S, pos) => Fresh(nd2, S \cup {t}, pos2)
           /\ \A m : Traversing(m, nd, S, pos) => Traversing(m, nd2, S \cup {t}, pos2)
           /\ Dense(S, pos) => Dense(S \cup {t}, pos2)
  <1>0. h \in S /\ \A n \in S : pos[n] <= pos[h]  BY DEF List, High
  <1>1. \A n \in S : pos2[n] = pos[n] /\ pos2[n] < pos2[t] /\ nd2[n] = nd[n]
    BY <1>0 DEF Pushes
  <1>2. /\ \A n \in S : Low(S, pos, n) <=> Low(S \cup {t}, pos2, n)
        /\ \A n : Low(S, pos, n) => Low(S \cup {t}, pos2, n)
        /\ ~Low(S \cup {t}, pos2, t)
    BY PushList, ZenonT(30)
  <1>3. nd2[t].tail = Null  BY DEF Pushes
  <1>4. \A n \in S : Bare(nd, S, pos, n) => Bare(nd2, S \cup {t}, pos2, n)  BY <1>1, <1>3 DEF Bare
  <1>5. SomeTail(nd, S, pos) => SomeTail(nd2, S \cup {t}, pos2)  BY <1>1, <1>4 DEF SomeTail
  <1>6. RightTail(nd, S, pos) => RightTail(nd2, S \cup {t}, pos2)  BY <1>1, <1>2, <1>4 DEF RightTail
  <1>7. \A c \in S : Finds(nd, S, pos, c) => Finds(nd2, S \cup {t}, pos2, c)
    <2> SUFFICES ASSUME NEW c \in S, Finds(nd, S, pos, c) PROVE Finds(nd2, S \cup {t}, pos2, c)
      OBVIOUS
    <2>1. PICK n \in S :
          /\ pos[n] <= pos[c] /\ Low(S, pos, nd[n].tail)
          /\ \A m \in S : pos[n] < pos[m] /\ pos[m] <= pos[c] => nd[m].tail = Null
      BY DEF Finds
    <2>2. pos2[n] <= pos2[c] /\ Low(S \cup {t}, pos2, nd2[n].tail)  BY <2>1, <1>1, <1>2
    <2>3. \A m \in S \cup {t} : pos2[n] < pos2[m] /\ pos2[m] <= pos2[c] => nd2[m].tail = Null
      BY <2>1, <1>1, <1>3
    <2> QED  BY <2>2, <2>3 DEF Finds
  <1>8. Fresh(nd, S, pos) => Fresh(nd2, S \cup {t}, pos2)  BY <1>1, <1>2, <1>3 DEF Fresh
  <1>9. \A m : Traversing(m, nd, S, pos) => Traversing(m, nd2, S \cup {t}, pos2)
    <2>1. \A c, k \in S : Linked(nd, S, pos, c, k) => Linked(nd2, S \cup {t}, pos2, c, k)
      BY <1>1 DEF Linked
    <2> QED  BY <2>1, <1>1, <1>2 DEF Traversing, Low
  <1>10. Dense(S, pos) => Dense(S \cup {t}, pos2)
    <2> SUFFICES ASSUME Dense(S, pos), NEW n \in S \cup {t}, NEW i \in Nat, i <= pos2[n],
                        NEW m \in S \cup {t}, pos2[m] <= i
                 PROVE  \E k \in S \cup {t} : pos2[k] = i
      BY DEF Dense
    <2>1. CASE i = pos2[t]  BY <2>1
    <2>2. CASE i # pos2[t]
      <3>1. i <= pos2[t]  BY <1>1
      <3>2. i <= pos[h]  BY <3>1, <2>2, <1>0 DEF Pushes
      <3>3. m \in S  BY <3>1, <2>2
      <3>4. \E k \in S : pos[k] = i  BY <3>2, <3>3, <1>0, <1>1 DEF Dense
      <3> QED  BY <3>4, <1>1
    <2> QED  BY <2>1, <2>2
  <1> QED  BY <1>4, <1>5, <1>6, <1>7, <1>8, <1>9, <1>10

\* ... and leaves what unlock_queue and read_unlock_contended rely on.
LEMMA PushHolder ==
    ASSUME NEW nd, NEW nd2, NEW pos \in [Threads -> Nat], NEW pos2 \in [Threads -> Nat],
           NEW S \in SUBSET Threads, NEW h, List(nd, S, pos, h), NEW t \in Threads, t \notin S,
           Pushes(nd2, pos2, nd, pos, S, h, t), NEW m
    PROVE  /\ HolderOK(m, nd, S, pos) => HolderOK(m, nd2, S \cup {t}, pos2)
           /\ LeavingOK(m, nd, S, pos) => LeavingOK(m, nd2, S \cup {t}, pos2)
  <1>1. \A n \in S : pos2[n] = pos[n] /\ nd2[n] = nd[n]  BY DEF Pushes
  <1>2. /\ \A n \in S : Low(S, pos, n) <=> Low(S \cup {t}, pos2, n)
        /\ \A n : Low(S, pos, n) => Low(S \cup {t}, pos2, n)
    BY PushList, ZenonT(30)
  <1>3. /\ \A n \in S : Bare(nd, S, pos, n) => Bare(nd2, S \cup {t}, pos2, n)
        /\ \A c \in S : Finds(nd, S, pos, c) => Finds(nd2, S \cup {t}, pos2, c)
        /\ Traversing(m, nd, S, pos) => Traversing(m, nd2, S \cup {t}, pos2)
    BY PushTails
  <1>4. LeavingOK(m, nd, S, pos) => LeavingOK(m, nd2, S \cup {t}, pos2)  BY <1>2, <1>3 DEF LeavingOK
  <1>5. ASSUME HolderOK(m, nd, S, pos) PROVE HolderOK(m, nd2, S \cup {t}, pos2)
    <2>1. Traversing(m, nd, S, pos) /\ m.st.ptr \in S  BY <1>5 DEF HolderOK, Traversing
    <2>2. m.pc = "walk" => Finds(nd2, S \cup {t}, pos2, m.cur)
      BY <1>5, <1>3 DEF HolderOK, Traversing
    <2>3. m.pc \in {"unlock_queue", "split", "undo"} => m.tl \in S /\ Low(S \cup {t}, pos2, m.tl)
      BY <1>5, <1>2 DEF HolderOK, Low
    <2>4. m.pc = "unlock_queue" => nd2[m.st.ptr].tail = m.tl  BY <1>5, <1>1, <2>1 DEF HolderOK
    <2>5. m.pc = "split" =>
          /\ nd2[m.tl].prev \in S \cup {t} /\ nd2[m.st.ptr].tail = nd2[m.tl].prev
          /\ "DOWNGRADED" \notin m.st.bits /\ "LOCKED" \notin m.st.bits /\ nd2[m.tl].write
      BY <1>5, <1>1, <2>1, <2>3 DEF HolderOK
    <2>6. m.pc = "undo" =>
          /\ m.cur \in S \cup {t} /\ pos2[m.cur] <= pos2[m.st.ptr]
          /\ Bare(nd2, S \cup {t}, pos2, m.cur)
          /\ nd2[m.cur].tail \in S \cup {t} /\ ~Low(S \cup {t}, pos2, nd2[m.cur].tail)
      BY <1>5, <1>1, <1>2, <1>3, <2>1 DEF HolderOK
    <2>7. "LOCKED" \notin m.st.bits /\ m.pc # "undo" => Bare(nd2, S \cup {t}, pos2, m.st.ptr)
      BY <1>5, <1>3, <2>1 DEF HolderOK
    <2> QED  BY <2>1, <2>2, <2>3, <2>4, <2>5, <2>6, <2>7, <1>3 DEF HolderOK
  <1> QED  BY <1>4, <1>5

\* A single node whose tail it is itself is a list.
LEMMA SingleList ==
    ASSUME NEW nd, NEW pos \in [Threads -> Nat], NEW t \in Threads, nd[t].prev = Null, nd[t].tail = t
    PROVE  /\ List(nd, {t}, pos, t) /\ Low({t}, pos, t) /\ Dense({t}, pos)
           /\ SomeTail(nd, {t}, pos) /\ RightTail(nd, {t}, pos) /\ Fresh(nd, {t}, pos)
  <1>1. Low({t}, pos, t) /\ High({t}, pos, t) /\ OneEach({t}, pos)  BY DEF Low, High, OneEach
  <1>2. List(nd, {t}, pos, t)  BY <1>1 DEF List
  <1>3. Bare(nd, {t}, pos, t)  BY DEF Bare
  <1>4. SomeTail(nd, {t}, pos) /\ RightTail(nd, {t}, pos)  BY <1>1, <1>3 DEF SomeTail, RightTail
  <1>5. Fresh(nd, {t}, pos)  BY <1>1, RwAssumption DEF Fresh
  <1>6. Dense({t}, pos)  BY DEF Dense
  <1> QED  BY <1>1, <1>2, <1>4, <1>5, <1>6

\* A list without its last node is a list, and the node before that is its end.
LEMMA CutList ==
    ASSUME NEW nd, NEW pos \in [Threads -> Nat], NEW S \in SUBSET Threads, NEW h, List(nd, S, pos, h),
           NEW z, Low(S, pos, z), nd[z].prev # Null, Dense(S, pos)
    PROVE  /\ List(nd, S \ {z}, pos, h) /\ Dense(S \ {z}, pos)
           /\ Low(S \ {z}, pos, nd[z].prev) /\ h # z
  <1>1. Prev(nd, S, pos, z) /\ z \in S  BY DEF List, Low
  <1>2. nd[z].prev \in S \ {z} /\ pos[nd[z].prev] = pos[z] + 1  BY <1>1 DEF Prev
  <1>3. \A n \in S : n # z => pos[z] < pos[n]  BY DEF List, Low, OneEach
  <1>4. Low(S \ {z}, pos, nd[z].prev)  BY <1>2, <1>3 DEF Low
  <1>5. h # z  BY <1>2 DEF List, High
  <1>6. High(S \ {z}, pos, h) /\ OneEach(S \ {z}, pos)  BY <1>5 DEF List, High, OneEach
  <1>7. ASSUME NEW n \in S \ {z}
        PROVE  \/ Low(S \ {z}, pos, n)
               \/ nd[n].next \in S \ {z} /\ pos[nd[n].next] + 1 = pos[n]
    <2>1. ~Low(S, pos, n)  BY <1>1, <1>3 DEF Low
    <2>2. nd[n].next \in S /\ pos[nd[n].next] + 1 = pos[n]  BY <2>1 DEF List
    <2>3. CASE nd[n].next = z
      <3>1. n = nd[z].prev  BY <2>2, <2>3, <1>2 DEF List, OneEach
      <3> QED  BY <3>1, <1>4
    <2> QED  BY <2>2, <2>3
  <1>8. \A n \in S \ {z} : nd[n].prev = Null \/ Prev(nd, S \ {z}, pos, n)
    BY <1>3 DEF List, Prev
  <1>9. \A n, m \in S \ {z} : nd[n].tail # Null /\ pos[m] < pos[n] => nd[m].prev # Null  BY DEF List
  <1>10. List(nd, S \ {z}, pos, h)  BY <1>6, <1>7, <1>8, <1>9 DEF List
  <1>11. Dense(S \ {z}, pos)
    <2> SUFFICES ASSUME NEW n \in S \ {z}, NEW i \in Nat, i <= pos[n],
                        NEW m \in S \ {z}, pos[m] <= i
                 PROVE  \E k \in S \ {z} : pos[k] = i
      BY DEF Dense
    <2>1. PICK k \in S : pos[k] = i  BY DEF Dense
    <2>2. k # z  BY <2>1, <1>3, <1>1
    <2> QED  BY <2>1, <2>2
  <1> QED  BY <1>4, <1>5, <1>10, <1>11

\* A list with a tail in its head is linked all the way.
LEMMA BackwardList ==
    ASSUME NEW nd, NEW pos \in [Threads -> Nat], NEW S \in SUBSET Threads, NEW h, List(nd, S, pos, h),
           NEW z, Low(S, pos, z), \A n \in S : pos[n] < pos[h] => nd[n].prev # Null
    PROVE  Backward(nd, S, pos, z)
  <1>1. OneEach(S, pos) /\ High(S, pos, h)  BY DEF List
  <1>2. ASSUME NEW n \in S PROVE (nd[n].prev = Null /\ High(S, pos, n)) \/ Prev(nd, S, pos, n)
    <2>1. CASE nd[n].prev # Null  BY <2>1 DEF List
    <2>2. CASE nd[n].prev = Null
      <3>1. n = h  BY <2>2, <1>1 DEF High, OneEach
      <3> QED  BY <3>1, <2>2, <1>1
    <2> QED  BY <2>1, <2>2
  <1> QED  BY <1>1, <1>2 DEF Backward

\* complete_all goes from one node to the one before it.
LEMMA BackwardOn ==
    ASSUME NEW nd, NEW pos \in [Threads -> Nat], NEW S \in SUBSET Threads, NEW z, Backward(nd, S, pos, z)
    PROVE  IF nd[z].prev = Null THEN S \ {z} = {} ELSE Backward(nd, S \ {z}, pos, nd[z].prev)
  <1>1. z \in S /\ \A n \in S : n # z => pos[z] < pos[n]  BY DEF Backward, Low, OneEach
  <1>2. CASE nd[z].prev = Null
    <2>1. High(S, pos, z) BY <1>1, <1>2, RwAssumption DEF Backward, Prev
    <2>2. \A n \in S : n = z  BY <2>1, <1>1 DEF High
    <2> QED  BY <1>2, <2>2
  <1>3. CASE nd[z].prev # Null
    <2>1. nd[z].prev \in S \ {z} /\ pos[nd[z].prev] = pos[z] + 1  BY <1>1, <1>3 DEF Backward, Prev
    <2>2. Low(S \ {z}, pos, nd[z].prev) /\ OneEach(S \ {z}, pos)
      BY <2>1, <1>1 DEF Low, Backward, OneEach
    <2>3. \A n \in S \ {z} : (nd[n].prev = Null /\ High(S \ {z}, pos, n)) \/ Prev(nd, S \ {z}, pos, n)
      BY <1>1 DEF Backward, Prev, High
    <2> QED  BY <1>3, <2>2, <2>3 DEF Backward
  <1> QED  BY <1>2, <1>3

-----------------------------------------------------------------------------
(* Counting readers *)

\* The values f and f2 differ for t only.
Others(f2, f, t) == \A u \in Threads : u # t => f2[u] = f[u]

\* There are no more readers than threads.
LEMMA CountRange ==
    ASSUME NEW mm
    PROVE  /\ IsFiniteSet(Counted(mm)) /\ Cardinality(Counted(mm)) \in 0..Cardinality(Threads)
           /\ Cardinality(Counted(mm)) = 0 <=> Counted(mm) = {}
           /\ Cardinality(Threads) \in Nat /\ Cardinality({}) = 0
  <1>1. Counted(mm) \in SUBSET Threads  BY DEF Counted
  <1>2. IsFiniteSet(Counted(mm)) /\ Cardinality(Counted(mm)) <= Cardinality(Threads)
    BY <1>1, FS_Subset, RwAssumption
  <1>3. Cardinality(Threads) \in Nat  BY FS_CardinalityType, RwAssumption
  <1>4. Cardinality(Counted(mm)) \in Nat  BY <1>2, FS_CardinalityType
  <1>5. Cardinality(Counted(mm)) = 0 <=> Counted(mm) = {}  BY <1>2, FS_EmptySet
  <1> QED  BY <1>2, <1>3, <1>4, <1>5, FS_EmptySet

\* A step of t that keeps t counted, or uncounted, leaves the counted readers.
LEMMA CountSame ==
    ASSUME NEW mm, NEW mm2, NEW t \in Threads, Others(mm2, mm, t),
           t \in Counted(mm2) <=> t \in Counted(mm)
    PROVE  Counted(mm2) = Counted(mm)
  BY DEF Others, Counted

\* A reader that enters is one more.
LEMMA CountUp ==
    ASSUME NEW mm, NEW mm2, NEW t \in Threads, Others(mm2, mm, t),
           t \in Counted(mm2), t \notin Counted(mm)
    PROVE  Cardinality(Counted(mm2)) = Cardinality(Counted(mm)) + 1
  <1>1. Counted(mm2) = Counted(mm) \cup {t}  BY DEF Others, Counted
  <1>2. IsFiniteSet(Counted(mm))  BY CountRange
  <1> QED  BY <1>1, <1>2, FS_AddElement

\* A reader that counts itself out is one less.
LEMMA CountDown ==
    ASSUME NEW mm, NEW mm2, NEW t \in Threads, Others(mm2, mm, t),
           t \notin Counted(mm2), t \in Counted(mm)
    PROVE  Cardinality(Counted(mm2)) = Cardinality(Counted(mm)) - 1
  <1>1. Counted(mm2) = Counted(mm) \ {t}  BY DEF Others, Counted
  <1>2. IsFiniteSet(Counted(mm))  BY CountRange
  <1> QED  BY <1>1, <1>2, FS_RemoveElement

\* Nobody is counted where nobody, or only t, has the lock and t is not counted.
LEMMA CountNone ==
    ASSUME NEW mm, NEW t \in Threads, Alone(mm, t), t \notin Counted(mm)
    PROVE  Counted(mm) = {} /\ Cardinality(Counted(mm)) = 0
  <1>1. Counted(mm) = {}  BY DEF Alone, Counted
  <1> QED  BY <1>1, FS_EmptySet

\* Who is alone inside and counted is the only one counted.
LEMMA CountOne ==
    ASSUME NEW mm, NEW t \in Threads, Alone(mm, t), t \in Counted(mm)
    PROVE  Counted(mm) = {t} /\ Cardinality(Counted(mm)) = 1
  <1>1. Counted(mm) = {t}  BY DEF Alone, Counted
  <1> QED  BY <1>1, FS_Singleton

\* If one reader is counted, it is the only one.
LEMMA CountedOnly ==
    ASSUME NEW mm, NEW t \in Threads, t \in Counted(mm), Cardinality(Counted(mm)) = 1
    PROVE  Counted(mm) = {t}
  <1>1. IsFiniteSet(Counted(mm))  BY CountRange
  <1>2. \E x : Counted(mm) = {x}  BY <1>1, FS_Singleton
  <1> QED  BY <1>2

-----------------------------------------------------------------------------
(* Steps that leave the queue and its nodes alone *)

\* Nodes that do not change are kept.
LEMMA KeepSame ==
    ASSUME NEW nd, NEW nd2, NEW pos, NEW S, \A n \in S : nd2[n] = nd[n]
    PROVE  Keeps(nd2, pos, nd, pos, S)
  BY DEF Keeps

\* Exactly one thread is in unlock_queue while the queue is locked.
HolderBit(w, mm) ==
    /\ "QUEUE_LOCKED" \in w.bits <=> \E t \in Threads : Holder(mm[t])
    /\ \A t, u \in Threads : Holder(mm[t]) /\ Holder(mm[u]) => t = u

SameWaits(mm2, nd2, mm, nd) == \A n \in Threads :
    /\ Waits(mm2[n], nd2[n]) <=> Waits(mm[n], nd[n])
    /\ Waits(mm[n], nd[n]) => (nd2[n].write <=> nd[n].write) /\ mm2[n].want = mm[n].want

\* WaitInv depends only on who waits, and for what.
LEMMA SameWaitInv ==
    ASSUME NEW nd, NEW nd2, NEW mm, NEW mm2, NEW Q, NEW wk, WaitInv(nd, mm, Q, wk),
           SameWaits(mm2, nd2, mm, nd)
    PROVE  WaitInv(nd2, mm2, Q, wk)
  BY DEF WaitInv, SameWaits

\* Who has a part to play in the queue, with the locals m and the nodes S taken out.
RoleOK(m, nd, Q, S, pos) ==
    /\ Holder(m) => HolderOK(m, nd, Q, pos)
    /\ Leaving(m) => LeavingOK(m, nd, Q, pos)
    /\ TakenOK(m, nd, S, pos)

\* A step of t that leaves the queue as it is but for backlinks, takes no node from
\* another thread, and after which t may go on.
LEMMA StepByOne ==
    ASSUME NEW w, NEW w2, NEW nd, NEW nd2, NEW mm, NEW mm2, NEW Q \in SUBSET Threads,
           NEW wk, NEW wk2, NEW pos \in [Threads -> Nat],
           ShapeInv(w, nd, mm, Q, wk, pos), NEW t \in Threads, Others(mm2, mm, t),
           Keeps(nd2, pos, nd, pos, Q),
           \A u \in Threads : u # t => /\ Taken(wk2, u) = Taken(wk, u)
                                       /\ Keeps(nd2, pos, nd, pos, Taken(wk, u)),
           w2.ptr = w.ptr, "QUEUED" \in w2.bits <=> "QUEUED" \in w.bits, HolderBit(w2, mm2),
           Splitting(mm[t]) => Splitting(mm2[t]) \/ RightTail(nd2, Q, pos),
           WaitInv(nd2, mm2, Q, wk2), RoleOK(mm2[t], nd2, Q, Taken(wk2, t), pos),
           ReadLocked(w2, mm2) => ReadLocked(w, mm),
           ReadLocked(w2, mm2) /\ Holder(mm2[t]) =>
                "LOCKED" \in mm2[t].st.bits /\ ~Splitting(mm2[t])
    PROVE  ShapeInv(w2, nd2, mm2, Q, wk2, pos)
  <1>0. \A u \in Threads : Taken(wk, u) \in SUBSET Threads  BY DEF Taken
  <1>1. ListInv(w, nd, mm, Q, pos) /\ HolderInv(w, nd, mm, Q, pos) /\ LeavingInv(nd, mm, Q, pos)
        /\ FreshInv(w, nd, mm, Q, pos) /\ TakenInv(nd, mm, wk, pos)
    BY DEF ShapeInv
  <1>2. /\ SomeTail(nd, Q, pos) => SomeTail(nd2, Q, pos)
        /\ RightTail(nd, Q, pos) => RightTail(nd2, Q, pos)
        /\ Fresh(nd, Q, pos) => Fresh(nd2, Q, pos)
        /\ List(nd, Q, pos, w.ptr) => List(nd2, Q, pos, w.ptr)
    BY KeepTails, KeepList
  <1>3. ListInv(w2, nd2, mm2, Q, pos)
    <2>1. "QUEUED" \in w.bits /\ (\A u \in Threads : ~Splitting(mm2[u])) => RightTail(nd2, Q, pos)
      BY <1>1, <1>2 DEF ListInv, Others
    <2> QED  BY <2>1, <1>1, <1>2 DEF ListInv
  <1>4. HolderInv(w2, nd2, mm2, Q, pos)
    <2>1. \A u \in Threads : Holder(mm2[u]) => HolderOK(mm2[u], nd2, Q, pos)
      BY <1>1, KeepHolder DEF HolderInv, Others, RoleOK
    <2> QED  BY <2>1 DEF HolderInv, HolderBit
  <1>5. LeavingInv(nd2, mm2, Q, pos)  BY <1>1, KeepLeaving DEF LeavingInv, Others, RoleOK
  <1>6. FreshInv(w2, nd2, mm2, Q, pos)  BY <1>1, <1>2 DEF FreshInv, Others
  <1>7. TakenInv(nd2, mm2, wk2, pos)  BY <1>0, <1>1, KeepTaken DEF TakenInv, Others, RoleOK
  <1> QED  BY <1>3, <1>4, <1>5, <1>6, <1>7 DEF ShapeInv

\* The same where nobody begins or ceases to wait.
LEMMA KeepStep ==
    ASSUME NEW w, NEW w2, NEW nd, NEW nd2, NEW mm, NEW mm2, NEW Q \in SUBSET Threads,
           NEW wk \in [Threads -> Ptr], NEW pos \in [Threads -> Nat],
           ShapeInv(w, nd, mm, Q, wk, pos), NEW t \in Threads, Others(mm2, mm, t),
           Keeps(nd2, pos, nd, pos, Q),
           \A u \in Threads : u # t => Keeps(nd2, pos, nd, pos, Taken(wk, u)),
           w2.ptr = w.ptr, "QUEUED" \in w2.bits <=> "QUEUED" \in w.bits, HolderBit(w2, mm2),
           Splitting(mm[t]) => Splitting(mm2[t]) \/ RightTail(nd2, Q, pos),
           SameWaits(mm2, nd2, mm, nd), RoleOK(mm2[t], nd2, Q, Taken(wk, t), pos),
           ReadLocked(w2, mm2) => ReadLocked(w, mm),
           ReadLocked(w2, mm2) /\ Holder(mm2[t]) =>
                "LOCKED" \in mm2[t].st.bits /\ ~Splitting(mm2[t])
    PROVE  ShapeInv(w2, nd2, mm2, Q, wk, pos)
  <1>1. WaitInv(nd2, mm2, Q, wk)  BY SameWaitInv DEF ShapeInv
  <1> QED  BY <1>1, StepByOne

\* A thread that is outside the queue, or waits in it.
Plain(m) == m.pc \in {"idle", "try", "load", "contend", "wait", "parked",
                      "unlock_contended", "downgrade_slow"}

\* A thread that is neither in the queue nor waking anybody has nothing to rely on.
LEMMA PlainRole ==
    ASSUME NEW m, Plain(m)
    PROVE  /\ ~Holder(m) /\ ~Leaving(m) /\ ~Grabbing(m) /\ ~Waking(m) /\ ~Splitting(m)
           /\ \A nd, Q, pos : RoleOK(m, nd, Q, {}, pos)
  <1>1. ~Holder(m) /\ ~Leaving(m) /\ ~Grabbing(m) /\ ~Waking(m) /\ ~Splitting(m)
    BY DEF Plain, Holder, Leaving, Grabbing, Waking, Splitting
  <1>2. m.pc \notin {"complete", "complete_one", "unpark"}  BY DEF Plain
  <1> QED  BY <1>1, <1>2 DEF RoleOK, TakenOK

\* Every node in a list belongs to a thread that waits.
LEMMA ListedWaits ==
    ASSUME NEW nd, NEW mm, NEW Q \in SUBSET Threads, NEW wk \in [Threads -> Ptr], WaitInv(nd, mm, Q, wk)
    PROVE  /\ \A n \in Q : Waits(mm[n], nd[n])
           /\ \A u \in Threads : \A n \in Taken(wk, u) : n \in Threads \ Q /\ Waits(mm[n], nd[n])
  BY RwAssumption DEF WaitInv, Taken

\* A step of a thread outside the queue.
LEMMA PlainStep ==
    ASSUME NEW w, NEW w2, NEW nd, NEW nd2, NEW mm, NEW mm2, NEW Q \in SUBSET Threads,
           NEW wk \in [Threads -> Ptr], NEW pos \in [Threads -> Nat],
           ShapeInv(w, nd, mm, Q, wk, pos), NEW t \in Threads, Others(mm2, mm, t), Others(nd2, nd, t),
           Plain(mm[t]), Plain(mm2[t]),
           w2.ptr = w.ptr, "QUEUED" \in w2.bits <=> "QUEUED" \in w.bits,
           "QUEUE_LOCKED" \in w2.bits <=> "QUEUE_LOCKED" \in w.bits,
           Waits(mm2[t], nd2[t]) <=> Waits(mm[t], nd[t]),
           Waits(mm[t], nd[t]) => nd2[t] = nd[t] /\ mm2[t].want = mm[t].want,
           ReadLocked(w2, mm2) => ReadLocked(w, mm)
    PROVE  ShapeInv(w2, nd2, mm2, Q, wk, pos)
  <1>1. WaitInv(nd, mm, Q, wk) /\ TakenInv(nd, mm, wk, pos) /\ HolderInv(w, nd, mm, Q, pos)
    BY DEF ShapeInv
  <1>2. /\ \A n \in Q : Waits(mm[n], nd[n])
        /\ \A u \in Threads : \A n \in Taken(wk, u) : n \in Threads /\ Waits(mm[n], nd[n])
    BY <1>1, ListedWaits
  <1>3. \A n \in Threads : Waits(mm[n], nd[n]) => nd2[n] = nd[n]  BY DEF Others
  <1>4. Keeps(nd2, pos, nd, pos, Q)  BY <1>2, <1>3, KeepSame
  <1>5. \A u \in Threads : Keeps(nd2, pos, nd, pos, Taken(wk, u))  BY <1>2, <1>3, KeepSame
  <1>6. SameWaits(mm2, nd2, mm, nd)  BY DEF SameWaits, Others
  <1>7. /\ ~Holder(mm[t]) /\ ~Splitting(mm[t]) /\ ~Holder(mm2[t])
        /\ ~Waking(mm[t]) /\ ~Grabbing(mm[t])
    BY PlainRole
  <1>8. Taken(wk, t) = {}  BY <1>1, <1>7 DEF TakenInv, TakenOK
  <1>9. RoleOK(mm2[t], nd2, Q, Taken(wk, t), pos)  BY <1>8, PlainRole
  <1>10. HolderBit(w2, mm2)  BY <1>1, <1>7 DEF HolderInv, HolderBit, Others
  <1> QED  BY <1>4, <1>5, <1>6, <1>7, <1>9, <1>10, KeepStep

-----------------------------------------------------------------------------
(* Steps that change neither the word nor who holds the lock *)

\* What Go does to the locals.
LEMMA GoFacts ==
    ASSUME my \in [Threads -> Locals], NEW t \in Threads, NEW r, Go(t, r)
    PROVE  my'[t] = r /\ Others(my', my, t) /\ (r \in Locals => my' \in [Threads -> Locals])
  BY DEF Go, Others

\* A node that goes out of scope, or is to be prepared anew.
LEMMA NodeFacts ==
    ASSUME node \in [Threads -> Nodes], NEW t \in Threads, node' = [node EXCEPT ![t] = NoNode]
    PROVE  node'[t] = NoNode /\ Others(node', node, t) /\ node' \in [Threads -> Nodes]
  <1>1. NoNode \in Nodes  BY CountRange DEF NoNode, Nodes, Ptr
  <1> QED  BY <1>1 DEF Others

\* What does not change is the same for the others.
LEMMA OthersSame ==
    ASSUME NEW f, NEW t PROVE Others(f, f, t)
  BY DEF Others

\* A step changes the call of its own thread only.
LEMMA CallStep ==
    ASSUME NEW mm, NEW mm2, NEW t \in Threads, CallInv(mm), Others(mm2, mm, t), CallOK(mm2[t])
    PROVE  CallInv(mm2)
  BY DEF CallInv, Others

\* Who holds the lock, and whether it is queued and downgraded, is as before.
LEMMA LockKeep ==
    ASSUME NEW w, NEW w2, NEW mm, NEW mm2, NEW t \in Threads, LockInv(w, mm), Others(mm2, mm, t),
           mm2[t].held = mm[t].held, t \in Counted(mm2) <=> t \in Counted(mm),
           \A b \in {"QUEUED", "LOCKED", "DOWNGRADED"} : b \in w2.bits <=> b \in w.bits,
           "QUEUED" \notin w.bits => w2.count = w.count,
           mm2[t].pc \in {"unlock_contended", "downgrade_slow"} =>
                Contended(w) /\ Contended(mm2[t].st) /\ Alone(mm, t),
           Leaving(mm2[t]) => Contended(w) /\ Contended(mm2[t].st)
    PROVE  LockInv(w2, mm2) /\ Counted(mm2) = Counted(mm)
  <1>1. Counted(mm2) = Counted(mm)  BY CountSame
  <1>2. \A u \in Threads : mm2[u].held = mm[u].held  BY DEF Others
  <1>3. \A u \in Threads : Alone(mm, u) => Alone(mm2, u)  BY <1>2 DEF Alone
  <1>4. Contended(w) => Contended(w2)  BY DEF Contended
  <1>5. "LOCKED" \in w2.bits <=> \E u \in Threads : mm2[u].held # "none"  BY <1>2 DEF LockInv
  <1>6. \A u \in Threads : mm2[u].held = "write" => Alone(mm2, u)  BY <1>2, <1>3 DEF LockInv
  <1>7. \A u \in Threads : mm2[u].pc \in {"unlock_contended", "downgrade_slow"} =>
          Contended(w2) /\ Contended(mm2[u].st) /\ Alone(mm2, u)
    BY <1>3, <1>4 DEF LockInv, Others
  <1>8. "DOWNGRADED" \in w2.bits => \E u \in Threads : mm2[u].held = "read" /\ Alone(mm2, u)
    BY <1>2, <1>3 DEF LockInv
  <1>9. \A u \in Threads : Leaving(mm2[u]) => Contended(w2) /\ Contended(mm2[u].st)
    BY <1>4 DEF LockInv, Others
  <1> QED  BY <1>1, <1>5, <1>6, <1>7, <1>8, <1>9 DEF LockInv

\* A step that changes neither the counted readers nor a count keeps CountInv.
LEMMA CountKeep ==
    ASSUME NEW w, NEW w2, NEW nd, NEW nd2, NEW mm, NEW mm2, NEW Q, NEW pos, CountInv(w, nd, mm, Q, pos),
           Counted(mm2) = Counted(mm), "DOWNGRADED" \in w2.bits <=> "DOWNGRADED" \in w.bits,
           \A n \in Q : nd2[n].count = nd[n].count
    PROVE  CountInv(w2, nd2, mm2, Q, pos)
  BY DEF CountInv

\* A step of t outside the queue that changes only its locals, and its node
\* while that is not registered.
LEMMA QuietStep ==
    ASSUME NEW w, NEW nd, NEW nd2, NEW tk, NEW tk2, NEW mm, NEW mm2, NEW Q, NEW wk, NEW pos,
           Ghosts(Q, wk, pos), RwInv(w, nd, tk, mm, Q, wk, pos), NEW t \in Threads,
           Others(mm2, mm, t), Others(nd2, nd, t), Types(w, nd2, tk2, mm2), CallOK(mm2[t]),
           Plain(mm[t]), Plain(mm2[t]), mm2[t].held = mm[t].held,
           mm2[t].pc = "unlock_contended" => t \notin Counted(mm),
           mm[t].pc = "unlock_contended" => mm2[t].pc = "unlock_contended",
           mm2[t].pc \in {"unlock_contended", "downgrade_slow"} =>
                Contended(w) /\ Contended(mm2[t].st) /\ Alone(mm, t),
           Waits(mm2[t], nd2[t]) <=> Waits(mm[t], nd[t]),
           Waits(mm[t], nd[t]) => nd2[t] = nd[t] /\ mm2[t].want = mm[t].want
    PROVE  RwInv(w, nd2, tk2, mm2, Q, wk, pos)
  <1>1. CallInv(mm) /\ WordInv(w) /\ LockInv(w, mm) /\ CountInv(w, nd, mm, Q, pos)
        /\ ShapeInv(w, nd, mm, Q, wk, pos)
    BY DEF RwInv
  <1>2. t \in Counted(mm2) <=> t \in Counted(mm)  BY DEF Counted
  <1>3. ~Leaving(mm2[t])  BY PlainRole
  <1>4. LockInv(w, mm2) /\ Counted(mm2) = Counted(mm)  BY <1>1, <1>2, <1>3, LockKeep
  <1>5. \A n \in Q : nd2[n].count = nd[n].count
    <2>1. WaitInv(nd, mm, Q, wk)  BY <1>1 DEF ShapeInv
    <2>2. \A n \in Q : Waits(mm[n], nd[n])  BY <2>1, ListedWaits DEF Ghosts
    <2> QED  BY <2>2 DEF Others, Ghosts
  <1>6. CountInv(w, nd2, mm2, Q, pos)  BY <1>1, <1>4, <1>5, CountKeep
  <1>7. ReadLocked(w, mm2) => ReadLocked(w, mm)  BY DEF ReadLocked, Others
  <1>8. ShapeInv(w, nd2, mm2, Q, wk, pos)  BY <1>1, <1>7, PlainStep DEF Ghosts
  <1>9. CallInv(mm2)  BY <1>1, CallStep
  <1> QED  BY <1>1, <1>4, <1>6, <1>8, <1>9 DEF RwInv

\* A call begins.
LEMMA CallStays ==
    ASSUME NEW Q, NEW wk, NEW pos, Ghosts(Q, wk, pos), RwInv(state, node, token, my, Q, wk, pos),
           NEW t \in Threads, NEW c \in Calls[t] \ {"downgrade"}, Call(t, c)
    PROVE  RwInv(state', node', token', my', Q, wk, pos)
  <1>1. Types(state, node, token, my) /\ CallOK(my[t])  BY DEF RwInv, CallInv
  <1>2. /\ my[t].pc = "idle" /\ my[t].held = "none" /\ my[t].want = "none"
        /\ state' = state /\ node' = node /\ token' = token
        /\ Go(t, [my[t] EXCEPT !.pc = "try", !.want = c])
    BY <1>1 DEF Call, At, CallOK
  <1>3. c \in {"read", "write", "try_read", "try_write"}  BY RwAssumption
  <1>4. my[t] \in Locals  BY <1>1 DEF Types
  <1>5. my'[t] = [my[t] EXCEPT !.pc = "try", !.want = c] /\ Others(my', my, t)
    BY <1>1, <1>2, GoFacts DEF Types
  <1>6. /\ my'[t].pc = "try" /\ my'[t].want = c /\ my'[t].held = "none" /\ my'[t].why = my[t].why
        /\ my'[t].st = my[t].st
    BY <1>2, <1>4, <1>5 DEF Locals
  <1>7. my'[t] \in Locals  BY <1>3, <1>4, <1>5 DEF Locals, PCs
  <1>8. Types(state', node', token', my')  BY <1>1, <1>2, <1>5, <1>7, GoFacts DEF Types
  <1>9. CallOK(my'[t])  BY <1>1, <1>2, <1>3, <1>6 DEF CallOK, Holder, Leaving, Grabbing, Waking
  <1>10. Plain(my[t]) /\ Plain(my'[t])  BY <1>2, <1>6 DEF Plain
  <1>11. ~Waits(my[t], node[t]) /\ ~Waits(my'[t], node'[t])  BY <1>2, <1>6 DEF Waits
  <1> QED  BY <1>2, <1>5, <1>6, <1>8, <1>9, <1>10, <1>11, QuietStep, OthersSame

\* The same for a step that leaves the nodes alone.
LEMMA QuietGo ==
    ASSUME NEW Q, NEW wk, NEW pos, Ghosts(Q, wk, pos), RwInv(state, node, token, my, Q, wk, pos),
           NEW t \in Threads, NEW r \in Locals, Go(t, r), state' = state, node' = node,
           token' \subseteq Threads, CallOK(r), Plain(my[t]), Plain(r), r.held = my[t].held,
           r.pc = "unlock_contended" => my[t].pc = "unlock_contended" \/ my[t].held # "read",
           my[t].pc = "unlock_contended" => r.pc = "unlock_contended",
           r.pc \in {"unlock_contended", "downgrade_slow"} =>
                Contended(state) /\ Contended(r.st) /\ Alone(my, t),
           Waits(r, node[t]) <=> Waits(my[t], node[t]), Waits(my[t], node[t]) => r.want = my[t].want
    PROVE  RwInv(state', node', token', my', Q, wk, pos)
  <1>1. Types(state, node, token, my)  BY DEF RwInv
  <1>2. my'[t] = r /\ Others(my', my, t) /\ my' \in [Threads -> Locals]  BY <1>1, GoFacts DEF Types
  <1>3. Types(state, node, token', my')  BY <1>1, <1>2 DEF Types
  <1>4. r.pc = "unlock_contended" => t \notin Counted(my)  BY DEF Counted
  <1> QED  BY <1>2, <1>3, <1>4, QuietStep, OthersSame

\* An exchange of a thread outside the queue that fails.
LEMMA RetryStays ==
    ASSUME NEW Q, NEW wk, NEW pos, Ghosts(Q, wk, pos), RwInv(state, node, token, my, Q, wk, pos),
           NEW t \in Threads, my[t].pc \in {"contend", "unlock_contended", "downgrade_slow"},
           Retry(t, my[t]), node' = node, token' = token
    PROVE  RwInv(state', node', token', my', Q, wk, pos)
  <1> DEFINE r == [my[t] EXCEPT !.st = state]
  <1>1. Types(state, node, token, my) /\ CallOK(my[t]) /\ LockInv(state, my)  BY DEF RwInv, CallInv
  <1>2. state' = state /\ Go(t, r)  BY DEF Retry
  <1>3. my[t] \in Locals /\ state \in Words  BY <1>1 DEF Types
  <1>4. /\ r \in Locals /\ r.pc = my[t].pc /\ r.want = my[t].want /\ r.held = my[t].held
        /\ r.why = my[t].why /\ r.st = state
    BY <1>3 DEF Locals
  <1> HIDE DEF r
  <1>5. r.pc \in {"unlock_contended", "downgrade_slow"} =>
             Contended(state) /\ Contended(r.st) /\ Alone(my, t)
    BY <1>1, <1>4 DEF LockInv
  <1>6. CallOK(r)  BY <1>1, <1>4 DEF CallOK, Holder, Leaving, Grabbing, Waking
  <1>7. Plain(my[t]) /\ Plain(r)  BY <1>4 DEF Plain
  <1>8. Waits(r, node[t]) <=> Waits(my[t], node[t])  BY <1>4 DEF Waits
  <1>9. token' \subseteq Threads  BY <1>1 DEF Types
  <1> QED  BY <1>2, <1>4, <1>5, <1>6, <1>7, <1>8, <1>9, QuietGo

\* A thread outside every call.
LEMMA OutsideFacts ==
    ASSUME NEW h \in {"none", "read", "write"}
    PROVE  /\ Outside(h) \in Locals /\ CallOK(Outside(h)) /\ Plain(Outside(h))
           /\ Outside(h).pc = "idle" /\ Outside(h).held = h /\ Outside(h).want = "none"
           /\ \A n : ~Waits(Outside(h), n)
  <1>1. UNLOCKED \in Words  BY CountRange DEF UNLOCKED, Word, Words, Bits, Ptr
  <1>2. Outside(h) \in Locals  BY <1>1 DEF Outside, Locals, PCs, Ptr
  <1>3. /\ Outside(h).pc = "idle" /\ Outside(h).held = h /\ Outside(h).want = "none"
        /\ Outside(h).why = "none"
    BY DEF Outside
  <1>4. CallOK(Outside(h))  BY <1>3 DEF CallOK, Holder, Leaving, Grabbing, Waking
  <1> QED  BY <1>2, <1>3, <1>4 DEF Plain, Waits

\* A try that fails.
LEMMA TryFails ==
    ASSUME NEW Q, NEW wk, NEW pos, Ghosts(Q, wk, pos), RwInv(state, node, token, my, Q, wk, pos),
           NEW t \in Threads, Try(t), ~MayLock(t, state)
    PROVE  RwInv(state', node', token', my', Q, wk, pos)
  <1>1. Types(state, node, token, my) /\ CallOK(my[t])  BY DEF RwInv, CallInv
  <1>2. /\ my[t].pc = "try" /\ state' = state /\ node' = node /\ token' = token
        /\ IF my[t].want \in {"read", "write"} THEN Goto(t, "load") ELSE Go(t, Outside("none"))
    BY DEF Try, At
  <1>3. my[t] \in Locals /\ token' \subseteq Threads  BY <1>1, <1>2 DEF Types
  <1>4. my[t].held = "none" /\ Plain(my[t]) /\ ~Waits(my[t], node[t])
    BY <1>1, <1>2, <1>3 DEF CallOK, Plain, Waits
  <1>5. CASE my[t].want \in {"read", "write"}
    <2> DEFINE r == [my[t] EXCEPT !.pc = "load"]
    <2>1. Go(t, r)  BY <1>2, <1>5 DEF Goto
    <2>2. /\ r \in Locals /\ r.pc = "load" /\ r.want = my[t].want /\ r.held = my[t].held
          /\ r.why = my[t].why /\ r.st = my[t].st
      BY <1>3 DEF Locals, PCs
    <2> HIDE DEF r
    <2>3. CallOK(r)  BY <1>1, <1>2, <1>5, <2>2 DEF CallOK, Holder, Leaving, Grabbing, Waking
    <2>4. Plain(r) /\ ~Waits(r, node[t])  BY <2>2 DEF Plain, Waits
    <2> QED  BY <1>2, <1>3, <1>4, <2>1, <2>2, <2>3, <2>4, QuietGo
  <1>6. CASE my[t].want \notin {"read", "write"}
    <2>1. Go(t, Outside("none"))  BY <1>2, <1>6
    <2> QED  BY <1>2, <1>3, <1>4, <2>1, OutsideFacts, QuietGo
  <1> QED  BY <1>5, <1>6

\* lock_contended loads the word, or spins.
LEMMA LoadStays ==
    ASSUME NEW Q, NEW wk, NEW pos, Ghosts(Q, wk, pos), RwInv(state, node, token, my, Q, wk, pos),
           NEW t \in Threads, Load(t) \/ Spin(t)
    PROVE  RwInv(state', node', token', my', Q, wk, pos)
  <1> DEFINE r1 == [my[t] EXCEPT !.pc = "contend", !.st = state, !.spins = 0]
  <1> DEFINE r2 == [my[t] EXCEPT !.st = state, !.spins = @ + 1]
  <1>1. Types(state, node, token, my) /\ CallOK(my[t])  BY DEF RwInv, CallInv
  <1>2. /\ my[t].pc \in {"load", "contend"} /\ state' = state /\ node' = node /\ token' = token
        /\ Go(t, r1) \/ (my[t].pc = "contend" /\ Go(t, r2))
    BY DEF Load, Spin, At
  <1>3. my[t] \in Locals /\ state \in Words /\ token' \subseteq Threads  BY <1>1, <1>2 DEF Types
  <1>4. PICK r \in {r1, r2} : Go(t, r) /\ (r = r2 => my[t].pc = "contend")
    <2>1. CASE Go(t, r1) /\ r1 # r2  BY <2>1
    <2>2. CASE Go(t, r1) /\ r1 = r2  
      <3>1. my[t].pc = "contend"
        <4>1. r1.pc = "contend" /\ r2.pc = my[t].pc  BY <1>3 DEF Locals
        <4> QED  BY <4>1, <2>2
      <3> QED  BY <2>2, <3>1
    <2>3. CASE my[t].pc = "contend" /\ Go(t, r2)  BY <2>3
    <2> QED  BY <1>2, <2>1, <2>2, <2>3
  <1>5. /\ r \in Locals /\ r.pc = "contend" /\ r.want = my[t].want /\ r.held = my[t].held
        /\ r.why = my[t].why /\ r.st = state
    <2>1. CASE r = r1  BY <2>1, <1>3 DEF Locals, PCs
    <2>2. CASE r = r2
      <3>1. my[t].pc = "contend"  BY <1>4, <2>2
      <3>2. /\ r2.pc = my[t].pc /\ r2.want = my[t].want /\ r2.held = my[t].held
            /\ r2.why = my[t].why /\ r2.st = state
        BY <1>3 DEF Locals
      <3>3. my[t].spins + 1 \in Nat  BY <1>3 DEF Locals
      <3>4. r2 \in Locals  BY <3>3, <1>3 DEF Locals
      <3> QED  BY <2>2, <3>1, <3>2, <3>4
    <2> QED  BY <2>1, <2>2
  <1> HIDE DEF r1, r2
  <1>6. my[t].held = "none" /\ Plain(my[t]) /\ Plain(r)  BY <1>1, <1>2, <1>5 DEF CallOK, Plain
  <1>7. CallOK(r)  BY <1>1, <1>2, <1>5 DEF CallOK, Holder, Leaving, Grabbing, Waking
  <1>8. ~Waits(my[t], node[t]) /\ ~Waits(r, node[t])  BY <1>2, <1>5 DEF Waits
  <1> QED  BY <1>2, <1>3, <1>4, <1>5, <1>6, <1>7, <1>8, QuietGo

\* A thread that has not been told goes to park, and comes back when it is woken.
LEMMA ParkStays ==
    ASSUME NEW Q, NEW wk, NEW pos, Ghosts(Q, wk, pos), RwInv(state, node, token, my, Q, wk, pos),
           NEW t \in Threads, (Wait(t) /\ ~node[t].completed) \/ Park(t)
    PROVE  RwInv(state', node', token', my', Q, wk, pos)
  <1>1. Types(state, node, token, my) /\ CallOK(my[t])  BY DEF RwInv, CallInv
  <1>2. /\ my[t].pc \in {"wait", "parked"} /\ state' = state /\ node' = node 
        /\ token' \subseteq Threads /\ \E l \in {"wait", "parked"} : Goto(t, l)
    BY <1>1 DEF Wait, Park, At, Types
  <1>3. my[t] \in Locals  BY <1>1 DEF Types
  <1>4. PICK l \in {"wait", "parked"} : Goto(t, l)  BY <1>2
  <1> DEFINE r == [my[t] EXCEPT !.pc = l]
  <1>5. Go(t, r)  BY <1>4 DEF Goto
  <1>6. /\ r \in Locals /\ r.pc = l /\ r.want = my[t].want /\ r.held = my[t].held
        /\ r.why = my[t].why /\ r.st = my[t].st
    BY <1>3 DEF Locals, PCs
  <1> HIDE DEF r
  <1>7. CallOK(r)  BY <1>1, <1>2, <1>6 DEF CallOK, Holder, Leaving, Grabbing, Waking
  <1>8. Plain(my[t]) /\ Plain(r)  BY <1>2, <1>6 DEF Plain
  <1>9. Waits(r, node[t]) <=> Waits(my[t], node[t])  BY <1>2, <1>6 DEF Waits
  <1> QED  BY <1>2, <1>5, <1>6, <1>7, <1>8, <1>9, QuietGo

\* A thread that has been told leaves its node.
LEMMA WaitEnds ==
    ASSUME NEW Q, NEW wk, NEW pos, Ghosts(Q, wk, pos), RwInv(state, node, token, my, Q, wk, pos),
           NEW t \in Threads, Wait(t), node[t].completed
    PROVE  RwInv(state', node', token', my', Q, wk, pos)
  <1> DEFINE r == [my[t] EXCEPT !.pc = "load"]
  <1>1. Types(state, node, token, my) /\ CallOK(my[t])  BY DEF RwInv, CallInv
  <1>2. /\ my[t].pc = "wait" /\ state' = state /\ token' = token
        /\ node' = [node EXCEPT ![t] = NoNode] /\ Go(t, r)
    BY DEF Wait, At, Goto
  <1>3. my[t] \in Locals  BY <1>1 DEF Types
  <1>4. /\ r \in Locals /\ r.pc = "load" /\ r.want = my[t].want /\ r.held = my[t].held
        /\ r.why = my[t].why /\ r.st = my[t].st
    BY <1>3 DEF Locals, PCs
  <1>5. my'[t] = r /\ Others(my', my, t) /\ my' \in [Threads -> Locals]
    BY <1>1, <1>2, <1>4, GoFacts DEF Types
  <1> HIDE DEF r
  <1>6. Others(node', node, t) /\ node' \in [Threads -> Nodes]  BY <1>1, <1>2, NodeFacts DEF Types
  <1>7. Types(state', node', token', my')  BY <1>1, <1>2, <1>5, <1>6 DEF Types
  <1>8. CallOK(r)  BY <1>1, <1>2, <1>4 DEF CallOK, Holder, Leaving, Grabbing, Waking
  <1>9. Plain(my[t]) /\ Plain(r)  BY <1>2, <1>4 DEF Plain
  <1>10. ~Waits(my[t], node[t]) /\ ~Waits(r, node'[t])  BY <1>4 DEF Waits
  <1> QED  BY <1>2, <1>4, <1>5, <1>6, <1>7, <1>8, <1>9, <1>10, QuietStep

\* The holder finds that it cannot release or downgrade the lock at once.
LEMMA SlowPath ==
    ASSUME NEW Q, NEW wk, NEW pos, Ghosts(Q, wk, pos), RwInv(state, node, token, my, Q, wk, pos),
           NEW t \in Threads, WriteUnlock(t) \/ Downgrade(t), state # LOCKED
    PROVE  RwInv(state', node', token', my', Q, wk, pos)
  <1>1. /\ Types(state, node, token, my) /\ CallOK(my[t]) /\ LockInv(state, my) /\ WordInv(state)
    BY DEF RwInv, CallInv
  <1>2. /\ my[t].pc = "idle" /\ my[t].held = "write" /\ state' = state /\ node' = node /\ token' = token
        /\ \E l \in {"unlock_contended", "downgrade_slow"} : Go(t, [my[t] EXCEPT !.pc = l, !.st = state])
    BY DEF WriteUnlock, Downgrade, At
  <1>3. my[t] \in Locals /\ state \in Words /\ token' \subseteq Threads  BY <1>1, <1>2 DEF Types
  <1>4. Alone(my, t) /\ "LOCKED" \in state.bits  BY <1>1, <1>2 DEF LockInv
  <1>5. Contended(state)
    <2>1. t \notin Counted(my)  BY <1>2 DEF Counted
    <2>2. Cardinality(Counted(my)) = 0  BY <1>4, <2>1, CountNone
    <2>3. "QUEUED" \in state.bits
      <3> SUFFICES ASSUME "QUEUED" \notin state.bits PROVE FALSE  OBVIOUS
      <3>1. state.count = 0 /\ state.ptr = Null /\ state.bits = {"LOCKED"}
        BY <1>1, <1>4, <2>2 DEF LockInv, WordInv
      <3>2. state = [bits |-> {"LOCKED"}, ptr |-> Null, count |-> 0]  BY <3>1, <1>3 DEF Words
      <3> QED  BY <3>2 DEF LOCKED, Word
    <2>4. "DOWNGRADED" \notin state.bits  BY <1>1, <1>2, <1>4 DEF LockInv, Alone
    <2> QED  BY <1>4, <2>3, <2>4 DEF Contended
  <1>6. PICK l \in {"unlock_contended", "downgrade_slow"} : Go(t, [my[t] EXCEPT !.pc = l, !.st = state])
    BY <1>2
  <1> DEFINE r == [my[t] EXCEPT !.pc = l, !.st = state]
  <1>7. /\ r \in Locals /\ r.pc = l /\ r.want = my[t].want /\ r.held = my[t].held
        /\ r.why = my[t].why /\ r.st = state
    BY <1>3 DEF Locals, PCs
  <1>8. Go(t, r)  BY <1>6
  <1> HIDE DEF r
  <1>9. CallOK(r)  BY <1>1, <1>2, <1>7 DEF CallOK, Holder, Leaving, Grabbing, Waking
  <1>10. Plain(my[t]) /\ Plain(r)  BY <1>2, <1>7 DEF Plain
  <1>11. ~Waits(my[t], node[t]) /\ ~Waits(r, node[t])  BY <1>1, <1>2, <1>7 DEF Waits, CallOK
  <1> QED  BY <1>2, <1>3, <1>4, <1>5, <1>7, <1>8, <1>9, <1>10, <1>11, QuietGo

-----------------------------------------------------------------------------
(* Taking and releasing the lock without entering the queue *)

\* A step of a thread that does not wait and leaves its function.
LEMMA PlainReturn ==
    ASSUME NEW w, NEW w2 \in Words, NEW nd, NEW nd2 \in [Threads -> Nodes], NEW tk, NEW mm, NEW mm2,
           NEW Q, NEW wk, NEW pos, Ghosts(Q, wk, pos), RwInv(w, nd, tk, mm, Q, wk, pos),
           NEW t \in Threads, NEW h \in {"none", "read", "write"}, mm2[t] = Outside(h),
           mm2 \in [Threads -> Locals], Others(mm2, mm, t), Others(nd2, nd, t),
           Plain(mm[t]), ~Waits(mm[t], nd[t]),
           WordInv(w2), LockInv(w2, mm2), CountInv(w2, nd2, mm2, Q, pos),
           w2.ptr = w.ptr, "QUEUED" \in w2.bits <=> "QUEUED" \in w.bits,
           "QUEUE_LOCKED" \in w2.bits <=> "QUEUE_LOCKED" \in w.bits,
           ReadLocked(w2, mm2) => ReadLocked(w, mm)
    PROVE  RwInv(w2, nd2, tk, mm2, Q, wk, pos)
  <1>1. Types(w, nd, tk, mm) /\ CallInv(mm) /\ ShapeInv(w, nd, mm, Q, wk, pos)  BY DEF RwInv
  <1>2. CallOK(mm2[t]) /\ Plain(mm2[t]) /\ ~Waits(mm2[t], nd2[t])  BY OutsideFacts
  <1>3. CallInv(mm2)  BY <1>1, <1>2, CallStep
  <1>4. ShapeInv(w2, nd2, mm2, Q, wk, pos)  BY <1>1, <1>2, PlainStep DEF Ghosts
  <1>5. Types(w2, nd2, tk, mm2)  BY <1>1 DEF Types
  <1> QED  BY <1>3, <1>4, <1>5 DEF RwInv

\* A word without a queue.
LEMMA PlainWord ==
    ASSUME NEW w \in Words, WordInv(w), "QUEUED" \notin w.bits
    PROVE  w = Word(w.bits, Null, w.count) /\ (w.bits = {} \/ w.bits = {"LOCKED"})
  BY DEF WordInv, Words, Word

\* While there is no queue, nobody relies on one.
LEMMA NoQueue ==
    ASSUME NEW w, NEW mm, LockInv(w, mm), "QUEUED" \notin w.bits, NEW u \in Threads
    PROVE  mm[u].pc \notin {"unlock_contended", "downgrade_slow"} /\ ~Leaving(mm[u])
  BY DEF LockInv, Contended

\* read_lock adds a reader to the count of a word that has no queue.
LEMMA AcquireRead ==
    ASSUME NEW w \in Words, NEW w2, NEW mm, NEW mm2, NEW t \in Threads, LockInv(w, mm), WordInv(w),
           "QUEUED" \notin w.bits, w # LOCKED, w2 = Word({"LOCKED"}, Null, w.count + 1),
           mm[t].held = "none", mm2[t] = Outside("read"), Others(mm2, mm, t)
    PROVE  LockInv(w2, mm2) /\ WordInv(w2) /\ w2 \in Words
  <1>1. mm2[t].held = "read" /\ mm2[t].pc = "idle" /\ ~Leaving(mm2[t])
    BY OutsideFacts, PlainRole
  <1>2. t \notin Counted(mm) /\ t \in Counted(mm2)  BY <1>1 DEF Counted
  <1>3. Cardinality(Counted(mm2)) = Cardinality(Counted(mm)) + 1  BY <1>2, CountUp
  <1>4. w2.bits = {"LOCKED"} /\ w2.ptr = Null /\ w2.count = Cardinality(Counted(mm2))
    BY <1>3 DEF Word, LockInv
  <1>5. w2 \in Words  BY <1>4, CountRange DEF Word, Words, Bits, Ptr
  <1>6. \A u \in Threads : mm[u].held # "write"
    <2> SUFFICES ASSUME NEW u \in Threads, mm[u].held = "write" PROVE FALSE  OBVIOUS
    <2>1. Alone(mm, u) /\ "LOCKED" \in w.bits  BY DEF LockInv
    <2>2. Cardinality(Counted(mm)) = 0  BY <2>1, CountNone DEF Counted
    <2>3. w.count = 0  BY <2>2 DEF LockInv
    <2> QED  BY <2>1, <2>3, PlainWord DEF LOCKED
  <1>7. \A u \in Threads : mm2[u].held # "write" /\ ~Leaving(mm2[u])
                           /\ mm2[u].pc \notin {"unlock_contended", "downgrade_slow"}
    BY <1>1, <1>6, NoQueue DEF Others
  <1>8. WordInv(w2)  BY <1>4 DEF WordInv
  <1>9. LockInv(w2, mm2)  BY <1>1, <1>4, <1>7 DEF LockInv
  <1> QED  BY <1>5, <1>8, <1>9

\* write_lock sets LOCKED in a word that does not have it, with or without a queue.
LEMMA AcquireWrite ==
    ASSUME NEW w \in Words, NEW w2, NEW mm, NEW mm2, NEW t \in Threads, LockInv(w, mm), WordInv(w),
           "LOCKED" \notin w.bits, w2 = Set(w, {"LOCKED"}),
           mm2[t] = Outside("write"), Others(mm2, mm, t)
    PROVE  LockInv(w2, mm2) /\ WordInv(w2) /\ w2 \in Words /\ Counted(mm2) = Counted(mm)
  <1>1. mm2[t].held = "write" /\ mm2[t].pc = "idle" /\ ~Leaving(mm2[t])
    BY OutsideFacts, PlainRole
  <1>2. \A u \in Threads : mm[u].held = "none"  BY DEF LockInv
  <1>3. Counted(mm2) = Counted(mm)  BY <1>1, <1>2 DEF Counted, Others
  <1>4. w2.bits = w.bits \cup {"LOCKED"} /\ w2.ptr = w.ptr /\ w2.count = w.count
    BY DEF Set, Words
  <1>5. w2 \in Words  BY DEF Set, Words, Bits
  <1>6. \A u \in Threads : mm[u].pc \notin {"unlock_contended", "downgrade_slow"} /\ ~Leaving(mm[u])
    BY DEF LockInv, Contended
  <1>7. \A u \in Threads : mm2[u].pc \notin {"unlock_contended", "downgrade_slow"} /\ ~Leaving(mm2[u])
    BY <1>1, <1>6 DEF Others
  <1>8. WordInv(w2) /\ "DOWNGRADED" \notin w2.bits  BY <1>4 DEF WordInv
  <1>9. Alone(mm2, t) /\ \A u \in Threads : mm2[u].held = "write" => u = t
    BY <1>1, <1>2 DEF Alone, Others
  <1>10. "QUEUED" \notin w2.bits => w2.count = Cardinality(Counted(mm2))  BY <1>3, <1>4 DEF LockInv
  <1>11. LockInv(w2, mm2)  BY <1>1, <1>4, <1>7, <1>8, <1>9, <1>10 DEF LockInv
  <1> QED  BY <1>3, <1>5, <1>8, <1>11

\* try_read, try_write and the exchange of lock_contended that succeed.
LEMMA AcquireStays ==
    ASSUME NEW Q, NEW wk, NEW pos, Ghosts(Q, wk, pos), RwInv(state, node, token, my, Q, wk, pos),
           NEW t \in Threads, my[t].pc \in {"try", "contend"}, MayLock(t, state),
           state' = Locked(t, state), Go(t, Outside(Mode(t))), token' = token,
           node' = node \/ node' = [node EXCEPT ![t] = NoNode]
    PROVE  RwInv(state', node', token', my', Q, wk, pos)
  <1>1. /\ Types(state, node, token, my) /\ CallOK(my[t]) /\ LockInv(state, my) /\ WordInv(state)
        /\ CountInv(state, node, my, Q, pos) /\ ListInv(state, node, my, Q, pos)
        /\ WaitInv(node, my, Q, wk)
    BY DEF RwInv, CallInv, ShapeInv
  <1>2. Mode(t) \in {"none", "read", "write"}  BY DEF Mode
  <1>3. my'[t] = Outside(Mode(t)) /\ Others(my', my, t) /\ my' \in [Threads -> Locals]
    BY <1>1, <1>2, GoFacts, OutsideFacts DEF Types
  <1>4. Others(node', node, t) /\ node' \in [Threads -> Nodes]
    BY <1>1, NodeFacts, OthersSame DEF Types
  <1>5. Plain(my[t]) /\ ~Waits(my[t], node[t]) /\ my[t].held = "none"
    BY <1>1 DEF Plain, Waits, CallOK
  <1>6. state \in Words  BY <1>1 DEF Types
  <1>7. \A n \in Q : node'[n].count = node[n].count
    <2>1. t \notin Q  BY <1>1, <1>5 DEF WaitInv
    <2> QED  BY <2>1, <1>4 DEF Others, Ghosts
  <1>8. CASE Mode(t) = "read"
    <2>1. /\ "QUEUED" \notin state.bits /\ state # LOCKED
          /\ state' = Word({"LOCKED"}, Null, state.count + 1)
      BY <1>8 DEF MayLock, Locked
    <2>2. LockInv(state', my') /\ WordInv(state') /\ state' \in Words
      BY <1>1, <1>3, <1>5, <1>6, <1>8, <2>1, AcquireRead
    <2>3. state'.bits = {"LOCKED"} /\ state'.ptr = Null /\ state.ptr = Null
          /\ "QUEUE_LOCKED" \notin state.bits
      BY <1>1, <2>1 DEF Word, WordInv
    <2>4. Q = {}  BY <1>1, <2>1 DEF ListInv
    <2>5. CountInv(state', node', my', Q, pos)  BY <2>4 DEF CountInv
    <2>6. ~ReadLocked(state', my')  BY <2>3 DEF ReadLocked, Contended
    <2> QED  BY <1>2, <1>3, <1>4, <1>5, <2>1, <2>2, <2>3, <2>5, <2>6, PlainReturn
  <1>9. CASE Mode(t) = "write"
    <2>1. "LOCKED" \notin state.bits /\ state' = Set(state, {"LOCKED"})  BY <1>9 DEF MayLock, Locked
    <2>2. LockInv(state', my') /\ WordInv(state') /\ state' \in Words /\ Counted(my') = Counted(my)
      BY <1>1, <1>3, <1>6, <1>9, <2>1, AcquireWrite
    <2>3. state'.bits = state.bits \cup {"LOCKED"} /\ state'.ptr = state.ptr
      BY <1>6, <2>1 DEF Set, Words
    <2>4. CountInv(state', node', my', Q, pos)  BY <1>1, <1>7, <2>2, <2>3, CountKeep
    <2>5. ~ReadLocked(state', my')
      <3>1. my'[t].held = "write"  BY <1>3, <1>9, OutsideFacts
      <3> QED  BY <2>2, <3>1 DEF ReadLocked, LockInv, Alone
    <2> QED  BY <1>2, <1>3, <1>4, <1>5, <2>2, <2>3, <2>4, <2>5, PlainReturn
  <1> QED  BY <1>8, <1>9 DEF Mode

\* The only holder of the lock gives it back.
LEMMA ReleaseAll ==
    ASSUME NEW w2, NEW mm, NEW mm2, NEW t \in Threads, CallInv(mm), Others(mm2, mm, t), Alone(mm, t),
           mm2[t].held = "none", mm2[t].pc \notin {"unlock_contended", "downgrade_slow"},
           ~Leaving(mm2[t]), "LOCKED" \notin w2.bits, "DOWNGRADED" \notin w2.bits,
           "QUEUED" \notin w2.bits => w2.count = 0
    PROVE  LockInv(w2, mm2) /\ Counted(mm2) = {} /\ Cardinality(Counted(mm2)) = 0
  <1>1. \A u \in Threads : mm2[u].held = "none"  BY DEF Alone, Others
  <1>2. \A u \in Threads : u # t => /\ mm[u].pc \notin {"unlock_contended", "downgrade_slow"}
                                    /\ ~Leaving(mm[u])
    BY DEF Alone, CallInv, CallOK
  <1>3. \A u \in Threads : mm2[u].pc \notin {"unlock_contended", "downgrade_slow"} /\ ~Leaving(mm2[u])
    BY <1>2 DEF Others
  <1>4. Counted(mm2) = {}  BY <1>1 DEF Counted
  <1>5. Cardinality(Counted(mm2)) = 0  BY <1>4, FS_EmptySet
  <1> QED  BY <1>1, <1>3, <1>4, <1>5 DEF LockInv

\* The writer becomes the only reader.
LEMMA BecomesReader ==
    ASSUME NEW w2, NEW mm, NEW mm2, NEW t \in Threads, CallInv(mm), Others(mm2, mm, t), Alone(mm, t),
           mm2[t].held = "read", mm2[t].pc \notin {"unlock_contended", "downgrade_slow"},
           ~Leaving(mm2[t]), "LOCKED" \in w2.bits, "QUEUED" \notin w2.bits => w2.count = 1
    PROVE  LockInv(w2, mm2) /\ Counted(mm2) = {t} /\ Cardinality(Counted(mm2)) = 1
  <1>1. Alone(mm2, t)  BY DEF Alone, Others
  <1>2. \A u \in Threads : u # t => /\ mm[u].pc \notin {"unlock_contended", "downgrade_slow"}
                                    /\ ~Leaving(mm[u])
    BY DEF Alone, CallInv, CallOK
  <1>3. \A u \in Threads : mm2[u].pc \notin {"unlock_contended", "downgrade_slow"} /\ ~Leaving(mm2[u])
    BY <1>2 DEF Others
  <1>4. Counted(mm2) = {t} /\ Cardinality(Counted(mm2)) = 1  BY <1>1, CountOne DEF Counted
  <1>5. \A u \in Threads : mm2[u].held # "write"  BY <1>1 DEF Alone
  <1> QED  BY <1>1, <1>3, <1>4, <1>5 DEF LockInv

\* A counted reader gives the lock back while nobody waits.
LEMMA ReadUnlockPlain ==
    ASSUME NEW Q, NEW wk, NEW pos, Ghosts(Q, wk, pos), RwInv(state, node, token, my, Q, wk, pos),
           NEW t \in Threads, ReadUnlock(t), "QUEUED" \notin state.bits
    PROVE  RwInv(state', node', token', my', Q, wk, pos)
  <1>1. /\ Types(state, node, token, my) /\ CallOK(my[t]) /\ LockInv(state, my) /\ WordInv(state)
        /\ CallInv(my) /\ ListInv(state, node, my, Q, pos)
    BY DEF RwInv, CallInv, ShapeInv
  <1>2. /\ my[t].pc = "idle" /\ my[t].held = "read" /\ node' = node /\ token' = token
        /\ state' = IF state.count > 1 THEN Word({"LOCKED"}, Null, state.count - 1) ELSE UNLOCKED
        /\ Go(t, Outside("none"))
    BY DEF ReadUnlock, At
  <1>3. my'[t] = Outside("none") /\ Others(my', my, t) /\ my' \in [Threads -> Locals]
    BY <1>1, <1>2, GoFacts, OutsideFacts DEF Types
  <1>4. Plain(my[t]) /\ ~Waits(my[t], node[t])  BY <1>1, <1>2 DEF Plain, Waits, CallOK
  <1>5. my'[t].held = "none" /\ my'[t].pc = "idle" /\ ~Leaving(my'[t])
    BY <1>3, OutsideFacts, PlainRole
  <1>6. t \in Counted(my) /\ t \notin Counted(my')  BY <1>2, <1>5 DEF Counted
  <1>7. /\ Cardinality(Counted(my')) = Cardinality(Counted(my)) - 1
        /\ state.count = Cardinality(Counted(my)) /\ state.count \in Nat /\ state.count # 0
    BY <1>1, <1>3, <1>6, CountDown, CountRange DEF LockInv
  <1>8. \A u \in Threads : my[u].held # "write"  BY <1>1, <1>2 DEF LockInv, Alone
  <1>9. \A u \in Threads : my[u].pc \notin {"unlock_contended", "downgrade_slow"} /\ ~Leaving(my[u])
    BY <1>1, NoQueue
  <1>10. LockInv(state', my') /\ WordInv(state') /\ state' \in Words /\ state'.ptr = Null
         /\ state'.bits \subseteq {"LOCKED"}
    <2>1. CASE state.count > 1
      <3>1. state' = Word({"LOCKED"}, Null, state.count - 1)  BY <1>2, <2>1
      <3>2. state'.bits = {"LOCKED"} /\ state'.ptr = Null /\ state'.count = Cardinality(Counted(my'))
        BY <3>1, <1>7 DEF Word
      <3>3. state' \in Words  BY <3>1, <3>2, CountRange DEF Word, Words, Bits, Ptr
      <3>4. WordInv(state')  BY <3>2 DEF WordInv
      <3>5. Cardinality(Counted(my')) # 0  BY <1>7, <2>1
      <3>6. Counted(my') # {}  BY <3>5, CountRange
      <3>7. \E u \in Threads : my'[u].held # "none"  BY <3>6 DEF Counted
      <3>8. \A u \in Threads : my'[u].held # "write" /\ ~Leaving(my'[u])
                               /\ my'[u].pc \notin {"unlock_contended", "downgrade_slow"}
        BY <1>3, <1>5, <1>8, <1>9 DEF Others
      <3>9. LockInv(state', my')  BY <3>2, <3>7, <3>8 DEF LockInv
      <3> QED  BY <3>2, <3>3, <3>4, <3>9
    <2>2. CASE ~(state.count > 1)
      <3>1. state' = UNLOCKED /\ Cardinality(Counted(my)) = 1  BY <1>2, <1>7, <2>2
      <3>2. Counted(my) = {t}  BY <3>1, <1>6, CountedOnly
      <3>3. Alone(my, t)
        <4> SUFFICES ASSUME NEW u \in Threads, my[u].held # "none" PROVE u = t  BY DEF Alone
        <4>1. my[u].held = "read"  BY <1>1, <1>8 DEF Types, Locals
        <4>2. u \in Counted(my)  BY <4>1, <1>9 DEF Counted
        <4> QED  BY <4>2, <3>2
      <3>4. state'.bits = {} /\ state'.ptr = Null /\ state'.count = 0  BY <3>1 DEF UNLOCKED, Word
      <3>5. LockInv(state', my')  BY <1>1, <1>3, <1>5, <3>3, <3>4, ReleaseAll
      <3>6. WordInv(state')  BY <3>4 DEF WordInv
      <3>7. state' \in Words  BY <3>1, CountRange DEF UNLOCKED, Word, Words, Bits, Ptr
      <3> QED  BY <3>4, <3>5, <3>6, <3>7
    <2> QED  BY <2>1, <2>2
  <1>11. Q = {} /\ state.ptr = Null /\ "QUEUE_LOCKED" \notin state.bits  BY <1>1 DEF ListInv, WordInv
  <1>12. CountInv(state', node', my', Q, pos)  BY <1>11 DEF CountInv
  <1>13. ~ReadLocked(state', my')  BY <1>10 DEF ReadLocked, Contended
  <1>14. "QUEUED" \notin state'.bits /\ "QUEUE_LOCKED" \notin state'.bits  BY <1>10
  <1>15. Others(node', node, t) /\ node' \in [Threads -> Nodes]  BY <1>1, <1>2, OthersSame DEF Types
  <1> QED  BY <1>2, <1>3, <1>4, <1>10, <1>11, <1>12, <1>13, <1>14, <1>15, PlainReturn

\* The only holder gives the lock back, and somebody else sees to the queue or
\* there is none: a downgraded reader, a writer without waiters, unlock_contended
\* while the queue is locked.
LEMMA ReleaseStays ==
    ASSUME NEW Q, NEW wk, NEW pos, Ghosts(Q, wk, pos), RwInv(state, node, token, my, Q, wk, pos),
           NEW t \in Threads, my[t].pc \in {"idle", "unlock_contended"}, my[t].held # "none",
           Alone(my, t), Go(t, Outside("none")), node' = node, token' = token,
           state' \in Words, state'.ptr = state.ptr, "LOCKED" \notin state'.bits,
           "DOWNGRADED" \notin state'.bits, state'.count = 0 /\ state'.bits \subseteq state.bits,
           \A b \in {"QUEUED", "QUEUE_LOCKED"} : b \in state'.bits <=> b \in state.bits,
           t \in Counted(my) => "DOWNGRADED" \in state.bits
    PROVE  RwInv(state', node', token', my', Q, wk, pos)
  <1>1. /\ Types(state, node, token, my) /\ CallOK(my[t]) /\ LockInv(state, my) /\ WordInv(state)
        /\ CallInv(my) /\ CountInv(state, node, my, Q, pos)
    BY DEF RwInv, CallInv
  <1>2. my'[t] = Outside("none") /\ Others(my', my, t) /\ my' \in [Threads -> Locals]
    BY <1>1, GoFacts, OutsideFacts DEF Types
  <1>3. Plain(my[t]) /\ ~Waits(my[t], node[t])  BY <1>1 DEF Plain, Waits, CallOK
  <1>4. my'[t].held = "none" /\ my'[t].pc = "idle" /\ ~Leaving(my'[t])
    BY <1>2, OutsideFacts, PlainRole
  <1>5. LockInv(state', my') /\ Cardinality(Counted(my')) = 0  BY <1>1, <1>2, <1>4, ReleaseAll
  <1>6. WordInv(state')  BY <1>1 DEF WordInv
  <1>7. \A n \in Q : node[n].count = 0
    <2>1. CASE t \in Counted(my)  BY <1>1, <2>1 DEF CountInv
    <2>2. CASE t \notin Counted(my)
      <3>1. Cardinality(Counted(my)) = 0  BY <2>2, CountNone
      <3> QED  BY <1>1, <3>1 DEF CountInv
    <2> QED  BY <2>1, <2>2
  <1>8. CountInv(state', node', my', Q, pos)  BY <1>5, <1>7 DEF CountInv
  <1>9. ~ReadLocked(state', my')  BY DEF ReadLocked, Contended
  <1>10. Others(node', node, t) /\ node' \in [Threads -> Nodes]  BY <1>1, OthersSame DEF Types
  <1> QED  BY <1>2, <1>3, <1>5, <1>6, <1>8, <1>9, <1>10, PlainReturn

\* The reader that was a writer leaves while its request to wake everybody stands.
LEMMA ReadUnlockDowngraded ==
    ASSUME NEW Q, NEW wk, NEW pos, Ghosts(Q, wk, pos), RwInv(state, node, token, my, Q, wk, pos),
           NEW t \in Threads, ReadUnlock(t), "QUEUED" \in state.bits, "DOWNGRADED" \in state.bits
    PROVE  RwInv(state', node', token', my', Q, wk, pos)
  <1>1. /\ Types(state, node, token, my) /\ LockInv(state, my) /\ WordInv(state)
    BY DEF RwInv
  <1>2. /\ my[t].pc = "idle" /\ my[t].held = "read" /\ node' = node /\ token' = token
        /\ state' = Mask(state, {"DOWNGRADED", "LOCKED"}) /\ Go(t, Outside("none"))
    BY DEF ReadUnlock, At
  <1>3. state \in Words  BY <1>1 DEF Types
  <1>4. state'.bits = state.bits \ {"DOWNGRADED", "LOCKED"} /\ state'.ptr = state.ptr
        /\ state'.count = state.count
    BY <1>2, <1>3 DEF Mask, Words
  <1>5. state' \in Words  BY <1>2, <1>3 DEF Mask, Words
  <1>6. Alone(my, t)  BY <1>1, <1>2 DEF LockInv, Alone
  <1>7. state.count = 0  BY <1>1 DEF WordInv
  <1> QED  BY <1>2, <1>4, <1>5, <1>6, <1>7, ReleaseStays

\* write_unlock without a queue.
LEMMA WriteUnlockPlain ==
    ASSUME NEW Q, NEW wk, NEW pos, Ghosts(Q, wk, pos), RwInv(state, node, token, my, Q, wk, pos),
           NEW t \in Threads, WriteUnlock(t), state = LOCKED
    PROVE  RwInv(state', node', token', my', Q, wk, pos)
  <1>1. Types(state, node, token, my) /\ LockInv(state, my)  BY DEF RwInv
  <1>2. /\ my[t].pc = "idle" /\ my[t].held = "write" /\ node' = node /\ token' = token
        /\ state' = UNLOCKED /\ Go(t, Outside("none"))
    BY DEF WriteUnlock, At
  <1>3. state.bits = {"LOCKED"} /\ state.ptr = Null /\ state.count = 0  BY DEF LOCKED, Word
  <1>4. state'.bits = {} /\ state'.ptr = Null /\ state'.count = 0  BY <1>2 DEF UNLOCKED, Word
  <1>5. state' \in Words  BY <1>2, CountRange DEF UNLOCKED, Word, Words, Bits, Ptr
  <1>6. Alone(my, t) /\ t \notin Counted(my)  BY <1>1, <1>2 DEF LockInv, Counted
  <1> QED  BY <1>2, <1>3, <1>4, <1>5, <1>6, ReleaseStays

\* unlock_contended leaves the queue to the thread that has locked it.
LEMMA UnlockLeaves ==
    ASSUME NEW Q, NEW wk, NEW pos, Ghosts(Q, wk, pos), RwInv(state, node, token, my, Q, wk, pos),
           NEW t \in Threads, my[t].pc = "unlock_contended", "QUEUE_LOCKED" \in my[t].st.bits,
           Swap(t, Set(Mask(my[t].st, {"LOCKED"}), {"QUEUE_LOCKED"}), Outside("none")),
           node' = node, token' = token
    PROVE  RwInv(state', node', token', my', Q, wk, pos)
  <1>1. /\ Types(state, node, token, my) /\ LockInv(state, my) /\ WordInv(state) /\ CallOK(my[t])
    BY DEF RwInv, CallInv
  <1>2. /\ state = my[t].st /\ state' = Set(Mask(state, {"LOCKED"}), {"QUEUE_LOCKED"})
        /\ Go(t, Outside("none"))
    BY DEF Swap
  <1>3. state \in Words /\ "QUEUE_LOCKED" \in state.bits  BY <1>1, <1>2 DEF Types
  <1>4. state'.bits = (state.bits \ {"LOCKED"}) \cup {"QUEUE_LOCKED"} /\ state'.ptr = state.ptr
        /\ state'.count = state.count
    BY <1>2, <1>3 DEF Mask, Set, Words
  <1>5. state' \in Words  BY <1>2, <1>3 DEF Mask, Set, Words, Bits
  <1>6. Alone(my, t) /\ Contended(state) /\ my[t].held # "none"  BY <1>1 DEF LockInv, CallOK
  <1>7. state.count = 0 /\ "DOWNGRADED" \notin state.bits  BY <1>1, <1>6 DEF WordInv, Contended
  <1>8. t \notin Counted(my)  BY DEF Counted
  <1> QED  BY <1>2, <1>3, <1>4, <1>5, <1>6, <1>7, <1>8, ReleaseStays

\* A downgrade that nobody waits for, or that the holder of the queue lock sees to.
LEMMA DowngradeStays ==
    ASSUME NEW Q, NEW wk, NEW pos, Ghosts(Q, wk, pos), RwInv(state, node, token, my, Q, wk, pos),
           NEW t \in Threads, my[t].pc \in {"idle", "downgrade_slow"}, my[t].held = "write",
           Go(t, Outside("read")), node' = node, token' = token,
           state' \in Words, WordInv(state'), state'.ptr = state.ptr, "LOCKED" \in state'.bits,
           \A b \in {"QUEUED", "QUEUE_LOCKED"} : b \in state'.bits <=> b \in state.bits,
           IF "QUEUED" \in state.bits THEN "DOWNGRADED" \in state'.bits ELSE state'.count = 1
    PROVE  RwInv(state', node', token', my', Q, wk, pos)
  <1>1. /\ Types(state, node, token, my) /\ CallOK(my[t]) /\ LockInv(state, my) /\ WordInv(state)
        /\ CallInv(my) /\ CountInv(state, node, my, Q, pos) /\ ListInv(state, node, my, Q, pos)
    BY DEF RwInv, CallInv, ShapeInv
  <1>2. my'[t] = Outside("read") /\ Others(my', my, t) /\ my' \in [Threads -> Locals]
    BY <1>1, GoFacts, OutsideFacts DEF Types
  <1>3. Plain(my[t]) /\ ~Waits(my[t], node[t])  BY <1>1 DEF Plain, Waits, CallOK
  <1>4. my'[t].held = "read" /\ my'[t].pc = "idle" /\ ~Leaving(my'[t])
    BY <1>2, OutsideFacts, PlainRole
  <1>5. Alone(my, t) /\ t \notin Counted(my)  BY <1>1 DEF LockInv, Counted
  <1>6. LockInv(state', my')  BY <1>1, <1>2, <1>4, <1>5, BecomesReader
  <1>7. Cardinality(Counted(my)) = 0  BY <1>5, CountNone
  <1>8. CountInv(state', node', my', Q, pos)
    <2>1. \A n \in Q : node'[n].count = 0  BY <1>1, <1>7 DEF CountInv
    <2>2. Q # {} => "DOWNGRADED" \in state'.bits  BY <1>1 DEF ListInv
    <2> QED  BY <2>1, <2>2 DEF CountInv
  <1>9. ~ReadLocked(state', my')  BY DEF ReadLocked, Contended
  <1>10. Others(node', node, t) /\ node' \in [Threads -> Nodes]  BY <1>1, OthersSame DEF Types
  <1> QED  BY <1>1, <1>2, <1>3, <1>6, <1>8, <1>9, <1>10, PlainReturn

\* downgrade without a queue.
LEMMA DowngradePlain ==
    ASSUME NEW Q, NEW wk, NEW pos, Ghosts(Q, wk, pos), RwInv(state, node, token, my, Q, wk, pos),
           NEW t \in Threads, Downgrade(t), state = LOCKED
    PROVE  RwInv(state', node', token', my', Q, wk, pos)
  <1>1. /\ my[t].pc = "idle" /\ my[t].held = "write" /\ node' = node /\ token' = token
        /\ state' = ONE_READER /\ Go(t, Outside("read"))
    BY DEF Downgrade, At
  <1>2. state.bits = {"LOCKED"} /\ state.ptr = Null  BY DEF LOCKED, Word
  <1>3. state'.bits = {"LOCKED"} /\ state'.ptr = Null /\ state'.count = 1  BY <1>1 DEF ONE_READER, Word
  <1>4. 1 \in 0..Cardinality(Threads)
    <2>1. Cardinality(Threads) \in Nat /\ Cardinality(Threads) # 0
      BY RwAssumption, FS_CardinalityType, FS_EmptySet
    <2> QED  BY <2>1
  <1>5. state' \in Words  BY <1>1, <1>4 DEF ONE_READER, Word, Words, Bits, Ptr
  <1>6. WordInv(state')  BY <1>3 DEF WordInv
  <1> QED  BY <1>1, <1>2, <1>3, <1>5, <1>6, DowngradeStays

\* downgrade_slow asks the holder of the queue lock to wake everybody.
LEMMA DowngradeMarks ==
    ASSUME NEW Q, NEW wk, NEW pos, Ghosts(Q, wk, pos), RwInv(state, node, token, my, Q, wk, pos),
           NEW t \in Threads, my[t].pc = "downgrade_slow", "QUEUE_LOCKED" \in my[t].st.bits,
           Swap(t, Set(my[t].st, {"DOWNGRADED"}), Outside("read")), node' = node, token' = token
    PROVE  RwInv(state', node', token', my', Q, wk, pos)
  <1>1. /\ Types(state, node, token, my) /\ CallOK(my[t]) /\ LockInv(state, my) /\ WordInv(state)
    BY DEF RwInv, CallInv
  <1>2. state = my[t].st /\ state' = Set(state, {"DOWNGRADED"}) /\ Go(t, Outside("read"))
    BY DEF Swap
  <1>3. state \in Words /\ Contended(state) /\ my[t].held = "write"
    BY <1>1 DEF Types, LockInv, CallOK
  <1>4. state'.bits = state.bits \cup {"DOWNGRADED"} /\ state'.ptr = state.ptr
        /\ state'.count = state.count
    BY <1>2, <1>3 DEF Set, Words
  <1>5. state' \in Words  BY <1>2, <1>3 DEF Set, Words, Bits
  <1>6. WordInv(state')  BY <1>1, <1>2, <1>3, <1>4 DEF WordInv, Contended
  <1> QED  BY <1>2, <1>3, <1>4, <1>5, <1>6, DowngradeStays DEF Contended

-----------------------------------------------------------------------------
(* Entering and leaving the queue, and starting again *)

\* The locals with which a traversal begins.
LEMMA TraverseFacts ==
    ASSUME NEW t \in Threads, my[t] \in Locals, NEW w \in Words,
           NEW f \in {"unlock_queue", "decrement", "downgrade"}, NEW r, r = Traverse(t, w, f)
    PROVE  /\ r \in Locals /\ r.pc = "walk" /\ r.want = my[t].want /\ r.held = my[t].held /\ r.st = w
           /\ r.cur = w.ptr /\ r.why = f
  BY ZenonT(30) DEF Traverse, Locals, PCs, Words, Ptr

\* A traversal that starts at the head.
LEMMA TraversalStarts ==
    ASSUME NEW nd, NEW pos \in [Threads -> Nat], NEW S \in SUBSET Threads, NEW m, m.pc = "walk",
           m.cur = m.st.ptr, List(nd, S, pos, m.st.ptr)
    PROVE  Traversing(m, nd, S, pos)
  <1>1. m.st.ptr \in S  BY DEF List, High
  <1>2. Linked(nd, S, pos, m.cur, m.st.ptr)  BY <1>1 DEF Linked
  <1> QED  BY <1>1, <1>2 DEF Traversing

\* Only who has locked the queue splits its tail off.
LEMMA TailIsRight ==
    ASSUME NEW w, NEW nd, NEW mm, NEW Q, NEW pos, CallInv(mm), ListInv(w, nd, mm, Q, pos),
           "QUEUED" \in w.bits, \A u \in Threads : Holder(mm[u]) => ~Splitting(mm[u])
    PROVE  RightTail(nd, Q, pos)
  <1>1. \A u \in Threads : Splitting(mm[u]) => Holder(mm[u])
    BY DEF CallInv, CallOK, Splitting, Holder
  <1> QED  BY <1>1 DEF ListInv

\* unlock_queue starts with the word w, whose queue is the present one.
LEMMA HolderStarts ==
    ASSUME NEW nd, NEW pos \in [Threads -> Nat], NEW S \in SUBSET Threads, NEW m, m.pc = "walk",
           m.cur = m.st.ptr, List(nd, S, pos, m.st.ptr), RightTail(nd, S, pos)
    PROVE  HolderOK(m, nd, S, pos)
  <1>1. Traversing(m, nd, S, pos)  BY TraversalStarts
  <1>2. Finds(nd, S, pos, m.cur)  BY FindsFromHead DEF List
  <1>3. Bare(nd, S, pos, m.st.ptr)  BY DEF List, High, Bare
  <1> QED  BY <1>1, <1>2, <1>3 DEF HolderOK

\* A thread in unlock_queue or read_unlock_contended has taken no node.
LEMMA NoneTaken ==
    ASSUME NEW m, NEW nd, NEW S, NEW pos, Holder(m) \/ Leaving(m)
    PROVE  TakenOK(m, nd, S, pos) <=> S = {}
  <1>1. ~Grabbing(m) /\ ~Waking(m)  BY DEF Holder, Leaving, Grabbing, Waking
  <1>2. m.pc \notin {"complete", "complete_one", "unpark"}  BY DEF Holder, Leaving
  <1> QED  BY <1>1, <1>2 DEF TakenOK

\* Who has the queue lock has taken no node.
LEMMA HolderRole ==
    ASSUME NEW m, NEW nd, NEW Q, NEW pos, Holder(m), HolderOK(m, nd, Q, pos)
    PROVE  RoleOK(m, nd, Q, {}, pos)
  BY NoneTaken DEF RoleOK, Holder, Leaving

\* A reader on its way to the count has taken no node.
LEMMA LeavingRole ==
    ASSUME NEW m, NEW nd, NEW Q, NEW pos, Leaving(m), LeavingOK(m, nd, Q, pos)
    PROVE  RoleOK(m, nd, Q, {}, pos)
  BY NoneTaken DEF RoleOK, Holder, Leaving

\* Nodes that do not change are kept, in every list.
LEMMA KeepAll ==
    ASSUME NEW nd, NEW pos, NEW Q, NEW wk
    PROVE  Keeps(nd, pos, nd, pos, Q) /\ \A u \in Threads : Keeps(nd, pos, nd, pos, Taken(wk, u))
  BY KeepSame

\* read_unlock finds a queue and no downgrade.
LEMMA ReadUnlockEnters ==
    ASSUME NEW Q, NEW wk, NEW pos, Ghosts(Q, wk, pos), RwInv(state, node, token, my, Q, wk, pos),
           NEW t \in Threads, ReadUnlock(t), "QUEUED" \in state.bits, "DOWNGRADED" \notin state.bits
    PROVE  RwInv(state', node', token', my', Q, wk, pos)
  <1> DEFINE r == Traverse(t, state, "decrement")
  <1>1. /\ Types(state, node, token, my) /\ CallOK(my[t]) /\ LockInv(state, my) /\ WordInv(state)
        /\ CallInv(my) /\ CountInv(state, node, my, Q, pos) /\ ListInv(state, node, my, Q, pos)
        /\ ShapeInv(state, node, my, Q, wk, pos) /\ HolderInv(state, node, my, Q, pos)
        /\ TakenInv(node, my, wk, pos) /\ FreshInv(state, node, my, Q, pos)
    BY DEF RwInv, CallInv, ShapeInv
  <1>2. /\ my[t].pc = "idle" /\ my[t].held = "read" /\ node' = node /\ token' = token
        /\ state' = state /\ Go(t, r)
    BY DEF ReadUnlock, At
  <1>3. my[t] \in Locals /\ state \in Words  BY <1>1 DEF Types
  <1>4. /\ r \in Locals /\ r.pc = "walk" /\ r.want = my[t].want /\ r.held = my[t].held /\ r.st = state
        /\ r.cur = state.ptr /\ r.why = "decrement"
    BY <1>3, TraverseFacts
  <1> HIDE DEF r
  <1>5. my'[t] = r /\ Others(my', my, t) /\ my' \in [Threads -> Locals]
    BY <1>1, <1>2, <1>4, GoFacts DEF Types
  <1>6. Plain(my[t]) /\ my[t].want = "none"  BY <1>1, <1>2 DEF Plain, CallOK
  <1>7. ~Holder(my[t]) /\ ~Waking(my[t]) /\ ~Grabbing(my[t]) /\ ~Splitting(my[t])  BY <1>6, PlainRole
  <1>8. Leaving(r) /\ ~Holder(r) /\ ~Splitting(r)  BY <1>4 DEF Leaving, Holder, Splitting
  <1>9. Contended(state)
    <2>1. "LOCKED" \in state.bits  BY <1>1, <1>2 DEF LockInv
    <2> QED  BY <2>1 DEF Contended
  <1>10. CallOK(r)  BY <1>1, <1>2, <1>4, <1>6 DEF CallOK, Holder, Leaving, Grabbing, Waking
  <1>11. t \in Counted(my') <=> t \in Counted(my)  BY <1>2, <1>4, <1>5 DEF Counted
  <1>12. LockInv(state', my') /\ Counted(my') = Counted(my)
    BY <1>1, <1>2, <1>4, <1>5, <1>8, <1>9, <1>11, LockKeep
  <1>13. LeavingOK(r, node, Q, pos)
    <2>1. List(node, Q, pos, state.ptr)  BY <1>1 DEF ListInv
    <2>2. Traversing(r, node, Q, pos)  BY <1>4, <2>1, TraversalStarts DEF Ghosts
    <2> QED  BY <1>4, <2>2 DEF LeavingOK
  <1>14. Taken(wk, t) = {}  BY <1>1, <1>7 DEF TakenInv, TakenOK
  <1>15. RoleOK(r, node, Q, Taken(wk, t), pos)  BY <1>8, <1>13, <1>14, LeavingRole
  <1>16. HolderBit(state', my')  BY <1>1, <1>2, <1>5, <1>7, <1>8 DEF HolderInv, HolderBit, Others
  <1>17. SameWaits(my', node', my, node)  BY <1>2, <1>4, <1>5, <1>6 DEF SameWaits, Waits, Others
  <1>18. ReadLocked(state', my') => ReadLocked(state, my)  BY <1>2, <1>9 DEF ReadLocked
  <1>19. ShapeInv(state', node', my', Q, wk, pos)
    BY <1>1, <1>2, <1>5, <1>7, <1>8, <1>15, <1>16, <1>17, <1>18, KeepStep, KeepAll DEF Ghosts
  <1>20. CountInv(state', node', my', Q, pos)  BY <1>1, <1>2, <1>12, CountKeep
  <1>21. Types(state', node', token', my')  BY <1>1, <1>2, <1>5 DEF Types
  <1>22. CallInv(my')  BY <1>1, <1>5, <1>10, CallStep
  <1> QED  BY <1>1, <1>2, <1>12, <1>19, <1>20, <1>21, <1>22 DEF RwInv

\* unlock_contended locks the queue.
LEMMA UnlockEnters ==
    ASSUME NEW Q, NEW wk, NEW pos, Ghosts(Q, wk, pos), RwInv(state, node, token, my, Q, wk, pos),
           NEW t \in Threads, my[t].pc = "unlock_contended", "QUEUE_LOCKED" \notin my[t].st.bits,
           NEW next, next = Set(Mask(my[t].st, {"LOCKED"}), {"QUEUE_LOCKED"}),
           Swap(t, next, [Traverse(t, next, "unlock_queue") EXCEPT !.held = "none"]),
           node' = node, token' = token
    PROVE  RwInv(state', node', token', my', Q, wk, pos)
  <1> DEFINE r == [Traverse(t, next, "unlock_queue") EXCEPT !.held = "none"]
  <1>1. /\ Types(state, node, token, my) /\ CallOK(my[t]) /\ LockInv(state, my) /\ WordInv(state)
        /\ CallInv(my) /\ CountInv(state, node, my, Q, pos) /\ ListInv(state, node, my, Q, pos)
        /\ ShapeInv(state, node, my, Q, wk, pos) /\ HolderInv(state, node, my, Q, pos)
        /\ TakenInv(node, my, wk, pos)
    BY DEF RwInv, CallInv, ShapeInv
  <1>2. state = my[t].st /\ state' = next /\ Go(t, r)  BY DEF Swap
  <1>3. my[t] \in Locals /\ state \in Words  BY <1>1 DEF Types
  <1>4. /\ next.bits = (state.bits \ {"LOCKED"}) \cup {"QUEUE_LOCKED"} /\ next.ptr = state.ptr
        /\ next.count = state.count
    BY <1>2, <1>3 DEF Set, Mask, Words
  <1>5. next \in Words  BY <1>2, <1>3 DEF Set, Mask, Words, Bits
  <1>6. /\ r \in Locals /\ r.pc = "walk" /\ r.want = my[t].want /\ r.held = "none" /\ r.st = next
        /\ r.cur = next.ptr /\ r.why = "unlock_queue"
    BY <1>3, <1>5, TraverseFacts DEF Locals
  <1> HIDE DEF r
  <1>7. my'[t] = r /\ Others(my', my, t) /\ my' \in [Threads -> Locals]
    BY <1>1, <1>2, <1>6, GoFacts DEF Types
  <1>8. Plain(my[t]) /\ my[t].want = "none"  BY <1>1 DEF Plain, CallOK
  <1>9. ~Holder(my[t]) /\ ~Waking(my[t]) /\ ~Grabbing(my[t]) /\ ~Splitting(my[t])  BY <1>8, PlainRole
  <1>10. Holder(r) /\ ~Leaving(r) /\ ~Splitting(r)  BY <1>6 DEF Leaving, Holder, Splitting
  <1>11. Alone(my, t) /\ Contended(state)  BY <1>1 DEF LockInv
  <1>12. \A u \in Threads : ~Holder(my[u])  BY <1>1, <1>2 DEF HolderInv
  <1>13. LockInv(state', my') /\ Cardinality(Counted(my')) = 0
    BY <1>1, <1>2, <1>4, <1>6, <1>7, <1>10, <1>11, ReleaseAll DEF Contended
  <1>14. RoleOK(r, node, Q, Taken(wk, t), pos)
    <2>1. List(node, Q, pos, r.st.ptr)  BY <1>1, <1>4, <1>6, <1>11 DEF ListInv, Contended
    <2>2. RightTail(node, Q, pos)  BY <1>1, <1>11, <1>12, TailIsRight DEF Contended
    <2>3. HolderOK(r, node, Q, pos)  BY <1>6, <2>1, <2>2, HolderStarts DEF Ghosts
    <2>4. Taken(wk, t) = {}  BY <1>1, <1>9 DEF TakenInv, TakenOK
    <2> QED  BY <1>10, <2>3, <2>4, HolderRole
  <1>15. HolderBit(state', my')  BY <1>2, <1>4, <1>7, <1>10, <1>12 DEF HolderBit, Others
  <1>16. SameWaits(my', node', my, node)  BY <1>6, <1>7, <1>8 DEF SameWaits, Waits, Others
  <1>17. ~ReadLocked(state', my')  BY <1>2, <1>4 DEF ReadLocked, Contended
  <1>18. state'.ptr = state.ptr /\ ("QUEUED" \in state'.bits <=> "QUEUED" \in state.bits)
    BY <1>2, <1>4
  <1>19. ShapeInv(state', node', my', Q, wk, pos)
    BY <1>1, <1>7, <1>9, <1>14, <1>15, <1>16, <1>17, <1>18, KeepStep, KeepAll DEF Ghosts
  <1>20. CountInv(state', node', my', Q, pos)
    <2>1. t \notin Counted(my)  BY DEF Counted
    <2>2. Cardinality(Counted(my)) = 0  BY <1>11, <2>1, CountNone
    <2>3. \A n \in Q : node[n].count = 0  BY <1>1, <2>2 DEF CountInv
    <2> QED  BY <1>13, <2>3 DEF CountInv
  <1>21. Types(state', node', token', my')  BY <1>1, <1>2, <1>5, <1>7 DEF Types
  <1>22. CallOK(r)
    <2>1. {"QUEUED", "QUEUE_LOCKED"} \subseteq r.st.bits  BY <1>4, <1>6, <1>11 DEF Contended
    <2> QED  BY <1>6, <1>8, <1>10, <2>1 DEF CallOK, Holder, Leaving, Grabbing, Waking
  <1>23. CallInv(my')  BY <1>1, <1>7, <1>22, CallStep
  <1>24. WordInv(state')  BY <1>1, <1>2, <1>4, <1>11 DEF WordInv, Contended
  <1> QED  BY <1>13, <1>19, <1>20, <1>21, <1>23, <1>24 DEF RwInv

-----------------------------------------------------------------------------
(* Steps inside the queue that leave the word alone *)

\* A step that neither takes nor gives back the lock leaves what the word says of it.
LEMMA LockStays ==
    ASSUME NEW w, NEW mm, NEW mm2, NEW t \in Threads, LockInv(w, mm), Others(mm2, mm, t),
           mm2[t].held = mm[t].held, t \in Counted(mm2) <=> t \in Counted(mm),
           mm2[t].pc \notin {"unlock_contended", "downgrade_slow"},
           Leaving(mm2[t]) => Contended(w) /\ Contended(mm2[t].st)
    PROVE  LockInv(w, mm2) /\ Counted(mm2) = Counted(mm)
  BY LockKeep

\* A step of t that changes its locals to r and at most adds backlinks.
LEMMA InsideStep ==
    ASSUME NEW Q, NEW wk, NEW pos, Ghosts(Q, wk, pos), RwInv(state, node, token, my, Q, wk, pos),
           NEW t \in Threads, NEW r \in Locals, Go(t, r), state' = state,
           node' \in [Threads -> Nodes], token' \subseteq Threads,
           Keeps(node', pos, node, pos, Q),
           \A u \in Threads : u # t => Keeps(node', pos, node, pos, Taken(wk, u)),
           \A n \in Threads : /\ node'[n].count = node[n].count /\ node'[n].write = node[n].write
                              /\ node'[n].completed = node[n].completed,
           CallOK(r), RoleOK(r, node', Q, Taken(wk, t), pos), r.held = my[t].held,
           my[t].pc # "unlock_contended", r.pc \notin {"unlock_contended", "downgrade_slow"},
           Holder(r) <=> Holder(my[t]), Splitting(my[t]) => Splitting(r),
           Leaving(r) => Contended(state) /\ Contended(r.st),
           ReadLocked(state, my) /\ Holder(r) => "LOCKED" \in r.st.bits /\ ~Splitting(r),
           Waits(r, node[t]) <=> Waits(my[t], node[t]), Waits(my[t], node[t]) => r.want = my[t].want
    PROVE  RwInv(state', node', token', my', Q, wk, pos)
  <1>1. /\ Types(state, node, token, my) /\ LockInv(state, my) /\ WordInv(state)
        /\ CallInv(my) /\ CountInv(state, node, my, Q, pos)
        /\ ShapeInv(state, node, my, Q, wk, pos) /\ HolderInv(state, node, my, Q, pos)
    BY DEF RwInv, ShapeInv
  <1>2. my'[t] = r /\ Others(my', my, t) /\ my' \in [Threads -> Locals]  BY <1>1, GoFacts DEF Types
  <1>3. t \in Counted(my') <=> t \in Counted(my)  BY <1>2 DEF Counted
  <1>4. LockInv(state', my') /\ Counted(my') = Counted(my)
    <2>1. /\ my'[t].held = my[t].held
          /\ my'[t].pc \notin {"unlock_contended", "downgrade_slow"}
          /\ Leaving(my'[t]) => Contended(state) /\ Contended(my'[t].st)
      BY <1>2
    <2> QED  BY <1>1, <1>2, <1>3, <2>1, LockStays
  <1>5. HolderBit(state', my')  BY <1>1, <1>2 DEF HolderInv, HolderBit, Others
  <1>6. SameWaits(my', node', my, node)
    <2>1. \A n \in Threads : Waits(my'[n], node'[n]) <=> Waits(my'[n], node[n])  BY DEF Waits
    <2> QED  BY <1>2, <2>1 DEF SameWaits, Others
  <1>7. ReadLocked(state', my') => ReadLocked(state, my)  BY <1>2 DEF ReadLocked, Others
  <1>8. ShapeInv(state', node', my', Q, wk, pos)
    <2>1. Splitting(my[t]) => Splitting(my'[t]) \/ RightTail(node', Q, pos)  BY <1>2
    <2>2. RoleOK(my'[t], node', Q, Taken(wk, t), pos)  BY <1>2
    <2>3. ReadLocked(state', my') /\ Holder(my'[t]) =>
                "LOCKED" \in my'[t].st.bits /\ ~Splitting(my'[t])
      BY <1>2, <1>7
    <2> QED  BY <1>1, <1>2, <1>5, <1>6, <1>7, <2>1, <2>2, <2>3, KeepStep DEF Ghosts
  <1>9. CountInv(state', node', my', Q, pos)  BY <1>1, <1>4, CountKeep DEF Ghosts
  <1>10. Types(state', node', token', my')  BY <1>1, <1>2 DEF Types
  <1>11. CallInv(my')  BY <1>1, <1>2, CallStep
  <1> QED  BY <1>1, <1>4, <1>8, <1>9, <1>10, <1>11 DEF RwInv

\* A step that changes only the locals of t, and no more of them than this, keeps the invariant.
LEMMA InsideGo ==
    ASSUME NEW Q, NEW wk, NEW pos, Ghosts(Q, wk, pos), RwInv(state, node, token, my, Q, wk, pos),
           NEW t \in Threads, NEW r \in Locals, Go(t, r), state' = state, node' = node,
           token' \subseteq Threads,
           CallOK(r), RoleOK(r, node, Q, Taken(wk, t), pos), r.held = my[t].held,
           my[t].pc # "unlock_contended", r.pc \notin {"unlock_contended", "downgrade_slow"},
           Holder(r) <=> Holder(my[t]), Splitting(my[t]) => Splitting(r),
           Leaving(r) => Contended(state) /\ Contended(r.st),
           ReadLocked(state, my) /\ Holder(r) => "LOCKED" \in r.st.bits /\ ~Splitting(r),
           Waits(r, node[t]) <=> Waits(my[t], node[t]), Waits(my[t], node[t]) => r.want = my[t].want
    PROVE  RwInv(state', node', token', my', Q, wk, pos)
  <1>1. node \in [Threads -> Nodes]  BY DEF RwInv, Types
  <1> QED  BY <1>1, InsideStep, KeepAll

\* What holds while t is in unlock_queue.
LEMMA HolderFacts ==
    ASSUME NEW w, NEW nd, NEW tk, NEW mm, NEW Q, NEW wk, NEW pos, RwInv(w, nd, tk, mm, Q, wk, pos),
           NEW t \in Threads, Holder(mm[t])
    PROVE  /\ HolderOK(mm[t], nd, Q, pos) /\ Taken(wk, t) = {}
           /\ \A u \in Threads : Holder(mm[u]) => u = t
           /\ {"QUEUED", "QUEUE_LOCKED"} \subseteq w.bits
           /\ List(nd, Q, pos, w.ptr) /\ SomeTail(nd, Q, pos) /\ Dense(Q, pos)
           /\ mm[t].held = "none" /\ ~Leaving(mm[t])
           /\ mm[t].pc \notin {"idle", "try", "load", "contend", "wait", "unlock_contended"}
  <1>1. /\ HolderInv(w, nd, mm, Q, pos) /\ TakenInv(nd, mm, wk, pos) /\ WordInv(w)
        /\ ListInv(w, nd, mm, Q, pos) /\ CallOK(mm[t])
    BY DEF RwInv, ShapeInv, CallInv
  <1>2. HolderOK(mm[t], nd, Q, pos) /\ \A u \in Threads : Holder(mm[u]) => u = t
    BY <1>1 DEF HolderInv
  <1>3. Taken(wk, t) = {}  BY <1>1, NoneTaken DEF TakenInv
  <1>4. {"QUEUED", "QUEUE_LOCKED"} \subseteq w.bits  BY <1>1 DEF HolderInv, WordInv
  <1>5. List(nd, Q, pos, w.ptr) /\ SomeTail(nd, Q, pos) /\ Dense(Q, pos)  BY <1>1, <1>4 DEF ListInv
  <1>6. /\ mm[t].held = "none" /\ ~Leaving(mm[t])
        /\ mm[t].pc \notin {"idle", "try", "load", "contend", "wait", "unlock_contended"}
    BY <1>1 DEF Holder, Leaving, CallOK
  <1> QED  BY <1>2, <1>3, <1>4, <1>5, <1>6

\* An exchange of unlock_queue fails: the traversal starts again from the word found.
LEMMA AgainStays ==
    ASSUME NEW Q, NEW wk, NEW pos, Ghosts(Q, wk, pos), RwInv(state, node, token, my, Q, wk, pos),
           NEW t \in Threads, my[t].pc = "unlock_queue", Retry(t, Again(t)), node' = node, token' = token
    PROVE  RwInv(state', node', token', my', Q, wk, pos)
  <1> DEFINE r == [Again(t) EXCEPT !.st = state]
  <1>1. /\ Types(state, node, token, my) /\ CallOK(my[t]) /\ CallInv(my)
        /\ ListInv(state, node, my, Q, pos)
    BY DEF RwInv, CallInv, ShapeInv
  <1>2. state' = state /\ Go(t, r) /\ token' \subseteq Threads  BY <1>1 DEF Retry, Types
  <1>3. my[t] \in Locals /\ state \in Words  BY <1>1 DEF Types
  <1>4. /\ Again(t) \in Locals /\ Again(t).pc = "walk" /\ Again(t).want = my[t].want
        /\ Again(t).held = my[t].held /\ Again(t).cur = state.ptr /\ Again(t).why = "unlock_queue"
    BY <1>3, TraverseFacts DEF Again
  <1>5. /\ r \in Locals /\ r.pc = "walk" /\ r.want = my[t].want /\ r.held = my[t].held
        /\ r.cur = state.ptr /\ r.why = "unlock_queue" /\ r.st = state
    BY <1>3, <1>4 DEF Locals
  <1> HIDE DEF r
  <1>6. Holder(my[t]) /\ ~Splitting(my[t])  BY <1>1 DEF Holder, Splitting, CallOK
  <1>7. Holder(r) /\ ~Splitting(r) /\ ~Leaving(r) /\ ~Grabbing(r)
    BY <1>5 DEF Holder, Splitting, Leaving, Grabbing
  <1>8. /\ Taken(wk, t) = {} /\ \A u \in Threads : Holder(my[u]) => u = t
        /\ {"QUEUED", "QUEUE_LOCKED"} \subseteq state.bits
        /\ List(node, Q, pos, state.ptr) /\ my[t].held = "none"
    BY <1>6, HolderFacts
  <1>9. RightTail(node, Q, pos)  BY <1>1, <1>6, <1>8, TailIsRight
  <1>10. HolderOK(r, node, Q, pos)  BY <1>5, <1>8, <1>9, HolderStarts DEF Ghosts
  <1>11. RoleOK(r, node, Q, Taken(wk, t), pos)  BY <1>7, <1>8, <1>10, HolderRole
  <1>12. CallOK(r)  BY <1>1, <1>5, <1>7, <1>8 DEF CallOK, Waking
  <1>13. Waits(r, node[t]) <=> Waits(my[t], node[t])  BY <1>5 DEF Waits
  <1>14. ReadLocked(state, my) => "LOCKED" \in r.st.bits  BY <1>5 DEF ReadLocked, Contended
  <1> QED  BY <1>2, <1>5, <1>6, <1>7, <1>11, <1>12, <1>13, <1>14, InsideGo

\* The exchange that was to split the tail off fails.
LEMMA WakeOneFails ==
    ASSUME NEW Q, NEW wk, NEW pos, Ghosts(Q, wk, pos), RwInv(state, node, token, my, Q, wk, pos),
           NEW t \in Threads, my[t].pc = "split", node' = node, token' = token,
           Retry(t, [my[t] EXCEPT !.pc = "undo", !.cur = my[t].st.ptr])
    PROVE  RwInv(state', node', token', my', Q, wk, pos)
  <1> DEFINE r == [[my[t] EXCEPT !.pc = "undo", !.cur = my[t].st.ptr] EXCEPT !.st = state]
  <1>1. Types(state, node, token, my) /\ CallOK(my[t]) /\ FreshInv(state, node, my, Q, pos)
    BY DEF RwInv, CallInv, ShapeInv
  <1>2. state' = state /\ Go(t, r) /\ token' \subseteq Threads  BY <1>1 DEF Retry, Types
  <1>3. my[t] \in Locals /\ state \in Words /\ my[t].st \in Words
    BY <1>1 DEF Types, Locals
  <1>4. /\ r \in Locals /\ r.pc = "undo" /\ r.want = my[t].want /\ r.held = my[t].held
        /\ r.cur = my[t].st.ptr /\ r.why = my[t].why /\ r.st = state /\ r.tl = my[t].tl
    BY <1>3 DEF Locals, PCs, Words
  <1> HIDE DEF r
  <1>5. Holder(my[t]) /\ Splitting(my[t])  BY <1>1 DEF Holder, Splitting, CallOK
  <1>6. Holder(r) /\ Splitting(r) /\ ~Leaving(r) /\ ~Grabbing(r)
    BY <1>4, <1>5 DEF Holder, Splitting, Leaving, Grabbing
  <1>7. /\ Taken(wk, t) = {} /\ {"QUEUED", "QUEUE_LOCKED"} \subseteq state.bits
        /\ List(node, Q, pos, state.ptr) /\ my[t].held = "none" /\ HolderOK(my[t], node, Q, pos)
    BY <1>5, HolderFacts
  <1>8. HolderOK(r, node, Q, pos)
    <2> DEFINE h == my[t].st.ptr
               z == my[t].tl
    <2>1. /\ h \in Q /\ Low(Q, pos, z) /\ node[z].prev \in Q /\ node[h].tail = node[z].prev
          /\ Bare(node, Q, pos, h)
      BY <1>7 DEF HolderOK, Traversing
    <2>2. state.ptr \in Q /\ pos[h] <= pos[state.ptr]  BY <1>7, <2>1 DEF List, High
    <2>3. pos[node[z].prev] = pos[z] + 1 /\ z \in Q
      <3>1. node[z].prev # Null /\ z \in Q BY <2>1, RwAssumption DEF Low, Ghosts
      <3> QED  BY <1>7, <3>1 DEF List, Prev
    <2>4. ~Low(Q, pos, node[z].prev)  BY <2>3 DEF Low, Ghosts
    <2>5. Traversing(r, node, Q, pos)  BY <1>4, <2>2 DEF Traversing
    <2> HIDE DEF h, z
    <2>6. r.cur = h /\ r.tl = z  BY <1>4 DEF h, z
    <2> QED  BY <1>4, <2>1, <2>2, <2>4, <2>5, <2>6 DEF HolderOK
  <1>9. RoleOK(r, node, Q, Taken(wk, t), pos)  BY <1>6, <1>7, <1>8, HolderRole
  <1>10. CallOK(r)  BY <1>1, <1>4, <1>5, <1>6, <1>7 DEF CallOK, Waking
  <1>11. Waits(r, node[t]) <=> Waits(my[t], node[t])  BY <1>4 DEF Waits
  <1>12. ~ReadLocked(state, my)  BY <1>1, <1>5 DEF FreshInv
  <1> QED  BY <1>2, <1>4, <1>5, <1>6, <1>9, <1>10, <1>11, <1>12, InsideGo

\* The locals with which lock_contended goes on to wait, or a function returns.
LEMMA ReturnedFacts ==
    ASSUME NEW t \in Threads, my[t] \in Locals, CallOK(my[t]), my[t].pc # "try"
    PROVE  /\ Returned(t) \in Locals /\ CallOK(Returned(t)) /\ Plain(Returned(t))
           /\ Returned(t).held = my[t].held /\ Returned(t).pc \in {"idle", "wait"}
           /\ Returned(t).want = my[t].want
  <1>1. my[t].held \in {"none", "read", "write"}  BY DEF Locals
  <1>2. CASE my[t].want = "none"  BY <1>1, <1>2, OutsideFacts DEF Returned
  <1>3. CASE my[t].want # "none"
    <2>1. Outside("none") \in Locals /\ Outside("none").held = "none" /\ Outside("none").why = "none"
      BY OutsideFacts DEF Outside
    <2>2. my[t].held = "none" /\ my[t].want \in {"read", "write"}  BY <1>3 DEF CallOK, Locals
    <2>3. Returned(t) = [Outside("none") EXCEPT !.pc = "wait", !.want = my[t].want]
      BY <1>3 DEF Returned, Waiting
    <2>4. /\ Returned(t) \in Locals /\ Returned(t).pc = "wait" /\ Returned(t).want = my[t].want
          /\ Returned(t).held = "none" /\ Returned(t).why = "none"
      BY <2>1, <2>2, <2>3 DEF Locals, PCs
    <2>5. CallOK(Returned(t))  BY <2>2, <2>4 DEF CallOK, Holder, Leaving, Grabbing, Waking
    <2> QED  BY <2>2, <2>4, <2>5 DEF Plain
  <1> QED  BY <1>2, <1>3

\* The thread whose node cur was completed is woken, and the next is seen to.
LEMMA UnparkStays ==
    ASSUME NEW Q, NEW wk, NEW pos, Ghosts(Q, wk, pos), RwInv(state, node, token, my, Q, wk, pos),
           NEW t \in Threads, Unpark(t)
    PROVE  RwInv(state', node', token', my', Q, wk, pos)
  <1>1. /\ Types(state, node, token, my) /\ CallOK(my[t])
        /\ TakenOK(my[t], node, Taken(wk, t), pos)
    BY DEF RwInv, CallInv, ShapeInv, TakenInv
  <1>2. /\ my[t].pc = "unpark" /\ state' = state /\ node' = node /\ token' = token \cup {my[t].cur}
        /\ Go(t, IF my[t].tl = Null THEN Returned(t)
                 ELSE [my[t] EXCEPT !.pc = "complete", !.cur = my[t].tl])
    BY DEF Unpark, At
  <1>3. my[t] \in Locals /\ my[t].cur # Null  BY <1>1, <1>2 DEF Types, CallOK
  <1>4. token' \subseteq Threads  BY <1>1, <1>2, <1>3 DEF Types, Locals, Ptr
  <1>5. ~Holder(my[t]) /\ ~Splitting(my[t])  BY <1>2 DEF Holder, Splitting
  <1>6. CASE my[t].tl # Null
    <2> DEFINE r == [my[t] EXCEPT !.pc = "complete", !.cur = my[t].tl]
    <2>1. Go(t, r)  BY <1>2, <1>6
    <2>2. /\ r \in Locals /\ r.pc = "complete" /\ r.want = my[t].want /\ r.held = my[t].held
          /\ r.cur = my[t].tl /\ r.why = my[t].why /\ r.st = my[t].st
      BY <1>3 DEF Locals, PCs
    <2> HIDE DEF r
    <2>3. ~Holder(r) /\ ~Leaving(r) /\ ~Grabbing(r) /\ ~Splitting(r) /\ Waking(r)
      BY <2>2 DEF Holder, Leaving, Grabbing, Splitting, Waking
    <2>4. Backward(node, Taken(wk, t), pos, r.cur)  BY <1>1, <1>2, <1>6, <2>2 DEF TakenOK
    <2>5. TakenOK(r, node, Taken(wk, t), pos)  BY <2>2, <2>3, <2>4 DEF TakenOK
    <2>6. RoleOK(r, node, Q, Taken(wk, t), pos)  BY <2>3, <2>5 DEF RoleOK
    <2>7. CallOK(r)  BY <1>1, <1>2, <2>2, <2>3 DEF CallOK, Waking
    <2>8. Waits(r, node[t]) <=> Waits(my[t], node[t])  BY <1>2, <2>2 DEF Waits
    <2> QED  BY <1>2, <1>4, <1>5, <2>1, <2>2, <2>3, <2>6, <2>7, <2>8, InsideGo
  <1>7. CASE my[t].tl = Null
    <2>1. Go(t, Returned(t)) /\ Taken(wk, t) = {}  BY <1>1, <1>2, <1>7 DEF TakenOK
    <2>2. /\ Returned(t) \in Locals /\ CallOK(Returned(t)) /\ Plain(Returned(t))
          /\ Returned(t).held = my[t].held /\ Returned(t).pc \in {"idle", "wait"}
          /\ Returned(t).want = my[t].want
      BY <1>1, <1>2, <1>3, ReturnedFacts
    <2>3. /\ ~Holder(Returned(t)) /\ ~Leaving(Returned(t)) /\ ~Splitting(Returned(t))
          /\ RoleOK(Returned(t), node, Q, Taken(wk, t), pos)
      BY <2>1, <2>2, PlainRole
    <2>4. Waits(Returned(t), node[t]) <=> Waits(my[t], node[t])  BY <1>2, <2>2 DEF Waits
    <2> QED  BY <1>2, <1>4, <1>5, <2>1, <2>2, <2>3, <2>4, InsideGo
  <1> QED  BY <1>6, <1>7

-----------------------------------------------------------------------------
(* Traversals *)

\* The nodes that a thread with the locals m traverses.
Walked(m, Q, S) == IF m.why = "downgrade" THEN S ELSE Q

\* What holds of a thread in find_tail_and_add_backlinks.
LEMMA WalkFacts ==
    ASSUME NEW Q, NEW wk, NEW pos, Ghosts(Q, wk, pos), RwInv(state, node, token, my, Q, wk, pos),
           NEW t \in Threads, my[t].pc \in {"walk", "found"}, NEW S, S = Walked(my[t], Q, Taken(wk, t))
    PROVE  /\ Holder(my[t]) \/ Leaving(my[t]) \/ Grabbing(my[t])
           /\ Holder(my[t]) => HolderOK(my[t], node, Q, pos)
           /\ ~Grabbing(my[t]) => S = Q /\ Taken(wk, t) = {}
           /\ S \in SUBSET Threads /\ Traversing(my[t], node, S, pos)
           /\ \E h : List(node, S, pos, h)
           /\ Grabbing(my[t]) => S = Taken(wk, t) /\ List(node, S, pos, my[t].st.ptr)
           /\ Leaving(my[t]) => ReadLocked(state, my) /\ Contended(my[t].st) /\ Fresh(node, S, pos)
           /\ my[t].pc = "walk" /\ ~Leaving(my[t]) => Finds(node, S, pos, my[t].cur)
  <1>1. /\ CallOK(my[t]) /\ LockInv(state, my) /\ LeavingInv(node, my, Q, pos) /\ my[t] \in Locals
        /\ FreshInv(state, node, my, Q, pos) /\ TakenOK(my[t], node, Taken(wk, t), pos)
        /\ ListInv(state, node, my, Q, pos)
    BY DEF RwInv, CallInv, ShapeInv, TakenInv, Types
  <1>2. my[t].why \in {"unlock_queue", "decrement", "downgrade"}  BY <1>1 DEF CallOK, Locals
  <1>3. Q \in SUBSET Threads /\ Taken(wk, t) \in SUBSET Threads  BY DEF Ghosts, Taken
  <1>4. CASE my[t].why = "unlock_queue"
    <2>1. Holder(my[t]) /\ ~Leaving(my[t]) /\ ~Grabbing(my[t]) /\ S = Q
      BY <1>4 DEF Holder, Leaving, Grabbing, Walked
    <2>2. HolderOK(my[t], node, Q, pos) /\ List(node, Q, pos, state.ptr) /\ Taken(wk, t) = {}
      BY <2>1, HolderFacts
    <2>3. /\ Traversing(my[t], node, S, pos)
          /\ my[t].pc = "walk" => Finds(node, S, pos, my[t].cur)
      BY <2>1, <2>2 DEF HolderOK
    <2> QED  BY <1>3, <2>1, <2>2, <2>3
  <1>5. CASE my[t].why = "decrement"
    <2>1. Leaving(my[t]) /\ ~Holder(my[t]) /\ ~Grabbing(my[t]) /\ S = Q
      BY <1>5 DEF Holder, Leaving, Grabbing, Walked
    <2>2. Traversing(my[t], node, S, pos)  BY <1>1, <2>1 DEF LeavingInv, LeavingOK
    <2>3. Contended(state) /\ Contended(my[t].st) /\ my[t].held = "read"
      BY <1>1, <2>1 DEF LockInv, CallOK
    <2>4. ReadLocked(state, my)  BY <2>3 DEF ReadLocked
    <2>5. Fresh(node, S, pos) /\ List(node, S, pos, state.ptr)
      BY <1>1, <2>1, <2>3, <2>4 DEF FreshInv, ListInv, Contended
    <2>6. Taken(wk, t) = {}  BY <1>1, <2>1, NoneTaken
    <2> QED  BY <1>3, <2>1, <2>2, <2>3, <2>4, <2>5, <2>6
  <1>6. CASE my[t].why = "downgrade"
    <2>1. Grabbing(my[t]) /\ ~Holder(my[t]) /\ ~Leaving(my[t]) /\ S = Taken(wk, t)
      BY <1>6 DEF Holder, Leaving, Grabbing, Walked
    <2>2. /\ List(node, S, pos, my[t].st.ptr) /\ Traversing(my[t], node, S, pos)
          /\ my[t].pc = "walk" => Finds(node, S, pos, my[t].cur)
      BY <1>1, <2>1 DEF TakenOK
    <2> QED  BY <1>3, <2>1, <2>2
  <1> QED  BY <1>2, <1>4, <1>5, <1>6

\* A thread that goes on with its traversal, with the locals r after m.
LEMMA TraversalRole ==
    ASSUME NEW m, NEW r, NEW nd, NEW Q, NEW T, NEW S, NEW pos, m.pc \in {"walk", "found"},
           r.pc \in {"walk", "found"}, r.why = m.why, r.st = m.st, S = Walked(m, Q, T),
           Holder(m) \/ Leaving(m) \/ Grabbing(m), ~Grabbing(m) => T = {},
           Traversing(r, nd, S, pos), Grabbing(m) => List(nd, S, pos, r.st.ptr),
           r.pc = "walk" /\ ~Leaving(m) => Finds(nd, S, pos, r.cur),
           Holder(m) /\ "LOCKED" \notin r.st.bits => Bare(nd, Q, pos, r.st.ptr)
    PROVE  /\ RoleOK(r, nd, Q, T, pos) /\ ~Splitting(r)
           /\ (Holder(r) <=> Holder(m)) /\ (Leaving(r) <=> Leaving(m)) /\ (Grabbing(r) <=> Grabbing(m))
  <1>1. /\ (Holder(r) <=> Holder(m)) /\ (Leaving(r) <=> Leaving(m)) /\ (Grabbing(r) <=> Grabbing(m))
        /\ ~Splitting(r) /\ ~Waking(r)
    BY DEF Holder, Leaving, Grabbing, Splitting, Waking
  <1>2. CASE Holder(m)
    <2>1. ~Leaving(m) /\ ~Grabbing(m) /\ S = Q  BY <1>2 DEF Holder, Leaving, Grabbing, Walked
    <2>2. HolderOK(r, nd, Q, pos)  BY <1>2, <2>1 DEF HolderOK
    <2> QED  BY <1>1, <1>2, <2>1, <2>2, HolderRole
  <1>3. CASE Leaving(m)
    <2>1. ~Holder(m) /\ ~Grabbing(m) /\ S = Q  BY <1>3 DEF Holder, Leaving, Grabbing, Walked
    <2>2. LeavingOK(r, nd, Q, pos)  BY <2>1 DEF LeavingOK
    <2> QED  BY <1>1, <1>3, <2>1, <2>2, LeavingRole
  <1>4. CASE Grabbing(m)
    <2>1. ~Holder(m) /\ ~Leaving(m) /\ S = T  BY <1>4 DEF Holder, Leaving, Grabbing, Walked
    <2>2. TakenOK(r, nd, T, pos)  BY <1>1, <1>4, <2>1 DEF TakenOK
    <2> QED  BY <1>1, <2>1, <2>2 DEF RoleOK
  <1> QED  BY <1>2, <1>3, <1>4

\* The traversal has come to a node with a tail.
LEMMA WalkFinds ==
    ASSUME NEW Q, NEW wk, NEW pos, Ghosts(Q, wk, pos), RwInv(state, node, token, my, Q, wk, pos),
           NEW t \in Threads, Walk(t), node[my[t].cur].tail # Null
    PROVE  RwInv(state', node', token', my', Q, wk, pos)
  <1> DEFINE c == my[t].cur
             S == Walked(my[t], Q, Taken(wk, t))
             r == [my[t] EXCEPT !.pc = "found", !.tl = node[c].tail]
  <1>1. /\ Types(state, node, token, my) /\ CallOK(my[t]) /\ FreshInv(state, node, my, Q, pos)
    BY DEF RwInv, CallInv, ShapeInv
  <1>2. /\ my[t].pc = "walk" /\ state' = state /\ node' = node /\ token' \subseteq Threads /\ Go(t, r)
    BY <1>1 DEF Walk, At, Types
  <1>3. /\ Holder(my[t]) \/ Leaving(my[t]) \/ Grabbing(my[t])
        /\ Holder(my[t]) => HolderOK(my[t], node, Q, pos)
        /\ ~Grabbing(my[t]) => S = Q /\ Taken(wk, t) = {}
        /\ S \in SUBSET Threads /\ Traversing(my[t], node, S, pos)
        /\ \E h : List(node, S, pos, h)
        /\ Grabbing(my[t]) => S = Taken(wk, t) /\ List(node, S, pos, my[t].st.ptr)
        /\ Leaving(my[t]) => ReadLocked(state, my) /\ Contended(my[t].st) /\ Fresh(node, S, pos)
        /\ my[t].pc = "walk" /\ ~Leaving(my[t]) => Finds(node, S, pos, my[t].cur)
    BY <1>2, WalkFacts
  <1>4. c \in S /\ Linked(node, S, pos, c, my[t].st.ptr) /\ my[t].st.ptr \in S
    BY <1>2, <1>3 DEF Traversing
  <1>5. my[t] \in Locals /\ node[c] \in Nodes  BY <1>1, <1>3, <1>4 DEF Types
  <1>6. /\ r \in Locals /\ r.pc = "found" /\ r.want = my[t].want /\ r.held = my[t].held
        /\ r.tl = node[c].tail /\ r.why = my[t].why /\ r.st = my[t].st
    BY <1>5 DEF Locals, PCs, Nodes
  <1>7. PICK h : List(node, S, pos, h)  BY <1>3
  <1> HIDE DEF r, c, S
  <1>8. Low(S, pos, node[c].tail)
    <2>1. node[c].tail # Null /\ OneEach(S, pos)  BY <1>7 DEF c, List
    <2>2. CASE Leaving(my[t])  BY <1>3, <1>4, <2>1, <2>2 DEF Fresh
    <2>3. CASE ~Leaving(my[t])
      <3>1. Finds(node, S, pos, c)  BY <1>2, <1>3, <2>3 DEF c
      <3> QED  BY <1>3, <1>4, <2>1, <3>1, FoundTail DEF Ghosts
    <2> QED  BY <2>2, <2>3
  <1>9. \A n \in S : pos[n] < pos[my[t].st.ptr] => node[n].prev # Null
    <2>1. node[c].tail # Null  BY DEF c
    <2> QED  BY <1>3, <1>4, <1>7, <2>1, LinkedBelow DEF Ghosts
  <1>10. Traversing(r, node, S, pos)
    <2>1. Linked(node, S, pos, r.tl, r.st.ptr)  BY <1>6, <1>9 DEF Linked
    <2> QED  BY <1>4, <1>6, <1>8, <2>1 DEF Traversing
  <1>11. Holder(my[t]) /\ "LOCKED" \notin r.st.bits => Bare(node, Q, pos, r.st.ptr)
    BY <1>2, <1>3, <1>6 DEF HolderOK
  <1>12. /\ RoleOK(r, node, Q, Taken(wk, t), pos) /\ ~Splitting(r)
         /\ (Holder(r) <=> Holder(my[t])) /\ (Leaving(r) <=> Leaving(my[t]))
         /\ (Grabbing(r) <=> Grabbing(my[t]))
    BY <1>2, <1>3, <1>6, <1>10, <1>11, TraversalRole DEF S
  <1>13. CallOK(r)  BY <1>1, <1>2, <1>6, <1>12 DEF CallOK, Waking
  <1>14. Waits(r, node[t]) <=> Waits(my[t], node[t])  BY <1>2, <1>6 DEF Waits
  <1>15. /\ ReadLocked(state, my) /\ Holder(r) => "LOCKED" \in r.st.bits /\ ~Splitting(r)
         /\ Leaving(r) => Contended(state) /\ Contended(r.st)
    BY <1>1, <1>3, <1>6, <1>12 DEF FreshInv, ReadLocked
  <1>16. ~Splitting(my[t])  BY <1>2 DEF Splitting
  <1> QED  BY <1>2, <1>6, <1>12, <1>13, <1>14, <1>15, <1>16, InsideGo

\* The traversal sets a backlink and goes on.
LEMMA WalkLinks ==
    ASSUME NEW Q, NEW wk, NEW pos, Ghosts(Q, wk, pos), RwInv(state, node, token, my, Q, wk, pos),
           NEW t \in Threads, Walk(t), node[my[t].cur].tail = Null
    PROVE  RwInv(state', node', token', my', Q, wk, pos)
  <1> DEFINE c == my[t].cur
             x == node[c].next
             S == Walked(my[t], Q, Taken(wk, t))
             r == [my[t] EXCEPT !.cur = x]
  <1>1. /\ Types(state, node, token, my) /\ CallOK(my[t]) /\ FreshInv(state, node, my, Q, pos)
        /\ WaitInv(node, my, Q, wk)
    BY DEF RwInv, CallInv, ShapeInv
  <1>2. /\ my[t].pc = "walk" /\ state' = state /\ token' \subseteq Threads /\ Go(t, r)
        /\ node' = [node EXCEPT ![x].prev = c]
    BY <1>1 DEF Walk, At, Types
  <1>3. /\ Holder(my[t]) \/ Leaving(my[t]) \/ Grabbing(my[t])
        /\ Holder(my[t]) => HolderOK(my[t], node, Q, pos)
        /\ ~Grabbing(my[t]) => S = Q /\ Taken(wk, t) = {}
        /\ S \in SUBSET Threads /\ Traversing(my[t], node, S, pos)
        /\ \E h : List(node, S, pos, h)
        /\ Grabbing(my[t]) => S = Taken(wk, t) /\ List(node, S, pos, my[t].st.ptr)
        /\ Leaving(my[t]) => ReadLocked(state, my) /\ Contended(my[t].st) /\ Fresh(node, S, pos)
        /\ my[t].pc = "walk" /\ ~Leaving(my[t]) => Finds(node, S, pos, my[t].cur)
    BY <1>2, WalkFacts
  <1>4. /\ c \in S /\ Linked(node, S, pos, c, my[t].st.ptr) /\ my[t].st.ptr \in S
        /\ pos[c] <= pos[my[t].st.ptr] /\ node[c].tail = Null
    BY <1>2, <1>3 DEF Traversing
  <1>5. my[t] \in Locals /\ node[c] \in Nodes /\ c \in Threads  BY <1>1, <1>3, <1>4 DEF Types
  <1>6. /\ r \in Locals /\ r.pc = "walk" /\ r.want = my[t].want /\ r.held = my[t].held
        /\ r.cur = x /\ r.why = my[t].why /\ r.st = my[t].st
    BY <1>2, <1>5 DEF Locals, PCs, Nodes
  <1>7. PICK h : List(node, S, pos, h)  BY <1>3
  <1> HIDE DEF r, c, S
  <1>8. /\ x \in S /\ pos[x] + 1 = pos[c]
        /\ ~Leaving(my[t]) => Finds(node, S, pos, x)
    <2>1. CASE Leaving(my[t])  BY <1>3, <1>4, <1>7, <2>1, FreshOn DEF Ghosts
    <2>2. CASE ~Leaving(my[t])
      <3>1. Finds(node, S, pos, c)  BY <1>2, <1>3, <2>2 DEF c
      <3> QED  BY <1>3, <1>4, <1>7, <3>1, FindsOn DEF Ghosts
    <2> QED  BY <2>1, <2>2
  <1> HIDE DEF x
  <1>9. x \in Threads /\ node \in [Threads -> Nodes]  BY <1>1, <1>3, <1>8 DEF Types
  <1>10. /\ node' \in [Threads -> Nodes] /\ node'[x].prev = c
         /\ \A n \in Threads : n # x => node'[n] = node[n]
         /\ \A n \in Threads : /\ node'[n].next = node[n].next /\ node'[n].tail = node[n].tail
                               /\ node'[n].write = node[n].write /\ node'[n].count = node[n].count
                               /\ node'[n].completed = node[n].completed
    BY <1>2, <1>5, <1>9 DEF Nodes, Ptr
  <1>11. Keeps(node', pos, node, pos, S)  BY <1>3, <1>4, <1>7, <1>8, <1>10, LinkKeeps DEF Ghosts
  <1>12. Keeps(node', pos, node, pos, Q)
         /\ \A u \in Threads : Keeps(node', pos, node, pos, Taken(wk, u))
    <2>1. CASE S = Q
      <3>1. \A u \in Threads : \A n \in Taken(wk, u) : n \in Threads /\ n # x
        BY <1>1, <1>8, <2>1, RwAssumption DEF Taken, WaitInv
      <3>2. \A u \in Threads : \A n \in Taken(wk, u) : node'[n] = node[n]  BY <1>10, <3>1
      <3> QED  BY <1>11, <2>1, <3>2, KeepSame
    <2>2. CASE S = Taken(wk, t)
      <3>1. wk[x] = t  BY <1>8, <2>2 DEF Taken
      <3>2. x \notin Q  BY <1>1, <1>9, <3>1, RwAssumption DEF WaitInv
      <3>3. \A n \in Q : node'[n] = node[n]  BY <1>10, <3>2 DEF Ghosts
      <3>4. \A u \in Threads : u # t => \A n \in Taken(wk, u) : node'[n] = node[n]
        BY <1>10, <3>1 DEF Taken
      <3> QED  BY <1>11, <2>2, <3>3, <3>4, KeepSame
    <2> QED  BY <1>3, <2>1, <2>2
  <1>13. Traversing(r, node', S, pos)
    <2>1. Linked(node', S, pos, x, r.st.ptr)
      BY <1>3, <1>4, <1>6, <1>7, <1>8, <1>10, <1>11, LinkedOn DEF Ghosts, List
    <2>2. pos[x] <= pos[r.st.ptr]  BY <1>3, <1>4, <1>6, <1>8 DEF Ghosts
    <2> QED  BY <1>4, <1>6, <1>8, <2>1, <2>2 DEF Traversing
  <1>14. ~Leaving(my[t]) => Finds(node', S, pos, r.cur)  BY <1>3, <1>6, <1>8, <1>11, KeepTails
  <1>15. Holder(my[t]) /\ "LOCKED" \notin r.st.bits => Bare(node', Q, pos, r.st.ptr)
    <2>1. Holder(my[t]) => S = Q  BY <1>3 DEF Holder, Grabbing
    <2>2. Holder(my[t]) /\ "LOCKED" \notin r.st.bits => Bare(node, Q, pos, r.st.ptr)
      BY <1>2, <1>3, <1>6 DEF HolderOK
    <2> QED  BY <1>3, <1>4, <1>6, <1>11, <2>1, <2>2, KeepTails
  <1>16. Grabbing(my[t]) => List(node', S, pos, r.st.ptr)  BY <1>3, <1>6, <1>11, KeepList
  <1>17. /\ RoleOK(r, node', Q, Taken(wk, t), pos) /\ ~Splitting(r)
         /\ (Holder(r) <=> Holder(my[t])) /\ (Leaving(r) <=> Leaving(my[t]))
         /\ (Grabbing(r) <=> Grabbing(my[t]))
    BY <1>2, <1>3, <1>6, <1>13, <1>14, <1>15, <1>16, TraversalRole DEF S
  <1>18. CallOK(r)  BY <1>1, <1>2, <1>6, <1>17 DEF CallOK, Waking
  <1>19. Waits(r, node[t]) <=> Waits(my[t], node[t])  BY <1>2, <1>6 DEF Waits
  <1>20. /\ ReadLocked(state, my) /\ Holder(r) => "LOCKED" \in r.st.bits /\ ~Splitting(r)
         /\ Leaving(r) => Contended(state) /\ Contended(r.st)
    BY <1>1, <1>3, <1>6, <1>17 DEF FreshInv, ReadLocked
  <1>21. ~Splitting(my[t])  BY <1>2 DEF Splitting
  <1> QED  BY <1>2, <1>6, <1>10, <1>12, <1>17, <1>18, <1>19, <1>20, <1>21, InsideStep

-----------------------------------------------------------------------------
(* Caching a tail *)

\* What a thread in unlock_queue relies on outlives a right tail cached by another,
\* which is a reader that leaves.
LEMMA CacheHolder ==
    ASSUME NEW nd, NEW nd2, NEW pos \in [Threads -> Nat], NEW S \in SUBSET Threads, NEW x \in S, NEW tl,
           Caches(nd2, nd, S, x, tl), Low(S, pos, tl), OneEach(S, pos),
           NEW m, HolderOK(m, nd, S, pos), ~Splitting(m), "LOCKED" \in m.st.bits
    PROVE  HolderOK(m, nd2, S, pos)
  <1>1. Traversing(m, nd2, S, pos)  BY CacheTraversing DEF HolderOK
  <1>2. m.st.ptr \in S /\ (m.pc = "walk" => m.cur \in S)  BY DEF HolderOK, Traversing
  <1>3. m.pc = "walk" => Finds(nd2, S, pos, m.cur)  BY <1>2, CacheTails DEF HolderOK
  <1>4. m.pc = "unlock_queue" => Low(S, pos, m.tl) /\ nd2[m.st.ptr].tail = m.tl
    <2> SUFFICES ASSUME m.pc = "unlock_queue" PROVE Low(S, pos, m.tl) /\ nd2[m.st.ptr].tail = m.tl
      OBVIOUS
    <2>1. Low(S, pos, m.tl) /\ nd[m.st.ptr].tail = m.tl  BY DEF HolderOK
    <2>2. m.tl = tl  BY <2>1 DEF Low, OneEach
    <2> QED  BY <1>2, <2>1, <2>2 DEF Caches
  <1>5. m.pc \notin {"split", "undo"}  BY DEF Splitting
  <1> QED  BY <1>1, <1>3, <1>4, <1>5 DEF HolderOK

\* The node x caches the tail tl.
CachesTail(x, tl) == node' = [node EXCEPT ![x].tail = tl]

\* A step of t, in unlock_queue or read_unlock_contended, that caches the right tail tl
\* in x and goes on with the locals r.
LEMMA CacheStep ==
    ASSUME NEW Q, NEW wk, NEW pos, Ghosts(Q, wk, pos), RwInv(state, node, token, my, Q, wk, pos),
           NEW t \in Threads, Holder(my[t]) \/ (Leaving(my[t]) /\ ReadLocked(state, my)),
           NEW r \in Locals, Go(t, r), state' = state, token' = token,
           NEW x \in Q, NEW tl \in Q, CachesTail(x, tl),
           \A n \in Q : pos[n] < pos[x] => node[n].prev # Null,
           Splitting(r) \/ Low(Q, pos, tl), Splitting(r) => Holder(r) /\ SomeTail(node', Q, pos),
           Splitting(my[t]) => Splitting(r) \/ RightTail(node', Q, pos),
           CallOK(r), r.held = my[t].held, r.want = my[t].want, r.why = my[t].why, r.st = my[t].st,
           Holder(r) <=> Holder(my[t]), Leaving(r) <=> Leaving(my[t]),
           Holder(r) => HolderOK(r, node', Q, pos), Leaving(r) => LeavingOK(r, node', Q, pos),
           Holder(r) /\ Splitting(r) => ~ReadLocked(state, my)
    PROVE  RwInv(state', node', token', my', Q, wk, pos)
  <1>1. /\ Types(state, node, token, my) /\ LockInv(state, my) /\ WordInv(state)
        /\ CallInv(my) /\ CountInv(state, node, my, Q, pos)
        /\ ListInv(state, node, my, Q, pos) /\ HolderInv(state, node, my, Q, pos)
        /\ LeavingInv(node, my, Q, pos) /\ FreshInv(state, node, my, Q, pos)
        /\ TakenInv(node, my, wk, pos) /\ WaitInv(node, my, Q, wk)
    BY DEF RwInv, ShapeInv
  <1>2. my'[t] = r /\ Others(my', my, t) /\ my' \in [Threads -> Locals]  BY <1>1, GoFacts DEF Types
  <1>3. x \in Threads /\ tl \in Threads /\ node \in [Threads -> Nodes] /\ Q \in SUBSET Threads
        /\ pos \in [Threads -> Nat]
    BY <1>1 DEF Types, Ghosts
  <1>4. /\ node' \in [Threads -> Nodes] /\ node'[x].tail = tl
        /\ \A n \in Threads : n # x => node'[n] = node[n]
        /\ \A n \in Threads : /\ node'[n].next = node[n].next /\ node'[n].prev = node[n].prev
                              /\ node'[n].write = node[n].write /\ node'[n].count = node[n].count
                              /\ node'[n].completed = node[n].completed
    BY <1>3 DEF CachesTail, Nodes, Ptr
  <1>5. Caches(node', node, Q, x, tl)  BY <1>3, <1>4 DEF Caches
  <1>6. Q # {} /\ "QUEUED" \in state.bits /\ List(node, Q, pos, state.ptr) /\ SomeTail(node, Q, pos)
        /\ OneEach(Q, pos) /\ Dense(Q, pos) /\ \E n \in Q : Low(Q, pos, n)
    BY <1>1 DEF ListInv, List
  <1>7. List(node', Q, pos, state.ptr)  BY <1>3, <1>5, <1>6, CacheList
  <1>8. ~Splitting(r) => /\ SomeTail(node', Q, pos)
                         /\ RightTail(node, Q, pos) => RightTail(node', Q, pos)
                         /\ Fresh(node, Q, pos) => Fresh(node', Q, pos)
    BY <1>3, <1>5, <1>6, CacheTails
  <1>9. ListInv(state', node', my', Q, pos)
    <2>1. SomeTail(node', Q, pos)  BY <1>8
    <2>2. (\A u \in Threads : ~Splitting(my'[u])) => RightTail(node', Q, pos)
      <3> SUFFICES ASSUME \A u \in Threads : ~Splitting(my'[u]) PROVE RightTail(node', Q, pos)
        OBVIOUS
      <3>1. ~Splitting(r)  BY <1>2
      <3>2. CASE Splitting(my[t])  BY <3>1, <3>2
      <3>3. CASE ~Splitting(my[t])
        <4>1. \A u \in Threads : ~Splitting(my[u])  BY <1>2, <3>3 DEF Others
        <4>2. RightTail(node, Q, pos)  BY <1>1, <1>6, <4>1 DEF ListInv
        <4> QED  BY <1>8, <3>1, <4>2
      <3> QED  BY <3>2, <3>3
    <2> QED  BY <1>6, <1>7, <2>1, <2>2 DEF ListInv
  <1>10. HolderInv(state', node', my', Q, pos)
    <2>1. \A u \in Threads : Holder(my'[u]) <=> Holder(my[u])  BY <1>2 DEF Others
    <2>2. ASSUME NEW u \in Threads, Holder(my'[u]) PROVE HolderOK(my'[u], node', Q, pos)
      <3>1. CASE u = t  BY <1>2, <2>2, <3>1
      <3>2. CASE u # t
        <4>1. my'[u] = my[u] /\ Holder(my[u])  BY <1>2, <2>2, <3>2 DEF Others
        <4>2. ~Holder(my[t])  BY <1>1, <3>2, <4>1 DEF HolderInv
        <4>3. ReadLocked(state, my) /\ ~Splitting(r)  BY <4>2
        <4>4. "LOCKED" \in my[u].st.bits /\ ~Splitting(my[u])  BY <1>1, <4>1, <4>3 DEF FreshInv
        <4>5. HolderOK(my[u], node, Q, pos)  BY <1>1, <4>1 DEF HolderInv
        <4> QED  BY <1>3, <1>5, <1>6, <4>1, <4>3, <4>4, <4>5, CacheHolder
      <3> QED  BY <3>1, <3>2
    <2> QED  BY <1>1, <2>1, <2>2 DEF HolderInv
  <1>11. LeavingInv(node', my', Q, pos)
    <2> SUFFICES ASSUME NEW u \in Threads, Leaving(my'[u]) PROVE LeavingOK(my'[u], node', Q, pos)
      BY DEF LeavingInv
    <2>1. CASE u = t  BY <1>2, <2>1
    <2>2. CASE u # t
      <3>1. my'[u] = my[u] /\ LeavingOK(my[u], node, Q, pos)
        BY <1>1, <1>2, <2>2 DEF Others, LeavingInv
      <3>2. Traversing(my[u], node', Q, pos)
        BY <1>3, <1>5, <3>1, CacheTraversing DEF LeavingOK
      <3> QED  BY <3>1, <3>2 DEF LeavingOK
    <2> QED  BY <2>1, <2>2
  <1>12. FreshInv(state', node', my', Q, pos)
    <2> SUFFICES ASSUME ReadLocked(state', my') PROVE
          /\ Fresh(node', Q, pos)
          /\ \A u \in Threads : Holder(my'[u]) => "LOCKED" \in my'[u].st.bits /\ ~Splitting(my'[u])
      BY DEF FreshInv
    <2>1. ReadLocked(state, my)  BY <1>2 DEF ReadLocked, Others
    <2>2. ~Splitting(r)  BY <2>1
    <2>3. Fresh(node', Q, pos)  BY <1>1, <1>8, <2>1, <2>2 DEF FreshInv
    <2>4. \A u \in Threads : Holder(my'[u]) => "LOCKED" \in my'[u].st.bits /\ ~Splitting(my'[u])
      BY <1>1, <1>2, <2>1, <2>2 DEF FreshInv, Others
    <2> QED  BY <2>3, <2>4
  <1>13. TakenInv(node', my', wk, pos)
    <2>1. \A u \in Threads : Taken(wk, u) \in SUBSET Threads  BY DEF Taken
    <2>2. \A u \in Threads : \A n \in Taken(wk, u) : n # x
      BY <1>1, <1>3, RwAssumption DEF Taken, WaitInv
    <2>3. \A u \in Threads : \A n \in Taken(wk, u) : node'[n] = node[n]  BY <1>4, <2>1, <2>2
    <2>4. \A u \in Threads : Keeps(node', pos, node, pos, Taken(wk, u))  BY <2>3, KeepSame
    <2>5. Taken(wk, t) = {}  BY <1>1, NoneTaken DEF TakenInv
    <2>6. Holder(r) \/ Leaving(r)  OBVIOUS
    <2>7. TakenOK(r, node', Taken(wk, t), pos)  BY <2>5, <2>6, NoneTaken
    <2>8. ASSUME NEW u \in Threads PROVE TakenOK(my'[u], node', Taken(wk, u), pos)
      <3>1. CASE u = t  BY <1>2, <2>7, <3>1
      <3>2. CASE u # t  
        <4>1. my'[u] = my[u] /\ TakenOK(my[u], node, Taken(wk, u), pos)
          BY <1>1, <1>2, <3>2 DEF Others, TakenInv
        <4> QED  BY <1>3, <2>1, <2>4, <4>1, KeepTaken
      <3> QED  BY <3>1, <3>2
    <2> QED  BY <2>8 DEF TakenInv
  <1>14. WaitInv(node', my', Q, wk)
    <2>1. Waits(r, node'[t]) <=> Waits(my[t], node[t])
      BY <1>4 DEF Waits, Holder, Leaving
    <2>2. SameWaits(my', node', my, node)  BY <1>2, <1>4, <2>1 DEF SameWaits, Waits, Others
    <2> QED  BY <1>1, <2>2, SameWaitInv
  <1>15. LockInv(state', my') /\ Counted(my') = Counted(my)
    <2>1. r.pc \notin {"unlock_contended", "downgrade_slow"} /\ my[t].pc # "unlock_contended"
      BY DEF Holder, Leaving
    <2>2. t \in Counted(my') <=> t \in Counted(my)  BY <1>2, <2>1 DEF Counted
    <2>3. Leaving(my'[t]) => Contended(state) /\ Contended(my'[t].st)  BY <1>1, <1>2 DEF LockInv
    <2> QED  BY <1>1, <1>2, <2>1, <2>2, <2>3, LockStays
  <1>16. CountInv(state', node', my', Q, pos)
    <2>1. \A n \in Q : node'[n].count = node[n].count  BY <1>3, <1>4
    <2>2. Counted(my') = Counted(my) /\ CountInv(state, node, my, Q, pos)  BY <1>1, <1>15
    <2> QED  BY <2>1, <2>2, CountKeep
  <1>17. Types(state', node', token', my')  BY <1>1, <1>2, <1>4 DEF Types
  <1>18. CallInv(my')  BY <1>1, <1>2, CallStep
  <1>19. ShapeInv(state', node', my', Q, wk, pos)
    BY <1>9, <1>10, <1>11, <1>12, <1>13, <1>14 DEF ShapeInv
  <1> QED  BY <1>1, <1>15, <1>16, <1>17, <1>18, <1>19 DEF RwInv

\* The tail that a traversal of the queue has found is cached in its first node.
LEMMA FoundStays ==
    ASSUME NEW Q, NEW wk, NEW pos, Ghosts(Q, wk, pos), RwInv(state, node, token, my, Q, wk, pos),
           NEW t \in Threads, Found(t), my[t].why # "downgrade"
    PROVE  RwInv(state', node', token', my', Q, wk, pos)
  <1> DEFINE r == [my[t] EXCEPT !.pc = my[t].why]
  <1> DEFINE x == my[t].st.ptr
             tl == my[t].tl
  <1>1. /\ Types(state, node, token, my) /\ CallOK(my[t])  BY DEF RwInv, CallInv
  <1>2. /\ my[t].pc = "found" /\ state' = state /\ token' = token /\ Go(t, r)
        /\ CachesTail(x, tl)
    BY DEF Found, At, Goto, CachesTail
  <1>3. my[t] \in Locals /\ my[t].why \in {"unlock_queue", "decrement"}
    BY <1>1, <1>2 DEF Types, Locals, CallOK
  <1>4. /\ r \in Locals /\ r.pc = my[t].why /\ r.want = my[t].want /\ r.held = my[t].held
        /\ r.tl = my[t].tl /\ r.why = my[t].why /\ r.st = my[t].st
    BY <1>3 DEF Locals, PCs
  <1> HIDE DEF r
  <1>5. /\ Holder(my[t]) \/ Leaving(my[t])
        /\ ~Grabbing(my[t]) /\ ~Splitting(my[t]) /\ ~Splitting(r) /\ ~Grabbing(r) /\ ~Waking(r)
        /\ (Holder(r) <=> Holder(my[t])) /\ (Leaving(r) <=> Leaving(my[t]))
    BY <1>2, <1>3, <1>4 DEF Holder, Leaving, Grabbing, Splitting, Waking
  <1>6. Q = Walked(my[t], Q, Taken(wk, t))  BY DEF Walked
  <1>7. /\ Holder(my[t]) => HolderOK(my[t], node, Q, pos)
        /\ Q \in SUBSET Threads /\ Traversing(my[t], node, Q, pos) /\ \E h : List(node, Q, pos, h)
        /\ Leaving(my[t]) => ReadLocked(state, my)
    BY <1>2, <1>5, <1>6, WalkFacts
  <1>8. /\ x \in Q /\ Low(Q, pos, tl) /\ tl \in Q /\ Linked(node, Q, pos, tl, x)
        /\ pos \in [Threads -> Nat] /\ OneEach(Q, pos)
    BY <1>2, <1>7 DEF Traversing, Low, Ghosts, List
  <1>9. \A n \in Q : pos[n] < pos[x] => node[n].prev # Null  BY <1>8 DEF Low, Linked
  <1> HIDE DEF x, tl
  <1>10. node \in [Threads -> Nodes] /\ x \in Threads  BY <1>1, <1>7, <1>8 DEF Types
  <1>11. Caches(node', node, Q, x, tl)
    BY <1>2, <1>7, <1>10 DEF Caches, CachesTail, Nodes
  <1>12. Traversing(r, node', Q, pos)  BY <1>3, <1>4, <1>7 DEF Traversing
  <1>13. Holder(r) => HolderOK(r, node', Q, pos)
    <2> SUFFICES ASSUME Holder(r) PROVE HolderOK(r, node', Q, pos)  OBVIOUS
    <2>1. r.pc = "unlock_queue"  BY <1>3, <1>4 DEF Holder
    <2>2. Low(Q, pos, r.tl) /\ node'[r.st.ptr].tail = r.tl  BY <1>4, <1>8, <1>11 DEF Caches, x, tl
    <2>3. "LOCKED" \notin r.st.bits => Bare(node', Q, pos, r.st.ptr)
      <3>1. "LOCKED" \notin r.st.bits => Bare(node, Q, pos, x)
        BY <1>2, <1>4, <1>5, <1>7 DEF HolderOK, x
      <3>2. Bare(node, Q, pos, x) => Bare(node', Q, pos, x)
        BY <1>7, <1>8, <1>11, CacheTails
      <3> QED  BY <1>4, <3>1, <3>2 DEF x
    <2> QED  BY <1>12, <2>1, <2>2, <2>3 DEF HolderOK
  <1>14. Leaving(r) => LeavingOK(r, node', Q, pos)  BY <1>4, <1>8, <1>12 DEF LeavingOK, tl
  <1>15. CallOK(r)  BY <1>1, <1>2, <1>3, <1>4, <1>5 DEF CallOK
  <1> QED  BY <1>2, <1>4, <1>5, <1>7, <1>8, <1>9, <1>13, <1>14, <1>15, CacheStep

\* downgrade_slow has found the tail of the queue it has taken.
LEMMA FoundTaken ==
    ASSUME NEW Q, NEW wk, NEW pos, Ghosts(Q, wk, pos), RwInv(state, node, token, my, Q, wk, pos),
           NEW t \in Threads, Found(t), my[t].why = "downgrade"
    PROVE  RwInv(state', node', token', my', Q, wk, pos)
  <1> DEFINE r == [my[t] EXCEPT !.pc = "complete", !.cur = my[t].tl]
             x == my[t].st.ptr
             tl == my[t].tl
             S == Taken(wk, t)
  <1>1. /\ Types(state, node, token, my) /\ CallOK(my[t]) /\ WaitInv(node, my, Q, wk)
    BY DEF RwInv, CallInv, ShapeInv
  <1>2. /\ my[t].pc = "found" /\ state' = state /\ token' \subseteq Threads /\ Go(t, r)
        /\ node' = [node EXCEPT ![x].tail = tl]
    BY <1>1 DEF Found, At, Types
  <1>3. my[t] \in Locals  BY <1>1 DEF Types
  <1>4. /\ r \in Locals /\ r.pc = "complete" /\ r.want = my[t].want /\ r.held = my[t].held
        /\ r.cur = tl /\ r.why = "downgrade" /\ r.st = my[t].st
    BY <1>3 DEF Locals, PCs
  <1> HIDE DEF r
  <1>5. /\ Grabbing(my[t]) /\ ~Holder(my[t]) /\ ~Splitting(my[t])
        /\ ~Holder(r) /\ ~Splitting(r) /\ ~Leaving(r) /\ ~Grabbing(r) /\ Waking(r)
    BY <1>2, <1>4 DEF Holder, Leaving, Grabbing, Splitting, Waking
  <1>6. S = Walked(my[t], Q, Taken(wk, t))  BY DEF Walked
  <1>7. S \in SUBSET Threads /\ Traversing(my[t], node, S, pos) /\ List(node, S, pos, x)
    BY <1>2, <1>5, <1>6, WalkFacts
  <1>8. /\ x \in S /\ Low(S, pos, tl) /\ tl \in S /\ Linked(node, S, pos, tl, x)
        /\ pos \in [Threads -> Nat]
    BY <1>2, <1>7 DEF Traversing, Low, Ghosts
  <1>9. \A n \in S : pos[n] < pos[x] => node[n].prev # Null  BY <1>8 DEF Low, Linked
  <1> HIDE DEF x, tl, S
  <1>10. node \in [Threads -> Nodes] /\ x \in Threads /\ tl \in Threads  BY <1>1, <1>7, <1>8 DEF Types
  <1>11. /\ node' \in [Threads -> Nodes]
         /\ \A n \in Threads : n # x => node'[n] = node[n]
         /\ \A n \in Threads : /\ node'[n].next = node[n].next /\ node'[n].prev = node[n].prev
                               /\ node'[n].write = node[n].write /\ node'[n].count = node[n].count
                               /\ node'[n].completed = node[n].completed
    BY <1>2, <1>10 DEF Nodes, Ptr
  <1>12. Backward(node', S, pos, tl)
    <2>1. Backward(node, S, pos, tl)  BY <1>7, <1>8, <1>9, BackwardList
    <2>2. \A n \in S : node'[n].prev = node[n].prev  BY <1>7, <1>11
    <2> QED  BY <2>1, <2>2 DEF Backward, Prev
  <1>13. RoleOK(r, node', Q, Taken(wk, t), pos)
    <2>1. TakenOK(r, node', S, pos)  BY <1>4, <1>5, <1>12 DEF TakenOK
    <2> QED  BY <1>5, <2>1 DEF RoleOK, S
  <1>14. wk[x] = t  BY <1>8 DEF S, Taken
  <1>15. Keeps(node', pos, node, pos, Q)
    <2>1. x \notin Q  BY <1>1, <1>10, <1>14, RwAssumption DEF WaitInv
    <2>2. \A n \in Q : node'[n] = node[n]  BY <1>11, <2>1 DEF Ghosts
    <2> QED  BY <2>2, KeepSame
  <1>16. \A u \in Threads : u # t => Keeps(node', pos, node, pos, Taken(wk, u))
    <2>1. \A u \in Threads : u # t => \A n \in Taken(wk, u) : node'[n] = node[n]
      BY <1>11, <1>14 DEF Taken
    <2> QED  BY <2>1, KeepSame
  <1>17. CallOK(r)  BY <1>1, <1>2, <1>4, <1>5 DEF CallOK
  <1>18. Waits(r, node[t]) <=> Waits(my[t], node[t])  BY <1>2, <1>4 DEF Waits
  <1> QED
    BY <1>2, <1>4, <1>5, <1>11, <1>13, <1>15, <1>16, <1>17, <1>18, InsideStep

\* unlock_queue splits the tail off, a writer.
LEMMA SplitStays ==
    ASSUME NEW Q, NEW wk, NEW pos, Ghosts(Q, wk, pos), RwInv(state, node, token, my, Q, wk, pos),
           NEW t \in Threads, SplitTail(t)
    PROVE  RwInv(state', node', token', my', Q, wk, pos)
  <1> DEFINE r == [my[t] EXCEPT !.pc = "split"]
             x == my[t].st.ptr
             z == my[t].tl
             p == node[z].prev
  <1>1. /\ Types(state, node, token, my) /\ CallOK(my[t]) /\ FreshInv(state, node, my, Q, pos)
    BY DEF RwInv, CallInv, ShapeInv
  <1>2. /\ my[t].pc = "unlock_queue" /\ state' = state /\ token' = token /\ Go(t, r)
        /\ CachesTail(x, p)
        /\ "DOWNGRADED" \notin my[t].st.bits /\ "LOCKED" \notin my[t].st.bits
        /\ node[z].write /\ p # Null
    BY DEF SplitTail, MayWake, WakesOne, At, Goto, CachesTail
  <1>3. my[t] \in Locals  BY <1>1 DEF Types
  <1>4. /\ r \in Locals /\ r.pc = "split" /\ r.want = my[t].want /\ r.held = my[t].held
        /\ r.tl = my[t].tl /\ r.why = my[t].why /\ r.st = my[t].st
    BY <1>3 DEF Locals, PCs
  <1> HIDE DEF r
  <1>5. Holder(my[t]) /\ ~Splitting(my[t]) /\ Holder(r) /\ Splitting(r) /\ ~Leaving(r) /\ ~Grabbing(r)
    BY <1>1, <1>2, <1>4 DEF Holder, Splitting, Leaving, Grabbing, CallOK
  <1>6. /\ HolderOK(my[t], node, Q, pos) /\ List(node, Q, pos, state.ptr) /\ ~Leaving(my[t])
        /\ my[t].held = "none"
    BY <1>5, HolderFacts
  <1>7. /\ x \in Q /\ Low(Q, pos, z) /\ z \in Q /\ node[x].tail = z /\ Bare(node, Q, pos, x)
    BY <1>2, <1>6 DEF HolderOK, Traversing, Low
  <1>8. p \in Q /\ pos[p] = pos[z] + 1  BY <1>2, <1>6, <1>7 DEF List, Prev
  <1> HIDE DEF x, z, p
  <1>9. /\ Q \in SUBSET Threads /\ pos \in [Threads -> Nat] /\ node \in [Threads -> Nodes]
        /\ x \in Threads /\ z # Null
    BY <1>1, <1>7, RwAssumption DEF Ghosts, Types
  <1>10. \A n \in Q : pos[n] < pos[x] => node[n].prev # Null  BY <1>6, <1>7, <1>9 DEF List
  <1>11. Caches(node', node, Q, x, p)  BY <1>2, <1>9 DEF Caches, CachesTail, Nodes
  <1>12. Bare(node', Q, pos, x)  BY <1>7, <1>9, <1>11 DEF Bare, Caches
  <1>13. SomeTail(node', Q, pos)  BY <1>7, <1>8, <1>11, <1>12 DEF SomeTail, Caches
  <1>14. HolderOK(r, node', Q, pos)
    <2>1. Traversing(r, node', Q, pos)  BY <1>4, <1>7 DEF Traversing, x
    <2>2. Low(Q, pos, r.tl)  BY <1>4, <1>7 DEF z
    <2>3. node'[z].prev = p /\ node'[z].write /\ node'[x].tail = p
      BY <1>2, <1>7, <1>11 DEF Caches, p
    <2>4. /\ node'[r.tl].prev \in Q /\ node'[r.st.ptr].tail = node'[r.tl].prev
          /\ "DOWNGRADED" \notin r.st.bits /\ "LOCKED" \notin r.st.bits /\ node'[r.tl].write
      BY <1>2, <1>4, <1>8, <2>3 DEF x, z
    <2> QED  BY <1>4, <1>12, <2>1, <2>2, <2>4 DEF HolderOK, x
  <1>15. ~ReadLocked(state, my)  BY <1>1, <1>2, <1>5 DEF FreshInv
  <1>16. CallOK(r)  BY <1>1, <1>2, <1>4, <1>5 DEF CallOK, Waking
  <1> QED
    BY <1>2, <1>4, <1>5, <1>6, <1>7, <1>8, <1>10, <1>13, <1>14, <1>15, <1>16, CacheStep

\* unlock_queue puts the tail back where it was cached before.
LEMMA UndoStays ==
    ASSUME NEW Q, NEW wk, NEW pos, Ghosts(Q, wk, pos), RwInv(state, node, token, my, Q, wk, pos),
           NEW t \in Threads, Undo(t)
    PROVE  RwInv(state', node', token', my', Q, wk, pos)
  <1> DEFINE r == Traverse(t, my[t].st, "unlock_queue")
             x == my[t].cur
             z == my[t].tl
             h == my[t].st.ptr
  <1>1. /\ Types(state, node, token, my) /\ CallOK(my[t]) /\ FreshInv(state, node, my, Q, pos)
    BY DEF RwInv, CallInv, ShapeInv
  <1>2. /\ my[t].pc = "undo" /\ state' = state /\ token' = token /\ Go(t, r)
        /\ CachesTail(x, z)
    BY DEF Undo, At, CachesTail
  <1>3. my[t] \in Locals /\ my[t].st \in Words  BY <1>1 DEF Types, Locals
  <1>4. /\ r \in Locals /\ r.pc = "walk" /\ r.want = my[t].want /\ r.held = my[t].held
        /\ r.cur = h /\ r.why = "unlock_queue" /\ r.st = my[t].st
    BY <1>3, TraverseFacts
  <1> HIDE DEF r
  <1>5. /\ Holder(my[t]) /\ Splitting(my[t]) /\ Holder(r) /\ ~Splitting(r) /\ ~Leaving(r) /\ ~Grabbing(r)
        /\ my[t].why = "unlock_queue"
    BY <1>1, <1>2, <1>4 DEF Holder, Splitting, Leaving, Grabbing, CallOK
  <1>6. /\ HolderOK(my[t], node, Q, pos) /\ List(node, Q, pos, state.ptr) /\ ~Leaving(my[t])
        /\ my[t].held = "none"
    BY <1>5, HolderFacts
  <1>7. /\ h \in Q /\ x \in Q /\ pos[x] <= pos[h] /\ Low(Q, pos, z) /\ z \in Q
        /\ Bare(node, Q, pos, x) /\ node[x].tail \in Q
    BY <1>2, <1>6 DEF HolderOK, Traversing, Low
  <1> HIDE DEF x, z, h
  <1>8. /\ Q \in SUBSET Threads /\ pos \in [Threads -> Nat] /\ node \in [Threads -> Nodes]
        /\ x \in Threads /\ node[x].tail # Null
    BY <1>1, <1>7, RwAssumption DEF Ghosts, Types
  <1>9. \A n \in Q : pos[n] < pos[x] => node[n].prev # Null  BY <1>6, <1>7, <1>8 DEF List
  <1>10. Caches(node', node, Q, x, z)  BY <1>2, <1>8 DEF Caches, CachesTail, Nodes
  <1>11. Bare(node', Q, pos, x)  BY <1>7, <1>8, <1>10 DEF Bare, Caches
  <1>12. RightTail(node', Q, pos)  BY <1>7, <1>10, <1>11 DEF RightTail, Caches
  <1>13. HolderOK(r, node', Q, pos)
    <2>1. Linked(node', Q, pos, r.cur, r.st.ptr)  BY <1>4, <1>7, <1>8 DEF Linked, h
    <2>2. Traversing(r, node', Q, pos)  BY <1>4, <1>7, <1>8, <2>1 DEF Traversing, h
    <2>3. Finds(node', Q, pos, h)
      <3>1. pos[x] <= pos[h] /\ Low(Q, pos, node'[x].tail)  BY <1>7, <1>10 DEF Caches
      <3>2. \A m \in Q : pos[x] < pos[m] /\ pos[m] <= pos[h] => node'[m].tail = Null
        BY <1>11 DEF Bare
      <3> QED  BY <1>7, <3>1, <3>2 DEF Finds
    <2>4. Bare(node', Q, pos, r.st.ptr)
      BY <1>4, <1>7, <1>8, <1>11 DEF Bare, h
    <2> QED  BY <1>4, <2>2, <2>3, <2>4 DEF HolderOK
  <1>14. CallOK(r)  BY <1>1, <1>2, <1>4, <1>5, <1>6 DEF CallOK, Waking
  <1> QED
    BY <1>2, <1>4, <1>5, <1>6, <1>7, <1>9, <1>12, <1>13, <1>14, CacheStep

-----------------------------------------------------------------------------
(* Leaving the queue *)

\* unlock_queue unlocks the queue and leaves the waiters to the holder of the lock.
LEMMA LeaveStays ==
    ASSUME NEW Q, NEW wk, NEW pos, Ghosts(Q, wk, pos), RwInv(state, node, token, my, Q, wk, pos),
           NEW t \in Threads, my[t].pc = "unlock_queue", "DOWNGRADED" \notin my[t].st.bits,
           Swap(t, Mask(my[t].st, {"QUEUE_LOCKED"}), Returned(t)), node' = node, token' = token
    PROVE  RwInv(state', node', token', my', Q, wk, pos)
  <1> DEFINE r == Returned(t)
  <1>1. /\ Types(state, node, token, my) /\ CallOK(my[t]) /\ LockInv(state, my) /\ WordInv(state)
        /\ CallInv(my) /\ CountInv(state, node, my, Q, pos)
        /\ ShapeInv(state, node, my, Q, wk, pos)
    BY DEF RwInv, CallInv, ShapeInv
  <1>2. state = my[t].st /\ state' = Mask(state, {"QUEUE_LOCKED"}) /\ Go(t, r)  BY DEF Swap
  <1>3. my[t] \in Locals /\ state \in Words  BY <1>1 DEF Types
  <1>4. /\ state'.bits = state.bits \ {"QUEUE_LOCKED"} /\ state'.ptr = state.ptr
        /\ state'.count = state.count
    BY <1>2, <1>3 DEF Mask, Words
  <1>5. state' \in Words  BY <1>2, <1>3 DEF Mask, Words
  <1>6. /\ r \in Locals /\ CallOK(r) /\ Plain(r) /\ r.held = my[t].held
        /\ r.pc \in {"idle", "wait"} /\ r.want = my[t].want
    BY <1>1, <1>3, ReturnedFacts
  <1> HIDE DEF r
  <1>7. my'[t] = r /\ Others(my', my, t) /\ my' \in [Threads -> Locals]
    BY <1>1, <1>2, <1>6, GoFacts DEF Types
  <1>8. Holder(my[t]) /\ ~Splitting(my[t])  BY <1>1 DEF Holder, CallOK, Splitting
  <1>9. ~Holder(r) /\ ~Leaving(r) /\ ~Splitting(r)  BY <1>6, PlainRole
  <1>10. Taken(wk, t) = {} /\ \A u \in Threads : Holder(my[u]) => u = t  BY <1>8, HolderFacts
  <1>11. RoleOK(r, node, Q, Taken(wk, t), pos)  BY <1>6, <1>10, PlainRole
  <1>12. HolderBit(state', my')  BY <1>4, <1>7, <1>9, <1>10 DEF HolderBit, Others
  <1>13. Waits(r, node[t]) <=> Waits(my[t], node[t])  BY <1>6 DEF Waits
  <1>14. SameWaits(my', node', my, node)  BY <1>6, <1>7, <1>13 DEF SameWaits, Waits, Others
  <1>15. t \in Counted(my') <=> t \in Counted(my)  BY <1>6, <1>7 DEF Counted
  <1>16. LockInv(state', my') /\ Counted(my') = Counted(my)
    <2>1. /\ my'[t].held = my[t].held
          /\ my'[t].pc \notin {"unlock_contended", "downgrade_slow"} /\ ~Leaving(my'[t])
      BY <1>6, <1>7, <1>9
    <2>2. /\ \A b \in {"QUEUED", "LOCKED", "DOWNGRADED"} : b \in state'.bits <=> b \in state.bits
          /\ state'.count = state.count
      BY <1>4
    <2> QED  BY <1>1, <1>7, <1>15, <2>1, <2>2, LockKeep
  <1>17. ReadLocked(state', my') => ReadLocked(state, my)
    BY <1>4, <1>6, <1>7 DEF ReadLocked, Contended, Others
  <1>18. ShapeInv(state', node', my', Q, wk, pos)
    <2>1. "QUEUED" \in state'.bits <=> "QUEUED" \in state.bits  BY <1>4
    <2>2. RoleOK(my'[t], node', Q, Taken(wk, t), pos)  BY <1>7, <1>11
    <2> QED
      BY <1>1, <1>4, <1>7, <1>8, <1>9, <1>12, <1>14, <1>17, <2>1, <2>2, KeepStep, KeepAll DEF Ghosts
  <1>19. CountInv(state', node', my', Q, pos)
    <2>1. "DOWNGRADED" \in state'.bits <=> "DOWNGRADED" \in state.bits  BY <1>4
    <2> QED  BY <1>1, <1>16, <2>1, CountKeep
  <1>20. Types(state', node', token', my')  BY <1>1, <1>5, <1>7 DEF Types
  <1>21. CallInv(my')  BY <1>1, <1>6, <1>7, CallStep
  <1>22. WordInv(state')  BY <1>1, <1>2, <1>4 DEF WordInv
  <1> QED  BY <1>16, <1>18, <1>19, <1>20, <1>21, <1>22 DEF RwInv

\* A reader that has found the tail counts itself out.
LEMMA DecrementFacts ==
    ASSUME NEW Q, NEW wk, NEW pos, Ghosts(Q, wk, pos), RwInv(state, node, token, my, Q, wk, pos),
           NEW t \in Threads, my[t].pc = "decrement", NEW z, z = my[t].tl
    PROVE  /\ Leaving(my[t]) /\ Contended(state) /\ Contended(my[t].st) /\ my[t].held = "read"
           /\ my[t].want = "none" /\ t \in Counted(my) /\ Low(Q, pos, z) /\ z \in Threads
           /\ node[z].count = Cardinality(Counted(my)) /\ node[z].count > 0
           /\ Taken(wk, t) = {} /\ ReadLocked(state, my)
           /\ \A u \in Threads : my[u].held # "write" /\ my[u].pc # "unlock_contended"
  <1>1. /\ Types(state, node, token, my) /\ CallOK(my[t]) /\ LockInv(state, my)
        /\ CallInv(my) /\ CountInv(state, node, my, Q, pos)
        /\ LeavingInv(node, my, Q, pos) /\ TakenInv(node, my, wk, pos)
    BY DEF RwInv, CallInv, ShapeInv
  <1>2. Leaving(my[t])  BY <1>1 DEF Leaving, CallOK
  <1>3. Contended(state) /\ Contended(my[t].st) /\ my[t].held = "read" /\ my[t].want = "none"
    BY <1>1, <1>2 DEF LockInv, CallOK
  <1>4. Low(Q, pos, z)  BY <1>1, <1>2 DEF LeavingInv, LeavingOK
  <1>5. t \in Counted(my)  BY <1>3 DEF Counted
  <1>6. node[z].count = Cardinality(Counted(my))  BY <1>1, <1>3, <1>4 DEF CountInv, Contended, Low
  <1>7. Cardinality(Counted(my)) > 0  BY <1>5, CountRange
  <1>8. \A u \in Threads : my[u].held # "write" /\ my[u].pc # "unlock_contended"
    BY <1>1, <1>3 DEF LockInv, Alone
  <1>9. Taken(wk, t) = {}  BY <1>1, <1>2, NoneTaken DEF TakenInv
  <1>10. z \in Threads  BY <1>4 DEF Low, Ghosts
  <1>11. ReadLocked(state, my)  BY <1>3 DEF ReadLocked
  <1> QED  BY <1>2, <1>3, <1>4, <1>5, <1>6, <1>7, <1>8, <1>9, <1>10, <1>11

\* read_unlock_contended counts the reader out.
LEMMA DecrementStays ==
    ASSUME NEW Q, NEW wk, NEW pos, Ghosts(Q, wk, pos), RwInv(state, node, token, my, Q, wk, pos),
           NEW t \in Threads, Decrement(t)
    PROVE  RwInv(state', node', token', my', Q, wk, pos)
  <1> DEFINE z == my[t].tl
             r == IF node[z].count = 1 THEN [my[t] EXCEPT !.pc = "unlock_contended"] ELSE Outside("none")
  <1>1. /\ Types(state, node, token, my) /\ CallOK(my[t]) /\ LockInv(state, my) /\ WordInv(state)
        /\ CallInv(my) /\ CountInv(state, node, my, Q, pos) /\ HolderInv(state, node, my, Q, pos)
        /\ ShapeInv(state, node, my, Q, wk, pos)
    BY DEF RwInv, CallInv, ShapeInv
  <1>2. /\ my[t].pc = "decrement" /\ Go(t, r) /\ state' = state /\ token' = token
        /\ node' = [node EXCEPT ![z].count = @ - 1]
    BY DEF Decrement, At, Goto
  <1>3. my[t] \in Locals /\ node \in [Threads -> Nodes]  BY <1>1 DEF Types
  <1>4. /\ Leaving(my[t]) /\ Contended(state) /\ Contended(my[t].st) /\ my[t].held = "read"
        /\ my[t].want = "none" /\ t \in Counted(my) /\ Low(Q, pos, z) /\ z \in Threads
        /\ node[z].count = Cardinality(Counted(my)) /\ node[z].count > 0
        /\ Taken(wk, t) = {} /\ ReadLocked(state, my)
        /\ \A u \in Threads : my[u].held # "write" /\ my[u].pc # "unlock_contended"
    BY <1>2, DecrementFacts
  <1>5. /\ r \in Locals /\ Plain(r) /\ r.want = "none"
        /\ r.pc = IF node[z].count = 1 THEN "unlock_contended" ELSE "idle"
        /\ r.held = IF node[z].count = 1 THEN "read" ELSE "none"
        /\ node[z].count = 1 => r.st = my[t].st /\ r.why = "decrement"
    <2>1. CASE node[z].count = 1
      <3>1. [my[t] EXCEPT !.pc = "unlock_contended"] \in Locals  BY <1>3 DEF Locals, PCs
      <3>2. r = [my[t] EXCEPT !.pc = "unlock_contended"]  BY <2>1
      <3> QED  BY <1>3, <1>4, <2>1, <3>1, <3>2 DEF Locals, Plain, Leaving
    <2>2. CASE node[z].count # 1  BY <2>2, OutsideFacts
    <2> QED  BY <2>1, <2>2
  <1> HIDE DEF r
  <1>6. CallOK(r)
    <2>1. CASE node[z].count = 1
      BY <1>5, <2>1 DEF CallOK, Holder, Leaving, Grabbing, Waking
    <2>2. CASE node[z].count # 1
      <3>1. r = Outside("none")  BY <2>2 DEF r
      <3> QED  BY <3>1, OutsideFacts
    <2> QED  BY <2>1, <2>2
  <1>7. my'[t] = r /\ Others(my', my, t) /\ my' \in [Threads -> Locals]
    BY <1>1, <1>2, <1>5, GoFacts DEF Types
  <1> HIDE DEF z
  <1>8. /\ node' \in [Threads -> Nodes] /\ node'[z].count = node[z].count - 1
        /\ \A n \in Threads : n # z => node'[n] = node[n]
        /\ \A n \in Threads : /\ node'[n].next = node[n].next /\ node'[n].prev = node[n].prev
                              /\ node'[n].write = node[n].write /\ node'[n].tail = node[n].tail
                              /\ node'[n].completed = node[n].completed
    <2>1. node[z].count - 1 \in 0..Cardinality(Threads)
      BY <1>3, <1>4, CountRange DEF Nodes
    <2> QED  BY <1>2, <1>3, <1>4, <2>1 DEF Nodes
  <1>9. ~Holder(my[t]) /\ ~Splitting(my[t])  BY <1>2 DEF Holder, Splitting
  <1>10. ~Holder(r) /\ ~Leaving(r) /\ ~Splitting(r) /\ RoleOK(r, node', Q, Taken(wk, t), pos)
    BY <1>4, <1>5, PlainRole
  <1>11. t \notin Counted(my')  BY <1>5, <1>7 DEF Counted
  <1>12. Cardinality(Counted(my')) = Cardinality(Counted(my)) - 1
    BY <1>4, <1>7, <1>11, CountDown
  <1>13. LockInv(state', my')
    <2>1. CASE node[z].count = 1
      <3>1. Counted(my) = {t}  BY <1>4, <2>1, CountedOnly
      <3>2. Alone(my, t)  BY <1>1, <1>3, <1>4, <3>1 DEF Alone, Counted, Types, Locals
      <3>3. my'[t].held = my[t].held /\ Alone(my', t)
        BY <1>4, <1>5, <1>7, <2>1, <3>2 DEF Alone, Others
      <3>4. ~Leaving(my'[t]) /\ Contended(my'[t].st) /\ "QUEUED" \in state.bits
        BY <1>4, <1>5, <1>7, <1>10, <2>1 DEF Contended
      <3>5. \A u \in Threads : my'[u].held = my[u].held  BY <1>7, <3>3 DEF Others
      <3>6. \A u \in Threads : u # t => my'[u] = my[u]  BY <1>7 DEF Others
      <3>7. \A u \in Threads : Alone(my, u) <=> Alone(my', u)  BY <3>5 DEF Alone
      <3>8. \A u \in Threads : my'[u].pc \in {"unlock_contended", "downgrade_slow"} =>
              Contended(state) /\ Contended(my'[u].st) /\ Alone(my', u)
        BY <1>1, <1>4, <3>3, <3>4, <3>6, <3>7 DEF LockInv
      <3>9. \A u \in Threads : Leaving(my'[u]) => Contended(state) /\ Contended(my'[u].st)
        BY <1>1, <3>4, <3>6 DEF LockInv
      <3> QED  BY <1>1, <1>2, <3>4, <3>5, <3>7, <3>8, <3>9 DEF LockInv
    <2>2. CASE node[z].count # 1
      <3>1. \E u \in Threads : u # t /\ my[u].held # "none"
        <4> SUFFICES ASSUME \A u \in Threads : my[u].held # "none" => u = t PROVE FALSE  OBVIOUS
        <4>1. Alone(my, t)  BY DEF Alone
        <4> QED  BY <1>4, <2>2, <4>1, CountOne
      <3>2. \E u \in Threads : my'[u].held # "none"  BY <1>7, <3>1 DEF Others
      <3>3. my'[t].held = "none" /\ my'[t].pc = "idle" /\ ~Leaving(my'[t])
        BY <1>5, <1>7, <1>10, <2>2
      <3>4. "QUEUED" \in state.bits /\ "LOCKED" \in state.bits /\ "DOWNGRADED" \notin state.bits
        BY <1>4 DEF Contended
      <3>5. \A u \in Threads : u # t => my'[u] = my[u]  BY <1>7 DEF Others
      <3>6. \A u \in Threads : my'[u].held # "write" /\ my'[u].pc # "unlock_contended"
        BY <1>4, <3>3, <3>5
      <3>7. \A u \in Threads : my'[u].pc # "downgrade_slow"
        BY <1>1, <1>4, <3>3, <3>5 DEF CallInv, CallOK
      <3>8. \A u \in Threads : Leaving(my'[u]) => Contended(state) /\ Contended(my'[u].st)
        BY <1>1, <3>3, <3>5 DEF LockInv
      <3> QED  BY <1>2, <3>2, <3>4, <3>6, <3>7, <3>8 DEF LockInv
    <2> QED  BY <2>1, <2>2
  <1>14. CountInv(state', node', my', Q, pos)
    <2>1. \A n \in Q : Low(Q, pos, n) => n = z
      <3>1. "QUEUED" \in state.bits  BY <1>4 DEF Contended
      <3>2. OneEach(Q, pos)  BY <1>1, <3>1 DEF ShapeInv, ListInv, List
      <3> QED  BY <1>4, <3>2 DEF Low, OneEach, Ghosts
    <2>2. z \in Q /\ Q \subseteq Threads  BY <1>4 DEF Low, Ghosts
    <2>3. "DOWNGRADED" \notin state.bits  BY <1>4 DEF Contended
    <2>4. \A n \in Q : n # z => node'[n].count = 0  BY <1>1, <1>8, <2>1, <2>2 DEF CountInv
    <2>5. node'[z].count = Cardinality(Counted(my'))  BY <1>4, <1>8, <1>12
    <2> QED  BY <1>2, <1>4, <2>1, <2>3, <2>4, <2>5 DEF CountInv
  <1>15. HolderBit(state', my')  BY <1>1, <1>2, <1>7, <1>9, <1>10 DEF HolderInv, HolderBit, Others
  <1>16. SameWaits(my', node', my, node)
    <2>1. \A n \in Threads : n # t => Waits(my'[n], node'[n]) <=> Waits(my[n], node[n])
      BY <1>7, <1>8 DEF Waits, Others
    <2>2. ~Waits(my'[t], node'[t]) /\ ~Waits(my[t], node[t])  BY <1>4, <1>5, <1>7 DEF Waits
    <2> QED  BY <1>7, <1>8, <2>1, <2>2 DEF SameWaits, Others
  <1>17. ShapeInv(state', node', my', Q, wk, pos)
    <2>1. \A S : S \subseteq Threads => Keeps(node', pos, node, pos, S)  BY <1>8 DEF Keeps
    <2>2. Keeps(node', pos, node, pos, Q)  BY <2>1 DEF Ghosts
    <2>3. \A u \in Threads : Keeps(node', pos, node, pos, Taken(wk, u))  BY <2>1 DEF Taken
    <2>4. RoleOK(my'[t], node', Q, Taken(wk, t), pos) /\ ~Holder(my'[t])  BY <1>7, <1>10
    <2> QED  BY <1>1, <1>2, <1>4, <1>7, <1>9, <1>15, <1>16, <2>2, <2>3, <2>4, KeepStep DEF Ghosts
  <1>18. Types(state', node', token', my')  BY <1>1, <1>2, <1>7, <1>8 DEF Types
  <1>19. CallInv(my')  BY <1>1, <1>6, <1>7, CallStep
  <1> QED  BY <1>1, <1>2, <1>13, <1>14, <1>17, <1>18, <1>19 DEF RwInv

-----------------------------------------------------------------------------
(* Waking *)

\* The node c is completed; its owner is no longer seen to.
LEMMA CompleteStays ==
    ASSUME NEW Q, NEW wk, NEW pos, Ghosts(Q, wk, pos), RwInv(state, node, token, my, Q, wk, pos),
           NEW t \in Threads, Complete(t) \/ CompleteOne(t)
    PROVE  \E wk2 : Ghosts(Q, wk2, pos) /\ RwInv(state', node', token', my', Q, wk2, pos)
  <1> DEFINE c == my[t].cur
             z == IF my[t].pc = "complete" THEN node[c].prev ELSE Null
             r == [my[t] EXCEPT !.pc = "unpark", !.tl = z]
             S == Taken(wk, t)
             wk2 == [wk EXCEPT ![c] = Null]
  <1>1. /\ Types(state, node, token, my) /\ CallOK(my[t]) /\ LockInv(state, my) /\ WordInv(state)
        /\ CallInv(my) /\ CountInv(state, node, my, Q, pos) /\ HolderInv(state, node, my, Q, pos)
        /\ ShapeInv(state, node, my, Q, wk, pos) /\ TakenInv(node, my, wk, pos)
        /\ WaitInv(node, my, Q, wk)
    BY DEF RwInv, CallInv, ShapeInv
  <1>2. /\ my[t].pc \in {"complete", "complete_one"} /\ state' = state /\ token' = token
        /\ Go(t, r) /\ node' = [node EXCEPT ![c].completed = TRUE]
    BY DEF Complete, CompleteOne, At
  <1>3. /\ my[t] \in Locals /\ node \in [Threads -> Nodes] /\ wk \in [Threads -> Ptr]
        /\ pos \in [Threads -> Nat] /\ Q \in SUBSET Threads /\ S \in SUBSET Threads
    BY <1>1 DEF Types, Ghosts, Taken
  <1>4. c \in S /\ IF z = Null THEN S \ {c} = {} ELSE Backward(node, S \ {c}, pos, z)
    <2>1. CASE my[t].pc = "complete"
      <3>1. Backward(node, S, pos, c)  BY <1>1, <2>1 DEF TakenInv, TakenOK
      <3>2. z = node[c].prev  BY <2>1
      <3>3. IF node[c].prev = Null THEN S \ {c} = {} ELSE Backward(node, S \ {c}, pos, node[c].prev)
        BY <1>3, <3>1, BackwardOn
      <3>4. c \in S  BY <3>1 DEF Backward, Low
      <3> QED  BY <3>2, <3>3, <3>4
    <2>2. CASE my[t].pc = "complete_one"  BY <1>1, <2>2 DEF TakenInv, TakenOK
    <2> QED  BY <1>2, <2>1, <2>2
  <1>5. c \in Threads /\ wk[c] = t  BY <1>4 DEF Taken
  <1>6. z \in Ptr  BY <1>3, <1>5 DEF Nodes, Ptr
  <1>7. /\ r \in Locals /\ r.pc = "unpark" /\ r.want = my[t].want /\ r.held = my[t].held
        /\ r.tl = z /\ r.cur = c /\ r.why = my[t].why /\ r.st = my[t].st
    BY <1>3, <1>6 DEF Locals, PCs
  <1> HIDE DEF r, z, c, S
  <1>8. my'[t] = r /\ Others(my', my, t) /\ my' \in [Threads -> Locals]
    BY <1>1, <1>2, <1>7, GoFacts DEF Types
  <1>9. /\ node' \in [Threads -> Nodes] /\ node'[c].completed
        /\ \A n \in Threads : n # c => node'[n] = node[n]
        /\ \A n \in Threads : /\ node'[n].next = node[n].next /\ node'[n].prev = node[n].prev
                              /\ node'[n].write = node[n].write /\ node'[n].tail = node[n].tail
                              /\ node'[n].count = node[n].count
    BY <1>2, <1>3, <1>5, ZenonT(30) DEF Nodes
  <1>10. wk2 \in [Threads -> Ptr] /\ wk2[c] = Null /\ \A n \in Threads : n # c => wk2[n] = wk[n]
    BY <1>3, <1>5 DEF Ptr
  <1> HIDE DEF wk2
  <1>11. /\ Taken(wk2, t) = S \ {c}
         /\ \A u \in Threads : u # t => Taken(wk2, u) = Taken(wk, u)
    BY <1>3, <1>5, <1>10, RwAssumption DEF Taken, S
  <1>12. /\ ~Holder(my[t]) /\ ~Splitting(my[t]) /\ my[t].pc # "unlock_contended"
         /\ ~Holder(r) /\ ~Splitting(r) /\ ~Leaving(r) /\ ~Grabbing(r) /\ Waking(r)
    BY <1>2, <1>7 DEF Holder, Leaving, Grabbing, Splitting, Waking
  <1>13. TakenOK(r, node', S \ {c}, pos)
    <2>1. Backward(node, S \ {c}, pos, z) => Backward(node', S \ {c}, pos, z)
      BY <1>3, <1>9 DEF Backward, Prev
    <2> QED  BY <1>4, <1>7, <1>12, <2>1 DEF TakenOK
  <1>14. RoleOK(my'[t], node', Q, Taken(wk2, t), pos)  BY <1>8, <1>11, <1>12, <1>13 DEF RoleOK
  <1>15. WaitInv(node', my', Q, wk2)
    <2> SUFFICES ASSUME NEW n \in Threads
                 PROVE  /\ Waits(my'[n], node'[n]) <=> n \in Q \/ wk2[n] # Null
                        /\ n \in Q => wk2[n] = Null
                        /\ Waits(my'[n], node'[n]) => (node'[n].write <=> my'[n].want = "write")
      BY DEF WaitInv
    <2>1. CASE n = c
      <3>1. ~Waits(my'[n], node'[n])  BY <1>9, <2>1 DEF Waits
      <3>2. n \notin Q  BY <1>1, <1>5, <2>1, RwAssumption DEF WaitInv
      <3> QED  BY <1>10, <2>1, <3>1, <3>2
    <2>2. CASE n # c
      <3>1. node'[n] = node[n] /\ wk2[n] = wk[n]  BY <1>9, <1>10, <2>2
      <3>2. my'[n].want = my[n].want
        BY <1>7, <1>8 DEF Others
      <3>3. Waits(my'[n], node[n]) <=> Waits(my[n], node[n])
        BY <1>2, <1>7, <1>8 DEF Waits, Others
      <3> QED  BY <1>1, <3>1, <3>2, <3>3 DEF WaitInv
    <2> QED  BY <2>1, <2>2
  <1>16. HolderBit(state', my')  BY <1>1, <1>2, <1>8, <1>12 DEF HolderInv, HolderBit, Others
  <1>17. ReadLocked(state', my') => ReadLocked(state, my)
    BY <1>2, <1>7, <1>8 DEF ReadLocked, Others
  <1>18. ShapeInv(state', node', my', Q, wk2, pos)
    <2>1. \A T : T \subseteq Threads => Keeps(node', pos, node, pos, T)  BY <1>9 DEF Keeps
    <2>2. Keeps(node', pos, node, pos, Q)  BY <1>3, <2>1
    <2>3. \A u \in Threads : Keeps(node', pos, node, pos, Taken(wk, u))  BY <2>1 DEF Taken
    <2>4. ~Holder(my'[t])  BY <1>8, <1>12
    <2> QED
      BY <1>1, <1>2, <1>3, <1>8, <1>11, <1>12, <1>14, <1>15, <1>16, <1>17, <2>2, <2>3, <2>4, StepByOne
  <1>19. LockInv(state', my') /\ Counted(my') = Counted(my)
    <2>1. t \in Counted(my') <=> t \in Counted(my)  BY <1>2, <1>7, <1>8 DEF Counted
    <2>2. /\ my'[t].held = my[t].held
          /\ my'[t].pc \notin {"unlock_contended", "downgrade_slow"} /\ ~Leaving(my'[t])
      BY <1>7, <1>8, <1>12
    <2> QED  BY <1>1, <1>2, <1>8, <2>1, <2>2, LockStays
  <1>20. CountInv(state', node', my', Q, pos)
    <2>1. \A n \in Q : node'[n].count = node[n].count  BY <1>3, <1>9
    <2>2. "DOWNGRADED" \in state'.bits <=> "DOWNGRADED" \in state.bits  BY <1>2
    <2> QED  BY <1>1, <1>19, <2>1, <2>2, CountKeep
  <1>21. Types(state', node', token', my')  BY <1>1, <1>2, <1>8, <1>9 DEF Types
  <1>22. CallOK(r)
    <2>1. c # Null  BY <1>5, RwAssumption
    <2> QED  BY <1>1, <1>2, <1>7, <1>12, <2>1 DEF CallOK, Waking
  <1>23. CallInv(my')  BY <1>1, <1>8, <1>22, CallStep
  <1>24. RwInv(state', node', token', my', Q, wk2, pos)
    BY <1>1, <1>2, <1>18, <1>19, <1>20, <1>21, <1>23 DEF RwInv
  <1>25. Ghosts(Q, wk2, pos)  BY <1>3, <1>10 DEF Ghosts
  <1> QED  BY <1>24, <1>25

\* The nodes S are now seen to by t.
TakenBy(wk, S, t) == [n \in Threads |-> IF n \in S THEN t ELSE wk[n]]

\* A step that takes nodes out of the queue and leaves it unlocked.
LEMMA TakeStep ==
    ASSUME NEW w, NEW w2, NEW nd, NEW mm, NEW mm2, NEW Q \in SUBSET Threads, NEW R, NEW S,
           R \subseteq Q, S = Q \ R, NEW t \in Threads, NEW wk \in [Threads -> Ptr], NEW wk2, NEW pos,
           ShapeInv(w, nd, mm, Q, wk, pos), Taken(wk, t) = {}, wk2 = TakenBy(wk, S, t),
           Others(mm2, mm, t), mm2[t].want = mm[t].want,
           mm[t].pc \notin {"try", "load", "contend"}, mm2[t].pc \notin {"try", "load", "contend"},
           LockInv(w2, mm2), ~Contended(w2), "QUEUE_LOCKED" \notin w2.bits,
           \A u \in Threads : ~Holder(mm2[u]), ListInv(w2, nd, mm2, R, pos),
           TakenOK(mm2[t], nd, S, pos)
    PROVE  ShapeInv(w2, nd, mm2, R, wk2, pos) /\ wk2 \in [Threads -> Ptr]
  <1>1. WaitInv(nd, mm, Q, wk) /\ TakenInv(nd, mm, wk, pos)  BY DEF ShapeInv
  <1>2. /\ WaitInv(nd, mm2, R, wk2) /\ Taken(wk2, t) = S /\ wk2 \in [Threads -> Ptr]
        /\ \A u \in Threads : u # t => Taken(wk2, u) = Taken(wk, u)
    <2>1. /\ wk2 \in [Threads -> Ptr]
          /\ \A n \in Threads : wk2[n] = IF n \in S THEN t ELSE wk[n]
      BY DEF TakenBy, Ptr
    <2>2. t # Null /\ \A n \in Q : wk[n] = Null  BY <1>1, RwAssumption DEF WaitInv
    <2>3. Taken(wk2, t) = S  BY <2>1 DEF Taken
    <2>4. \A u \in Threads : u # t => Taken(wk2, u) = Taken(wk, u)
      <3> SUFFICES ASSUME NEW u \in Threads, u # t PROVE Taken(wk2, u) = Taken(wk, u)  OBVIOUS
      <3>1. u # Null  BY RwAssumption
      <3>2. \A n \in Threads : wk2[n] = u <=> wk[n] = u  BY <2>1, <2>2, <3>1
      <3> QED  BY <3>2 DEF Taken
    <2>5. ASSUME NEW n \in Threads
          PROVE  /\ Waits(mm2[n], nd[n]) <=> n \in R \/ wk2[n] # Null
                 /\ n \in R => wk2[n] = Null
                 /\ Waits(mm2[n], nd[n]) => (nd[n].write <=> mm2[n].want = "write")
      <3>1. Waits(mm2[n], nd[n]) <=> Waits(mm[n], nd[n])  BY DEF Waits, Others
      <3>2. mm2[n].want = mm[n].want  BY DEF Others
      <3>3. n \in Q \/ wk[n] # Null <=> n \in R \/ wk2[n] # Null  BY <2>1, <2>2
      <3>4. n \in R => wk2[n] = Null  BY <2>1, <2>2
      <3> QED  BY <3>1, <3>2, <3>3, <3>4, <1>1 DEF WaitInv
    <2>6. WaitInv(nd, mm2, R, wk2)  BY <2>5 DEF WaitInv
    <2> QED  BY <2>1, <2>3, <2>4, <2>6
  <1>3. TakenInv(nd, mm2, wk2, pos)  BY <1>1, <1>2 DEF TakenInv, Others
  <1>4. LeavingInv(nd, mm2, R, pos)  BY DEF LockInv, LeavingInv
  <1>5. FreshInv(w2, nd, mm2, R, pos)  BY DEF FreshInv, ReadLocked
  <1>6. HolderInv(w2, nd, mm2, R, pos)  BY DEF HolderInv
  <1> QED  BY <1>2, <1>3, <1>4, <1>5, <1>6 DEF ShapeInv

\* What is left when all nodes are taken out.
LEMMA NoList ==
    ASSUME NEW w, NEW nd, NEW mm, NEW pos, "QUEUED" \notin w.bits
    PROVE  ListInv(w, nd, mm, {}, pos) /\ CountInv(w, nd, mm, {}, pos) /\ ~Contended(w)
  BY DEF ListInv, CountInv, Dense, Contended

\* unlock_queue has split a writer off and unlocked the queue.
LEMMA WakeOneStays ==
    ASSUME NEW Q, NEW wk, NEW pos, Ghosts(Q, wk, pos), RwInv(state, node, token, my, Q, wk, pos),
           NEW t \in Threads, my[t].pc = "split", node' = node, token' = token,
           Swap(t, Mask(my[t].st, {"QUEUE_LOCKED"}),
                [my[t] EXCEPT !.pc = "complete_one", !.cur = my[t].tl])
    PROVE  \E R, wk2 : Ghosts(R, wk2, pos) /\ RwInv(state', node', token', my', R, wk2, pos)
  <1> DEFINE z == my[t].tl
             r == [my[t] EXCEPT !.pc = "complete_one", !.cur = z]
             R == Q \ {z}
             S == Q \ R
             wk2 == TakenBy(wk, S, t)
  <1>1. /\ Types(state, node, token, my) /\ CallOK(my[t]) /\ LockInv(state, my) /\ WordInv(state)
        /\ CallInv(my) /\ CountInv(state, node, my, Q, pos)
        /\ ShapeInv(state, node, my, Q, wk, pos)
    BY DEF RwInv, CallInv, ShapeInv
  <1>2. state = my[t].st /\ state' = Mask(state, {"QUEUE_LOCKED"}) /\ Go(t, r)  BY DEF Swap
  <1>3. my[t] \in Locals /\ state \in Words  BY <1>1 DEF Types
  <1>4. /\ state'.bits = state.bits \ {"QUEUE_LOCKED"} /\ state'.ptr = state.ptr
        /\ state'.count = state.count
    BY <1>2, <1>3 DEF Mask, Words
  <1>5. state' \in Words  BY <1>2, <1>3 DEF Mask, Words
  <1>6. /\ r \in Locals /\ r.pc = "complete_one" /\ r.want = my[t].want /\ r.held = my[t].held
        /\ r.tl = z /\ r.cur = z /\ r.why = my[t].why /\ r.st = my[t].st
    BY <1>3 DEF Locals, PCs
  <1> HIDE DEF r
  <1>7. my'[t] = r /\ Others(my', my, t) /\ my' \in [Threads -> Locals]
    BY <1>1, <1>2, <1>6, GoFacts DEF Types
  <1>8. Holder(my[t]) /\ my[t].why = "unlock_queue"  BY <1>1 DEF Holder, CallOK
  <1>9. /\ HolderOK(my[t], node, Q, pos) /\ Taken(wk, t) = {}
        /\ \A u \in Threads : Holder(my[u]) => u = t
        /\ {"QUEUED", "QUEUE_LOCKED"} \subseteq state.bits
        /\ List(node, Q, pos, state.ptr) /\ Dense(Q, pos)
        /\ my[t].held = "none"
    BY <1>8, HolderFacts
  <1>10. /\ Low(Q, pos, z) /\ node[z].prev \in Q /\ node[state.ptr].tail = node[z].prev
         /\ "DOWNGRADED" \notin state.bits /\ "LOCKED" \notin state.bits /\ node[z].write
         /\ Bare(node, Q, pos, state.ptr)
    BY <1>2, <1>9 DEF HolderOK
  <1> HIDE DEF z
  <1>11. /\ Q \in SUBSET Threads /\ pos \in [Threads -> Nat] /\ wk \in [Threads -> Ptr] /\ z \in Q
         /\ node[z].prev # Null
    BY <1>10, RwAssumption DEF Ghosts, Low
  <1>12. /\ List(node, R, pos, state.ptr) /\ Dense(R, pos)
         /\ Low(R, pos, node[z].prev) /\ state.ptr # z
    BY <1>9, <1>10, <1>11, CutList, SMTT(30)
  <1>13. R \in SUBSET Q /\ S = {z}  BY <1>11
  <1> HIDE DEF R, S, wk2
  <1>14. ~Holder(r) /\ ~Leaving(r) /\ ~Grabbing(r) /\ Waking(r) /\ ~Splitting(r)
    BY <1>6 DEF Holder, Leaving, Grabbing, Waking, Splitting
  <1>15. LockInv(state', my') /\ Counted(my') = Counted(my)
    <2>1. t \in Counted(my') <=> t \in Counted(my)  BY <1>6, <1>7 DEF Counted
    <2>2. /\ my'[t].held = my[t].held
          /\ my'[t].pc \notin {"unlock_contended", "downgrade_slow"} /\ ~Leaving(my'[t])
      BY <1>6, <1>7, <1>14
    <2>3. /\ \A b \in {"QUEUED", "LOCKED", "DOWNGRADED"} : b \in state'.bits <=> b \in state.bits
          /\ state'.count = state.count
      BY <1>4
    <2> QED  BY <1>1, <1>7, <2>1, <2>2, <2>3, LockKeep
  <1>16. Cardinality(Counted(my')) = 0
    <2>1. Counted(my) = {}  BY <1>1, <1>3, <1>10 DEF LockInv, Counted
    <2> QED  BY <1>15, <2>1, FS_EmptySet
  <1>17. CountInv(state', node', my', R, pos)
    <2>1. \A n \in Q : node[n].count = 0  BY <1>1, <1>15, <1>16 DEF CountInv
    <2> QED  BY <1>13, <1>16, <2>1 DEF CountInv
  <1>18. state.ptr \in R  BY <1>12 DEF List, High
  <1>19. ListInv(state', node', my', R, pos)
    <2>1. Bare(node, R, pos, state.ptr)  BY <1>10, <1>13 DEF Bare
    <2>2. RightTail(node, R, pos)  BY <1>10, <1>12, <1>18, <2>1 DEF RightTail
    <2>3. SomeTail(node, R, pos)  BY <2>2 DEF RightTail, SomeTail, Low
    <2>4. \E n \in R : Low(R, pos, n)  BY <1>12 DEF Low
    <2>5. "QUEUED" \in state'.bits /\ state'.ptr = state.ptr /\ R # {}  BY <1>4, <1>9, <1>18
    <2> QED  BY <1>12, <2>2, <2>3, <2>4, <2>5 DEF ListInv
  <1>20. \A u \in Threads : ~Holder(my'[u])  BY <1>7, <1>9, <1>14 DEF Others
  <1>21. TakenOK(my'[t], node', S, pos)  BY <1>6, <1>7, <1>10, <1>13, <1>14 DEF TakenOK
  <1>22. ~Contended(state') /\ "QUEUE_LOCKED" \notin state'.bits  BY <1>4, <1>10 DEF Contended
  <1>23. ShapeInv(state', node', my', R, wk2, pos) /\ wk2 \in [Threads -> Ptr]
    <2>1. /\ my'[t].want = my[t].want /\ my'[t].pc \notin {"try", "load", "contend"}
          /\ my[t].pc \notin {"try", "load", "contend"}
      BY <1>6, <1>7
    <2>2. wk2 = TakenBy(wk, S, t) /\ S = Q \ R  BY DEF wk2, S
    <2> QED
      BY <1>1, <1>7, <1>9, <1>11, <1>13, <1>15, <1>19, <1>20, <1>21, <1>22, <2>1, <2>2, TakeStep
  <1>24. CallOK(r)  BY <1>1, <1>6, <1>8, <1>9, <1>14 DEF CallOK
  <1>25. CallInv(my')  BY <1>1, <1>7, <1>24, CallStep
  <1>26. Types(state', node', token', my')  BY <1>1, <1>5, <1>7 DEF Types
  <1>27. WordInv(state')  BY <1>1, <1>4, <1>10 DEF WordInv
  <1>28. RwInv(state', node', token', my', R, wk2, pos)
    BY <1>15, <1>17, <1>23, <1>25, <1>26, <1>27 DEF RwInv
  <1>29. Ghosts(R, wk2, pos)  BY <1>11, <1>13, <1>23 DEF Ghosts
  <1> QED  BY <1>28, <1>29

\* A step of t that takes all nodes out and leaves a lock without a queue.
LEMMA TakeAll ==
    ASSUME NEW Q, NEW wk, NEW pos, Ghosts(Q, wk, pos), RwInv(state, node, token, my, Q, wk, pos),
           NEW t \in Threads, NEW r \in Locals, Go(t, r), node' = node, token' = token,
           state' \in {UNLOCKED, ONE_READER}, Threads # {},
           CallOK(r), r.want = my[t].want, LockInv(state', my'), Taken(wk, t) = {},
           my[t].pc \notin {"try", "load", "contend"}, r.pc \notin {"try", "load", "contend"},
           \A u \in Threads : Holder(my[u]) => u = t, ~Holder(r), TakenOK(r, node, Q, pos)
    PROVE  \E R, wk2 : Ghosts(R, wk2, pos) /\ RwInv(state', node', token', my', R, wk2, pos)
  <1> DEFINE R == {}
             S == Q \ R
             wk2 == TakenBy(wk, S, t)
  <1>1. /\ Types(state, node, token, my) /\ CallInv(my) /\ ShapeInv(state, node, my, Q, wk, pos)
    BY DEF RwInv
  <1>2. my'[t] = r /\ Others(my', my, t) /\ my' \in [Threads -> Locals]  BY <1>1, GoFacts DEF Types
  <1>3. /\ state'.bits \subseteq {"LOCKED"} /\ state'.ptr = Null
        /\ state'.count \in {0, 1}
    BY DEF UNLOCKED, ONE_READER, Word
  <1>4. state' \in Words
    <2>1. Cardinality(Threads) \in Nat /\ Cardinality(Threads) # 0
      BY RwAssumption, FS_CardinalityType, FS_EmptySet
    <2>2. 0 \in 0..Cardinality(Threads) /\ 1 \in 0..Cardinality(Threads)  BY <2>1
    <2> QED  BY <2>2 DEF UNLOCKED, ONE_READER, Word, Words, Bits, Ptr
  <1>5. WordInv(state')  BY <1>3 DEF WordInv
  <1>6. /\ ListInv(state', node', my', R, pos) /\ CountInv(state', node', my', R, pos)
        /\ ~Contended(state')
    BY <1>3, NoList
  <1>7. S = Q /\ R \subseteq Q /\ S = Q \ R /\ wk2 = TakenBy(wk, S, t)  OBVIOUS
  <1> HIDE DEF R, S, wk2
  <1>8. \A u \in Threads : ~Holder(my'[u])  BY <1>2 DEF Others
  <1>9. Q \in SUBSET Threads /\ wk \in [Threads -> Ptr] /\ pos \in [Threads -> Nat]  BY DEF Ghosts
  <1>10. /\ my'[t].want = my[t].want /\ my'[t].pc \notin {"try", "load", "contend"}
         /\ TakenOK(my'[t], node', S, pos) /\ "QUEUE_LOCKED" \notin state'.bits
    BY <1>2, <1>3, <1>7
  <1>11. ShapeInv(state', node', my', R, wk2, pos) /\ wk2 \in [Threads -> Ptr]
    BY <1>1, <1>2, <1>6, <1>7, <1>8, <1>9, <1>10, TakeStep, ZenonT(30)
  <1>12. CallInv(my')  BY <1>1, <1>2, CallStep
  <1>13. Types(state', node', token', my')  BY <1>1, <1>2, <1>4 DEF Types
  <1>14. RwInv(state', node', token', my', R, wk2, pos)
    BY <1>5, <1>6, <1>11, <1>12, <1>13 DEF RwInv
  <1>15. Ghosts(R, wk2, pos)  BY <1>7, <1>9, <1>11 DEF Ghosts
  <1> QED  BY <1>14, <1>15

\* unlock_queue takes all nodes and clears the word, or leaves the one reader.
LEMMA WakeAllStays ==
    ASSUME NEW Q, NEW wk, NEW pos, Ghosts(Q, wk, pos), RwInv(state, node, token, my, Q, wk, pos),
           NEW t \in Threads, MayWake(t), node' = node, token' = token,
           Swap(t, IF "DOWNGRADED" \in my[t].st.bits THEN ONE_READER ELSE UNLOCKED,
                [my[t] EXCEPT !.pc = "complete", !.cur = my[t].tl])
    PROVE  \E R, wk2 : Ghosts(R, wk2, pos) /\ RwInv(state', node', token', my', R, wk2, pos)
  <1> DEFINE z == my[t].tl
             r == [my[t] EXCEPT !.pc = "complete", !.cur = z]
  <1>1. /\ Types(state, node, token, my) /\ CallOK(my[t]) /\ LockInv(state, my) /\ WordInv(state)
        /\ CallInv(my)
    BY DEF RwInv, CallInv
  <1>2. /\ state = my[t].st /\ Go(t, r) /\ my[t].pc = "unlock_queue"
        /\ state' = IF "DOWNGRADED" \in state.bits THEN ONE_READER ELSE UNLOCKED
        /\ "DOWNGRADED" \in state.bits \/ "LOCKED" \notin state.bits
    BY DEF Swap, MayWake, At
  <1>3. my[t] \in Locals  BY <1>1 DEF Types
  <1>4. /\ r \in Locals /\ r.pc = "complete" /\ r.want = my[t].want /\ r.held = my[t].held
        /\ r.cur = z /\ r.why = my[t].why /\ r.st = my[t].st
    BY <1>3 DEF Locals, PCs
  <1> HIDE DEF r
  <1>5. my'[t] = r /\ Others(my', my, t)  BY <1>1, <1>2, <1>4, GoFacts DEF Types
  <1>6. Holder(my[t]) /\ my[t].why = "unlock_queue"  BY <1>1, <1>2 DEF Holder, CallOK
  <1>7. /\ HolderOK(my[t], node, Q, pos) /\ Taken(wk, t) = {}
        /\ \A u \in Threads : Holder(my[u]) => u = t
        /\ List(node, Q, pos, state.ptr) /\ my[t].held = "none"
    BY <1>6, HolderFacts
  <1>8. Low(Q, pos, z) /\ node[state.ptr].tail = z /\ z \in Threads
    BY <1>2, <1>7 DEF HolderOK, Low, Ghosts
  <1>9. Q \in SUBSET Threads /\ pos \in [Threads -> Nat] /\ z # Null  BY <1>8, RwAssumption DEF Ghosts
  <1>10. \A n \in Q : pos[n] < pos[state.ptr] => node[n].prev # Null
    BY <1>7, <1>8, <1>9 DEF List, High
  <1> HIDE DEF z
  <1>11. Backward(node, Q, pos, z)  BY <1>7, <1>8, <1>9, <1>10, BackwardList
  <1>12. ~Holder(r) /\ ~Leaving(r) /\ ~Grabbing(r) /\ Waking(r)
    BY <1>4 DEF Holder, Leaving, Grabbing, Waking
  <1>13. TakenOK(r, node, Q, pos)  BY <1>4, <1>11, <1>12 DEF TakenOK
  <1>14. CallOK(r)  BY <1>1, <1>2, <1>4, <1>6, <1>7, <1>12 DEF CallOK
  <1>15. ~Contended(state)  BY <1>2 DEF Contended
  <1>16. \A u \in Threads : /\ my'[u].held = my[u].held /\ ~Leaving(my'[u])
                            /\ my'[u].pc \notin {"unlock_contended", "downgrade_slow"}
    BY <1>1, <1>4, <1>5, <1>12, <1>15 DEF LockInv, Others
  <1>17. \A u \in Threads : u \in Counted(my') <=> my[u].held = "read"  BY <1>16 DEF Counted
  <1>18. LockInv(state', my')
    <2>1. CASE "DOWNGRADED" \in state.bits
      <3>1. state'.bits = {"LOCKED"} /\ state'.count = 1  BY <1>2, <2>1 DEF ONE_READER, Word
      <3>2. PICK u \in Threads : my[u].held = "read" /\ Alone(my, u)  BY <1>1, <2>1 DEF LockInv
      <3>3. Alone(my', u) /\ u \in Counted(my')  BY <1>16, <1>17, <3>2 DEF Alone
      <3>4. Cardinality(Counted(my')) = 1  BY <3>3, CountOne
      <3>5. \A v \in Threads : my'[v].held # "write"  BY <1>16, <3>2 DEF Alone
      <3>6. my'[u].held # "none"  BY <1>16, <3>2
      <3> QED  BY <1>16, <3>1, <3>4, <3>5, <3>6 DEF LockInv
    <2>2. CASE "DOWNGRADED" \notin state.bits
      <3>1. state'.bits = {} /\ state'.count = 0  BY <1>2, <2>2 DEF UNLOCKED, Word
      <3>2. \A u \in Threads : my'[u].held = "none"  BY <1>1, <1>2, <1>16, <2>2 DEF LockInv
      <3>3. Counted(my') = {}  BY <3>2 DEF Counted
      <3>4. Cardinality(Counted(my')) = 0  BY <3>3, FS_EmptySet
      <3> QED  BY <1>16, <3>1, <3>2, <3>4 DEF LockInv
    <2> QED  BY <2>1, <2>2
  <1>19. state' \in {UNLOCKED, ONE_READER} /\ Threads # {}  BY <1>2
  <1>20. my[t].pc \notin {"try", "load", "contend"} /\ r.pc \notin {"try", "load", "contend"}
    BY <1>2, <1>4
  <1> QED
    BY <1>2, <1>4, <1>7, <1>12, <1>13, <1>14, <1>18, <1>19, <1>20, TakeAll

\* downgrade_slow takes the queue, which nobody has locked.
LEMMA GrabStays ==
    ASSUME NEW Q, NEW wk, NEW pos, Ghosts(Q, wk, pos), RwInv(state, node, token, my, Q, wk, pos),
           NEW t \in Threads, my[t].pc = "downgrade_slow", "QUEUE_LOCKED" \notin my[t].st.bits,
           Swap(t, ONE_READER, [Traverse(t, my[t].st, "downgrade") EXCEPT !.held = "read"]),
           node' = node, token' = token
    PROVE  \E R, wk2 : Ghosts(R, wk2, pos) /\ RwInv(state', node', token', my', R, wk2, pos)
  <1> DEFINE r == [Traverse(t, my[t].st, "downgrade") EXCEPT !.held = "read"]
  <1>1. /\ Types(state, node, token, my) /\ CallOK(my[t]) /\ LockInv(state, my) /\ WordInv(state)
        /\ CallInv(my) /\ ListInv(state, node, my, Q, pos) /\ HolderInv(state, node, my, Q, pos)
        /\ TakenInv(node, my, wk, pos)
    BY DEF RwInv, CallInv, ShapeInv
  <1>2. state = my[t].st /\ Go(t, r) /\ state' = ONE_READER  BY DEF Swap
  <1>3. my[t] \in Locals /\ my[t].st \in Words  BY <1>1 DEF Types, Locals
  <1>4. /\ r \in Locals /\ r.pc = "walk" /\ r.want = my[t].want /\ r.held = "read" /\ r.st = state
        /\ r.cur = state.ptr /\ r.why = "downgrade"
    BY <1>2, <1>3, TraverseFacts DEF Locals
  <1> HIDE DEF r
  <1>5. my'[t] = r /\ Others(my', my, t)  BY <1>1, <1>2, <1>4, GoFacts DEF Types
  <1>6. Alone(my, t) /\ Contended(state) /\ my[t].want = "none"  BY <1>1 DEF LockInv, CallOK
  <1>7. Plain(my[t])  BY DEF Plain
  <1>8. Taken(wk, t) = {}
    <2>1. ~Waking(my[t]) /\ ~Grabbing(my[t])  BY <1>7, PlainRole
    <2> QED  BY <1>1, <2>1 DEF TakenInv, TakenOK
  <1>9. \A u \in Threads : ~Holder(my[u])  BY <1>1, <1>2 DEF HolderInv
  <1>10. Grabbing(r) /\ ~Holder(r) /\ ~Leaving(r) /\ ~Waking(r)
    BY <1>4 DEF Grabbing, Holder, Leaving, Waking
  <1>11. List(node, Q, pos, state.ptr) /\ RightTail(node, Q, pos)
    <2>1. "QUEUED" \in state.bits  BY <1>6 DEF Contended
    <2>2. RightTail(node, Q, pos)  BY <1>1, <1>9, <2>1, TailIsRight
    <2> QED  BY <1>1, <2>1, <2>2 DEF ListInv
  <1>12. TakenOK(r, node, Q, pos)
    <2>1. Q \in SUBSET Threads /\ pos \in [Threads -> Nat] /\ High(Q, pos, state.ptr)
      BY <1>11 DEF Ghosts, List
    <2>2. Traversing(r, node, Q, pos)  BY <1>4, <1>11, <2>1, TraversalStarts
    <2>3. Finds(node, Q, pos, r.cur)  BY <1>4, <1>11, <2>1, FindsFromHead
    <2> QED  BY <1>4, <1>10, <1>11, <2>2, <2>3 DEF TakenOK
  <1>13. CallOK(r)  BY <1>4, <1>6, <1>10 DEF CallOK
  <1>14. LockInv(state', my')
    <2>1. "LOCKED" \in state'.bits /\ state'.count = 1  BY <1>2 DEF ONE_READER, Word
    <2>2. /\ my'[t].held = "read" /\ my'[t].pc \notin {"unlock_contended", "downgrade_slow"}
          /\ ~Leaving(my'[t])
      BY <1>4, <1>5, <1>10
    <2> QED  BY <1>1, <1>5, <1>6, <2>1, <2>2, BecomesReader
  <1>15. state' \in {UNLOCKED, ONE_READER} /\ Threads # {}  BY <1>2
  <1>16. my[t].pc \notin {"try", "load", "contend"} /\ r.pc \notin {"try", "load", "contend"}
    BY <1>4
  <1> QED
    BY <1>2, <1>4, <1>8, <1>9, <1>10, <1>12, <1>13, <1>14, <1>15, <1>16, TakeAll

-----------------------------------------------------------------------------
(* Joining the queue *)

\* The thread t has registered its node: those who wake others are not concerned.
LEMMA JoinShape ==
    ASSUME NEW w, NEW w2, NEW nd, NEW nd2, NEW mm, NEW mm2, NEW Q \in SUBSET Threads, NEW Q2,
           NEW wk \in [Threads -> Ptr], NEW pos \in [Threads -> Nat], NEW pos2, NEW t \in Threads,
           ShapeInv(w, nd, mm, Q, wk, pos), Q2 = Q \cup {t}, wk[t] = Null, Taken(wk, t) = {},
           Others(mm2, mm, t), Others(nd2, nd, t), Others(pos2, pos, t),
           Waits(mm2[t], nd2[t]), nd2[t].write <=> mm2[t].want = "write",
           ListInv(w2, nd2, mm2, Q2, pos2), HolderInv(w2, nd2, mm2, Q2, pos2),
           LeavingInv(nd2, mm2, Q2, pos2), FreshInv(w2, nd2, mm2, Q2, pos2),
           TakenOK(mm2[t], nd2, {}, pos2)
    PROVE  ShapeInv(w2, nd2, mm2, Q2, wk, pos2)
  <1>1. WaitInv(nd, mm, Q, wk) /\ TakenInv(nd, mm, wk, pos)  BY DEF ShapeInv
  <1>2. WaitInv(nd2, mm2, Q2, wk)
    <2> SUFFICES ASSUME NEW n \in Threads
                 PROVE  /\ Waits(mm2[n], nd2[n]) <=> n \in Q2 \/ wk[n] # Null
                        /\ n \in Q2 => wk[n] = Null
                        /\ Waits(mm2[n], nd2[n]) => (nd2[n].write <=> mm2[n].want = "write")
      BY DEF WaitInv
    <2>1. CASE n = t  BY <2>1
    <2>2. CASE n # t
      <3>1. mm2[n] = mm[n] /\ nd2[n] = nd[n] /\ (n \in Q2 <=> n \in Q)  BY <2>2 DEF Others
      <3> QED  BY <1>1, <3>1 DEF WaitInv
    <2> QED  BY <2>1, <2>2
  <1>3. TakenInv(nd2, mm2, wk, pos2)
    <2> SUFFICES ASSUME NEW u \in Threads PROVE TakenOK(mm2[u], nd2, Taken(wk, u), pos2)
      BY DEF TakenInv
    <2>1. CASE u = t  BY <2>1
    <2>2. CASE u # t
      <3>1. mm2[u] = mm[u] /\ TakenOK(mm[u], nd, Taken(wk, u), pos)
        BY <1>1, <2>2 DEF Others, TakenInv
      <3>2. t \notin Taken(wk, u) /\ Taken(wk, u) \in SUBSET Threads  BY RwAssumption DEF Taken
      <3>3. \A n \in Taken(wk, u) : nd2[n] = nd[n] /\ pos2[n] = pos[n]  BY <3>2 DEF Others
      <3>4. Keeps(nd2, pos2, nd, pos, Taken(wk, u))  BY <3>3 DEF Keeps
      <3> QED  BY <3>1, <3>2, <3>4, KeepTaken
    <2> QED  BY <2>1, <2>2
  <1> QED  BY <1>2, <1>3 DEF ShapeInv

\* The word and the node when t registers; tl is the tail it knows.
Joins(t, w2, tl) ==
    /\ state = my[t].st /\ state' = w2 /\ ~MayLock(t, my[t].st)
    /\ node' = [node EXCEPT ![t] = [next |-> my[t].st.ptr, count |-> my[t].st.count,
                    prev |-> Null, tail |-> tl,
                    write |-> Mode(t) = "write", completed |-> FALSE]]

\* What holds of the thread that registers its node.
LEMMA JoinFacts ==
    ASSUME NEW Q, NEW wk, NEW pos, Ghosts(Q, wk, pos), RwInv(state, node, token, my, Q, wk, pos),
           NEW t \in Threads, my[t].pc = "contend", NEW w2, NEW tl \in Ptr, Joins(t, w2, tl)
    PROVE  /\ Plain(my[t]) /\ my[t].want \in {"read", "write"} /\ my[t].held = "none"
           /\ t \notin Q /\ wk[t] = Null /\ Taken(wk, t) = {}
           /\ node' \in [Threads -> Nodes] /\ Others(node', node, t)
           /\ node'[t].next = state.ptr /\ node'[t].count = state.count /\ node'[t].prev = Null
           /\ node'[t].tail = tl /\ ~node'[t].completed
           /\ (node'[t].write <=> my[t].want = "write")
           /\ "QUEUED" \notin state.bits => "LOCKED" \in state.bits
  <1>1. /\ Types(state, node, token, my) /\ CallOK(my[t]) /\ WaitInv(node, my, Q, wk)
        /\ TakenInv(node, my, wk, pos)
    BY DEF RwInv, CallInv, ShapeInv
  <1>2. Plain(my[t]) /\ my[t].want \in {"read", "write"} /\ my[t].held = "none"
    BY <1>1 DEF Plain, CallOK
  <1>3. t \notin Q /\ wk[t] = Null
    <2>1. ~Waits(my[t], node[t])  BY DEF Waits
    <2> QED  BY <1>1, <2>1 DEF WaitInv
  <1>4. Taken(wk, t) = {}
    <2>1. ~Waking(my[t]) /\ ~Grabbing(my[t])  BY <1>2, PlainRole
    <2> QED  BY <1>1, <2>1 DEF TakenInv, TakenOK
  <1>5. node \in [Threads -> Nodes] /\ my[t].st \in Words  BY <1>1 DEF Types, Locals
  <1>6. (Mode(t) = "write") \in BOOLEAN /\ ((Mode(t) = "write") <=> my[t].want = "write")
    BY <1>2 DEF Mode
  <1> DEFINE nn == [next |-> my[t].st.ptr, count |-> my[t].st.count,
                    prev |-> Null, tail |-> tl,
                    write |-> Mode(t) = "write", completed |-> FALSE]
  <1>7. nn \in Nodes  BY <1>5, <1>6 DEF Nodes, Words, Ptr
  <1>8. /\ nn.next = my[t].st.ptr /\ nn.count = my[t].st.count /\ nn.prev = Null
        /\ nn.tail = tl /\ (nn.write <=> Mode(t) = "write") /\ ~nn.completed
    OBVIOUS
  <1>9. node' = [node EXCEPT ![t] = nn] /\ state = my[t].st  BY DEF Joins
  <1> HIDE DEF nn
  <1>10. node' \in [Threads -> Nodes] /\ Others(node', node, t) /\ node'[t] = nn
    BY <1>5, <1>7, <1>9 DEF Others
  <1>11. "QUEUED" \notin state.bits => "LOCKED" \in state.bits
    BY DEF Joins, MayLock, LOCKED, Word
  <1> QED  BY <1>2, <1>3, <1>4, <1>6, <1>8, <1>9, <1>10, <1>11

\* The locals of a thread that waits on its node.
LEMMA WaitingFacts ==
    ASSUME NEW t \in Threads, my[t] \in Locals, my[t].want \in {"read", "write"}
    PROVE  /\ Waiting(t) \in Locals /\ CallOK(Waiting(t)) /\ Plain(Waiting(t))
           /\ Waiting(t).pc = "wait" /\ Waiting(t).held = "none" /\ Waiting(t).want = my[t].want
  <1>1. /\ Outside("none") \in Locals /\ CallOK(Outside("none"))  BY OutsideFacts
  <1> DEFINE o == Outside("none")
  <1>2. o.held = "none" /\ o.why = "none"  BY DEF Outside
  <1> HIDE DEF o
  <1> DEFINE r == [o EXCEPT !.pc = "wait", !.want = my[t].want]
  <1>3. /\ r \in Locals /\ r.pc = "wait" /\ r.held = "none" /\ r.want = my[t].want /\ r.why = "none"
    BY <1>1, <1>2 DEF Locals, PCs, o
  <1>4. Waiting(t) = r  BY DEF Waiting, o
  <1> HIDE DEF r
  <1>5. CallOK(r) /\ Plain(r)
    BY <1>3 DEF CallOK, Plain, Holder, Leaving, Grabbing, Waking
  <1> QED  BY <1>3, <1>4, <1>5

\* The first waiter: the reader count moves to its node.
LEMMA EnqueueFirst ==
    ASSUME NEW Q, NEW wk, NEW pos, Ghosts(Q, wk, pos), RwInv(state, node, token, my, Q, wk, pos),
           NEW t \in Threads, my[t].pc = "contend", "QUEUED" \notin state.bits, token' = token,
           Joins(t, Word({"QUEUED"} \cup (state.bits \cap {"LOCKED", "DOWNGRADED"}), t, 0), t),
           Go(t, Waiting(t))
    PROVE  \E Q2, pos2 : Ghosts(Q2, wk, pos2) /\ RwInv(state', node', token', my', Q2, wk, pos2)
  <1> DEFINE r == Waiting(t)
             Q2 == {t}
  <1>1. /\ Types(state, node, token, my) /\ LockInv(state, my) /\ WordInv(state) /\ CallInv(my)
        /\ ShapeInv(state, node, my, Q, wk, pos) /\ HolderInv(state, node, my, Q, pos)
        /\ ListInv(state, node, my, Q, pos)
    BY DEF RwInv, ShapeInv
  <1>2. /\ Plain(my[t]) /\ my[t].want \in {"read", "write"} /\ my[t].held = "none"
        /\ wk[t] = Null /\ Taken(wk, t) = {} /\ node' \in [Threads -> Nodes] /\ Others(node', node, t)
        /\ node'[t].count = state.count /\ node'[t].prev = Null
        /\ node'[t].tail = t /\ ~node'[t].completed
        /\ (node'[t].write <=> my[t].want = "write") /\ "LOCKED" \in state.bits
    <2>1. t \in Ptr  BY DEF Ptr
    <2> QED  BY <2>1, JoinFacts
  <1>3. my[t] \in Locals /\ state \in Words  BY <1>1 DEF Types
  <1>4. state.bits = {"LOCKED"}  BY <1>2, <1>3, <1>1, PlainWord
  <1>5. state'.bits = {"QUEUED", "LOCKED"} /\ state'.ptr = t /\ state'.count = 0
    BY <1>4 DEF Joins, Word
  <1>6. state' \in Words
    <2>1. 0 \in 0..Cardinality(Threads)  BY CountRange
    <2>2. state' = Word({"QUEUED", "LOCKED"}, t, 0)  BY <1>4 DEF Joins, Word
    <2> QED  BY <2>1, <2>2 DEF Words, Word, Bits, Ptr
  <1>7. /\ r \in Locals /\ CallOK(r) /\ Plain(r) /\ r.pc = "wait" /\ r.held = "none"
        /\ r.want = my[t].want
    BY <1>2, <1>3, WaitingFacts
  <1> HIDE DEF r
  <1>8. my'[t] = r /\ Others(my', my, t) /\ my' \in [Threads -> Locals]
    BY <1>1, <1>7, GoFacts DEF Types, r
  <1>9. /\ pos \in [Threads -> Nat] /\ wk \in [Threads -> Ptr] /\ Q \in SUBSET Threads
        /\ Q = {} /\ Q2 = Q \cup {t}
    BY <1>1 DEF Ghosts, ListInv
  <1>10. /\ List(node', Q2, pos, t) /\ Low(Q2, pos, t) /\ Dense(Q2, pos)
         /\ SomeTail(node', Q2, pos) /\ RightTail(node', Q2, pos) /\ Fresh(node', Q2, pos)
    BY <1>2, <1>9, SingleList
  <1>11. ~Holder(r) /\ ~Leaving(r) /\ TakenOK(r, node', {}, pos)  BY <1>7, PlainRole DEF RoleOK
  <1>12. \A u \in Threads : /\ my'[u].held = my[u].held /\ ~Holder(my'[u]) /\ ~Leaving(my'[u])
                            /\ my'[u].pc \notin {"unlock_contended", "downgrade_slow"}
    <2> SUFFICES ASSUME NEW u \in Threads
                 PROVE  /\ my'[u].held = my[u].held /\ ~Holder(my'[u]) /\ ~Leaving(my'[u])
                        /\ my'[u].pc \notin {"unlock_contended", "downgrade_slow"}
      OBVIOUS
    <2>1. CASE u = t  BY <1>2, <1>7, <1>8, <1>11, <2>1
    <2>2. CASE u # t
      <3>1. my'[u] = my[u]  BY <1>8, <2>2 DEF Others
      <3>2. ~Holder(my[u])  BY <1>1, <1>4 DEF HolderInv
      <3> QED  BY <1>1, <3>1, <3>2, NoQueue
    <2> QED  BY <2>1, <2>2
  <1>13. Counted(my') = Counted(my)
    <2>1. t \notin Counted(my) /\ t \notin Counted(my')  BY <1>2, <1>7, <1>8 DEF Counted
    <2> QED  BY <1>8, <2>1, CountSame
  <1>14. LockInv(state', my')
    <2>1. \A u \in Threads : Alone(my, u) <=> Alone(my', u)  BY <1>12 DEF Alone
    <2>2. \E u \in Threads : my'[u].held # "none"  BY <1>1, <1>2, <1>12 DEF LockInv
    <2>3. \A u \in Threads : my'[u].held = "write" => Alone(my', u)
      BY <1>1, <1>12, <2>1 DEF LockInv
    <2> QED  BY <1>5, <1>12, <2>2, <2>3 DEF LockInv
  <1>15. CountInv(state', node', my', Q2, pos)
    <2>1. state.count = Cardinality(Counted(my))  BY <1>1 DEF LockInv
    <2> QED  BY <1>2, <1>5, <1>10, <1>13, <2>1 DEF CountInv
  <1>16. ListInv(state', node', my', Q2, pos)  BY <1>5, <1>10 DEF ListInv
  <1>17. HolderInv(state', node', my', Q2, pos)  BY <1>5, <1>12 DEF HolderInv
  <1>18. LeavingInv(node', my', Q2, pos) /\ FreshInv(state', node', my', Q2, pos)
    BY <1>10, <1>12 DEF LeavingInv, FreshInv
  <1>19. /\ Waits(my'[t], node'[t]) /\ (node'[t].write <=> my'[t].want = "write")
         /\ TakenOK(my'[t], node', {}, pos) /\ Others(pos, pos, t)
    BY <1>2, <1>7, <1>8, <1>11 DEF Waits, Others
  <1> HIDE DEF Q2
  <1>20. ShapeInv(state', node', my', Q2, wk, pos)
    BY <1>1, <1>2, <1>8, <1>9, <1>16, <1>17, <1>18, <1>19, JoinShape
  <1>21. Types(state', node', token', my')  BY <1>1, <1>2, <1>6, <1>8 DEF Types
  <1>22. CallInv(my')  BY <1>1, <1>7, <1>8, CallStep
  <1>23. WordInv(state')  BY <1>5, RwAssumption DEF WordInv
  <1>24. RwInv(state', node', token', my', Q2, wk, pos)
    BY <1>14, <1>15, <1>20, <1>21, <1>22, <1>23 DEF RwInv
  <1>25. Ghosts(Q2, wk, pos)  BY <1>9 DEF Ghosts
  <1> QED  BY <1>24, <1>25

\* A waiter that finds a queue puts its node before the head; if nobody had locked
\* the queue it has done so, and goes on in unlock_queue.
LEMMA EnqueuePush ==
    ASSUME NEW Q, NEW wk, NEW pos, Ghosts(Q, wk, pos), RwInv(state, node, token, my, Q, wk, pos),
           NEW t \in Threads, my[t].pc = "contend", "QUEUED" \in state.bits, token' = token,
           NEW w2, w2 = Word({"QUEUED"} \cup (state.bits \cap {"LOCKED", "DOWNGRADED"})
                                \cup {"QUEUE_LOCKED"}, t, 0),
           Joins(t, w2, Null),
           Go(t, IF "QUEUE_LOCKED" \in state.bits THEN Waiting(t) ELSE Traverse(t, w2, "unlock_queue"))
    PROVE  \E Q2, pos2 : Ghosts(Q2, wk, pos2) /\ RwInv(state', node', token', my', Q2, wk, pos2)
  <1> DEFINE locks == "QUEUE_LOCKED" \notin state.bits
             r == IF locks THEN Traverse(t, w2, "unlock_queue") ELSE Waiting(t)
             h == state.ptr
             Q2 == Q \cup {t}
             pos2 == [pos EXCEPT ![t] = pos[h] + 1]
  <1>1. /\ Types(state, node, token, my) /\ LockInv(state, my) /\ WordInv(state) /\ CallInv(my)
        /\ CountInv(state, node, my, Q, pos) /\ CallOK(my[t])
        /\ ShapeInv(state, node, my, Q, wk, pos) /\ HolderInv(state, node, my, Q, pos)
        /\ ListInv(state, node, my, Q, pos) /\ LeavingInv(node, my, Q, pos)
        /\ FreshInv(state, node, my, Q, pos)
    BY DEF RwInv, ShapeInv, CallInv
  <1>2. /\ Plain(my[t]) /\ my[t].want \in {"read", "write"} /\ my[t].held = "none"
        /\ t \notin Q /\ wk[t] = Null /\ Taken(wk, t) = {}
        /\ node' \in [Threads -> Nodes] /\ Others(node', node, t)
        /\ node'[t].next = h /\ node'[t].count = state.count /\ node'[t].prev = Null
        /\ node'[t].tail = Null /\ ~node'[t].completed
        /\ (node'[t].write <=> my[t].want = "write")
    <2>1. Null \in Ptr  BY DEF Ptr
    <2> QED  BY <2>1, JoinFacts
  <1>3. my[t] \in Locals /\ state \in Words /\ state.count = 0  BY <1>1 DEF Types, WordInv
  <1>4. /\ state' = w2 /\ w2.ptr = t /\ w2.count = 0
        /\ w2.bits = state.bits \cup {"QUEUE_LOCKED"}
    <2>1. state.bits \subseteq Bits  BY <1>3 DEF Words
    <2> QED  BY <2>1 DEF Joins, Word, Bits
  <1>5. w2 \in Words
    <2>1. 0 \in 0..Cardinality(Threads)  BY CountRange
    <2> QED  BY <1>3, <2>1 DEF Words, Word, Bits, Ptr
  <1>6. /\ r \in Locals /\ r.held = "none" /\ r.want = my[t].want
        /\ IF locks THEN r.pc = "walk" /\ r.st = w2 /\ r.cur = t /\ r.why = "unlock_queue"
                    ELSE r.pc = "wait" /\ CallOK(r)
    <2>1. CASE locks
      <3>1. r = Traverse(t, w2, "unlock_queue")  BY <2>1
      <3> QED  BY <1>2, <1>3, <1>4, <1>5, <2>1, <3>1, TraverseFacts
    <2>2. CASE ~locks
      <3>1. r = Waiting(t)  BY <2>2
      <3> QED  BY <1>2, <1>3, <2>2, <3>1, WaitingFacts
    <2> QED  BY <2>1, <2>2
  <1>7. Go(t, r)  OBVIOUS
  <1> HIDE DEF r
  <1>8. my'[t] = r /\ Others(my', my, t) /\ my' \in [Threads -> Locals]
    BY <1>1, <1>6, <1>7, GoFacts DEF Types
  <1>9. pos \in [Threads -> Nat] /\ wk \in [Threads -> Ptr] /\ Q \in SUBSET Threads  BY DEF Ghosts
  <1>10. List(node, Q, pos, h) /\ h \in Q  BY <1>1 DEF ListInv, List, High
  <1>11. /\ pos2 \in [Threads -> Nat] /\ Others(pos2, pos, t) /\ pos2[t] = pos[h] + 1
    BY <1>9, <1>10 DEF Others
  <1> HIDE DEF pos2
  <1>12. Pushes(node', pos2, node, pos, Q, h, t)
    BY <1>2, <1>9, <1>11 DEF Pushes, Others
  <1>13. /\ List(node', Q2, pos2, t)
         /\ \A n \in Q : Low(Q, pos, n) <=> Low(Q2, pos2, n)
         /\ \A n : Low(Q, pos, n) => Low(Q2, pos2, n)
         /\ ~Low(Q2, pos2, t)
    BY <1>2, <1>9, <1>10, <1>11, <1>12, PushList
  <1>14. /\ SomeTail(node, Q, pos) => SomeTail(node', Q2, pos2)
         /\ RightTail(node, Q, pos) => RightTail(node', Q2, pos2)
         /\ Fresh(node, Q, pos) => Fresh(node', Q2, pos2)
         /\ Dense(Q, pos) => Dense(Q2, pos2)
    BY <1>2, <1>9, <1>10, <1>11, <1>12, PushTails
  <1>15. \A m : /\ HolderOK(m, node, Q, pos) => HolderOK(m, node', Q2, pos2)
                /\ LeavingOK(m, node, Q, pos) => LeavingOK(m, node', Q2, pos2)
    BY <1>2, <1>9, <1>10, <1>11, <1>12, PushHolder
  <1>16. Q2 = Q \cup {t}  OBVIOUS
  <1> HIDE DEF Q2, h
  <1>17. ~Holder(my[t]) /\ ~Leaving(my[t]) /\ ~Splitting(my[t])  BY <1>2, PlainRole
  <1>18. (Holder(r) <=> locks) /\ ~Leaving(r) /\ ~Splitting(r) /\ ~Grabbing(r) /\ ~Waking(r)
    BY <1>6 DEF Holder, Leaving, Splitting, Grabbing, Waking
  <1>19. locks => HolderOK(r, node', Q2, pos2)
    <2> SUFFICES ASSUME locks PROVE HolderOK(r, node', Q2, pos2)  OBVIOUS
    <2>1. \A u \in Threads : ~Holder(my[u])  BY <1>1 DEF HolderInv
    <2>2. RightTail(node, Q, pos)  BY <1>1, <2>1, TailIsRight
    <2>3. Q2 \in SUBSET Threads  BY <1>9, <1>16
    <2>4. r.pc = "walk" /\ r.cur = r.st.ptr /\ r.st.ptr = t  BY <1>4, <1>6
    <2> QED  BY <1>11, <1>13, <1>14, <2>2, <2>3, <2>4, HolderStarts
  <1>20. ListInv(state', node', my', Q2, pos2)
    <2>1. SomeTail(node', Q2, pos2) /\ Dense(Q2, pos2)  BY <1>1, <1>14 DEF ListInv
    <2>2. (\A u \in Threads : ~Splitting(my'[u])) => RightTail(node', Q2, pos2)
      <3> SUFFICES ASSUME \A u \in Threads : ~Splitting(my'[u]) PROVE RightTail(node', Q2, pos2)
        OBVIOUS
      <3>1. \A u \in Threads : ~Splitting(my[u])  BY <1>8, <1>17 DEF Others
      <3> QED  BY <1>1, <1>14, <3>1 DEF ListInv
    <2>3. \E n \in Q2 : Low(Q2, pos2, n)
      <3>1. \E n \in Q : Low(Q, pos, n)  BY <1>1 DEF ListInv
      <3> QED  BY <1>13, <1>16, <3>1
    <2>4. "QUEUED" \in state'.bits /\ state'.ptr = t /\ Q2 # {}  BY <1>4, <1>16
    <2> QED  BY <1>13, <2>1, <2>2, <2>3, <2>4 DEF ListInv
  <1>21. HolderInv(state', node', my', Q2, pos2)
    <2>1. "QUEUE_LOCKED" \in state'.bits /\ \E u \in Threads : Holder(my'[u])
      <3>1. CASE locks  BY <1>4, <1>8, <1>18, <3>1
      <3>2. CASE ~locks
        <4>1. PICK u \in Threads : Holder(my[u])  BY <1>1, <3>2 DEF HolderInv
        <4>2. my'[u] = my[u]  BY <1>8, <1>17, <4>1 DEF Others
        <4> QED  BY <1>4, <4>1, <4>2
      <3> QED  BY <3>1, <3>2
    <2>2. \A u, v \in Threads : Holder(my'[u]) /\ Holder(my'[v]) => u = v
      <3>1. CASE locks
        <4>1. \A u \in Threads : ~Holder(my[u])  BY <1>1, <3>1 DEF HolderInv
        <4> QED  BY <1>8, <4>1 DEF Others
      <3>2. CASE ~locks  BY <1>1, <1>8, <1>18, <3>2 DEF HolderInv, Others
      <3> QED  BY <3>1, <3>2
    <2>3. ASSUME NEW u \in Threads, Holder(my'[u]) PROVE HolderOK(my'[u], node', Q2, pos2)
      <3>1. CASE u = t  BY <1>8, <1>18, <1>19, <2>3, <3>1
      <3>2. CASE u # t
        <4>1. my'[u] = my[u]  BY <1>8, <3>2 DEF Others
        <4>2. HolderOK(my[u], node, Q, pos)  BY <1>1, <2>3, <4>1 DEF HolderInv
        <4> QED  BY <1>15, <4>1, <4>2
      <3> QED  BY <3>1, <3>2
    <2> QED  BY <2>1, <2>2, <2>3 DEF HolderInv
  <1>22. LeavingInv(node', my', Q2, pos2)
    <2> SUFFICES ASSUME NEW u \in Threads, Leaving(my'[u]) PROVE LeavingOK(my'[u], node', Q2, pos2)
      BY DEF LeavingInv
    <2>1. u # t /\ my'[u] = my[u]  BY <1>8, <1>18 DEF Others
    <2>2. LeavingOK(my[u], node, Q, pos)  BY <1>1, <2>1 DEF LeavingInv
    <2> QED  BY <1>15, <2>1, <2>2
  <1>23. FreshInv(state', node', my', Q2, pos2)
    <2> SUFFICES ASSUME ReadLocked(state', my')
                 PROVE  /\ Fresh(node', Q2, pos2)
                        /\ \A u \in Threads : Holder(my'[u]) =>
                              "LOCKED" \in my'[u].st.bits /\ ~Splitting(my'[u])
      BY DEF FreshInv
    <2>1. ReadLocked(state, my)
      BY <1>4, <1>6, <1>8 DEF ReadLocked, Contended, Others
    <2>2. Fresh(node', Q2, pos2)  BY <1>1, <1>14, <2>1 DEF FreshInv
    <2>3. ASSUME NEW u \in Threads, Holder(my'[u])
          PROVE  "LOCKED" \in my'[u].st.bits /\ ~Splitting(my'[u])
      <3>1. CASE u = t
        <4>1. "LOCKED" \in state.bits  BY <2>1 DEF ReadLocked, Contended
        <4> QED  BY <1>4, <1>6, <1>8, <1>18, <2>3, <3>1, <4>1
      <3>2. CASE u # t
        <4>1. my'[u] = my[u]  BY <1>8, <3>2 DEF Others
        <4> QED  BY <1>1, <2>1, <2>3, <4>1 DEF FreshInv
      <3> QED  BY <3>1, <3>2
    <2> QED  BY <2>2, <2>3
  <1>24. /\ Waits(my'[t], node'[t]) /\ (node'[t].write <=> my'[t].want = "write")
         /\ TakenOK(my'[t], node', {}, pos2)
    BY <1>2, <1>6, <1>8, <1>18 DEF Waits, TakenOK
  <1>25. ShapeInv(state', node', my', Q2, wk, pos2)
    BY <1>1, <1>2, <1>8, <1>9, <1>11, <1>16, <1>20, <1>21, <1>22, <1>23, <1>24, JoinShape
  <1>26. LockInv(state', my') /\ Counted(my') = Counted(my)
    <2>1. t \in Counted(my') <=> t \in Counted(my)  BY <1>2, <1>6, <1>8 DEF Counted
    <2>2. /\ my'[t].held = my[t].held
          /\ my'[t].pc \notin {"unlock_contended", "downgrade_slow"} /\ ~Leaving(my'[t])
      BY <1>2, <1>6, <1>8, <1>18
    <2>3. \A b \in {"QUEUED", "LOCKED", "DOWNGRADED"} : b \in state'.bits <=> b \in state.bits
      BY <1>4
    <2> QED  BY <1>1, <1>8, <2>1, <2>2, <2>3, LockKeep
  <1>27. CountInv(state', node', my', Q2, pos2)
    <2> SUFFICES ASSUME NEW n \in Q2
                 PROVE  node'[n].count = IF Low(Q2, pos2, n) /\ "DOWNGRADED" \notin state'.bits
                                         THEN Cardinality(Counted(my')) ELSE 0
      BY DEF CountInv
    <2>1. "DOWNGRADED" \in state'.bits <=> "DOWNGRADED" \in state.bits  BY <1>4
    <2>2. CASE n = t  BY <1>2, <1>3, <1>13, <2>2
    <2>3. CASE n # t
      <3>1. n \in Q /\ n \in Threads  BY <1>9, <1>16, <2>3
      <3>2. node'[n] = node[n]  BY <1>2, <2>3, <3>1 DEF Others
      <3>3. node[n].count = IF Low(Q, pos, n) /\ "DOWNGRADED" \notin state.bits
                            THEN Cardinality(Counted(my)) ELSE 0
        BY <1>1, <3>1 DEF CountInv
      <3> QED  BY <1>13, <1>26, <2>1, <3>1, <3>2, <3>3
    <2> QED  BY <2>2, <2>3
  <1>28. Types(state', node', token', my')  BY <1>1, <1>2, <1>4, <1>5, <1>8 DEF Types
  <1>29. CallOK(r)
    <2>1. CASE locks
      <3>1. {"QUEUED", "QUEUE_LOCKED"} \subseteq r.st.bits  BY <1>4, <1>6, <2>1
      <3> QED  BY <1>2, <1>6, <1>18, <2>1, <3>1 DEF CallOK
    <2>2. CASE ~locks  BY <1>6, <2>2
    <2> QED  BY <2>1, <2>2
  <1>30. CallInv(my')  BY <1>1, <1>8, <1>29, CallStep
  <1>31. WordInv(state')  BY <1>1, <1>4, RwAssumption DEF WordInv
  <1>32. RwInv(state', node', token', my', Q2, wk, pos2)
    BY <1>25, <1>26, <1>27, <1>28, <1>30, <1>31 DEF RwInv
  <1>33. Ghosts(Q2, wk, pos2)  BY <1>9, <1>11, <1>16 DEF Ghosts
  <1> QED  BY <1>32, <1>33

-----------------------------------------------------------------------------
(* Every step *)

\* A waiter registers its node, as the first or before those that are queued.
LEMMA EnqueueStays ==
    ASSUME NEW Q, NEW wk, NEW pos, Ghosts(Q, wk, pos), RwInv(state, node, token, my, Q, wk, pos),
           NEW t \in Threads, Enqueue(t)
    PROVE  \E Q2, pos2 : Ghosts(Q2, wk, pos2) /\ RwInv(state', node', token', my', Q2, wk, pos2)
  <1> DEFINE w == my[t].st
             first == "QUEUED" \notin w.bits
             next == Word({"QUEUED"} \cup (w.bits \cap {"LOCKED", "DOWNGRADED"})
                             \cup (IF first THEN {} ELSE {"QUEUE_LOCKED"}), t, 0)
             is_queue_locked == ~first /\ "QUEUE_LOCKED" \notin w.bits
             r == IF is_queue_locked THEN Traverse(t, next, "unlock_queue") ELSE Waiting(t)
             nn == [next |-> w.ptr, count |-> w.count, prev |-> Null, tail |-> IF first THEN t ELSE Null,
                    write |-> Mode(t) = "write", completed |-> FALSE]
  <1>1. /\ my[t].pc = "contend" /\ ~MayLock(t, w) /\ token' = token
        /\ \/ Swap(t, next, r) /\ node' = [node EXCEPT ![t] = nn]
           \/ Retry(t, my[t]) /\ node' = node
    BY DEF Enqueue, At
  <1>2. CASE Retry(t, my[t]) /\ node' = node  BY <1>1, <1>2, RetryStays
  <1>3. CASE Swap(t, next, r) /\ node' = [node EXCEPT ![t] = nn]
    <2>1. state = w /\ state' = next /\ Go(t, r)  BY <1>3 DEF Swap
    <2>2. CASE first
      <3>1. next = Word({"QUEUED"} \cup (state.bits \cap {"LOCKED", "DOWNGRADED"}), t, 0)
        BY <2>1, <2>2
      <3>2. Joins(t, next, t)  BY <1>1, <1>3, <2>1, <2>2 DEF Joins
      <3>3. Go(t, Waiting(t)) /\ "QUEUED" \notin state.bits  BY <2>1, <2>2
      <3> HIDE DEF next
      <3> QED  BY <1>1, <3>1, <3>2, <3>3, EnqueueFirst
    <2>3. CASE ~first
      <3>1. next = Word({"QUEUED"} \cup (state.bits \cap {"LOCKED", "DOWNGRADED"})
                          \cup {"QUEUE_LOCKED"}, t, 0)
        BY <2>1, <2>3
      <3>2. Joins(t, next, Null)  BY <1>1, <1>3, <2>1, <2>3 DEF Joins
      <3>3. /\ Go(t, IF "QUEUE_LOCKED" \in state.bits THEN Waiting(t)
                     ELSE Traverse(t, next, "unlock_queue"))
            /\ "QUEUED" \in state.bits
        BY <2>1, <2>3
      <3> HIDE DEF next
      <3> QED  BY <1>1, <3>1, <3>2, <3>3, EnqueuePush
    <2> QED  BY <2>2, <2>3
  <1> QED  BY <1>1, <1>2, <1>3

\* The lock is taken or found taken.
LEMMA TryStays ==
    ASSUME NEW Q, NEW wk, NEW pos, Ghosts(Q, wk, pos), RwInv(state, node, token, my, Q, wk, pos),
           NEW t \in Threads, Try(t) \/ Contend(t)
    PROVE  RwInv(state', node', token', my', Q, wk, pos)
  <1>1. CASE Try(t) /\ MayLock(t, state)
    <2>1. /\ my[t].pc = "try" /\ state' = Locked(t, state) /\ Go(t, Outside(Mode(t)))
          /\ node' = node /\ token' = token
      BY <1>1 DEF Try, At
    <2> QED  BY <1>1, <2>1, AcquireStays
  <1>2. CASE Try(t) /\ ~MayLock(t, state)  BY <1>2, TryFails
  <1>3. CASE Contend(t)
    <2>1. my[t].pc = "contend" /\ token' = token /\ MayLock(t, my[t].st)  BY <1>3 DEF Contend, At
    <2>2. CASE /\ Swap(t, Locked(t, my[t].st), Outside(Mode(t)))
               /\ node' = [node EXCEPT ![t] = NoNode]
      <3>1. MayLock(t, state) /\ state' = Locked(t, state) /\ Go(t, Outside(Mode(t)))
        BY <2>1, <2>2 DEF Swap
      <3> QED  BY <2>1, <2>2, <3>1, AcquireStays
    <2>3. CASE Retry(t, my[t]) /\ node' = node  BY <2>1, <2>3, RetryStays
    <2> QED  BY <1>3, <2>2, <2>3 DEF Contend
  <1> QED  BY <1>1, <1>2, <1>3

\* unlock_contended gives the lock back and sees that the queue is attended to.
LEMMA UnlockContendedStays ==
    ASSUME NEW Q, NEW wk, NEW pos, Ghosts(Q, wk, pos), RwInv(state, node, token, my, Q, wk, pos),
           NEW t \in Threads, UnlockContended(t)
    PROVE  RwInv(state', node', token', my', Q, wk, pos)
  <1> DEFINE next == Set(Mask(my[t].st, {"LOCKED"}), {"QUEUE_LOCKED"})
  <1>1. my[t].pc = "unlock_contended" /\ node' = node /\ token' = token  BY DEF UnlockContended, At
  <1>2. CASE "QUEUE_LOCKED" \in my[t].st.bits
    <2>1. Swap(t, next, Outside("none")) \/ Retry(t, my[t])
      BY <1>2 DEF UnlockContended, Exchange
    <2> QED  BY <1>1, <1>2, <2>1, UnlockLeaves, RetryStays
  <1>3. CASE "QUEUE_LOCKED" \notin my[t].st.bits
    <2>1. \/ Swap(t, next, [Traverse(t, next, "unlock_queue") EXCEPT !.held = "none"])
          \/ Retry(t, my[t])
      BY <1>3 DEF UnlockContended, Exchange
    <2> HIDE DEF next
    <2>2. CASE Swap(t, next, [Traverse(t, next, "unlock_queue") EXCEPT !.held = "none"])
      <3>1. next = Set(Mask(my[t].st, {"LOCKED"}), {"QUEUE_LOCKED"})  BY DEF next
      <3> QED  BY <1>1, <1>3, <2>2, <3>1, UnlockEnters
    <2>3. CASE Retry(t, my[t])  BY <1>1, <2>3, RetryStays
    <2> QED  BY <2>1, <2>2, <2>3
  <1> QED  BY <1>2, <1>3

\* downgrade_slow marks the word, or takes the whole queue.
LEMMA DowngradeSlowStays ==
    ASSUME NEW Q, NEW wk, NEW pos, Ghosts(Q, wk, pos), RwInv(state, node, token, my, Q, wk, pos),
           NEW t \in Threads, DowngradeSlow(t)
    PROVE  \E R, wk2 : Ghosts(R, wk2, pos) /\ RwInv(state', node', token', my', R, wk2, pos)
  <1>1. my[t].pc = "downgrade_slow" /\ node' = node /\ token' = token  BY DEF DowngradeSlow, At
  <1>2. CASE Retry(t, my[t])  BY <1>1, <1>2, RetryStays
  <1>3. CASE /\ "QUEUE_LOCKED" \in my[t].st.bits
             /\ Swap(t, Set(my[t].st, {"DOWNGRADED"}), Outside("read"))
    BY <1>1, <1>3, DowngradeMarks
  <1>4. CASE /\ "QUEUE_LOCKED" \notin my[t].st.bits
             /\ Swap(t, ONE_READER, [Traverse(t, my[t].st, "downgrade") EXCEPT !.held = "read"])
    BY <1>1, <1>4, GrabStays
  <1> QED  BY <1>2, <1>3, <1>4 DEF DowngradeSlow, Exchange

\* unlock_queue leaves the waiters to the holder, wakes one or wakes all.
LEMMA UnlockQueueStays ==
    ASSUME NEW Q, NEW wk, NEW pos, Ghosts(Q, wk, pos), RwInv(state, node, token, my, Q, wk, pos),
           NEW t \in Threads, LeaveToHolder(t) \/ WakeOne(t) \/ WakeAll(t)
    PROVE  \E R, wk2 : Ghosts(R, wk2, pos) /\ RwInv(state', node', token', my', R, wk2, pos)
  <1>1. CASE LeaveToHolder(t)
    <2>1. /\ my[t].pc = "unlock_queue" /\ "DOWNGRADED" \notin my[t].st.bits
          /\ node' = node /\ token' = token
      BY <1>1 DEF LeaveToHolder, At
    <2>2. CASE Swap(t, Mask(my[t].st, {"QUEUE_LOCKED"}), Returned(t))  BY <2>1, <2>2, LeaveStays
    <2>3. CASE Retry(t, Again(t))  BY <2>1, <2>3, AgainStays
    <2> QED  BY <1>1, <2>2, <2>3 DEF LeaveToHolder
  <1>2. CASE WakeOne(t)
    <2>1. my[t].pc = "split" /\ node' = node /\ token' = token  BY <1>2 DEF WakeOne, At
    <2>2. CASE Swap(t, Mask(my[t].st, {"QUEUE_LOCKED"}),
                    [my[t] EXCEPT !.pc = "complete_one", !.cur = my[t].tl])
      BY <2>1, <2>2, WakeOneStays
    <2>3. CASE Retry(t, [my[t] EXCEPT !.pc = "undo", !.cur = my[t].st.ptr])
      BY <2>1, <2>3, WakeOneFails
    <2> QED  BY <1>2, <2>2, <2>3 DEF WakeOne
  <1>3. CASE WakeAll(t)
    <2>1. MayWake(t) /\ my[t].pc = "unlock_queue" /\ node' = node /\ token' = token
      BY <1>3 DEF WakeAll, MayWake, At
    <2>2. CASE Swap(t, IF "DOWNGRADED" \in my[t].st.bits THEN ONE_READER ELSE UNLOCKED,
                    [my[t] EXCEPT !.pc = "complete", !.cur = my[t].tl])
      BY <2>1, <2>2, WakeAllStays
    <2>3. CASE Retry(t, Again(t))  BY <2>1, <2>3, AgainStays
    <2> QED  BY <1>3, <2>2, <2>3 DEF WakeAll
  <1> QED  BY <1>1, <1>2, <1>3

\* read_unlock, write_unlock and downgrade.
LEMMA ReleaseDowngrade ==
    ASSUME NEW Q, NEW wk, NEW pos, Ghosts(Q, wk, pos), RwInv(state, node, token, my, Q, wk, pos),
           NEW t \in Threads, Release(t) \/ Downgrade(t)
    PROVE  RwInv(state', node', token', my', Q, wk, pos)
  <1>1. CASE ReadUnlock(t)
    BY <1>1, ReadUnlockPlain, ReadUnlockDowngraded, ReadUnlockEnters
  <1>2. CASE WriteUnlock(t) /\ state = LOCKED  BY <1>2, WriteUnlockPlain
  <1>3. CASE Downgrade(t) /\ state = LOCKED  BY <1>3, DowngradePlain
  <1>4. CASE (WriteUnlock(t) \/ Downgrade(t)) /\ state # LOCKED  BY <1>4, SlowPath
  <1> QED  BY <1>1, <1>2, <1>3, <1>4 DEF Release

\* Every step of a thread.
LEMMA StepInv ==
    ASSUME NEW Q, NEW wk, NEW pos, Ghosts(Q, wk, pos), RwInv(state, node, token, my, Q, wk, pos),
           NEW t \in Threads, Step(t)
    PROVE  \E Q2, wk2, pos2 :
                Ghosts(Q2, wk2, pos2) /\ RwInv(state', node', token', my', Q2, wk2, pos2)
  <1>1. CASE Try(t) \/ Contend(t)  BY <1>1, TryStays
  <1>2. CASE Load(t) \/ Spin(t)  BY <1>2, LoadStays
  <1>3. CASE Enqueue(t)  BY <1>3, EnqueueStays
  <1>4. CASE Wait(t) \/ Park(t)  BY <1>4, ParkStays, WaitEnds
  <1>5. CASE Walk(t)  BY <1>5, WalkFinds, WalkLinks
  <1>6. CASE Found(t)  BY <1>6, FoundStays, FoundTaken
  <1>7. CASE Complete(t) \/ CompleteOne(t)  BY <1>7, CompleteStays
  <1>8. CASE Unpark(t)  BY <1>8, UnparkStays
  <1>9. CASE Decrement(t)  BY <1>9, DecrementStays
  <1>10. CASE UnlockContended(t)  BY <1>10, UnlockContendedStays
  <1>11. CASE DowngradeSlow(t)  BY <1>11, DowngradeSlowStays
  <1>12. CASE LeaveToHolder(t) \/ WakeOne(t) \/ WakeAll(t)  BY <1>12, UnlockQueueStays
  <1>13. CASE SplitTail(t)  BY <1>13, SplitStays
  <1>14. CASE Undo(t)  BY <1>14, UndoStays
  <1> QED
    BY <1>1, <1>2, <1>3, <1>4, <1>5, <1>6, <1>7, <1>8, <1>9, <1>10, <1>11, <1>12, <1>13, <1>14 DEF Step

\* The word, the nodes, the tokens and the locals of the first state.
LEMMA InitInv == Init => Inv
  <1> SUFFICES ASSUME Init PROVE Inv  OBVIOUS
  <1> DEFINE Q == {}
             wk == [n \in Threads |-> Null]
             pos == [n \in Threads |-> 0]
  <1>1. Ghosts(Q, wk, pos)  BY DEF Ghosts, Ptr
  <1>2. /\ \A n \in Threads : wk[n] = Null
        /\ \A u \in Threads : Taken(wk, u) = {}
    BY RwAssumption DEF Taken
  <1> HIDE DEF wk, pos
  <1>3. \A u \in Threads : my[u] = Outside("none")  BY DEF Init
  <1>4. \A u \in Threads : /\ my[u] \in Locals /\ CallOK(my[u]) /\ Plain(my[u]) /\ my[u].pc = "idle"
                           /\ my[u].held = "none" /\ \A n : ~Waits(my[u], n)
    BY <1>3, OutsideFacts
  <1>5. state = UNLOCKED /\ state.bits = {} /\ state.ptr = Null /\ state.count = 0
    BY DEF Init, UNLOCKED, Word
  <1>6. 0 \in 0..Cardinality(Threads)  BY CountRange
  <1>7. NoNode \in Nodes /\ UNLOCKED \in Words  BY <1>6 DEF NoNode, Nodes, UNLOCKED, Words, Word, Ptr
  <1>8. Types(state, node, token, my)  BY <1>4, <1>5, <1>7 DEF Init, Types
  <1>9. CallInv(my) /\ WordInv(state)  BY <1>4, <1>5 DEF CallInv, WordInv
  <1>10. \A u \in Threads : /\ ~Holder(my[u]) /\ ~Leaving(my[u])
                            /\ \A nd : RoleOK(my[u], nd, Q, {}, pos)
    BY <1>4, PlainRole
  <1>11. LockInv(state, my)
    <2>1. Counted(my) = {}  BY <1>4 DEF Counted
    <2>2. Cardinality(Counted(my)) = 0  BY <2>1, FS_EmptySet
    <2> QED  BY <1>4, <1>5, <1>10, <2>2 DEF LockInv
  <1>12. ListInv(state, node, my, Q, pos) /\ CountInv(state, node, my, Q, pos) /\ ~Contended(state)
    BY <1>5, NoList
  <1>13. HolderInv(state, node, my, Q, pos)  BY <1>5, <1>10 DEF HolderInv
  <1>14. LeavingInv(node, my, Q, pos) /\ FreshInv(state, node, my, Q, pos)
    BY <1>10, <1>12 DEF LeavingInv, FreshInv, ReadLocked
  <1>15. TakenInv(node, my, wk, pos)  BY <1>2, <1>10 DEF TakenInv, RoleOK
  <1>16. WaitInv(node, my, Q, wk)  BY <1>2, <1>4 DEF WaitInv
  <1>17. RwInv(state, node, token, my, Q, wk, pos)
    BY <1>8, <1>9, <1>11, <1>12, <1>13, <1>14, <1>15, <1>16 DEF RwInv, ShapeInv
  <1> QED  BY <1>1, <1>17 DEF Inv

\* Every step keeps the invariant.
LEMMA NextInv == Inv /\ [Next]_vars => Inv'
  <1> SUFFICES ASSUME Inv, [Next]_vars PROVE Inv'  OBVIOUS
  <1>1. PICK Q, wk, pos : Ghosts(Q, wk, pos) /\ RwInv(state, node, token, my, Q, wk, pos)  BY DEF Inv
  <1> SUFFICES \E Q2, wk2, pos2 :
                 Ghosts(Q2, wk2, pos2) /\ RwInv(state', node', token', my', Q2, wk2, pos2)
    BY DEF Inv
  <1>2. CASE UNCHANGED vars  BY <1>1, <1>2 DEF vars
  <1>3. ASSUME NEW t \in Threads, Step(t)
        PROVE  \E Q2, wk2, pos2 :
                 Ghosts(Q2, wk2, pos2) /\ RwInv(state', node', token', my', Q2, wk2, pos2)
    BY <1>1, <1>3, StepInv
  <1>4. ASSUME NEW t \in Threads, Release(t) \/ Downgrade(t)
        PROVE  RwInv(state', node', token', my', Q, wk, pos)
    BY <1>1, <1>4, ReleaseDowngrade
  <1>5. ASSUME NEW t \in Threads, NEW c \in Calls[t] \ {"downgrade"}, Call(t, c)
        PROVE  RwInv(state', node', token', my', Q, wk, pos)
    BY <1>1, <1>5, CallStays
  <1>6. CASE Next  BY <1>1, <1>3, <1>4, <1>5, <1>6 DEF Next
  <1> QED  BY <1>2, <1>6

\* The invariant holds in every state, for any finite set of threads, any calls and
\* any number of turns a thread spins.
THEOREM RwInvariant == Spec => []Inv
  BY InitInv, NextInv, PTL DEF Spec

-----------------------------------------------------------------------------
(* What the invariant says *)

\* The invariant implies the type invariant.
LEMMA InvTypeOK == Inv => TypeOK
  <1> SUFFICES ASSUME Inv PROVE TypeOK  OBVIOUS
  <1>1. PICK Q, wk, pos : Ghosts(Q, wk, pos) /\ RwInv(state, node, token, my, Q, wk, pos)  BY DEF Inv
  <1>2. Types(state, node, token, my) /\ CallInv(my) /\ WordInv(state) /\ LockInv(state, my)
    BY <1>1 DEF RwInv
  <1>3. ASSUME NEW t \in Threads
        PROVE  /\ my[t].st \in Words /\ my[t].cur \in Ptr /\ my[t].tl \in Ptr
               /\ my[t].held \in {"none", "read", "write"}
               /\ my[t].pc \in {"unlock_contended", "downgrade_slow"} =>
                     my[t].st.bits \cap {"DOWNGRADED", "QUEUED", "LOCKED"} = {"QUEUED", "LOCKED"}
               /\ my[t].why = "unlock_queue" => {"QUEUED", "QUEUE_LOCKED"} \subseteq my[t].st.bits
    <2>1. my[t] \in Locals /\ CallOK(my[t])  BY <1>2 DEF Types, CallInv
    <2>2. my[t].pc \in {"unlock_contended", "downgrade_slow"} => Contended(my[t].st)
      BY <1>2 DEF LockInv
    <2>3. Contended(my[t].st) =>
            my[t].st.bits \cap {"DOWNGRADED", "QUEUED", "LOCKED"} = {"QUEUED", "LOCKED"}
      BY DEF Contended
    <2>4. my[t].why = "unlock_queue" => {"QUEUED", "QUEUE_LOCKED"} \subseteq my[t].st.bits
      BY <2>1 DEF CallOK
    <2> QED  BY <2>1, <2>2, <2>3, <2>4 DEF Locals
  <1>4. /\ ("QUEUED" \in state.bits) = (state.ptr # Null)
        /\ "QUEUED" \in state.bits => state.count = 0
        /\ "QUEUED" \notin state.bits => state.bits \subseteq {"LOCKED"}
        /\ "DOWNGRADED" \in state.bits => {"LOCKED", "QUEUE_LOCKED"} \subseteq state.bits
    BY <1>2 DEF WordInv
  <1> QED  BY <1>2, <1>3, <1>4 DEF TypeOK, Types, Nodes

\* The types, the table of states, and the debug_asserts of unlock_contended,
\* downgrade_slow and unlock_queue in every turn of their loops.
THEOREM RwTypeCorrect == Spec => []TypeOK
  BY RwInvariant, InvTypeOK, PTL

\* The nodes a thread is about to use are in the queue or were taken out by it.
LEMMA TouchesListed ==
    ASSUME NEW Q, NEW wk, NEW pos, Ghosts(Q, wk, pos), RwInv(state, node, token, my, Q, wk, pos),
           NEW t \in Threads, NEW n \in Touches(t)
    PROVE  n \in Q \/ n \in Taken(wk, t)
  <1>1. /\ CallOK(my[t]) /\ HolderInv(state, node, my, Q, pos) /\ LeavingInv(node, my, Q, pos)
        /\ TakenInv(node, my, wk, pos)
    BY DEF RwInv, CallInv, ShapeInv
  <1>2. CASE my[t].pc = "walk"
    <2> DEFINE S == Walked(my[t], Q, Taken(wk, t))
               c == my[t].cur
    <2>1. /\ Holder(my[t]) \/ Leaving(my[t]) \/ Grabbing(my[t])
          /\ S \in SUBSET Threads /\ Traversing(my[t], node, S, pos)
          /\ \E h : List(node, S, pos, h)
          /\ Leaving(my[t]) => Fresh(node, S, pos)
          /\ ~Leaving(my[t]) => Finds(node, S, pos, c)
      BY <1>2, WalkFacts
    <2>2. my[t].st.ptr \in S /\ c \in S  BY <1>2, <2>1 DEF Traversing
    <2>3. PICK h : List(node, S, pos, h)  BY <2>1
    <2> HIDE DEF S, c
    <2>4. node[c].tail = Null => node[c].next \in S
      <3>1. pos \in [Threads -> Nat]  BY DEF Ghosts
      <3>2. CASE Leaving(my[t])  BY <2>1, <2>2, <2>3, <3>1, <3>2, FreshOn
      <3>3. CASE ~Leaving(my[t])  BY <2>1, <2>2, <2>3, <3>1, <3>3, FindsOn
      <3> QED  BY <3>2, <3>3
    <2>5. n \in {c, my[t].st.ptr} \cup
                 {node[k].next : k \in {m \in Threads \cap {c} : node[m].tail = Null}}
      BY <1>2 DEF Touches, At, c
    <2>6. n \in S  BY <2>2, <2>4, <2>5
    <2> QED  BY <2>6 DEF S, Walked
  <1>3. CASE my[t].pc = "found"
    <2> DEFINE S == Walked(my[t], Q, Taken(wk, t))
    <2>1. Traversing(my[t], node, S, pos)  BY <1>3, WalkFacts
    <2>2. my[t].st.ptr \in S /\ my[t].tl \in S  BY <1>3, <2>1 DEF Traversing, Low
    <2>3. n \in {my[t].st.ptr, my[t].tl}  BY <1>3 DEF Touches, At
    <2>4. n \in S  BY <2>2, <2>3
    <2> QED  BY <2>4 DEF Walked
  <1>4. CASE my[t].pc = "decrement"
    <2>1. Leaving(my[t])  BY <1>1, <1>4 DEF CallOK, Leaving
    <2>2. my[t].st.ptr \in Q /\ my[t].tl \in Q
      BY <1>1, <1>4, <2>1 DEF LeavingInv, LeavingOK, Traversing, Low
    <2> QED  BY <1>4, <2>2 DEF Touches, At
  <1>5. CASE my[t].pc \in {"unlock_queue", "split", "undo"}
    <2>1. Holder(my[t])  BY <1>1, <1>5 DEF CallOK, Holder
    <2>2. HolderOK(my[t], node, Q, pos)  BY <1>1, <2>1 DEF HolderInv
    <2>3. my[t].st.ptr \in Q /\ my[t].tl \in Q /\ (my[t].pc = "undo" => my[t].cur \in Q)
      BY <1>5, <2>2 DEF HolderOK, Traversing, Low
    <2>4. n \in {my[t].st.ptr, my[t].tl} \/ (my[t].pc = "undo" /\ n = my[t].cur)
      BY <1>5 DEF Touches, At
    <2> QED  BY <2>3, <2>4
  <1>6. CASE my[t].pc \in {"complete", "complete_one"}
    <2>1. TakenOK(my[t], node, Taken(wk, t), pos)  BY <1>1 DEF TakenInv
    <2>2. my[t].cur \in Taken(wk, t) /\ (my[t].pc = "complete_one" => my[t].tl = my[t].cur)
      BY <1>6, <2>1 DEF TakenOK, Backward, Low
    <2> QED  BY <1>6, <2>2 DEF Touches, At
  <1>7. CASE my[t].pc \notin {"walk", "found", "decrement", "unlock_queue", "split", "undo", "complete",
                              "complete_one"}
    BY <1>7 DEF Touches, At
  <1> QED  BY <1>2, <1>3, <1>4, <1>5, <1>6, <1>7

\* The invariant implies that every node touched belongs to a waiter.
LEMMA InvNodesLive == Inv => NodesLive
  <1> SUFFICES ASSUME Inv, NEW t \in Threads, NEW n \in Touches(t) PROVE n # Null /\ InQueue(n)
    BY DEF NodesLive
  <1>1. PICK Q, wk, pos : Ghosts(Q, wk, pos) /\ RwInv(state, node, token, my, Q, wk, pos)  BY DEF Inv
  <1>2. n \in Q \/ n \in Taken(wk, t)  BY <1>1, TouchesListed
  <1>3. WaitInv(node, my, Q, wk) /\ Q \in SUBSET Threads /\ wk \in [Threads -> Ptr]
    BY <1>1 DEF RwInv, ShapeInv, Ghosts
  <1>4. n \in Threads /\ Waits(my[n], node[n])  BY <1>2, <1>3, ListedWaits
  <1> QED  BY <1>4, RwAssumption DEF InQueue, Waits

\* No thread uses the node of a thread that no longer waits: a node is never out of
\* scope, or prepared anew, while another thread traverses, undoes, counts or wakes.
THEOREM RwNodesLive == Spec => []NodesLive
  BY RwInvariant, InvNodesLive, PTL

-----------------------------------------------------------------------------
(* The tail that a traversal finds *)

\* A set of numbers that is not empty has a least one.
LEMMA Least ==
    ASSUME NEW T \in SUBSET Nat, T # {} PROVE \E x \in T : \A y \in T : x <= y
  <1>1. IsWellFoundedOn(OpToRel(<, Nat), Nat)  BY NatLessThanWellFounded
  <1>2. PICK x \in T : \A y \in T : ~(<<y, x>> \in OpToRel(<, Nat))  BY <1>1, WFMin
  <1>3. \A y \in T : ~(y < x)  BY <1>2 DEF OpToRel
  <1> QED  BY <1>3

\* The node of a list at the position i.
NodeAt(S, pos, i) == CHOOSE k \in S : pos[k] = i

\* A list is no longer than there are threads.
LEMMA SpanBound ==
    ASSUME NEW S \in SUBSET Threads, NEW pos \in [Threads -> Nat], Dense(S, pos),
           NEW r \in S, NEW h \in S, pos[r] <= pos[h]
    PROVE  pos[h] - pos[r] <= Cardinality(Threads)
  <1> DEFINE I == pos[r] .. pos[h]
             f == [i \in I |-> NodeAt(S, pos, i)]
  <1>1. pos[r] \in Nat /\ pos[h] \in Nat  OBVIOUS
  <1>2. \A i \in I : \E k \in S : pos[k] = i  BY <1>1 DEF Dense
  <1>3. \A i \in I : NodeAt(S, pos, i) \in S /\ pos[NodeAt(S, pos, i)] = i  BY <1>2 DEF NodeAt
  <1>4. f \in [I -> Threads]  BY <1>3
  <1>5. \A i \in I : pos[f[i]] = i  BY <1>3
  <1>6. f \in Injection(I, Threads)
    <2>1. \A i, j \in I : f[i] = f[j] => i = j  BY <1>5
    <2> QED  BY <1>4, <2>1 DEF Injection, IsInjective
  <1> HIDE DEF f
  <1>7. Cardinality(I) <= Cardinality(Threads)  BY <1>6, FS_Injection, RwAssumption
  <1>8. Cardinality(I) = pos[h] - pos[r] + 1  BY <1>1, FS_Interval
  <1>9. Cardinality(Threads) \in Nat  BY FS_CardinalityType, RwAssumption
  <1> QED  BY <1>1, <1>7, <1>8, <1>9

\* f goes from node to node as TailOf does.
IsWalk(f, nd, head, N) == f = [i \in 0..N |-> IF i = 0 THEN head ELSE
    IF nd[f[i - 1]].tail # Null THEN f[i - 1] ELSE nd[f[i - 1]].next]

\* The same, value by value.
Walks(f, nd, head, N) ==
    /\ f[0] = head
    /\ \A i \in 0..N : i # 0 => f[i] = IF nd[f[i - 1]].tail # Null THEN f[i - 1] ELSE nd[f[i - 1]].next

\* The values of the function that TailOf defines.
LEMMA WalkSteps ==
    ASSUME NEW N \in Nat, NEW head, NEW nd, NEW f, IsWalk(f, nd, head, N)
    PROVE  Walks(f, nd, head, N)
  <1> DEFINE e(i) == IF i = 0 THEN head ELSE
                       IF nd[f[i - 1]].tail # Null THEN f[i - 1] ELSE nd[f[i - 1]].next
  <1>1. f = [i \in 0..N |-> e(i)]  BY Zenon DEF IsWalk
  <1> HIDE DEF e
  <1>2. \A i \in 0..N : f[i] = e(i)  BY <1>1
  <1>3. 0 \in 0..N  OBVIOUS
  <1>4. f[0] = head  BY <1>2, <1>3 DEF e
  <1> QED  BY <1>2, <1>4 DEF Walks, e

\* Two functions that go from node to node from the same head end alike.
LEMMA OneWalk ==
    ASSUME NEW N \in Nat, NEW nd, NEW head, NEW f, NEW g, Walks(f, nd, head, N), Walks(g, nd, head, N)
    PROVE  f[N] = g[N]
  <1> DEFINE Bad == {i \in 0..N : f[i] # g[i]}
  <1> SUFFICES ASSUME f[N] # g[N] PROVE FALSE  OBVIOUS
  <1>0. N \in 0..N  OBVIOUS
  <1>1. N \in Bad  BY <1>0
  <1>2. Bad \in SUBSET Nat  OBVIOUS
  <1>3. PICK x \in Bad : \A y \in Bad : x <= y  BY <1>1, <1>2, Least
  <1>4. x \in 0..N /\ f[x] # g[x]  BY Zenon DEF Bad
  <1>5. x # 0  BY <1>4 DEF Walks
  <1>6. x - 1 \in 0..N /\ ~(x <= x - 1)  BY <1>4, <1>5
  <1>7. x - 1 \notin Bad  BY <1>3, <1>6
  <1>8. f[x - 1] = g[x - 1]  BY <1>6, <1>7
  <1>9. f[x] = IF nd[f[x - 1]].tail # Null THEN f[x - 1] ELSE nd[f[x - 1]].next  BY <1>4, <1>5 DEF Walks
  <1>10. g[x] = IF nd[g[x - 1]].tail # Null THEN g[x - 1] ELSE nd[g[x - 1]].next  BY <1>4, <1>5 DEF Walks
  <1> QED  BY <1>4, <1>8, <1>9, <1>10

\* A traversal from the head h finds the tail of the first node r that has one.
LEMMA TailFound ==
    ASSUME NEW S \in SUBSET Threads, NEW pos \in [Threads -> Nat], NEW h, List(node, S, pos, h),
           Dense(S, pos), NEW r \in S, node[r].tail # Null, Bare(node, S, pos, r)
    PROVE  TailOf(h) = node[r].tail
  <1> DEFINE N == Cardinality(Threads)
             p(i) == IF pos[h] - i >= pos[r] THEN pos[h] - i ELSE pos[r]
             g == [i \in 0..N |-> NodeAt(S, pos, p(i))]
  <1>1. h \in S /\ OneEach(S, pos) /\ pos[r] <= pos[h] /\ pos[r] \in Nat /\ pos[h] \in Nat
    BY DEF List, High
  <1>2. N \in Nat  BY FS_CardinalityType, RwAssumption
  <1>3. pos[h] - pos[r] <= N  BY <1>1, SpanBound
  <1>4. \A i \in 0..N : p(i) \in Nat /\ pos[r] <= p(i) /\ p(i) <= pos[h]  BY <1>1, <1>2
  <1>5. p(0) = pos[h] /\ p(N) = pos[r]  BY <1>1, <1>2, <1>3
  <1>6. \A i \in 0..N : i # 0 => p(i) = IF p(i - 1) = pos[r] THEN pos[r] ELSE p(i - 1) - 1
    BY <1>1, <1>2
  <1> HIDE DEF p
  <1>7. \A i \in 0..N : \E k \in S : pos[k] = p(i)  BY <1>1, <1>4 DEF Dense
  <1>8. \A i \in 0..N : g[i] \in S /\ pos[g[i]] = p(i)  BY <1>7 DEF NodeAt
  <1>9. g = [i \in 0..N |-> g[i]]  OBVIOUS
  <1> HIDE DEF g, N
  <1>10. g[0] = h /\ g[N] = r  BY <1>1, <1>2, <1>5, <1>8 DEF OneEach
  <1>11. ASSUME NEW i \in 0..N, i # 0
         PROVE  g[i] = IF node[g[i - 1]].tail # Null THEN g[i - 1] ELSE node[g[i - 1]].next
    <2>1. i - 1 \in 0..N  BY <1>2, <1>11
    <2> DEFINE a == g[i - 1]
    <2>2. a \in S /\ pos[a] = p(i - 1) /\ g[i] \in S /\ pos[g[i]] = p(i)  BY <1>8, <2>1
    <2>3. p(i) = IF p(i - 1) = pos[r] THEN pos[r] ELSE p(i - 1) - 1  BY <1>6, <1>11
    <2>4. pos[a] \in Nat /\ pos[r] <= pos[a]  BY <1>4, <2>1, <2>2
    <2> HIDE DEF a
    <2>5. CASE node[a].tail # Null
      <3>1. pos[a] = pos[r]  BY <1>1, <2>2, <2>4, <2>5 DEF Bare
      <3>2. pos[g[i]] = pos[a]  BY <2>2, <2>3, <3>1
      <3>3. g[i] = a  BY <1>1, <2>2, <3>2 DEF OneEach
      <3> QED  BY <2>5, <3>3 DEF a
    <2>6. CASE node[a].tail = Null
      <3>1. a # r  BY <2>6
      <3>2. pos[a] # pos[r]  BY <1>1, <2>2, <3>1 DEF OneEach
      <3>3. ~Low(S, pos, a)  BY <1>1, <2>4, <3>2 DEF Low
      <3>4. node[a].next \in S /\ pos[node[a].next] + 1 = pos[a]  BY <2>2, <3>3 DEF List
      <3>5. pos[node[a].next] \in Nat /\ pos[g[i]] = pos[a] - 1  BY <2>2, <2>3, <3>2, <3>4
      <3>6. pos[g[i]] = pos[node[a].next]  BY <2>4, <3>4, <3>5
      <3>7. g[i] = node[a].next  BY <1>1, <2>2, <3>4, <3>6 DEF OneEach
      <3> QED  BY <2>6, <3>7 DEF a
    <2> QED  BY <2>5, <2>6
  <1>12. IsWalk(g, node, h, N)
    <2>1. \A i \in 0..N : g[i] = IF i = 0 THEN h ELSE
                IF node[g[i - 1]].tail # Null THEN g[i - 1] ELSE node[g[i - 1]].next
      BY <1>10, <1>11
    <2> QED  BY <1>9, <2>1 DEF IsWalk
  <1>13. \E f : IsWalk(f, node, h, N) /\ TailOf(h) = node[f[N]].tail
    <2> DEFINE walk == CHOOSE f : IsWalk(f, node, h, N)
    <2>1. IsWalk(walk, node, h, N)  BY <1>12
    <2>2. TailOf(h) = node[walk[N]].tail  BY DEF TailOf, IsWalk, N
    <2> QED  BY <2>1, <2>2
  <1>14. PICK f : IsWalk(f, node, h, N) /\ TailOf(h) = node[f[N]].tail  BY <1>13
  <1>15. Walks(f, node, h, N)  BY <1>2, <1>14, WalkSteps
  <1>16. Walks(g, node, h, N)  BY <1>10, <1>11 DEF Walks
  <1>17. f[N] = g[N]  BY <1>2, <1>15, <1>16, OneWalk
  <1> QED  BY <1>10, <1>14, <1>17

\* The invariant implies that the readers are counted.
LEMMA InvReadersCounted == Inv => ReadersCounted
  <1> SUFFICES ASSUME Inv PROVE ReadersCounted  OBVIOUS
  <1>1. PICK Q, wk, pos : Ghosts(Q, wk, pos) /\ RwInv(state, node, token, my, Q, wk, pos)  BY DEF Inv
  <1>2. /\ Types(state, node, token, my) /\ WordInv(state) /\ LockInv(state, my)
        /\ CountInv(state, node, my, Q, pos) /\ ListInv(state, node, my, Q, pos)
        /\ FreshInv(state, node, my, Q, pos)
    BY <1>1 DEF RwInv, ShapeInv
  <1> DEFINE uncounted == Cardinality(HeldAs("read") \ {t \in Threads : my[t].pc = "unlock_contended"})
  <1>3. HeldAs("read") \ {t \in Threads : my[t].pc = "unlock_contended"} = Counted(my)
    BY DEF HeldAs, Counted
  <1>4. uncounted = Cardinality(Counted(my))  BY <1>3
  <1> HIDE DEF uncounted
  <1>5. "QUEUED" \notin state.bits => state.count = uncounted  BY <1>2, <1>4 DEF LockInv
  <1>6. "DOWNGRADED" \in state.bits => uncounted = 1
    <2> SUFFICES ASSUME "DOWNGRADED" \in state.bits PROVE uncounted = 1  OBVIOUS
    <2>1. PICK u \in Threads : my[u].held = "read" /\ Alone(my, u)  BY <1>2 DEF LockInv
    <2>2. my[u].pc # "unlock_contended"  BY <1>2 DEF LockInv, Contended
    <2>3. u \in Counted(my)  BY <2>1, <2>2 DEF Counted
    <2> QED  BY <1>4, <2>1, <2>3, CountOne
  <1>7. "LOCKED" \notin state.bits => uncounted = 0
    <2> SUFFICES ASSUME "LOCKED" \notin state.bits PROVE uncounted = 0  OBVIOUS
    <2>1. Counted(my) = {}  BY <1>2 DEF LockInv, Counted
    <2> QED  BY <1>4, <2>1, FS_EmptySet
  <1>8. Contended(state) => node[TailOf(state.ptr)].count = uncounted
    <2> SUFFICES ASSUME Contended(state) PROVE node[TailOf(state.ptr)].count = uncounted  OBVIOUS
    <2>1. "QUEUED" \in state.bits /\ "DOWNGRADED" \notin state.bits  BY DEF Contended
    <2>2. List(node, Q, pos, state.ptr) /\ SomeTail(node, Q, pos) /\ Dense(Q, pos)
      BY <1>2, <2>1 DEF ListInv
    <2>3. PICK r \in Q : node[r].tail \in Q /\ Bare(node, Q, pos, r)  BY <2>2 DEF SomeTail
    <2>4. Q \in SUBSET Threads /\ pos \in [Threads -> Nat] /\ node[r].tail # Null
      BY <1>1, <2>3, RwAssumption DEF Ghosts
    <2>5. TailOf(state.ptr) = node[r].tail  BY <2>2, <2>3, <2>4, TailFound
    <2>6. CASE ReadLocked(state, my)
      <3>1. Low(Q, pos, node[r].tail)  BY <1>2, <2>3, <2>4, <2>6 DEF FreshInv, Fresh
      <3> QED  BY <1>2, <1>4, <2>1, <2>3, <2>5, <3>1 DEF CountInv
    <2>7. CASE ~ReadLocked(state, my)
      <3>1. Counted(my) = {}  BY <2>7 DEF ReadLocked, Counted
      <3>2. Cardinality(Counted(my)) = 0  BY <3>1, FS_EmptySet
      <3> QED  BY <1>2, <1>4, <2>3, <2>5, <3>2 DEF CountInv
    <2> QED  BY <2>6, <2>7
  <1>9. ("QUEUED" \in state.bits /\ "DOWNGRADED" \notin state.bits /\ "LOCKED" \in state.bits)
          => Contended(state)
    BY DEF Contended
  <1>10. "QUEUED" \notin state.bits => "DOWNGRADED" \notin state.bits  BY <1>2 DEF WordInv
  <1>11. "DOWNGRADED" \in state.bits => "LOCKED" \in state.bits  BY <1>2 DEF WordInv
  <1> QED  BY <1>5, <1>6, <1>7, <1>8, <1>9, <1>10, <1>11 DEF ReadersCounted, uncounted

\* The count, in the word or in the node that a traversal of the queue ends at, is
\* the number of readers that have not counted themselves out.
THEOREM RwReadersCounted == Spec => []ReadersCounted
  BY RwInvariant, InvReadersCounted, PTL

-----------------------------------------------------------------------------
(* Waiters are attended to *)

Free(w) == w.bits \cap {"QUEUED", "LOCKED", "QUEUE_LOCKED"} = {"QUEUED"}

\* A thread that is about to wake a writer, or a writer that is on its way.
Eager(m, n) == m.pc = "complete_one" \/ (m.want = "write" /\ ~Waits(m, n) /\ m.pc # "try")

\* WaitersAttended, before and after a step, in the terms used here.
LEMMA AttendedMeans ==
    /\ WaitersAttended <=> (Free(state) => \E u \in Threads : Eager(my[u], node[u]))
    /\ WaitersAttended' <=> (Free(state') => \E u \in Threads : Eager(my'[u], node'[u]))
  BY DEF WaitersAttended, Free, Eager, InQueue, Waits, At

\* A step of t that leaves the word alone, and t on its way if it was.
LEMMA Onward ==
    ASSUME WaitersAttended, NEW t \in Threads, state' = state,
           \A u \in Threads : u # t => my'[u] = my[u] /\ (node[u].completed => node'[u].completed),
           Eager(my[t], node[t]) => Eager(my'[t], node'[t])
    PROVE  WaitersAttended'
  <1> SUFFICES ASSUME Free(state') PROVE \E u \in Threads : Eager(my'[u], node'[u])  BY AttendedMeans
  <1>1. PICK u \in Threads : Eager(my[u], node[u])  BY AttendedMeans
  <1>2. CASE u = t  BY <1>1, <1>2
  <1>3. CASE u # t  BY <1>1, <1>3 DEF Eager, Waits
  <1> QED  BY <1>2, <1>3

\* A step of t that changes its own locals and at most the prev, tail or count of a node.
LEMMA OnwardLocal ==
    ASSUME WaitersAttended, NEW t \in Threads, state' = state,
           \A u \in Threads : u # t => my'[u] = my[u],
           \A u \in Threads : node[u].completed => node'[u].completed,
           my[t].pc # "complete_one", my'[t].want = my[t].want,
           my[t].want = "write" =>
              my'[t].pc # "try" /\ (my[t].pc \in {"load", "contend"} => my'[t].pc = "contend")
    PROVE  WaitersAttended'
  <1>1. Eager(my[t], node[t]) => Eager(my'[t], node'[t])  BY DEF Eager, Waits
  <1> QED  BY <1>1, Onward

\* An exchange that fails.
LEMMA RetryAttended ==
    ASSUME Types(state, node, token, my), WaitersAttended, NEW t \in Threads, NEW f \in Locals,
           Retry(t, f), node' = node, my[t].pc # "complete_one", f.want = my[t].want,
           my[t].want = "write" => f.pc # "try" /\ (my[t].pc \in {"load", "contend"} => f.pc = "contend")
    PROVE  WaitersAttended'
  <1>1. my' = [my EXCEPT ![t] = [f EXCEPT !.st = state]] /\ state' = state  BY DEF Retry, Go
  <1>2. my'[t].want = f.want /\ my'[t].pc = f.pc /\ \A u \in Threads : u # t => my'[u] = my[u]
    BY <1>1 DEF Types, Locals
  <1> QED  BY <1>1, <1>2, OnwardLocal

\* The steps that only read the word.
LEMMA QuietAttended ==
    ASSUME Types(state, node, token, my), CallInv(my), WaitersAttended, NEW t \in Threads,
           \/ Load(t) \/ Spin(t) \/ Park(t) \/ Walk(t) \/ Found(t) \/ Complete(t) \/ Unpark(t)
           \/ Decrement(t) \/ SplitTail(t) \/ Undo(t)
    PROVE  WaitersAttended'
  <1>1. my[t] \in Locals /\ my \in [Threads -> Locals] /\ node \in [Threads -> Nodes] /\ CallOK(my[t])
    BY DEF Types, CallInv
  <1>2. CASE Load(t)
    <2>1. my[t].pc = "load" /\ state' = state  BY <1>2 DEF Load, At
    <2>2. \A u \in Threads : node[u].completed => node'[u].completed  BY <1>1, <1>2 DEF Load, Nodes
    <2>3. \A u \in Threads : u # t => my'[u] = my[u]  BY <1>1, <1>2 DEF Load, Go
    <2>4. my'[t].want = my[t].want /\ my'[t].pc = "contend"  BY <1>1, <1>2, <2>1 DEF Load, Go, Locals
    <2> QED  BY <2>1, <2>2, <2>3, <2>4, OnwardLocal
  <1>3. CASE Spin(t)
    <2>1. my[t].pc = "contend" /\ state' = state  BY <1>3 DEF Spin, At
    <2>2. \A u \in Threads : node[u].completed => node'[u].completed  BY <1>1, <1>3 DEF Spin, Nodes
    <2>3. \A u \in Threads : u # t => my'[u] = my[u]  BY <1>1, <1>3 DEF Spin, Go
    <2>4. my'[t].want = my[t].want /\ my'[t].pc = "contend"  BY <1>1, <1>3, <2>1 DEF Spin, Go, Locals
    <2> QED  BY <2>1, <2>2, <2>3, <2>4, OnwardLocal
  <1>4. CASE Park(t)
    <2>1. my[t].pc = "parked" /\ state' = state  BY <1>4 DEF Park, At
    <2>2. \A u \in Threads : node[u].completed => node'[u].completed  BY <1>1, <1>4 DEF Park, Nodes
    <2>3. \A u \in Threads : u # t => my'[u] = my[u]  BY <1>1, <1>4 DEF Park, Go, Goto
    <2>4. my'[t].want = my[t].want /\ my'[t].pc # "try"  BY <1>1, <1>4, <2>1 DEF Park, Go, Goto, Locals
    <2> QED  BY <2>1, <2>2, <2>3, <2>4, OnwardLocal
  <1>5. CASE Walk(t)
    <2>1. my[t].pc = "walk" /\ state' = state  BY <1>5 DEF Walk, At
    <2>2. \A u \in Threads : node[u].completed => node'[u].completed  BY <1>1, <1>5 DEF Walk, Nodes
    <2>3. \A u \in Threads : u # t => my'[u] = my[u]  BY <1>1, <1>5 DEF Walk, Go
    <2>4. my'[t].want = my[t].want /\ my'[t].pc # "try"
      BY <1>1, <1>5, <2>1, ZenonT(30) DEF Walk, Go, Locals
    <2> QED  BY <2>1, <2>2, <2>3, <2>4, OnwardLocal
  <1>6. CASE Found(t)
    <2>1. my[t].pc = "found" /\ state' = state  BY <1>6 DEF Found, At
    <2>2. \A u \in Threads : node[u].completed => node'[u].completed  BY <1>1, <1>6 DEF Found, Nodes
    <2>3. \A u \in Threads : u # t => my'[u] = my[u]  BY <1>1, <1>6 DEF Found, Go, Goto
    <2>4. my'[t].want = my[t].want /\ my'[t].pc # "try"  BY <1>1, <1>6, <2>1 DEF Found, Go, Goto, Locals
    <2> QED  BY <2>1, <2>2, <2>3, <2>4, OnwardLocal
  <1>7. CASE Complete(t)
    <2>1. my[t].pc = "complete" /\ state' = state  BY <1>7 DEF Complete, At
    <2>2. \A u \in Threads : node[u].completed => node'[u].completed  BY <1>1, <1>7 DEF Complete, Nodes
    <2>3. \A u \in Threads : u # t => my'[u] = my[u]  BY <1>1, <1>7 DEF Complete, Go
    <2>4. my'[t].want = my[t].want /\ my'[t].pc # "try"  BY <1>1, <1>7, <2>1 DEF Complete, Go, Locals
    <2> QED  BY <2>1, <2>2, <2>3, <2>4, OnwardLocal
  <1>8. CASE Unpark(t)
    <2>1. my[t].pc = "unpark" /\ state' = state  BY <1>8 DEF Unpark, At
    <2>2. \A u \in Threads : node[u].completed => node'[u].completed  BY <1>1, <1>8 DEF Unpark, Nodes
    <2>3. \A u \in Threads : u # t => my'[u] = my[u]  BY <1>1, <1>8 DEF Unpark, Go
    <2>4. my'[t].want = my[t].want /\ my'[t].pc # "try"
      BY <1>1, <1>8, <2>1 DEF Unpark, Go, Returned, Outside, Waiting, Locals
    <2> QED  BY <2>1, <2>2, <2>3, <2>4, OnwardLocal
  <1>9. CASE Decrement(t)
    <2>1. my[t].pc = "decrement" /\ state' = state  BY <1>9 DEF Decrement, At
    <2>2. \A u \in Threads : node[u].completed => node'[u].completed  BY <1>1, <1>9 DEF Decrement, Nodes
    <2>3. \A u \in Threads : u # t => my'[u] = my[u]  BY <1>1, <1>9 DEF Decrement, Go, Goto
    <2>4. my[t].want = "none"  BY <1>1, <2>1 DEF CallOK, Leaving
    <2>5. my'[t].want = "none"  BY <1>1, <1>9, <2>4 DEF Decrement, Go, Goto, Outside, Locals
    <2> QED  BY <2>1, <2>2, <2>3, <2>4, <2>5, OnwardLocal
  <1>10. CASE SplitTail(t)
    <2>1. my[t].pc = "unlock_queue" /\ state' = state  BY <1>10 DEF SplitTail, MayWake, At
    <2>2. \A u \in Threads : node[u].completed => node'[u].completed  BY <1>1, <1>10 DEF SplitTail, Nodes
    <2>3. \A u \in Threads : u # t => my'[u] = my[u]  BY <1>1, <1>10 DEF SplitTail, Go, Goto
    <2>4. my'[t].want = my[t].want /\ my'[t].pc # "try"
      BY <1>1, <1>10, <2>1 DEF SplitTail, Go, Goto, Locals
    <2> QED  BY <2>1, <2>2, <2>3, <2>4, OnwardLocal
  <1>11. CASE Undo(t)
    <2>1. my[t].pc = "undo" /\ state' = state  BY <1>11 DEF Undo, At
    <2>2. \A u \in Threads : node[u].completed => node'[u].completed  BY <1>1, <1>11 DEF Undo, Nodes
    <2>3. \A u \in Threads : u # t => my'[u] = my[u]  BY <1>1, <1>11 DEF Undo, Go
    <2>4. my'[t].want = my[t].want /\ my'[t].pc # "try"
      BY <1>1, <1>11, <2>1 DEF Undo, Go, Traverse, Locals
    <2> QED  BY <2>1, <2>2, <2>3, <2>4, OnwardLocal
  <1> QED  BY <1>2, <1>3, <1>4, <1>5, <1>6, <1>7, <1>8, <1>9, <1>10, <1>11

\* Node::wait: who is not on its way waits on, who is goes to load the word.
LEMMA WaitAttended ==
    ASSUME Types(state, node, token, my), WaitersAttended, NEW t \in Threads, Wait(t)
    PROVE  WaitersAttended'
  <1>1. my[t] \in Locals /\ my \in [Threads -> Locals] /\ node \in [Threads -> Nodes]  BY DEF Types
  <1>2. my[t].pc = "wait" /\ state' = state  BY DEF Wait, At
  <1>3. \A u \in Threads : u # t => my'[u] = my[u] /\ (node[u].completed => node'[u].completed)
    BY <1>1 DEF Wait, Goto, Go
  <1>4. CASE node[t].completed
    <2>1. my'[t].want = my[t].want /\ my'[t].pc = "load"  BY <1>1, <1>4 DEF Wait, Goto, Go, Locals
    <2>2. Eager(my[t], node[t]) => Eager(my'[t], node'[t])  BY <1>2, <2>1 DEF Eager, Waits
    <2> QED  BY <1>2, <1>3, <2>2, Onward
  <1>5. CASE ~node[t].completed
    <2>1. ~Eager(my[t], node[t])  BY <1>2, <1>5 DEF Eager, Waits
    <2> QED  BY <1>2, <1>3, <2>1, Onward
  <1> QED  BY <1>4, <1>5

\* The writer that was split off is told so: from now on it is on its way.
LEMMA CompleteOneAttended ==
    ASSUME NEW Q, NEW wk, NEW pos, Ghosts(Q, wk, pos), RwInv(state, node, token, my, Q, wk, pos),
           WaitersAttended, NEW t \in Threads, CompleteOne(t)
    PROVE  WaitersAttended'
  <1> DEFINE c == my[t].cur
  <1>1. /\ my[t] \in Locals /\ my \in [Threads -> Locals] /\ node \in [Threads -> Nodes]
        /\ TakenInv(node, my, wk, pos) /\ WaitInv(node, my, Q, wk) /\ wk \in [Threads -> Ptr]
    BY DEF RwInv, Types, ShapeInv, Ghosts
  <1>2. my[t].pc = "complete_one"  BY DEF CompleteOne, At
  <1>3. Taken(wk, t) = {c} /\ node[c].write  BY <1>1, <1>2 DEF TakenInv, TakenOK
  <1>4. c \in Threads /\ wk[c] = t  BY <1>3 DEF Taken
  <1>5. Waits(my[c], node[c]) /\ my[c].want = "write"  BY <1>1, <1>3, <1>4, RwAssumption DEF WaitInv
  <1>6. node'[c].completed  BY <1>1, <1>4 DEF CompleteOne, Nodes
  <1>7. c # t => my'[c] = my[c]  BY <1>1, <1>4 DEF CompleteOne, Go
  <1>8. my'[t].want = my[t].want /\ my'[t].pc = "unpark"  BY <1>1 DEF CompleteOne, Go, Locals
  <1>9. my'[c].want = "write" /\ my'[c].pc # "try"  BY <1>5, <1>7, <1>8 DEF Waits
  <1>10. Eager(my'[c], node'[c])  BY <1>6, <1>9 DEF Eager, Waits
  <1> HIDE DEF c
  <1> QED  BY <1>4, <1>10, AttendedMeans

\* A word that is not both free and queued asks for nothing.
LEMMA NotFree == ~Free(state') => WaitersAttended'
  BY AttendedMeans

\* The exchanges that take, queue for, give back or downgrade the lock.
LEMMA SwapAttended ==
    ASSUME NEW Q, NEW wk, NEW pos, RwInv(state, node, token, my, Q, wk, pos), WaitersAttended,
           NEW t \in Threads,
           \/ Try(t) \/ Contend(t) \/ Enqueue(t) \/ UnlockContended(t) \/ DowngradeSlow(t)
    PROVE  WaitersAttended'
  <1>1. /\ my[t] \in Locals /\ Types(state, node, token, my) /\ CallOK(my[t])
        /\ LockInv(state, my) /\ WordInv(state)
    BY DEF RwInv, Types, CallInv
  <1>2. CASE Try(t)
    <2>1. CASE MayLock(t, state) /\ state' = Locked(t, state)
      <3>1. "LOCKED" \in state'.bits  BY <1>1, <2>1 DEF Locked, Word, Set, Types, Words
      <3> QED  BY <3>1, NotFree DEF Free
    <2>2. CASE ~MayLock(t, state)
      <3>1. state' = state /\ my[t].pc = "try" /\ node' = node  BY <1>2, <2>2 DEF Try, At
      <3>2. \A u \in Threads : u # t => my'[u] = my[u]
        BY <1>1, <1>2, <2>2 DEF Try, Go, Goto, Types
      <3>3. ~Eager(my[t], node[t])  BY <3>1 DEF Eager
      <3> QED  BY <3>1, <3>2, <3>3, Onward
    <2> QED  BY <1>2, <2>1, <2>2 DEF Try
  <1>3. CASE Contend(t)
    <2>1. my[t].pc = "contend"  BY <1>3 DEF Contend, At
    <2>2. CASE Swap(t, Locked(t, my[t].st), Outside(Mode(t)))
      <3>1. "LOCKED" \in state'.bits  BY <1>1, <2>2 DEF Swap, Locked, Word, Set, Types, Words
      <3> QED  BY <3>1, NotFree DEF Free
    <2>3. CASE Retry(t, my[t]) /\ node' = node  BY <1>1, <2>1, <2>3, RetryAttended
    <2> QED  BY <1>3, <2>2, <2>3 DEF Contend
  <1>4. CASE Enqueue(t)
    <2>1. my[t].pc = "contend" /\ ~MayLock(t, my[t].st)  BY <1>4 DEF Enqueue, At
    <2>2. CASE Retry(t, my[t]) /\ node' = node  BY <1>1, <2>1, <2>2, RetryAttended
    <2>3. CASE ~(Retry(t, my[t]) /\ node' = node)
      <3>1. state = my[t].st /\ state'.bits = {"QUEUED"} \cup (state.bits \cap {"LOCKED", "DOWNGRADED"})
                   \cup (IF "QUEUED" \notin state.bits THEN {} ELSE {"QUEUE_LOCKED"})
        BY <1>4, <2>3 DEF Enqueue, Swap, Word
      <3>2. "QUEUED" \notin state.bits => "LOCKED" \in state.bits
        BY <2>1, <3>1 DEF MayLock, LOCKED, Word
      <3>3. "LOCKED" \in state'.bits \/ "QUEUE_LOCKED" \in state'.bits  BY <3>1, <3>2
      <3> QED  BY <3>3, NotFree DEF Free
    <2> QED  BY <2>2, <2>3
  <1>5. CASE UnlockContended(t)
    <2>1. my[t].pc = "unlock_contended" /\ node' = node  BY <1>5 DEF UnlockContended, At
    <2>2. CASE Retry(t, my[t])
      <3>1. my[t].want = "none"  BY <1>1, <2>1 DEF CallOK
      <3> QED  BY <1>1, <2>1, <2>2, <3>1, RetryAttended
    <2>3. CASE ~Retry(t, my[t])
      <3>1. state' = Set(Mask(my[t].st, {"LOCKED"}), {"QUEUE_LOCKED"})
        BY <1>5, <2>3 DEF UnlockContended, Exchange, Swap
      <3>2. "QUEUE_LOCKED" \in state'.bits  BY <1>1, <3>1 DEF Set, Mask, Locals, Words
      <3> QED  BY <3>2, NotFree DEF Free
    <2> QED  BY <2>2, <2>3
  <1>6. CASE DowngradeSlow(t)
    <2>1. my[t].pc = "downgrade_slow" /\ node' = node  BY <1>6 DEF DowngradeSlow, At
    <2>2. CASE Retry(t, my[t])
      <3>1. my[t].want = "none"  BY <1>1, <2>1 DEF CallOK
      <3> QED  BY <1>1, <2>1, <2>2, <3>1, RetryAttended
    <2>3. CASE ~Retry(t, my[t])
      <3>1. state' = Set(my[t].st, {"DOWNGRADED"}) \/ state' = ONE_READER
        BY <1>6, <2>3 DEF DowngradeSlow, Exchange, Swap
      <3>2. "LOCKED" \in my[t].st.bits  BY <1>1, <2>1 DEF LockInv, Contended
      <3>3. "LOCKED" \in state'.bits
        BY <1>1, <3>1, <3>2 DEF Set, ONE_READER, Word, Locals, Words
      <3> QED  BY <3>3, NotFree DEF Free
    <2> QED  BY <2>2, <2>3
  <1> QED  BY <1>2, <1>3, <1>4, <1>5, <1>6

\* The exchanges of unlock_queue: who releases the queue lock of a free lock has a writer to wake.
LEMMA UnlockAttended ==
    ASSUME NEW Q, NEW wk, NEW pos, RwInv(state, node, token, my, Q, wk, pos), WaitersAttended,
           NEW t \in Threads, LeaveToHolder(t) \/ WakeOne(t) \/ WakeAll(t)
    PROVE  WaitersAttended'
  <1>1. /\ my[t] \in Locals /\ Types(state, node, token, my) /\ CallOK(my[t]) /\ WordInv(state)
        /\ state \in Words
    BY DEF RwInv, Types, CallInv
  <1>2. node' = node  BY DEF LeaveToHolder, WakeOne, WakeAll
  <1> DEFINE a == Again(t)
             b == [my[t] EXCEPT !.pc = "undo", !.cur = my[t].st.ptr]
  <1>3. a \in Locals /\ a.want = my[t].want /\ a.pc = "walk"
    BY <1>1, CountRange, ZenonT(30) DEF Again, Traverse, Locals, Words, PCs, Ptr
  <1>4. b \in Locals /\ b.want = my[t].want /\ b.pc = "undo"
    BY <1>1 DEF Locals, PCs, Words, Ptr
  <1> HIDE DEF b
  <1>5. CASE LeaveToHolder(t)
    <2>1. my[t].pc = "unlock_queue" /\ my[t].st.bits \cap {"DOWNGRADED", "LOCKED"} = {"LOCKED"}
      BY <1>5 DEF LeaveToHolder, At
    <2>2. CASE Retry(t, Again(t))
      <3> HIDE DEF a
      <3>1. Retry(t, a)  BY <2>2 DEF a
      <3> QED  BY <1>1, <1>2, <1>3, <2>1, <3>1, RetryAttended
    <2>3. CASE ~Retry(t, Again(t))
      <3>1. state' = Mask(my[t].st, {"QUEUE_LOCKED"})  BY <1>5, <2>3 DEF LeaveToHolder, Swap
      <3>2. "LOCKED" \in state'.bits  BY <1>1, <2>1, <3>1 DEF Mask, Locals, Words
      <3> QED  BY <3>2, NotFree DEF Free
    <2> QED  BY <2>2, <2>3
  <1>6. CASE WakeOne(t)
    <2>1. my[t].pc = "split"  BY <1>6 DEF WakeOne, At
    <2>2. CASE Retry(t, b)  BY <1>1, <1>2, <1>4, <2>1, <2>2, RetryAttended
    <2>3. CASE ~Retry(t, b)
      <3>1. Go(t, [my[t] EXCEPT !.pc = "complete_one", !.cur = my[t].tl])
        BY <1>6, <2>3 DEF WakeOne, Swap, b
      <3>2. my'[t].pc = "complete_one"  BY <1>1, <3>1 DEF Go, Types, Locals
      <3>3. Eager(my'[t], node'[t])  BY <3>2 DEF Eager
      <3> QED  BY <3>3, AttendedMeans
    <2> QED  BY <2>2, <2>3
  <1>7. CASE WakeAll(t)
    <2>1. my[t].pc = "unlock_queue"  BY <1>7 DEF WakeAll, MayWake, At
    <2>2. CASE Retry(t, Again(t))
      <3> HIDE DEF a
      <3>1. Retry(t, a)  BY <2>2 DEF a
      <3> QED  BY <1>1, <1>2, <1>3, <2>1, <3>1, RetryAttended
    <2>3. CASE ~Retry(t, Again(t))
      <3>1. state' = ONE_READER \/ state' = UNLOCKED  BY <1>7, <2>3 DEF WakeAll, Swap
      <3>2. "QUEUED" \notin state'.bits  BY <3>1 DEF ONE_READER, UNLOCKED, Word
      <3> QED  BY <3>2, NotFree DEF Free
    <2> QED  BY <2>2, <2>3
  <1> QED  BY <1>5, <1>6, <1>7

\* Calls, and what read_unlock, write_unlock and downgrade do to the word.
LEMMA ReleaseAttended ==
    ASSUME NEW Q, NEW wk, NEW pos, RwInv(state, node, token, my, Q, wk, pos), WaitersAttended,
           NEW t \in Threads,
           \/ Release(t) \/ Downgrade(t) \/ \E c \in Calls[t] \ {"downgrade"} : Call(t, c)
    PROVE  WaitersAttended'
  <1>1. /\ Types(state, node, token, my) /\ CallOK(my[t]) /\ WordInv(state)
        /\ my \in [Threads -> Locals] /\ state \in Words
    BY DEF RwInv, Types, CallInv
  <1>2. my[t].pc = "idle" /\ node' = node
    BY DEF Release, ReadUnlock, WriteUnlock, Downgrade, Call, At
  <1>3. ~Eager(my[t], node[t])  BY <1>1, <1>2 DEF Eager, CallOK
  <1>4. \A u \in Threads : u # t => my'[u] = my[u]
    BY <1>1 DEF Release, ReadUnlock, WriteUnlock, Downgrade, Call, Go
  <1>5. \/ state' = state \/ state' \in {UNLOCKED, LOCKED, ONE_READER}
        \/ \E i : state' = Word({"LOCKED"}, Null, i)
        \/ /\ {"QUEUED", "DOWNGRADED"} \subseteq state.bits
           /\ state' = Mask(state, {"DOWNGRADED", "LOCKED"})
    BY DEF Release, ReadUnlock, WriteUnlock, Downgrade, Call
  <1>6. CASE state' = state  BY <1>2, <1>3, <1>4, <1>6, Onward
  <1>7. CASE state' \in {UNLOCKED, LOCKED, ONE_READER} \/ \E i : state' = Word({"LOCKED"}, Null, i)
    <2>1. "QUEUED" \notin state'.bits  BY <1>7 DEF UNLOCKED, LOCKED, ONE_READER, Word
    <2> QED  BY <2>1, NotFree DEF Free
  <1>8. CASE /\ {"QUEUED", "DOWNGRADED"} \subseteq state.bits
             /\ state' = Mask(state, {"DOWNGRADED", "LOCKED"})
    <2>1. "QUEUE_LOCKED" \in state.bits  BY <1>1, <1>8 DEF WordInv
    <2>2. "QUEUE_LOCKED" \in state'.bits  BY <1>1, <1>8, <2>1 DEF Mask, Words
    <2> QED  BY <2>2, NotFree DEF Free
  <1> QED  BY <1>5, <1>6, <1>7, <1>8

\* Every step keeps the waiters attended to.
LEMMA NextAttended == Inv /\ WaitersAttended /\ [Next]_vars => WaitersAttended'
  <1> SUFFICES ASSUME Inv, WaitersAttended, [Next]_vars PROVE WaitersAttended'  OBVIOUS
  <1>1. PICK Q, wk, pos : Ghosts(Q, wk, pos) /\ RwInv(state, node, token, my, Q, wk, pos)  BY DEF Inv
  <1>2. Types(state, node, token, my) /\ CallInv(my)  BY <1>1 DEF RwInv
  <1>3. CASE UNCHANGED vars
    <2>1. state' = state /\ node' = node /\ my' = my  BY <1>3 DEF vars
    <2> QED  BY <2>1, AttendedMeans
  <1>4. ASSUME NEW t \in Threads, Step(t) PROVE WaitersAttended'
    <2>1. CASE \/ Load(t) \/ Spin(t) \/ Park(t) \/ Walk(t) \/ Found(t) \/ Complete(t) \/ Unpark(t)
               \/ Decrement(t) \/ SplitTail(t) \/ Undo(t)
      BY <1>2, <2>1, QuietAttended
    <2>2. CASE Wait(t)  BY <1>2, <2>2, WaitAttended
    <2>3. CASE CompleteOne(t)  BY <1>1, <2>3, CompleteOneAttended
    <2>4. CASE Try(t) \/ Contend(t) \/ Enqueue(t) \/ UnlockContended(t) \/ DowngradeSlow(t)
      BY <1>1, <2>4, SwapAttended
    <2>5. CASE LeaveToHolder(t) \/ WakeOne(t) \/ WakeAll(t)  BY <1>1, <2>5, UnlockAttended
    <2> QED  BY <1>4, <2>1, <2>2, <2>3, <2>4, <2>5 DEF Step
  <1>5. ASSUME NEW t \in Threads,
               Release(t) \/ Downgrade(t) \/ \E c \in Calls[t] \ {"downgrade"} : Call(t, c)
        PROVE  WaitersAttended'
    BY <1>1, <1>5, ReleaseAttended
  <1>6. CASE Next  BY <1>4, <1>5, <1>6 DEF Next
  <1> QED  BY <1>3, <1>6

\* While the lock is free and threads are queued, somebody has the queue lock or a
\* writer that was woken is on its way: no order of exchanges, failed exchanges, pushes
\* and undone splits leaves the queue to nobody.
THEOREM RwWaitersAttended == Spec => []WaitersAttended
  <1>1. Init => WaitersAttended
    <2>1. Init => "QUEUED" \notin state.bits  BY DEF Init, UNLOCKED, Word
    <2> QED  BY <2>1 DEF WaitersAttended
  <1>2. Spec => []Inv  BY RwInvariant
  <1> QED  BY <1>1, <1>2, NextAttended, PTL DEF Spec

-----------------------------------------------------------------------------
(* The lock as AbstractRwLock sees it *)

Wants == [u \in Threads |-> my[u].want]

\* A step of t changes what the abstract lock knows of t only.
LEMMA Mapped ==
    ASSUME my \in [Threads -> Locals], NEW t \in Threads, \A u \in Threads : u # t => my'[u] = my[u]
    PROVE  /\ \A m : HeldAs(m)' = IF my'[t].held = m THEN HeldAs(m) \cup {t} ELSE HeldAs(m) \ {t}
           /\ Wants' = [Wants EXCEPT ![t] = my'[t].want]
           /\ \A m : t \in HeldAs(m) <=> my[t].held = m
           /\ Wants[t] = my[t].want
           /\ my'[t].held = my[t].held => \A m : HeldAs(m)' = HeldAs(m)
  <1>1. ASSUME NEW m
        PROVE  HeldAs(m)' = IF my'[t].held = m THEN HeldAs(m) \cup {t} ELSE HeldAs(m) \ {t}
    BY DEF HeldAs
  <1>2. Wants' = [Wants EXCEPT ![t] = my'[t].want]  BY DEF Wants
  <1>3. my'[t].held = my[t].held => \A m : HeldAs(m)' = HeldAs(m)
    <2> SUFFICES ASSUME my'[t].held = my[t].held, NEW m PROVE HeldAs(m)' = HeldAs(m)  OBVIOUS
    <2>1. \A u \in Threads : my'[u].held = my[u].held  OBVIOUS
    <2> QED  BY <2>1 DEF HeldAs
  <1> QED  BY <1>1, <1>2, <1>3 DEF HeldAs, Wants

\* What t does to the abstract lock, by what it holds and wants before and after.
LEMMA MapSame ==
    ASSUME my \in [Threads -> Locals], NEW t \in Threads, \A u \in Threads : u # t => my'[u] = my[u],
           my'[t].held = my[t].held, my'[t].want = my[t].want
    PROVE  UNCHANGED Abstract!vars
  <1>1. \A m : HeldAs(m)' = HeldAs(m)  BY Mapped
  <1>2. Wants' = Wants  BY Mapped DEF Wants
  <1> QED  BY <1>1, <1>2 DEF Abstract!vars, Wants

\* A call begins.
LEMMA MapAsk ==
    ASSUME my \in [Threads -> Locals], NEW t \in Threads, \A u \in Threads : u # t => my'[u] = my[u],
           NEW c \in {"read", "write", "try_read", "try_write"},
           my[t].held = "none", my'[t].held = "none", my[t].want = "none", my'[t].want = c
    PROVE  Abstract!Next
  <1>1. HeldAs("read")' = HeldAs("read") /\ HeldAs("write")' = HeldAs("write")  BY Mapped
  <1>2. t \notin HeldAs("read") \cup HeldAs("write")  BY Mapped
  <1>3. Wants' = [Wants EXCEPT ![t] = c] /\ Wants[t] = "none"  BY Mapped
  <1>4. Abstract!Ask(t, c)  BY <1>1, <1>2, <1>3 DEF Abstract!Ask, Wants
  <1> QED  BY <1>4 DEF Abstract!Next, Abstract!Requests

\* A reader enters.
LEMMA MapRead ==
    ASSUME my \in [Threads -> Locals], NEW t \in Threads, \A u \in Threads : u # t => my'[u] = my[u],
           my[t].want \in {"read", "try_read"}, my'[t].want = "none",
           my[t].held = "none", my'[t].held = "read", HeldAs("write") = {}
    PROVE  Abstract!Next
  <1>1. HeldAs("read")' = HeldAs("read") \cup {t} /\ HeldAs("write")' = HeldAs("write")  BY Mapped
  <1>2. Wants' = [Wants EXCEPT ![t] = "none"] /\ Wants[t] \in {"read", "try_read"}  BY Mapped
  <1>3. Abstract!EnterRead(t)  BY <1>1, <1>2 DEF Abstract!EnterRead, Abstract!Answer, Wants
  <1> QED  BY <1>3 DEF Abstract!Next, Abstract!Enter

\* A writer enters.
LEMMA MapWrite ==
    ASSUME my \in [Threads -> Locals], NEW t \in Threads, \A u \in Threads : u # t => my'[u] = my[u],
           my[t].want \in {"write", "try_write"}, my'[t].want = "none",
           my'[t].held = "write", HeldAs("read") = {}, HeldAs("write") = {}
    PROVE  Abstract!Next
  <1>0. HeldAs("read")' = HeldAs("read") \ {t} /\ HeldAs("write")' = HeldAs("write") \cup {t}  BY Mapped
  <1>1. HeldAs("read")' = HeldAs("read") /\ HeldAs("write")' = {t}  BY <1>0
  <1>2. Wants' = [Wants EXCEPT ![t] = "none"] /\ Wants[t] \in {"write", "try_write"}  BY Mapped
  <1>3. Abstract!EnterWrite(t)  BY <1>1, <1>2 DEF Abstract!EnterWrite, Abstract!Answer, Wants
  <1> QED  BY <1>3 DEF Abstract!Next, Abstract!Enter

\* A try fails.
LEMMA MapRefuse ==
    ASSUME my \in [Threads -> Locals], NEW t \in Threads, \A u \in Threads : u # t => my'[u] = my[u],
           my[t].want \in {"try_read", "try_write"}, my'[t].want = "none", my'[t].held = my[t].held,
           \/ \E u \in Threads : my[u].held # "none"
           \/ my[t].want = "try_read" /\ \E u \in Threads : my[u].want \in {"read", "write"}
    PROVE  Abstract!Next
  <1>1. HeldAs("read")' = HeldAs("read") /\ HeldAs("write")' = HeldAs("write")  BY Mapped
  <1>2. Wants' = [Wants EXCEPT ![t] = "none"] /\ Wants[t] = my[t].want  BY Mapped
  <1>3. (\E u \in Threads : my[u].held # "none") => HeldAs("read") \cup HeldAs("write") # {}
    BY DEF HeldAs, Locals
  <1>4. \A u \in Threads : Wants[u] = my[u].want  BY DEF Wants
  <1>5. \/ Wants[t] \in {"try_read", "try_write"} /\ HeldAs("read") \cup HeldAs("write") # {}
        \/ Wants[t] = "try_read" /\ \E u \in Threads : Wants[u] \in {"read", "write"}
    BY <1>2, <1>3, <1>4
  <1>6. Abstract!Refuse(t)  BY <1>1, <1>2, <1>5 DEF Abstract!Refuse, Abstract!Answer, Wants
  <1> QED  BY <1>6 DEF Abstract!Next

\* A writer becomes a reader.
LEMMA MapDowngrade ==
    ASSUME my \in [Threads -> Locals], NEW t \in Threads, \A u \in Threads : u # t => my'[u] = my[u],
           my'[t].want = my[t].want, my[t].held = "write", my'[t].held = "read"
    PROVE  Abstract!Next
  <1>1. /\ HeldAs("read")' = HeldAs("read") \cup {t} /\ HeldAs("write")' = HeldAs("write") \ {t}
        /\ t \in HeldAs("write")
    BY Mapped
  <1>2. Wants' = Wants  BY Mapped DEF Wants
  <1>3. Abstract!Downgrade(t)  BY <1>1, <1>2 DEF Abstract!Downgrade, Wants
  <1> QED  BY <1>3 DEF Abstract!Next

\* A reader or the writer leaves.
LEMMA MapLeave ==
    ASSUME my \in [Threads -> Locals], NEW t \in Threads, \A u \in Threads : u # t => my'[u] = my[u],
           my'[t].want = my[t].want, my[t].held # "none", my'[t].held = "none"
    PROVE  Abstract!Next
  <1>1. /\ HeldAs("read")' = HeldAs("read") \ {t} /\ HeldAs("write")' = HeldAs("write") \ {t}
        /\ t \in HeldAs("read") \/ t \in HeldAs("write")
    BY Mapped DEF Locals
  <1>2. Wants' = Wants  BY Mapped DEF Wants
  <1>3. Abstract!Leave(t)  BY <1>1, <1>2 DEF Abstract!Leave, Wants
  <1> QED  BY <1>3 DEF Abstract!Next

\* The steps inside a function after which the thread holds and wants what it did.
Inner(t) ==
    \/ Load(t) \/ Spin(t) \/ Enqueue(t) \/ Wait(t) \/ Park(t) \/ Walk(t) \/ Found(t) \/ Complete(t)
    \/ CompleteOne(t) \/ Unpark(t) \/ LeaveToHolder(t) \/ SplitTail(t) \/ WakeOne(t) \/ Undo(t)
    \/ WakeAll(t)

\* An exchange that fails.
LEMMA RetryKeeps ==
    ASSUME my \in [Threads -> Locals], NEW t \in Threads, NEW f \in Locals, Retry(t, f)
    PROVE  my'[t].want = f.want /\ my'[t].held = f.held
  BY DEF Retry, Go, Locals

\* A return to the loop of lock_contended, or to the caller.
LEMMA ReturnKeeps ==
    ASSUME NEW t \in Threads, my[t] \in Locals, CallOK(my[t])
    PROVE  Returned(t).want = my[t].want /\ Returned(t).held = my[t].held
  BY DEF Returned, Outside, Waiting, Locals, CallOK

\* A traversal begins.
LEMMA TraverseKeeps ==
    ASSUME NEW t \in Threads, my[t] \in Locals, NEW w, NEW f
    PROVE  Traverse(t, w, f).want = my[t].want /\ Traverse(t, w, f).held = my[t].held
  BY DEF Traverse, Locals

\* A traversal begins once the lock has been given back or downgraded.
LEMMA TraverseAs ==
    ASSUME NEW t \in Threads, my[t] \in Locals, NEW w, NEW f, NEW h
    PROVE  /\ [Traverse(t, w, f) EXCEPT !.held = h].want = my[t].want
           /\ [Traverse(t, w, f) EXCEPT !.held = h].held = h
  BY DEF Traverse, Locals

\* An exchange of unlock_queue that fails starts a new traversal.
LEMMA AgainFacts ==
    ASSUME NEW t \in Threads, my[t] \in Locals, state \in Words
    PROVE  Again(t) \in Locals /\ Again(t).want = my[t].want /\ Again(t).held = my[t].held
  BY ZenonT(30) DEF Again, Traverse, Locals, Words, PCs, Ptr

\* Every step of a thread leaves the locals of the others alone.
LEMMA OneMoves ==
    ASSUME my \in [Threads -> Locals], NEW t \in Threads,
           \/ Step(t) \/ Release(t) \/ Downgrade(t) \/ \E c \in Calls[t] \ {"downgrade"} : Call(t, c)
    PROVE  \A u \in Threads : u # t => my'[u] = my[u]
  <1>1. ASSUME NEW r, Go(t, r) PROVE \A u \in Threads : u # t => my'[u] = my[u]  BY <1>1 DEF Go
  <1>2. ASSUME NEW l, Goto(t, l) PROVE \E r : Go(t, r)  BY <1>2 DEF Goto
  <1>3. ASSUME NEW w, NEW r, Swap(t, w, r) PROVE \E m : Go(t, m)  BY <1>3 DEF Swap
  <1>4. ASSUME NEW f, Retry(t, f) PROVE \E m : Go(t, m)  BY <1>4 DEF Retry
  <1>5. ASSUME NEW w, NEW r, Exchange(t, w, r) PROVE \E m : Go(t, m)  BY <1>3, <1>4, <1>5 DEF Exchange
  <1>6. CASE Step(t)
    <2>1. CASE Try(t) \/ Load(t) \/ Contend(t) \/ Spin(t) \/ Wait(t) \/ Park(t)
      BY <1>1, <1>2, <1>3, <1>4, <2>1, Zenon DEF Try, Load, Contend, Spin, Wait, Park
    <2>2. CASE Enqueue(t)
      BY <1>1, <1>3, <1>4, <2>2, Zenon DEF Enqueue
    <2>3. CASE Walk(t) \/ Found(t) \/ Complete(t) \/ CompleteOne(t) \/ Unpark(t) \/ Decrement(t)
      BY <1>1, <1>2, <2>3, Zenon DEF Walk, Found, Complete, CompleteOne, Unpark, Decrement
    <2>4. CASE UnlockContended(t) \/ DowngradeSlow(t)
      BY <1>1, <1>5, <2>4, Zenon DEF UnlockContended, DowngradeSlow
    <2>5. CASE LeaveToHolder(t) \/ SplitTail(t) \/ WakeOne(t) \/ Undo(t) \/ WakeAll(t)
      BY <1>1, <1>2, <1>3, <1>4, <2>5, Zenon DEF LeaveToHolder, SplitTail, WakeOne, Undo, WakeAll
    <2> QED  BY <1>6, <2>1, <2>2, <2>3, <2>4, <2>5 DEF Step
  <1>7. CASE Release(t) \/ Downgrade(t)
    BY <1>1, <1>7, Zenon DEF Release, ReadUnlock, WriteUnlock, Downgrade
  <1>8. CASE \E c \in Calls[t] \ {"downgrade"} : Call(t, c)  BY <1>1, <1>8, Zenon DEF Call
  <1> QED  BY <1>6, <1>7, <1>8

\* The queue is invisible: traversals, wakeups and failed exchanges are no steps of the lock.
LEMMA InnerKeeps ==
    ASSUME my \in [Threads -> Locals], NEW t \in Threads, CallOK(my[t]), state \in Words, Inner(t)
    PROVE  my'[t].want = my[t].want /\ my'[t].held = my[t].held
  <1>1. my[t] \in Locals  OBVIOUS
  <1>2. CASE Load(t)  BY <1>1, <1>2 DEF Load, Go, Locals
  <1>3. CASE Spin(t)  BY <1>1, <1>3 DEF Spin, Go, Locals
  <1>4. CASE Wait(t) \/ Park(t)  BY <1>1, <1>4 DEF Wait, Park, Goto, Go, Locals
  <1>5. CASE Walk(t)  BY <1>1, <1>5 DEF Walk, Go, Locals
  <1>6. CASE Found(t)  BY <1>1, <1>6 DEF Found, Goto, Go, Locals
  <1>7. CASE Complete(t) \/ CompleteOne(t)
      BY <1>1, <1>7, ZenonT(30) DEF Complete, CompleteOne, Go, Locals
  <1>8. CASE Unpark(t)
    <2>1. CASE my[t].tl = Null  BY <1>1, <1>8, <2>1, ReturnKeeps DEF Unpark, Go
    <2>2. CASE my[t].tl # Null  BY <1>1, <1>8, <2>2 DEF Unpark, Go, Locals
    <2> QED  BY <2>1, <2>2
  <1>9. CASE SplitTail(t)  BY <1>1, <1>9 DEF SplitTail, Goto, Go, Locals
  <1>10. CASE Undo(t)  BY <1>1, <1>10, TraverseKeeps DEF Undo, Go
  <1>11. CASE Enqueue(t)
    <2>1. my[t].held = "none"  BY <1>1, <1>11 DEF Enqueue, At, CallOK
    <2>2. Waiting(t).want = my[t].want /\ Waiting(t).held = "none"  BY DEF Waiting, Outside
    <2>3. CASE Retry(t, my[t])  BY <1>1, <2>3, RetryKeeps
    <2>4. CASE ~Retry(t, my[t])
      <3>1. \E w : my' = [my EXCEPT ![t] = Traverse(t, w, "unlock_queue")]
                     \/ my' = [my EXCEPT ![t] = Waiting(t)]
        BY <1>11, <2>4 DEF Enqueue, Swap, Go
      <3> QED  BY <1>1, <2>1, <2>2, <3>1, TraverseKeeps
    <2> QED  BY <2>3, <2>4
  <1>12. CASE LeaveToHolder(t) \/ WakeAll(t)
    <2>1. CASE Retry(t, Again(t))  BY <1>1, <2>1, AgainFacts, RetryKeeps
    <2>2. CASE ~Retry(t, Again(t))
      <3>1. \/ my' = [my EXCEPT ![t] = Returned(t)]
            \/ my' = [my EXCEPT ![t] = [my[t] EXCEPT !.pc = "complete", !.cur = my[t].tl]]
        BY <1>12, <2>2 DEF LeaveToHolder, WakeAll, Swap, Go
      <3>2. CASE my' = [my EXCEPT ![t] = Returned(t)]  BY <1>1, <3>2, ReturnKeeps
      <3>3. CASE my' = [my EXCEPT ![t] = [my[t] EXCEPT !.pc = "complete", !.cur = my[t].tl]]
        BY <1>1, <3>3 DEF Locals
      <3> QED  BY <3>1, <3>2, <3>3
    <2> QED  BY <2>1, <2>2
  <1>13. CASE WakeOne(t)
    <2> DEFINE b == [my[t] EXCEPT !.pc = "undo", !.cur = my[t].st.ptr]
    <2>1. b \in Locals /\ b.want = my[t].want /\ b.held = my[t].held
      BY <1>1 DEF Locals, PCs, Words, Ptr
    <2> HIDE DEF b
    <2>2. CASE Retry(t, b)  BY <2>1, <2>2, RetryKeeps
    <2>3. CASE ~Retry(t, b)
      <3>1. my' = [my EXCEPT ![t] = [my[t] EXCEPT !.pc = "complete_one", !.cur = my[t].tl]]
        BY <1>13, <2>3 DEF WakeOne, Swap, Go, b
      <3> QED  BY <1>1, <3>1 DEF Locals
    <2> QED  BY <2>2, <2>3
  <1> QED
    BY <1>2, <1>3, <1>4, <1>5, <1>6, <1>7, <1>8, <1>9, <1>10, <1>11, <1>12, <1>13 DEF Inner

\* Who gets the lock finds nobody inside that it would disturb.
LEMMA AcquireMaps ==
    ASSUME NEW Q, NEW wk, NEW pos, RwInv(state, node, token, my, Q, wk, pos), NEW t \in Threads,
           my[t].pc \in {"try", "contend"}, MayLock(t, state), Go(t, Outside(Mode(t)))
    PROVE  Abstract!Next
  <1>1. /\ my \in [Threads -> Locals] /\ CallOK(my[t]) /\ LockInv(state, my) /\ WordInv(state)
        /\ state \in Words
    BY DEF RwInv, CallInv, Types
  <1>2. my[t] \in Locals /\ my[t].want # "none" /\ my[t].held = "none"  BY <1>1 DEF CallOK
  <1>3. \A u \in Threads : u # t => my'[u] = my[u]  BY <1>1 DEF Go
  <1>4. my'[t].held = Mode(t) /\ my'[t].want = "none"  BY <1>1 DEF Go, Outside
  <1>5. CASE Mode(t) = "read"
    <2>1. "QUEUED" \notin state.bits /\ state # LOCKED  BY <1>5 DEF MayLock
    <2>2. HeldAs("write") = {}
      <3> SUFFICES ASSUME NEW u \in Threads, my[u].held = "write" PROVE FALSE  BY DEF HeldAs
      <3>1. Alone(my, u) /\ "LOCKED" \in state.bits  BY <1>1 DEF LockInv
      <3>2. Cardinality(Counted(my)) = 0  BY <3>1, CountNone DEF Counted
      <3>3. state.count = 0  BY <1>1, <2>1, <3>2 DEF LockInv
      <3> QED  BY <1>1, <2>1, <3>1, <3>3, PlainWord DEF LOCKED
    <2>3. my[t].want \in {"read", "try_read"}  BY <1>5 DEF Mode
    <2> QED  BY <1>1, <1>2, <1>3, <1>4, <1>5, <2>2, <2>3, MapRead
  <1>6. CASE Mode(t) # "read"
    <2>1. Mode(t) = "write" /\ my[t].want \in {"write", "try_write"}
      BY <1>2, <1>6 DEF Mode, Locals
    <2>2. "LOCKED" \notin state.bits  BY <1>6 DEF MayLock
    <2>3. HeldAs("read") = {} /\ HeldAs("write") = {}  BY <1>1, <2>2 DEF LockInv, HeldAs
    <2> QED  BY <1>1, <1>3, <1>4, <2>1, <2>3, MapWrite
  <1> QED  BY <1>5, <1>6

\* A try fails because somebody is inside, a try_read also because somebody waits.
LEMMA RefuseMaps ==
    ASSUME NEW Q, NEW wk, NEW pos, Ghosts(Q, wk, pos), RwInv(state, node, token, my, Q, wk, pos),
           NEW t \in Threads, my[t].pc = "try", ~MayLock(t, state),
           my[t].want \notin {"read", "write"}, Go(t, Outside("none"))
    PROVE  Abstract!Next
  <1>1. /\ my \in [Threads -> Locals] /\ CallInv(my) /\ LockInv(state, my) /\ WordInv(state)
        /\ state \in Words /\ ListInv(state, node, my, Q, pos) /\ WaitInv(node, my, Q, wk)
        /\ Q \in SUBSET Threads
    BY DEF RwInv, Types, ShapeInv, Ghosts
  <1>2. my[t] \in Locals /\ my[t].want # "none" /\ my[t].held = "none"  BY <1>1 DEF CallInv, CallOK
  <1>3. \A u \in Threads : u # t => my'[u] = my[u]  BY <1>1 DEF Go
  <1>4. my'[t].held = "none" /\ my'[t].want = "none"  BY <1>1 DEF Go, Outside
  <1>5. my[t].want \in {"try_read", "try_write"}  BY <1>2 DEF Locals
  <1>6. "LOCKED" \in state.bits => \E u \in Threads : my[u].held # "none"  BY <1>1 DEF LockInv
  <1>7. \/ "LOCKED" \in state.bits
        \/ my[t].want = "try_read" /\ "QUEUED" \in state.bits
    BY <1>5 DEF MayLock, Mode, LOCKED, Word
  <1>8. "QUEUED" \in state.bits => \E u \in Threads : my[u].want \in {"read", "write"}
    <2> SUFFICES ASSUME "QUEUED" \in state.bits PROVE \E u \in Threads : my[u].want \in {"read", "write"}
      OBVIOUS
    <2>1. PICK u \in Q : TRUE  BY <1>1 DEF ListInv
    <2>2. u \in Threads /\ Waits(my[u], node[u])  BY <1>1, <2>1 DEF WaitInv
    <2>3. my[u].want \in {"read", "write"}  BY <1>1, <2>2 DEF Waits, CallInv, CallOK, Locals
    <2> QED  BY <2>2, <2>3
  <1> QED  BY <1>1, <1>2, <1>3, <1>4, <1>5, <1>6, <1>7, <1>8, MapRefuse

\* Every step is one of the abstract lock, or none.
LEMMA StepMaps ==
    ASSUME NEW Q, NEW wk, NEW pos, Ghosts(Q, wk, pos), RwInv(state, node, token, my, Q, wk, pos),
           NEW t \in Threads, Step(t)
    PROVE  Abstract!Next \/ UNCHANGED Abstract!vars
  <1>1. my \in [Threads -> Locals] /\ CallOK(my[t]) /\ state \in Words /\ my[t] \in Locals
    BY DEF RwInv, CallInv, Types
  <1>2. \A u \in Threads : u # t => my'[u] = my[u]  BY <1>1, OneMoves
  <1>3. CASE Inner(t)
    <2>1. my'[t].want = my[t].want /\ my'[t].held = my[t].held  BY <1>1, <1>3, InnerKeeps
    <2> QED  BY <1>1, <1>2, <2>1, MapSame
  <1>4. CASE Retry(t, my[t])
    <2>1. my'[t].want = my[t].want /\ my'[t].held = my[t].held  BY <1>1, <1>4, RetryKeeps
    <2> QED  BY <1>1, <1>2, <2>1, MapSame
  <1>5. CASE Try(t)
    <2>1. my[t].pc = "try"  BY <1>5 DEF Try, At
    <2>2. CASE MayLock(t, state)
      <3>1. Go(t, Outside(Mode(t)))  BY <1>5, <2>2 DEF Try
      <3> QED  BY <2>1, <2>2, <3>1, AcquireMaps
    <2>3. CASE ~MayLock(t, state) /\ my[t].want \in {"read", "write"}
      <3>1. Goto(t, "load")  BY <1>5, <2>3 DEF Try
      <3>2. my'[t].want = my[t].want /\ my'[t].held = my[t].held  BY <1>1, <3>1 DEF Goto, Go, Locals
      <3> QED  BY <1>1, <1>2, <3>2, MapSame
    <2>4. CASE ~MayLock(t, state) /\ my[t].want \notin {"read", "write"}
      <3>1. Go(t, Outside("none"))  BY <1>5, <2>4 DEF Try
      <3> QED  BY <2>1, <2>4, <3>1, RefuseMaps
    <2> QED  BY <2>2, <2>3, <2>4
  <1>6. CASE Contend(t) /\ ~Retry(t, my[t])
    <2>1. my[t].pc = "contend" /\ MayLock(t, state) /\ Go(t, Outside(Mode(t)))
      BY <1>6 DEF Contend, At, Swap
    <2> QED  BY <2>1, AcquireMaps
  <1>7. CASE Decrement(t)
    <2>1. my[t].want = "none" /\ my[t].held = "read"
      BY <1>1, <1>7 DEF Decrement, At, CallOK, Leaving
    <2>2. \/ my' = [my EXCEPT ![t] = [my[t] EXCEPT !.pc = "unlock_contended"]]
          \/ my' = [my EXCEPT ![t] = Outside("none")]
      BY <1>7 DEF Decrement, Goto, Go
    <2>3. CASE my' = [my EXCEPT ![t] = [my[t] EXCEPT !.pc = "unlock_contended"]]
      <3>1. my'[t].want = my[t].want /\ my'[t].held = my[t].held  BY <1>1, <2>3 DEF Locals
      <3> QED  BY <1>1, <1>2, <3>1, MapSame
    <2>4. CASE my' = [my EXCEPT ![t] = Outside("none")]
      <3>1. my'[t].want = "none" /\ my'[t].held = "none"  BY <1>1, <2>4 DEF Outside
      <3> QED  BY <1>1, <1>2, <2>1, <3>1, MapLeave
    <2> QED  BY <2>2, <2>3, <2>4
  <1>8. CASE UnlockContended(t) /\ ~Retry(t, my[t])
    <2>1. my[t].want = "none" /\ my[t].held # "none"
      BY <1>1, <1>8 DEF UnlockContended, At, CallOK
    <2>2. \/ my' = [my EXCEPT ![t] = Outside("none")]
          \/ \E w : my' = [my EXCEPT ![t] = [Traverse(t, w, "unlock_queue") EXCEPT !.held = "none"]]
      BY <1>8 DEF UnlockContended, Exchange, Swap, Go
    <2>3. my'[t].want = "none" /\ my'[t].held = "none"
      <3>1. CASE my' = [my EXCEPT ![t] = Outside("none")]  BY <1>1, <3>1 DEF Outside
      <3>2. ASSUME NEW w,
                   my' = [my EXCEPT ![t] = [Traverse(t, w, "unlock_queue") EXCEPT !.held = "none"]]
            PROVE  my'[t].want = "none" /\ my'[t].held = "none"
        <4>1. my'[t] = [Traverse(t, w, "unlock_queue") EXCEPT !.held = "none"]  BY <1>1, <3>2
        <4> QED  BY <1>1, <2>1, <4>1, TraverseAs
      <3> QED  BY <2>2, <3>1, <3>2
    <2> QED  BY <1>1, <1>2, <2>1, <2>3, MapLeave
  <1>9. CASE DowngradeSlow(t) /\ ~Retry(t, my[t])
    <2>1. my[t].want = "none" /\ my[t].held = "write"
      BY <1>1, <1>9 DEF DowngradeSlow, At, CallOK
    <2>2. \/ my' = [my EXCEPT ![t] = Outside("read")]
          \/ my' = [my EXCEPT ![t] = [Traverse(t, my[t].st, "downgrade") EXCEPT !.held = "read"]]
      BY <1>9 DEF DowngradeSlow, Exchange, Swap, Go
    <2>3. my'[t].want = "none" /\ my'[t].held = "read"
      <3>1. CASE my' = [my EXCEPT ![t] = Outside("read")]  BY <1>1, <3>1 DEF Outside
      <3>2. CASE my' = [my EXCEPT ![t] = [Traverse(t, my[t].st, "downgrade") EXCEPT !.held = "read"]]
        <4>1. my'[t] = [Traverse(t, my[t].st, "downgrade") EXCEPT !.held = "read"]  BY <1>1, <3>2
        <4> QED  BY <1>1, <2>1, <4>1, TraverseAs
      <3> QED  BY <2>2, <3>1, <3>2
    <2> QED  BY <1>1, <1>2, <2>1, <2>3, MapDowngrade
  <1> QED  BY <1>3, <1>4, <1>5, <1>6, <1>7, <1>8, <1>9 DEF Step, Inner

\* The steps that begin a call, give the lock back or downgrade it.
LEMMA UseMaps ==
    ASSUME NEW Q, NEW wk, NEW pos, RwInv(state, node, token, my, Q, wk, pos), NEW t \in Threads,
           \/ Release(t) \/ Downgrade(t) \/ \E c \in Calls[t] \ {"downgrade"} : Call(t, c)
    PROVE  Abstract!Next \/ UNCHANGED Abstract!vars
  <1>1. my \in [Threads -> Locals] /\ CallOK(my[t]) /\ my[t] \in Locals
    BY DEF RwInv, CallInv, Types
  <1>2. \A u \in Threads : u # t => my'[u] = my[u]  BY <1>1, OneMoves
  <1>3. my[t].pc = "idle" /\ my[t].want = "none"
    BY <1>1 DEF Release, ReadUnlock, WriteUnlock, Downgrade, Call, At, CallOK
  <1>4. CASE ReadUnlock(t) \/ WriteUnlock(t)
    <2>1. my[t].held # "none"  BY <1>4 DEF ReadUnlock, WriteUnlock
    <2>2. \/ my' = [my EXCEPT ![t] = Outside("none")]
          \/ my' = [my EXCEPT ![t] = Traverse(t, state, "decrement")]
          \/ my' = [my EXCEPT ![t] = [my[t] EXCEPT !.pc = "unlock_contended", !.st = state]]
      BY <1>4 DEF ReadUnlock, WriteUnlock, Go
    <2>3. CASE my' = [my EXCEPT ![t] = Outside("none")]
      <3>1. my'[t].want = "none" /\ my'[t].held = "none"  BY <1>1, <2>3 DEF Outside
      <3> QED  BY <1>1, <1>2, <1>3, <2>1, <3>1, MapLeave
    <2>4. CASE my' = [my EXCEPT ![t] = Traverse(t, state, "decrement")]
      <3>1. my'[t].want = my[t].want /\ my'[t].held = my[t].held  BY <1>1, <2>4, TraverseKeeps
      <3> QED  BY <1>1, <1>2, <3>1, MapSame
    <2>5. CASE my' = [my EXCEPT ![t] = [my[t] EXCEPT !.pc = "unlock_contended", !.st = state]]
      <3>1. my'[t].want = my[t].want /\ my'[t].held = my[t].held  BY <1>1, <2>5 DEF Locals
      <3> QED  BY <1>1, <1>2, <3>1, MapSame
    <2> QED  BY <2>2, <2>3, <2>4, <2>5
  <1>5. CASE Downgrade(t)
    <2>1. my[t].held = "write"  BY <1>5 DEF Downgrade
    <2>2. \/ my' = [my EXCEPT ![t] = Outside("read")]
          \/ my' = [my EXCEPT ![t] = [my[t] EXCEPT !.pc = "downgrade_slow", !.st = state]]
      BY <1>5 DEF Downgrade, Go
    <2>3. CASE my' = [my EXCEPT ![t] = Outside("read")]
      <3>1. my'[t].want = "none" /\ my'[t].held = "read"  BY <1>1, <2>3 DEF Outside
      <3> QED  BY <1>1, <1>2, <1>3, <2>1, <3>1, MapDowngrade
    <2>4. CASE my' = [my EXCEPT ![t] = [my[t] EXCEPT !.pc = "downgrade_slow", !.st = state]]
      <3>1. my'[t].want = my[t].want /\ my'[t].held = my[t].held  BY <1>1, <2>4 DEF Locals
      <3> QED  BY <1>1, <1>2, <3>1, MapSame
    <2> QED  BY <2>2, <2>3, <2>4
  <1>6. ASSUME NEW c \in Calls[t] \ {"downgrade"}, Call(t, c) PROVE Abstract!Next
    <2>1. c \in {"read", "write", "try_read", "try_write"}  BY <1>6, RwAssumption
    <2>2. my[t].held = "none"  BY <1>6 DEF Call
    <2>3. my'[t].want = c /\ my'[t].held = "none"  BY <1>1, <1>6, <2>2 DEF Call, Go, Locals
    <2> QED  BY <1>1, <1>2, <1>3, <2>1, <2>2, <2>3, MapAsk
  <1> QED  BY <1>4, <1>5, <1>6 DEF Release

\* The word, the queue and the nodes on the waiters' stacks together are a readers-writer
\* lock: many readers or one writer, a downgrade that lets nobody in between, a try that
\* fails only because somebody is inside or, for a try_read, because somebody waits.
\* (That a free lock that is asked for is taken is what AbstractRwLock!Spec adds.)
THEOREM RwImplementsLock == Spec => Abstract!Safety
  <1>1. Init => Abstract!Init
    <2> SUFFICES ASSUME Init PROVE Abstract!Init  OBVIOUS
    <2>1. \A u \in Threads : my[u] = Outside("none")  BY DEF Init
    <2>2. \A u \in Threads : my[u].held = "none" /\ my[u].want = "none"  BY <2>1 DEF Outside
    <2> QED  BY <2>2 DEF Abstract!Init, HeldAs
  <1>2. Inv /\ [Next]_vars => [Abstract!Next]_(Abstract!vars)
    <2> SUFFICES ASSUME Inv, [Next]_vars PROVE Abstract!Next \/ UNCHANGED Abstract!vars  OBVIOUS
    <2>1. PICK Q, wk, pos : Ghosts(Q, wk, pos) /\ RwInv(state, node, token, my, Q, wk, pos)
      BY DEF Inv
    <2>2. CASE UNCHANGED vars
      <3>1. my' = my  BY <2>2 DEF vars
      <3> QED  BY <3>1 DEF Abstract!vars, HeldAs
    <2>3. ASSUME NEW t \in Threads, Step(t) PROVE Abstract!Next \/ UNCHANGED Abstract!vars
      BY <2>1, <2>3, StepMaps
    <2>4. ASSUME NEW t \in Threads,
                 Release(t) \/ Downgrade(t) \/ \E c \in Calls[t] \ {"downgrade"} : Call(t, c)
          PROVE  Abstract!Next \/ UNCHANGED Abstract!vars
      BY <2>1, <2>4, UseMaps
    <2>5. CASE Next  BY <2>3, <2>4, <2>5 DEF Next
    <2> QED  BY <2>2, <2>5
  <1> QED  BY <1>1, <1>2, RwInvariant, PTL DEF Spec, Abstract!Safety
=============================================================================
