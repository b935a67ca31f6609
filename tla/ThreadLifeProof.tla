-------------------------- MODULE ThreadLifeProof ---------------------------
(***************************************************************************)
(* Proofs about ThreadLife for any finite set of threads, scoped or not.   *)
(***************************************************************************)
EXTENDS ThreadLife, FiniteSetTheorems, TLAPS

\* The threads' positions, and whether a thread has dropped its own reference.
PCs == {"none", "start", "run", "native", "drop", "unpark", "join", "drop_mine", "drop_theirs", "end",
        "gone", "check", "parked", "returned"}

Kids == [native : {"none", "starting", "live", "failed", "detached", "exited", "reclaimed"},
         refs : SUBSET {"join", "thread"}, result : {"none", "ok"},
         handle : {"none", "held", "joined", "dropped"}, owner : Actors]

Types ==
    /\ thr \in [Actors -> [pc : PCs, on : Actors]]
    /\ kid \in [Children -> Kids]
    /\ token \in BOOLEAN

Unborn(c) == kid[c].native \in {"none", "starting", "failed"}
Over(c) == kid[c].native \in {"exited", "reclaimed"}

\* The thread c has dropped its reference to its own Packet.
Past(c) == thr[c].pc = "end" \/ (thr[c].pc \in {"drop", "unpark"} /\ thr[c].on = c)

\* The handle of c has been consumed and still refers to the Packet.
Consuming(c) == LET o == kid[c].owner IN thr[o].on = c /\ thr[o].pc \in {"join", "drop_mine"}

\* The pthread and the thread that runs on it.
NativeInv == \A c \in Children :
    /\ thr[c].pc = "none" <=> Unborn(c)
    /\ thr[c].pc = "gone" <=> Over(c)

\* The pthread and its handle.
HandleInv == \A c \in Children :
    /\ kid[c].owner # c
    /\ kid[c].handle = "none" <=> Unborn(c)
    /\ kid[c].handle = "held" => kid[c].native \in {"live", "exited"}
    /\ kid[c].handle = "dropped" => kid[c].native \in {"detached", "reclaimed"}
    /\ kid[c].handle = "joined" => kid[c].native \in {"live", "exited", "reclaimed"}
    /\ kid[c].handle = "joined" /\ kid[c].native # "reclaimed" =>
          thr[kid[c].owner].pc = "join" /\ thr[kid[c].owner].on = c

\* What a thread may rely on while it works on a child.
WorkInv ==
    /\ thr[Main].pc \notin {"none", "start", "drop_theirs", "end", "gone"}
    /\ \A a \in Actors : thr[a].pc \in {"native", "join", "drop_mine", "drop", "unpark"} => thr[a].on \in Children
    /\ \A a \in Actors, c \in Children : thr[a].on = c =>
          /\ thr[a].pc = "native" => kid[c].native = "starting" /\ kid[c].owner = a
          /\ thr[a].pc = "join" => /\ kid[c].owner = a /\ kid[c].handle = "joined"
                                   /\ kid[c].native \in {"live", "exited"}
          /\ thr[a].pc = "drop_mine" => kid[c].owner = a /\ kid[c].handle = "dropped"

\* Who has a reference to the Packet of c, and when it holds a result.
RefsInv == \A c \in Children :
    /\ "join" \in kid[c].refs <=> kid[c].native = "starting" \/ kid[c].handle = "held" \/ Consuming(c)
    /\ "thread" \in kid[c].refs <=>
          kid[c].native = "starting" \/ (kid[c].native \in {"live", "detached"} /\ ~Past(c))
    /\ kid[c].result = "ok" <=>
          thr[c].pc = "drop_theirs" \/ ((Past(c) \/ Over(c)) /\ "join" \in kid[c].refs)

\* The scope counts the packets that exist and those that are being dropped.
Packets == {c \in Scoped : kid[c].refs # {}}
Dropping == {a \in Actors : At(a, "drop") /\ thr[a].on \in Scoped}
CountInv == running = Cardinality(Packets) + Cardinality(Dropping)

\* scope returns after the last packet, and nobody is left who could spawn.
ReturnInv == At(Main, "returned") => \A c \in Scoped : kid[c].refs = {}

LifeInv == Types /\ NativeInv /\ HandleInv /\ WorkInv /\ RefsInv /\ CountInv /\ ReturnInv

-----------------------------------------------------------------------------
(* The count of a scope *)

(* What the scope counts is finite, in every state. *)
LEMMA CountedFinite == IsFiniteSet(Packets) /\ IsFiniteSet(Dropping)
<1>1. IsFiniteSet(Children \cup {Main})
  BY LifeAssumption, FS_AddElement
<1>2. Packets \subseteq Children /\ Dropping \subseteq Children \cup {Main}
  BY LifeAssumption DEF Packets, Dropping, Actors
<1>3. QED
  BY <1>1, <1>2, LifeAssumption, FS_Subset

(* A step that drops no last reference, and no packet, leaves the count. *)
LEMMA CountKept ==
  ASSUME CountInv, running' = running,
         \A c \in Scoped : (kid'[c].refs = {}) = (kid[c].refs = {}),
         \A a \in Actors : (thr'[a].pc = "drop" /\ thr'[a].on \in Scoped)
                         <=> (thr[a].pc = "drop" /\ thr[a].on \in Scoped)
  PROVE  CountInv'
<1>1. Packets' = Packets
  BY DEF Packets
<1>2. Dropping' = Dropping
  BY DEF Dropping, At
<1>3. QED
  BY <1>1, <1>2 DEF CountInv

(* Who drops the last reference to a packet goes on to drop the packet. *)
LEMMA LastReference ==
  ASSUME CountInv, running' = running, NEW a \in Actors, NEW c \in Children,
         kid[c].refs # {}, kid'[c].refs = {}, \A d \in Children \ {c} : kid'[d] = kid[d],
         thr[a].pc # "drop", thr'[a].pc = "drop", thr'[a].on = c,
         \A b \in Actors \ {a} : thr'[b] = thr[b]
  PROVE  CountInv'
<1>1. CASE c \notin Scoped
  BY <1>1, CountKept, LifeAssumption
<1>2. CASE c \in Scoped
  <2>1. c \in Packets /\ Packets' = Packets \ {c}
    BY <1>2, LifeAssumption DEF Packets
  <2>2. a \notin Dropping /\ Dropping' = Dropping \cup {a}
    BY <1>2 DEF Dropping, At
  <2>3. Cardinality(Packets') = Cardinality(Packets) - 1
    BY <2>1, CountedFinite, FS_RemoveElement
  <2>4. Cardinality(Dropping') = Cardinality(Dropping) + 1
    BY <2>2, CountedFinite, FS_AddElement
  <2>5. Cardinality(Packets) \in Nat /\ Cardinality(Dropping) \in Nat
    BY CountedFinite, FS_CardinalityType
  <2>6. QED
    BY <2>3, <2>4, <2>5 DEF CountInv
<1>3. QED
  BY <1>1, <1>2

-----------------------------------------------------------------------------
(* Initial states *)

(* Nothing has been spawned. *)
LEMMA LifeInit == Init => LifeInv
<1> SUFFICES ASSUME Init PROVE LifeInv
  OBVIOUS
<1> USE LifeAssumption DEF Init, Actors
<1>1. Types
  BY DEF Types, PCs, Kids
<1>2. NativeInv /\ HandleInv
  BY DEF NativeInv, HandleInv, Unborn, Over
<1>3. WorkInv
  BY DEF WorkInv
<1>4. RefsInv
  BY DEF RefsInv, Consuming, Past, Over
<1>5. CountInv
  <2>1. Packets = {} /\ Dropping = {}
    BY DEF Packets, Dropping, At
  <2>2. QED
    BY <2>1, FS_EmptySet DEF CountInv
<1>6. ReturnInv
  BY DEF ReturnInv, At
<1>7. QED
  BY <1>1, <1>2, <1>3, <1>4, <1>5, <1>6 DEF LifeInv

-----------------------------------------------------------------------------
(* Steps *)

(* A thread is being spawned: its packet is new, and counted. *)
LEMMA SpawnStep ==
  ASSUME LifeInv, NEW a \in Actors, NEW c \in Children, Spawn(a, c)
  PROVE  LifeInv'
<1> USE LifeAssumption DEF LifeInv, Actors
<1>1. thr[a].pc = "run" /\ kid[c].native = "none" /\ c # a
  BY DEF Spawn, At, Go, Types, Kids, NativeInv, Unborn
<1>2. kid' = [kid EXCEPT ![c] = [@ EXCEPT !.native = "starting", !.refs = {"join", "thread"}, !.owner = a]]
  BY DEF Spawn, Types, Kids
<1>3. /\ thr' = [thr EXCEPT ![a] = [pc |-> "native", on |-> c]]
      /\ running' = (IF c \in Scoped THEN running + 1 ELSE running) /\ token' = token
  BY DEF Spawn, Go, Types
<1>4. Types'
  <2>1. thr' \in [Actors -> [pc : PCs, on : Actors]]
    BY <1>3 DEF Types, PCs
  <2>2. kid'[c] \in Kids
    <3>1. kid[c] \in Kids
      BY DEF Types
    <3>2. QED
      BY <1>2, <3>1 DEF Types, Kids
  <2>3. QED
    BY <1>2, <1>3, <2>1, <2>2 DEF Types
<1>5. NativeInv'
  BY <1>1, <1>2, <1>3 DEF Types, PCs, Kids, NativeInv, HandleInv, Unborn, Over
<1>6. HandleInv'
  BY <1>1, <1>2, <1>3 DEF Types, PCs, Kids, HandleInv, WorkInv, Unborn
<1>7. WorkInv'
  BY <1>1, <1>2, <1>3 DEF Types, PCs, Kids, HandleInv, WorkInv, Unborn
<1>8. RefsInv'
  BY <1>1, <1>2, <1>3
     DEF Types, PCs, Kids, NativeInv, HandleInv, WorkInv, RefsInv, Consuming, Past, Over, Unborn
<1>9. CountInv'
  <2>1. kid[c].refs = {} /\ kid'[c].refs # {}
    BY <1>1, <1>2, <1>3 DEF Types, Kids, RefsInv, HandleInv, WorkInv, Consuming, Unborn
  <2>2. CASE c \notin Scoped
    BY <1>1, <1>2, <1>3, <2>2, CountKept DEF Types
  <2>3. CASE c \in Scoped
    <3>1. c \notin Packets /\ Packets' = Packets \cup {c}
      BY <1>1, <1>2, <1>3, <2>1, <2>3 DEF Packets, Types
    <3>2. Dropping' = Dropping
      BY <1>1, <1>2, <1>3 DEF Dropping, At, Types
    <3>3. Cardinality(Packets') = Cardinality(Packets) + 1
      BY <3>1, CountedFinite, FS_AddElement
    <3>4. Cardinality(Packets) \in Nat /\ Cardinality(Dropping) \in Nat
      BY CountedFinite, FS_CardinalityType
    <3>5. QED
      BY <1>1, <1>2, <1>3, <2>3, <3>2, <3>3, <3>4 DEF CountInv
  <2>4. QED
    BY <2>2, <2>3
<1>10. ReturnInv'
  <2>1. c \in Scoped => a \in Scoped \cup {Main}
    BY DEF Spawn, MaySpawn
  <2>2. a \in Children => "thread" \in kid[a].refs
    BY <1>1, <1>2, <1>3 DEF Types, Kids, NativeInv, RefsInv, Unborn, Over, Past
  <2>3. QED
    BY <1>1, <1>2, <1>3, <2>1, <2>2 DEF ReturnInv, At, Types
<1>11. QED
  BY <1>4, <1>5, <1>6, <1>7, <1>8, <1>9, <1>10

(* The pthread exists: its thread starts, and the spawner has the handle. *)
LEMMA NativeNewStep ==
  ASSUME LifeInv, NEW a \in Actors, NEW c \in Children, thr[a].on = c, NativeNew(a)
  PROVE  LifeInv'
<1> USE LifeAssumption DEF LifeInv, Actors
<1>1. thr[a].pc = "native" /\ kid[c].native = "starting" /\ kid[c].owner = a /\ c # a /\ thr[c].pc = "none"
  BY DEF NativeNew, At, Types, Kids, NativeInv, Unborn, WorkInv, HandleInv
<1>2. kid' = [kid EXCEPT ![c] = [@ EXCEPT !.native = "live", !.handle = "held"]]
  BY DEF NativeNew, Types, Kids
<1>3. /\ thr' = [thr EXCEPT ![a].pc = "run", ![c].pc = "start"]
      /\ running' = running /\ token' = token
  BY DEF NativeNew, Go, Types
<1>4. Types'
  <2>1. thr' \in [Actors -> [pc : PCs, on : Actors]]
    BY <1>3 DEF Types, PCs
  <2>2. kid'[c] \in Kids
    <3>1. kid[c] \in Kids
      BY DEF Types
    <3>2. QED
      BY <1>2, <3>1 DEF Types, Kids
  <2>3. QED
    BY <1>2, <1>3, <2>1, <2>2 DEF Types
<1>5. NativeInv'
  BY <1>1, <1>2, <1>3 DEF Types, PCs, Kids, NativeInv, HandleInv, Unborn, Over
<1>6. HandleInv'
  BY <1>1, <1>2, <1>3 DEF Types, PCs, Kids, HandleInv, WorkInv, Unborn
<1>7. WorkInv'
  BY <1>1, <1>2, <1>3 DEF Types, PCs, Kids, HandleInv, WorkInv, Unborn
<1>8. RefsInv'
  BY <1>1, <1>2, <1>3
     DEF Types, PCs, Kids, NativeInv, HandleInv, WorkInv, RefsInv, Consuming, Past, Over, Unborn
<1>9. CountInv'
  <2>1. \A d \in Children : (kid'[d].refs = {}) = (kid[d].refs = {})
    BY <1>1, <1>2 DEF Types, Kids
  <2>2. \A b \in Actors : (thr'[b].pc = "drop" /\ thr'[b].on \in Scoped)
                        <=> (thr[b].pc = "drop" /\ thr[b].on \in Scoped)
    BY <1>1, <1>3 DEF Types
  <2>3. QED
    BY <1>3, <2>1, <2>2, CountKept
<1>10. ReturnInv'
  BY <1>1, <1>2, <1>3 DEF ReturnInv, At, Types, Kids
<1>11. QED
  BY <1>4, <1>5, <1>6, <1>7, <1>8, <1>9, <1>10

(* There is no pthread: both references are dropped. *)
LEMMA NativeFailsStep ==
  ASSUME LifeInv, NEW a \in Actors, NEW c \in Children, thr[a].on = c, NativeFails(a)
  PROVE  LifeInv'
<1> USE LifeAssumption DEF LifeInv, Actors
<1>1. thr[a].pc = "native" /\ kid[c].native = "starting" /\ kid[c].owner = a /\ c # a
  BY DEF NativeFails, At, Go, Types, Kids, WorkInv, HandleInv
<1>2. kid' = [kid EXCEPT ![c] = [@ EXCEPT !.native = "failed", !.refs = {}]]
  BY DEF NativeFails, Types, Kids
<1>3. /\ thr' = [thr EXCEPT ![a] = [pc |-> "drop", on |-> c]]
      /\ running' = running /\ token' = token
  BY DEF NativeFails, Go, Types
<1>4. Types'
  <2>1. thr' \in [Actors -> [pc : PCs, on : Actors]]
    BY <1>3 DEF Types, PCs
  <2>2. kid'[c] \in Kids
    <3>1. kid[c] \in Kids
      BY DEF Types
    <3>2. QED
      BY <1>2, <3>1 DEF Types, Kids
  <2>3. QED
    BY <1>2, <1>3, <2>1, <2>2 DEF Types
<1>5. NativeInv'
  BY <1>1, <1>2, <1>3 DEF Types, PCs, Kids, NativeInv, HandleInv, Unborn, Over
<1>6. HandleInv'
  BY <1>1, <1>2, <1>3 DEF Types, PCs, Kids, HandleInv, WorkInv, Unborn
<1>7. WorkInv'
  BY <1>1, <1>2, <1>3 DEF Types, PCs, Kids, HandleInv, WorkInv, Unborn
<1>8. RefsInv'
  BY <1>1, <1>2, <1>3
     DEF Types, PCs, Kids, NativeInv, HandleInv, WorkInv, RefsInv, Consuming, Past, Over, Unborn
<1>9. CountInv'
  <2>1. kid[c].refs # {} /\ kid'[c].refs = {} /\ \A d \in Children \ {c} : kid'[d] = kid[d]
    BY <1>1, <1>2 DEF Types, Kids, RefsInv
  <2>2. /\ thr[a].pc # "drop" /\ thr'[a].pc = "drop" /\ thr'[a].on = c
        /\ \A b \in Actors \ {a} : thr'[b] = thr[b]
    BY <1>1, <1>3 DEF Types
  <2>3. QED
    BY <1>3, <2>1, <2>2, LastReference
<1>10. ReturnInv'
  BY <1>1, <1>2, <1>3 DEF ReturnInv, At, Types, Kids
<1>11. QED
  BY <1>4, <1>5, <1>6, <1>7, <1>8, <1>9, <1>10

(* The joiner drops the last reference. *)
LEMMA JoinedStep ==
  ASSUME LifeInv, NEW a \in Actors, NEW c \in Children, thr[a].on = c, Joined(a)
  PROVE  LifeInv'
<1> USE LifeAssumption DEF LifeInv, Actors
<1>1. /\ thr[a].pc = "join" /\ kid[c].native = "exited" /\ kid[c].owner = a /\ kid[c].handle = "joined" /\ c # a
      /\ kid[c].refs = {"join"}
  BY DEF Joined, At, Go, Types, Kids, WorkInv, HandleInv, RefsInv, Consuming
<1>2. kid' = [kid EXCEPT ![c] = [@ EXCEPT !.native = "reclaimed", !.result = "none", !.refs = {}]]
  BY <1>1 DEF Joined, Types, Kids
<1>3. /\ thr' = [thr EXCEPT ![a] = [pc |-> "drop", on |-> c]]
      /\ running' = running /\ token' = token
  BY DEF Joined, Go, Types
<1>4. Types'
  <2>1. thr' \in [Actors -> [pc : PCs, on : Actors]]
    BY <1>3 DEF Types, PCs
  <2>2. kid'[c] \in Kids
    <3>1. kid[c] \in Kids
      BY DEF Types
    <3>2. QED
      BY <1>2, <3>1 DEF Types, Kids
  <2>3. QED
    BY <1>2, <1>3, <2>1, <2>2 DEF Types
<1>5. NativeInv'
  BY <1>1, <1>2, <1>3 DEF Types, PCs, Kids, NativeInv, HandleInv, Unborn, Over
<1>6. HandleInv'
  BY <1>1, <1>2, <1>3 DEF Types, PCs, Kids, HandleInv, WorkInv, Unborn
<1>7. WorkInv'
  BY <1>1, <1>2, <1>3 DEF Types, PCs, Kids, HandleInv, WorkInv, Unborn
<1>8. RefsInv'
  BY <1>1, <1>2, <1>3
     DEF Types, PCs, Kids, NativeInv, HandleInv, WorkInv, RefsInv, Consuming, Past, Over, Unborn
<1>9. CountInv'
  <2>1. kid[c].refs # {} /\ kid'[c].refs = {} /\ \A d \in Children \ {c} : kid'[d] = kid[d]
    BY <1>1, <1>2 DEF Types, Kids
  <2>2. /\ thr[a].pc # "drop" /\ thr'[a].pc = "drop" /\ thr'[a].on = c
        /\ \A b \in Actors \ {a} : thr'[b] = thr[b]
    BY <1>1, <1>3 DEF Types
  <2>3. QED
    BY <1>3, <2>1, <2>2, LastReference
<1>10. ReturnInv'
  BY <1>1, <1>2, <1>3 DEF ReturnInv, At, Types, Kids
<1>11. QED
  BY <1>4, <1>5, <1>6, <1>7, <1>8, <1>9, <1>10

(* A handle is consumed by join. *)
LEMMA JoinStep ==
  ASSUME LifeInv, NEW a \in Actors, NEW c \in Children, Join(a, c)
  PROVE  LifeInv'
<1> USE LifeAssumption DEF LifeInv, Actors
<1>1. thr[a].pc = "run" /\ kid[c].handle = "held" /\ kid[c].owner = a /\ c # a
  BY DEF Join, Owns, At, Go, Types, Kids, HandleInv
<1>2. kid' = [kid EXCEPT ![c] = [@ EXCEPT !.handle = "joined"]]
  BY DEF Join, Owns, Types, Kids
<1>3. /\ thr' = [thr EXCEPT ![a] = [pc |-> "join", on |-> c]]
      /\ running' = running /\ token' = token
  BY DEF Join, Owns, Go, Types
<1>4. Types'
  <2>1. thr' \in [Actors -> [pc : PCs, on : Actors]]
    BY <1>3 DEF Types, PCs
  <2>2. kid'[c] \in Kids
    <3>1. kid[c] \in Kids
      BY DEF Types
    <3>2. QED
      BY <1>2, <3>1 DEF Types, Kids
  <2>3. QED
    BY <1>2, <1>3, <2>1, <2>2 DEF Types
<1>5. NativeInv'
  BY <1>1, <1>2, <1>3 DEF Types, PCs, Kids, NativeInv, HandleInv, Unborn, Over
<1>6. HandleInv'
  BY <1>1, <1>2, <1>3 DEF Types, PCs, Kids, HandleInv, WorkInv, Unborn
<1>7. WorkInv'
  BY <1>1, <1>2, <1>3 DEF Types, PCs, Kids, HandleInv, WorkInv, Unborn
<1>8. RefsInv'
  BY <1>1, <1>2, <1>3
     DEF Types, PCs, Kids, NativeInv, HandleInv, WorkInv, RefsInv, Consuming, Past, Over, Unborn
<1>9. CountInv'
  <2>1. \A d \in Children : (kid'[d].refs = {}) = (kid[d].refs = {})
    BY <1>1, <1>2 DEF Types, Kids
  <2>2. \A b \in Actors : (thr'[b].pc = "drop" /\ thr'[b].on \in Scoped)
                        <=> (thr[b].pc = "drop" /\ thr[b].on \in Scoped)
    BY <1>1, <1>3 DEF Types
  <2>3. QED
    BY <1>3, <2>1, <2>2, CountKept
<1>10. ReturnInv'
  BY <1>1, <1>2, <1>3 DEF ReturnInv, At, Types, Kids
<1>11. QED
  BY <1>4, <1>5, <1>6, <1>7, <1>8, <1>9, <1>10

(* A handle is dropped, and first its pthread detached. *)
LEMMA DetachStep ==
  ASSUME LifeInv, NEW a \in Actors, NEW c \in Children, Detach(a, c)
  PROVE  LifeInv'
<1> USE LifeAssumption DEF LifeInv, Actors
<1> DEFINE n == IF kid[c].native = "exited" THEN "reclaimed" ELSE "detached"
<1>1. thr[a].pc = "run" /\ kid[c].handle = "held" /\ kid[c].owner = a /\ c # a
  BY DEF Detach, Owns, At, Go, Types, Kids, HandleInv
<1>2. kid' = [kid EXCEPT ![c] = [@ EXCEPT !.handle = "dropped", !.native = n]]
  BY DEF Detach, Owns, Types, Kids
<1>3. /\ thr' = [thr EXCEPT ![a] = [pc |-> "drop_mine", on |-> c]]
      /\ running' = running /\ token' = token
  BY DEF Detach, Owns, Go, Types
<1>4. Types'
  <2>1. thr' \in [Actors -> [pc : PCs, on : Actors]]
    BY <1>3 DEF Types, PCs
  <2>2. kid'[c] \in Kids
    <3>1. kid[c] \in Kids
      BY DEF Types
    <3>2. QED
      BY <1>2, <3>1 DEF Types, Kids
  <2>3. QED
    BY <1>2, <1>3, <2>1, <2>2 DEF Types
<1>5. NativeInv'
  BY <1>1, <1>2, <1>3 DEF Types, PCs, Kids, NativeInv, HandleInv, Unborn, Over
<1>6. HandleInv'
  BY <1>1, <1>2, <1>3 DEF Types, PCs, Kids, HandleInv, WorkInv, Unborn
<1>7. WorkInv'
  BY <1>1, <1>2, <1>3 DEF Types, PCs, Kids, HandleInv, WorkInv, Unborn
<1>8. RefsInv'
  BY <1>1, <1>2, <1>3
     DEF Types, PCs, Kids, NativeInv, HandleInv, WorkInv, RefsInv, Consuming, Past, Over, Unborn
<1>9. CountInv'
  <2>1. \A d \in Children : (kid'[d].refs = {}) = (kid[d].refs = {})
    BY <1>1, <1>2 DEF Types, Kids
  <2>2. \A b \in Actors : (thr'[b].pc = "drop" /\ thr'[b].on \in Scoped)
                        <=> (thr[b].pc = "drop" /\ thr[b].on \in Scoped)
    BY <1>1, <1>3 DEF Types
  <2>3. QED
    BY <1>3, <2>1, <2>2, CountKept
<1>10. ReturnInv'
  BY <1>1, <1>2, <1>3 DEF ReturnInv, At, Types, Kids
<1>11. QED
  BY <1>4, <1>5, <1>6, <1>7, <1>8, <1>9, <1>10

(* A dropped handle's reference goes; it is the last. *)
LEMMA DropMineLastStep ==
  ASSUME LifeInv, NEW a \in Actors, NEW c \in Children, thr[a].on = c, DropMine(a), kid[c].refs = {"join"}
  PROVE  LifeInv'
<1> USE LifeAssumption DEF LifeInv, Actors
<1>1. thr[a].pc = "drop_mine" /\ kid[c].handle = "dropped" /\ kid[c].owner = a /\ c # a
  BY DEF DropMine, Release, At, Go, Types, Kids, WorkInv, HandleInv
<1>2. kid' = [kid EXCEPT ![c] = [@ EXCEPT !.refs = {}, !.result = "none"]]
  BY <1>1 DEF DropMine, Release, Types, Kids
<1>3. /\ thr' = [thr EXCEPT ![a] = [pc |-> "drop", on |-> c]]
      /\ running' = running /\ token' = token
  BY DEF DropMine, Release, Go, Types
<1>4. Types'
  <2>1. thr' \in [Actors -> [pc : PCs, on : Actors]]
    BY <1>3 DEF Types, PCs
  <2>2. kid'[c] \in Kids
    <3>1. kid[c] \in Kids
      BY DEF Types
    <3>2. QED
      BY <1>2, <3>1 DEF Types, Kids
  <2>3. QED
    BY <1>2, <1>3, <2>1, <2>2 DEF Types
<1>5. NativeInv'
  BY <1>1, <1>2, <1>3 DEF Types, PCs, Kids, NativeInv, HandleInv, Unborn, Over
<1>6. HandleInv'
  BY <1>1, <1>2, <1>3 DEF Types, PCs, Kids, HandleInv, WorkInv, Unborn
<1>7. WorkInv'
  BY <1>1, <1>2, <1>3 DEF Types, PCs, Kids, HandleInv, WorkInv, Unborn
<1>8. RefsInv'
  BY <1>1, <1>2, <1>3
     DEF Types, PCs, Kids, NativeInv, HandleInv, WorkInv, RefsInv, Consuming, Past, Over, Unborn
<1>9. CountInv'
  <2>1. kid[c].refs # {} /\ kid'[c].refs = {} /\ \A d \in Children \ {c} : kid'[d] = kid[d]
    BY <1>1, <1>2 DEF Types, Kids
  <2>2. /\ thr[a].pc # "drop" /\ thr'[a].pc = "drop" /\ thr'[a].on = c
        /\ \A b \in Actors \ {a} : thr'[b] = thr[b]
    BY <1>1, <1>3 DEF Types
  <2>3. QED
    BY <1>3, <2>1, <2>2, LastReference
<1>10. ReturnInv'
  BY <1>1, <1>2, <1>3 DEF ReturnInv, At, Types, Kids
<1>11. QED
  BY <1>4, <1>5, <1>6, <1>7, <1>8, <1>9, <1>10

(* A dropped handle's reference goes; the thread still has one. *)
LEMMA DropMineStep ==
  ASSUME LifeInv, NEW a \in Actors, NEW c \in Children, thr[a].on = c, DropMine(a), kid[c].refs # {"join"}
  PROVE  LifeInv'
<1> USE LifeAssumption DEF LifeInv, Actors
<1>1. /\ thr[a].pc = "drop_mine" /\ kid[c].handle = "dropped" /\ kid[c].owner = a /\ c # a
      /\ kid[c].refs = {"join", "thread"}
  BY DEF DropMine, At, Types, Kids, WorkInv, HandleInv, RefsInv, Consuming
<1>2. kid' = [kid EXCEPT ![c] = [@ EXCEPT !.refs = {"thread"}, !.result = kid[c].result]]
  BY <1>1 DEF DropMine, Release, Types, Kids
<1>3. /\ thr' = [thr EXCEPT ![a] = [pc |-> "run", on |-> c]]
      /\ running' = running /\ token' = token
  BY DEF DropMine, Release, Go, Types
<1>4. Types'
  <2>1. thr' \in [Actors -> [pc : PCs, on : Actors]]
    BY <1>3 DEF Types, PCs
  <2>2. kid'[c] \in Kids
    <3>1. kid[c] \in Kids
      BY DEF Types
    <3>2. QED
      BY <1>2, <3>1 DEF Types, Kids
  <2>3. QED
    BY <1>2, <1>3, <2>1, <2>2 DEF Types
<1>5. NativeInv'
  BY <1>1, <1>2, <1>3 DEF Types, PCs, Kids, NativeInv, HandleInv, Unborn, Over
<1>6. HandleInv'
  BY <1>1, <1>2, <1>3 DEF Types, PCs, Kids, HandleInv, WorkInv, Unborn
<1>7. WorkInv'
  BY <1>1, <1>2, <1>3 DEF Types, PCs, Kids, HandleInv, WorkInv, Unborn
<1>8. RefsInv'
  BY <1>1, <1>2, <1>3
     DEF Types, PCs, Kids, NativeInv, HandleInv, WorkInv, RefsInv, Consuming, Past, Over, Unborn
<1>9. CountInv'
  <2>1. \A d \in Children : (kid'[d].refs = {}) = (kid[d].refs = {})
    BY <1>1, <1>2 DEF Types, Kids
  <2>2. \A b \in Actors : (thr'[b].pc = "drop" /\ thr'[b].on \in Scoped)
                        <=> (thr[b].pc = "drop" /\ thr[b].on \in Scoped)
    BY <1>1, <1>3 DEF Types
  <2>3. QED
    BY <1>3, <2>1, <2>2, CountKept
<1>10. ReturnInv'
  BY <1>1, <1>2, <1>3 DEF ReturnInv, At, Types, Kids
<1>11. QED
  BY <1>4, <1>5, <1>6, <1>7, <1>8, <1>9, <1>10

(* The thread's own reference goes; nobody will take the result. *)
LEMMA DropTheirsLastStep ==
  ASSUME LifeInv, NEW c \in Children, DropTheirs(c), kid[c].refs = {"thread"}
  PROVE  LifeInv'
<1> USE LifeAssumption DEF LifeInv, Actors
<1>1. thr[c].pc = "drop_theirs" /\ kid[c].native \in {"live", "detached"}
  BY DEF DropTheirs, Release, At, Go, Types, Kids, NativeInv, Unborn, Over
<1>2. kid' = [kid EXCEPT ![c] = [@ EXCEPT !.refs = {}, !.result = "none"]]
  BY <1>1 DEF DropTheirs, Release, Types, Kids
<1>3. /\ thr' = [thr EXCEPT ![c] = [pc |-> "drop", on |-> c]]
      /\ running' = running /\ token' = token
  BY DEF DropTheirs, Release, Go, Types
<1>4. Types'
  <2>1. thr' \in [Actors -> [pc : PCs, on : Actors]]
    BY <1>3 DEF Types, PCs
  <2>2. kid'[c] \in Kids
    <3>1. kid[c] \in Kids
      BY DEF Types
    <3>2. QED
      BY <1>2, <3>1 DEF Types, Kids
  <2>3. QED
    BY <1>2, <1>3, <2>1, <2>2 DEF Types
<1>5. NativeInv'
  BY <1>1, <1>2, <1>3 DEF Types, PCs, Kids, NativeInv, HandleInv, Unborn, Over
<1>6. HandleInv'
  BY <1>1, <1>2, <1>3 DEF Types, PCs, Kids, HandleInv, WorkInv, Unborn
<1>7. WorkInv'
  BY <1>1, <1>2, <1>3 DEF Types, PCs, Kids, HandleInv, WorkInv, Unborn
<1>8. RefsInv'
  BY <1>1, <1>2, <1>3
     DEF Types, PCs, Kids, NativeInv, HandleInv, WorkInv, RefsInv, Consuming, Past, Over, Unborn
<1>9. CountInv'
  <2>1. kid[c].refs # {} /\ kid'[c].refs = {} /\ \A d \in Children \ {c} : kid'[d] = kid[d]
    BY <1>1, <1>2 DEF Types, Kids
  <2>2. /\ thr[c].pc # "drop" /\ thr'[c].pc = "drop" /\ thr'[c].on = c
        /\ \A b \in Actors \ {c} : thr'[b] = thr[b]
    BY <1>1, <1>3 DEF Types
  <2>3. QED
    BY <1>3, <2>1, <2>2, LastReference
<1>10. ReturnInv'
  BY <1>1, <1>2, <1>3 DEF ReturnInv, At, Types, Kids
<1>11. QED
  BY <1>4, <1>5, <1>6, <1>7, <1>8, <1>9, <1>10

(* The thread's own reference goes, the result is left to the handle. *)
LEMMA DropTheirsStep ==
  ASSUME LifeInv, NEW c \in Children, DropTheirs(c), kid[c].refs # {"thread"}
  PROVE  LifeInv'
<1> USE LifeAssumption DEF LifeInv, Actors
<1>1. /\ thr[c].pc = "drop_theirs" /\ kid[c].native \in {"live", "detached"}
      /\ kid[c].refs = {"join", "thread"}
  BY DEF DropTheirs, At, Types, Kids, NativeInv, Unborn, Over, RefsInv, Past
<1>2. kid' = [kid EXCEPT ![c] = [@ EXCEPT !.refs = {"join"}, !.result = kid[c].result]]
  BY <1>1 DEF DropTheirs, Release, Types, Kids
<1>3. /\ thr' = [thr EXCEPT ![c] = [pc |-> "end", on |-> c]]
      /\ running' = running /\ token' = token
  BY DEF DropTheirs, Release, Go, Types
<1>4. Types'
  <2>1. thr' \in [Actors -> [pc : PCs, on : Actors]]
    BY <1>3 DEF Types, PCs
  <2>2. kid'[c] \in Kids
    <3>1. kid[c] \in Kids
      BY DEF Types
    <3>2. QED
      BY <1>2, <3>1 DEF Types, Kids
  <2>3. QED
    BY <1>2, <1>3, <2>1, <2>2 DEF Types
<1>5. NativeInv'
  BY <1>1, <1>2, <1>3 DEF Types, PCs, Kids, NativeInv, HandleInv, Unborn, Over
<1>6. HandleInv'
  BY <1>1, <1>2, <1>3 DEF Types, PCs, Kids, HandleInv, WorkInv, Unborn
<1>7. WorkInv'
  BY <1>1, <1>2, <1>3 DEF Types, PCs, Kids, HandleInv, WorkInv, Unborn
<1>8. RefsInv'
  BY <1>1, <1>2, <1>3
     DEF Types, PCs, Kids, NativeInv, HandleInv, WorkInv, RefsInv, Consuming, Past, Over, Unborn
<1>9. CountInv'
  <2>1. \A d \in Children : (kid'[d].refs = {}) = (kid[d].refs = {})
    BY <1>1, <1>2 DEF Types, Kids
  <2>2. \A b \in Actors : (thr'[b].pc = "drop" /\ thr'[b].on \in Scoped)
                        <=> (thr[b].pc = "drop" /\ thr[b].on \in Scoped)
    BY <1>1, <1>3 DEF Types
  <2>3. QED
    BY <1>3, <2>1, <2>2, CountKept
<1>10. ReturnInv'
  BY <1>1, <1>2, <1>3 DEF ReturnInv, At, Types, Kids
<1>11. QED
  BY <1>4, <1>5, <1>6, <1>7, <1>8, <1>9, <1>10

(* The closure returns and its result is stored. *)
LEMMA FinishStep == ASSUME LifeInv, NEW c \in Children, Finish(c) PROVE LifeInv'
<1> USE LifeAssumption DEF LifeInv, Actors
<1>1. thr[c].pc = "run"
  BY DEF Finish, At, Go, Types, Kids
<1>2. kid' = [kid EXCEPT ![c] = [@ EXCEPT !.result = "ok"]]
  BY DEF Finish, Types, Kids
<1>3. /\ thr' = [thr EXCEPT ![c] = [pc |-> "drop_theirs", on |-> c]]
      /\ running' = running /\ token' = token
  BY DEF Finish, Go, Types
<1>4. Types'
  <2>1. thr' \in [Actors -> [pc : PCs, on : Actors]]
    BY <1>3 DEF Types, PCs
  <2>2. kid'[c] \in Kids
    <3>1. kid[c] \in Kids
      BY DEF Types
    <3>2. QED
      BY <1>2, <3>1 DEF Types, Kids
  <2>3. QED
    BY <1>2, <1>3, <2>1, <2>2 DEF Types
<1>5. NativeInv'
  BY <1>1, <1>2, <1>3 DEF Types, PCs, Kids, NativeInv, HandleInv, Unborn, Over
<1>6. HandleInv'
  BY <1>1, <1>2, <1>3 DEF Types, PCs, Kids, HandleInv, WorkInv, Unborn
<1>7. WorkInv'
  BY <1>1, <1>2, <1>3 DEF Types, PCs, Kids, HandleInv, WorkInv, Unborn
<1>8. RefsInv'
  BY <1>1, <1>2, <1>3
     DEF Types, PCs, Kids, NativeInv, HandleInv, WorkInv, RefsInv, Consuming, Past, Over, Unborn
<1>9. CountInv'
  <2>1. \A d \in Children : (kid'[d].refs = {}) = (kid[d].refs = {})
    BY <1>1, <1>2 DEF Types, Kids
  <2>2. \A b \in Actors : (thr'[b].pc = "drop" /\ thr'[b].on \in Scoped)
                        <=> (thr[b].pc = "drop" /\ thr[b].on \in Scoped)
    BY <1>1, <1>3 DEF Types
  <2>3. QED
    BY <1>3, <2>1, <2>2, CountKept
<1>10. ReturnInv'
  BY <1>1, <1>2, <1>3 DEF ReturnInv, At, Types, Kids
<1>11. QED
  BY <1>4, <1>5, <1>6, <1>7, <1>8, <1>9, <1>10

(* The pthread ends. *)
LEMMA EndStep == ASSUME LifeInv, NEW c \in Children, End(c) PROVE LifeInv'
<1> USE LifeAssumption DEF LifeInv, Actors
<1> DEFINE n == IF kid[c].native = "detached" THEN "reclaimed" ELSE "exited"
<1>1. thr[c].pc = "end" /\ kid[c].native \in {"live", "detached"}
  BY DEF End, At, Go, Types, Kids, NativeInv, Unborn, Over
<1>2. kid' = [kid EXCEPT ![c] = [@ EXCEPT !.native = n]]
  BY DEF End, Types, Kids
<1>3. /\ thr' = [thr EXCEPT ![c] = [pc |-> "gone", on |-> c]]
      /\ running' = running /\ token' = token
  BY DEF End, Go, Types
<1>4. Types'
  <2>1. thr' \in [Actors -> [pc : PCs, on : Actors]]
    BY <1>3 DEF Types, PCs
  <2>2. kid'[c] \in Kids
    <3>1. kid[c] \in Kids
      BY DEF Types
    <3>2. QED
      BY <1>2, <3>1 DEF Types, Kids
  <2>3. QED
    BY <1>2, <1>3, <2>1, <2>2 DEF Types
<1>5. NativeInv'
  BY <1>1, <1>2, <1>3 DEF Types, PCs, Kids, NativeInv, HandleInv, Unborn, Over
<1>6. HandleInv'
  BY <1>1, <1>2, <1>3 DEF Types, PCs, Kids, HandleInv, WorkInv, Unborn
<1>7. WorkInv'
  BY <1>1, <1>2, <1>3 DEF Types, PCs, Kids, HandleInv, WorkInv, Unborn
<1>8. RefsInv'
  BY <1>1, <1>2, <1>3
     DEF Types, PCs, Kids, NativeInv, HandleInv, WorkInv, RefsInv, Consuming, Past, Over, Unborn
<1>9. CountInv'
  <2>1. \A d \in Children : (kid'[d].refs = {}) = (kid[d].refs = {})
    BY <1>1, <1>2 DEF Types, Kids
  <2>2. \A b \in Actors : (thr'[b].pc = "drop" /\ thr'[b].on \in Scoped)
                        <=> (thr[b].pc = "drop" /\ thr[b].on \in Scoped)
    BY <1>1, <1>3 DEF Types
  <2>3. QED
    BY <1>3, <2>1, <2>2, CountKept
<1>10. ReturnInv'
  BY <1>1, <1>2, <1>3 DEF ReturnInv, At, Types, Kids
<1>11. QED
  BY <1>4, <1>5, <1>6, <1>7, <1>8, <1>9, <1>10

(* A packet is dropped, and counted out. *)
LEMMA DropPacketStep ==
  ASSUME LifeInv, NEW a \in Actors, NEW c \in Children, thr[a].on = c, DropPacket(a)
  PROVE  LifeInv'
<1> USE LifeAssumption DEF LifeInv, Actors
<1>1. thr[a].pc = "drop"
  BY DEF DropPacket, At
<1>2. \E l \in {"unpark", IF c = a THEN "end" ELSE "run"} :
         /\ thr' = [thr EXCEPT ![a] = [pc |-> l, on |-> c]]
         /\ running' = (IF c \in Scoped THEN running - 1 ELSE running) /\ kid' = kid /\ token' = token
  BY DEF DropPacket, Next_, Go
<1>3. Types'
  BY <1>1, <1>2 DEF Types, PCs
<1>4. NativeInv'
  BY <1>1, <1>2 DEF Types, PCs, Kids, NativeInv, Unborn, Over
<1>5. HandleInv'
  BY <1>1, <1>2 DEF Types, PCs, Kids, HandleInv, WorkInv, Unborn
<1>6. WorkInv'
  BY <1>1, <1>2 DEF Types, PCs, Kids, HandleInv, WorkInv, Unborn
<1>7. RefsInv'
  BY <1>1, <1>2
     DEF Types, PCs, Kids, NativeInv, HandleInv, WorkInv, RefsInv, Consuming, Past, Over, Unborn
<1>8. CountInv'
  <2>1. Packets' = Packets
    BY <1>2 DEF Packets
  <2>2. CASE c \notin Scoped
    <3>1. Dropping' = Dropping
      BY <1>1, <1>2, <2>2 DEF Dropping, At, Types
    <3>2. QED
      BY <1>2, <2>1, <2>2, <3>1 DEF CountInv
  <2>3. CASE c \in Scoped
    <3>1. a \in Dropping /\ Dropping' = Dropping \ {a}
      BY <1>1, <1>2, <2>3 DEF Dropping, At, Types
    <3>2. Cardinality(Dropping') = Cardinality(Dropping) - 1
      BY <3>1, CountedFinite, FS_RemoveElement
    <3>3. Cardinality(Packets) \in Nat /\ Cardinality(Dropping) \in Nat
      BY CountedFinite, FS_CardinalityType
    <3>4. QED
      BY <1>2, <2>1, <2>3, <3>2, <3>3 DEF CountInv
  <2>4. QED
    BY <2>2, <2>3
<1>9. ReturnInv'
  BY <1>1, <1>2 DEF ReturnInv, At, Types
<1>10. QED
  BY <1>3, <1>4, <1>5, <1>6, <1>7, <1>8, <1>9

(* Who has dropped the last packet wakes Main. *)
LEMMA UnparkStep ==
  ASSUME LifeInv, NEW a \in Actors, NEW c \in Children, thr[a].on = c, UnparkMain(a)
  PROVE  LifeInv'
<1> USE LifeAssumption DEF LifeInv, Actors
<1>1. thr[a].pc = "unpark"
  BY DEF UnparkMain, At
<1>2. /\ thr' = [thr EXCEPT ![a] = [pc |-> IF c = a THEN "end" ELSE "run", on |-> c]]
      /\ running' = running /\ kid' = kid /\ token' = TRUE
  BY DEF UnparkMain, Next_, Go
<1>3. Types'
  BY <1>1, <1>2 DEF Types, PCs
<1>4. NativeInv'
  BY <1>1, <1>2 DEF Types, PCs, Kids, NativeInv, Unborn, Over
<1>5. HandleInv'
  BY <1>1, <1>2 DEF Types, PCs, Kids, HandleInv, WorkInv, Unborn
<1>6. WorkInv'
  BY <1>1, <1>2 DEF Types, PCs, Kids, HandleInv, WorkInv, Unborn
<1>7. RefsInv'
  BY <1>1, <1>2
     DEF Types, PCs, Kids, NativeInv, HandleInv, WorkInv, RefsInv, Consuming, Past, Over, Unborn
<1>8. CountInv'
  <2>1. \A b \in Actors : (thr'[b].pc = "drop" /\ thr'[b].on \in Scoped)
                        <=> (thr[b].pc = "drop" /\ thr[b].on \in Scoped)
    BY <1>1, <1>2 DEF Types
  <2>2. QED
    BY <1>2, <2>1, CountKept
<1>9. ReturnInv'
  BY <1>1, <1>2 DEF ReturnInv, At, Types
<1>10. QED
  BY <1>3, <1>4, <1>5, <1>6, <1>7, <1>8, <1>9

(* The thread starts. *)
LEMMA StartStep == ASSUME LifeInv, NEW c \in Children, Start(c) PROVE LifeInv'
<1> USE LifeAssumption DEF LifeInv, Actors
<1>1. thr[c].pc = "start"
  BY DEF Start, At
<1>2. /\ thr' = [thr EXCEPT ![c] = [pc |-> "run", on |-> c]]
      /\ running' = running /\ kid' = kid /\ token' = token
  BY DEF Start, Go
<1>3. Types'
  BY <1>1, <1>2 DEF Types, PCs
<1>4. NativeInv'
  BY <1>1, <1>2 DEF Types, PCs, Kids, NativeInv, Unborn, Over
<1>5. HandleInv'
  BY <1>1, <1>2 DEF Types, PCs, Kids, HandleInv, WorkInv, Unborn
<1>6. WorkInv'
  BY <1>1, <1>2 DEF Types, PCs, Kids, HandleInv, WorkInv, Unborn
<1>7. RefsInv'
  BY <1>1, <1>2
     DEF Types, PCs, Kids, NativeInv, HandleInv, WorkInv, RefsInv, Consuming, Past, Over, Unborn
<1>8. CountInv'
  <2>1. \A b \in Actors : (thr'[b].pc = "drop" /\ thr'[b].on \in Scoped)
                        <=> (thr[b].pc = "drop" /\ thr[b].on \in Scoped)
    BY <1>1, <1>2 DEF Types
  <2>2. QED
    BY <1>2, <2>1, CountKept
<1>9. ReturnInv'
  BY <1>1, <1>2 DEF ReturnInv, At, Types
<1>10. QED
  BY <1>3, <1>4, <1>5, <1>6, <1>7, <1>8, <1>9

(* Main leaves its closure, looks at the count, or is woken. *)
LEMMA MainStep == ASSUME LifeInv, EndOfClosure \/ Check \/ Park PROVE LifeInv'
<1> USE LifeAssumption DEF LifeInv, Actors
<1>1. thr[Main].pc \in {"run", "check", "parked"} /\ Main \in Actors
  BY DEF EndOfClosure, Check, Park, At
<1>2. \E l \in {"check", "parked", "returned"} :
         /\ thr' = [thr EXCEPT ![Main] = [pc |-> l, on |-> Main]] /\ (l = "returned" => running = 0)
         /\ running' = running /\ kid' = kid /\ token' \in BOOLEAN
  BY DEF EndOfClosure, Check, Park, Go, Types
<1>3. Types'
  BY <1>1, <1>2 DEF Types, PCs
<1>4. NativeInv'
  BY <1>1, <1>2 DEF Types, PCs, Kids, NativeInv, Unborn, Over
<1>5. HandleInv'
  BY <1>1, <1>2 DEF Types, PCs, Kids, HandleInv, WorkInv, Unborn
<1>6. WorkInv'
  BY <1>1, <1>2 DEF Types, PCs, Kids, HandleInv, WorkInv, Unborn
<1>7. RefsInv'
  BY <1>1, <1>2
     DEF Types, PCs, Kids, NativeInv, HandleInv, WorkInv, RefsInv, Consuming, Past, Over, Unborn
<1>8. CountInv'
  <2>1. \A b \in Actors : (thr'[b].pc = "drop" /\ thr'[b].on \in Scoped)
                        <=> (thr[b].pc = "drop" /\ thr[b].on \in Scoped)
    BY <1>1, <1>2 DEF Types
  <2>2. QED
    BY <1>2, <2>1, CountKept
<1>9. ReturnInv'
  <2>1. ASSUME running = 0 PROVE Packets = {}
    <3>1. Cardinality(Packets) \in Nat /\ Cardinality(Dropping) \in Nat
      BY CountedFinite, FS_CardinalityType
    <3>2. QED
      BY <2>1, <3>1, CountedFinite, FS_EmptySet DEF CountInv
  <2>2. running = 0 => \A c \in Scoped : kid[c].refs = {}
    BY <2>1 DEF Packets
  <2>3. QED
    BY <1>1, <1>2, <2>2 DEF ReturnInv, At, Types
<1>10. QED
  BY <1>3, <1>4, <1>5, <1>6, <1>7, <1>8, <1>9

(* Every reachable state satisfies the inductive invariant. *)
THEOREM LifeInvariant == Spec => []LifeInv
<1>1. LifeInv /\ [Next]_vars => LifeInv'
  <2> SUFFICES ASSUME LifeInv, [Next]_vars PROVE LifeInv'
    OBVIOUS
  <2>1. CASE UNCHANGED vars
    BY <2>1
       DEF vars, LifeInv, Types, NativeInv, HandleInv, WorkInv, RefsInv, CountInv, Packets,
           Dropping,
       ReturnInv, Unborn, Over, Past, Consuming, At
  <2>2. CASE EndOfClosure \/ Check \/ Park
    BY <2>2, MainStep
  <2>3. ASSUME NEW a \in Actors, NEW c \in Children, Spawn(a, c) \/ Consume(a, c) PROVE LifeInv'
    BY <2>3, SpawnStep, JoinStep, DetachStep DEF Consume
  <2>4. ASSUME NEW a \in Actors, Step(a) PROVE LifeInv'
    <3>1. CASE a \in Children /\ (Start(a) \/ Finish(a) \/ DropTheirs(a) \/ End(a))
      BY <3>1, StartStep, FinishStep, DropTheirsStep, DropTheirsLastStep, EndStep
    <3>2. CASE NativeNew(a) \/ NativeFails(a) \/ DropPacket(a) \/ UnparkMain(a) \/ Joined(a) \/ DropMine(a)
      <4>1. thr[a].pc \in {"native", "drop", "unpark", "join", "drop_mine"}
        BY <3>2 DEF NativeNew, NativeFails, DropPacket, UnparkMain, Joined, DropMine, At
      <4>2. PICK c \in Children : thr[a].on = c
        BY <4>1 DEF LifeInv, WorkInv
      <4>3. QED
        BY <3>2, <4>2, NativeNewStep, NativeFailsStep, DropPacketStep, UnparkStep, JoinedStep,
           DropMineStep,
           DropMineLastStep
    <3>3. QED
      BY <2>4, <3>1, <3>2 DEF Step
  <2>5. QED
    BY <2>1, <2>2, <2>3, <2>4 DEF Next
<1>2. QED
  BY <1>1, LifeInit, PTL DEF Spec

-----------------------------------------------------------------------------

(* The types hold, and the scope's count is that of the packets that exist. *)
THEOREM PacketsCounted == Spec => []TypeOK
<1>1. LifeInv => TypeOK
  <2> SUFFICES ASSUME LifeInv PROVE TypeOK
    OBVIOUS
  <2>1. running = Cardinality({c \in Scoped : kid[c].refs # {}})
                + Cardinality({a \in Actors : At(a, "drop") /\ thr[a].on \in Scoped})
    BY DEF LifeInv, CountInv, Packets, Dropping
  <2>2. QED
    BY <2>1 DEF LifeInv, Types, Kids, TypeOK
<1>2. QED
  BY <1>1, LifeInvariant, PTL

(* When thread::scope has returned, no scoped thread is being made, runs its *)
(* closure, or has left a result, however its handle ended.                  *)
THEOREM ScopeContains == Spec => []ScopeContained
<1>1. LifeInv => ScopeContained
  BY LifeAssumption
     DEF LifeInv, Types, Kids, NativeInv, RefsInv, ReturnInv, ScopeContained, Past, Unborn, Over,
         At, Actors
<1>2. QED
  BY <1>1, LifeInvariant, PTL

(* join finds the last reference and a result, and is_finished is right.     *)
THEOREM JoinFindsResult == Spec => []ResultReady
<1>1. LifeInv => ResultReady
  BY LifeAssumption
     DEF LifeInv, Types, Kids, NativeInv, HandleInv, RefsInv, ResultReady, Consuming, Past, Unborn,
     Over, Actors
<1>2. QED
  BY <1>1, LifeInvariant, PTL

(* A pthread is joined or detached once, and never after it was reclaimed.   *)
THEOREM PthreadOwned == Spec => []NativeOwned
<1>1. LifeInv => NativeOwned
  BY DEF LifeInv, HandleInv, WorkInv, NativeOwned, At
<1>2. QED
  BY <1>1, LifeInvariant, PTL
=============================================================================
