--------------------------- MODULE AllocatorProof ---------------------------
(***************************************************************************)
(* Allocator's properties for every heap and every set of layouts.  The    *)
(* inductive invariant adds to them the fact that the code's comment asks  *)
(* for: the test on a block's present layout tells where it came from.     *)
(***************************************************************************)
EXTENDS Allocator, TLAPS

\* A block whose layout passes the test is malloc's; the converse fails, since
\* realloc may shrink a malloc block below its alignment.
TestTells == \A b \in Held : Small(layout[b]) => from[b] = "malloc"

IInv == TypeOK /\ HeapIntact /\ AlignedUnlessShrunk /\ TestTells

\* aligned_malloc's request is a multiple of the layout's alignment and of the
\* word, so posix_memalign serves it, whatever the layout.
LEMMA MemalignFits ==
    ASSUME NEW l \in Layouts
    PROVE  /\ Memalign(l) \in Nat \ {0} /\ Memalign(l) % Word = 0 /\ Memalign(l) % l.align = 0
           /\ \A a \in Alignments(l) : a \in Nat \ {0} /\ a % l.align = 0
<1>1. l.align \in Aligns /\ l.align \in Nat \ {0} /\ l.size \in Nat
  BY HeapAssumption DEF Layouts
<1>2. Word % Word = 0 /\ l.align % l.align = 0
  BY <1>1, HeapAssumption
<1>3. Memalign(l) \in Nat \ {0} /\ Memalign(l) % Word = 0 /\ Memalign(l) % l.align = 0
  BY <1>1, <1>2, PowersOfTwo, HeapAssumption DEF Memalign
<1> QED
  BY <1>1, <1>3, HeapAssumption DEF Alignments, MallocAligns, Small

\* A resized or copied block replaces the old one in every part of the invariant.
LEMMA MoveKeeps ==
    ASSUME IInv, NEW b \in Held, NEW c \in Free \cup {b}, NEW l \in Layouts,
           NEW o \in {"malloc", "memalign"}, NEW al \in Nat \ {0},
           Small(l) => o = "malloc",
           al % l.align = 0 \/ (o = "malloc" /\ l.size < l.align),
           Move(b, c, l, o, al), corrupt' = FALSE
    PROVE  IInv'
<1>0. /\ from' = [from EXCEPT ![b] = Null, ![c] = o]
      /\ aligned' = [aligned EXCEPT ![b] = 1, ![c] = al]
      /\ layout' = [layout EXCEPT ![b] = Null, ![c] = l]
      /\ ret' = c /\ b \in Blocks /\ c \in Blocks
  BY DEF Move, Held, Free
<1>1. /\ from \in [Blocks -> {Null, "malloc", "memalign"}] /\ aligned \in [Blocks -> Nat \ {0}]
      /\ layout \in [Blocks -> Layouts \cup {Null}]
      /\ \A d \in Blocks : layout[d] # Null <=> from[d] # Null
  BY DEF IInv, TypeOK, Held, Free
<1>2. /\ from' \in [Blocks -> {Null, "malloc", "memalign"}] /\ aligned' \in [Blocks -> Nat \ {0}]
      /\ layout' \in [Blocks -> Layouts \cup {Null}]
  BY <1>0, <1>1
<1>3. /\ from'[c] = o /\ layout'[c] = l /\ aligned'[c] = al
      /\ \A d \in Blocks \ {c} : layout'[d] # Null => d # b /\ layout[d] # Null
            /\ layout'[d] = layout[d] /\ from'[d] = from[d] /\ aligned'[d] = aligned[d]
      /\ \A d \in Blocks \ {c} : layout'[d] # Null <=> from'[d] # Null
  BY <1>0, <1>1
<1>4. l # Null /\ o # Null
  BY HeapAssumption DEF Layouts
<1>5. Held' = Blocks \ Free'
  BY <1>3, <1>4 DEF Held, Free
<1>6. TypeOK'
  BY <1>0, <1>2, <1>5 DEF IInv, TypeOK
<1>7. AlignedUnlessShrunk'
  BY <1>0, <1>3 DEF IInv, AlignedUnlessShrunk, Held
<1>8. TestTells'
  BY <1>0, <1>3 DEF IInv, TestTells, Held
<1> QED
  BY <1>6, <1>7, <1>8 DEF IInv, HeapIntact

\* Every call keeps the invariant.
LEMMA AllocatorStep == IInv /\ [Next]_vars => IInv'
<1> SUFFICES ASSUME IInv, [Next]_vars PROVE IInv'
  OBVIOUS
<1>1. CASE UNCHANGED vars
  BY <1>1 DEF IInv, TypeOK, HeapIntact, AlignedUnlessShrunk, TestTells, Held, Free, vars
<1>2. ASSUME NEW l \in Layouts, Fails(l), UNCHANGED corrupt PROVE IInv'
  BY <1>2 DEF Fails, IInv, TypeOK, HeapIntact, AlignedUnlessShrunk, TestTells, Held, Free
<1>3. ASSUME NEW l \in Layouts, Alloc(l) PROVE IInv'
  <2>1. CASE Fails(l)
    BY <1>2, <1>3, <2>1 DEF Alloc
  <2>2. CASE ~Fails(l)
    <3>1. PICK b \in Free, a \in Alignments(l) :
            /\ from' = [from EXCEPT ![b] = Origin(l)] /\ aligned' = [aligned EXCEPT ![b] = a]
            /\ layout' = [layout EXCEPT ![b] = l] /\ ret' = b
      BY <1>3, <2>2 DEF Alloc
    <3>2. Origin(l) \in {"malloc", "memalign"} /\ (Small(l) => Origin(l) = "malloc")
      BY DEF Origin
    <3>3. a \in Nat \ {0} /\ a % l.align = 0 /\ l # Null /\ Origin(l) # Null
      BY <3>2, MemalignFits, HeapAssumption DEF Layouts
    <3>4. b \in Blocks /\ corrupt' = corrupt
      BY <1>3 DEF Free, Alloc
    <3>5. /\ from \in [Blocks -> {Null, "malloc", "memalign"}] /\ aligned \in [Blocks -> Nat \ {0}]
          /\ layout \in [Blocks -> Layouts \cup {Null}]
          /\ \A d \in Blocks : layout[d] # Null <=> from[d] # Null
      BY DEF IInv, TypeOK, Held, Free
    <3>6. /\ from'[b] = Origin(l) /\ layout'[b] = l /\ aligned'[b] = a
          /\ \A d \in Blocks \ {b} :
                layout'[d] = layout[d] /\ from'[d] = from[d] /\ aligned'[d] = aligned[d]
      BY <3>1, <3>4, <3>5
    <3>7. Held' = Blocks \ Free'
      BY <3>3, <3>5, <3>6 DEF Held, Free
    <3>8. TypeOK'
      BY <3>1, <3>2, <3>3, <3>4, <3>5, <3>7 DEF IInv, TypeOK
    <3>9. AlignedUnlessShrunk' /\ TestTells'
      BY <3>2, <3>3, <3>4, <3>6 DEF IInv, AlignedUnlessShrunk, TestTells, Held
    <3> QED
      BY <3>4, <3>8, <3>9 DEF IInv, HeapIntact
  <2> QED
    BY <2>1, <2>2
<1>4. ASSUME NEW b \in Blocks, Dealloc(b) PROVE IInv'
  <2>0. /\ from' = [from EXCEPT ![b] = Null] /\ aligned' = [aligned EXCEPT ![b] = 1]
        /\ layout' = [layout EXCEPT ![b] = Null] /\ ret' = b /\ corrupt' = corrupt
    BY <1>4 DEF Dealloc
  <2>1. TypeOK'
    BY <2>0 DEF IInv, TypeOK, Held, Free
  <2> QED
    BY <2>0, <2>1 DEF IInv, TypeOK, HeapIntact, AlignedUnlessShrunk, TestTells, Held
<1>5. ASSUME NEW b \in Blocks, NEW n \in Sizes, Realloc(b, n) PROVE IInv'
  <2> DEFINE l == [size |-> n, align |-> layout[b].align]
  <2>1. b \in Held /\ IF Small(layout[b]) THEN CRealloc(b, l) ELSE Fallback(b, l)
    BY <1>5 DEF Realloc
  <2>2. layout[b] \in Layouts /\ l \in Layouts /\ l.align = layout[b].align
    BY <2>1 DEF IInv, TypeOK, Held, Layouts
  <2> HIDE DEF l
  <2>3. CASE CRealloc(b, l) /\ Small(layout[b])
    <3>1. from[b] = "malloc" /\ corrupt' = FALSE
      <4>1. from[b] = "malloc" /\ corrupt' = (corrupt \/ from[b] # "malloc")
        BY <2>1, <2>3 DEF IInv, TestTells, CRealloc
      <4>2. corrupt = FALSE
        BY DEF IInv, TypeOK, HeapIntact
      <4> QED
        BY <4>1, <4>2
    <3>2. /\ aligned[b] \in Nat \ {0} /\ aligned[b] % l.align = 0
          /\ \A a \in MallocAligns(l.size) : a \in Nat \ {0} /\ (a % l.align = 0 \/ l.size < l.align)
      <4>1. /\ l.align \in Aligns /\ l.align \in Nat \ {0} /\ l.size \in Nat /\ l.align <= MinAlign
            /\ layout[b].size \in Nat /\ l.align <= layout[b].size
        BY <2>2, <2>3, HeapAssumption DEF Small, Layouts
      <4>2. aligned[b] \in Nat \ {0} /\ aligned[b] % l.align = 0
        BY <2>1, <2>2, <4>1 DEF IInv, TypeOK, AlignedUnlessShrunk, Held
      <4>3. ASSUME NEW a \in MallocAligns(l.size) PROVE a \in Nat \ {0} /\ (a % l.align = 0 \/ l.size < l.align)
        BY <4>1, HeapAssumption DEF MallocAligns
      <4> QED
        BY <4>2, <4>3
    <3>3. CASE ret' = Null /\ UNCHANGED <<from, aligned, layout>>
      BY <1>2, <3>1, <3>3 DEF IInv, TypeOK, HeapIntact, AlignedUnlessShrunk, TestTells, Held, Free
    <3>4. CASE Move(b, b, l, "malloc", aligned[b])
      BY <2>1, <2>2, <3>1, <3>2, <3>4, MoveKeeps
    <3>5. CASE \E c \in Free, a \in MallocAligns(l.size) : Move(b, c, l, "malloc", a)
      BY <2>1, <2>2, <3>1, <3>2, <3>5, MoveKeeps
    <3> QED
      BY <2>3, <3>3, <3>4, <3>5 DEF CRealloc
  <2>4. CASE Fallback(b, l)
    <3>1. CASE Fails(l)
      BY <1>2, <2>2, <2>4, <3>1 DEF Fallback
    <3>2. CASE \E c \in Free, a \in Alignments(l) : Move(b, c, l, Origin(l), a)
      <4>1. corrupt' = FALSE
        BY <2>4 DEF Fallback, IInv, TypeOK, HeapIntact
      <4>2. Origin(l) \in {"malloc", "memalign"} /\ (Small(l) => Origin(l) = "malloc")
        BY DEF Origin
      <4> QED
        BY <2>1, <2>2, <3>2, <4>1, <4>2, MoveKeeps, MemalignFits
    <3> QED
      BY <2>4, <3>1, <3>2 DEF Fallback
  <2> QED
    BY <2>1, <2>3, <2>4
<1> QED
  BY <1>1, <1>3, <1>4, <1>5 DEF Next

\* The empty heap satisfies it.
LEMMA AllocatorInit == Init => IInv
<1> SUFFICES ASSUME Init PROVE IInv
  OBVIOUS
<1>1. Held = {} /\ Free = Blocks
  BY DEF Init, Held, Free
<1>2. from \in [Blocks -> {Null, "malloc", "memalign"}] /\ aligned \in [Blocks -> Nat \ {0}]
  BY DEF Init
<1>3. layout \in [Blocks -> Layouts \cup {Null}] /\ corrupt = FALSE /\ ret = Null
  BY DEF Init
<1> QED
  BY <1>1, <1>2, <1>3 DEF IInv, TypeOK, HeapIntact, AlignedUnlessShrunk, TestTells

\* sys/alloc/aros.rs never hands realloc a block of posix_memalign, whatever
\* the sizes and alignments: HeapIntact holds of every behaviour.
THEOREM ReallocSound == Spec => []HeapIntact
<1>1. IInv => HeapIntact
  BY DEF IInv
<1> QED
  BY <1>1, AllocatorInit, AllocatorStep, PTL DEF Spec

\* Every block is aligned as its layout asks, except one that realloc has shrunk
\* below its alignment.
THEOREM BlocksAligned == Spec => []AlignedUnlessShrunk
<1>1. IInv => AlignedUnlessShrunk
  BY DEF IInv
<1> QED
  BY <1>1, AllocatorInit, AllocatorStep, PTL DEF Spec

\* The heap's blocks in use are exactly the ones the program holds.
THEOREM AllocatorTypes == Spec => []TypeOK
<1>1. IInv => TypeOK
  BY DEF IInv
<1> QED
  BY <1>1, AllocatorInit, AllocatorStep, PTL DEF Spec

\* A null pointer means a full heap: posix_memalign never refuses an alignment.
THEOREM NullMeansFull == Spec => FailsOnlyFull
<1>1. ASSUME IInv, [Next]_vars, ~(UNCHANGED vars), ret' = Null PROVE Free = {}
  <2>0. Null \notin Blocks /\ Free \subseteq Blocks
    BY HeapAssumption DEF Free
  <2>1. ASSUME NEW l \in Layouts, Fails(l) PROVE Free = {}
    BY <2>1, MemalignFits DEF Fails, Served
  <2>2. ASSUME NEW l \in Layouts, Alloc(l) PROVE Free = {}
    BY <1>1, <2>0, <2>1, <2>2 DEF Alloc
  <2>3. ASSUME NEW b \in Blocks, Dealloc(b) PROVE FALSE
    BY <1>1, <2>0, <2>3 DEF Dealloc
  <2>4. ASSUME NEW b \in Blocks, NEW n \in Sizes, Realloc(b, n) PROVE Free = {}
    <3> DEFINE l == [size |-> n, align |-> layout[b].align]
    <3>1. b \in Held /\ (CRealloc(b, l) \/ Fallback(b, l))
      BY <2>4 DEF Realloc
    <3>2. l \in Layouts
      BY <1>1, <3>1 DEF IInv, TypeOK, Held, Layouts
    <3> HIDE DEF l
    <3>3. \A c \in Free \cup {b} : \A o, al : ~Move(b, c, l, o, al)
      BY <1>1, <2>0 DEF Move
    <3> QED
      BY <2>1, <3>1, <3>2, <3>3 DEF CRealloc, Fallback
  <2> QED
    BY <1>1, <2>2, <2>3, <2>4 DEF Next
<1>2. IInv /\ [Next]_vars => [ret' = Null => Free = {}]_vars
  BY <1>1
<1> QED
  BY <1>2, AllocatorInit, AllocatorStep, PTL DEF Spec, FailsOnlyFull
=============================================================================
