----------------------------- MODULE Allocator ------------------------------
(***************************************************************************)
(* The global allocator of sys/alloc/aros.rs over posixc (external).       *)
(* malloc and realloc align a block as far as its size asks, up to         *)
(* MinAlign; a block of posix_memalign is a pointer into a larger one,     *)
(* which free recognises and realloc does not.  What the blocks hold is    *)
(* left out.                                                               *)
(***************************************************************************)
EXTENDS Integers

CONSTANTS
    Blocks,     \* what the heap has room for
    Sizes, Aligns,
    MinAlign,   \* MIN_ALIGN
    Word,       \* size_of::<usize>()
    Null

ASSUME HeapAssumption ==
    /\ Sizes \subseteq Nat \ {0} /\ Aligns \subseteq Nat \ {0}
    /\ MinAlign \in Nat \ {0} /\ Word \in Nat \ {0}
    /\ Null \notin Blocks /\ Null \notin [size : Sizes, align : Aligns] /\ Null \notin {"malloc", "memalign"}

\* Alignments are powers of two, as MIN_ALIGN and the size of a word are.
ASSUME PowersOfTwo == \A a \in Aligns :
    /\ a <= MinAlign => MinAlign % a = 0
    /\ a <= Word => Word % a = 0
    /\ a > Word => a % Word = 0

VARIABLES
    from,      \* the function each block came from, Null if it is free
    aligned,   \* the alignment of its address
    layout,    \* the Layout of the blocks the program holds
    corrupt,   \* realloc was given a pointer that is not malloc's
    ret        \* what the last call returned

vars == <<from, aligned, layout, corrupt, ret>>

Free == {b \in Blocks : from[b] = Null}
Held == {b \in Blocks : layout[b] # Null}

Init ==
    /\ from = [b \in Blocks |-> Null] /\ aligned = [b \in Blocks |-> 1]
    /\ layout = [b \in Blocks |-> Null]
    /\ corrupt = FALSE /\ ret = Null

MutSmall(l) == l.align <= l.size

\* The test that alloc, alloc_zeroed and realloc make on the block's layout.
Small(l) == l.align <= MinAlign /\ l.align <= l.size

MutMemalign(l) == l.align

\* The alignment aligned_malloc asks for; not a multiple of Word is EINVAL.
Memalign(l) == IF l.align > Word THEN l.align ELSE Word

\* How malloc and realloc may align n bytes: "only rely on MIN_ALIGN if size
\* >= align" (sys/alloc/unix.rs, whose test this one mirrors).
MallocAligns(n) ==
    {g \in Aligns \cup {1, MinAlign} : \A a \in Aligns : a <= MinAlign /\ a <= n => g % a = 0}

\* Where a request for l comes from, and how it may be aligned.
Origin(l) == IF Small(l) THEN "malloc" ELSE "memalign"
Alignments(l) == IF Small(l) THEN MallocAligns(l.size) ELSE {Memalign(l)}

Served(l) == Free # {} /\ (Small(l) \/ Memalign(l) % Word = 0)

Fails(l) == ~Served(l) /\ ret' = Null /\ UNCHANGED <<from, aligned, layout>>

\* alloc, and alloc_zeroed, which clears the block by calloc or by itself.
Alloc(l) ==
    /\ \/ Fails(l)
       \/ /\ Served(l)
          /\ \E b \in Free, a \in Alignments(l) :
              /\ from' = [from EXCEPT ![b] = Origin(l)]
              /\ aligned' = [aligned EXCEPT ![b] = a]
              /\ layout' = [layout EXCEPT ![b] = l] /\ ret' = b
    /\ UNCHANGED corrupt

Dealloc(b) ==
    /\ b \in Held
    /\ from' = [from EXCEPT ![b] = Null] /\ aligned' = [aligned EXCEPT ![b] = 1]
    /\ layout' = [layout EXCEPT ![b] = Null] /\ ret' = b /\ UNCHANGED corrupt

\* b gives way to c, which is b itself where a block is resized in place.
Move(b, c, l, origin, al) ==
    /\ from' = [from EXCEPT ![b] = Null, ![c] = origin]
    /\ aligned' = [aligned EXCEPT ![b] = 1, ![c] = al]
    /\ layout' = [layout EXCEPT ![b] = Null, ![c] = l]
    /\ ret' = c

\* c::realloc (external): in place, moved, or NULL with the block unchanged.
CRealloc(b, l) ==
    /\ corrupt' = (corrupt \/ from[b] # "malloc")
    /\ \/ Free = {} /\ ret' = Null /\ UNCHANGED <<from, aligned, layout>>
       \/ Move(b, b, l, "malloc", aligned[b])
       \/ \E c \in Free, a \in MallocAligns(l.size) : Move(b, c, l, "malloc", a)

\* realloc_fallback: a new block, the contents copied, the old one freed.
Fallback(b, l) ==
    /\ \/ Fails(l)
       \/ Served(l) /\ \E c \in Free, a \in Alignments(l) : Move(b, c, l, Origin(l), a)
    /\ UNCHANGED corrupt

MutRealloc(b, n) ==
    LET l == [size |-> n, align |-> layout[b].align] IN
    b \in Held /\ IF Small(l) THEN CRealloc(b, l) ELSE Fallback(b, l)

Realloc(b, n) ==
    LET l == [size |-> n, align |-> layout[b].align] IN
    b \in Held /\ IF Small(layout[b]) THEN CRealloc(b, l) ELSE Fallback(b, l)

Layouts == [size : Sizes, align : Aligns]

Next ==
    \/ \E l \in Layouts : Alloc(l)
    \/ \E b \in Blocks : Dealloc(b) \/ \E n \in Sizes : Realloc(b, n)

Spec == Init /\ [][Next]_vars

-----------------------------------------------------------------------------
(* Properties *)

\* The types; the heap's blocks in use are the ones the program holds.
TypeOK ==
    /\ from \in [Blocks -> {Null, "malloc", "memalign"}] /\ aligned \in [Blocks -> Nat \ {0}]
    /\ layout \in [Blocks -> Layouts \cup {Null}]
    /\ corrupt \in BOOLEAN /\ ret \in Blocks \cup {Null}
    /\ Held = Blocks \ Free

\* "Only a block that actually came from `malloc` may be handed to `realloc`",
\* after any number of resizes across the two kinds.
HeapIntact == ~corrupt

\* Every block is aligned as its layout asks, the resized ones included, except
\* one that came from malloc and was shrunk below its alignment: realloc's test
\* on the old layout sends it to c::realloc, which may move it anywhere.
AlignedUnlessShrunk == \A b \in Held :
    \/ aligned[b] % layout[b].align = 0
    \/ from[b] = "malloc" /\ layout[b].size < layout[b].align

\* A request fails only when the heap is full: posix_memalign is never asked
\* for an alignment it refuses.
FailsOnlyFull == [][ret' = Null => Free = {}]_vars
=============================================================================
