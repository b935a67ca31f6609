----------------------------- MODULE TlsStorage -----------------------------
(***************************************************************************)
(* The thread_local! variables of one thread: Storage::get, recursive      *)
(* initialization and destroy_value of sys/thread_local/os.rs, over the    *)
(* keys that LazyKey shows to be one per variable.  Initializers, closures *)
(* and destructors are the program's, and use further variables while they *)
(* run: the stack says who runs inside whom.  A panic aborts the program.  *)
(* Tls marks the names LazyKey has too: ThreadLocalProof extends both.     *)
(***************************************************************************)
EXTENDS Naturals, Sequences

CONSTANTS
    Vars,       \* the variables
    Blocks,     \* the addresses of their values
    DropUses,   \* <<v, w>> if the destructor of v's values may use w
    MaxRounds,  \* PTHREAD_DESTRUCTOR_ITERATIONS
    MaxDepth,   \* bound on the stack
    Null, One   \* the null pointer, and the sentinel 1

ASSUME TlsAssumption ==
    /\ DropUses \subseteq Vars \X Vars /\ MaxRounds \in Nat
    /\ Null # One /\ {Null, One} \cap Blocks = {}

VARIABLES
    slot,    \* what the thread's keys hold
    alive,   \* the values that exist
    stack,   \* what runs: initializers, closures of `with`, destructors
    phase,   \* of the thread
    round,   \* of its destructors
    due      \* the keys the round has yet to look at

tlsVars == <<slot, alive, stack, phase, round, due>>
exit == <<phase, round, due>>

TlsInit ==
    /\ slot = [v \in Vars |-> Null] /\ alive = {} /\ stack = << >>
    /\ phase = "runs" /\ round = 0 /\ due = {}

Frame(k, v, b, new) == [k |-> k, v |-> v, b |-> b, new |-> new]
Push(f) == stack' = Append(stack, f)
Pop == stack' = SubSeq(stack, 1, Len(stack) - 1)
Top == stack[Len(stack)]
Replace(f) == stack' = [stack EXCEPT ![Len(stack)] = f]
Runs(k) == stack # << >> /\ Top.k = k

\* The program's code runs, and is free to use v (external).
MayUse(v) ==
    /\ phase = "runs" \/ stack # << >>
    /\ Len(stack) < MaxDepth
    /\ \A i \in 1..Len(stack) : stack[i].k = "drop" => <<stack[i].v, v>> \in DropUses

\* Storage::get: with the value, or its initializer first; the sentinel makes it
\* an AccessError, which changes nothing.
Get(v) ==
    /\ MayUse(v) /\ slot[v] # One
    /\ Push(IF slot[v] # Null THEN Frame("with", v, slot[v], Null) ELSE Frame("init", v, Null, Null))
    /\ UNCHANGED <<slot, alive, exit>>

\* initialize_with, from `set`: the value is at hand, no initializer runs.
InitializeWith(v, b) ==
    /\ MayUse(v) /\ slot[v] = Null /\ b \in Blocks \ alive
    /\ slot' = [slot EXCEPT ![v] = b] /\ alive' = alive \cup {b}
    /\ Push(Frame("with", v, b, Null)) /\ UNCHANGED exit

MutStore(b) ==
    /\ Runs("init") /\ b \in Blocks \ alive
    /\ slot' = [slot EXCEPT ![Top.v] = b] /\ alive' = alive \cup {b}
    /\ Replace(Frame("with", Top.v, b, Null))
    /\ UNCHANGED exit

\* try_initialize after the initializer: store the value, drop what a recursive
\* initialization has stored in the meantime.
Store(b) ==
    LET old == slot[Top.v] IN
    /\ Runs("init") /\ b \in Blocks \ alive
    /\ slot' = [slot EXCEPT ![Top.v] = b] /\ alive' = alive \cup {b}
    /\ Replace(IF old = Null THEN Frame("with", Top.v, b, Null) ELSE Frame("drop", Top.v, old, b))
    /\ UNCHANGED exit

WithDone == Runs("with") /\ Pop /\ UNCHANGED <<slot, alive, exit>>

MutOldDropped ==
    /\ Runs("drop") /\ Top.new # Null
    /\ alive' = alive \ {Top.b} /\ Replace(Frame("with", Top.v, Top.b, Null))
    /\ UNCHANGED <<slot, exit>>

\* The old value is gone; try_initialize returns the new one.
OldDropped ==
    /\ Runs("drop") /\ Top.new # Null
    /\ alive' = alive \ {Top.b} /\ Replace(Frame("with", Top.v, Top.new, Null))
    /\ UNCHANGED <<slot, exit>>

\* pthread's end of the thread (external): rounds over the keys that have a
\* value, each set to null before its destructor is called.
Exit ==
    /\ phase = "runs" /\ stack = << >>
    /\ phase' = "exits" /\ round' = 1 /\ due' = Vars
    /\ UNCHANGED <<slot, alive, stack>>

NextRound ==
    /\ phase = "exits" /\ stack = << >> /\ due = {}
    /\ \/ /\ round < MaxRounds /\ \E v \in Vars : slot[v] # Null
          /\ round' = round + 1 /\ due' = Vars /\ UNCHANGED phase
       \/ /\ round = MaxRounds \/ \A v \in Vars : slot[v] = Null
          /\ phase' = "ended" /\ UNCHANGED <<round, due>>
    /\ UNCHANGED <<slot, alive, stack>>

MutDestroyValue(v) ==
    /\ phase = "exits" /\ stack = << >> /\ v \in due /\ due' = due \ {v}
    /\ IF slot[v] = Null THEN UNCHANGED <<slot, stack>>
       ELSE slot' = [slot EXCEPT ![v] = Null] /\ Push(Frame("drop", v, slot[v], Null))
    /\ UNCHANGED <<alive, phase, round>>

\* destroy_value: the sentinel while the value is dropped.
DestroyValue(v) ==
    /\ phase = "exits" /\ stack = << >> /\ v \in due /\ due' = due \ {v}
    /\ IF slot[v] = Null THEN UNCHANGED <<slot, stack>>
       ELSE slot' = [slot EXCEPT ![v] = One] /\ Push(Frame("drop", v, slot[v], Null))
    /\ UNCHANGED <<alive, phase, round>>

\* It is dropped: null again, so that the next round leaves it alone.
Destroyed ==
    /\ Runs("drop") /\ Top.new = Null
    /\ alive' = alive \ {Top.b} /\ slot' = [slot EXCEPT ![Top.v] = Null]
    /\ Pop /\ UNCHANGED exit

TlsNext ==
    \/ \E v \in Vars : Get(v) \/ DestroyValue(v) \/ \E b \in Blocks : InitializeWith(v, b)
    \/ \E b \in Blocks : Store(b)
    \/ WithDone \/ OldDropped \/ Destroyed \/ Exit \/ NextRound

TlsSpec == TlsInit /\ [][TlsNext]_tlsVars

-----------------------------------------------------------------------------
(* Properties *)

\* "Therefore, there can be no references to the old value": what a closure uses
\* is the value in the slot, however initializers and destructors are nested.
UseLive == \A i \in 1..Len(stack) :
    stack[i].k = "with" => stack[i].b \in alive /\ slot[stack[i].v] = stack[i].b

\* A value that is dropped exists, is dropped once, and nobody gets it then.  At
\* the thread's end nobody gets another one either: whatever the destructor calls,
\* "if the TLS variable has been destroyed, a null pointer is returned".
DroppedAlone == \A i, j \in 1..Len(stack) :
    stack[i].k = "drop" =>
        /\ stack[i].b \in alive
        /\ \A v \in Vars : slot[v] # stack[i].b
        /\ stack[j].k = "drop" /\ stack[j].b = stack[i].b => i = j
        /\ stack[i].new = Null /\ i < j => stack[j].v # stack[i].v

\* No value outlives its thread, if the uses of *other* variables among destructors
\* have no cycle; and none exists that is not in a slot or being dropped.
AllDropped ==
    /\ phase = "ended" => alive = {}
    /\ \A b \in alive : (\E v \in Vars : slot[v] = b) \/ \E i \in 1..Len(stack) : stack[i].b = b
=============================================================================
