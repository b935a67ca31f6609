-------------------------- MODULE ThreadLocalProof --------------------------
(***************************************************************************)
(* Proofs about the two halves of thread-local storage: LazyKey, for any   *)
(* number of threads and keys, and TlsStorage, for any number of variables *)
(* and values, any nesting and any number of rounds.                       *)
(***************************************************************************)
EXTENDS LazyKey, TlsStorage, TLAPS

-----------------------------------------------------------------------------
(* LazyKey *)

HoldsSentinel(t) == pc[t] \in {"again", "drop_first"}

\* What each thread holds at each point, and that no two hold the same key.
HoldInv ==
    /\ \A t \in Threads : pc[t] \in {"idle", "create", "using"} => mine[t] = NoKey
    /\ \A t \in Threads : pc[t] = "again" => mine[t] = KEY_SENTVAL
    /\ \A t \in Threads : HoldsSentinel(t) => KEY_SENTVAL \in Keys /\ user[KEY_SENTVAL] = "lazy"
    /\ \A t \in Threads : pc[t] \in {"drop_first", "publish", "lost"} =>
          /\ mine[t] \in Keys /\ mine[t] # KEY_SENTVAL /\ mine[t] # key
          /\ user[mine[t]] = "lazy"
    /\ \A t, u \in Threads : mine[t] # NoKey /\ mine[t] = mine[u] => t = u
    /\ \A t, u \in Threads : HoldsSentinel(t) /\ HoldsSentinel(u) => t = u

\* The published key, and what threads that lost or returned were told.
KeyInv ==
    /\ key # KEY_SENTVAL => key \in Keys /\ user[key] = "lazy"
    /\ \A t \in Threads : pc[t] \in {"lost", "using"} => ret[t] = key /\ key # KEY_SENTVAL

IInv == TypeOK /\ HoldInv /\ KeyInv /\ NoKeyLeaked

(* No key has been created yet. *)
LEMMA InitInv == Init => IInv
<1> SUFFICES ASSUME Init PROVE IInv
  OBVIOUS
<1> USE KeysAssumption DEF Init, KEY_SENTVAL
<1>1. TypeOK
  BY DEF TypeOK
<1>2. HoldInv
  BY DEF HoldInv, HoldsSentinel
<1>3. KeyInv /\ NoKeyLeaked
  BY DEF KeyInv, NoKeyLeaked
<1>4. QED
  BY <1>1, <1>2, <1>3 DEF IInv

(* Every step of a thread keeps the invariant. *)
LEMMA ThreadStep == ASSUME IInv, NEW t \in Threads, LazyInit(t) PROVE IInv'
<1> USE KeysAssumption DEF Goto, KEY_SENTVAL, HoldsSentinel, IInv
<1>1. CASE ForceKey(t)
  <2>1. TypeOK'
    BY <1>1 DEF ForceKey, TypeOK
  <2>2. HoldInv'
    BY <1>1 DEF ForceKey, TypeOK, HoldInv
  <2>3. KeyInv'
    BY <1>1 DEF ForceKey, TypeOK, KeyInv
  <2>4. NoKeyLeaked'
    BY <1>1 DEF ForceKey, TypeOK, NoKeyLeaked
  <2>5. QED
    BY <2>1, <2>2, <2>3, <2>4
<1>2. ASSUME NEW k \in Keys, CreateFirst(t, k) PROVE IInv'
  <2>1. TypeOK'
    BY <1>2 DEF CreateFirst, Create, TypeOK
  <2>2. HoldInv'
    BY <1>2 DEF CreateFirst, Create, TypeOK, HoldInv, KeyInv
  <2>3. KeyInv'
    BY <1>2 DEF CreateFirst, Create, TypeOK, KeyInv
  <2>4. NoKeyLeaked'
    BY <1>2 DEF CreateFirst, Create, TypeOK, NoKeyLeaked, HoldInv
  <2>5. QED
    BY <2>1, <2>2, <2>3, <2>4
<1>3. ASSUME NEW k \in Keys, CreateAgain(t, k) PROVE IInv'
  <2>1. TypeOK'
    BY <1>3 DEF CreateAgain, Create, TypeOK
  <2>2. HoldInv'
    BY <1>3 DEF CreateAgain, Create, TypeOK, HoldInv, KeyInv
  <2>3. KeyInv'
    BY <1>3 DEF CreateAgain, Create, TypeOK, KeyInv
  <2>4. NoKeyLeaked'
    BY <1>3 DEF CreateAgain, Create, TypeOK, NoKeyLeaked, HoldInv
  <2>5. QED
    BY <2>1, <2>2, <2>3, <2>4
<1>4. CASE DestroyFirst(t)
  <2>1. TypeOK'
    BY <1>4 DEF DestroyFirst, Destroy, TypeOK, HoldInv
  <2>2. HoldInv'
    BY <1>4 DEF DestroyFirst, Destroy, TypeOK, HoldInv
  <2>3. KeyInv'
    BY <1>4 DEF DestroyFirst, Destroy, TypeOK, KeyInv
  <2>4. NoKeyLeaked'
    BY <1>4 DEF DestroyFirst, Destroy, TypeOK, NoKeyLeaked, HoldInv
  <2>5. QED
    BY <2>1, <2>2, <2>3, <2>4
<1>5. CASE OutOfKeys(t)
  BY <1>5 DEF OutOfKeys, TypeOK, HoldInv, KeyInv, NoKeyLeaked
<1>6. CASE Publish(t) /\ key = KEY_SENTVAL
  <2>0. /\ mine[t] \in Keys /\ mine[t] # KEY_SENTVAL /\ user[mine[t]] = "lazy"
        /\ pc[t] = "publish" /\ key' = mine[t] /\ ret' = [ret EXCEPT ![t] = mine[t]]
        /\ mine' = [mine EXCEPT ![t] = NoKey] /\ pc' = [pc EXCEPT ![t] = "using"]
        /\ UNCHANGED <<user, aborted>> /\ key = KEY_SENTVAL
    BY <1>6 DEF Publish, HoldInv
  <2>1. TypeOK'
    BY <2>0 DEF TypeOK
  <2>2. HoldInv'
    BY <2>0 DEF TypeOK, HoldInv
  <2>3. KeyInv'
    BY <2>0 DEF TypeOK, KeyInv, HoldInv
  <2>4. NoKeyLeaked'
    BY <2>0 DEF TypeOK, NoKeyLeaked, HoldInv
  <2>5. QED
    BY <2>1, <2>2, <2>3, <2>4
<1>7. CASE Publish(t) /\ key # KEY_SENTVAL
  <2>0. /\ mine[t] \in Keys /\ pc[t] = "publish" /\ key # KEY_SENTVAL
        /\ ret' = [ret EXCEPT ![t] = key] /\ pc' = [pc EXCEPT ![t] = "lost"]
        /\ UNCHANGED <<key, mine, user, aborted>>
    BY <1>7 DEF Publish, HoldInv
  <2>1. TypeOK'
    BY <2>0 DEF TypeOK
  <2>2. HoldInv'
    BY <2>0 DEF TypeOK, HoldInv
  <2>3. KeyInv'
    BY <2>0 DEF TypeOK, KeyInv, HoldInv
  <2>4. NoKeyLeaked'
    BY <2>0 DEF TypeOK, NoKeyLeaked, HoldInv
  <2>5. QED
    BY <2>1, <2>2, <2>3, <2>4
<1>8. CASE DestroyMine(t)
  <2>1. TypeOK'
    BY <1>8 DEF DestroyMine, Destroy, TypeOK
  <2>2. HoldInv'
    BY <1>8 DEF DestroyMine, Destroy, TypeOK, HoldInv
  <2>3. KeyInv'
    BY <1>8 DEF DestroyMine, Destroy, TypeOK, KeyInv, HoldInv
  <2>4. NoKeyLeaked'
    BY <1>8 DEF DestroyMine, Destroy, TypeOK, NoKeyLeaked, HoldInv
  <2>5. QED
    BY <2>1, <2>2, <2>3, <2>4
<1>9. CASE Access(t)
  BY <1>9 DEF Access, TypeOK, HoldInv, KeyInv, NoKeyLeaked
<1>10. QED
  BY <1>1, <1>2, <1>3, <1>4, <1>5, <1>6, <1>7, <1>8, <1>9 DEF LazyInit

(* The other users of the pool never touch a key of this LazyKey. *)
LEMMA OtherStep == ASSUME IInv, NEW k \in Keys, OtherUser(k) PROVE IInv'
<1> USE KeysAssumption DEF KEY_SENTVAL, HoldsSentinel, IInv, OtherUser
<1>1. TypeOK'
  BY DEF TypeOK
<1>2. HoldInv'
  BY DEF TypeOK, HoldInv
<1>3. KeyInv'
  BY DEF TypeOK, KeyInv
<1>4. NoKeyLeaked'
  BY DEF TypeOK, NoKeyLeaked
<1>5. QED
  BY <1>1, <1>2, <1>3, <1>4

(* Every reachable state satisfies the inductive invariant. *)
THEOREM InvariantHolds == Spec => []IInv
<1>1. IInv /\ [Next]_vars => IInv'
  <2> SUFFICES ASSUME IInv, [Next]_vars PROVE IInv'
    OBVIOUS
  <2>1. CASE Next
    BY <2>1, ThreadStep, OtherStep DEF Next
  <2>2. CASE UNCHANGED vars
    BY <2>2 DEF vars, IInv, TypeOK, HoldInv, HoldsSentinel, KeyInv, NoKeyLeaked
  <2>3. QED
    BY <2>1, <2>2
<1>2. QED
  BY <1>1, InitInv, PTL DEF Spec

(* All threads use the one published, allocated key.                       *)
THEOREM LazyKeySafe == Spec => [](TypeOK /\ KeysAgree)
<1>1. IInv => TypeOK /\ KeysAgree
  BY DEF IInv, KeyInv, KeysAgree
<1>2. QED
  BY <1>1, InvariantHolds, PTL

(* A thread that loses the race gives its key back: every key that exists  *)
(* is the published one or still in the hands of the thread that made it.  *)
THEOREM LosersGiveBack == Spec => []NoKeyLeaked
<1>1. IInv => NoKeyLeaked
  BY DEF IInv
<1>2. QED
  BY <1>1, InvariantHolds, PTL

-----------------------------------------------------------------------------
(* TlsStorage *)

Frames == [k : {"init", "with", "drop"}, v : Vars, b : Blocks \cup {Null}, new : Blocks \cup {Null}]

TlsTypes ==
    /\ slot \in [Vars -> Blocks \cup {Null, One}]
    /\ alive \in SUBSET Blocks
    /\ stack \in Seq(Frames)
    /\ phase \in {"runs", "exits", "ended"} /\ round \in Nat /\ due \in SUBSET Vars

\* A value is in at most one slot, and what is in a slot exists.
SlotInv ==
    /\ \A v \in Vars : slot[v] \in Blocks => slot[v] \in alive
    /\ \A v, w \in Vars : slot[v] = slot[w] /\ slot[v] \in Blocks => v = w

\* A frame that needs the value it found or stored to stay in the slot.
Holds(f) == f.k = "with" \/ (f.k = "drop" /\ f.new # Null)

\* What each frame relies on.
FrameInv == \A i \in 1..Len(stack) : LET f == stack[i] IN
    /\ f.k = "init" => slot[f.v] # One
    /\ f.k = "with" => f.b \in Blocks /\ slot[f.v] = f.b
    /\ f.k = "drop" => f.b \in alive /\ \A v \in Vars : slot[v] # f.b
    /\ f.k = "drop" /\ f.new # Null => slot[f.v] = f.new
    /\ f.k = "drop" /\ f.new = Null => i = 1 /\ phase = "exits" /\ slot[f.v] = One

\* No initializer of a variable runs inside a use of its value: it would replace
\* the value.  And no value is dropped twice.
NestInv == \A i, j \in 1..Len(stack) :
    /\ i < j /\ Holds(stack[i]) /\ stack[j].k = "init" => stack[i].v # stack[j].v
    /\ stack[i].k = "drop" /\ stack[j].k = "drop" /\ stack[i].b = stack[j].b => i = j

\* The sentinel stands for the one value that the thread's end is dropping.
SentinelInv ==
    /\ \A v \in Vars : slot[v] = One =>
          Len(stack) > 0 /\ stack[1].k = "drop" /\ stack[1].new = Null /\ stack[1].v = v
    /\ phase = "exits" /\ Len(stack) > 0 => stack[1].k = "drop" /\ stack[1].new = Null
    /\ phase = "ended" => Len(stack) = 0

\* Every value is in a slot or being dropped.
Accounted == \A b \in alive :
    (\E v \in Vars : slot[v] = b) \/ \E i \in 1..Len(stack) : stack[i].k = "drop" /\ stack[i].b = b

TlsInv == TlsTypes /\ SlotInv /\ FrameInv /\ NestInv /\ SentinelInv /\ Accounted

(* Append leaves the frames below alone. *)
LEMMA PushFacts ==
    ASSUME NEW S, NEW s \in Seq(S), NEW f \in S
    PROVE  /\ Append(s, f) \in Seq(S) /\ Len(Append(s, f)) = Len(s) + 1
           /\ \A i \in 1..Len(s) : Append(s, f)[i] = s[i]
           /\ Append(s, f)[Len(s) + 1] = f
  OBVIOUS

(* So does taking the top frame away, *)
LEMMA PopFacts ==
    ASSUME NEW S, NEW s \in Seq(S), s # << >>
    PROVE  LET p == SubSeq(s, 1, Len(s) - 1) IN
           /\ p \in Seq(S) /\ Len(p) = Len(s) - 1
           /\ \A i \in 1..(Len(s) - 1) : p[i] = s[i]
<1>1. Len(s) \in Nat /\ Len(s) # 0
  OBVIOUS
<1>2. \A i \in 1..(Len(s) - 1) : s[i] \in S
  BY <1>1
<1>3. SubSeq(s, 1, Len(s) - 1) = [i \in 1..(Len(s) - 1) |-> s[i]]
  BY <1>1
<1>4. [i \in 1..(Len(s) - 1) |-> s[i]] \in Seq(S)
  BY <1>1, <1>2
<1>5. Len([i \in 1..(Len(s) - 1) |-> s[i]]) = Len(s) - 1
  BY <1>1
<1>6. QED
  BY <1>3, <1>4, <1>5

(* and putting another one in its place. *)
LEMMA ReplaceFacts ==
    ASSUME NEW S, NEW s \in Seq(S), s # << >>, NEW f \in S
    PROVE  LET p == [s EXCEPT ![Len(s)] = f] IN
           /\ p \in Seq(S) /\ Len(p) = Len(s)
           /\ \A i \in 1..Len(s) : i # Len(s) => p[i] = s[i]
           /\ p[Len(s)] = f
<1>1. Len(s) \in Nat /\ Len(s) # 0
  OBVIOUS
<1>2. QED
  BY <1>1

(* What runs is one of the frames. *)
LEMMA TopFacts ==
    ASSUME TlsTypes, stack # << >>
    PROVE  /\ Len(stack) \in Nat /\ Len(stack) > 0 /\ Len(stack) \in 1..Len(stack)
           /\ Top \in Frames /\ Top = stack[Len(stack)]
<1>1. stack \in Seq(Frames) /\ Len(stack) \in Nat /\ Len(stack) # 0
  BY DEF TlsTypes
<1>2. QED
  BY <1>1 DEF Top

(* The thread starts with empty slots. *)
LEMMA TlsInitInv == TlsInit => TlsInv
<1> SUFFICES ASSUME TlsInit PROVE TlsInv
  OBVIOUS
<1> USE TlsAssumption DEF TlsInit
<1>1. TlsTypes
  BY DEF TlsTypes
<1>2. Len(stack) = 0 /\ \A v \in Vars : slot[v] = Null
  OBVIOUS
<1>3. SlotInv /\ SentinelInv /\ Accounted
  BY <1>2 DEF SlotInv, SentinelInv, Accounted
<1>4. FrameInv /\ NestInv
  BY <1>2 DEF FrameInv, NestInv
<1>5. QED
  BY <1>1, <1>3, <1>4 DEF TlsInv

(* A use of a value that is there. *)
LEMMA GetValueStep ==
    ASSUME TlsInv, NEW v \in Vars, Get(v), slot[v] # Null PROVE TlsInv'
<1> DEFINE n == Len(stack)
           f == Frame("with", v, slot[v], Null)
<1>1. /\ stack \in Seq(Frames) /\ n \in Nat /\ slot[v] \in Blocks /\ slot[v] # One
      /\ phase = "runs" \/ n > 0
  BY TlsAssumption DEF TlsInv, TlsTypes, Get, MayUse
<1>2. stack' = Append(stack, f) /\ UNCHANGED <<slot, alive, phase, round, due>>
  BY DEF Get, Push, exit
<1>3. f \in Frames /\ f.k = "with" /\ f.v = v /\ f.b = slot[v] /\ f.new = Null
  BY <1>1 DEF Frame, Frames
<1> HIDE DEF f
<1>4. /\ stack' \in Seq(Frames) /\ Len(stack') = n + 1 /\ stack'[n + 1] = f
      /\ \A i \in 1..n : stack'[i] = stack[i]
  BY <1>1, <1>2, <1>3, PushFacts
<1> HIDE DEF n
<1>5. \A i \in 1..Len(stack') : i = n + 1 \/ (i \in 1..n /\ stack'[i] = stack[i])
  BY <1>1, <1>4
<1>6. TlsTypes' /\ SlotInv'
  BY <1>2, <1>4 DEF TlsInv, TlsTypes, SlotInv
<1>7. FrameInv'
  BY <1>1, <1>2, <1>3, <1>4, <1>5 DEF TlsInv, FrameInv, n
<1>8. NestInv'
  BY <1>1, <1>2, <1>3, <1>4, <1>5 DEF TlsInv, NestInv, Holds, n
<1>9. SentinelInv'
  BY <1>1, <1>2, <1>4, <1>5 DEF TlsInv, SentinelInv, n
<1>10. Accounted'
  BY <1>1, <1>2, <1>4, <1>5 DEF TlsInv, Accounted, n
<1>11. QED
  BY <1>6, <1>7, <1>8, <1>9, <1>10 DEF TlsInv

(* A use of a value that is not there: its initializer starts, inside no use *)
(* of this variable, for there is no value yet.                            *)
LEMMA GetInitStep ==
    ASSUME TlsInv, NEW v \in Vars, Get(v), slot[v] = Null PROVE TlsInv'
<1> DEFINE n == Len(stack)
           f == Frame("init", v, Null, Null)
<1>1. stack \in Seq(Frames) /\ n \in Nat /\ (phase = "runs" \/ n > 0) /\ Null # One /\ Null \notin Blocks
  BY TlsAssumption DEF TlsInv, TlsTypes, Get, MayUse
<1>2. stack' = Append(stack, f) /\ UNCHANGED <<slot, alive, phase, round, due>>
  BY DEF Get, Push, exit
<1>3. f \in Frames /\ f.k = "init" /\ f.v = v
  BY DEF Frame, Frames
<1> HIDE DEF f
<1>4. /\ stack' \in Seq(Frames) /\ Len(stack') = n + 1 /\ stack'[n + 1] = f
      /\ \A i \in 1..n : stack'[i] = stack[i]
  BY <1>1, <1>2, <1>3, PushFacts
<1>5. \A i \in 1..n : Holds(stack[i]) => stack[i].v # v
  BY <1>1 DEF TlsInv, FrameInv, Holds
<1> HIDE DEF n
<1>6. \A i \in 1..Len(stack') : i = n + 1 \/ (i \in 1..n /\ stack'[i] = stack[i])
  BY <1>1, <1>4
<1>7. TlsTypes' /\ SlotInv'
  BY <1>2, <1>4 DEF TlsInv, TlsTypes, SlotInv
<1>8. FrameInv'
  BY <1>1, <1>2, <1>3, <1>4, <1>6 DEF TlsInv, FrameInv, n
<1>9. NestInv'
  BY <1>1, <1>2, <1>3, <1>4, <1>5, <1>6 DEF TlsInv, NestInv, Holds, n
<1>10. SentinelInv'
  BY <1>1, <1>2, <1>4, <1>6 DEF TlsInv, SentinelInv, n
<1>11. Accounted'
  BY <1>1, <1>2, <1>4, <1>6 DEF TlsInv, Accounted, n
<1>12. QED
  BY <1>7, <1>8, <1>9, <1>10, <1>11 DEF TlsInv

(* A value set without an initializer. *)
LEMMA InitializeStep ==
    ASSUME TlsInv, NEW v \in Vars, NEW b \in Blocks, InitializeWith(v, b) PROVE TlsInv'
<1> DEFINE n == Len(stack)
           f == Frame("with", v, b, Null)
<1>1. /\ stack \in Seq(Frames) /\ n \in Nat /\ (phase = "runs" \/ n > 0)
      /\ slot \in [Vars -> Blocks \cup {Null, One}] /\ alive \subseteq Blocks
      /\ slot[v] = Null /\ b \notin alive
      /\ Null # One /\ Null \notin Blocks /\ One \notin Blocks
  BY TlsAssumption DEF TlsInv, TlsTypes, InitializeWith, MayUse
<1>2. /\ stack' = Append(stack, f) /\ slot' = [slot EXCEPT ![v] = b] /\ alive' = alive \cup {b}
      /\ UNCHANGED <<phase, round, due>>
  BY DEF InitializeWith, Push, exit
<1>3. f \in Frames /\ f.k = "with" /\ f.v = v /\ f.b = b /\ f.new = Null
  BY DEF Frame, Frames
<1> HIDE DEF f
<1>4. /\ stack' \in Seq(Frames) /\ Len(stack') = n + 1 /\ stack'[n + 1] = f
      /\ \A i \in 1..n : stack'[i] = stack[i]
  BY <1>1, <1>2, <1>3, PushFacts
<1>5. \A i \in 1..n : stack[i] \in Frames
  BY <1>1
<1> HIDE DEF n
<1>6. \A i \in 1..Len(stack') : i = n + 1 \/ (i \in 1..n /\ stack'[i] = stack[i])
  BY <1>1, <1>4
<1>7. slot'[v] = b /\ \A w \in Vars : w # v => slot'[w] = slot[w]
  BY <1>1, <1>2
<1>8. TlsTypes'
  BY <1>1, <1>2, <1>4 DEF TlsInv, TlsTypes
<1>9. SlotInv'
  BY <1>1, <1>2, <1>7 DEF TlsInv, SlotInv
<1>10. \A i \in 1..n : stack[i].v \in Vars /\ (stack[i].k = "with" => stack[i].v # v)
                       /\ (stack[i].k = "drop" => stack[i].v # v \/ stack[i].new = Null)
                       /\ (stack[i].k = "drop" => stack[i].b # b)
  BY <1>1, <1>5 DEF TlsInv, FrameInv, Frames, n
<1>11. FrameInv'
  BY <1>1, <1>2, <1>3, <1>4, <1>6, <1>7, <1>10 DEF TlsInv, FrameInv, n
<1>12. NestInv'
  BY <1>1, <1>2, <1>3, <1>4, <1>6 DEF TlsInv, NestInv, Holds, n
<1>13. SentinelInv'
  BY <1>1, <1>2, <1>4, <1>6, <1>7 DEF TlsInv, SentinelInv, n
<1>14. Accounted'
  <2> SUFFICES ASSUME NEW c \in alive'
               PROVE  \/ \E w \in Vars : slot'[w] = c
                      \/ \E i \in 1..Len(stack') : stack'[i].k = "drop" /\ stack'[i].b = c
    BY DEF Accounted
  <2>1. CASE c = b
    BY <2>1, <1>7
  <2>2. CASE \E w \in Vars : slot[w] = c /\ c # b
    BY <2>2, <1>1, <1>2, <1>7
  <2>3. CASE \E i \in 1..n : stack[i].k = "drop" /\ stack[i].b = c
    BY <2>3, <1>1, <1>4
  <2>4. QED
    BY <2>1, <2>2, <2>3, <1>2 DEF TlsInv, Accounted, n
<1>15. QED
  BY <1>8, <1>9, <1>11, <1>12, <1>13, <1>14 DEF TlsInv

(* No use of the variable that is being initialized is under way below.    *)
LEMMA InitializerAlone ==
    ASSUME TlsInv, Runs("init")
    PROVE  /\ Top \in Frames /\ slot[Top.v] \in Blocks \cup {Null}
           /\ \A i \in 1..Len(stack) : i # Len(stack) /\ Holds(stack[i]) => stack[i].v # Top.v
           /\ Len(stack) = 1 => phase # "exits"
<1>1. Len(stack) \in Nat /\ Len(stack) \in 1..Len(stack) /\ Top \in Frames /\ Top = stack[Len(stack)]
  BY TopFacts DEF TlsInv, Runs
<1>2. stack[Len(stack)].k = "init" /\ slot[Top.v] # One
  BY <1>1 DEF TlsInv, Runs, FrameInv
<1>3. slot[Top.v] \in Blocks \cup {Null}
  BY <1>1, <1>2 DEF TlsInv, TlsTypes, Frames
<1>4. \A i \in 1..Len(stack) : i # Len(stack) /\ Holds(stack[i]) => stack[i].v # Top.v
  BY <1>1, <1>2 DEF TlsInv, NestInv
<1>5. Len(stack) = 1 => phase # "exits"
  BY <1>1, <1>2 DEF TlsInv, SentinelInv
<1>6. QED
  BY <1>1, <1>3, <1>4, <1>5

(* The initializer is done, and no recursive one has stored a value. *)
LEMMA StoreFirstStep ==
    ASSUME TlsInv, NEW b \in Blocks, Store(b), slot[Top.v] = Null PROVE TlsInv'
<1> DEFINE n == Len(stack)
           v == Top.v
           f == Frame("with", v, b, Null)
<1>0. Runs("init") /\ stack # << >>
  BY DEF Store, Runs
<1>1. /\ stack \in Seq(Frames) /\ n \in Nat /\ n > 0 /\ n \in 1..n /\ v \in Vars
      /\ slot \in [Vars -> Blocks \cup {Null, One}] /\ alive \subseteq Blocks
      /\ slot[v] = Null /\ b \notin alive
      /\ Null # One /\ Null \notin Blocks /\ One \notin Blocks
  BY <1>0, TlsAssumption, TopFacts DEF TlsInv, TlsTypes, Store, Frames
<1>2. slot' = [slot EXCEPT ![v] = b] /\ alive' = alive \cup {b} /\ UNCHANGED <<phase, round, due>>
  BY DEF Store, exit
<1>3. f \in Frames /\ f.k = "with" /\ f.v = v /\ f.b = b /\ f.new = Null
  BY <1>1 DEF Frame, Frames
<1>4. stack[n].k = "init" /\ stack[n].v = v /\ (n = 1 => phase # "exits")
  BY <1>0, InitializerAlone DEF Runs, Top
<1>5. \A i \in 1..n : i # n /\ Holds(stack[i]) => stack[i].v # v
  BY <1>0, InitializerAlone
<1> HIDE DEF f, v
<1>6. /\ stack' \in Seq(Frames) /\ Len(stack') = n /\ stack'[n] = f
      /\ \A i \in 1..n : i # n => stack'[i] = stack[i]
  <2>1. stack' = [stack EXCEPT ![n] = f]
    BY DEF Store, Replace, f, v
  <2>2. QED
    BY <2>1, <1>0, <1>1, <1>3, ReplaceFacts
<1>7. \A i \in 1..n : stack[i] \in Frames
  BY <1>1
<1> HIDE DEF n
<1>8. slot'[v] = b /\ \A w \in Vars : w # v => slot'[w] = slot[w]
  BY <1>1, <1>2
<1>9. TlsTypes'
  BY <1>1, <1>2, <1>6 DEF TlsInv, TlsTypes
<1>10. SlotInv'
  BY <1>1, <1>2, <1>8 DEF TlsInv, SlotInv
<1>11. \A i \in 1..n : stack[i].v \in Vars /\ (stack[i].k = "drop" => stack[i].b # b)
  BY <1>1, <1>7 DEF TlsInv, FrameInv, Frames, n
<1>12. FrameInv'
  BY <1>1, <1>2, <1>3, <1>5, <1>6, <1>8, <1>11 DEF TlsInv, FrameInv, Holds, n
<1>13. NestInv'
  BY <1>1, <1>2, <1>3, <1>4, <1>6 DEF TlsInv, NestInv, Holds, n
<1>14. SentinelInv'
  BY <1>1, <1>2, <1>4, <1>6, <1>8 DEF TlsInv, SentinelInv, n
<1>15. Accounted'
  <2> SUFFICES ASSUME NEW c \in alive'
               PROVE  \/ \E w \in Vars : slot'[w] = c
                      \/ \E i \in 1..Len(stack') : stack'[i].k = "drop" /\ stack'[i].b = c
    BY DEF Accounted
  <2>1. CASE c = b
    BY <2>1, <1>1, <1>8
  <2>2. CASE c # b /\ \E w \in Vars : slot[w] = c
    BY <2>2, <1>1, <1>2, <1>8
  <2>3. CASE \E i \in 1..n : stack[i].k = "drop" /\ stack[i].b = c
    BY <2>3, <1>1, <1>4, <1>6
  <2>4. QED
    BY <2>1, <2>2, <2>3, <1>2 DEF TlsInv, Accounted, n
<1>16. QED
  BY <1>9, <1>10, <1>12, <1>13, <1>14, <1>15 DEF TlsInv

(* The initializer is done, and a recursive one has stored a value: it is  *)
(* dropped, and it is in no slot then.                                     *)
LEMMA StoreAgainStep ==
    ASSUME TlsInv, NEW b \in Blocks, Store(b), slot[Top.v] # Null PROVE TlsInv'
<1> DEFINE n == Len(stack)
           v == Top.v
           old == slot[v]
           f == Frame("drop", v, old, b)
<1>0. Runs("init") /\ stack # << >>
  BY DEF Store, Runs
<1>1. /\ stack \in Seq(Frames) /\ n \in Nat /\ n > 0 /\ n \in 1..n /\ v \in Vars
      /\ slot \in [Vars -> Blocks \cup {Null, One}] /\ alive \subseteq Blocks
      /\ old \in Blocks /\ b \notin alive
      /\ Null # One /\ Null \notin Blocks /\ One \notin Blocks
  BY <1>0, TlsAssumption, TopFacts, InitializerAlone DEF TlsInv, TlsTypes, Store, Frames
<1>2. slot' = [slot EXCEPT ![v] = b] /\ alive' = alive \cup {b} /\ UNCHANGED <<phase, round, due>>
  BY DEF Store, exit
<1>3. f \in Frames /\ f.k = "drop" /\ f.v = v /\ f.b = old /\ f.new = b
  BY <1>1 DEF Frame, Frames
<1>4. stack[n].k = "init" /\ stack[n].v = v /\ (n = 1 => phase # "exits")
  BY <1>0, InitializerAlone DEF Runs, Top
<1>5. \A i \in 1..n : i # n /\ Holds(stack[i]) => stack[i].v # v
  BY <1>0, InitializerAlone
<1>6. old \in alive /\ old # b /\ \A w \in Vars : w # v => slot[w] # old
  BY <1>1 DEF TlsInv, SlotInv
<1>7. \A i \in 1..n : stack[i].k = "drop" => stack[i].b # old /\ stack[i].b # b
  BY <1>1 DEF TlsInv, FrameInv
<1> HIDE DEF f, v
<1>8. /\ stack' \in Seq(Frames) /\ Len(stack') = n /\ stack'[n] = f
      /\ \A i \in 1..n : i # n => stack'[i] = stack[i]
  <2>1. stack' = [stack EXCEPT ![n] = f]
    BY DEF Store, Replace, f, v
  <2>2. QED
    BY <2>1, <1>0, <1>1, <1>3, ReplaceFacts
<1>9. \A i \in 1..n : stack[i] \in Frames /\ stack[i].v \in Vars
  <2>1. \A i \in 1..n : stack[i] \in Frames
    BY <1>1
  <2>2. QED
    BY <2>1 DEF Frames
<1>10. slot'[v] = b /\ \A w \in Vars : w # v => slot'[w] = slot[w]
  BY <1>1, <1>2
<1> HIDE DEF n
<1>11. TlsTypes'
  BY <1>1, <1>2, <1>8 DEF TlsInv, TlsTypes
<1>12. SlotInv'
  BY <1>1, <1>2, <1>10 DEF TlsInv, SlotInv
<1>13. FrameInv'
  <2> SUFFICES ASSUME NEW i \in 1..n
               PROVE  /\ stack'[i].k = "init" => slot'[stack'[i].v] # One
                      /\ stack'[i].k = "with" => stack'[i].b \in Blocks /\ slot'[stack'[i].v] = stack'[i].b
                      /\ stack'[i].k = "drop" => /\ stack'[i].b \in alive'
                                                 /\ \A w \in Vars : slot'[w] # stack'[i].b
                      /\ stack'[i].k = "drop" /\ stack'[i].new # Null => slot'[stack'[i].v] = stack'[i].new
                      /\ stack'[i].k = "drop" /\ stack'[i].new = Null =>
                            i = 1 /\ phase' = "exits" /\ slot'[stack'[i].v] = One
    BY <1>8 DEF FrameInv
  <2>1. CASE i = n
    BY <2>1, <1>1, <1>2, <1>3, <1>6, <1>8, <1>10
  <2>2. CASE i # n
    BY <2>2, <1>1, <1>2, <1>4, <1>5, <1>7, <1>8, <1>9, <1>10 DEF TlsInv, FrameInv, Holds, n
  <2>3. QED
    BY <2>1, <2>2
<1>14. NestInv'
  BY <1>1, <1>2, <1>3, <1>4, <1>7, <1>8 DEF TlsInv, NestInv, Holds, n
<1>15. SentinelInv'
  BY <1>1, <1>2, <1>4, <1>8, <1>10 DEF TlsInv, SentinelInv, n
<1>16. Accounted'
  <2> SUFFICES ASSUME NEW c \in alive'
               PROVE  \/ \E w \in Vars : slot'[w] = c
                      \/ \E i \in 1..n : stack'[i].k = "drop" /\ stack'[i].b = c
    BY <1>8 DEF Accounted
  <2>1. CASE c = b \/ c = old
    BY <2>1, <1>1, <1>3, <1>8, <1>10
  <2>2. CASE c # old /\ \E w \in Vars : slot[w] = c
    BY <2>2, <1>1, <1>2, <1>10
  <2>3. CASE \E i \in 1..n : stack[i].k = "drop" /\ stack[i].b = c
    BY <2>3, <1>1, <1>4, <1>8
  <2>4. QED
    BY <2>1, <2>2, <2>3, <1>2 DEF TlsInv, Accounted, n
<1>17. QED
  BY <1>11, <1>12, <1>13, <1>14, <1>15, <1>16 DEF TlsInv

(* A closure returns. *)
LEMMA WithDoneStep == ASSUME TlsInv, WithDone PROVE TlsInv'
<1> DEFINE n == Len(stack)
<1>1. stack # << >> /\ stack \in Seq(Frames) /\ n \in Nat /\ n > 0 /\ n \in 1..n /\ stack[n].k = "with"
  BY TopFacts DEF TlsInv, TlsTypes, WithDone, Runs
<1>2. UNCHANGED <<slot, alive, phase, round, due>>
  BY DEF WithDone, exit
<1>3. /\ stack' \in Seq(Frames) /\ Len(stack') = n - 1
      /\ \A i \in 1..(n - 1) : stack'[i] = stack[i]
  <2>1. stack' = SubSeq(stack, 1, n - 1)
    BY DEF WithDone, Pop
  <2>2. QED
    BY <2>1, <1>1, PopFacts
<1> HIDE DEF n
<1>4. \A i \in 1..Len(stack') : i \in 1..n /\ stack'[i] = stack[i]
  BY <1>1, <1>3
<1>5. TlsTypes' /\ SlotInv'
  BY <1>2, <1>3 DEF TlsInv, TlsTypes, SlotInv
<1>6. FrameInv'
  BY <1>1, <1>2, <1>4 DEF TlsInv, FrameInv, n
<1>7. NestInv'
  BY <1>1, <1>2, <1>4 DEF TlsInv, NestInv, n
<1>8. SentinelInv'
  BY <1>1, <1>2, <1>3, <1>4 DEF TlsInv, SentinelInv, n
<1>9. Accounted'
  BY <1>1, <1>2, <1>3 DEF TlsInv, Accounted, n
<1>10. QED
  BY <1>5, <1>6, <1>7, <1>8, <1>9 DEF TlsInv

(* The value of a recursive initialization is dropped; the one stored last *)
(* is still in the slot.                                                   *)
LEMMA OldDroppedStep == ASSUME TlsInv, OldDropped PROVE TlsInv'
<1> DEFINE n == Len(stack)
           old == Top.b
           f == Frame("with", Top.v, Top.new, Null)
<1>0. Runs("drop") /\ stack # << >> /\ Top.new # Null
  BY DEF OldDropped, Runs
<1>1. /\ stack \in Seq(Frames) /\ n \in Nat /\ n > 0 /\ n \in 1..n /\ Top \in Frames
      /\ Top = stack[n] /\ stack[n].k = "drop" /\ stack[n].new # Null /\ stack[n].b = old
      /\ Top.new \in Blocks /\ alive \subseteq Blocks
  BY <1>0, TlsAssumption, TopFacts DEF TlsInv, TlsTypes, Runs, Frames
<1>2. alive' = alive \ {old} /\ UNCHANGED <<slot, phase, round, due>>
  BY DEF OldDropped, exit
<1>3. f \in Frames /\ f.k = "with" /\ f.v = stack[n].v /\ f.b = stack[n].new /\ f.new = Null
  BY <1>1 DEF Frame, Frames
<1> HIDE DEF f, old
<1>4. /\ stack' \in Seq(Frames) /\ Len(stack') = n /\ stack'[n] = f
      /\ \A i \in 1..n : i # n => stack'[i] = stack[i]
  <2>1. stack' = [stack EXCEPT ![n] = f]
    BY DEF OldDropped, Replace, f
  <2>2. QED
    BY <2>1, <1>0, <1>1, <1>3, ReplaceFacts
<1> HIDE DEF n
<1>5. /\ \A w \in Vars : slot[w] # old
      /\ \A i \in 1..n : stack[i].k = "drop" /\ i # n => stack[i].b # old
      /\ slot[f.v] = f.b /\ f.b \in Blocks
  BY <1>1, <1>3 DEF TlsInv, FrameInv, NestInv, n
<1>6. TlsTypes' /\ SlotInv'
  BY <1>1, <1>2, <1>4, <1>5 DEF TlsInv, TlsTypes, SlotInv
<1>7. FrameInv'
  BY <1>1, <1>2, <1>3, <1>4, <1>5 DEF TlsInv, FrameInv, n
<1>8. NestInv'
  BY <1>1, <1>2, <1>3, <1>4 DEF TlsInv, NestInv, Holds, n
<1>9. SentinelInv'
  BY <1>1, <1>2, <1>4 DEF TlsInv, SentinelInv, n
<1>10. Accounted'
  BY <1>1, <1>2, <1>4 DEF TlsInv, Accounted, n
<1>11. QED
  BY <1>6, <1>7, <1>8, <1>9, <1>10 DEF TlsInv

(* The end of the thread begins, goes on to another round, or is over.     *)
LEMMA ExitStep == ASSUME TlsInv, Exit \/ NextRound PROVE TlsInv'
<1>1. /\ Len(stack) = 0 /\ UNCHANGED <<slot, alive, stack>>
      /\ phase' \in {"runs", "exits", "ended"} /\ round' \in Nat /\ due' \subseteq Vars
  BY DEF Exit, NextRound, TlsInv, TlsTypes
<1>2. TlsTypes' /\ SlotInv'
  BY <1>1 DEF TlsInv, TlsTypes, SlotInv
<1>3. FrameInv' /\ NestInv'
  BY <1>1 DEF TlsInv, FrameInv, NestInv
<1>4. SentinelInv' /\ Accounted'
  BY <1>1 DEF TlsInv, SentinelInv, Accounted
<1>5. QED
  BY <1>2, <1>3, <1>4 DEF TlsInv

(* A key without a value is passed over. *)
LEMMA PassOverStep ==
    ASSUME TlsInv, NEW v \in Vars, DestroyValue(v), slot[v] = Null PROVE TlsInv'
<1>1. UNCHANGED <<slot, alive, stack, phase, round>> /\ due' \subseteq Vars
  BY DEF DestroyValue, TlsInv, TlsTypes
<1>2. TlsTypes' /\ SlotInv' /\ SentinelInv' /\ Accounted'
  BY <1>1 DEF TlsInv, TlsTypes, SlotInv, SentinelInv, Accounted
<1>3. FrameInv' /\ NestInv'
  BY <1>1 DEF TlsInv, FrameInv, NestInv
<1>4. QED
  BY <1>2, <1>3 DEF TlsInv

(* The value's destructor starts; the sentinel is in its slot. *)
LEMMA DestroyValueStep ==
    ASSUME TlsInv, NEW v \in Vars, DestroyValue(v), slot[v] # Null PROVE TlsInv'
<1> DEFINE f == Frame("drop", v, slot[v], Null)
<1>1. /\ stack \in Seq(Frames) /\ Len(stack) = 0 /\ phase = "exits"
      /\ slot \in [Vars -> Blocks \cup {Null, One}]
      /\ Null # One /\ One \notin Blocks /\ Null \notin Blocks
  BY TlsAssumption DEF TlsInv, TlsTypes, DestroyValue
<1>2. slot[v] \in Blocks /\ slot[v] \in alive /\ \A w \in Vars : w # v => slot[w] # slot[v]
  BY <1>1 DEF TlsInv, SentinelInv, SlotInv
<1>3. /\ slot' = [slot EXCEPT ![v] = One] /\ UNCHANGED <<alive, phase, round>> /\ due' \subseteq Vars
  BY DEF DestroyValue, TlsInv, TlsTypes
<1>4. slot'[v] = One /\ \A w \in Vars : w # v => slot'[w] = slot[w]
  BY <1>1, <1>3
<1>5. f \in Frames /\ f.k = "drop" /\ f.v = v /\ f.b = slot[v] /\ f.new = Null
  BY <1>2 DEF Frame, Frames
<1> HIDE DEF f
<1>6. stack' \in Seq(Frames) /\ Len(stack') = 1 /\ stack'[1] = f
  <2>1. stack' = Append(stack, f)
    BY DEF DestroyValue, Push, f
  <2>2. QED
    BY <2>1, <1>1, <1>5, PushFacts
<1>7. TlsTypes'
  BY <1>1, <1>3, <1>6 DEF TlsInv, TlsTypes
<1>8. SlotInv'
  BY <1>1, <1>3, <1>4 DEF TlsInv, SlotInv
<1>9. FrameInv'
  BY <1>1, <1>2, <1>3, <1>4, <1>5, <1>6 DEF FrameInv
<1>10. NestInv'
  BY <1>6 DEF NestInv
<1>11. SentinelInv'
  BY <1>1, <1>3, <1>4, <1>5, <1>6 DEF TlsInv, SentinelInv
<1>12. Accounted'
  <2> SUFFICES ASSUME NEW c \in alive, c # slot[v] PROVE \E w \in Vars : slot'[w] = c
    BY <1>3, <1>5, <1>6 DEF Accounted
  <2>1. PICK w \in Vars : slot[w] = c
    BY <1>1 DEF TlsInv, Accounted
  <2>2. QED
    BY <2>1, <1>4
<1>13. QED
  BY <1>7, <1>8, <1>9, <1>10, <1>11, <1>12 DEF TlsInv

(* The thread's end has dropped a value: its frame was the only one. *)
LEMMA DestroyedStep == ASSUME TlsInv, Destroyed PROVE TlsInv'
<1> DEFINE v == Top.v
           old == Top.b
<1>0. stack # << >> /\ Top.new = Null /\ Top.k = "drop"
  BY DEF Destroyed, Runs
<1>1. /\ stack \in Seq(Frames) /\ Len(stack) = 1 /\ phase = "exits" /\ Top = stack[1]
      /\ v \in Vars /\ slot[v] = One /\ old \in alive
  <2>1. Len(stack) \in 1..Len(stack) /\ Top \in Frames /\ Top = stack[Len(stack)]
    BY <1>0, TopFacts DEF TlsInv
  <2>2. Len(stack) = 1 /\ phase = "exits" /\ slot[v] = One /\ old \in alive
    BY <1>0, <2>1 DEF TlsInv, FrameInv
  <2>3. QED
    BY <2>1, <2>2 DEF TlsInv, TlsTypes, Frames
<1>2. /\ alive' = alive \ {old} /\ slot' = [slot EXCEPT ![v] = Null]
      /\ UNCHANGED <<phase, round, due>>
  BY DEF Destroyed, exit
<1>3. slot \in [Vars -> Blocks \cup {Null, One}] /\ Null # One /\ Null \notin Blocks /\ One \notin Blocks
  BY TlsAssumption DEF TlsInv, TlsTypes
<1>4. \A w \in Vars : slot[w] # old
  BY <1>0, <1>1 DEF TlsInv, FrameInv
<1>5. stack' \in Seq(Frames) /\ Len(stack') = 0
  <2>1. stack' = SubSeq(stack, 1, Len(stack) - 1)
    BY DEF Destroyed, Pop
  <2>2. QED
    BY <2>1, <1>0, <1>1, PopFacts
<1>6. stack[1].b = old /\ stack[1].v = v
  BY <1>1
<1> HIDE DEF v, old
<1>7. slot'[v] = Null /\ \A w \in Vars : w # v => slot'[w] = slot[w]
  BY <1>1, <1>2, <1>3
<1>8. TlsTypes'
  BY <1>1, <1>2, <1>3, <1>5 DEF TlsInv, TlsTypes
<1>9. SlotInv'
  BY <1>2, <1>3, <1>4, <1>7 DEF TlsInv, SlotInv
<1>10. FrameInv' /\ NestInv'
  BY <1>5 DEF FrameInv, NestInv
<1>11. SentinelInv'
  BY <1>1, <1>2, <1>3, <1>5, <1>6, <1>7 DEF TlsInv, SentinelInv
<1>12. Accounted'
  <2> SUFFICES ASSUME NEW c \in alive, c # old PROVE \E w \in Vars : slot'[w] = c
    BY <1>2 DEF Accounted
  <2>1. PICK w \in Vars : slot[w] = c
    BY <1>1, <1>6 DEF TlsInv, Accounted
  <2>2. c # One
    BY <1>3 DEF TlsInv, TlsTypes
  <2>3. QED
    BY <2>1, <2>2, <1>1, <1>7
<1>13. QED
  BY <1>8, <1>9, <1>10, <1>11, <1>12 DEF TlsInv

(* Every step keeps the invariant. *)
LEMMA TlsStep == ASSUME TlsInv, [TlsNext]_tlsVars PROVE TlsInv'
<1>1. ASSUME NEW v \in Vars, Get(v) PROVE TlsInv'
  BY <1>1, GetValueStep, GetInitStep
<1>2. ASSUME NEW v \in Vars, DestroyValue(v) PROVE TlsInv'
  BY <1>2, PassOverStep, DestroyValueStep
<1>3. ASSUME NEW v \in Vars, NEW b \in Blocks, InitializeWith(v, b) PROVE TlsInv'
  BY <1>3, InitializeStep
<1>4. ASSUME NEW b \in Blocks, Store(b) PROVE TlsInv'
  BY <1>4, StoreFirstStep, StoreAgainStep
<1>5. CASE UNCHANGED tlsVars
  <2>1. UNCHANGED <<slot, alive, stack, phase, round, due>>
    BY <1>5 DEF tlsVars
  <2>2. TlsTypes' /\ SlotInv' /\ SentinelInv' /\ Accounted'
    BY <2>1 DEF TlsInv, TlsTypes, SlotInv, SentinelInv, Accounted
  <2>3. FrameInv' /\ NestInv'
    BY <2>1 DEF TlsInv, FrameInv, NestInv
  <2>4. QED
    BY <2>2, <2>3 DEF TlsInv
<1>6. QED
  BY <1>1, <1>2, <1>3, <1>4, <1>5, WithDoneStep, OldDroppedStep, DestroyedStep, ExitStep DEF TlsNext

(* Every reachable state satisfies the inductive invariant. *)
THEOREM TlsInvariant == TlsSpec => []TlsInv
  BY TlsInitInv, TlsStep, PTL DEF TlsSpec

(* What a closure uses is the live value in the slot, however initializers  *)
(* and destructors are nested.                                             *)
THEOREM NoStaleReference == TlsSpec => []UseLive
<1>1. ASSUME TlsInv PROVE UseLive
  <2>1. \A i \in 1..Len(stack) : stack[i] \in Frames
    BY <1>1 DEF TlsInv, TlsTypes
  <2>2. \A i \in 1..Len(stack) : stack[i].v \in Vars
    BY <2>1 DEF Frames
  <2>3. QED
    BY <1>1, <2>2 DEF TlsInv, FrameInv, SlotInv, UseLive
<1>2. QED
  BY <1>1, TlsInvariant, PTL

(* A value that is dropped exists, is in no slot, and is dropped once; and  *)
(* while the thread's end drops it, the sentinel keeps its destructor, and  *)
(* all that it calls, from using or creating a value of the variable.       *)
THEOREM DroppedOnce == TlsSpec => []DroppedAlone
<1>1. ASSUME TlsInv PROVE DroppedAlone
  <2>1. \A i \in 1..Len(stack) : stack[i] \in Frames
    BY <1>1 DEF TlsInv, TlsTypes
  <2>2. \A i \in 1..Len(stack) : stack[i].k \in {"init", "with", "drop"} /\ stack[i].new \in Blocks \cup {Null}
    BY <2>1 DEF Frames
  <2>3. ASSUME NEW i \in 1..Len(stack), NEW j \in 1..Len(stack), i < j,
               stack[i].k = "drop", stack[i].new = Null
        PROVE  stack[j].v # stack[i].v
    <3>1. i = 1 /\ slot[stack[i].v] = One
      BY <1>1, <2>3 DEF TlsInv, FrameInv
    <3>2. j # 1
      BY <2>3, <3>1
    <3>3. slot[stack[j].v] # One
      BY <1>1, <2>2, <3>2, TlsAssumption DEF TlsInv, FrameInv
    <3>4. QED
      BY <3>1, <3>3
  <2>4. QED
    BY <1>1, <2>3 DEF TlsInv, FrameInv, NestInv, DroppedAlone
<1>2. QED
  BY <1>1, TlsInvariant, PTL

-----------------------------------------------------------------------------
(* The rounds of destructors at the thread's end *)

\* If destructors use other variables only of a higher rank, the values that are left
\* in a round have at least its number as their rank.
RankInv(Rank) ==
    /\ phase = "exits" =>
          /\ \A v \in Vars : slot[v] # Null =>
                Rank[v] >= round /\ (Rank[v] = round => v \in due \/ slot[v] = One)
          /\ \A i \in 1..Len(stack) : Rank[stack[i].v] >= round /\ (i > 1 => Rank[stack[i].v] > round)
    /\ phase = "ended" => \A v \in Vars : slot[v] = Null

\* The variables can be numbered, from 1 to the number of rounds, so that a
\* destructor uses no other variable with a lower number than its own.  Its own
\* variable it may use: the sentinel answers.
Ranks(Rank) ==
    /\ Rank \in [Vars -> 1..MaxRounds]
    /\ \A v, w \in Vars : <<v, w>> \in DropUses /\ v # w => Rank[v] < Rank[w]

(* During the thread's end the program's code runs inside the destructor at *)
(* the bottom of the stack, so what it uses, which is not the variable of   *)
(* the sentinel, ranks above the round.                                    *)
LEMMA UsedRank ==
    ASSUME NEW Rank, Ranks(Rank), TlsInv, RankInv(Rank), NEW v \in Vars, MayUse(v), slot[v] # One, phase = "exits"
    PROVE  Rank[v] > round
<1>1. Len(stack) \in Nat /\ Len(stack) > 0 /\ 1 \in 1..Len(stack) /\ round \in Nat
  BY DEF TlsInv, TlsTypes, MayUse
<1>2. stack[1].k = "drop" /\ stack[1].v \in Vars
  <2>1. stack[1] \in Frames
    BY <1>1 DEF TlsInv, TlsTypes
  <2>2. QED
    BY <1>1, <2>1 DEF TlsInv, SentinelInv, Frames
<1>3. <<stack[1].v, v>> \in DropUses /\ stack[1].v # v
  <2>1. stack[1].new = Null /\ slot[stack[1].v] = One
    BY <1>1, <1>2 DEF TlsInv, SentinelInv, FrameInv
  <2>2. QED
    BY <2>1, <1>1, <1>2 DEF MayUse
<1>4. Rank[stack[1].v] < Rank[v] /\ Rank[stack[1].v] >= round
  BY <1>1, <1>2, <1>3 DEF Ranks, RankInv
<1>5. Rank[v] \in Nat /\ Rank[stack[1].v] \in Nat
  BY <1>2 DEF Ranks
<1>6. QED
  BY <1>1, <1>4, <1>5

(* Every step keeps the ranks: what it stores or starts is ranked above the *)
(* round, and a round ends when nothing of its own rank is left.           *)
LEMMA RankStep ==
    ASSUME NEW Rank, Ranks(Rank), TlsInv, RankInv(Rank), TlsInv', TlsNext
    PROVE  RankInv(Rank)'
<1> USE DEF RankInv
<1>0. /\ stack \in Seq(Frames) /\ Len(stack) \in Nat /\ round \in Nat
      /\ slot \in [Vars -> Blocks \cup {Null, One}] /\ phase \in {"runs", "exits", "ended"}
      /\ \A v \in Vars : Rank[v] \in 1..MaxRounds
      /\ MaxRounds \in Nat /\ Null # One /\ Null \notin Blocks /\ One \notin Blocks
  BY TlsAssumption DEF TlsInv, TlsTypes, Ranks
<1>1. ASSUME NEW v \in Vars, Get(v) PROVE RankInv(Rank)'
  <2> DEFINE f == IF slot[v] # Null THEN Frame("with", v, slot[v], Null) ELSE Frame("init", v, Null, Null)
  <2>1. MayUse(v) /\ slot[v] # One /\ UNCHANGED <<slot, phase, round, due>> /\ phase # "ended"
    BY <1>1 DEF Get, exit, MayUse, TlsInv, SentinelInv
  <2>2. f.v = v
    BY DEF Frame
  <2>3. f \in Frames
    <3>1. slot[v] # Null => slot[v] \in Blocks
      BY <1>0, <1>1 DEF Get
    <3>2. QED
      BY <3>1 DEF Frame, Frames
  <2> HIDE DEF f
  <2>4. /\ Len(stack') = Len(stack) + 1 /\ stack'[Len(stack) + 1] = f
        /\ \A i \in 1..Len(stack) : stack'[i] = stack[i]
    <3>1. stack' = Append(stack, f)
      BY <1>1 DEF Get, Push, f
    <3>2. QED
      BY <3>1, <2>3, <1>0, PushFacts
  <2>5. phase = "exits" => Rank[v] > round
    BY <2>1, UsedRank
  <2>6. QED
    BY <2>1, <2>2, <2>4, <2>5, <1>0
<1>2. ASSUME NEW v \in Vars, NEW b \in Blocks, InitializeWith(v, b) PROVE RankInv(Rank)'
  <2> DEFINE f == Frame("with", v, b, Null)
  <2>1. MayUse(v) /\ UNCHANGED <<phase, round, due>> /\ slot' = [slot EXCEPT ![v] = b] /\ phase # "ended"
    BY <1>2 DEF InitializeWith, exit, MayUse, TlsInv, SentinelInv
  <2>2. f.v = v /\ f \in Frames
    BY DEF Frame, Frames
  <2> HIDE DEF f
  <2>3. /\ Len(stack') = Len(stack) + 1 /\ stack'[Len(stack) + 1] = f
        /\ \A i \in 1..Len(stack) : stack'[i] = stack[i]
    <3>1. stack' = Append(stack, f)
      BY <1>2 DEF InitializeWith, Push, f
    <3>2. QED
      BY <3>1, <2>2, <1>0, PushFacts
  <2>4. phase = "exits" => Rank[v] > round
    BY <1>0, <1>2, <2>1, UsedRank DEF InitializeWith
  <2>5. QED
    BY <2>1, <2>2, <2>3, <2>4, <1>0
<1>3. ASSUME NEW b \in Blocks, Store(b) PROVE RankInv(Rank)'
  <2> DEFINE n == Len(stack)
             v == Top.v
             f == IF slot[v] = Null THEN Frame("with", v, b, Null) ELSE Frame("drop", v, slot[v], b)
  <2>1. Runs("init") /\ UNCHANGED <<phase, round, due>> /\ slot' = [slot EXCEPT ![v] = b]
    BY <1>3 DEF Store, exit
  <2>2. stack # << >> /\ n > 0 /\ n \in 1..n /\ Top = stack[n] /\ v \in Vars /\ slot[v] \in Blocks \cup {Null}
    BY <2>1, TopFacts, InitializerAlone DEF Runs, TlsInv, Frames
  <2>3. f.v = v /\ f \in Frames
    BY <2>2 DEF Frame, Frames
  <2>4. (n = 1 => phase # "exits") /\ phase # "ended"
    BY <2>1, <2>2, InitializerAlone DEF TlsInv, SentinelInv
  <2> HIDE DEF f
  <2>5. /\ Len(stack') = n /\ stack'[n] = f
        /\ \A i \in 1..n : i # n => stack'[i] = stack[i]
    <3>1. stack' = [stack EXCEPT ![n] = f]
      BY <1>3 DEF Store, Replace, f
    <3>2. QED
      BY <3>1, <2>2, <2>3, <1>0, ReplaceFacts
  <2>6. phase = "exits" => Rank[v] > round
    <3>1. v = stack[n].v
      BY <2>2
    <3> HIDE DEF v
    <3>2. n \in Nat /\ n > 0 /\ (phase = "exits" => n # 1)
      BY <2>2, <2>4, <1>0
    <3> HIDE DEF n
    <3>3. phase = "exits" => n > 1
      BY <3>2
    <3>4. n \in 1..Len(stack)
      BY <2>2 DEF n
    <3>5. QED
      BY <3>1, <3>3, <3>4
  <2> HIDE DEF v
  <2>7. QED
    BY <2>1, <2>2, <2>3, <2>4, <2>5, <2>6, <1>0
<1>4. CASE OldDropped
  <2> DEFINE n == Len(stack)
             f == Frame("with", Top.v, Top.new, Null)
  <2>1. stack # << >> /\ Top.new # Null /\ UNCHANGED <<slot, phase, round, due>>
    BY <1>4 DEF OldDropped, Runs, exit
  <2>2. n > 0 /\ n \in 1..n /\ Top \in Frames /\ Top = stack[n]
    BY <2>1, TopFacts DEF TlsInv
  <2>3. f.v = stack[n].v /\ f \in Frames
    BY <2>2 DEF Frame, Frames
  <2> HIDE DEF f
  <2>4. /\ Len(stack') = n /\ stack'[n] = f
        /\ \A i \in 1..n : i # n => stack'[i] = stack[i]
    <3>1. stack' = [stack EXCEPT ![n] = f]
      BY <1>4 DEF OldDropped, Replace, f
    <3>2. QED
      BY <3>1, <2>1, <2>3, <1>0, ReplaceFacts
  <2>5. QED
    BY <2>1, <2>2, <2>3, <2>4, <1>0
<1>5. CASE WithDone
  <2>1. stack # << >> /\ UNCHANGED <<slot, phase, round, due>>
    BY <1>5 DEF WithDone, Runs, exit
  <2>2. Len(stack) > 0 /\ Len(stack') = Len(stack) - 1 /\ \A i \in 1..(Len(stack) - 1) : stack'[i] = stack[i]
    <3>1. stack' = SubSeq(stack, 1, Len(stack) - 1)
      BY <1>5 DEF WithDone, Pop
    <3>2. QED
      BY <3>1, <2>1, <1>0, PopFacts, TopFacts DEF TlsInv
  <2>3. \A i \in 1..Len(stack') : i \in 1..Len(stack) /\ stack'[i] = stack[i]
    BY <2>2, <1>0
  <2>4. QED
    BY <2>1, <2>3, <1>0
<1>6. CASE Destroyed
  <2>1. stack # << >> /\ Top.k = "drop" /\ Top.new = Null
    BY <1>6 DEF Destroyed, Runs
  <2>2. Len(stack) \in 1..Len(stack) /\ Top \in Frames /\ Top = stack[Len(stack)]
    BY <2>1, TopFacts DEF TlsInv
  <2>3. Len(stack) = 1 /\ phase = "exits" /\ Top.v \in Vars
    BY <2>1, <2>2 DEF TlsInv, FrameInv, Frames
  <2>4. UNCHANGED <<phase, round, due>> /\ slot' = [slot EXCEPT ![Top.v] = Null]
    BY <1>6 DEF Destroyed, exit
  <2>5. \A w \in Vars : slot'[w] # Null => slot'[w] = slot[w]
    BY <2>3, <2>4, <1>0
  <2>6. Len(stack') = 0
    <3>1. stack' = SubSeq(stack, 1, Len(stack) - 1)
      BY <1>6 DEF Destroyed, Pop
    <3>2. QED
      BY <3>1, <2>1, <2>3, <1>0, PopFacts
  <2>7. QED
    BY <2>3, <2>4, <2>5, <2>6, <1>0
<1>7. ASSUME NEW v \in Vars, DestroyValue(v) PROVE RankInv(Rank)'
  <2>1. phase = "exits" /\ Len(stack) = 0 /\ v \in due /\ due' = due \ {v} /\ UNCHANGED <<phase, round>>
    BY <1>7 DEF DestroyValue
  <2>2. CASE slot[v] = Null
    <3>1. UNCHANGED <<slot, stack>>
      BY <1>7, <2>2 DEF DestroyValue
    <3>2. QED
      BY <3>1, <2>1, <2>2, <1>0
  <2>3. CASE slot[v] # Null
    <3> DEFINE f == Frame("drop", v, slot[v], Null)
    <3>1. slot' = [slot EXCEPT ![v] = One] /\ stack' = Append(stack, f)
      BY <1>7, <2>3 DEF DestroyValue, Push
    <3>2. f.v = v /\ slot[v] \in Blocks
      BY <2>1, <2>3, <1>0 DEF Frame, TlsInv, SentinelInv
    <3>3. f \in Frames
      BY <3>2 DEF Frame, Frames
    <3> HIDE DEF f
    <3>4. Len(stack') = 1 /\ stack'[1] = f
      BY <3>1, <3>3, <2>1, <1>0, PushFacts
    <3>5. Rank[v] >= round
      BY <2>1, <2>3
    <3>6. slot'[v] = One /\ \A w \in Vars : w # v => slot'[w] = slot[w]
      BY <3>1, <1>0
    <3>7. QED
      BY <3>2, <3>4, <3>5, <3>6, <2>1, <1>0
  <2>4. QED
    BY <2>2, <2>3
<1>8. CASE Exit
  <2>1. Len(stack) = 0 /\ phase' = "exits" /\ round' = 1 /\ due' = Vars /\ UNCHANGED <<slot, stack>>
    BY <1>8 DEF Exit
  <2>2. QED
    BY <2>1, <1>0
<1>9. CASE NextRound
  <2>1. phase = "exits" /\ Len(stack) = 0 /\ due = {} /\ UNCHANGED <<slot, stack>>
    BY <1>9 DEF NextRound
  <2>2. \A v \in Vars : slot[v] # Null => Rank[v] > round
    BY <2>1, <1>0 DEF TlsInv, SentinelInv
  <2>3. CASE phase' = "ended"
    <3>1. round = MaxRounds \/ \A v \in Vars : slot[v] = Null
      BY <1>9, <2>3, <2>1 DEF NextRound
    <3>2. QED
      BY <3>1, <2>1, <2>2, <2>3, <1>0
  <2>4. CASE phase' # "ended"
    <3>1. round' = round + 1 /\ due' = Vars /\ UNCHANGED phase
      BY <1>9, <2>4 DEF NextRound
    <3>2. QED
      BY <3>1, <2>1, <2>2, <1>0
  <2>5. QED
    BY <2>3, <2>4
<1>10. QED
  BY <1>1, <1>2, <1>3, <1>4, <1>5, <1>6, <1>7, <1>8, <1>9 DEF TlsNext

(* No value outlives its thread, if the uses of other variables among      *)
(* destructors have no cycle and need no more rounds than there are:       *)
(* whatever a destructor stores is of a higher rank, and dropped in that   *)
(* round at the latest.                                                    *)
THEOREM NothingOutlives ==
    ASSUME NEW Rank, Ranks(Rank)
    PROVE  TlsSpec => []AllDropped
<1>1. TlsInit => RankInv(Rank)
  BY DEF TlsInit, RankInv
<1>2. TlsInv /\ TlsInv' /\ RankInv(Rank) /\ [TlsNext]_tlsVars => RankInv(Rank)'
  <2> SUFFICES ASSUME TlsInv, TlsInv', RankInv(Rank), [TlsNext]_tlsVars PROVE RankInv(Rank)'
    OBVIOUS
  <2>1. CASE UNCHANGED tlsVars
    BY <2>1 DEF tlsVars, RankInv
  <2>2. QED
    BY <2>1, RankStep
<1>3. TlsInv /\ RankInv(Rank) => AllDropped
  <2> SUFFICES ASSUME TlsInv, RankInv(Rank) PROVE AllDropped
    OBVIOUS
  <2>1. phase = "ended" => alive = {}
    BY TlsAssumption DEF TlsInv, TlsTypes, RankInv, SentinelInv, Accounted
  <2>2. QED
    BY <2>1 DEF TlsInv, Accounted, AllDropped
<1>4. QED
  BY <1>1, <1>2, <1>3, TlsInvariant, PTL DEF TlsSpec
=============================================================================
