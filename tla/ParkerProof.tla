---------------------------- MODULE ParkerProof -----------------------------
(***************************************************************************)
(* Proofs about Parker for any set of unparking threads: the parker never  *)
(* panics, never loses a wakeup, hands over the unparkers' writes, and its *)
(* steps are steps of the token specification.                             *)
(***************************************************************************)
EXTENDS Parker, TLAPS

\* A thread holds the mutex exactly between its lock and its unlock.
LockInv ==
    /\ lock = Owner <=> opc \in {"set", "reread", "wait", "woken", "unlock"}
    /\ \A u \in Unparkers : lock = u <=> upc[u] = "unlock"

\* What `state` can be at each point of a parking call; only the owner takes
\* it away from NOTIFIED, and only the owner makes it PARKED.
StateInv ==
    /\ opc \in {"idle", "fast", "lock", "set", "unlock"} => state # PARKED
    /\ opc = "reread" => state = NOTIFIED
    /\ opc \in {"wait", "blocked", "woken"} => state # EMPTY

\* Once an unparker has swapped, the release sequence of `state` carries every
\* write of its that the owner has not synchronised with.
SyncInv == \A u \in Unparkers : upc[u] # "swap" => (u \in unread => u \in released)

IInv == TypeOK /\ LockInv /\ StateInv /\ NoPanic /\ NoLostWakeup /\ SyncInv

(* The inductive invariant holds initially: Parker::new_in_place. *)
LEMMA InitInv == Init => IInv
<1> SUFFICES ASSUME Init PROVE IInv
  OBVIOUS
<1> USE ThreadsAssumption DEF Init, EMPTY, PARKED, NOTIFIED
<1>1. TypeOK
  BY DEF TypeOK, OwnerPC, UnparkerPC, Calls
<1>2. LockInv
  BY DEF LockInv
<1>3. StateInv /\ NoPanic /\ NoLostWakeup
  BY DEF StateInv, NoPanic, NoLostWakeup
<1>4. SyncInv
  BY DEF SyncInv
<1>5. QED
  BY <1>1, <1>2, <1>3, <1>4 DEF IInv

(* The owner's steps keep the inductive invariant. *)
LEMMA OwnerInv == IInv /\ (Park \/ ParkTimeout) => IInv'
<1> SUFFICES ASSUME IInv, Park \/ ParkTimeout PROVE IInv'
  OBVIOUS
<1> USE ThreadsAssumption
    DEF IInv, TypeOK, LockInv, StateInv, NoPanic, NoLostWakeup, SyncInv,
        OwnerPC, UnparkerPC, Calls, EMPTY, PARKED, NOTIFIED, sync, Acquire
<1>1. CASE \E c \in Calls : CallPark(c)
  BY <1>1 DEF CallPark
<1>2. CASE FastPath
  BY <1>2 DEF FastPath
<1>3. CASE LockPark
  BY <1>3 DEF LockPark
<1>4. CASE SetParked
  BY <1>4 DEF SetParked
<1>5. CASE Reread
  BY <1>5 DEF Reread
<1>6. CASE CondWait
  BY <1>6 DEF CondWait
<1>7. CASE SpuriousWake \/ TimeOut
  BY <1>7 DEF SpuriousWake, TimeOut
<1>8. CASE Relock
  BY <1>8 DEF Relock
<1>9. CASE WokenPark
  BY <1>9 DEF WokenPark
<1>10. CASE WokenTimeout
  BY <1>10 DEF WokenTimeout
<1>11. CASE UnlockPark
  BY <1>11 DEF UnlockPark
<1>12. QED
  BY <1>1, <1>2, <1>3, <1>4, <1>5, <1>6, <1>7, <1>8, <1>9, <1>10, <1>11
  DEF Park, ParkTimeout, OwnerStep

(* The steps of an unparker keep the inductive invariant. *)
LEMMA UnparkInv == IInv /\ (\E u \in Unparkers : Unpark(u)) => IInv'
<1> SUFFICES ASSUME IInv, NEW u \in Unparkers, Unpark(u) PROVE IInv'
  OBVIOUS
<1> USE ThreadsAssumption
    DEF IInv, TypeOK, LockInv, StateInv, NoPanic, NoLostWakeup, SyncInv,
        OwnerPC, UnparkerPC, Calls, EMPTY, PARKED, NOTIFIED, sync, Release
<1>1. CASE CallUnpark(u)
  BY <1>1 DEF CallUnpark
<1>2. CASE SwapNotified(u)
  BY <1>2 DEF SwapNotified
<1>3. CASE LockUnpark(u)
  BY <1>3 DEF LockUnpark
<1>4. CASE UnlockUnpark(u)
  BY <1>4 DEF UnlockUnpark
<1>5. CASE NotifyOne(u)
  BY <1>5 DEF NotifyOne
<1>6. QED
  BY <1>1, <1>2, <1>3, <1>4, <1>5 DEF Unpark, UnparkStep

(* The invariant is inductive. *)
LEMMA Inductive == IInv /\ [Next]_vars => IInv'
<1> SUFFICES ASSUME IInv, [Next]_vars PROVE IInv'
  OBVIOUS
<1>1. CASE Next
  BY <1>1, OwnerInv, UnparkInv DEF Next
<1>2. CASE UNCHANGED vars
  BY <1>2 DEF vars, sync, IInv, TypeOK, LockInv, StateInv, NoPanic, NoLostWakeup, SyncInv
<1>3. QED
  BY <1>1, <1>2

(* Every reachable state satisfies the inductive invariant. *)
THEOREM InvariantHolds == Spec => []IInv
BY InitInv, Inductive, PTL DEF Spec

(* park and park_timeout keep their types, never panic with an inconsistent *)
(* state, and never sleep through a notification.                           *)
THEOREM ParkerSafe == Spec => [](TypeOK /\ NoPanic /\ NoLostWakeup)
<1>1. IInv => TypeOK /\ NoPanic /\ NoLostWakeup
  BY DEF IInv
<1>2. QED
  BY <1>1, InvariantHolds, PTL

(* Taking a notification makes visible the writes of every unpark that had  *)
(* swapped by then.                                                         *)
THEOREM WritesHandedOver == Spec => WritesVisible
<1> DEFINE Seen == state = NOTIFIED /\ state' # NOTIFIED
                   => \A u \in Unparkers : upc[u] # "swap" => u \notin unread'
<1>1. IInv /\ [Next]_vars => [Seen]_vars
  <2> SUFFICES ASSUME IInv, Next, state = NOTIFIED, state' # NOTIFIED
               PROVE  \A u \in Unparkers : upc[u] # "swap" => u \notin unread'
    OBVIOUS
  <2>1. Acquire
    BY DEF Next, Park, ParkTimeout, OwnerStep, CallPark, FastPath, LockPark, SetParked,
        Reread, CondWait, SpuriousWake, TimeOut, Relock, WokenPark, WokenTimeout,
        UnlockPark, Unpark, UnparkStep, CallUnpark, SwapNotified, LockUnpark,
        UnlockUnpark, NotifyOne, EMPTY, PARKED, NOTIFIED
  <2>2. QED
    BY <2>1 DEF Acquire, IInv, SyncInv
<1>2. QED
  BY <1>1, InvariantHolds, PTL DEF Spec, WritesVisible

(* Every step of the parker is a step of the token specification or leaves  *)
(* token and owner alone: the safety part of RefinesToken.                  *)
THEOREM ImplementsToken == Spec => Token!Safety
<1> USE DEF EMPTY, PARKED, NOTIFIED, AbstractOwner
<1>1. Init => Token!Init
  BY DEF Init, Token!Init
<1>2. IInv /\ IInv' /\ [Next]_vars => [Token!Next]_(Token!vars)
  <2> SUFFICES ASSUME IInv, IInv', [Next]_vars PROVE [Token!Next]_(Token!vars)
    OBVIOUS
  <2> USE DEF IInv, TypeOK, StateInv, NoPanic, Calls, OwnerPC,
              Token!Next, Token!vars, Token!Calls
  <2>1. CASE UNCHANGED vars
    BY <2>1 DEF vars
  <2>2. ASSUME NEW c \in Calls, CallPark(c) PROVE Token!Call(c)
    BY <2>2 DEF CallPark, Token!Call
  <2>3. CASE FastPath
    BY <2>3 DEF FastPath, Token!Consume
  <2>4. CASE LockPark \/ SetParked \/ CondWait \/ SpuriousWake \/ TimeOut \/ Relock \/ UnlockPark
    BY <2>4 DEF LockPark, SetParked, CondWait, SpuriousWake, TimeOut, Relock, UnlockPark
  <2>5. CASE Reread
    BY <2>5 DEF Reread, Token!Consume
  <2>6. CASE WokenPark
    BY <2>6 DEF WokenPark, Token!Consume
  <2>7. CASE WokenTimeout
    BY <2>7 DEF WokenTimeout, Token!Consume, Token!TimeOut
  <2>8. ASSUME NEW u \in Unparkers, SwapNotified(u) PROVE Token!Unpark
    BY <2>8 DEF SwapNotified, Token!Unpark
  <2>9. ASSUME NEW u \in Unparkers, CallUnpark(u) \/ LockUnpark(u) \/ UnlockUnpark(u) \/ NotifyOne(u)
        PROVE  UNCHANGED Token!vars
    BY <2>9 DEF CallUnpark, LockUnpark, UnlockUnpark, NotifyOne
  <2>10. QED
    BY <2>1, <2>2, <2>3, <2>4, <2>5, <2>6, <2>7, <2>8, <2>9
    DEF Next, Park, ParkTimeout, OwnerStep, Unpark, UnparkStep
<1>3. QED
  BY <1>1, <1>2, InvariantHolds, PTL DEF Spec, Token!Safety
=============================================================================
