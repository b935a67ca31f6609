------------------------- MODULE ChildProcessProof --------------------------
(***************************************************************************)
(* Proofs about ChildProcess for any number of programs, tasks, children   *)
(* and signal bits.  The inductive invariant says which task works on      *)
(* which Process and what that task has already established about it.      *)
(* At the end, proofs about CommandOutput, whose parent waits for such a   *)
(* child.                                                                  *)
(***************************************************************************)
EXTENDS ChildProcess, CommandOutput, TLAPS

Holding == {"register", "check", "sleep", "clear", "free"}
AfterExit == {"clear", "free", "read"}

\* A task inside a call works on a Process of its own.
OwnInv ==
    /\ \A t \in Tasks : tpc[t] \in InSpawn => tp[t] \in Procs /\ obj[tp[t]] = "spawning"
    /\ \A t \in Tasks : tpc[t] \in InWait =>
          tp[t] \in Procs /\ tbit[t] \in Bits /\ obj[tp[t]] = "borrowed"
    /\ \A t, u \in Tasks : tpc[t] \in InSpawn \cup InWait /\ tpc[u] \in InSpawn \cup InWait
                           /\ tp[t] = tp[u] => t = u

\* The life of the handle and of the child it tracks.
LifeInv ==
    /\ \A p \in Procs : obj[p] \in {"owned", "borrowed"} => handle[p] = "live"
    /\ \A p \in Procs : obj[p] = "none" => child[p] = "none"
    /\ \A p \in Procs : child[p] = "running" => handle[p] \in {"live", "leaked"}
    /\ \A p \in Procs : obj[p] \in {"owned", "borrowed"} => child[p] # "none"
    /\ \A p \in Procs : status[p] # None => child[p] = "exited"
    /\ \A p \in Procs : obj[p] = "borrowed" => status[p] = None
    /\ \A t \in Tasks : tpc[t] \in {"write", "start"} => child[tp[t]] = "none"
    /\ \A t \in Tasks : tpc[t] = "setup" => handle[tp[t]] = "live" /\ child[tp[t]] # "none"

\* The signal bit of a wait, and what the wait knows once it leaves its loop.
BitInv ==
    /\ \A t \in Tasks : held[t] \cap app[t] = {}
    /\ \A t \in Tasks : tpc[t] \in Holding => held[t] = {tbit[t]}
    /\ \A t \in Tasks : tpc[t] \notin Holding => held[t] = {}
    /\ \A t \in Tasks : tpc[t] \in AfterExit => child[tp[t]] = "exited"

IInv == TypeOK /\ OwnInv /\ LifeInv /\ BitInv /\ WaiterInsideWait

(* Nothing runs yet when the program starts. *)
LEMMA InitInv == Init => IInv
<1> SUFFICES ASSUME Init PROVE IInv
  OBVIOUS
<1> USE ProcessAssumption DEF Init, InSpawn, InWait, Holding, AfterExit
<1>1. TypeOK
  BY DEF TypeOK, Kinds, Paths
<1>2. OwnInv
  BY DEF OwnInv
<1>3. LifeInv
  BY DEF LifeInv
<1>4. BitInv
  BY DEF BitInv
<1>5. WaiterInsideWait
  BY DEF WaiterInsideWait
<1>6. QED
  BY <1>1, <1>2, <1>3, <1>4, <1>5 DEF IInv

(* The steps of spawn keep the invariant, whichever of them fails. *)
LEMMA SpawnInv == ASSUME IInv, NEW t \in Tasks, Spawn(t) PROVE IInv'
<1> USE ProcessAssumption
    DEF childVars, objVars, fileVars, taskVars, signalVars, InSpawn, InWait, Holding, AfterExit
<1> DEFINE p == tp[t]
<1>0. /\ TypeOK /\ OwnInv /\ LifeInv /\ BitInv /\ WaiterInsideWait
      /\ tpc[t] \in InSpawn /\ p \in Procs /\ obj[p] = "spawning"
  BY DEF IInv, Spawn, WriteScript, WriteScriptFails, NulByte, ProcSpawnFails, ProcSpawn,
     WriteSetup, OwnInv
<1>1. CASE WriteScript(t)
  <2>1. TypeOK'
    BY <1>0, <1>1 DEF WriteScript, TypeOK
  <2>2. OwnInv'
    BY <1>0, <1>1 DEF WriteScript, OwnInv, TypeOK
  <2>3. LifeInv'
    BY <1>0, <1>1 DEF WriteScript, LifeInv, TypeOK
  <2>4. BitInv'
    BY <1>0, <1>1 DEF WriteScript, BitInv, TypeOK
  <2>5. WaiterInsideWait'
    BY <1>0, <1>1 DEF WriteScript, WaiterInsideWait, TypeOK
  <2>6. QED
    BY <2>1, <2>2, <2>3, <2>4, <2>5 DEF IInv
<1>2. CASE WriteScriptFails(t) \/ NulByte(t) \/ ProcSpawnFails(t)
  <2>0. /\ tpc[t] \in {"write", "start"} /\ Return(t, "gone")
        /\ file' \in [Paths -> Procs \cup {None}]
        /\ UNCHANGED <<childVars, handle, waiter, kind, prog, status, script, seq, tbit, signalVars>>
    BY <1>0, <1>2 DEF WriteScriptFails, NulByte, ProcSpawnFails, RemoveScript, TypeOK
  <2>1. TypeOK'
    BY <1>0, <2>0 DEF Return, TypeOK
  <2>2. OwnInv'
    BY <1>0, <2>0 DEF Return, OwnInv, TypeOK
  <2>3. LifeInv'
    BY <1>0, <2>0 DEF Return, LifeInv, OwnInv, TypeOK
  <2>4. BitInv'
    BY <1>0, <2>0 DEF Return, BitInv, TypeOK
  <2>5. WaiterInsideWait'
    BY <1>0, <2>0 DEF Return, WaiterInsideWait, TypeOK
  <2>6. QED
    BY <2>1, <2>2, <2>3, <2>4, <2>5 DEF IInv
<1>3. CASE ProcSpawn(t) /\ kind[p] = "shell"
  <2>0. /\ tpc[t] = "start" /\ tpc' = [tpc EXCEPT ![t] = "setup"]
        /\ child' = [child EXCEPT ![p] = "running"] /\ handle' = [handle EXCEPT ![p] = "live"]
        /\ UNCHANGED <<obj, tp, code, brk, waiter, kind, prog, status, script, fileVars, tbit, signalVars>>
    BY <1>0, <1>3 DEF ProcSpawn
  <2>1. TypeOK'
    BY <1>0, <2>0 DEF TypeOK
  <2>2. OwnInv'
    BY <1>0, <2>0 DEF OwnInv, TypeOK
  <2>3. LifeInv'
    BY <1>0, <2>0 DEF LifeInv, OwnInv, TypeOK
  <2>4. BitInv'
    BY <1>0, <2>0 DEF BitInv, OwnInv, LifeInv, TypeOK
  <2>5. WaiterInsideWait'
    BY <1>0, <2>0 DEF WaiterInsideWait, TypeOK
  <2>6. QED
    BY <2>1, <2>2, <2>3, <2>4, <2>5 DEF IInv
<1>4. CASE ProcSpawn(t) /\ kind[p] # "shell"
  <2>0. /\ tpc[t] = "start" /\ Return(t, "owned")
        /\ child' = [child EXCEPT ![p] = "running"] /\ handle' = [handle EXCEPT ![p] = "live"]
        /\ UNCHANGED <<code, brk, waiter, kind, prog, status, script, fileVars, tbit, signalVars>>
    BY <1>0, <1>4 DEF ProcSpawn
  <2>1. TypeOK'
    BY <1>0, <2>0 DEF Return, TypeOK
  <2>2. OwnInv'
    BY <1>0, <2>0 DEF Return, OwnInv, TypeOK
  <2>3. LifeInv'
    BY <1>0, <2>0 DEF Return, LifeInv, OwnInv, TypeOK
  <2>4. BitInv'
    BY <1>0, <2>0 DEF Return, BitInv, OwnInv, LifeInv, TypeOK
  <2>5. WaiterInsideWait'
    BY <1>0, <2>0 DEF Return, WaiterInsideWait, TypeOK
  <2>6. QED
    BY <2>1, <2>2, <2>3, <2>4, <2>5 DEF IInv
<1>5. CASE WriteSetup(t)
  <2>0. \E o \in {"owned", "gone"} :
          /\ tpc[t] = "setup" /\ Return(t, o)
          /\ handle' = IF o = "owned" THEN handle ELSE [handle EXCEPT ![p] = "leaked"]
          /\ UNCHANGED <<childVars, waiter, kind, prog, status, script, fileVars, tbit, signalVars>>
    BY <1>0, <1>5 DEF WriteSetup
  <2>1. TypeOK'
    BY <1>0, <2>0 DEF Return, TypeOK
  <2>2. OwnInv'
    BY <1>0, <2>0 DEF Return, OwnInv, TypeOK
  <2>3. LifeInv'
    BY <1>0, <2>0 DEF Return, LifeInv, OwnInv, TypeOK
  <2>4. BitInv'
    BY <1>0, <2>0 DEF Return, BitInv, TypeOK
  <2>5. WaiterInsideWait'
    BY <1>0, <2>0 DEF Return, WaiterInsideWait, TypeOK
  <2>6. QED
    BY <2>1, <2>2, <2>3, <2>4, <2>5 DEF IInv
<1>6. QED
  BY <1>1, <1>2, <1>3, <1>4, <1>5 DEF Spawn

(* The steps of wait keep the invariant. *)
LEMMA WaitInv == ASSUME IInv, NEW t \in Tasks, Wait(t) PROVE IInv'
<1> USE ProcessAssumption
    DEF childVars, objVars, fileVars, taskVars, signalVars, InSpawn, InWait, Holding, AfterExit
<1> DEFINE p == tp[t]
<1>0. /\ TypeOK /\ OwnInv /\ LifeInv /\ BitInv /\ WaiterInsideWait
      /\ tpc[t] \in InWait /\ p \in Procs /\ obj[p] = "borrowed" /\ tbit[t] \in Bits
  BY DEF IInv, Wait, Register, CheckExited, SigWait, ClearWaiter, SigFree, ReadCode, OwnInv
<1>1. CASE Register(t)
  <2>1. TypeOK'
    BY <1>0, <1>1 DEF Register, TypeOK
  <2>2. OwnInv'
    BY <1>0, <1>1 DEF Register, OwnInv, TypeOK
  <2>3. LifeInv'
    BY <1>0, <1>1 DEF Register, LifeInv, TypeOK
  <2>4. BitInv'
    BY <1>0, <1>1 DEF Register, BitInv, TypeOK
  <2>5. WaiterInsideWait'
    BY <1>0, <1>1 DEF Register, WaiterInsideWait, OwnInv, BitInv, TypeOK
  <2>6. QED
    BY <2>1, <2>2, <2>3, <2>4, <2>5 DEF IInv
<1>2. CASE CheckExited(t)
  <2>1. TypeOK'
    BY <1>0, <1>2 DEF CheckExited, TypeOK
  <2>2. OwnInv'
    BY <1>0, <1>2 DEF CheckExited, OwnInv, TypeOK
  <2>3. LifeInv'
    BY <1>0, <1>2 DEF CheckExited, LifeInv, TypeOK
  <2>4. BitInv'
    BY <1>0, <1>2 DEF CheckExited, BitInv, TypeOK
  <2>5. WaiterInsideWait'
    BY <1>0, <1>2 DEF CheckExited, WaiterInsideWait, TypeOK
  <2>6. QED
    BY <2>1, <2>2, <2>3, <2>4, <2>5 DEF IInv
<1>3. CASE SigWait(t)
  <2>1. TypeOK'
    BY <1>0, <1>3 DEF SigWait, TypeOK
  <2>2. OwnInv'
    BY <1>0, <1>3 DEF SigWait, OwnInv, TypeOK
  <2>3. LifeInv'
    BY <1>0, <1>3 DEF SigWait, LifeInv, TypeOK
  <2>4. BitInv'
    BY <1>0, <1>3 DEF SigWait, BitInv, TypeOK
  <2>5. WaiterInsideWait'
    BY <1>0, <1>3 DEF SigWait, WaiterInsideWait, TypeOK
  <2>6. QED
    BY <2>1, <2>2, <2>3, <2>4, <2>5 DEF IInv
<1>4. CASE ClearWaiter(t)
  <2>1. TypeOK'
    BY <1>0, <1>4 DEF ClearWaiter, TypeOK
  <2>2. OwnInv'
    BY <1>0, <1>4 DEF ClearWaiter, OwnInv, TypeOK
  <2>3. LifeInv'
    BY <1>0, <1>4 DEF ClearWaiter, LifeInv, TypeOK
  <2>4. BitInv'
    BY <1>0, <1>4 DEF ClearWaiter, BitInv, TypeOK
  <2>5. WaiterInsideWait'
    BY <1>0, <1>4 DEF ClearWaiter, WaiterInsideWait, TypeOK
  <2>6. QED
    BY <2>1, <2>2, <2>3, <2>4, <2>5 DEF IInv
<1>5. CASE SigFree(t)
  <2>1. TypeOK'
    BY <1>0, <1>5 DEF SigFree, TypeOK
  <2>2. OwnInv'
    BY <1>0, <1>5 DEF SigFree, OwnInv, TypeOK
  <2>3. LifeInv'
    BY <1>0, <1>5 DEF SigFree, LifeInv, TypeOK
  <2>4. BitInv'
    BY <1>0, <1>5 DEF SigFree, BitInv, TypeOK
  <2>5. WaiterInsideWait'
    BY <1>0, <1>5 DEF SigFree, WaiterInsideWait, TypeOK
  <2>6. QED
    BY <2>1, <2>2, <2>3, <2>4, <2>5 DEF IInv
<1>6. CASE ReadCode(t)
  <2>1. TypeOK'
    <3>1. file' \in [Paths -> Procs \cup {None}]
      BY <1>0, <1>6 DEF ReadCode, Reap, RemoveScript, TypeOK
    <3>2. child[p] = "exited" /\ held[t] = {}
      BY <1>0, <1>6 DEF ReadCode, BitInv
    <3>3. QED
      BY <1>0, <1>6, <3>1, <3>2 DEF ReadCode, Reap, Return, ReportedCode, TypeOK
  <2>2. OwnInv'
    BY <1>0, <1>6 DEF ReadCode, Reap, Return, RemoveScript, ReportedCode, OwnInv, TypeOK
  <2>3. LifeInv'
    BY <1>0, <1>6 DEF ReadCode, Reap, Return, RemoveScript, ReportedCode, LifeInv, OwnInv, BitInv, TypeOK
  <2>4. BitInv'
    BY <1>0, <1>6 DEF ReadCode, Reap, Return, RemoveScript, ReportedCode, BitInv, TypeOK
  <2>5. WaiterInsideWait'
    BY <1>0, <1>6 DEF ReadCode, Reap, Return, RemoveScript, ReportedCode, WaiterInsideWait, TypeOK
  <2>6. QED
    BY <2>1, <2>2, <2>3, <2>4, <2>5 DEF IInv
<1>7. QED
  BY <1>1, <1>2, <1>3, <1>4, <1>5, <1>6 DEF Wait

(* Starting a spawn or a wait, polling, breaking and dropping a child. *)
LEMMA CallInv == ASSUME IInv, NEW t \in Tasks, NEW p \in Procs,
           \/ \E k \in Kinds : ResolveLine(t, p, k)
           \/ \E b \in Bits : WaitEnter(t, p, b)
           \/ TryWait(t, p) \/ Kill(t, p) \/ Drop(t, p)
    PROVE IInv'
<1> USE ProcessAssumption
    DEF childVars, objVars, fileVars, taskVars, signalVars, InSpawn, InWait, Holding, AfterExit
<1>0. /\ TypeOK /\ OwnInv /\ LifeInv /\ BitInv /\ WaiterInsideWait
      /\ tpc[t] = "idle"
  BY DEF IInv, ResolveLine, WaitEnter, TryWait, Kill, Drop, Usable
<1>1. CASE \E k \in Kinds : ResolveLine(t, p, k)
  <2>1. TypeOK'
    <3>1. PICK k \in Kinds : ResolveLine(t, p, k)
      BY <1>1
    <3>2. CASE k = "script"
      <4>1. ProgramOf[t] \in Programs
        OBVIOUS
      <4>2. seq' \in [Programs -> Nat]
        BY <1>0, <3>1, <3>2, <4>1 DEF ResolveLine, TypeOK
      <4>3. script' \in [Procs -> Paths \cup {None}]
        BY <1>0, <3>1, <3>2 DEF ResolveLine, TypeOK
      <4>4. /\ prog' \in [Procs -> Programs \cup {None}] /\ kind' \in [Procs -> Kinds \cup {None}]
            /\ obj' \in [Procs -> {"none", "spawning", "owned", "borrowed", "gone"}]
        BY <1>0, <3>1, <4>1 DEF ResolveLine, TypeOK
      <4>5. /\ tpc' = [tpc EXCEPT ![t] = "write"] /\ tp' = [tp EXCEPT ![t] = p]
            /\ UNCHANGED <<childVars, handle, waiter, status, file, tbit, signalVars>>
        BY <3>1, <3>2 DEF ResolveLine
      <4>6. QED
        BY <1>0, <4>2, <4>3, <4>4, <4>5 DEF TypeOK
    <3>3. CASE k # "script"
      BY <1>0, <3>1, <3>3 DEF ResolveLine, TypeOK
    <3>4. QED
      BY <3>2, <3>3
  <2>2. OwnInv'
    BY <1>0, <1>1 DEF ResolveLine, OwnInv, TypeOK
  <2>3. LifeInv'
    BY <1>0, <1>1 DEF ResolveLine, LifeInv, OwnInv, LifeInv, TypeOK
  <2>4. BitInv'
    <3>1. /\ UNCHANGED <<child, tbit, held, app>> /\ tpc[t] = "idle"
          /\ tpc'[t] \in {"write", "start"} /\ \A u \in Tasks \ {t} : tpc'[u] = tpc[u] /\ tp'[u] = tp[u]
      BY <1>0, <1>1 DEF ResolveLine, TypeOK
    <3>2. QED
      BY <1>0, <3>1 DEF BitInv
  <2>5. WaiterInsideWait'
    BY <1>0, <1>1 DEF ResolveLine, WaiterInsideWait, TypeOK
  <2>6. QED
    BY <2>1, <2>2, <2>3, <2>4, <2>5 DEF IInv
<1>2. CASE \E b \in Bits : WaitEnter(t, p, b)
  <2>1. TypeOK'
    BY <1>0, <1>2 DEF WaitEnter, Usable, TypeOK
  <2>2. OwnInv'
    BY <1>0, <1>2 DEF WaitEnter, Usable, OwnInv, TypeOK
  <2>3. LifeInv'
    BY <1>0, <1>2 DEF WaitEnter, Usable, LifeInv, OwnInv, TypeOK
  <2>4. BitInv'
    BY <1>0, <1>2 DEF WaitEnter, Usable, BitInv, TypeOK
  <2>5. WaiterInsideWait'
    BY <1>0, <1>2 DEF WaitEnter, Usable, WaiterInsideWait, TypeOK
  <2>6. QED
    BY <2>1, <2>2, <2>3, <2>4, <2>5 DEF IInv
<1>3. CASE TryWait(t, p)
  <2>1. TypeOK'
    BY <1>0, <1>3 DEF TryWait, Usable, Reap, RemoveScript, ReportedCode, TypeOK
  <2>2. OwnInv'
    BY <1>0, <1>3 DEF TryWait, Usable, Reap, RemoveScript, ReportedCode, OwnInv, TypeOK
  <2>3. LifeInv'
    BY <1>0, <1>3 DEF TryWait, Usable, Reap, RemoveScript, ReportedCode, LifeInv, TypeOK
  <2>4. BitInv'
    BY <1>0, <1>3 DEF TryWait, Usable, Reap, RemoveScript, ReportedCode, BitInv, TypeOK
  <2>5. WaiterInsideWait'
    BY <1>0, <1>3 DEF TryWait, Usable, Reap, RemoveScript, ReportedCode, WaiterInsideWait, TypeOK
  <2>6. QED
    BY <2>1, <2>2, <2>3, <2>4, <2>5 DEF IInv
<1>4. CASE Kill(t, p)
  <2>1. TypeOK'
    BY <1>0, <1>4 DEF Kill, Usable, TypeOK
  <2>2. OwnInv'
    BY <1>0, <1>4 DEF Kill, Usable, OwnInv, TypeOK
  <2>3. LifeInv'
    BY <1>0, <1>4 DEF Kill, Usable, LifeInv, TypeOK
  <2>4. BitInv'
    BY <1>0, <1>4 DEF Kill, Usable, BitInv, TypeOK
  <2>5. WaiterInsideWait'
    BY <1>0, <1>4 DEF Kill, Usable, WaiterInsideWait, TypeOK
  <2>6. QED
    BY <2>1, <2>2, <2>3, <2>4, <2>5 DEF IInv
<1>5. CASE Drop(t, p)
  <2>1. TypeOK'
    <3>1. file' \in [Paths -> Procs \cup {None}]
      BY <1>0, <1>5 DEF Drop, RemoveScript, TypeOK
    <3>2. handle' \in [Procs -> {"none", "live", "freed", "leaked"}]
      BY <1>0, <1>5 DEF Drop, TypeOK
    <3>3. script' \in [Procs -> Paths \cup {None}]
      BY <1>0, <1>5 DEF Drop, TypeOK
    <3>4. QED
      BY <1>0, <1>5, <3>1, <3>2, <3>3 DEF Drop, Usable, TypeOK
  <2>2. OwnInv'
    BY <1>0, <1>5 DEF Drop, Usable, RemoveScript, OwnInv, TypeOK
  <2>3. LifeInv'
    <3>1. /\ obj[p] = "owned" /\ obj' = [obj EXCEPT ![p] = "gone"]
          /\ UNCHANGED <<child, status, tpc, tp>>
      BY <1>5 DEF Drop, Usable
    <3>2. /\ \A q \in Procs \ {p} : handle'[q] = handle[q]
          /\ child[p] = "running" => handle'[p] = "leaked"
      BY <1>0, <1>5 DEF Drop, LifeInv, TypeOK
    <3>3. \A u \in Tasks : tpc[u] = "setup" => tp[u] \in Procs \ {p}
      BY <1>0, <3>1 DEF OwnInv
    <3>4. QED
      BY <1>0, <3>1, <3>2, <3>3 DEF LifeInv, TypeOK
  <2>4. BitInv'
    BY <1>0, <1>5 DEF Drop, Usable, RemoveScript, BitInv, TypeOK
  <2>5. WaiterInsideWait'
    BY <1>0, <1>5 DEF Drop, Usable, RemoveScript, WaiterInsideWait, TypeOK
  <2>6. QED
    BY <2>1, <2>2, <2>3, <2>4, <2>5 DEF IInv
<1>6. QED
  BY <1>1, <1>2, <1>3, <1>4, <1>5

(* Children exit, programs use their signals, tasks end. *)
LEMMA WorldInv == ASSUME IInv, \/ \E p \in Procs, c \in ExitCodes : ChildExit(p, c)
          \/ \E t \in Tasks : TaskEnd(t) \/ \E b \in Bits : AppSignal(t, b)
    PROVE IInv'
<1> USE ProcessAssumption
    DEF childVars, objVars, fileVars, taskVars, signalVars, InSpawn, InWait, Holding, AfterExit
<1>0. TypeOK /\ OwnInv /\ LifeInv /\ BitInv /\ WaiterInsideWait
  BY DEF IInv
<1>1. CASE \E p \in Procs, c \in ExitCodes : ChildExit(p, c)
  <2>1. TypeOK'
    BY <1>0, <1>1 DEF ChildExit, TypeOK
  <2>2. OwnInv'
    BY <1>0, <1>1 DEF ChildExit, OwnInv, TypeOK
  <2>3. LifeInv'
    BY <1>0, <1>1 DEF ChildExit, LifeInv, OwnInv, TypeOK
  <2>4. BitInv'
    BY <1>0, <1>1 DEF ChildExit, BitInv, OwnInv, TypeOK
  <2>5. WaiterInsideWait'
    BY <1>0, <1>1 DEF ChildExit, WaiterInsideWait, TypeOK
  <2>6. QED
    BY <2>1, <2>2, <2>3, <2>4, <2>5 DEF IInv
<1>2. CASE \E t \in Tasks : TaskEnd(t)
  <2>1. TypeOK'
    BY <1>0, <1>2 DEF TaskEnd, TypeOK
  <2>2. OwnInv'
    BY <1>0, <1>2 DEF TaskEnd, OwnInv, TypeOK
  <2>3. LifeInv'
    BY <1>0, <1>2 DEF TaskEnd, LifeInv, TypeOK
  <2>4. BitInv'
    BY <1>0, <1>2 DEF TaskEnd, BitInv, TypeOK
  <2>5. WaiterInsideWait'
    BY <1>0, <1>2 DEF TaskEnd, WaiterInsideWait, TypeOK
  <2>6. QED
    BY <2>1, <2>2, <2>3, <2>4, <2>5 DEF IInv
<1>3. CASE \E t \in Tasks, b \in Bits : AppSignal(t, b)
  <2>1. TypeOK'
    BY <1>0, <1>3 DEF AppSignal, TypeOK
  <2>2. OwnInv'
    BY <1>0, <1>3 DEF AppSignal, OwnInv, TypeOK
  <2>3. LifeInv'
    BY <1>0, <1>3 DEF AppSignal, LifeInv, TypeOK
  <2>4. BitInv'
    BY <1>0, <1>3 DEF AppSignal, BitInv, TypeOK
  <2>5. WaiterInsideWait'
    <3>1. PICK t \in Tasks, b \in Bits : AppSignal(t, b)
      BY <1>3
    <3>2. UNCHANGED <<waiter, tpc, tp, tbit, held>>
      BY <3>1 DEF AppSignal
    <3>3. \A u \in Tasks, c \in Bits : c \in held[u] \ app[u] => c \in held[u] \ app'[u]
      BY <1>0, <3>1 DEF AppSignal, TypeOK
    <3>4. QED
      BY <1>0, <3>2, <3>3 DEF WaiterInsideWait, TypeOK
  <2>6. QED
    BY <2>1, <2>2, <2>3, <2>4, <2>5 DEF IInv
<1>4. QED
  BY <1>1, <1>2, <1>3

(* The invariant is inductive. *)
LEMMA Inductive == IInv /\ [Next]_vars => IInv'
<1> SUFFICES ASSUME IInv, [Next]_vars PROVE IInv'
  OBVIOUS
<1>1. CASE Next
  BY <1>1, SpawnInv, WaitInv, CallInv, WorldInv DEF Next
<1>2. CASE UNCHANGED vars
  BY <1>2 DEF vars, childVars, objVars, fileVars, taskVars, signalVars, IInv, TypeOK,
     OwnInv, LifeInv, BitInv, WaiterInsideWait
<1>3. QED
  BY <1>1, <1>2

(* Every reachable state satisfies the inductive invariant. *)
THEOREM InvariantHolds == Spec => []IInv
BY InitInv, Inductive, PTL DEF Spec

(* The types hold; the handle the exit hook writes through is not released *)
(* while the child runs, and wait never uses one that was.                 *)
THEOREM HandlesSafe == Spec => [](TypeOK /\ HandleSafe)
<1>1. IInv => TypeOK /\ HandleSafe
  BY DEF IInv, OwnInv, LifeInv, HandleSafe, InWait
<1>2. QED
  BY <1>1, InvariantHolds, PTL

(* The exit hook only ever signals a task that is inside wait on its child *)
(* and holds the bit.                                                      *)
THEOREM ProcessSafe == Spec => []WaiterInsideWait
<1>1. IInv => WaiterInsideWait
  BY DEF IInv, OwnInv, LifeInv, InWait
<1>2. QED
  BY <1>1, InvariantHolds, PTL

(* A status is only ever set once, after the child's exit, to its exit code. *)
THEOREM WaitSound == Spec => WaitMeansExited
<1> DEFINE Sound == \A p \in Procs : status[p] # status'[p] =>
              /\ status[p] = None /\ child[p] = "exited" /\ status'[p] = code[p]
<1>1. IInv /\ [Next]_vars => [Sound]_vars
  <2> SUFFICES ASSUME IInv, Next PROVE Sound
    OBVIOUS
  <2>1. ASSUME NEW t \in Tasks, ReadCode(t) PROVE Sound
    <3>1. tp[t] \in Procs /\ obj[tp[t]] = "borrowed" /\ child[tp[t]] = "exited"
      BY <2>1 DEF IInv, ReadCode, OwnInv, BitInv, InWait, AfterExit
    <3>2. status[tp[t]] = None
      BY <3>1 DEF IInv, LifeInv
    <3>3. QED
      BY <2>1, <3>1, <3>2 DEF ReadCode, Reap, ReportedCode, IInv, TypeOK
  <2>2. ASSUME NEW t \in Tasks, NEW p \in Procs, TryWait(t, p) PROVE Sound
    BY <2>2 DEF TryWait, Reap, ReportedCode, IInv, TypeOK
  <2>3. CASE UNCHANGED status
    BY <2>3
  <2>4. QED
    BY <2>1, <2>2, <2>3
    DEF Next, Spawn, Wait, WriteScript, WriteScriptFails, NulByte, ProcSpawnFails, ProcSpawn,
        WriteSetup, Register, CheckExited, SigWait, ClearWaiter, SigFree, TaskEnd, AppSignal,
        ResolveLine, WaitEnter, Kill, Drop, ChildExit, objVars
<1>2. QED
  BY <1>1, InvariantHolds, PTL DEF Spec, WaitMeansExited

-----------------------------------------------------------------------------
(* The script files, for any number of programs.  The counter of a program   *)
(* keeps its own scripts apart; whoever else uses the path of a child's       *)
(* script is of another program, which has counted past that number.         *)

ScriptInv ==
    /\ \A p \in Procs : script[p] # None =>
          kind[p] = "script" /\ prog[p] \in Programs /\ script[p] < seq[prog[p]]
    /\ \A p, q \in Procs : script[p] # None /\ script[p] = script[q] /\ prog[p] = prog[q] => p = q
    /\ \A p \in Procs : status[p] # None \/ obj[p] = "none" => script[p] = None
    /\ \A t \in Tasks : tpc[t] = "write" => script[tp[t]] \in Paths

\* The children whose script is on the volume, unless another program has
\* its number.
Kept == {p \in Procs : script[p] \in Paths /\ (file[script[p]] = p \/ NumberTaken(p))}

KeptInv ==
    /\ \A p \in Procs : child[p] = "running" /\ kind[p] = "script" => p \in Kept
    /\ \A t \in Tasks : tpc[t] = "start" /\ kind[tp[t]] = "script" => tp[t] \in Kept

(* Every step keeps ScriptInv. *)
LEMMA ScriptStep == IInv /\ ScriptInv /\ [Next]_vars => ScriptInv'
<1> SUFFICES ASSUME IInv, ScriptInv, [Next]_vars PROVE ScriptInv'
  OBVIOUS
<1> USE ProcessAssumption
    DEF childVars, objVars, fileVars, taskVars, signalVars, InSpawn, InWait
<1>0. TypeOK /\ OwnInv /\ LifeInv /\ BitInv
  BY DEF IInv
<1>1. ASSUME NEW t \in Tasks, NEW p \in Procs, NEW k \in Kinds, ResolveLine(t, p, k)
      PROVE  ScriptInv'
  <2>1. CASE k = "script"
    <3> DEFINE g == ProgramOf[t]
    <3>1. g \in Programs /\ seq[g] \in Paths /\ seq[g] \in Nat /\ p \in Procs /\ script[p] = None
      BY <1>0, <1>1, <2>1 DEF ResolveLine, TypeOK, ScriptInv
    <3>2. /\ script' = [script EXCEPT ![p] = seq[g]] /\ seq' = [seq EXCEPT ![g] = @ + 1]
          /\ prog' = [prog EXCEPT ![p] = g] /\ kind' = [kind EXCEPT ![p] = "script"]
          /\ tp' = [tp EXCEPT ![t] = p] /\ tpc' = [tpc EXCEPT ![t] = "write"]
          /\ obj' = [obj EXCEPT ![p] = "spawning"] /\ obj[p] = "none" /\ UNCHANGED <<file, status>>
      BY <1>1, <2>1 DEF ResolveLine
    <3>3. \A q \in Procs : script[q] # None /\ prog[q] = g => script[q] < seq[g]
      BY DEF ScriptInv
    <3>5. \A q \in Procs : script'[q] # None =>
            kind'[q] = "script" /\ prog'[q] \in Programs /\ script'[q] < seq'[prog'[q]]
      <4> TAKE q \in Procs
      <4>1. CASE q = p
        BY <1>0, <3>1, <3>2, <4>1 DEF TypeOK, Paths
      <4>2. CASE q # p
        <5>1. script'[q] = script[q] /\ prog'[q] = prog[q] /\ kind'[q] = kind[q]
          BY <1>0, <3>2, <4>2 DEF TypeOK
        <5>2. CASE script[q] = None
          BY <5>1, <5>2
        <5>3. CASE script[q] # None
          <6>1. /\ kind[q] = "script" /\ prog[q] \in Programs /\ script[q] < seq[prog[q]]
                /\ script[q] \in Nat
            BY <1>0, <5>3 DEF ScriptInv, TypeOK, Paths
          <6>2. seq[prog[q]] \in Nat /\ seq'[prog[q]] \in {seq[prog[q]], seq[prog[q]] + 1}
            BY <1>0, <3>1, <3>2, <6>1 DEF TypeOK
          <6>3. QED
            BY <5>1, <6>1, <6>2
        <5>4. QED
          BY <5>2, <5>3
      <4>3. QED
        BY <4>1, <4>2
    <3>6. \A q, r \in Procs : script'[q] # None /\ script'[q] = script'[r] /\ prog'[q] = prog'[r] => q = r
      BY <1>0, <3>1, <3>2, <3>3 DEF ScriptInv, TypeOK, Paths
    <3>7. /\ \A q \in Procs : status'[q] # None \/ obj'[q] = "none" => script'[q] = None
          /\ \A u \in Tasks : tpc'[u] = "write" => script'[tp'[u]] \in Paths
      <4>1. status[p] = None
        BY <1>0, <3>2 DEF LifeInv, TypeOK
      <4>2. QED
        BY <1>0, <3>1, <3>2, <4>1 DEF ScriptInv, TypeOK, OwnInv
    <3>8. QED
      BY <3>5, <3>6, <3>7 DEF ScriptInv
  <2>2. CASE k # "script"
    <3>1. script[p] = None
      BY <1>1 DEF ResolveLine, ScriptInv
    <3>2. QED
      BY <1>0, <1>1, <2>2, <3>1 DEF ResolveLine, ScriptInv, TypeOK, OwnInv
  <2>3. QED
    BY <2>1, <2>2
<1>2. ASSUME NEW t \in Tasks, WriteScript(t) PROVE ScriptInv'
  <2>1. tp[t] \in Procs
    BY <1>0, <1>2 DEF WriteScript, OwnInv
  <2>2. QED
    BY <1>0, <1>2, <2>1 DEF WriteScript, ScriptInv, TypeOK
<1>3. ASSUME NEW t \in Tasks, WriteScriptFails(t) \/ NulByte(t) \/ ProcSpawnFails(t)
      PROVE  ScriptInv'
  <2>1. tp[t] \in Procs
    BY <1>0, <1>3 DEF WriteScriptFails, NulByte, ProcSpawnFails, OwnInv
  <2>2. Return(t, "gone") /\ UNCHANGED <<kind, prog, status, script, seq>>
    BY <1>3 DEF WriteScriptFails, NulByte, ProcSpawnFails
  <2>3. QED
    BY <1>0, <2>1, <2>2 DEF Return, ScriptInv, TypeOK
<1>4. ASSUME NEW t \in Tasks, ProcSpawn(t) \/ WriteSetup(t) PROVE ScriptInv'
  <2>1. tp[t] \in Procs
    BY <1>0, <1>4 DEF ProcSpawn, WriteSetup, OwnInv
  <2>2. /\ UNCHANGED <<kind, prog, status, script, file, seq>>
        /\ \A q \in Procs : obj'[q] = "none" => obj[q] = "none"
        /\ \A u \in Tasks : tpc'[u] = "write" => tpc[u] = "write" /\ tp'[u] = tp[u]
    BY <1>0, <1>4, <2>1 DEF ProcSpawn, WriteSetup, Return, TypeOK
  <2>3. QED
    BY <2>2 DEF ScriptInv
<1>5. ASSUME NEW t \in Tasks, ReadCode(t) PROVE ScriptInv'
  <2>1. tp[t] \in Procs
    BY <1>0, <1>5 DEF ReadCode, OwnInv
  <2>2. QED
    BY <1>0, <1>5, <2>1 DEF ReadCode, Reap, Return, RemoveScript, ScriptInv, TypeOK, OwnInv
<1>6. ASSUME NEW t \in Tasks, NEW p \in Procs, TryWait(t, p) PROVE ScriptInv'
  BY <1>0, <1>6 DEF TryWait, Usable, Reap, RemoveScript, ScriptInv, TypeOK, OwnInv
<1>7. ASSUME NEW t \in Tasks, NEW p \in Procs, Drop(t, p) PROVE ScriptInv'
  <2>1. CASE status[p] = None /\ child[p] = "running"
    <3>1. /\ UNCHANGED <<kind, prog, status, script, file, seq, tpc, tp>>
          /\ obj' = [obj EXCEPT ![p] = "gone"]
      BY <1>0, <1>7, <2>1 DEF Drop
    <3>2. QED
      BY <1>0, <3>1 DEF ScriptInv, TypeOK
  <2>2. CASE ~(status[p] = None /\ child[p] = "running")
    <3>1. /\ UNCHANGED <<kind, prog, status, seq, tpc, tp>>
          /\ RemoveScript(p) /\ script' = [script EXCEPT ![p] = None]
          /\ obj' = [obj EXCEPT ![p] = "gone"] /\ obj[p] = "owned"
      BY <1>0, <1>7, <2>2 DEF Drop, Usable
    <3>2. QED
      BY <1>0, <3>1 DEF RemoveScript, ScriptInv, TypeOK, OwnInv
  <2>3. QED
    BY <2>1, <2>2
<1>8. ASSUME UNCHANGED <<kind, prog, status, script, file, seq>>,
             \A q \in Procs : obj'[q] = "none" => obj[q] = "none",
             \A u \in Tasks : tpc'[u] = "write" => tpc[u] = "write" /\ tp'[u] = tp[u]
      PROVE  ScriptInv'
  BY <1>8 DEF ScriptInv
<1>9. ASSUME NEW t \in Tasks,
             \/ Register(t) \/ CheckExited(t) \/ SigWait(t) \/ ClearWaiter(t) \/ SigFree(t)
             \/ TaskEnd(t) \/ \E b \in Bits : AppSignal(t, b)
             \/ \E p \in Procs : Kill(t, p) \/ \E b \in Bits : WaitEnter(t, p, b)
      PROVE  ScriptInv'
  BY <1>0, <1>8, <1>9 DEF Register, CheckExited, SigWait, ClearWaiter, SigFree, TaskEnd,
     AppSignal, Kill, WaitEnter, TypeOK
<1>10. CASE (\E p \in Procs, c \in ExitCodes : ChildExit(p, c)) \/ UNCHANGED vars
  BY <1>8, <1>10 DEF ChildExit, vars
<1>11. QED
  BY <1>1, <1>2, <1>3, <1>4, <1>5, <1>6, <1>7, <1>9, <1>10 DEF Next, Spawn, Wait

(* A step that changes at most one file, whose path no other Process of the  *)
(* same program has, keeps what is known about the scripts of the others.    *)
LEMMA OthersKept ==
    ASSUME TypeOK, ScriptInv, NEW p \in Procs, NEW q \in Procs, q # p, q \in Kept,
           script[p] # None, \A n \in Paths : n # script[p] => file'[n] = file[n],
           UNCHANGED <<prog, seq>>, script'[q] = script[q]
    PROVE  q \in Kept'
<1>1. script[p] \in Nat /\ prog[p] \in Programs /\ script[p] < seq[prog[p]]
  BY DEF ScriptInv, TypeOK, Paths
<1>2. script[q] \in Paths /\ script[q] # None
  BY ProcessAssumption DEF Kept, Paths
<1>3. CASE script[q] = script[p]
  <2>1. prog[p] # prog[q]
    BY <1>2, <1>3 DEF ScriptInv
  <2>2. NumberTaken(q)
    BY <1>1, <1>3, <2>1 DEF NumberTaken
  <2>3. QED
    BY <1>2, <2>2 DEF Kept, NumberTaken
<1>4. CASE script[q] # script[p]
  BY <1>2, <1>4 DEF Kept, NumberTaken
<1>5. QED
  BY <1>3, <1>4

(* The same when p's script is removed, or its removal fails. *)
LEMMA RemoveKept ==
    ASSUME TypeOK, ScriptInv, NEW p \in Procs, RemoveScript(p), NEW q \in Procs, q # p, q \in Kept,
           UNCHANGED <<prog, seq>>, script'[q] = script[q]
    PROVE  q \in Kept'
<1>1. CASE UNCHANGED file
  BY <1>1 DEF Kept, NumberTaken
<1>2. CASE script[p] # None /\ file' = [file EXCEPT ![script[p]] = None]
  <2>1. \A n \in Paths : n # script[p] => file'[n] = file[n]
    BY <1>2 DEF TypeOK
  <2>2. QED
    BY <1>2, <2>1, OthersKept
<1>3. QED
  BY <1>1, <1>2 DEF RemoveScript

(* Every step keeps KeptInv. *)
LEMMA KeptStep == IInv /\ ScriptInv /\ KeptInv /\ [Next]_vars => KeptInv'
<1> SUFFICES ASSUME IInv, ScriptInv, KeptInv, [Next]_vars PROVE KeptInv'
  OBVIOUS
<1> USE ProcessAssumption
    DEF childVars, objVars, fileVars, taskVars, signalVars, InSpawn, InWait
<1>0. TypeOK /\ OwnInv /\ LifeInv /\ BitInv
  BY DEF IInv
<1>1. ASSUME NEW t \in Tasks, NEW p \in Procs, NEW k \in Kinds, ResolveLine(t, p, k)
      PROVE  KeptInv'
  <2>1. /\ child[p] = "none" /\ UNCHANGED <<child, file>> /\ obj[p] = "none"
        /\ kind' = [kind EXCEPT ![p] = k] /\ tp' = [tp EXCEPT ![t] = p]
        /\ \A q \in Procs : q # p => script'[q] = script[q] /\ prog'[q] = prog[q]
        /\ tpc' = [tpc EXCEPT ![t] = IF k = "script" THEN "write" ELSE "start"]
    BY <1>0, <1>1 DEF ResolveLine, LifeInv, TypeOK
  <2>2. \A g \in Programs : seq[g] \in Nat /\ seq'[g] \in Nat /\ seq[g] <= seq'[g]
    <3>1. seq \in [Programs -> Nat] /\ ProgramOf[t] \in Programs
      BY <1>0 DEF TypeOK
    <3>2. \/ seq' = [seq EXCEPT ![ProgramOf[t]] = @ + 1]
          \/ seq' = seq
      BY <1>1 DEF ResolveLine
    <3>3. QED
      BY <3>1, <3>2
  <2>3. \A q \in Procs : q # p /\ q \in Kept => q \in Kept'
    <3> SUFFICES ASSUME NEW q \in Procs, q # p, q \in Kept PROVE q \in Kept'
      OBVIOUS
    <3>1. /\ script[q] \in Paths /\ script[q] \in Nat /\ (file[script[q]] = q \/ NumberTaken(q))
          /\ script'[q] = script[q] /\ prog'[q] = prog[q] /\ file' = file
      BY <2>1 DEF Kept, Paths
    <3>2. NumberTaken(q) => NumberTaken(q)'
      <4> SUFFICES ASSUME NEW g \in Programs \ {prog[q]}, script[q] < seq[g] PROVE NumberTaken(q)'
        BY DEF NumberTaken
      <4>1. script[q] < seq'[g]
        BY <2>2, <3>1
      <4>2. QED
        BY <3>1, <4>1 DEF NumberTaken
    <3>3. QED
      BY <3>1, <3>2 DEF Kept
  <2>4. \A u \in Tasks : u # t /\ tpc[u] = "start" => tp[u] \in Procs \ {p}
    BY <1>0, <2>1 DEF OwnInv
  <2>5. \A q \in Procs : child'[q] = "running" /\ kind'[q] = "script" => q \in Kept'
    BY <1>0, <2>1, <2>3 DEF KeptInv, TypeOK
  <2>6. \A u \in Tasks : tpc'[u] = "start" /\ kind'[tp'[u]] = "script" =>
          tpc[u] = "start" /\ tp'[u] = tp[u] /\ tp[u] \in Procs \ {p} /\ kind[tp[u]] = "script"
    BY <1>0, <2>1, <2>4 DEF TypeOK
  <2>7. QED
    BY <2>3, <2>5, <2>6 DEF KeptInv
<1>2. ASSUME NEW t \in Tasks, tpc[t] \in {"write", "start"},
             UNCHANGED <<child, kind>>,
             \A q \in Procs : q # tp[t] /\ q \in Kept => q \in Kept',
             \/ tpc' = [tpc EXCEPT ![t] = "idle"] /\ tp' = [tp EXCEPT ![t] = None]
             \/ tpc' = [tpc EXCEPT ![t] = "start"] /\ tp' = tp /\ tp[t] \in Kept'
      PROVE  KeptInv'
  <2>1. child[tp[t]] = "none" /\ tp[t] \in Procs
    BY <1>0, <1>2 DEF LifeInv, OwnInv
  <2>2. \A u \in Tasks : u # t /\ tpc[u] = "start" => tp[u] \in Procs \ {tp[t]}
    BY <1>0, <1>2 DEF OwnInv
  <2>3. \A q \in Procs : child'[q] = "running" /\ kind'[q] = "script" => q \in Kept'
    BY <1>2, <2>1 DEF KeptInv
  <2>4. \A u \in Tasks : u # t => tpc'[u] = tpc[u] /\ tp'[u] = tp[u]
    BY <1>0, <1>2 DEF TypeOK
  <2>5. tpc'[t] = "start" => tp'[t] \in Kept'
    BY <1>0, <1>2 DEF TypeOK
  <2>6. QED
    BY <1>2, <2>2, <2>3, <2>4, <2>5 DEF KeptInv
<1>3. ASSUME NEW t \in Tasks, WriteScript(t) \/ WriteScriptFails(t) PROVE KeptInv'
  <2>1. /\ tpc[t] = "write" /\ tp[t] \in Procs /\ script[tp[t]] \in Paths /\ script[tp[t]] # None
        /\ UNCHANGED <<child, kind, script, prog, seq>>
        /\ \A n \in Paths : n # script[tp[t]] => file'[n] = file[n]
    BY <1>0, <1>3 DEF WriteScript, WriteScriptFails, OwnInv, ScriptInv, TypeOK, Paths
  <2>2. \A q \in Procs : q # tp[t] /\ q \in Kept => q \in Kept'
    BY <1>0, <2>1, OthersKept
  <2>3. CASE WriteScript(t)
    <3>1. tp[t] \in Kept' /\ tp' = tp /\ tpc' = [tpc EXCEPT ![t] = "start"]
      BY <1>0, <2>1, <2>3 DEF WriteScript, Kept, TypeOK
    <3>2. QED
      BY <1>2, <2>1, <2>2, <3>1
  <2>4. CASE WriteScriptFails(t)
    <3>1. tpc' = [tpc EXCEPT ![t] = "idle"] /\ tp' = [tp EXCEPT ![t] = None]
      BY <2>4 DEF WriteScriptFails, Return
    <3>2. QED
      BY <1>2, <2>1, <2>2, <3>1
  <2>5. QED
    BY <1>3, <2>3, <2>4
<1>4. ASSUME NEW t \in Tasks, ProcSpawnFails(t) PROVE KeptInv'
  <2>1. /\ tp[t] \in Procs /\ tpc[t] = "start" /\ UNCHANGED <<child, kind, script, prog, seq>>
        /\ tpc' = [tpc EXCEPT ![t] = "idle"] /\ tp' = [tp EXCEPT ![t] = None]
    BY <1>0, <1>4 DEF ProcSpawnFails, Return, OwnInv
  <2>2. \A q \in Procs : q # tp[t] /\ q \in Kept => q \in Kept'
    BY <1>0, <1>4, <2>1, RemoveKept DEF ProcSpawnFails
  <2>3. QED
    BY <1>2, <2>1, <2>2
<1>5. ASSUME NEW t \in Tasks, ProcSpawn(t) PROVE KeptInv'
  <2>1. /\ tp[t] \in Procs /\ tpc[t] = "start" /\ child' = [child EXCEPT ![tp[t]] = "running"]
        /\ UNCHANGED <<kind, script, file, prog, seq>>
    BY <1>0, <1>5 DEF ProcSpawn, OwnInv
  <2>2. \A u \in Tasks : tpc'[u] = "start" => tpc[u] = "start" /\ tp'[u] = tp[u]
    BY <1>0, <1>5, <2>1 DEF ProcSpawn, Return, TypeOK
  <2>3. Kept' = Kept
    BY <2>1 DEF Kept, NumberTaken
  <2>4. QED
    BY <1>0, <2>1, <2>2, <2>3 DEF KeptInv, TypeOK
<1>6. ASSUME NEW p \in Procs, child[p] # "running", obj[p] \in {"owned", "borrowed"},
             RemoveScript(p), script' = [script EXCEPT ![p] = None],
             UNCHANGED <<child, kind, prog, seq>>,
             \A u \in Tasks : tpc'[u] = "start" => tpc[u] = "start" /\ tp'[u] = tp[u]
      PROVE  KeptInv'
  <2>1. \A q \in Procs : q # p => script'[q] = script[q]
    BY <1>0, <1>6 DEF TypeOK
  <2>2. \A q \in Procs : q # p /\ q \in Kept => q \in Kept'
    BY <1>0, <1>6, <2>1, RemoveKept
  <2>3. \A u \in Tasks : tpc[u] = "start" => tp[u] \in Procs \ {p}
    BY <1>0, <1>6 DEF OwnInv
  <2>4. QED
    BY <1>6, <2>2, <2>3 DEF KeptInv
<1>7. ASSUME NEW t \in Tasks, ReadCode(t) PROVE KeptInv'
  <2>1. tp[t] \in Procs /\ child[tp[t]] = "exited" /\ obj[tp[t]] = "borrowed"
    BY <1>0, <1>7 DEF ReadCode, OwnInv, BitInv, AfterExit
  <2>2. \A u \in Tasks : tpc'[u] = "start" => tpc[u] = "start" /\ tp'[u] = tp[u]
    BY <1>0, <1>7 DEF ReadCode, Return, TypeOK
  <2>3. QED
    BY <1>6, <1>7, <2>1, <2>2 DEF ReadCode, Reap
<1>8. ASSUME NEW t \in Tasks, NEW p \in Procs, TryWait(t, p) PROVE KeptInv'
  BY <1>6, <1>8 DEF TryWait, Usable, Reap
<1>9. ASSUME UNCHANGED <<kind, script, file, prog, seq>>,
             \A q \in Procs : child'[q] = "running" => child[q] = "running",
             \A u \in Tasks : tpc'[u] = "start" => tpc[u] = "start" /\ tp'[u] = tp[u]
      PROVE  KeptInv'
  <2>1. Kept' = Kept
    BY <1>9 DEF Kept, NumberTaken
  <2>2. QED
    BY <1>9, <2>1 DEF KeptInv
<1>10. ASSUME NEW t \in Tasks, NEW p \in Procs, Drop(t, p) PROVE KeptInv'
  <2>1. obj[p] = "owned" /\ UNCHANGED <<child, kind, prog, seq, tpc, tp>>
    BY <1>10 DEF Drop, Usable
  <2>2. CASE status[p] = None /\ child[p] = "running"
    <3>1. UNCHANGED <<script, file>>
      BY <1>10, <2>2 DEF Drop
    <3>2. QED
      BY <1>9, <2>1, <3>1
  <2>3. CASE ~(status[p] = None /\ child[p] = "running")
    <3>1. RemoveScript(p) /\ script' = [script EXCEPT ![p] = None] /\ child[p] # "running"
      BY <1>0, <1>10, <2>3 DEF Drop, LifeInv
    <3>2. QED
      BY <1>6, <2>1, <3>1
  <2>4. QED
    BY <2>2, <2>3
<1>11. ASSUME NEW t \in Tasks,
              \/ NulByte(t) \/ WriteSetup(t)
              \/ Register(t) \/ CheckExited(t) \/ SigWait(t) \/ ClearWaiter(t) \/ SigFree(t)
              \/ TaskEnd(t) \/ \E b \in Bits : AppSignal(t, b)
              \/ \E p \in Procs : Kill(t, p) \/ \E b \in Bits : WaitEnter(t, p, b)
       PROVE  KeptInv'
  <2>1. \A u \in Tasks : tpc'[u] = "start" => tpc[u] = "start" /\ tp'[u] = tp[u]
    BY <1>0, <1>11 DEF NulByte, WriteSetup, Return, Register, CheckExited, SigWait, ClearWaiter,
       SigFree, TaskEnd, AppSignal, Kill, WaitEnter, TypeOK
  <2>2. UNCHANGED <<child, kind, script, file, prog, seq>>
    BY <1>11 DEF NulByte, WriteSetup, Return, Register, CheckExited, SigWait, ClearWaiter,
       SigFree, TaskEnd, AppSignal, Kill, WaitEnter
  <2>3. QED
    BY <1>9, <2>1, <2>2
<1>12. ASSUME NEW p \in Procs, NEW c \in ExitCodes, ChildExit(p, c) PROVE KeptInv'
  BY <1>0, <1>9, <1>12 DEF ChildExit, TypeOK
<1>13. CASE UNCHANGED vars
  BY <1>9, <1>13 DEF vars
<1>14. QED
  BY <1>1, <1>3, <1>4, <1>5, <1>7, <1>8, <1>10, <1>11, <1>12, <1>13 DEF Next, Spawn, Wait

(* The script of a running child stays on the volume and its own, for any   *)
(* number of programs, as long as no other program has counted past its     *)
(* number: the child's own program never disturbs it.                       *)
THEOREM ScriptsKept == Spec => []ScriptKept
<1>1. Init => ScriptInv /\ KeptInv
  BY ProcessAssumption DEF Init, ScriptInv, KeptInv
<1>2. KeptInv => ScriptKept
  BY DEF KeptInv, Kept, ScriptKept
<1>3. QED
  BY <1>1, <1>2, InvariantHolds, ScriptStep, KeptStep, PTL DEF Spec

-----------------------------------------------------------------------------
(* Command::output: proofs about CommandOutput for pipes, buffers and        *)
(* children of any size: output returns Ok only with everything the child    *)
(* wrote.                                                                    *)

\* A byte the child wrote to a pipe is in the pipe or in the vector of the
\* same stream.  Once output has failed nobody reads on, and writes go nowhere.
AccountInv ==
    \A s \in Streams : /\ got[s] <= wrote[s]
                       /\ s \in piped /\ rpc # "failed" => got[s] + pipe[s] = wrote[s]

\* A stream counts as done only when the child is gone and its pipe is empty;
\* the parent waits for the child only when every piped stream is.
DoneInv ==
    /\ rpc \in {"modes", "read", "again", "yield"} => piped = Streams
    /\ \A s \in Streams : done[s] => cpc = "exited" /\ pipe[s] = 0
    /\ rpc \in {"wait", "ok"} => \A s \in piped : cpc = "exited" /\ pipe[s] = 0
    /\ rpc = "to_end" => piped \in {{"out"}, {"err"}}
    /\ rpc = "ok" => cpc = "exited"

OutInv == OutTypeOK /\ AccountInv /\ DoneInv

(* Nothing has been written yet. *)
LEMMA OutInitInv == OutInit => OutInv
<1> SUFFICES ASSUME OutInit PROVE OutInv
  OBVIOUS
<1> USE OutputAssumption DEF OutInit, Streams
<1>1. OutTypeOK
  <2>1. rpc \in {"modes", "to_end", "wait"}
    OBVIOUS
  <2>2. /\ pipe \in [Streams -> 0 .. PipeSize] /\ wrote \in [Streams -> 0 .. MaxWrite]
        /\ got \in [Streams -> 0 .. MaxWrite] /\ intr \in 0 .. MaxIntr
    OBVIOUS
  <2>3. nonblock \in [Streams -> BOOLEAN] /\ done \in [Streams -> BOOLEAN]
    OBVIOUS
  <2>4. progressed \in BOOLEAN /\ piped \in SUBSET Streams
    OBVIOUS
  <2>5. QED
    BY <2>1, <2>2, <2>3, <2>4 DEF OutTypeOK
<1>2. AccountInv
  BY DEF AccountInv
<1>3. DoneInv
  BY DEF DoneInv
<1>4. QED
  BY <1>1, <1>2, <1>3 DEF OutInv

(* The body of the loop of read_output keeps the invariant. *)
LEMMA BodyInv ==
    ASSUME OutInv, rpc = "read", EndOfBody, UNCHANGED <<modeVars, writerVars>>,
           progressed' \in BOOLEAN, intr' \in 0 .. MaxIntr,
           \/ UNCHANGED <<pipe, got, done>>
           \/ UNCHANGED <<pipe, got>> /\ AtEof(cur) /\ done' = [done EXCEPT ![cur] = TRUE]
           \/ UNCHANGED done /\ ~done[cur] /\ \E n \in 1 .. Chunk : Readable(cur, n) /\ Take(cur, n)
    PROVE  OutInv'
<1> USE OutputAssumption DEF Streams, modeVars, writerVars, OutInv
<1>1. cur \in Streams /\ cur' \in Streams /\ rpc' \in {"read", "wait", "again", "yield"}
  BY DEF OutTypeOK, EndOfBody
<1>2. rpc' = "wait" => \A s \in Streams : done'[s]
  BY DEF EndOfBody
<1>3. CASE UNCHANGED <<pipe, got, done>>
  BY <1>1, <1>2, <1>3 DEF OutTypeOK, AccountInv, DoneInv
<1>4. CASE UNCHANGED <<pipe, got>> /\ AtEof(cur) /\ done' = [done EXCEPT ![cur] = TRUE]
  BY <1>1, <1>2, <1>4 DEF OutTypeOK, AccountInv, DoneInv, AtEof
<1>5. ASSUME NEW n \in 1 .. Chunk, Readable(cur, n), Take(cur, n), UNCHANGED done, ~done[cur]
      PROVE  OutInv'
  <2>1. /\ n \in Nat /\ n <= pipe[cur] /\ pipe[cur] \in 0 .. PipeSize /\ wrote[cur] \in 0 .. MaxWrite
        /\ got[cur] \in 0 .. MaxWrite
    BY <1>1, <1>5 DEF Readable, Least, OutTypeOK
  <2>2. got[cur] + pipe[cur] = wrote[cur]
    BY <1>1 DEF AccountInv, DoneInv
  <2>3. /\ pipe' = [pipe EXCEPT ![cur] = pipe[cur] - n] /\ got' = [got EXCEPT ![cur] = got[cur] + n]
        /\ pipe[cur] - n \in 0 .. PipeSize /\ got[cur] + n \in 0 .. MaxWrite
        /\ got[cur] + n + (pipe[cur] - n) = wrote[cur] /\ got[cur] + n <= wrote[cur]
    BY <1>5, <2>1, <2>2 DEF Take
  <2>4. OutTypeOK'
    BY <1>1, <1>5, <2>3 DEF OutTypeOK
  <2>5. AccountInv'
    BY <1>1, <2>3 DEF OutTypeOK, AccountInv
  <2>6. DoneInv'
    BY <1>1, <1>2, <1>5, <2>3 DEF OutTypeOK, DoneInv
  <2>7. QED
    BY <2>4, <2>5, <2>6
<1>6. QED
  BY <1>3, <1>4, <1>5

(* Every step of the parent keeps the invariant. *)
LEMMA ParentInv == ASSUME OutInv, Output \/ ReadFails PROVE OutInv'
<1> USE OutputAssumption DEF Streams, modeVars, writerVars, OutInv
<1>1. CASE SetModes
  BY <1>1 DEF SetModes, OutTypeOK, AccountInv, DoneInv
<1>2. CASE SkipDone \/ ReadEof \/ ReadWouldBlock \/ ReadInterrupted
  <2>1. progressed \in BOOLEAN /\ intr \in 0 .. MaxIntr
    BY DEF OutTypeOK
  <2>2. CASE SkipDone \/ ReadWouldBlock
    BY <2>1, <2>2, BodyInv DEF SkipDone, ReadWouldBlock
  <2>3. CASE ReadEof
    BY <2>1, <2>3, BodyInv DEF ReadEof
  <2>4. CASE ReadInterrupted
    <3>1. intr' \in 0 .. MaxIntr /\ progressed' \in BOOLEAN
      BY <2>1, <2>4 DEF ReadInterrupted
    <3>2. QED
      BY <2>4, <3>1, BodyInv DEF ReadInterrupted
  <2>5. QED
    BY <1>2, <2>2, <2>3, <2>4
<1>3. ASSUME NEW n \in 1 .. Chunk, ReadSome(n) PROVE OutInv'
  BY <1>3, BodyInv DEF ReadSome, OutTypeOK
<1>4. CASE NextTurn
  BY <1>4 DEF NextTurn, OutTypeOK, AccountInv, DoneInv
<1>5. CASE ReadToEnd
  <2>1. PICK s \in piped :
          /\ rpc = "to_end"
          /\ \/ \E n \in 1 .. Chunk : Readable(s, n) /\ Take(s, n) /\ UNCHANGED <<rpc, intr>>
             \/ AtEof(s) /\ rpc' = "wait" /\ UNCHANGED <<pipe, got, intr>>
             \/ intr < MaxIntr /\ intr' = intr + 1 /\ UNCHANGED <<pipe, got, rpc>>
          /\ UNCHANGED <<modeVars, writerVars, cur, done, progressed>>
    BY <1>5 DEF ReadToEnd
  <2>2. s \in Streams /\ piped = {s}
    BY <2>1 DEF OutTypeOK, DoneInv
  <2>3. ASSUME NEW n \in 1 .. Chunk, Readable(s, n), Take(s, n), UNCHANGED <<rpc, intr>>
        PROVE  OutInv'
    <3>1. /\ n \in Nat \ {0} /\ n <= pipe[s] /\ pipe[s] \in 0 .. PipeSize /\ wrote[s] \in 0 .. MaxWrite
          /\ got[s] \in 0 .. MaxWrite /\ ~done[s]
      BY <2>2, <2>3 DEF Readable, Least, OutTypeOK, DoneInv
    <3>2. got[s] + pipe[s] = wrote[s]
      BY <2>1, <2>2 DEF AccountInv
    <3>3. /\ pipe' = [pipe EXCEPT ![s] = pipe[s] - n] /\ got' = [got EXCEPT ![s] = got[s] + n]
          /\ pipe[s] - n \in 0 .. PipeSize /\ got[s] + n \in 0 .. MaxWrite
          /\ got[s] + n + (pipe[s] - n) = wrote[s] /\ got[s] + n <= wrote[s]
      BY <2>3, <3>1, <3>2 DEF Take
    <3>4. OutTypeOK'
      BY <2>1, <2>2, <2>3, <3>3 DEF OutTypeOK
    <3>5. AccountInv'
      BY <2>1, <2>2, <3>3 DEF OutTypeOK, AccountInv
    <3>6. DoneInv'
      BY <2>1, <2>2, <2>3, <3>1, <3>3 DEF OutTypeOK, DoneInv
    <3>7. QED
      BY <3>4, <3>5, <3>6
  <2>4. CASE AtEof(s) /\ rpc' = "wait" /\ UNCHANGED <<pipe, got, intr>>
    BY <2>1, <2>2, <2>4 DEF AtEof, OutTypeOK, AccountInv, DoneInv
  <2>5. CASE intr < MaxIntr /\ intr' = intr + 1 /\ UNCHANGED <<pipe, got, rpc>>
    BY <2>1, <2>5 DEF OutTypeOK, AccountInv, DoneInv
  <2>6. QED
    BY <2>1, <2>3, <2>4, <2>5
<1>6. CASE WaitChild
  BY <1>6 DEF WaitChild, OutTypeOK, AccountInv, DoneInv
<1>7. CASE ReadFails
  BY <1>7 DEF ReadFails, OutTypeOK, AccountInv, DoneInv
<1>8. QED
  BY <1>1, <1>2, <1>3, <1>4, <1>5, <1>6, <1>7 DEF Output, ReadOutput

(* Every step of the child keeps the invariant. *)
LEMMA ChildInv == ASSUME OutInv, Child PROVE OutInv'
<1> USE OutputAssumption DEF Streams, modeVars, parentVars, OutInv
<1>1. CASE ChildExits
  BY <1>1 DEF ChildExits, OutTypeOK, AccountInv, DoneInv
<1>2. ASSUME NEW s \in Streams, ChildBegins(s) PROVE OutInv'
  BY <1>2 DEF ChildBegins, OutTypeOK, AccountInv, DoneInv
<1>3. ASSUME NEW n \in 1 .. MaxWrite, ChildWrites(n) PROVE OutInv'
  <2> DEFINE s == cpc
  <2>1. /\ s \in Streams /\ cpc' = "run" /\ wrote' = [wrote EXCEPT ![s] = wrote[s] + n]
        /\ n \in Nat /\ wrote[s] + n \in 0 .. MaxWrite /\ wrote[s] \in Nat
        /\ UNCHANGED <<modeVars, parentVars>>
    BY <1>3 DEF ChildWrites, OutTypeOK
  <2>2. \A q \in Streams : got[q] \in Nat /\ got[q] <= wrote[q] /\ ~done[q]
    BY <2>1 DEF AccountInv, DoneInv, OutTypeOK
  <2>3. rpc \in {"wait", "ok"} => piped = {}
    BY <2>1 DEF DoneInv, OutTypeOK
  <2>4. CASE s \in piped /\ rpc # "failed"
    <3>1. pipe' = [pipe EXCEPT ![s] = pipe[s] + n] /\ pipe[s] + n \in 0 .. PipeSize /\ pipe[s] \in Nat
      BY <1>3, <2>1, <2>4 DEF ChildWrites, OutTypeOK
    <3>2. OutTypeOK'
      BY <2>1, <3>1 DEF OutTypeOK
    <3>3. AccountInv'
      BY <2>1, <2>2, <3>1 DEF OutTypeOK, AccountInv
    <3>4. DoneInv'
      BY <2>1, <2>2, <2>3, <2>4 DEF DoneInv
    <3>5. QED
      BY <3>2, <3>3, <3>4
  <2>5. CASE ~(s \in piped /\ rpc # "failed")
    <3>1. UNCHANGED pipe
      BY <1>3, <2>5 DEF ChildWrites
    <3>2. OutTypeOK'
      BY <2>1, <3>1 DEF OutTypeOK
    <3>3. AccountInv'
      BY <2>1, <2>2, <2>5, <3>1 DEF OutTypeOK, AccountInv
    <3>4. DoneInv'
      BY <2>1, <2>2, <2>3, <3>1 DEF DoneInv
    <3>5. QED
      BY <3>2, <3>3, <3>4
  <2>6. QED
    BY <2>4, <2>5
<1>4. QED
  BY <1>1, <1>2, <1>3 DEF Child

(* Every reachable state satisfies the inductive invariant. *)
THEOREM OutInvariant == OutSpec => []OutInv
<1>1. OutInv /\ [OutNext]_outVars => OutInv'
  <2> SUFFICES ASSUME OutInv, [OutNext]_outVars PROVE OutInv'
    OBVIOUS
  <2>1. CASE OutNext
    BY <2>1, ParentInv, ChildInv DEF OutNext
  <2>2. CASE UNCHANGED outVars
    BY <2>2 DEF outVars, modeVars, writerVars, parentVars, OutInv, OutTypeOK, AccountInv, DoneInv
  <2>3. QED
    BY <2>1, <2>2
<1>2. QED
  BY <1>1, OutInitInv, PTL DEF OutSpec

(* output returns Ok only with everything the child wrote to each pipe.     *)
THEOREM CaptureComplete == OutSpec => [](OutTypeOK /\ CompleteCapture)
<1>1. OutInv => OutTypeOK /\ CompleteCapture
  <2> SUFFICES ASSUME OutInv, rpc = "ok", NEW s \in piped PROVE cpc = "exited" /\ got[s] = wrote[s]
    BY DEF OutInv, CompleteCapture, DoneInv
  <2>1. got[s] + pipe[s] = wrote[s] /\ pipe[s] = 0 /\ got[s] \in Nat
    BY DEF OutInv, OutTypeOK, AccountInv, DoneInv
  <2>2. QED
    BY <2>1 DEF OutInv, DoneInv
<1>2. QED
  BY <1>1, OutInvariant, PTL
=============================================================================
