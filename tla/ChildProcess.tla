---------------------------- MODULE ChildProcess ----------------------------
(***************************************************************************)
(* Child processes on AROS: library/std/src/sys/process/aros.rs.           *)
(*                                                                         *)
(* Tasks of one or several Rust programs spawn children, wait for them     *)
(* with an exec signal, poll, break and drop them, while the children run  *)
(* and exit on their own.  A `Process` is used through &mut, so one task   *)
(* at a time works on it, and it may move between the tasks of its         *)
(* program.  A command with its own environment runs from a script file on *)
(* the MacRW: volume, which every program on the machine shares.           *)
(*                                                                         *)
(* The C glue (process and signal calls) is external, modelled by what the *)
(* code asks of it: the exit hook runs under Forbid, so it records the     *)
(* exit code in the handle and signals the registered waiter in one step,  *)
(* and set_waiter is atomic with respect to it.  AllocSignal is not        *)
(* assumed to clear a signal that is already pending on the bit.           *)
(***************************************************************************)
EXTENDS Naturals

CONSTANTS
    Procs,        \* the spawns that are ever attempted
    Tasks,        \* the tasks of all programs
    Programs,     \* the Rust programs that run at the same time
    ProgramOf,    \* the program each task belongs to
    Bits,         \* the signal bits of a task that are not reserved
    SignalUsers,  \* the tasks that use signal bits for other things as well
    ExitCodes,    \* what children exit with
    Polling,      \* the children that poll for break and honour it
    MaxScripts,   \* bound on the script files one program creates
    None          \* no value

ASSUME ProcessAssumption ==
    /\ ProgramOf \in [Tasks -> Programs]
    /\ MaxScripts \in Nat
    /\ Polling \subseteq Procs /\ SignalUsers \subseteq Tasks
    /\ None \notin ExitCodes \cup Procs \cup Tasks \cup Bits \cup Programs \cup Nat
    /\ None \notin Tasks \X Bits

Paths == 0 .. MaxScripts - 1    \* MacRW:rustcmd-<n>.aros

VARIABLES
    child,    \* the child itself: "none", "running" or "exited"
    code,     \* the exit code the hook left in the handle
    brk,      \* a break signal has been sent to the child
    handle,   \* the glue's allocation: "none", "live", "freed" or "leaked"
    waiter,   \* who the handle says to signal on exit: a task and its bit
    obj,      \* the Process value: "none", "spawning", "owned", "borrowed" or "gone"
    kind,     \* the shape of the command: "plain", "script" or "shell"
    prog,     \* the program that spawned it
    status,   \* Process.status
    script,   \* Process.script: a path or None
    file,     \* the script files on the volume: which spawn wrote each
    seq,      \* SCRIPT_SEQ of each program
    tpc,      \* where each task is in spawn or wait
    tp,       \* the process it works on
    tbit,     \* the signal bit `wait` uses
    held,     \* the bits `wait` has allocated on each task
    app,      \* the bits the rest of the program has allocated on each task
    pend      \* the bits signalled on each task

childVars  == <<child, code, brk>>
objVars    == <<obj, kind, prog, status, script>>
fileVars   == <<file, seq>>
taskVars   == <<tpc, tp, tbit>>
signalVars == <<held, app, pend>>
vars == <<childVars, handle, waiter, objVars, fileVars, taskVars, signalVars>>

InSpawn == {"write", "start", "setup"}
InWait  == {"register", "check", "sleep", "clear", "free", "read"}

Init ==
    /\ child = [p \in Procs |-> "none"]
    /\ code = [p \in Procs |-> None]
    /\ brk = [p \in Procs |-> FALSE]
    /\ handle = [p \in Procs |-> "none"]
    /\ waiter = [p \in Procs |-> None]
    /\ obj = [p \in Procs |-> "none"]
    /\ kind = [p \in Procs |-> None]
    /\ prog = [p \in Procs |-> None]
    /\ status = [p \in Procs |-> None]
    /\ script = [p \in Procs |-> None]
    /\ file = [n \in Paths |-> None]
    /\ seq = [g \in Programs |-> 0]
    /\ tpc = [t \in Tasks |-> "idle"]
    /\ tp = [t \in Tasks |-> None]
    /\ tbit = [t \in Tasks |-> None]
    /\ held = [t \in Tasks |-> {}]
    /\ app = [t \in Tasks |-> {}]
    /\ pend = [t \in Tasks |-> {}]

-----------------------------------------------------------------------------
(* Helpers *)

\* `let _ = remove_file` on a script path, whoever wrote the file last: when it
\* fails the file stays and nobody is told.
RemoveScript(p) ==
    \/ UNCHANGED file
    \/ script[p] # None /\ file' = [file EXCEPT ![script[p]] = None]

\* A task works on a Process it can reach and nobody else is using.
Usable(t, p) == tpc[t] = "idle" /\ obj[p] = "owned" /\ prog[p] = ProgramOf[t]

\* The call of task t ends and leaves the Process in state o.
Return(t, o) ==
    /\ obj' = [obj EXCEPT ![tp[t]] = o]
    /\ tpc' = [tpc EXCEPT ![t] = "idle"]
    /\ tp' = [tp EXCEPT ![t] = None]

-----------------------------------------------------------------------------
(* Command::spawn *)

\* resolve_line: a command with an environment reserves a script path.
ResolveLine(t, p, k) ==
    /\ tpc[t] = "idle" /\ obj[p] = "none"
    /\ obj' = [obj EXCEPT ![p] = "spawning"]
    /\ kind' = [kind EXCEPT ![p] = k]
    /\ prog' = [prog EXCEPT ![p] = ProgramOf[t]]
    /\ tp' = [tp EXCEPT ![t] = p]
    /\ \/ /\ k = "script" /\ seq[ProgramOf[t]] \in Paths
          /\ script' = [script EXCEPT ![p] = seq[ProgramOf[t]]]
          /\ seq' = [seq EXCEPT ![ProgramOf[t]] = @ + 1]
          /\ tpc' = [tpc EXCEPT ![t] = "write"]
       \/ /\ k # "script"
          /\ tpc' = [tpc EXCEPT ![t] = "start"]
          /\ UNCHANGED <<script, seq>>
    /\ UNCHANGED <<childVars, handle, waiter, status, file, tbit, signalVars>>

\* write_script creates or truncates the file, then writes it.
WriteScript(t) ==
    /\ tpc[t] = "write"
    /\ file' = [file EXCEPT ![script[tp[t]]] = tp[t]]
    /\ tpc' = [tpc EXCEPT ![t] = "start"]
    /\ UNCHANGED <<childVars, handle, waiter, objVars, seq, tp, tbit, signalVars>>

\* The open fails and nothing is created, or a write fails and `?` returns
\* with the file there.
WriteScriptFails(t) ==
    /\ tpc[t] = "write"
    /\ \/ UNCHANGED file
       \/ file' = [file EXCEPT ![script[tp[t]]] = tp[t]]
    /\ Return(t, "gone")
    /\ UNCHANGED <<childVars, handle, waiter, kind, prog, status, script, seq, tbit, signalVars>>

\* cstr refuses the line or the working directory: they hold a NUL byte.
NulByte(t) ==
    /\ tpc[t] = "start"
    /\ Return(t, "gone")
    /\ UNCHANGED <<childVars, handle, waiter, kind, prog, status, script, fileVars, tbit, signalVars>>

\* aros_proc_spawn returns null.
ProcSpawnFails(t) ==
    /\ tpc[t] = "start"
    /\ RemoveScript(tp[t])
    /\ Return(t, "gone")
    /\ UNCHANGED <<childVars, handle, waiter, kind, prog, status, script, seq, tbit, signalVars>>

MutProcSpawn(t) ==
    LET p == tp[t] IN
    /\ tpc[t] = "start"
    /\ child' = [child EXCEPT ![p] = "running"]
    /\ handle' = [handle EXCEPT ![p] = "live"]
    /\ RemoveScript(p)
    /\ Return(t, "owned")
    /\ UNCHANGED <<code, brk, waiter, kind, prog, status, script, seq, tbit, signalVars>>

\* aros_proc_spawn succeeds; an interactive shell still gets its environment.
ProcSpawn(t) ==
    LET p == tp[t] IN
    /\ tpc[t] = "start"
    /\ child' = [child EXCEPT ![p] = "running"]
    /\ handle' = [handle EXCEPT ![p] = "live"]
    /\ \/ /\ kind[p] = "shell"
          /\ tpc' = [tpc EXCEPT ![t] = "setup"]
          /\ UNCHANGED <<obj, tp>>
       \/ kind[p] # "shell" /\ Return(t, "owned")
    /\ UNCHANGED <<code, brk, waiter, kind, prog, status, script, fileVars, tbit, signalVars>>

\* The setup lines are written to the shell's stdin; when that fails `?`
\* returns before there is a Process, and the handle stays allocated.
WriteSetup(t) ==
    /\ tpc[t] = "setup"
    /\ \/ Return(t, "owned") /\ UNCHANGED handle
       \/ Return(t, "gone") /\ handle' = [handle EXCEPT ![tp[t]] = "leaked"]
    /\ UNCHANGED <<childVars, waiter, kind, prog, status, script, fileVars, tbit, signalVars>>

Spawn(t) ==
    \/ WriteScript(t) \/ WriteScriptFails(t) \/ NulByte(t)
    \/ ProcSpawnFails(t) \/ ProcSpawn(t) \/ WriteSetup(t)

-----------------------------------------------------------------------------
(* Process::wait *)

\* With a status there is nothing to do, and with no free signal the call
\* returns an error: neither changes any state.
WaitEnter(t, p, b) ==
    /\ Usable(t, p) /\ status[p] = None
    /\ b \notin held[t] \cup app[t]
    /\ held' = [held EXCEPT ![t] = @ \cup {b}]
    /\ tbit' = [tbit EXCEPT ![t] = b]
    /\ obj' = [obj EXCEPT ![p] = "borrowed"]
    /\ tp' = [tp EXCEPT ![t] = p]
    /\ tpc' = [tpc EXCEPT ![t] = "register"]
    /\ UNCHANGED <<childVars, handle, waiter, kind, prog, status, script, fileVars, app, pend>>

MutRegister(t) ==
    /\ tpc[t] = "register"
    /\ waiter' = [waiter EXCEPT ![tp[t]] = <<t, tbit[t]>>]
    /\ tpc' = [tpc EXCEPT ![t] = "sleep"]
    /\ UNCHANGED <<childVars, handle, objVars, fileVars, tp, tbit, signalVars>>

\* set_waiter tells whether the child has already exited.
Register(t) ==
    /\ tpc[t] = "register"
    /\ waiter' = [waiter EXCEPT ![tp[t]] = <<t, tbit[t]>>]
    /\ tpc' = [tpc EXCEPT ![t] = IF child[tp[t]] = "exited" THEN "clear" ELSE "check"]
    /\ UNCHANGED <<childVars, handle, objVars, fileVars, tp, tbit, signalVars>>

CheckExited(t) ==
    /\ tpc[t] = "check"
    /\ tpc' = [tpc EXCEPT ![t] = IF child[tp[t]] = "exited" THEN "clear" ELSE "sleep"]
    /\ UNCHANGED <<childVars, handle, waiter, objVars, fileVars, tp, tbit, signalVars>>

MutSigWait(t) ==
    /\ tpc[t] = "sleep" /\ tbit[t] \in pend[t]
    /\ pend' = [pend EXCEPT ![t] = @ \ {tbit[t]}]
    /\ tpc' = [tpc EXCEPT ![t] = "clear"]
    /\ UNCHANGED <<childVars, handle, waiter, objVars, fileVars, tp, tbit, held, app>>

\* aros_sig_wait returns once the bit is signalled; the loop starts again.
SigWait(t) ==
    /\ tpc[t] = "sleep" /\ tbit[t] \in pend[t]
    /\ pend' = [pend EXCEPT ![t] = @ \ {tbit[t]}]
    /\ tpc' = [tpc EXCEPT ![t] = "register"]
    /\ UNCHANGED <<childVars, handle, waiter, objVars, fileVars, tp, tbit, held, app>>

MutClearWaiter(t) ==
    /\ tpc[t] = "clear"
    /\ tpc' = [tpc EXCEPT ![t] = "free"]
    /\ UNCHANGED <<childVars, handle, waiter, objVars, fileVars, tp, tbit, signalVars>>

ClearWaiter(t) ==
    /\ tpc[t] = "clear"
    /\ waiter' = [waiter EXCEPT ![tp[t]] = None]
    /\ tpc' = [tpc EXCEPT ![t] = "free"]
    /\ UNCHANGED <<childVars, handle, objVars, fileVars, tp, tbit, signalVars>>

SigFree(t) ==
    /\ tpc[t] = "free"
    /\ held' = [held EXCEPT ![t] = @ \ {tbit[t]}]
    /\ tpc' = [tpc EXCEPT ![t] = "read"]
    /\ UNCHANGED <<childVars, handle, waiter, objVars, fileVars, tp, tbit, app, pend>>

\* aros_proc_exited leaves `code` at its initial 0 while the child runs.
ReportedCode(p) == IF child[p] = "exited" THEN code[p] ELSE 0

\* Process::reap: remember the status, remove the script.
Reap(p) ==
    /\ status' = [status EXCEPT ![p] = ReportedCode(p)]
    /\ RemoveScript(p)
    /\ script' = [script EXCEPT ![p] = None]

ReadCode(t) ==
    /\ tpc[t] = "read"
    /\ Reap(tp[t])
    /\ Return(t, "owned")
    /\ UNCHANGED <<childVars, handle, waiter, kind, prog, seq, tbit, signalVars>>

Wait(t) ==
    \/ Register(t) \/ CheckExited(t) \/ SigWait(t)
    \/ ClearWaiter(t) \/ SigFree(t) \/ ReadCode(t)

-----------------------------------------------------------------------------
(* Process::try_wait, Process::kill and Drop *)

\* A child that has not exited, or is already reaped, changes nothing.
TryWait(t, p) ==
    /\ Usable(t, p) /\ status[p] = None /\ child[p] = "exited"
    /\ Reap(p)
    /\ UNCHANGED <<childVars, handle, waiter, obj, kind, prog, seq, taskVars, signalVars>>

\* The break is found a target by CLI number: an exited child gets nothing.
Kill(t, p) ==
    /\ Usable(t, p) /\ status[p] = None /\ child[p] = "running"
    /\ brk' = [brk EXCEPT ![p] = TRUE]
    /\ UNCHANGED <<child, code, handle, waiter, objVars, fileVars, taskVars, signalVars>>

MutDrop(t, p) ==
    /\ Usable(t, p)
    /\ obj' = [obj EXCEPT ![p] = "gone"]
    /\ handle' = [handle EXCEPT ![p] = "freed"]
    /\ RemoveScript(p) /\ script' = [script EXCEPT ![p] = None]
    /\ UNCHANGED <<childVars, waiter, kind, prog, status, seq, taskVars, signalVars>>

\* Drop leaks the handle, and with it the script, of a child still running.
Drop(t, p) ==
    /\ Usable(t, p)
    /\ obj' = [obj EXCEPT ![p] = "gone"]
    /\ \/ /\ status[p] = None /\ child[p] = "running"
          /\ handle' = [handle EXCEPT ![p] = "leaked"]
          /\ UNCHANGED <<script, file>>
       \/ /\ status[p] # None \/ child[p] = "exited"
          /\ handle' = [handle EXCEPT ![p] = "freed"]
          /\ RemoveScript(p)
          /\ script' = [script EXCEPT ![p] = None]
    /\ UNCHANGED <<childVars, waiter, kind, prog, status, seq, taskVars, signalVars>>

-----------------------------------------------------------------------------
(* The world outside the code: children exit, tasks use and end. *)

\* The exit hook: the code goes into the handle and the waiter is signalled.
ChildExit(p, c) ==
    /\ child[p] = "running"
    /\ child' = [child EXCEPT ![p] = "exited"]
    /\ code' = [code EXCEPT ![p] = c]
    /\ pend' = IF waiter[p] = None THEN pend
               ELSE [pend EXCEPT ![waiter[p][1]] = @ \cup {waiter[p][2]}]
    /\ UNCHANGED <<brk, handle, waiter, objVars, fileVars, taskVars, held, app>>

\* The rest of the program allocates and frees bits, and they get signalled.
AppSignal(t, b) ==
    /\ t \in SignalUsers /\ tpc[t] = "idle"
    /\ \/ /\ b \notin held[t] \cup app[t]
          /\ app' = [app EXCEPT ![t] = @ \cup {b}]
          /\ pend' = [pend EXCEPT ![t] = @ \cup {b}]
       \/ /\ b \in app[t]
          /\ app' = [app EXCEPT ![t] = @ \ {b}]
          /\ UNCHANGED pend
    /\ UNCHANGED <<childVars, handle, waiter, objVars, fileVars, taskVars, held>>

TaskEnd(t) ==
    /\ tpc[t] = "idle"
    /\ tpc' = [tpc EXCEPT ![t] = "ended"]
    /\ UNCHANGED <<childVars, handle, waiter, objVars, fileVars, tp, tbit, signalVars>>

Kinds == {"plain", "script", "shell"}

Next ==
    \/ \E t \in Tasks :
        \/ Spawn(t) \/ Wait(t) \/ TaskEnd(t)
        \/ \E b \in Bits : AppSignal(t, b)
        \/ \E p \in Procs :
            \/ \E k \in Kinds : ResolveLine(t, p, k)
            \/ \E b \in Bits : WaitEnter(t, p, b)
            \/ TryWait(t, p) \/ Kill(t, p) \/ Drop(t, p)
    \/ \E p \in Procs, c \in ExitCodes : ChildExit(p, c)

(* exec schedules a ready task, so a wait that can go on does; a child     *)
(* that polls for break ends once it is broken.  No other child has to.    *)
Fairness ==
    /\ \A t \in Tasks : WF_vars(Wait(t))
    /\ \A p \in Polling : WF_vars(brk[p] /\ \E c \in ExitCodes : ChildExit(p, c))

Spec == Init /\ [][Next]_vars /\ Fairness

-----------------------------------------------------------------------------
(* Properties *)

\* The types of the state; and wait has given its signal bit back whenever a
\* task is outside wait, however the call ended.
TypeOK ==
    /\ child \in [Procs -> {"none", "running", "exited"}]
    /\ code \in [Procs -> ExitCodes \cup {None}]
    /\ brk \in [Procs -> BOOLEAN]
    /\ handle \in [Procs -> {"none", "live", "freed", "leaked"}]
    /\ waiter \in [Procs -> (Tasks \X Bits) \cup {None}]
    /\ obj \in [Procs -> {"none", "spawning", "owned", "borrowed", "gone"}]
    /\ kind \in [Procs -> Kinds \cup {None}]
    /\ prog \in [Procs -> Programs \cup {None}]
    /\ status \in [Procs -> ExitCodes \cup {0, None}]
    /\ script \in [Procs -> Paths \cup {None}]
    /\ file \in [Paths -> Procs \cup {None}]
    /\ seq \in [Programs -> Nat]
    /\ tpc \in [Tasks -> {"idle", "ended"} \cup InSpawn \cup InWait]
    /\ tp \in [Tasks -> Procs \cup {None}]
    /\ tbit \in [Tasks -> Bits \cup {None}]
    /\ held \in [Tasks -> SUBSET Bits]
    /\ \A t \in Tasks : held[t] # {} => tpc[t] \in InWait
    /\ app \in [Tasks -> SUBSET Bits]
    /\ pend \in [Tasks -> SUBSET Bits]

\* "The exit hook writes through `handle`, so it may only be released once the
\* child is known to be gone", and wait never uses a handle that was released.
HandleSafe ==
    /\ \A p \in Procs : child[p] = "running" => handle[p] \in {"live", "leaked"}
    /\ \A t \in Tasks : tpc[t] \in InWait => handle[tp[t]] = "live"

\* "The exit signal is allocated on, and delivered to, this task, and only
\* while we are actually inside the wait": a handle names a waiter only while
\* that task is in wait on that child and holds that bit, so the hook never
\* signals an ended task or a bit somebody else owns.
WaiterInsideWait ==
    \A p \in Procs : waiter[p] # None =>
        LET t == waiter[p][1] IN
        /\ tpc[t] \in {"register", "check", "sleep", "clear"}
        /\ tp[t] = p /\ tbit[t] = waiter[p][2]
        /\ tbit[t] \in held[t] \ app[t]

\* wait returns only after the child's exit and with the child's own code,
\* whether it found the child gone, was woken, or woke on a stale signal.
WaitMeansExited ==
    [][\A p \in Procs : status[p] # status'[p] =>
         /\ status[p] = None /\ child[p] = "exited" /\ status'[p] = code[p]]_vars

\* Another program has counted past the number of p's script.  Every program
\* counts from zero and they share the volume, so it may use the same path.
NumberTaken(p) == \E g \in Programs \ {prog[p]} : script[p] < seq[g]

\* "on AROS a running Execute re-reads the file, so keep it until the child is
\* reaped": the script of a running child is on the volume and is that
\* child's, whatever the tasks of its own program spawn, reap and drop; it can
\* be gone or be another child's only if another program has used its number.
ScriptKept ==
    \A p \in Procs : child[p] = "running" /\ kind[p] = "script"
        => file[script[p]] = p \/ NumberTaken(p)

\* A task in wait on a child that has exited returns: registering, checking
\* and sleeping in this order loses no wakeup, and a stale signal costs at
\* most another turn of the loop.
WaitReturns ==
    \A t \in Tasks, p \in Procs :
        tpc[t] \in InWait /\ tp[t] = p /\ child[p] = "exited" ~> tpc[t] = "idle"

\* Breaking a child that polls for break ends a wait for it.
KillEndsWait ==
    \A p \in Polling : brk[p] /\ obj[p] = "borrowed" ~> status[p] # None
=============================================================================
