---------------------------- MODULE CreateDirAll ----------------------------
(***************************************************************************)
(* fs::create_dir_all over AROS's mkdir, called by several processes for   *)
(* prefixes of one path.  Level i of the path is its i-th component, level *)
(* 0 the volume or directory it starts from (the parent "").  Each system  *)
(* call is one step.  Nobody removes anything.  On a lossy file system a   *)
(* failed aros_mkdir may come back with errno still 0, as the comment in   *)
(* mkdir says it does, and mkdir then looks again to guess the reason.     *)
(***************************************************************************)
EXTENDS Naturals

CONSTANTS
    Procs,
    Depth    \* the length of the path

ASSUME DirAssumption == Depth \in Nat \ {0}

VARIABLES
    lossy,    \* whether the file system may lose the reason of a failure
    fs,       \* what is at each level
    target,   \* the level each process wants
    loop,     \* "up" in the first loop, "down" in the second
    level,    \* the ancestor it is at
    pc,
    saw       \* history: what the parent was when mkdir last failed

vars == <<lossy, fs, target, loop, level, pc, saw>>

Levels == 1..Depth
Parent(i) == fs[i - 1]

\* Any path some of which exists already, as directories but for the last.
Init ==
    /\ lossy \in BOOLEAN
    /\ fs \in [0..Depth -> {"none", "dir", "file"}] /\ fs[0] # "file"
    /\ \A i \in Levels : fs[i] # "none" => Parent(i) = "dir"
    /\ target \in [Procs -> Levels] /\ level = target
    /\ loop = [p \in Procs |-> "up"] /\ pc = [p \in Procs |-> "mkdir"]
    /\ saw = [p \in Procs |-> "dir"]

\* The next directory of the second loop, if there is one.
Descend(p, i) ==
    /\ loop' = [loop EXCEPT ![p] = "down"] /\ level' = [level EXCEPT ![p] = i]
    /\ pc' = [pc EXCEPT ![p] = IF i > target[p] THEN "ok" ELSE "mkdir"]

Stay(p, where) == pc' = [pc EXCEPT ![p] = where] /\ UNCHANGED <<loop, level>>

MutFailed(p, kind) ==
    IF kind = "NotFound" THEN Descend(p, level[p])
    ELSE Stay(p, IF kind = "AlreadyExists" THEN "is_dir" ELSE "failed")

\* What create_dir_all does with the error of mkdir.
Failed(p, kind) ==
    IF kind = "NotFound" /\ loop[p] = "up"
    THEN IF level[p] = 1 THEN Descend(p, 1)
         ELSE pc' = [pc EXCEPT ![p] = "mkdir"] /\ level' = [level EXCEPT ![p] = @ - 1] /\ UNCHANGED loop
    ELSE Stay(p, IF kind = "AlreadyExists" THEN "is_dir" ELSE "failed")

\* Why aros_mkdir fails (external).
Reason(i) ==
    IF fs[i] # "none" THEN "AlreadyExists" ELSE IF Parent(i) = "none" THEN "NotFound" ELSE "Other"

Mkdir(p) ==
    LET i == level[p] IN
    /\ pc[p] = "mkdir"
    /\ \/ /\ fs[i] = "none" /\ Parent(i) = "dir"
          /\ fs' = [fs EXCEPT ![i] = "dir"] /\ Descend(p, i + 1) /\ UNCHANGED saw
       \/ /\ ~(fs[i] = "none" /\ Parent(i) = "dir")
          /\ Failed(p, Reason(i)) \/ (lossy /\ Stay(p, "stat"))
          /\ saw' = [saw EXCEPT ![p] = Parent(i)] /\ UNCHANGED fs
    /\ UNCHANGED <<lossy, target>>

MutStat(p) == pc[p] = "stat" /\ Stay(p, "stat_parent") /\ UNCHANGED <<lossy, fs, target, saw>>

\* errno is 0: is p itself a directory by now?
Stat(p) ==
    /\ pc[p] = "stat"
    /\ IF fs[level[p]] = "dir" THEN Failed(p, "AlreadyExists") ELSE Stay(p, "stat_parent")
    /\ UNCHANGED <<lossy, fs, target, saw>>

\* Is its parent (if it is not "") missing?  If not, the error has no reason.
StatParent(p) ==
    /\ pc[p] = "stat_parent"
    /\ Failed(p, IF level[p] > 1 /\ Parent(level[p]) = "none" THEN "NotFound" ELSE "Other")
    /\ UNCHANGED <<lossy, fs, target, saw>>

MutIsDir(p) ==
    /\ pc[p] = "is_dir" /\ Descend(p, level[p] + 1) /\ UNCHANGED <<lossy, fs, target, saw>>

\* AlreadyExists is success if a directory is there.
IsDir(p) ==
    /\ pc[p] = "is_dir"
    /\ IF fs[level[p]] = "dir" THEN Descend(p, level[p] + 1) ELSE Stay(p, "failed")
    /\ UNCHANGED <<lossy, fs, target, saw>>

Step(p) == Mkdir(p) \/ Stat(p) \/ StatParent(p) \/ IsDir(p)
Next == \E p \in Procs : Step(p)

(* A call runs on as long as its process does.                             *)
Spec == Init /\ [][Next]_vars /\ \A p \in Procs : WF_vars(Step(p))

-----------------------------------------------------------------------------
(* Properties *)

\* The types, and that a component only exists inside a directory.
TypeOK ==
    /\ lossy \in BOOLEAN
    /\ fs \in [0..Depth -> {"none", "dir", "file"}] /\ fs[0] # "file"
    /\ \A i \in Levels : fs[i] # "none" => Parent(i) = "dir"
    /\ target \in [Procs -> Levels] /\ level \in [Procs -> 1..Depth + 1]
    /\ loop \in [Procs -> {"up", "down"}]
    /\ pc \in [Procs -> {"mkdir", "stat", "stat_parent", "is_dir", "ok", "failed"}]
    /\ \A p \in Procs : pc[p] \notin {"ok", "failed"} => level[p] \in 1..target[p]
    /\ saw \in [Procs -> {"none", "dir", "file"}]

\* The reason was lost, and another call made the missing parent before mkdir
\* looked at it to tell the reason.
Overtaken(p) ==
    lossy /\ loop[p] = "up" /\ saw[p] = "none" /\ Parent(level[p]) = "dir"

\* fs::create_dir_all: "calling `create_dir_all` concurrently from multiple
\* threads or processes is guaranteed not to fail due to a race condition with
\* itself".  A call fails at a file on its path and without the volume.  One
\* race is left, where errno stays 0: a call in its first loop may be
\* overtaken.  A call that runs alone, or has reached its second loop, does not
\* fail even there.
FailsOnlyOvertaken == \A p \in Procs : pc[p] = "failed" =>
    fs[0] = "none" \/ (\E i \in 1..target[p] : fs[i] = "file") \/ Overtaken(p)

\* DirBuilder::create's example: once it has succeeded the path is a directory.
Created == \A p \in Procs : pc[p] = "ok" => fs[target[p]] = "dir"

\* Every call returns, in whatever order the others create the components.
Returns == \A p \in Procs : <>(pc[p] \in {"ok", "failed"})
=============================================================================
