------------------------- MODULE CreateDirAllProof --------------------------
(***************************************************************************)
(* create_dir_all for any number of processes and any depth.  Where a call *)
(* is in its loops says what must be there already, and nothing that is    *)
(* there goes away; that is the inductive invariant.  Where the reason of  *)
(* a failure is lost, a second one says what a guessing call can still     *)
(* find out about it.                                                      *)
(***************************************************************************)
EXTENDS CreateDirAll, TLAPS

\* Inside the second loop the parent is there, unless there is no volume; a
\* call that saw AlreadyExists will find something at its level.
Progress == \A p \in Procs :
    /\ loop[p] = "down" /\ pc[p] \notin {"ok", "failed"} => Parent(level[p]) = "dir" \/ fs[0] = "none"
    /\ pc[p] = "is_dir" => fs[level[p]] # "none"

\* A call guesses at a reason only when it was not told one.
NoGuess == ~lossy => \A p \in Procs : pc[p] \notin {"stat", "stat_parent"}

IInv == TypeOK /\ Progress /\ Created /\ NoGuess

Busy == {"mkdir", "stat", "stat_parent", "is_dir"}
SawOK == saw \in [Procs -> {"none", "dir", "file"}]

\* A call that has not returned yet is inside the path.
LEMMA InPath ==
    ASSUME IInv, NEW p \in Procs, pc[p] \in Busy
    PROVE  /\ Depth \in Nat /\ level[p] \in 1..target[p] /\ target[p] \in 1..Depth
           /\ level[p] \in 1..Depth /\ level[p] - 1 \in 0..Depth
           /\ fs[level[p] - 1] \in {"none", "dir", "file"} /\ fs[level[p]] \in {"none", "dir", "file"}
<1>1. Depth \in Nat /\ level[p] \in 1..target[p] /\ target[p] \in 1..Depth
  BY DirAssumption DEF IInv, TypeOK, Busy, Levels
<1>2. level[p] \in 1..Depth /\ level[p] - 1 \in 0..Depth /\ level[p] \in 0..Depth
  BY <1>1
<1> QED
  BY <1>1, <1>2 DEF IInv, TypeOK

\* Steps only add to the path, a component at a time.
Grows ==
    /\ fs' \in [0..Depth -> {"none", "dir", "file"}] /\ fs'[0] = fs[0]
    /\ \A i \in Levels : fs'[i] # "none" => fs'[i - 1] = "dir"
    /\ \A i \in 0..Depth : fs[i] # "none" => fs'[i] = fs[i]

\* A step that changes nothing there is one.
LEMMA StaysGrows == ASSUME IInv, fs' = fs PROVE Grows
  BY DEF IInv, TypeOK, Grows, Parent

\* What a step of p leaves to show: that p itself is where the invariant allows.
LEMMA OnlyMe ==
    ASSUME IInv, NEW p \in Procs, Grows, target' = target, lossy' = lossy, SawOK',
           NEW w \in Busy \cup {"ok", "failed"}, NEW i \in 1..Depth + 1, NEW l \in {"up", "down"},
           pc' = [pc EXCEPT ![p] = w], level' = [level EXCEPT ![p] = i], loop' = [loop EXCEPT ![p] = l],
           w \in Busy => i \in 1..target[p],
           l = "down" /\ w \in Busy => fs'[i - 1] = "dir" \/ fs[0] = "none",
           w = "is_dir" => fs'[i] # "none", w = "ok" => fs'[target[p]] = "dir",
           ~lossy => w \notin {"stat", "stat_parent"}
    PROVE  IInv'
<1>1. /\ pc'[p] = w /\ level'[p] = i /\ loop'[p] = l
      /\ \A q \in Procs \ {p} : pc'[q] = pc[q] /\ level'[q] = level[q] /\ loop'[q] = loop[q]
  BY DEF IInv, TypeOK
<1>2. /\ pc' \in [Procs -> Busy \cup {"ok", "failed"}] /\ level' \in [Procs -> 1..Depth + 1]
      /\ loop' \in [Procs -> {"up", "down"}]
  BY DEF IInv, TypeOK, Busy
<1>3. \A q \in Procs : pc'[q] \notin {"ok", "failed"} => level'[q] \in 1..target[q]
  BY <1>1 DEF IInv, TypeOK, Busy
<1>4. TypeOK'
  BY <1>2, <1>3 DEF IInv, TypeOK, Busy, Parent, Grows, SawOK
<1>5. Progress'
  <2>1. \A q \in Procs : pc[q] \in Busy => level[q] \in 0..Depth /\ level[q] - 1 \in 0..Depth
    BY InPath
  <2>2. \A q \in Procs : pc[q] \notin {"ok", "failed"} => pc[q] \in Busy
    BY DEF IInv, TypeOK, Busy
  <2> SUFFICES ASSUME NEW q \in Procs
               PROVE  /\ loop'[q] = "down" /\ pc'[q] \notin {"ok", "failed"} =>
                            fs'[level'[q] - 1] = "dir" \/ fs'[0] = "none"
                      /\ pc'[q] = "is_dir" => fs'[level'[q]] # "none"
    BY DEF Progress, Parent
  <2>3. CASE q = p
    BY <1>1, <2>3 DEF Grows, Busy
  <2>4. CASE q # p
    BY <1>1, <2>1, <2>2, <2>4 DEF IInv, Progress, Parent, Busy, Grows
  <2> QED
    BY <2>3, <2>4
<1>6. Created'
  <2>1. \A q \in Procs : target[q] \in 0..Depth
    BY DirAssumption DEF IInv, TypeOK, Levels
  <2> QED
    BY <1>1, <2>1 DEF IInv, Created, Grows
<1>7. NoGuess'
  BY <1>1 DEF IInv, NoGuess
<1> QED
  BY <1>4, <1>5, <1>6, <1>7 DEF IInv

\* A call at a directory goes on below it, or is done.
LEMMA Descends ==
    ASSUME IInv, NEW p \in Procs, Grows, target' = target, lossy' = lossy, SawOK', pc[p] \in Busy,
           fs'[level[p]] = "dir", Descend(p, level[p] + 1)
    PROVE  IInv'
<1>1. /\ level[p] \in 1..target[p] /\ target[p] \in 1..Depth /\ Depth \in Nat
      /\ level[p] + 1 \in 1..Depth + 1 /\ (level[p] + 1) - 1 = level[p]
  BY InPath
<1> DEFINE w == IF level[p] + 1 > target[p] THEN "ok" ELSE "mkdir"
<1>2. /\ pc' = [pc EXCEPT ![p] = w] /\ level' = [level EXCEPT ![p] = level[p] + 1]
      /\ loop' = [loop EXCEPT ![p] = "down"]
  BY DEF Descend
<1>3. /\ w = "ok" => level[p] = target[p]
      /\ w \in Busy => level[p] + 1 \in 1..target[p]
      /\ w \in {"mkdir", "ok"}
  BY <1>1 DEF Busy
<1> HIDE DEF w
<1>4. w = "ok" => fs'[target[p]] = "dir"
  BY <1>3
<1>5. fs'[(level[p] + 1) - 1] = "dir"
  BY <1>1
<1> QED
  BY <1>1, <1>2, <1>3, <1>4, <1>5, OnlyMe DEF Busy

\* What create_dir_all makes of an error is sound if its kind is.
LEMMA FailedKeeps ==
    ASSUME IInv, NEW p \in Procs, fs' = fs, target' = target, lossy' = lossy, SawOK', pc[p] \in Busy,
           NEW kind \in {"AlreadyExists", "NotFound", "Other"}, Failed(p, kind),
           kind = "AlreadyExists" => fs[level[p]] # "none",
           kind = "NotFound" => fs[level[p] - 1] = "none"
    PROVE  IInv'
<1>0. Grows
  BY StaysGrows
<1>1. /\ level[p] \in 1..target[p] /\ target[p] \in 1..Depth /\ level[p] \in 1..Depth + 1
      /\ loop[p] \in {"up", "down"} /\ Depth \in Nat
      /\ level = [level EXCEPT ![p] = level[p]] /\ loop = [loop EXCEPT ![p] = loop[p]]
  BY InPath DEF IInv, TypeOK
<1>2. CASE kind = "NotFound" /\ loop[p] = "up" /\ level[p] = 1
  <2>1. /\ pc' = [pc EXCEPT ![p] = "mkdir"] /\ level' = [level EXCEPT ![p] = 1]
        /\ loop' = [loop EXCEPT ![p] = "down"] /\ fs[0] = "none"
    BY <1>1, <1>2 DEF Failed, Descend
  <2>2. 1 \in 1..target[p] /\ 1 \in 1..Depth + 1
    BY <1>1
  <2> QED
    BY <1>0, <2>1, <2>2, OnlyMe DEF Busy
<1>3. CASE kind = "NotFound" /\ loop[p] = "up" /\ level[p] # 1
  <2>1. /\ pc' = [pc EXCEPT ![p] = "mkdir"] /\ level' = [level EXCEPT ![p] = level[p] - 1]
        /\ loop' = [loop EXCEPT ![p] = "up"]
    BY <1>1, <1>3 DEF Failed
  <2>2. level[p] - 1 \in 1..Depth + 1 /\ level[p] - 1 \in 1..target[p]
    BY <1>1, <1>3
  <2> QED
    BY <1>0, <2>1, <2>2, OnlyMe DEF Busy
<1>4. CASE ~(kind = "NotFound" /\ loop[p] = "up")
  <2> DEFINE w == IF kind = "AlreadyExists" THEN "is_dir" ELSE "failed"
  <2>1. /\ pc' = [pc EXCEPT ![p] = w] /\ level' = [level EXCEPT ![p] = level[p]]
        /\ loop' = [loop EXCEPT ![p] = loop[p]]
    BY <1>1, <1>4 DEF Failed, Stay
  <2>2. w \in {"is_dir", "failed"} /\ (w = "is_dir" => fs[level[p]] # "none")
    OBVIOUS
  <2>3. loop[p] = "down" => fs[level[p] - 1] = "dir" \/ fs[0] = "none"
    BY DEF IInv, Progress, Parent, Busy
  <2> HIDE DEF w
  <2> QED
    BY <1>0, <1>1, <2>1, <2>2, <2>3, OnlyMe DEF Busy
<1> QED
  BY <1>2, <1>3, <1>4

\* A step that only moves the program counter.
LEMMA StayKeeps ==
    ASSUME IInv, NEW p \in Procs, fs' = fs, target' = target, lossy' = lossy, SawOK', pc[p] \in Busy,
           NEW w \in {"stat", "stat_parent", "failed"}, Stay(p, w), w # "failed" => lossy
    PROVE  IInv'
<1>1. /\ level[p] \in 1..target[p] /\ level[p] \in 1..Depth + 1 /\ loop[p] \in {"up", "down"} /\ Grows
  BY InPath, StaysGrows DEF IInv, TypeOK
<1>2. /\ pc' = [pc EXCEPT ![p] = w] /\ level' = [level EXCEPT ![p] = level[p]]
      /\ loop' = [loop EXCEPT ![p] = loop[p]]
  BY DEF Stay, IInv, TypeOK
<1>3. loop[p] = "down" => fs[level[p] - 1] = "dir" \/ fs[0] = "none"
  BY DEF IInv, Progress, Parent, Busy
<1> QED
  BY <1>1, <1>2, <1>3, OnlyMe DEF Busy

\* mkdir adds a component inside a directory.
LEMMA MkdirGrows ==
    ASSUME IInv, NEW p \in Procs, pc[p] = "mkdir", fs[level[p]] = "none", fs[level[p] - 1] = "dir",
           fs' = [fs EXCEPT ![level[p]] = "dir"]
    PROVE  Grows /\ fs'[level[p]] = "dir"
<1>1. level[p] \in 1..Depth /\ Depth \in Nat /\ level[p] \in 0..Depth
  BY InPath DEF Busy
<1>2. /\ fs' \in [0..Depth -> {"none", "dir", "file"}] /\ fs'[level[p]] = "dir"
      /\ \A i \in 0..Depth : fs[i] # "none" => fs'[i] = fs[i]
      /\ \A i \in 0..Depth : i # level[p] => fs'[i] = fs[i]
  BY <1>1 DEF IInv, TypeOK
<1>3. \A i \in Levels : fs'[i] # "none" => fs'[i - 1] = "dir"
  <2> SUFFICES ASSUME NEW i \in Levels, fs'[i] # "none" PROVE fs'[i - 1] = "dir"
    OBVIOUS
  <2>1. i \in 0..Depth /\ i - 1 \in 0..Depth
    BY <1>1 DEF Levels
  <2>2. fs[i - 1] = "dir"
    BY <1>2, <2>1 DEF IInv, TypeOK, Parent
  <2> QED
    BY <1>2, <2>1, <2>2
<1> QED
  BY <1>1, <1>2, <1>3 DEF Grows

\* Every system call keeps the invariant.
LEMMA DirStep == IInv /\ [Next]_vars => IInv'
<1> SUFFICES ASSUME IInv, [Next]_vars PROVE IInv'
  OBVIOUS
<1>1. CASE UNCHANGED vars
  BY <1>1 DEF IInv, TypeOK, Progress, Created, NoGuess, Parent, vars
<1>2. ASSUME NEW p \in Procs, Mkdir(p) PROVE IInv'
  <2>1. pc[p] = "mkdir" /\ pc[p] \in Busy /\ target' = target /\ lossy' = lossy /\ SawOK'
    <3>1. Parent(level[p]) \in {"none", "dir", "file"} /\ pc[p] = "mkdir" /\ target' = target /\ lossy' = lossy
      BY <1>2, InPath DEF Mkdir, Busy, Parent
    <3>2. saw' = saw \/ saw' = [saw EXCEPT ![p] = Parent(level[p])]
      BY <1>2 DEF Mkdir
    <3>3. QED
      BY <3>1, <3>2 DEF IInv, TypeOK, SawOK, Busy
  <2>2. CASE fs[level[p]] = "none" /\ Parent(level[p]) = "dir"
    <3>1. fs' = [fs EXCEPT ![level[p]] = "dir"] /\ Descend(p, level[p] + 1)
      BY <1>2, <2>2 DEF Mkdir
    <3> QED
      BY <2>1, <2>2, <3>1, MkdirGrows, Descends DEF Parent
  <2>3. CASE ~(fs[level[p]] = "none" /\ Parent(level[p]) = "dir") /\ Failed(p, Reason(level[p])) /\ fs' = fs
    <3>1. /\ Reason(level[p]) \in {"AlreadyExists", "NotFound", "Other"}
          /\ Reason(level[p]) = "AlreadyExists" => fs[level[p]] # "none"
          /\ Reason(level[p]) = "NotFound" => fs[level[p] - 1] = "none"
      BY DEF Reason, Parent
    <3> QED
      BY <2>1, <2>3, <3>1, FailedKeeps
  <2>4. CASE lossy /\ Stay(p, "stat") /\ fs' = fs
    BY <2>1, <2>4, StayKeeps DEF Busy
  <2> QED
    BY <1>2, <2>2, <2>3, <2>4 DEF Mkdir
<1>3. ASSUME NEW p \in Procs, Stat(p) PROVE IInv'
  <2>1. pc[p] = "stat" /\ pc[p] \in Busy /\ target' = target /\ lossy' = lossy /\ SawOK' /\ fs' = fs
    BY <1>3 DEF Stat, Busy, IInv, TypeOK, SawOK
  <2>2. CASE fs[level[p]] = "dir"
    BY <1>3, <2>1, <2>2, FailedKeeps DEF Stat
  <2>3. CASE fs[level[p]] # "dir"
    <3>1. Stay(p, "stat_parent") /\ lossy
      BY <1>3, <2>1, <2>3, DirAssumption DEF Stat, IInv, NoGuess
    <3> QED
      BY <2>1, <3>1, StayKeeps DEF Busy
  <2> QED
    BY <2>2, <2>3
<1>4. ASSUME NEW p \in Procs, StatParent(p) PROVE IInv'
  <2>1. pc[p] \in Busy /\ target' = target /\ lossy' = lossy /\ SawOK' /\ fs' = fs
    BY <1>4 DEF StatParent, Busy, IInv, TypeOK, SawOK
  <2> DEFINE k == IF level[p] > 1 /\ Parent(level[p]) = "none" THEN "NotFound" ELSE "Other"
  <2>2. Failed(p, k) /\ k \in {"NotFound", "Other"} /\ (k = "NotFound" => fs[level[p] - 1] = "none")
    BY <1>4 DEF StatParent, Parent
  <2> HIDE DEF k
  <2> QED
    BY <2>1, <2>2, FailedKeeps
<1>5. ASSUME NEW p \in Procs, IsDir(p) PROVE IInv'
  <2>1. pc[p] \in Busy /\ target' = target /\ lossy' = lossy /\ SawOK' /\ fs' = fs
    BY <1>5 DEF IsDir, Busy, IInv, TypeOK, SawOK
  <2>2. CASE fs[level[p]] = "dir"
    BY <1>5, <2>1, <2>2, StaysGrows, Descends DEF IsDir
  <2>3. CASE fs[level[p]] # "dir"
    <3>1. Stay(p, "failed")
      BY <1>5, <2>3 DEF IsDir
    <3> QED
      BY <2>1, <3>1, StayKeeps DEF Busy
  <2> QED
    BY <2>2, <2>3
<1> QED
  BY <1>1, <1>2, <1>3, <1>4, <1>5 DEF Next, Step

\* The path as the calls find it satisfies the invariant.
LEMMA DirInit == Init => IInv
<1> SUFFICES ASSUME Init PROVE IInv
  OBVIOUS
<1>1. Depth \in Nat /\ Levels \subseteq 1..Depth + 1
  BY DirAssumption DEF Levels
<1>2. TypeOK
  BY <1>1 DEF Init, TypeOK, Levels
<1> QED
  BY <1>2 DEF Init, IInv, Progress, Created, NoGuess

\* create_dir_all's types: what exists is inside directories, and a call stays
\* inside its path.
THEOREM DirTypes == Spec => []TypeOK
<1>1. IInv => TypeOK
  BY DEF IInv
<1> QED
  BY <1>1, DirInit, DirStep, PTL DEF Spec

\* A successful create_dir_all has made its path a directory, even when mkdir
\* had to guess why it failed.
THEOREM SuccessMeansCreated == Spec => []Created
<1>1. IInv => Created
  BY DEF IInv
<1> QED
  BY <1>1, DirInit, DirStep, PTL DEF Spec

-----------------------------------------------------------------------------
(* Why calls fail. *)

\* What made mkdir fail was there when it failed, and unless it is the missing
\* parent it still is when a call guesses at the reason.
GuessInv == \A p \in Procs : pc[p] \in {"stat", "stat_parent"} =>
    /\ lossy
    /\ fs[level[p]] = "file" \/ saw[p] # "dir" \/ (pc[p] = "stat" /\ fs[level[p]] = "dir")
    /\ saw[p] = "file" => Parent(level[p]) = "file"
    /\ loop[p] = "down" => saw[p] = "dir" \/ fs[0] = "none"

\* A call that is overtaken, is at a file, or has no volume.
Excused(p) ==
    fs[0] = "none" \/ (\E i \in 1..target[p] : fs[i] = "file") \/ Overtaken(p)

(* A failed call stays excused, and what a guess goes by stays, when another *)
(* call takes a step.                                                        *)
LEMMA OthersGuess ==
    ASSUME IInv, GuessInv, FailsOnlyOvertaken, Grows, target' = target, lossy' = lossy,
           NEW q \in Procs, pc'[q] = pc[q], level'[q] = level[q], loop'[q] = loop[q], saw'[q] = saw[q],
           level[q] - 1 \in 0..Depth
    PROVE  /\ pc'[q] \in {"stat", "stat_parent"} =>
                /\ lossy'
                /\ fs'[level'[q]] = "file" \/ saw'[q] # "dir" \/ (pc'[q] = "stat" /\ fs'[level'[q]] = "dir")
                /\ saw'[q] = "file" => fs'[level'[q] - 1] = "file"
                /\ loop'[q] = "down" => saw'[q] = "dir" \/ fs'[0] = "none"
           /\ pc'[q] = "failed" => Excused(q)'
<1>1. CASE pc[q] \in {"stat", "stat_parent"}
  <2>1. level[q] \in 0..Depth
    BY <1>1, InPath DEF Busy
  <2>2. QED
    BY <1>1, <2>1 DEF GuessInv, Grows, Parent
<1>2. CASE pc[q] = "failed"
  <2> SUFFICES Excused(q)'
    BY <1>2
  <2>1. Excused(q)
    BY <1>2 DEF FailsOnlyOvertaken, Excused
  <2>2. target[q] \in 1..Depth /\ Depth \in Nat
    BY DirAssumption DEF IInv, TypeOK, Levels
  <2>3. CASE \E i \in 1..target[q] : fs[i] = "file"
    <3>1. \E i \in 1..target'[q] : fs'[i] = "file"
      BY <2>2, <2>3 DEF Grows
    <3>2. QED
      BY <3>1 DEF Excused
  <2>4. CASE fs[0] = "none"
    <3>1. fs'[0] = "none"
      BY <2>4 DEF Grows
    <3>2. QED
      BY <3>1 DEF Excused
  <2>5. CASE Overtaken(q)
    <3>1. lossy /\ loop[q] = "up" /\ saw[q] = "none" /\ fs[level[q] - 1] = "dir"
      BY <2>5 DEF Overtaken, Parent
    <3>2. fs'[level'[q] - 1] = "dir"
      BY <3>1 DEF Grows
    <3>3. Overtaken(q)'
      BY <3>1, <3>2 DEF Overtaken, Parent
    <3>4. QED
      BY <3>3 DEF Excused
  <2>6. QED
    BY <2>1, <2>3, <2>4, <2>5 DEF Excused
<1>3. QED
  BY <1>1, <1>2

(* A call fails with a reason it was told only at a file or without volume. *)
LEMMA ToldExcused ==
    ASSUME IInv, NEW p \in Procs, pc[p] \in Busy,
           NEW kind \in {"NotFound", "Other"}, kind = "NotFound" => loop[p] = "down",
           kind = "NotFound" => fs[level[p] - 1] = "none",
           kind = "Other" => fs[level[p] - 1] = "file" \/ fs[level[p]] = "file"
    PROVE  fs[0] = "none" \/ \E i \in 1..target[p] : fs[i] = "file"
<1>1. /\ Depth \in Nat /\ level[p] \in 1..target[p] /\ target[p] \in 1..Depth
  BY InPath
<1>2. CASE kind = "NotFound"
  BY <1>2 DEF IInv, Progress, Parent, Busy
<1>3. CASE kind = "Other" /\ fs[level[p]] = "file"
  BY <1>1, <1>3
<1>4. CASE kind = "Other" /\ fs[level[p] - 1] = "file"
  <2>1. level[p] - 1 # 0
    BY <1>4 DEF IInv, TypeOK
  <2>2. QED
    BY <1>1, <1>4, <2>1
<1>5. QED
  BY <1>2, <1>3, <1>4

(* The call that takes the step keeps both. *)
LEMMA MyGuess ==
    ASSUME IInv, GuessInv, NEW p \in Procs, Step(p), Grows
    PROVE  /\ pc'[p] \in {"stat", "stat_parent"} =>
                /\ lossy'
                /\ fs'[level'[p]] = "file" \/ saw'[p] # "dir" \/ (pc'[p] = "stat" /\ fs'[level'[p]] = "dir")
                /\ saw'[p] = "file" => fs'[level'[p] - 1] = "file"
                /\ loop'[p] = "down" => saw'[p] = "dir" \/ fs'[0] = "none"
           /\ pc'[p] = "failed" => Excused(p)'
<1>0. /\ pc[p] \in Busy /\ target' = target /\ lossy' = lossy
  BY DEF Step, Mkdir, Stat, StatParent, IsDir, Busy
<1>1. /\ Depth \in Nat /\ level[p] \in 1..target[p] /\ target[p] \in 1..Depth
      /\ level[p] \in 0..Depth /\ level[p] - 1 \in 0..Depth
      /\ fs[level[p] - 1] \in {"none", "dir", "file"} /\ fs[level[p]] \in {"none", "dir", "file"}
  BY <1>0, InPath
<1>2. \A w : pc' = [pc EXCEPT ![p] = w] => pc'[p] = w
  BY DEF IInv, TypeOK
<1>3. \A i : Descend(p, i) => pc'[p] \in {"ok", "mkdir"}
  BY <1>2 DEF Descend
<1>4. \A k \in {"AlreadyExists", "NotFound", "Other"} : Failed(p, k) =>
        /\ pc'[p] \in {"mkdir", "is_dir", "failed", "ok"}
        /\ pc'[p] = "failed" => k # "AlreadyExists" /\ (k = "NotFound" => loop[p] # "up")
                                /\ UNCHANGED <<loop, level>>
  BY <1>2, <1>3 DEF Failed, Stay
<1>5. (fs[0] = "none" \/ \E i \in 1..target[p] : fs[i] = "file") => Excused(p)'
  BY <1>0, <1>1 DEF Grows, Excused
<1>6. loop[p] \in {"up", "down"}
  BY DEF IInv, TypeOK
<1>7. CASE Mkdir(p)
  <2>1. CASE Descend(p, level[p] + 1)
    BY <1>3, <2>1
  <2>2. CASE /\ ~(fs[level[p]] = "none" /\ Parent(level[p]) = "dir") /\ Failed(p, Reason(level[p]))
    <3>1. /\ Reason(level[p]) \in {"AlreadyExists", "NotFound", "Other"}
          /\ Reason(level[p]) = "NotFound" => fs[level[p] - 1] = "none"
          /\ Reason(level[p]) = "Other" => fs[level[p] - 1] = "file"
      BY <1>1, <2>2 DEF Reason, Parent
    <3>2. /\ pc'[p] \in {"mkdir", "is_dir", "failed", "ok"}
          /\ pc'[p] = "failed" => Reason(level[p]) \in {"NotFound", "Other"}
                                  /\ (Reason(level[p]) = "NotFound" => loop[p] = "down")
      BY <1>4, <1>6, <2>2, <3>1
    <3>3. pc'[p] = "failed" => fs[0] = "none" \/ \E i \in 1..target[p] : fs[i] = "file"
      BY <1>0, <3>1, <3>2, ToldExcused
    <3>4. QED
      BY <1>5, <3>2, <3>3
  <2>3. CASE /\ ~(fs[level[p]] = "none" /\ Parent(level[p]) = "dir") /\ lossy /\ Stay(p, "stat")
             /\ saw' = [saw EXCEPT ![p] = Parent(level[p])] /\ fs' = fs
    <3>1. pc'[p] = "stat" /\ saw'[p] = fs[level[p] - 1] /\ UNCHANGED <<loop, level>>
      BY <1>2, <2>3 DEF Stay, Parent, IInv, TypeOK
    <3>2. loop[p] = "down" => fs[level[p] - 1] = "dir" \/ fs[0] = "none"
      BY <1>0 DEF IInv, Progress, Parent, Busy
    <3>3. fs[level[p]] = "none" => fs[level[p] - 1] # "dir"
      BY <2>3 DEF Parent
    <3>4. QED
      BY <1>0, <1>1, <2>3, <3>1, <3>2, <3>3
  <2>4. QED
    BY <1>7, <2>1, <2>2, <2>3 DEF Mkdir
<1>8. CASE Stat(p)
  <2>0. pc[p] = "stat" /\ fs' = fs /\ saw' = saw
    BY <1>8 DEF Stat
  <2>1. CASE fs[level[p]] = "dir"
    BY <1>4, <1>8, <2>1 DEF Stat
  <2>2. CASE fs[level[p]] # "dir"
    <3>1. pc'[p] = "stat_parent" /\ UNCHANGED <<loop, level>>
      BY <1>2, <1>8, <2>2 DEF Stat, Stay
    <3>2. QED
      BY <1>0, <2>0, <2>2, <3>1 DEF GuessInv, Parent
  <2>3. QED
    BY <2>1, <2>2
<1>9. CASE StatParent(p)
  <2> DEFINE k == IF level[p] > 1 /\ Parent(level[p]) = "none" THEN "NotFound" ELSE "Other"
  <2>0. /\ pc[p] = "stat_parent" /\ fs' = fs /\ saw' = saw /\ Failed(p, k)
        /\ k \in {"NotFound", "Other"}
        /\ k = "NotFound" => fs[level[p] - 1] = "none"
        /\ k = "Other" => level[p] = 1 \/ fs[level[p] - 1] # "none"
    BY <1>1, <1>9 DEF StatParent, Parent
  <2> HIDE DEF k
  <2>1. /\ pc'[p] \in {"mkdir", "is_dir", "failed", "ok"}
        /\ pc'[p] = "failed" => (k = "NotFound" => loop[p] = "down") /\ UNCHANGED <<loop, level>>
    BY <1>4, <1>6, <2>0
  <2>2. CASE pc'[p] = "failed" /\ (k = "NotFound" \/ fs[level[p] - 1] = "file" \/ fs[level[p]] = "file")
    <3>1. fs[0] = "none" \/ \E i \in 1..target[p] : fs[i] = "file"
      BY <1>0, <2>0, <2>1, <2>2, ToldExcused
    <3>2. QED
      BY <1>5, <2>2, <3>1
  <2>3. CASE pc'[p] = "failed" /\ k = "Other" /\ fs[level[p] - 1] = "none"
    <3>1. fs[0] = "none"
      BY <1>1, <2>0, <2>3
    <3>2. QED
      BY <1>5, <2>3, <3>1
  <2>4. CASE pc'[p] = "failed" /\ k = "Other" /\ fs[level[p] - 1] = "dir" /\ fs[level[p]] # "file"
    <3>1. /\ lossy /\ saw[p] = "none" /\ (loop[p] = "down" => fs[0] = "none")
      BY <2>0, <2>4 DEF GuessInv, Parent, IInv, TypeOK
    <3>2. CASE loop[p] = "down"
      BY <1>5, <2>4, <3>1, <3>2
    <3>3. CASE loop[p] = "up"
      <4>1. Overtaken(p)'
        BY <1>0, <2>0, <2>1, <2>4, <3>1, <3>3 DEF Overtaken, Parent
      <4>2. QED
        BY <2>4, <4>1 DEF Excused
    <3>4. QED
      BY <1>6, <3>2, <3>3
  <2>5. QED
    BY <1>1, <2>0, <2>1, <2>2, <2>3, <2>4
<1>10. CASE IsDir(p)
  <2>1. CASE fs[level[p]] = "dir"
    BY <1>3, <1>10, <2>1 DEF IsDir
  <2>2. CASE fs[level[p]] # "dir"
    <3>1. pc'[p] = "failed" /\ fs[level[p]] # "none"
      BY <1>2, <1>10, <2>2 DEF IsDir, Stay, IInv, Progress
    <3>2. \E i \in 1..target[p] : fs[i] = "file"
      BY <1>1, <2>2, <3>1
    <3>3. QED
      BY <1>5, <3>1, <3>2
  <2>3. QED
    BY <2>1, <2>2
<1>11. QED
  BY <1>7, <1>8, <1>9, <1>10 DEF Step

(* Every system call keeps both. *)
LEMMA GuessStep ==
    IInv /\ GuessInv /\ FailsOnlyOvertaken /\ [Next]_vars => GuessInv' /\ FailsOnlyOvertaken'
<1> SUFFICES ASSUME IInv, GuessInv, FailsOnlyOvertaken, [Next]_vars
             PROVE  GuessInv' /\ FailsOnlyOvertaken'
  OBVIOUS
<1>1. CASE UNCHANGED vars
  BY <1>1 DEF vars, GuessInv, FailsOnlyOvertaken, Overtaken, Parent
<1>2. ASSUME NEW p \in Procs, Step(p) PROVE GuessInv' /\ FailsOnlyOvertaken'
  <2>1. target' = target /\ lossy' = lossy
    BY <1>2 DEF Step, Mkdir, Stat, StatParent, IsDir
  <2>2. Grows
    <3>1. CASE fs' = fs
      BY <3>1, StaysGrows
    <3>2. CASE fs' # fs
      BY <1>2, <3>2, MkdirGrows DEF Step, Mkdir, Stat, StatParent, IsDir, Parent
    <3>3. QED
      BY <3>1, <3>2
  <2>3. \A q \in Procs \ {p} : pc'[q] = pc[q] /\ level'[q] = level[q] /\ loop'[q] = loop[q]
                              /\ saw'[q] = saw[q]
    BY <1>2 DEF Step, Mkdir, Stat, StatParent, IsDir, Failed, Stay, Descend, IInv, TypeOK
  <2>4. \A q \in Procs : level[q] - 1 \in 0..Depth
    BY DirAssumption DEF IInv, TypeOK
  <2>5. GuessInv'
    BY <1>2, <2>1, <2>2, <2>3, <2>4, MyGuess, OthersGuess DEF GuessInv, Parent
  <2>6. \A q \in Procs : pc'[q] = "failed" => Excused(q)'
    BY <1>2, <2>1, <2>2, <2>3, <2>4, MyGuess, OthersGuess
  <2>7. QED
    BY <2>5, <2>6 DEF FailsOnlyOvertaken, Excused
<1>3. QED
  BY <1>1, <1>2 DEF Next

\* Concurrent calls of create_dir_all make each other fail in one way only,
\* whatever their number and the depth of the path: where the reason of a
\* failure is lost, a call in its first loop is overtaken.
THEOREM OneRaceWithItself == Spec => []FailsOnlyOvertaken
<1>1. Init => GuessInv /\ FailsOnlyOvertaken
  BY DEF Init, GuessInv, FailsOnlyOvertaken
<1>2. QED
  BY <1>1, DirInit, DirStep, GuessStep, PTL DEF Spec
=============================================================================
