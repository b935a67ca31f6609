# TLA+ models of the AROS layer of Rust's standard library

The repository is a snapshot of `rust-src` (nightly-2026-06-27) with a platform
layer for hosted AROS added: about 3,200 lines in the `aros.rs` files of
`library/std/src/sys/*`, the `pal/unsupported/sync` objects, and the arms of
`cfg_select!` that pick, for AROS, one of the shared implementations std has for
locks, parking, once-initialization and thread-local keys. This directory models
that layer, and the shared code it selects, where state, concurrency or failure
make it hard to test. Everything else in the tree is the stock standard library
and is not this program's own logic.

File names below are relative to `src/library/std/src/`.

## Inventory

| Component | State | Operations | Talks to | What is hard | Correct when | Module |
|---|---|---|---|---|---|---|
| Thread parking, `sys/sync/thread_parking/pthread.rs` | an atomic (EMPTY, PARKED, NOTIFIED), a mutex, a condition variable | park, park_timeout, unpark | pal mutex and condvar (C glue over pthread.library) | lost wakeup between store and wait, spurious wakeups, a timeout racing an unpark, memory orderings | behaves as one token per thread; no panic; the unparker's writes are seen | `Parker`, `ParkToken` |
| Child processes, `sys/process/aros.rs` | the glue's handle, cached status, script path, script counter | spawn, wait, try_wait, kill, drop | exec signals, the exit hook of the child, the file system | the child exits between any two steps, stale signals, freeing a handle the hook writes to, temporary files | wait returns exactly on exit with the child's code; no use of freed handles; scripts live as long as their child, other programs aside | `ChildProcess` |
| `Command::output`, `sys/process/aros.rs` + `sys/pipe/aros.rs` | two pipes and their modes, two vectors, end-of-file flags | output, read_output, read_to_end | the child through the PIPE: handler | mutual blocking on full pipes, empty against end, interrupted reads | complete capture; returns | `CommandOutput` |
| Once, `sys/sync/once/no_threads.rs` | one Cell | call_once, call_once_force | the closures | AROS has threads but gets the implementation for targets without | runs once; blocks the others | `OnceNoThreads` |
| Thread-local keys, `sys/thread_local/key/{racy,aros}.rs` | an atomic key | force, lazy_init | the pthread key pool shared with everybody | racing creation, the sentinel value 0, running out | one live key for all; none leaked | `LazyKey` |
| Mutex wrapper, `sys/sync/mutex/pthread.rs`, `once_box.rs` | a lazily allocated pthread mutex | lock, try_lock, unlock, drop | pal mutex | racing allocation, a relaxed load in unlock, dropping while locked | one lock for all; never destroyed while locked; no leak but of a locked one | `LazyMutex`, `OnceBox`, `AbstractMutex` |
| Condvar wrapper, `sys/sync/condvar/pthread.rs` | a lazily allocated pthread condvar, the address of its mutex | wait, wait_timeout, notify | pal condvar, clock | racing allocation, two mutexes, a clock that may fail | waiters and notifiers meet on one object; no wakeup is lost | `LazyCondvar` |
| RwLock, `sys/sync/rwlock/queue.rs` | a word with a lock-free queue of stack nodes | read, write, try, downgrade, unlock | thread parking | hand-over of the queue, nodes that vanish, downgrades left to others, where the reader count is | exclusion; no lost waiter; no use of a dead node | `RwLockQueue`, `AbstractRwLock` |
| Threads, `sys/thread/aros.rs`, `thread/{lifecycle,scoped}.rs` | a pthread, a shared packet with the result, the scope's count | spawn, join, drop of a handle, scope | pthread, thread parking | two owners of the packet, a spawn that fails half way, scopes that must outlive their threads | scopes contain their threads and return; results are there when joined; every pthread is joined or detached once | `ThreadLife` |
| Thread-local storage, `sys/thread_local/os.rs` | a value per key, the sentinel 1 | get, try_initialize, set, destroy_value | pthread keys and destructors (`LazyKey`) | recursive initialization, destructors that use their own and other variables | values in use are alive; each is dropped once, not while in use, and not replaced meanwhile | `TlsStorage` |
| File system, `sys/fs/{aros,common}.rs`, `fs.rs` | the volume; descriptors | mkdir and create_dir_all, remove_dir_all, set_times; the rest forwards | posixc | other processes between two calls, guessed errors, links, read-modify-write | the right error; success means done; nothing outside is touched | `CreateDirAll` (only create_dir_all) |
| Errors, `sys/io/error/aros.rs` | two errno cells | errno | posixc, linked-in code | a stale cell | the error of the last failure | not modelled |
| Network, `sys/net/connection/aros.rs`, `os/fd/{net_aros,owned}.rs` | socket descriptors | connect, bind, accept, duplicate, drop, conversions | bsdsocket.library, posixc | two descriptor spaces, setup that fails half way | every descriptor is closed once, in its own space | not modelled |
| Allocator, `sys/alloc/aros.rs` | where each block came from | alloc, realloc, dealloc | posixc | realloc of a block it does not know; limits of posix_memalign; sizes below the alignment | realloc gets only malloc's blocks; alignment kept; null means full | `Allocator` |
| Time, paths, environment | none | forward to posixc | posixc | rounding, buffers that grow | small pure properties | not modelled |
| stdio, random, args | none | forward | posixc | nothing | - | not modelled |

## Modules

`ParkToken` is the specification of parking as `thread/functions.rs` documents
it: a token that unpark makes available and park consumes.

`Parker` is the implementation. One action is one atomic operation on `state`,
one call of the mutex, or one call of the condition variable; `park` and
`park_timeout` share the actions up to the wake-up. `opc` and `upc` are program
counters of the owner and of each unparker. The orderings are part of the state:
`unread` holds the unparkers with writes the owner has not synchronised with,
`released` those carried by the release sequence of the atomic. An acquiring
operation of the owner removes the second set from the first. The refinement
mapping sends `state = NOTIFIED` to the token and the program counter to the
call the owner is in. The C glue under the pal mutex and condvar is not in the
repository; it is taken to do what POSIX says.

`ChildProcess` has one action per glue call that other tasks or the child can
observe. A command is `plain` (no environment), `script` (an environment, run
through a script on `MacRW:`) or `shell` (no command line; the environment is
typed into its stdin). A `Process` is `owned` by its program, `borrowed` by the
task inside `wait` (the `&mut` of the method), or `gone`. The exit hook records
the code and signals the registered waiter in one step because the glue runs it
under Forbid. `AppSignal` is the rest of the program using the task's signal
bits, so that the bit `wait` allocates may already be pending (`SignalUsers` says
in which tasks it does). `TaskEnd` lets tasks end while handles survive. Every
program counts its scripts from zero (`seq`) and they share the volume: `file`
says which Process's script a path holds, if any. Removing a script may fail, and
the code does not ask (`RemoveScript`). `MCChildProcess` has the function the
configuration gives to `ProgramOf`.

`CommandOutput` counts bytes per stream. The caller may have redirected either
stream (`piped`), which decides between `read_output`, `read_to_end` and no
reading. A turn of the `while` loop is one read of each stream; the child
blocks in a write to a full pipe. Either pipe may refuse the non-blocking mode
(`NonblockMayFail`), which the code ignores.

`OnceNoThreads` takes one load or store of the Cell as a step, the finest
interleaving a build can produce for a one-byte value. The closure may return, ask for poison
(only `call_once_force` hands it the OnceState) or unwind. The AROS target is
built with panic=abort, where unwinding and the panics end the program; the
model keeps the paths the source has.

`LazyKey` has a pool of keys in which 0, the sentinel, may be one of the keys,
other users take and free keys at any time, and running out aborts.

`OnceBox` is the racy allocation under the Mutex and the Condvar as a
fragment of a thread's program: get_or_init from the Acquire load to the drop of
a losing object, with the label to go on at as a parameter. `observed` is the
happens-before relation the orderings establish. `LazyMutex` adds the calls, the
pthread mutex, guards that are leaked with mem::forget, and the drop of the
Mutex, which Rust's ownership allows only when no call or guard borrows it.
`AbstractMutex` is what std::sync::Mutex promises; the mapping takes the holders
of any pthread mutex to be inside.

`LazyCondvar` uses the same fragment for the Condvar. Its clients are those of
the std examples: waiters that hold a mutex and wait while a predicate is false,
a notifier that sets it and notifies all, or notifies one or all without having
changed anything. The
pal object wakes whom POSIX lets it, may wake for no reason and may report a
timeout early, which is why wait_timeout looks at the clock itself. Either reading
may fail and be zero (`Readings`, from `sys/time/aros.rs:27`): if the first one
does, a timeout is reported at once, if the second one does, none is. So no
property bounds when a timeout is reported; what is checked holds whatever the
clock does. A Condvar used with two mutexes panics, which ends the program.

`RwLockQueue` takes every atomic access to the word, and every access to another
thread's node, as one step. The word is a set of flag bits with a pointer or a
count; a node is named by the thread on whose stack it is and is wiped when that
thread leaves `lock_contended` or prepares it again, so that a late access is
seen. `my` holds the program counter and the locals (`state`, `current`,
`tail`). compare_exchange_weak may fail spuriously where `Spurious` says so.
Parking is the token of `ParkToken`. Memory is sequentially consistent here.
`AbstractRwLock` has the sets of readers and writers and the pending calls; the
mapping reads them off `my`. It allows try_read to be refused when somebody is
waiting, which the code does and its documentation does not say.

`ThreadLife` has a main thread inside `thread::scope` and children that spawn
more children, inside the scope or not. A child has a native thread, the packet
with its references, and a handle with an owner; dropping the last reference to
the packet decrements the scope's count and unparks main, in two steps.

`TlsStorage` is one thread's variables. What runs inside what is a stack of
initializers, closures of `with` and destructors, each of which may use further
variables; the rounds of destructors at the end are pthread's. `DropUses` limits
which destructors use which variables. A destructor may use its own variable: the
thread's end has left the sentinel there, and the use is an AccessError; after a
recursive initialization it finds the value that replaced its own.

`CreateDirAll` is a path of `Depth` components, below a volume that may be
missing, on which processes call create_dir_all for prefixes of it. `lossy` says
that a failed aros_mkdir may leave errno 0, as the comment in mkdir reports; the
two stats that guess the reason are steps of their own. `saw` is a history
variable: what the parent was when a call's last mkdir failed.

`Allocator` keeps, per block, the function it came from and its alignment, with
the layout the program holds it under. malloc and realloc choose any alignment
that the size asks for up to MIN_ALIGN, which is all that `sys/alloc/unix.rs:9`
relies on; a block resized in place keeps the one it has.

The `*Proof` modules extend their component's module and hold its theorems.
Definitions whose name starts with `Mut` are wrong variants of the definition
they stand before, kept to show that a property notices the difference; no
specification uses them.

## Runs

| Run | Configuration | Shows |
|---|---|---|
| `parker` | 3 unparkers, unbounded calls | no lost wakeup, writes handed over, refinement of `ParkToken` with liveness |
| `child_process` | 2 programs of 1 task each, 2 children, 1 signal bit | no freed handle in use, no stale waiter, own exit code, scripts kept unless the other program has used their number; wait returns after exit; a break ends the wait for a polling child |
| `command_output` | pipes of 2, reads of 2, 3 bytes per stream, modes may be refused | complete capture; output returns unless a refused mode wedges it |
| `once_runs_once` | 2 threads | **violated**: both run their closure |
| `lazy_key` | 3 threads, 4 keys with the sentinel | agreement on one live key, no leak |
| `lazy_mutex` | 3 threads, 3 addresses | one published, observed pthread mutex; destroyed only unlocked; refinement of `AbstractMutex` with liveness |
| `rwlock` | a reader, a writer, one that does both and downgrades; spinning once, spurious failures | nodes alive when touched, readers counted, free lock with waiters attended, the code's debug_asserts, refinement of `AbstractRwLock` with liveness, no waiter forgotten once the others stop asking |
| `condvar` | 2 waiters, 1 notifier, 2 mutexes, 3 addresses, waits of 0 or 1 tick, 1 tick, failing clock | one mutex, one pthread object; waiters leave once the predicate holds and all are notified |
| `thread_life` | main, 2 scoped children, 1 free child | scope contains its threads and returns; packets counted; result there at join; native threads joined or detached once |
| `create_dir_all` | 3 processes, 3 components, reasons reported or lost | success means created; returns; fails only at a file, without the volume, or overtaken while the reason is lost |
| `tls_storage` | 3 variables, 5 addresses, depth 6, 3 rounds, destructors that use their own and later variables | values in use are alive; dropped alone, and not created anew meanwhile; all dropped |
| `allocator` | 2 blocks; sizes 1, 8, 16, 40; alignments 1, 4, 16, 32 | realloc gets only malloc's blocks; alignment kept unless shrunk below it; null means full |

Bounds. Three unparkers are needed for one to find PARKED, one to find NOTIFIED,
and one to deliver a late signal to a later park. Two tasks and two children let
two waits overlap and a bit that was used be taken again, and two programs let
one write over and remove the script of the other; a Process that goes from one
task of a program to another is in the proofs, not in this run. `MaxScripts`
equals the number of children, so no spawn is cut off by it; the one exit code differs
from the 0 that is reported for a child that still runs. Three bytes per stream
exceed both the pipe and the read buffer, so the child blocks and a read leaves
a rest. Four keys for three threads let the pool be exhausted, and leave room
for a key to be given up and handed out again. Three addresses for three threads
let all of them allocate at once and a loser's address be used again. Three
threads on the RwLock give a holder and two nodes in the queue, the least for a
tail to be split off, and a third node when the holder comes back before the
queue is unlocked. One tick lets a
timed wait end too early, in time, or never. Three components are the
least for a path to be found missing twice on the way up and created twice on
the way down; three processes let one be overtaken at both. Two addresses more
than variables let a recursive initialization replace a value twice; as many
rounds as variables are what a chain of destructors needs. The sizes and
alignments of `allocator` lie on both sides of each limit the code tests.
Deadlock is checked for `Parker`, `RwLockQueue` and `Allocator`. The
other systems may stop: all calls returned, the program aborted, or no spawn
left.

Fairness. exec schedules every ready task, so each started parking, unparking,
locking or waiting call keeps taking its steps; a reached deadline fires. Nobody has to
call park, unpark, unlock, wait or kill, no spurious wakeup is promised, and no child
has to exit except one that polls for break and has been broken (`Polling`) and,
in `CommandOutput`, a child that has written all it wants and is not held up by
a full pipe. In `RwLockQueue` a thread that holds the lock gives it back some
time (`FairSpec`); nobody has to ask for it. compare_exchange_weak may fail
spuriously at any time but, where that starts a new traversal of the queue, not
for ever (`ReleaseQueue`); with `Spurious` FALSE the weak fairness is enough. A waiter of a Condvar is only
promised to leave if a notifier has set the predicate. In `ThreadLife` closures
end and consume their handles, and in `CreateDirAll` a call keeps making its
system calls.

## Where the code and its words disagree

A run shows the first; the next four are the exceptions that `OutputReturns`,
`FailsOnlyOvertaken`, `ScriptKept` and `AlignedUnlessShrunk` have to make.

1. `sys/sync/once/mod.rs` has no arm for AROS, so `Once`, and with it
   `OnceLock` and `LazyLock`, is the implementation whose safety comment reads
   "threads are not supported on this platform". Two threads can both run the
   closure; a third panics where `sync/once.rs:98` promises that it blocks.
2. `read_output` drops the result of `set_nonblocking`; if it fails, the
   parent and the child can wait for each other for ever, against the comment at
   `sys/process/aros.rs:706`.
3. When errno is lost, `mkdir` (`sys/fs/aros.rs:511`) looks at the path and its
   parent after the fact. If another process made the parent in between,
   create_dir_all fails, against `fs.rs:3080`. The run and the proof show that
   this is the only race: it needs a call in its first loop whose mkdir found no
   parent, and a parent that is a directory when mkdir looks again.
4. `SCRIPT_SEQ` (`sys/process/aros.rs:292`) numbers scripts per program on a
   volume that all programs share, so two programs both write
   `MacRW:rustcmd-0.aros`, and either truncates or removes it under the child of
   the other, against the comment at line 341. `ScriptKept` says that a running
   child's script is lost in no other way.
5. `realloc` (`sys/alloc/aros.rs:63`) tests the old layout only. A block of malloc
   that is shrunk below its alignment goes to C's realloc, which promises no more
   than the new size asks for, where `sys/alloc/unix.rs:53` tests the new size for
   just that reason.

The following were met while reading, and no run is about them.

6. `spawn` removes the script when `aros_proc_spawn` fails, but not when the
   working directory holds a NUL byte (line 320) or the write fails (line 381).
   No removal is checked (lines 345, 571, 636), so none of them promises that
   nothing is left behind.
7. `try_read` of the queue lock fails as soon as anybody is queued, while
   `sync/poison/rwlock.rs:434` names an exclusive lock as the reason.
8. `thread_start` (`sys/thread/aros.rs:62`) ends without `rt::thread_cleanup`,
   and `guard::enable` is empty for AROS because "`std` is the only runtime, so
   it just calls the destructor functions itself". Every spawned thread leaks
   the handle in CURRENT.
9. `DirEntry::file_type` (`sys/fs/aros.rs:320`) follows links where readdir
   gives no type, and remove_dir_all goes by that type.
10. `set_times_common` (`sys/fs/aros.rs:565`) writes back a time it read before,
   and undoes what was written meanwhile.
11. An OwnedFd made from a socket (`os/fd/net_aros.rs:53`) is closed by posixc's
    close, although sockets are numbered in a space of their own.
12. `errno` (`sys/io/error/aros.rs:24`) prefers a stale code in the thread's cell
    to the one posixc has just stored.

## Proofs

TLAPS proves, for every value of the constants:

- `ParkerProof`: `NoPanic`, `NoLostWakeup`, `WritesVisible`, and that each step
  is a step of `ParkToken` or a stutter (`Token!Safety`). `NoLostWakeup` is
  inductive only together with who holds the mutex at which point (`LockInv`),
  which values `state` can have there (`StateInv`), and, for the writes, that an
  unparker past its swap is in the release sequence (`SyncInv`).
- `ChildProcessProof`: `HandleSafe` (`HandlesSafe`), `WaiterInsideWait`
  (`ProcessSafe`), `WaitMeansExited` and `ScriptKept`, for any programs and any
  tasks in them. The invariant says which task works on which Process (`OwnInv`), relates the
  handle, the child and the status (`LifeInv`), and says which bit a wait holds
  and that past its loop the child has exited (`BitInv`). `ScriptInv` adds that
  two Processes of one program never have the same path, which lies below the
  program's counter; `KeptInv` that the script of a child that runs, or is about
  to, is its own unless another program has counted past its number: who else
  writes or removes at a path is of such a program.
  The same module proves `CompleteCapture` of `CommandOutput`, from the balance
  `wrote = got + pipe` of each stream and that a stream marked done is empty and
  its writer gone.
- `OnceBoxProof`, about the two users of `OnceBox`. For the Mutex: `UseSafe`,
  `OnlyLockedLeaked`, `DestroyedUnlocked`, and that each step is a step of
  `AbstractMutex` or a stutter (`Abstract!Safety`). The invariant says that an
  unpublished object belongs to one thread and is unlocked (`OwnInv`), and that at
  most one pthread mutex is held, the published one or the one a dropped Mutex
  leaked (`HoldInv`). For the Condvar: `Meet` and `OneMutex`.
  `CvBoxInv` says the same of its box, and that whoever is past get_or_init has
  seen the published object; `CvWaitInv` that the waiters of a pal object are the
  threads blocked in it; `CvMutexInv` that a waiter past verify uses the mutex the
  Condvar is bound to, for good.
- `ThreadLocalProof`, about the two halves of thread-local storage. For the keys:
  `KeysAgree` and `NoKeyLeaked`, from what each thread holds at each point, and
  that no two threads hold the same key. For the values: `UseLive`,
  `DroppedAlone` and, under a hypothesis, `AllDropped`. That a closure's value
  stays in its slot is not inductive: an initializer above it on the stack would
  replace it. `NestInv` says that no initializer of a variable runs above a use
  of it (none is started while there is a value), which needs that a use keeps
  the slot filled (`FrameInv`), that no two slots have the same value
  (`SlotInv`), and that the sentinel is there exactly while the bottom frame drops
  the variable's value (`SentinelInv`). A use or an initializer needs a slot
  without the sentinel, so none of that variable runs above such a frame, which is
  the last part of `DroppedAlone`. `NothingOutlives` assumes that the
  variables can be ranked from 1 to `MaxRounds` so that destructors use no other
  variable but of a higher rank, and concludes `AllDropped`: what is left in a round
  ranks at least as high as the round's number, and above it once the round is
  through (`RankInv`). The configuration's chain of three variables is ranked 1,
  2, 3; without a ranking the property fails, since pthread gives up.
- `ThreadLifeProof`: the count of packets in `TypeOK`, `ScopeContained`,
  `ResultReady` and `NativeOwned`, for any finite set of children. The invariant
  ties the position of a thread to its pthread (`NativeInv`) and to its handle
  (`HandleInv`, `WorkInv`), says exactly who has a reference to a packet and when
  it holds a result (`RefsInv`), and that the count is that of the packets which
  exist or are being dropped (`CountInv`). `ScopeContained` then follows from
  `ReturnInv`: when main returns the count is 0, so no scoped packet exists, and a
  scoped child that could still run, or spawn another, would have one.
- `RwLockQueueProof`: `TypeOK`, `NodesLive`, `ReadersCounted`, `WaitersAttended`,
  and that each step is a step of `AbstractRwLock` or a stutter
  (`Abstract!Safety`), for any finite set of threads, any calls and any number of
  spins. None of these is inductive: they depend on the shape of a queue that the
  word and the nodes only imply. The invariant (`Inv`) says that there are a set
  `Q` of nodes in the queue, for every node taken out of it the thread `wk[n]`
  that is to wake its owner, and a number `pos[n]` for each node, growing from the
  tail to the head, such that:
  - `next` goes one position down and a backlink one up (`List`), there is a
    backlink on every node below one that has a tail, and no position is left out
    (`Dense`; it bounds a traversal by the number of threads);
  - the first tail on the way from the head is right unless somebody is between
    a split and its undo (`RightTail`), and then it is still a node of the queue
    (`SomeTail`); while readers hold the lock every cached tail is right
    (`Fresh`), because who has the queue lock then neither splits nor wakes. That
    is what lets read_unlock_contended use the tail without the queue lock;
  - exactly one thread is in unlock_queue if QUEUE_LOCKED is set, and what it has
    read is still so at each point of it (`HolderOK`); likewise for a reader on
    its way to the count (`LeavingOK`) and for a thread that wakes those it has
    taken (`TakenOK`, `Backward`);
  - the word and the threads agree on who holds the lock, a downgrade or an
    unlock_contended under way is alone inside (`LockInv`), and the count is in
    the tail and nowhere else (`CountInv`);
  - a thread waits exactly if its node is in `Q` or taken (`WaitInv`).

  `NodesLive` follows since every node touched is in `Q` or taken by the thread
  that touches it, `ReadersCounted` since the traversal of `TailOf` ends at the
  first tail. `WaitersAttended` is inductive beside `Inv`. A `try_read` is refused
  because of a queue, and a queue has somebody in it who waits. TLC checked `Inv`
  on the instance of the run `rwlock`, with `Q`, `wk` and `pos` added as auxiliary
  variables, before it was proved.
- `CreateDirAllProof`: `TypeOK`, `Created` and `FailsOnlyOvertaken`, for any depth
  and any processes, with reasons reported or lost. The invariant says that in the second loop the parent of the next directory is there (`Progress`);
  nothing that exists goes away (`Grows`), so what one process relies on
  survives the steps of the others. `GuessInv` says what a call that guesses
  at the reason goes by: a file stays one, and a parent that was missing when
  mkdir failed is still missing or was made meanwhile, in the first loop only.
- `AllocatorProof`: `TypeOK`, `HeapIntact`, `AlignedUnlessShrunk` and `FailsOnlyFull`, for
  any blocks, sizes and alignments that are powers of two, stated as the
  divisibility the code needs (`PowersOfTwo`). The invariant adds `TestTells`: a
  layout that passes realloc's test belongs to a block of malloc. The converse
  fails, since realloc may shrink such a block below its alignment.

The proofs rest on the named assumptions of each module (`ThreadsAssumption`,
`ProcessAssumption`, `KeysAssumption`, `BoxAssumption`, `CondAssumption`,
`OutputAssumption`, `DirAssumption`, `HeapAssumption`, `TlsAssumption`,
`LifeAssumption`, `RwAssumption`): constants that stand for "none" differ from the values they
are not, sizes are positive, and the threads of a program are finitely many.

Two components share a proof module where one is built on, or beside, the other;
names both have carry a prefix in one of them (`Cv` in `LazyCondvar`, `Tls` in
`TlsStorage`, `Out` in `CommandOutput`).

Only proved, and in no run: the type invariants of `Parker`, `ChildProcess`,
`LazyKey`, `LazyMutex`, `LazyCondvar`, `CommandOutput` and `TlsStorage`, `NoPanic`
of `Parker` and `OnlyLockedLeaked` of `LazyMutex`.

Only model-checked: all liveness (the fairness parts of `RefinesToken`,
`RefinesMutex` and `RefinesRwLock`, `WaitReturns`, `KillEndsWait`,
`OutputReturns`, `AllServed`, `WaitersLeave`, `ScopeReturns` and `Returns`),
which the prover does not reach; and `OnceNoThreads`, whose property is violated.

## Not modelled

Quoting and formatting of command lines, the C glue beyond what the code asks of
it, the numbering table of error codes, and the forwarding parts of the file
system, the network, stdio, random, args and environment: one call each, with
no state between two of them. The conversions of `sys/time/aros.rs` and
`sys/path/aros.rs` are pure and small. `Once::wait` panics unconditionally. The
memory orderings of the RwLock, whose nodes are read with Relaxed loads under an
Acquire of the word, are taken as sequentially consistent. What errno's two
cells hold, and which numbers sockets and files get, is decided by the glue,
posixc and bsdsocket, which are not in the repository. remove_dir_all and
set_times are sequences of calls that trust what an earlier one returned; the
disagreements above say where that shows. The vendored
crates (core, alloc, compiler-builtins, stdarch, portable-simd, backtrace, test,
libunwind) and the platform layers of other systems are not part of the AROS
layer.

## Plan

1. The growth loops of readlink and getcwd, and the flags of OpenOptions,
   against reference definitions.
2. The chunks of `sleep` and the clamping of timeouts.
3. remove_dir_all by several processes, with links.
