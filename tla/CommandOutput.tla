--------------------------- MODULE CommandOutput ----------------------------
(***************************************************************************)
(* Command::output on AROS: `output` and `read_output` of                  *)
(* sys/process/aros.rs over the pipes of sys/pipe/aros.rs.                 *)
(*                                                                         *)
(* A child writes to stdout and stderr in any order, and blocks while the  *)
(* pipe it writes to is full.  The parent drains the pipes, then waits for *)
(* the child.  Bytes are counted per stream: the PIPE: handler (external)  *)
(* keeps their order, so what can go wrong is losing some, putting them in *)
(* the wrong buffer, stopping early, or never stopping.  Either stream may *)
(* have been redirected by the caller, and then has no pipe.               *)
(***************************************************************************)
EXTENDS Naturals

CONSTANTS
    PipeSize,          \* bytes a pipe holds
    Chunk,             \* the size of the read buffer (4096 in the code)
    MaxWrite,          \* bound on what the child writes to each stream
    MaxIntr,           \* bound on the reads that are interrupted
    NonblockMayFail    \* whether aros_pipe_set_nonblock can fail

ASSUME OutputAssumption ==
    /\ PipeSize \in Nat \ {0} /\ Chunk \in Nat \ {0}
    /\ MaxWrite \in Nat /\ MaxIntr \in Nat
    /\ NonblockMayFail \in BOOLEAN

Streams == {"out", "err"}

VARIABLES
    piped,        \* the streams that have a pipe
    nonblock,     \* the mode of each pipe
    pipe,         \* bytes in each pipe
    wrote,        \* bytes the child has written to each stream
    got,          \* bytes in the caller's vectors
    cpc,          \* the child: "run", the stream it is writing to, or "exited"
    rpc,          \* the parent: where it is in `output`
    cur,          \* the stream of the `for` loop
    done,         \* out_done and err_done
    progressed,
    intr          \* reads interrupted so far

writerVars  == <<wrote, cpc>>
modeVars   == <<piped, nonblock>>
parentVars == <<got, rpc, cur, done, progressed, intr>>
outVars == <<modeVars, pipe, writerVars, parentVars>>

Least(a, b) == IF a < b THEN a ELSE b

\* The child has been spawned with the streams the caller left to `output`.
OutInit ==
    /\ piped \in SUBSET Streams
    /\ nonblock = [s \in Streams |-> FALSE]
    /\ pipe = [s \in Streams |-> 0]
    /\ wrote = [s \in Streams |-> 0]
    /\ got = [s \in Streams |-> 0]
    /\ cpc = "run"
    /\ rpc = IF piped = Streams THEN "modes" ELSE IF piped = {} THEN "wait" ELSE "to_end"
    /\ cur = "out"
    /\ done = [s \in Streams |-> FALSE]
    /\ progressed = FALSE
    /\ intr = 0

-----------------------------------------------------------------------------
(* Pipe::read: what a read can find.                                       *)

\* Ok(n): n bytes move from the pipe to the vector of the same stream.
Take(s, n) ==
    /\ pipe' = [pipe EXCEPT ![s] = @ - n]
    /\ got' = [got EXCEPT ![s] = @ + n]

Readable(s, n) == n \in 1 .. Least(pipe[s], Chunk)
AtEof(s) == pipe[s] = 0 /\ cpc = "exited"
WouldBlock(s) == pipe[s] = 0 /\ cpc # "exited" /\ nonblock[s]

-----------------------------------------------------------------------------
(* read_output *)

\* set_nonblocking on both; `let _ =` drops a failure.
SetModes ==
    /\ rpc = "modes"
    /\ nonblock' \in IF NonblockMayFail THEN [Streams -> BOOLEAN] ELSE [Streams -> {TRUE}]
    /\ rpc' = "read" /\ cur' = "out" /\ progressed' = FALSE
    /\ UNCHANGED <<piped, pipe, writerVars, got, done, intr>>

\* The `for` goes on to stderr, or the turn ends: `while` decides with the
\* flags this turn leaves behind.
EndOfBody ==
    IF cur = "out"
    THEN cur' = "err" /\ rpc' = "read"
    ELSE /\ cur' = "out"
         /\ rpc' = IF \A s \in Streams : done'[s] THEN "wait"
                   ELSE IF progressed' THEN "again" ELSE "yield"

\* This stream is at its end already.
SkipDone ==
    /\ rpc = "read" /\ done[cur]
    /\ UNCHANGED <<modeVars, pipe, writerVars, got, done, progressed, intr>>
    /\ EndOfBody

ReadSome(n) ==
    /\ rpc = "read" /\ ~done[cur] /\ Readable(cur, n)
    /\ Take(cur, n)
    /\ progressed' = TRUE
    /\ UNCHANGED <<modeVars, writerVars, done, intr>>
    /\ EndOfBody

MutReadEof ==
    /\ rpc = "read" /\ ~done[cur] /\ AtEof(cur)
    /\ UNCHANGED <<modeVars, pipe, writerVars, got, done, progressed, intr>>
    /\ EndOfBody

ReadEof ==
    /\ rpc = "read" /\ ~done[cur] /\ AtEof(cur)
    /\ done' = [done EXCEPT ![cur] = TRUE]
    /\ UNCHANGED <<modeVars, pipe, writerVars, got, progressed, intr>>
    /\ EndOfBody

MutReadWouldBlock ==
    /\ rpc = "read" /\ ~done[cur] /\ WouldBlock(cur)
    /\ done' = [done EXCEPT ![cur] = TRUE]
    /\ UNCHANGED <<modeVars, pipe, writerVars, got, progressed, intr>>
    /\ EndOfBody

ReadWouldBlock ==
    /\ rpc = "read" /\ ~done[cur] /\ WouldBlock(cur)
    /\ UNCHANGED <<modeVars, pipe, writerVars, got, done, progressed, intr>>
    /\ EndOfBody

ReadInterrupted ==
    /\ rpc = "read" /\ ~done[cur] /\ intr < MaxIntr
    /\ intr' = intr + 1
    /\ progressed' = TRUE
    /\ UNCHANGED <<modeVars, pipe, writerVars, got, done>>
    /\ EndOfBody

\* Any other error ends `output`, and its pipes and Process are dropped.
ReadFails ==
    /\ rpc \in {"read", "to_end"}
    /\ rpc' = "failed"
    /\ UNCHANGED <<modeVars, pipe, writerVars, got, cur, done, progressed, intr>>

\* The next turn of `while`, after a yield when nothing was ready.
NextTurn ==
    /\ rpc \in {"again", "yield"}
    /\ rpc' = "read" /\ progressed' = FALSE
    /\ UNCHANGED <<modeVars, pipe, writerVars, got, cur, done, intr>>

ReadOutput ==
    \/ SetModes \/ SkipDone \/ ReadEof \/ ReadWouldBlock \/ ReadInterrupted \/ NextTurn
    \/ \E n \in 1 .. Chunk : ReadSome(n)

-----------------------------------------------------------------------------
(* Pipe::read_to_end, for the only stream with a pipe; its reads block.    *)

ReadToEnd ==
    \E s \in piped :
        /\ rpc = "to_end"
        /\ \/ \E n \in 1 .. Chunk : Readable(s, n) /\ Take(s, n) /\ UNCHANGED <<rpc, intr>>
           \/ AtEof(s) /\ rpc' = "wait" /\ UNCHANGED <<pipe, got, intr>>
           \/ intr < MaxIntr /\ intr' = intr + 1 /\ UNCHANGED <<pipe, got, rpc>>
        /\ UNCHANGED <<modeVars, writerVars, cur, done, progressed>>

\* Process::wait (see ChildProcess): it returns once the child is gone.
WaitChild ==
    /\ rpc = "wait" /\ cpc = "exited"
    /\ rpc' = "ok"
    /\ UNCHANGED <<modeVars, pipe, writerVars, got, cur, done, progressed, intr>>

Output == ReadOutput \/ ReadToEnd \/ WaitChild

-----------------------------------------------------------------------------
(* The child, which closes its ends when it exits.                         *)

ChildBegins(s) ==
    /\ cpc = "run" /\ wrote[s] < MaxWrite
    /\ cpc' = s
    /\ UNCHANGED <<modeVars, pipe, wrote, parentVars>>

\* A write fills what room there is, and waits for room when there is none;
\* with no reader left, or no pipe, it ends at once.
ChildWrites(n) ==
    /\ cpc \in Streams
    /\ cpc' = "run" /\ wrote' = [wrote EXCEPT ![cpc] = @ + n]
    /\ n \in 1 .. MaxWrite - wrote[cpc]
    /\ IF cpc \in piped /\ rpc # "failed"
       THEN n <= PipeSize - pipe[cpc] /\ pipe' = [pipe EXCEPT ![cpc] = @ + n]
       ELSE UNCHANGED pipe
    /\ UNCHANGED <<modeVars, parentVars>>

ChildExits ==
    /\ cpc = "run"
    /\ cpc' = "exited"
    /\ UNCHANGED <<modeVars, pipe, wrote, parentVars>>

Child == ChildExits \/ (\E s \in Streams : ChildBegins(s)) \/ \E n \in 1 .. MaxWrite : ChildWrites(n)

OutNext == Output \/ ReadFails \/ Child

(* Both processes are scheduled; the child writes a bounded amount and ends *)
(* unless a full pipe holds it up.  Reads need not fail.                    *)
OutSpec == OutInit /\ [][OutNext]_outVars /\ WF_outVars(Output) /\ WF_outVars(Child)

-----------------------------------------------------------------------------
(* Properties *)

\* The types of the state; in particular no vector is longer than what the
\* child wrote can make it.
OutTypeOK ==
    /\ piped \in SUBSET Streams
    /\ nonblock \in [Streams -> BOOLEAN]
    /\ pipe \in [Streams -> 0 .. PipeSize]
    /\ wrote \in [Streams -> 0 .. MaxWrite]
    /\ got \in [Streams -> 0 .. MaxWrite]
    /\ cpc \in {"run", "exited"} \cup Streams
    /\ rpc \in {"modes", "read", "again", "yield", "to_end", "wait", "ok", "failed"}
    /\ cur \in Streams
    /\ done \in [Streams -> BOOLEAN]
    /\ progressed \in BOOLEAN
    /\ intr \in 0 .. MaxIntr

\* When output returns Ok the child has exited and each vector holds exactly
\* what the child wrote to that stream: an empty pipe is not taken for its
\* end, and the two streams are not mixed up.
CompleteCapture ==
    rpc = "ok" => cpc = "exited" /\ \A s \in piped : got[s] = wrote[s]

\* The parent waits for something on a pipe that refused the non-blocking mode
\* while the child waits for room in the other one.
Wedged ==
    /\ rpc = "read" /\ ~nonblock[cur] /\ pipe[cur] = 0
    /\ cpc \in Streams \ {cur} /\ pipe[cpc] = PipeSize

\* "drained in turn so neither can wedge the other": output returns, however
\* the child interleaves its two streams and however small the pipes are; the
\* one exception is a mode that could not be set, a failure which is dropped.
OutputReturns == <>(rpc \in {"ok", "failed"}) \/ <>[]Wedged
=============================================================================
