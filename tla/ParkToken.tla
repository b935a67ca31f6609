----------------------------- MODULE ParkToken -----------------------------
(***************************************************************************)
(* What a thread parker promises its callers, with no lock, no condition   *)
(* variable and no interleaved steps: one token, made available by unpark  *)
(* and consumed by the owner thread.  park returns only by consuming the   *)
(* token, park_timeout also by timing out, and nothing else ever happens.  *)
(* Parker.tla is shown to implement this specification.                    *)
(***************************************************************************)
VARIABLES
    token,   \* TRUE iff an unpark has not been consumed yet
    owner    \* "running", or the parking call the owner is inside

vars == <<token, owner>>

Calls == {"park", "park_timeout"}

Init == token = FALSE /\ owner = "running"

Call(c) == owner = "running" /\ owner' = c /\ UNCHANGED token

\* The call returns with the token: at most one token is ever consumed by it.
Consume == owner \in Calls /\ token /\ token' = FALSE /\ owner' = "running"

\* park_timeout gives up; a token that is available is never left behind.
TimeOut == owner = "park_timeout" /\ ~token /\ owner' = "running" /\ UNCHANGED token

\* Unparking twice is the same as unparking once.
Unpark == token' = TRUE /\ UNCHANGED owner

Next == Consume \/ TimeOut \/ Unpark \/ \E c \in Calls : Call(c)

\* A call that can return does; park_timeout returns whatever happens.
Fairness == WF_vars(Consume) /\ WF_vars(Consume \/ TimeOut)

Safety == Init /\ [][Next]_vars
Spec == Safety /\ Fairness
=============================================================================
