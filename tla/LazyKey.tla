------------------------------ MODULE LazyKey -------------------------------
(***************************************************************************)
(* The thread-local key behind every `thread_local!` on AROS: LazyKey of   *)
(* sys/thread_local/key/racy.rs over the pthread keys of key/aros.rs.      *)
(*                                                                         *)
(* Threads force the same static LazyKey at the same time.  The pool of    *)
(* pthread keys is shared with every other user of pthread_key_create,     *)
(* may hand out the sentinel value 0, hands out a deleted key again, and   *)
(* runs out, in which case the program aborts.                             *)
(***************************************************************************)
EXTENDS Naturals

CONSTANTS
    Threads,
    Keys,      \* the pthread keys there are (PTHREAD_KEYS_MAX of them)
    NoKey      \* no key

ASSUME KeysAssumption == Keys \subseteq Nat /\ NoKey \notin Nat

VARIABLES
    key,       \* LazyKey.key
    user,      \* who each pthread key belongs to: "free", "lazy" or "other"
    pc,        \* where each thread is in force
    mine,      \* the key a thread has created and not yet published
    ret,       \* the key force returned to the thread
    aborted    \* rtabort! has ended the program

vars == <<key, user, pc, mine, ret, aborted>>

KEY_SENTVAL == 0

Init ==
    /\ key = KEY_SENTVAL
    /\ user = [k \in Keys |-> "free"]
    /\ pc = [t \in Threads |-> "idle"]
    /\ mine = [t \in Threads |-> NoKey]
    /\ ret = [t \in Threads |-> NoKey]
    /\ aborted = FALSE

Goto(t, l) == pc' = [pc EXCEPT ![t] = l]

\* key/aros.rs create: any key that is free.
Create(k) == user[k] = "free" /\ user' = [user EXCEPT ![k] = "lazy"]

\* key/aros.rs destroy: pthread_key_delete frees it, whoever created it.
Destroy(k) == user' = [user EXCEPT ![k] = "free"]

\* force: a published key is returned at once.
ForceKey(t) ==
    /\ ~aborted /\ pc[t] = "idle"
    /\ \/ key = KEY_SENTVAL /\ Goto(t, "create") /\ UNCHANGED ret
       \/ key # KEY_SENTVAL /\ Goto(t, "using") /\ ret' = [ret EXCEPT ![t] = key]
    /\ UNCHANGED <<key, user, mine, aborted>>

\* lazy_init: the first key, which may be the sentinel.
CreateFirst(t, k) ==
    /\ ~aborted /\ pc[t] = "create"
    /\ Create(k)
    /\ mine' = [mine EXCEPT ![t] = k]
    /\ Goto(t, IF k = KEY_SENTVAL THEN "again" ELSE "publish")
    /\ UNCHANGED <<key, ret, aborted>>

\* Then a second one while the first is still taken, so it is another value.
CreateAgain(t, k) ==
    /\ ~aborted /\ pc[t] = "again"
    /\ Create(k)
    /\ mine' = [mine EXCEPT ![t] = k]
    /\ Goto(t, "drop_first")
    /\ UNCHANGED <<key, ret, aborted>>

DestroyFirst(t) ==
    /\ ~aborted /\ pc[t] = "drop_first"
    /\ Destroy(KEY_SENTVAL)
    /\ Goto(t, "publish")
    /\ UNCHANGED <<key, mine, ret, aborted>>

\* rtabort!("out of TLS keys").
OutOfKeys(t) ==
    /\ ~aborted /\ pc[t] \in {"create", "again"}
    /\ \A k \in Keys : user[k] # "free"
    /\ aborted' = TRUE
    /\ UNCHANGED <<key, user, pc, mine, ret>>

MutLoser(t) ==
    /\ ~aborted /\ pc[t] = "publish"
    /\ key' = IF key = KEY_SENTVAL THEN mine[t] ELSE key
    /\ ret' = [ret EXCEPT ![t] = key']
    /\ mine' = [mine EXCEPT ![t] = NoKey] /\ Goto(t, "using")
    /\ UNCHANGED <<user, aborted>>

MutPublish(t) ==
    /\ ~aborted /\ pc[t] = "publish"
    /\ key' = mine[t] /\ ret' = [ret EXCEPT ![t] = mine[t]]
    /\ mine' = [mine EXCEPT ![t] = NoKey] /\ Goto(t, "using")
    /\ UNCHANGED <<user, aborted>>

\* compare_exchange: the first thread publishes its key, a later one gives its
\* own up for the one that is there.
Publish(t) ==
    /\ ~aborted /\ pc[t] = "publish"
    /\ \/ /\ key = KEY_SENTVAL /\ key' = mine[t] /\ ret' = [ret EXCEPT ![t] = mine[t]]
          /\ mine' = [mine EXCEPT ![t] = NoKey] /\ Goto(t, "using")
       \/ /\ key # KEY_SENTVAL /\ ret' = [ret EXCEPT ![t] = key]
          /\ Goto(t, "lost") /\ UNCHANGED <<key, mine>>
    /\ UNCHANGED <<user, aborted>>

DestroyMine(t) ==
    /\ ~aborted /\ pc[t] = "lost"
    /\ Destroy(mine[t])
    /\ mine' = [mine EXCEPT ![t] = NoKey] /\ Goto(t, "using")
    /\ UNCHANGED <<key, ret, aborted>>

\* The thread goes on with the key, and forces it again for its next access.
Access(t) ==
    /\ ~aborted /\ pc[t] = "using"
    /\ Goto(t, "idle")
    /\ UNCHANGED <<key, user, mine, ret, aborted>>

\* Other users of the pool.
OtherUser(k) ==
    /\ ~aborted
    /\ \/ user[k] = "free" /\ user' = [user EXCEPT ![k] = "other"]
       \/ user[k] = "other" /\ user' = [user EXCEPT ![k] = "free"]
    /\ UNCHANGED <<key, pc, mine, ret, aborted>>

LazyInit(t) ==
    \/ ForceKey(t) \/ DestroyFirst(t) \/ OutOfKeys(t) \/ Publish(t) \/ DestroyMine(t) \/ Access(t)
    \/ \E k \in Keys : CreateFirst(t, k) \/ CreateAgain(t, k)

Next == (\E t \in Threads : LazyInit(t)) \/ \E k \in Keys : OtherUser(k)

Spec == Init /\ [][Next]_vars

-----------------------------------------------------------------------------
(* Properties *)

\* The types of the state, and the rtassert of lazy_init: the sentinel is
\* never what a thread is about to publish.
TypeOK ==
    /\ key \in Keys \cup {KEY_SENTVAL}
    /\ user \in [Keys -> {"free", "lazy", "other"}]
    /\ pc \in [Threads -> {"idle", "create", "again", "drop_first", "publish", "lost", "using"}]
    /\ mine \in [Threads -> Keys \cup {NoKey}]
    /\ ret \in [Threads -> Keys \cup {NoKey}]
    /\ aborted \in BOOLEAN
    /\ \A t \in Threads : pc[t] = "publish" => mine[t] # KEY_SENTVAL

\* Every thread that force has returned to uses the one published key, that
\* key is allocated to this LazyKey, and it is not the sentinel: no thread is
\* left with the key of a race it lost, or with one that was deleted.
KeysAgree ==
    \A t \in Threads : pc[t] = "using" => ret[t] = key /\ key # KEY_SENTVAL /\ user[key] = "lazy"

\* The pthread keys taken by this LazyKey are the published one and those that
\* threads are still racing with: losing a race or drawing the sentinel gives
\* a key back.
NoKeyLeaked ==
    \A k \in Keys : user[k] = "lazy" =>
        \/ k = key /\ k # KEY_SENTVAL
        \/ \E t \in Threads : mine[t] = k \/ (k = KEY_SENTVAL /\ pc[t] \in {"again", "drop_first"})
=============================================================================
