---------------------------- MODULE ExpiringMap ----------------------------
(***************************************************************************)
(* What the caches of sdns promise their callers: a Get may miss at any    *)
(* time, since entries are evicted and removed, but it serves a key only   *)
(* while some value stored under it has not run out.                       *)
(***************************************************************************)
EXTENDS Integers

CONSTANTS Keys,      \* the keys
          Clients,   \* the callers
          MaxNow     \* bound on the time

VARIABLES now,       \* the time in seconds
          due,       \* per key: the last second a stored value is good for, or -1
          served     \* per caller: its last Get has served a value

mapVars == <<now, due, served>>

Init ==
    /\ now = 0
    /\ due = [k \in Keys |-> -1]
    /\ served = [c \in Clients |-> FALSE]

\* A value that is good for longer than those before is stored under k.
Put(k) ==
    /\ due' \in [Keys -> Int]
    /\ due'[k] > due[k]
    /\ \A j \in Keys \ {k} : due'[j] = due[j]
    /\ UNCHANGED <<now, served>>

\* A Get of k succeeds.
Serve(c, k) ==
    /\ now <= due[k]
    /\ served' = [served EXCEPT ![c] = TRUE]
    /\ UNCHANGED <<now, due>>

\* A Get begins, or fails.
Refuse(c) ==
    /\ served' = [served EXCEPT ![c] = FALSE]
    /\ UNCHANGED <<now, due>>

Advance ==
    /\ now < MaxNow
    /\ now' = now + 1
    /\ UNCHANGED <<due, served>>

Next ==
    \/ Advance
    \/ \E k \in Keys : Put(k)
    \/ \E c \in Clients : Refuse(c) \/ (\E k \in Keys : Serve(c, k))

Spec == Init /\ [][Next]_mapVars
=============================================================================
