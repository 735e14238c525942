------------------------------- MODULE Shard -------------------------------
(***************************************************************************)
(* One shard of the query cache or the error cache (cache/shard.go): a map *)
(* of bounded size with random eviction.  Set reads the length, picks a    *)
(* victim, removes it and stores the new element, and takes the lock anew  *)
(* for each of them, so the calls of several goroutines interleave.  Get   *)
(* and Len change nothing.  ErrorCache makes the calls.                    *)
(***************************************************************************)
EXTENDS Integers, FiniteSets

CONSTANTS Keys,      \* the keys that fall into this shard
          Clients,   \* the goroutines that use the cache
          NoKey,     \* no key
          size       \* shard.size, at least 4 in NewErrorCache

ASSUME ShardAssumption == NoKey \notin Keys /\ size \in Nat \ {0}

VARIABLES items,     \* shard.items
          pc,        \* per client: the next step of its call, or "idle"
          key,       \* per client: the key of its call
          l,         \* per client: the length its Set has read
          victim,    \* per client: the key Evict has picked
          overlap    \* history, per client: another goroutine has changed the
                     \* shard since its Set began

shardVars == <<items, pc, key, l, victim, overlap>>

Stored == DOMAIN items
Put(k, el) == [j \in Stored \cup {k} |-> IF j = k THEN el ELSE items[j]]
Without(k) == [j \in Stored \ {k} |-> items[j]]

ShardInit ==
    /\ items = [k \in {} |-> 0]
    /\ pc = [c \in Clients |-> "idle"]
    /\ key = [c \in Clients |-> NoKey]
    /\ l = [c \in Clients |-> 0]
    /\ victim = [c \in Clients |-> NoKey]
    /\ overlap = [c \in Clients |-> FALSE]

Goto(c, from, to) == pc[c] = from /\ pc' = [pc EXCEPT ![c] = to]

\* The clients other than c that are inside Set now overlap with a change.
InSet(c) == pc[c] \in {"pick", "evict", "store"}
Disturbed(c) == [d \in Clients |-> overlap[d] \/ (d # c /\ InSet(d))]

\* Variant of SetLen that lets the map grow one element too far.
SetLenOffByOne(c) ==
    /\ Goto(c, "set", IF Cardinality(Stored) > size THEN "pick" ELSE "store")
    /\ l' = [l EXCEPT ![c] = Cardinality(Stored)]
    /\ UNCHANGED <<items, key, victim, overlap>>

\* Set begins: l := s.Len(), and l+1 > s.size calls Evict.
SetLen(c) ==
    /\ Goto(c, "set", IF Cardinality(Stored) + 1 > size THEN "pick" ELSE "store")
    /\ l' = [l EXCEPT ![c] = Cardinality(Stored)]
    /\ UNCHANGED <<items, key, victim, overlap>>

\* Evict, under the read lock: pick any key; an empty map has none.
EvictPick(c) ==
    /\ \/ Stored = {} /\ Goto(c, "pick", "store") /\ UNCHANGED victim
       \/ \E k \in Stored : /\ Goto(c, "pick", "evict")
                            /\ victim' = [victim EXCEPT ![c] = k]
    /\ UNCHANGED <<items, key, l, overlap>>

\* Evict, under the write lock: remove the victim, which may be gone already.
EvictRemove(c) ==
    /\ Goto(c, "evict", "store")
    /\ items' = Without(victim[c])
    /\ victim' = [victim EXCEPT ![c] = NoKey]
    /\ overlap' = Disturbed(c)
    /\ UNCHANGED <<key, l>>

\* Set ends: s.items[key] = el.
SetStore(c, el) ==
    /\ Goto(c, "store", "idle")
    /\ items' = Put(key[c], el)
    /\ key' = [key EXCEPT ![c] = NoKey]
    /\ l' = [l EXCEPT ![c] = 0]
    /\ overlap' = [Disturbed(c) EXCEPT ![c] = FALSE]
    /\ UNCHANGED victim

\* Remove.
Remove(c) ==
    /\ Goto(c, "remove", "idle")
    /\ items' = Without(key[c])
    /\ key' = [key EXCEPT ![c] = NoKey]
    /\ overlap' = Disturbed(c)
    /\ UNCHANGED <<l, victim>>

-----------------------------------------------------------------------------
\* A Set that no other change of the shard overlapped leaves the shard within its
\* size, or no larger than the Set found it: a cache that is filled by one
\* goroutine keeps the bound, and one that races have made too large grows no
\* further unless Sets overlap again.
LoneSetKeepsBound ==
    [][\A c \in Clients : pc[c] = "store" /\ pc'[c] = "idle" /\ ~overlap[c]
          => Cardinality(Stored') <= size \/ Cardinality(Stored') <= l[c]]_shardVars
=============================================================================
