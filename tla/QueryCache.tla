----------------------------- MODULE QueryCache -----------------------------
(***************************************************************************)
(* QueryCache of cache/query_cache.go: messages that age.  Get fetches the *)
(* entry from its shard, ages the records of the entry under the entry's   *)
(* own mutex, and removes the key from the shard after it has released the *)
(* mutex.  Entries are objects: a Get may hold one that the map no longer  *)
(* has.  The wall clock runs in ticks, TicksPerSecond to the second.       *)
(***************************************************************************)
EXTENDS Integers, Sequences, FiniteSetsExt

CONSTANTS Keys,             \* cache.Hash values
          Clients,          \* the goroutines that use the cache
          TicksPerSecond,   \* resolution of the wall clock
          Messages,         \* the TTLs of the Answer and Ns records of messages
          Uint32,           \* the modulus of uint32, 2^32 in the code
          MaxTime,          \* bound on the wall clock, in ticks
          MaxSets           \* bound on the calls of Set

ASSUME QueryCacheAssumption ==
    /\ TicksPerSecond \in Nat \ {0} /\ Uint32 \in Nat \ {0}
    /\ MaxTime \in Nat /\ MaxSets \in Nat
    /\ MaxTime < Uint32
    /\ Messages \subseteq Seq(0..Uint32 - 1) \ {<<>>}

VARIABLES clock,      \* WallClock.Now(), in ticks
          heap,       \* the entries ever made, in order; orig and born keep the
                      \* TTLs and the time they were made with (history)
          map,        \* shard.items: per key the index of its entry, or 0
          pc,         \* per client: the next step of its Get or Set, or "idle"
          el,         \* per client: the entry of its Get or Set, or 0
          got,        \* per client: what its last Get has returned
          condemned,  \* history: entries that a Get has found expired
          retired     \* history: entries that a Get has found expired and
                      \* removed

vars == <<clock, heap, map, pc, el, got, condemned, retired>>

\* What Get returns: the outcome and, for a hit, the TTLs of the copy, the entry,
\* its age in seconds, and whether another Get had found it expired before.
Missing == [res |-> "none", ttl |-> <<>>, entry |-> 0, age |-> 0, late |-> FALSE]

Init ==
    /\ clock = 0
    /\ heap = <<>>
    /\ map = [k \in Keys |-> 0]
    /\ pc = [c \in Clients |-> "idle"]
    /\ el = [c \in Clients |-> 0]
    /\ got = [c \in Clients |-> Missing]
    /\ condemned = {}
    /\ retired = {}

-----------------------------------------------------------------------------
\* Variant of Truncate that keeps the fraction of the second.
NoTruncate(t) == t

\* t.Truncate(time.Second), still in ticks.
Truncate(t) == t - (t % TicksPerSecond)

\* uint32(now.Sub(query.UpdateTime).Seconds())
Elapsed(e) == ((Truncate(clock) - e.UpdateTime) \div TicksPerSecond) % Uint32

\* The records that have outlived their TTL, and the first of them: the loop
\* over Answer and Ns stops there, after it has aged the ones before.
Overdue(e) == {i \in DOMAIN e.ttl : Elapsed(e) > e.ttl[i]}

AgedBefore(e, n) ==
    [i \in DOMAIN e.ttl |->
        IF i < n THEN (e.ttl[i] - Elapsed(e)) % Uint32 ELSE e.ttl[i]]

\* The entry with its records aged and its update time moved.
Updated(e, ttl) == [e EXCEPT !.ttl = ttl, !.UpdateTime = Truncate(clock)]

\* Get begins: fetch the entry under the lock of the shard.
GetFetch(c, k) ==
    /\ pc[c] = "idle"
    /\ IF map[k] = 0
       THEN /\ got' = [got EXCEPT ![c] = [Missing EXCEPT !.res = "notfound"]]
            /\ UNCHANGED <<pc, el>>
       ELSE /\ pc' = [pc EXCEPT ![c] = "age"]
            /\ el' = [el EXCEPT ![c] = map[k]]
            /\ got' = [got EXCEPT ![c] = Missing]
    /\ UNCHANGED <<clock, heap, map, condemned, retired>>

\* Variant of GetHit that does not look for overdue records.
GetHitUnchecked(c) ==
    /\ pc[c] = "age"
    /\ LET e == heap[el[c]]
           aged == AgedBefore(e, Len(e.ttl) + 1)
       IN  /\ heap' = [heap EXCEPT ![el[c]] = Updated(e, aged)]
           /\ got' = [got EXCEPT ![c] =
                 [res |-> "hit", ttl |-> aged, entry |-> el[c],
                  age |-> (Truncate(clock) - e.born) \div TicksPerSecond,
                  late |-> el[c] \in condemned]]
    /\ pc' = [pc EXCEPT ![c] = "idle"]
    /\ el' = [el EXCEPT ![c] = 0]
    /\ UNCHANGED <<clock, map, condemned, retired>>

\* Get under query.mu, no record overdue: age them all and return a copy.
GetHit(c) ==
    /\ pc[c] = "age"
    /\ Overdue(heap[el[c]]) = {}
    /\ LET e == heap[el[c]]
           aged == AgedBefore(e, Len(e.ttl) + 1)
       IN  /\ heap' = [heap EXCEPT ![el[c]] = Updated(e, aged)]
           /\ got' = [got EXCEPT ![c] =
                 [res |-> "hit", ttl |-> aged, entry |-> el[c],
                  age |-> (Truncate(clock) - e.born) \div TicksPerSecond,
                  late |-> el[c] \in condemned]]
    /\ pc' = [pc EXCEPT ![c] = "idle"]
    /\ el' = [el EXCEPT ![c] = 0]
    /\ UNCHANGED <<clock, map, condemned, retired>>

\* Get under query.mu, a record overdue: the update time has moved all the same.
GetExpired(c) ==
    /\ pc[c] = "age"
    /\ LET e == heap[el[c]]
       IN  \E n \in Overdue(e) :
              /\ \A i \in Overdue(e) : n <= i
              /\ heap' = [heap EXCEPT ![el[c]] = Updated(e, AgedBefore(e, n))]
    /\ condemned' = condemned \cup {el[c]}
    /\ pc' = [pc EXCEPT ![c] = "remove"]
    /\ UNCHANGED <<clock, map, el, got, retired>>

\* Variant of GetRemove that leaves the key in the shard.
GetRemoveNothing(c) ==
    /\ pc[c] = "remove"
    /\ retired' = retired \cup {el[c]}
    /\ got' = [got EXCEPT ![c] = [Missing EXCEPT !.res = "expired"]]
    /\ pc' = [pc EXCEPT ![c] = "idle"]
    /\ el' = [el EXCEPT ![c] = 0]
    /\ UNCHANGED <<clock, heap, map, condemned>>

\* Get after query.mu: remove the key, whatever its entry is by now.
GetRemove(c) ==
    /\ pc[c] = "remove"
    /\ map' = [map EXCEPT ![heap[el[c]].key] = 0]
    /\ retired' = retired \cup {el[c]}
    /\ got' = [got EXCEPT ![c] = [Missing EXCEPT !.res = "expired"]]
    /\ pc' = [pc EXCEPT ![c] = "idle"]
    /\ el' = [el EXCEPT ![c] = 0]
    /\ UNCHANGED <<clock, heap, condemned>>

\* Set begins: make the entry, a copy of the message.
SetMake(c, k, m) ==
    /\ pc[c] = "idle"
    /\ Len(heap) < MaxSets
    /\ heap' = Append(heap, [key |-> k, ttl |-> m, UpdateTime |-> Truncate(clock),
                             orig |-> m, born |-> Truncate(clock)])
    /\ pc' = [pc EXCEPT ![c] = "store"]
    /\ el' = [el EXCEPT ![c] = Len(heap) + 1]
    /\ UNCHANGED <<clock, map, got, condemned, retired>>

\* Set ends: store the entry in the shard.
SetStore(c) ==
    /\ pc[c] = "store"
    /\ map' = [map EXCEPT ![heap[el[c]].key] = el[c]]
    /\ pc' = [pc EXCEPT ![c] = "idle"]
    /\ el' = [el EXCEPT ![c] = 0]
    /\ UNCHANGED <<clock, heap, got, condemned, retired>>

\* The Set of another key of the shard evicts k.
Evict(k) ==
    /\ map[k] # 0
    /\ map' = [map EXCEPT ![k] = 0]
    /\ UNCHANGED <<clock, heap, pc, el, got, condemned, retired>>

Tick ==
    /\ clock < MaxTime
    /\ clock' = clock + 1
    /\ UNCHANGED <<heap, map, pc, el, got, condemned, retired>>

Step(c) ==
    \/ \E k \in Keys : GetFetch(c, k) \/ (\E m \in Messages : SetMake(c, k, m))
    \/ GetHit(c) \/ GetExpired(c) \/ GetRemove(c) \/ SetStore(c)

Next == Tick \/ (\E k \in Keys : Evict(k)) \/ (\E c \in Clients : Step(c))

Spec == Init /\ [][Next]_vars

-----------------------------------------------------------------------------
(* Properties.                                                             *)

Entry == [key : Keys, ttl : Seq(0..Uint32 - 1), UpdateTime : 0..MaxTime,
          orig : Seq(0..Uint32 - 1), born : 0..MaxTime]

Outcome == [res : {"none", "notfound", "expired", "hit"},
            ttl : Seq(0..Uint32 - 1), entry : 0..MaxSets, age : 0..MaxTime,
            late : BOOLEAN]

\* Type invariant.  A TTL never exceeds the one the record was stored with: the
\* unsigned subtraction in Get does not wrap.
TypeOK ==
    /\ clock \in 0..MaxTime
    /\ heap \in Seq(Entry) /\ Len(heap) <= MaxSets
    /\ \A n \in DOMAIN heap :
          /\ DOMAIN heap[n].ttl = DOMAIN heap[n].orig
          /\ \A i \in DOMAIN heap[n].ttl : heap[n].ttl[i] <= heap[n].orig[i]
    /\ map \in [Keys -> 0..Len(heap)]
    /\ pc \in [Clients -> {"idle", "age", "remove", "store"}]
    /\ el \in [Clients -> 0..Len(heap)]
    /\ got \in [Clients -> Outcome]
    /\ condemned \subseteq DOMAIN heap /\ retired \subseteq DOMAIN heap

\* Get serves the TTL that is left: however often and however many clients ask,
\* the TTLs of a hit and the seconds since Set add up to the TTLs of the stored
\* message, as long as no other Get had found the entry expired before.
HitHasRemainingTTL ==
    \A c \in Clients : got[c].res = "hit" /\ ~got[c].late =>
        \A i \in DOMAIN got[c].ttl :
            got[c].ttl[i] + got[c].age = heap[got[c].entry].orig[i]

\* Once a Get has reported an entry as expired the map never has it again, so a
\* Get that begins later cannot serve it.
ExpiredStaysRemoved == \A k \in Keys : map[k] \notin retired

\* The last second each key is good for, by the messages ever stored under it.
Due(k) ==
    LET lives == {(heap[n].born \div TicksPerSecond) + Min({heap[n].orig[i] : i \in DOMAIN heap[n].orig}) :
                     n \in {m \in DOMAIN heap : heap[m].key = k}}
    IN  IF lives = {} THEN -1 ELSE Max(lives)

Promise == INSTANCE ExpiringMap WITH
    MaxNow <- MaxTime,
    now <- clock \div TicksPerSecond,
    due <- [k \in Keys |-> Due(k)],
    served <- [c \in Clients |-> got[c].res = "hit" /\ ~got[c].late]

\* The query cache implements ExpiringMap, but for hits on an entry that another
\* Get has found expired and not yet removed: Get serves a message only while
\* all of its records are within their TTL, for any pattern of polling.
ImplementsExpiringMap == Promise!Spec
=============================================================================
