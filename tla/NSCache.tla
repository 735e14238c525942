------------------------------ MODULE NSCache ------------------------------
(***************************************************************************)
(* NSCache of cache/ns_cache.go: the nameservers and DS records of zones.  *)
(* Like QueryCache, Get fetches the entry under the lock of the map, ages  *)
(* it under the entry's own mutex and removes the key after it has         *)
(* released the mutex.  The map has no size; an hourly clear() scans it    *)
(* for an expired entry, reading the entries without their mutex.  Time is *)
(* in seconds, as WallClock.Now().Truncate(time.Second) gives it.          *)
(***************************************************************************)
EXTENDS Integers, Sequences

CONSTANTS Keys,       \* cache.Hash values of zones
          Clients,    \* the goroutines that use the cache
          NoClient,   \* nobody
          TTLs,       \* the TTLs of delegations
          MaxTime,    \* bound on the clock
          MaxSets     \* bound on the calls of Set

ASSUME NSCacheAssumption ==
    /\ NoClient \notin Clients /\ TTLs \subseteq Nat
    /\ MaxTime \in Nat /\ MaxSets \in Nat

VARIABLES clock,      \* the time
          heap,       \* the entries ever made, in order: TTL and UpdateTime, the
                      \* holder mu of the mutex, the values was that mu replaces;
                      \* orig and born are history
          map,        \* NSCache.m: per key the index of its entry, or 0
          pc,         \* per client: the next step of its Get, or "idle"
          el,         \* per client: the entry of its Get, or 0
          got,        \* per client: what its last Get has returned
          condemned,  \* history: entries that a Get has found expired
          tock        \* flips with every call of clear(), so that a call that
                      \* removes nothing is a step too

vars == <<clock, heap, map, pc, el, got, condemned, tock>>

\* What Get returns; for a hit also the TTL then left, the age and whether
\* another Get had found the entry expired before.
Missing == [res |-> "none", entry |-> 0, TTL |-> 0, age |-> 0, late |-> FALSE]

Init ==
    /\ clock = 0
    /\ heap = <<>>
    /\ map = [k \in Keys |-> 0]
    /\ pc = [c \in Clients |-> "idle"]
    /\ el = [c \in Clients |-> 0]
    /\ got = [c \in Clients |-> Missing]
    /\ condemned = {}
    /\ tock = FALSE

-----------------------------------------------------------------------------
\* Set, under the lock of the map.
Set(k, ttl) ==
    /\ Len(heap) < MaxSets
    /\ heap' = Append(heap,
                 [key |-> k, TTL |-> ttl, UpdateTime |-> clock, mu |-> NoClient,
                  was |-> <<ttl, clock>>, orig |-> ttl, born |-> clock])
    /\ map' = [map EXCEPT ![k] = Len(heap) + 1]
    /\ UNCHANGED <<clock, pc, el, got, condemned, tock>>

\* Get begins: fetch the entry under the lock of the map.
GetFetch(c, k) ==
    /\ pc[c] = "idle"
    /\ IF map[k] = 0
       THEN /\ got' = [got EXCEPT ![c] = [Missing EXCEPT !.res = "notfound"]]
            /\ UNCHANGED <<pc, el>>
       ELSE /\ pc' = [pc EXCEPT ![c] = "lock"]
            /\ el' = [el EXCEPT ![c] = map[k]]
            /\ got' = [got EXCEPT ![c] = Missing]
    /\ UNCHANGED <<clock, heap, map, condemned, tock>>

\* elapsed >= ns.TTL
Expired(e) == clock - e.UpdateTime >= e.TTL

\* Variant of GetAge that forgets to move the update time.
GetAgeKeepsTime(c) ==
    LET e == heap[el[c]]
    IN  /\ pc[c] = "lock" /\ e.mu = NoClient /\ ~Expired(e)
        /\ heap' = [heap EXCEPT ![el[c]] =
              [e EXCEPT !.TTL = e.TTL - (clock - e.UpdateTime),
                        !.mu = c, !.was = <<e.TTL, e.UpdateTime>>]]
        /\ pc' = [pc EXCEPT ![c] = "unlock"]
        /\ UNCHANGED <<clock, map, el, got, condemned, tock>>

\* Variant of GetAge that does not wait for ns.mu.
GetAgeUnlocked(c) ==
    LET e == heap[el[c]]
    IN  /\ pc[c] = "lock" /\ ~Expired(e)
        /\ heap' = [heap EXCEPT ![el[c]] =
              [e EXCEPT !.TTL = e.TTL - (clock - e.UpdateTime),
                        !.UpdateTime = clock,
                        !.mu = c, !.was = <<e.TTL, e.UpdateTime>>]]
        /\ pc' = [pc EXCEPT ![c] = "unlock"]
        /\ UNCHANGED <<clock, map, el, got, condemned, tock>>

\* Get under ns.mu, the entry not expired: age it.
GetAge(c) ==
    LET e == heap[el[c]]
    IN  /\ pc[c] = "lock" /\ e.mu = NoClient /\ ~Expired(e)
        /\ heap' = [heap EXCEPT ![el[c]] =
              [e EXCEPT !.TTL = e.TTL - (clock - e.UpdateTime),
                        !.UpdateTime = clock,
                        !.mu = c, !.was = <<e.TTL, e.UpdateTime>>]]
        /\ pc' = [pc EXCEPT ![c] = "unlock"]
        /\ UNCHANGED <<clock, map, el, got, condemned, tock>>

\* Get under ns.mu, the entry expired: the update time moves all the same.
GetCondemn(c) ==
    LET e == heap[el[c]]
    IN  /\ pc[c] = "lock" /\ e.mu = NoClient /\ Expired(e)
        /\ heap' = [heap EXCEPT ![el[c]] =
              [e EXCEPT !.UpdateTime = clock,
                        !.mu = c, !.was = <<e.TTL, e.UpdateTime>>]]
        /\ condemned' = condemned \cup {el[c]}
        /\ pc' = [pc EXCEPT ![c] = "expired"]
        /\ UNCHANGED <<clock, map, el, got, tock>>

\* ns.mu.Unlock() of the entry c holds.
Unlocked(c) ==
    LET e == heap[el[c]]
    IN  [heap EXCEPT ![el[c]] =
            [e EXCEPT !.mu = NoClient, !.was = <<e.TTL, e.UpdateTime>>]]

\* Get of a live entry releases ns.mu and returns the entry itself.
GetHit(c) ==
    /\ pc[c] = "unlock"
    /\ heap' = Unlocked(c)
    /\ got' = [got EXCEPT ![c] =
          LET e == heap[el[c]]
          IN  [res |-> "hit", entry |-> el[c], TTL |-> e.TTL,
               age |-> e.UpdateTime - e.born, late |-> el[c] \in condemned]]
    /\ pc' = [pc EXCEPT ![c] = "idle"]
    /\ el' = [el EXCEPT ![c] = 0]
    /\ UNCHANGED <<clock, map, condemned, tock>>

\* Get of an expired entry releases ns.mu.
GetUnlock(c) ==
    /\ pc[c] = "expired"
    /\ heap' = Unlocked(c)
    /\ pc' = [pc EXCEPT ![c] = "remove"]
    /\ UNCHANGED <<clock, map, el, got, condemned, tock>>

\* Get ends: remove the key, whatever its entry is by now.
GetRemove(c) ==
    /\ pc[c] = "remove"
    /\ map' = [map EXCEPT ![heap[el[c]].key] = 0]
    /\ got' = [got EXCEPT ![c] = [Missing EXCEPT !.res = "expired"]]
    /\ pc' = [pc EXCEPT ![c] = "idle"]
    /\ el' = [el EXCEPT ![c] = 0]
    /\ UNCHANGED <<clock, heap, condemned, tock>>

\* What clear() may read of an entry: while a Get holds ns.mu each of the two
\* fields is the old one or the new one.
Views(e) ==
    {[e EXCEPT !.TTL = x, !.UpdateTime = y] :
        x \in {e.TTL, e.was[1]}, y \in {e.UpdateTime, e.was[2]}}

\* The keys that clear() may, and the keys that it must, find expired.
MayExpire == {k \in Keys : map[k] # 0 /\ \E e \in Views(heap[map[k]]) : Expired(e)}
MustExpire == {k \in Keys : map[k] # 0 /\ \A e \in Views(heap[map[k]]) : Expired(e)}

\* Variant of clear whose loop ends after the first key it looks at.
ClearFirst ==
    /\ \E k \in {j \in Keys : map[j] # 0} :
          map' = IF k \in MayExpire THEN [map EXCEPT ![k] = 0] ELSE map
    /\ tock' = ~tock
    /\ UNCHANGED <<clock, heap, pc, el, got, condemned>>

\* Variant of clear that forgets the age of an entry.
ClearAny ==
    /\ \E k \in {j \in Keys : map[j] # 0} : map' = [map EXCEPT ![k] = 0]
    /\ tock' = ~tock
    /\ UNCHANGED <<clock, heap, pc, el, got, condemned>>

\* clear, under the lock of the map: remove the first expired entry found, in
\* any order, and stop.
Clear ==
    /\ \/ \E k \in MayExpire : map' = [map EXCEPT ![k] = 0]
       \/ MustExpire = {} /\ UNCHANGED map
    /\ tock' = ~tock
    /\ UNCHANGED <<clock, heap, pc, el, got, condemned>>

Tick ==
    /\ clock < MaxTime
    /\ clock' = clock + 1
    /\ UNCHANGED <<heap, map, pc, el, got, condemned, tock>>

\* The rest of a Get that has begun.
GetStep(c) ==
    GetAge(c) \/ GetCondemn(c) \/ GetHit(c) \/ GetUnlock(c) \/ GetRemove(c)

Next ==
    \/ Tick \/ Clear
    \/ \E k \in Keys : \/ \E ttl \in TTLs : Set(k, ttl)
                       \/ \E c \in Clients : GetFetch(c, k)
    \/ \E c \in Clients : GetStep(c)

Spec == Init /\ [][Next]_vars

\* A Get that has begun goes on, and the ticker of run() calls clear() again and
\* again.
FairSpec == Spec /\ WF_vars(Clear) /\ \A c \in Clients : WF_vars(GetStep(c))

-----------------------------------------------------------------------------
(* Properties.                                                             *)

Age(n) == clock - heap[n].born

\* Type invariant.  The mutex of an entry is held by the client that is aging it,
\* and the unsigned subtraction from TTL does not wrap.
TypeOK ==
    /\ clock \in 0..MaxTime
    /\ Len(heap) <= MaxSets
    /\ \A n \in DOMAIN heap :
          /\ heap[n].key \in Keys
          /\ heap[n].TTL \in 0..heap[n].orig
          /\ heap[n].UpdateTime \in heap[n].born..clock
          /\ heap[n].mu \in Clients \cup {NoClient}
          /\ \A c \in Clients : heap[n].mu = c <=>
                el[c] = n /\ pc[c] \in {"unlock", "expired"}
    /\ map \in [Keys -> 0..Len(heap)]
    /\ pc \in [Clients -> {"idle", "lock", "unlock", "expired", "remove"}]
    /\ el \in [Clients -> 0..Len(heap)]
    /\ condemned \subseteq DOMAIN heap
    /\ tock \in BOOLEAN

\* Get hands out the TTL that is left: for an entry that no other Get had found
\* expired, the TTL and the age add up to the TTL of the delegation, however
\* many goroutines have aged the entry.
HitHasRemainingTTL ==
    \A c \in Clients : got[c].res = "hit" /\ ~got[c].late =>
        /\ got[c].TTL + got[c].age = heap[got[c].entry].orig
        /\ got[c].TTL > 0

\* clear() removes an entry only when its TTL has run out or while a Get is
\* rewriting the fields that clear() reads without the mutex.
ClearRemovesExpired ==
    [][\A k \in Keys : Clear /\ map'[k] # map[k] =>
          \/ Age(map[k]) >= heap[map[k]].orig
          \/ heap[map[k]].mu # NoClient]_vars

\* A delegation whose TTL has run out leaves the cache even when nobody asks for
\* it: clear() removes one expired entry at a time, but it always finds one.
ExpiredIsCleared ==
    \A n \in 1..MaxSets :
        (n \in DOMAIN heap /\ Age(n) >= heap[n].orig)
            ~> (\A k \in Keys : map[k] # n)
=============================================================================
