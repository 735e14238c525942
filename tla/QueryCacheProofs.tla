-------------------------- MODULE QueryCacheProofs --------------------------
(***************************************************************************)
(* Proofs about QueryCache for any keys, goroutines, messages and          *)
(* resolution of the clock: TTLs never wrap, a hit carries the TTL that is *)
(* left, and a removed entry stays out of the map.                         *)
(***************************************************************************)
EXTENDS QueryCache, TLAPS

\* Whole seconds since the start.
Sec(t) == t \div TicksPerSecond

\* The times of an entry are whole seconds, in order, and not in the future.
TimedEntry(e) ==
    /\ e.UpdateTime = TicksPerSecond * Sec(e.UpdateTime)
    /\ e.born = TicksPerSecond * Sec(e.born)
    /\ e.born <= e.UpdateTime /\ e.UpdateTime <= clock

\* No record has more than its TTL left.
AgedEntry(e) ==
    /\ DOMAIN e.ttl = DOMAIN e.orig
    /\ \A i \in DOMAIN e.ttl : e.ttl[i] <= e.orig[i]

\* What is left of an entry's TTLs and its age add up to what it was stored with.
ExactEntry(e) ==
    \A i \in DOMAIN e.ttl : e.ttl[i] + Sec(e.UpdateTime) - Sec(e.born) = e.orig[i]

HeapInv ==
    \A n \in DOMAIN heap :
        /\ TimedEntry(heap[n])
        /\ n \notin condemned => ExactEntry(heap[n])

\* Which entries the map and the clients hold: the one that a Set is about to store
\* is its own.
Held ==
    /\ \A k \in Keys : map[k] # 0 => heap[map[k]].key = k
    /\ \A c \in Clients : pc[c] # "idle" => el[c] \in DOMAIN heap
    /\ \A c \in Clients : pc[c] = "store" =>
          /\ el[c] \notin retired
          /\ \A k \in Keys : map[k] # el[c]
          /\ \A d \in Clients \ {c} : pc[d] # "idle" => el[d] # el[c]

\* The entry of a hit.
HitKnown ==
    \A c \in Clients : got[c].res = "hit" =>
        /\ got[c].entry \in DOMAIN heap
        /\ DOMAIN got[c].ttl = DOMAIN heap[got[c].entry].orig

\* The inductive invariant.
IInv == TypeOK /\ HeapInv /\ Held /\ HitKnown /\ HitHasRemainingTTL /\ ExpiredStaysRemoved

-----------------------------------------------------------------------------
(* Arithmetic of times.                                                    *)

\* Whole seconds are natural numbers that grow with the time.
LEMMA SecType ==
  ASSUME NEW s \in Nat
  PROVE  Sec(s) \in Nat /\ Sec(s) <= s
  BY QueryCacheAssumption DEF Sec

\* Truncate gives the last whole second.
LEMMA TruncateWhole ==
  ASSUME NEW s \in Nat
  PROVE  /\ Truncate(s) \in Nat /\ Truncate(s) <= s
         /\ Truncate(s) = TicksPerSecond * Sec(s)
  BY QueryCacheAssumption, SMTT(30) DEF Truncate, Sec

\* A multiple of the second has that many seconds.
LEMMA SecOfMultiple ==
  ASSUME NEW n \in Nat
  PROVE  Sec(TicksPerSecond * n) = n
  BY QueryCacheAssumption, SMTT(30) DEF Sec

\* Seconds between two whole times.
LEMMA SecBetween ==
  ASSUME NEW m \in Nat, NEW n \in Nat
  PROVE  (TicksPerSecond * m - TicksPerSecond * n) \div TicksPerSecond = m - n
  BY QueryCacheAssumption, SMTT(30)

\* A whole time that is not later than s is not later than the last whole second.
LEMMA WholeBefore ==
  ASSUME NEW n \in Nat, NEW s \in Nat, TicksPerSecond * n <= s
  PROVE  n <= Sec(s) /\ TicksPerSecond * n <= TicksPerSecond * Sec(s)
  BY QueryCacheAssumption, SMTT(30) DEF Sec

-----------------------------------------------------------------------------
(* Entries.                                                                *)

\* A function on 1..n is a sequence.
LEMMA IsSeq ==
  ASSUME NEW S, NEW n \in Nat, NEW s \in [1..n -> S]
  PROVE  s \in Seq(S) /\ Len(s) = n
  OBVIOUS

\* What an entry is made of.
LEMMA EntryType ==
  ASSUME NEW e \in Entry
  PROVE  /\ e.key \in Keys /\ e.ttl \in Seq(0..Uint32 - 1) /\ e.orig \in Seq(0..Uint32 - 1)
         /\ e.UpdateTime \in Nat /\ e.born \in Nat /\ e.UpdateTime <= MaxTime /\ e.born <= MaxTime
         /\ DOMAIN e.ttl = 1..Len(e.ttl) /\ Len(e.ttl) \in Nat
         /\ \A i \in DOMAIN e.ttl : e.ttl[i] \in 0..Uint32 - 1
         /\ \A i \in DOMAIN e.orig : e.orig[i] \in 0..Uint32 - 1
<1>1. e.key \in Keys /\ e.ttl \in Seq(0..Uint32 - 1) /\ e.orig \in Seq(0..Uint32 - 1)
      /\ e.UpdateTime \in 0..MaxTime /\ e.born \in 0..MaxTime
  BY DEF Entry
<1> QED
  BY <1>1, QueryCacheAssumption, SMTT(30)

\* The elapsed seconds do not wrap.
LEMMA ElapsedSeconds ==
  ASSUME NEW e \in Entry, TimedEntry(e), clock \in 0..MaxTime
  PROVE  Elapsed(e) = Sec(clock) - Sec(e.UpdateTime) /\ Elapsed(e) \in Nat
<1>1. clock \in Nat /\ e.UpdateTime \in Nat /\ e.UpdateTime <= clock
  BY QueryCacheAssumption, EntryType DEF TimedEntry
<1>2. Sec(clock) \in Nat /\ Sec(clock) <= clock /\ Sec(e.UpdateTime) \in Nat
  BY <1>1, SecType
<1>3. Sec(e.UpdateTime) <= Sec(clock)
  BY <1>1, <1>2, WholeBefore DEF TimedEntry
<1>4. (Truncate(clock) - e.UpdateTime) \div TicksPerSecond = Sec(clock) - Sec(e.UpdateTime)
  BY <1>1, <1>2, TruncateWhole, SecBetween, Zenon DEF TimedEntry
<1>5. Sec(clock) - Sec(e.UpdateTime) \in 0..Uint32 - 1
  BY <1>1, <1>2, <1>3, QueryCacheAssumption
<1>6. (Sec(clock) - Sec(e.UpdateTime)) % Uint32 = Sec(clock) - Sec(e.UpdateTime)
  BY <1>5, QueryCacheAssumption
<1> QED
  BY <1>4, <1>5, <1>6 DEF Elapsed

\* Get leaves an entry with times in order and TTLs that have not wrapped.
LEMMA UpdatedEntry ==
  ASSUME NEW e \in Entry, TimedEntry(e), AgedEntry(e), clock \in 0..MaxTime,
         NEW n \in Nat, \A i \in DOMAIN e.ttl : i < n => i \notin Overdue(e),
         NEW f, f = Updated(e, AgedBefore(e, n))
  PROVE  /\ f \in Entry /\ f.key = e.key /\ f.orig = e.orig /\ f.born = e.born
         /\ f.ttl = AgedBefore(e, n)
         /\ TimedEntry(f) /\ AgedEntry(f)
         /\ DOMAIN f.ttl = DOMAIN e.ttl
         /\ f.UpdateTime = Truncate(clock)
         /\ \A i \in DOMAIN e.ttl :
               f.ttl[i] = IF i < n THEN e.ttl[i] - Elapsed(e) ELSE e.ttl[i]
<1>1. clock \in Nat /\ Truncate(clock) \in Nat /\ Truncate(clock) <= clock
      /\ Truncate(clock) = TicksPerSecond * Sec(clock) /\ Sec(clock) \in Nat
  BY QueryCacheAssumption, TruncateWhole, SecType
<1>2. f.key = e.key /\ f.orig = e.orig /\ f.born = e.born /\ f.UpdateTime = Truncate(clock)
      /\ f.ttl = AgedBefore(e, n)
  BY DEF Updated, Entry
<1>3. \A i \in DOMAIN e.ttl : e.ttl[i] \in 0..Uint32 - 1
  BY EntryType
<1>4. ASSUME NEW i \in DOMAIN e.ttl, i < n
      PROVE  /\ (e.ttl[i] - Elapsed(e)) % Uint32 = e.ttl[i] - Elapsed(e)
             /\ e.ttl[i] - Elapsed(e) \in 0..Uint32 - 1
             /\ e.ttl[i] - Elapsed(e) <= e.ttl[i]
  <2>1. Elapsed(e) \in Nat /\ ~(Elapsed(e) > e.ttl[i])
    BY <1>4, ElapsedSeconds DEF Overdue
  <2>2. e.ttl[i] - Elapsed(e) \in 0..Uint32 - 1 /\ e.ttl[i] - Elapsed(e) <= e.ttl[i]
    BY <1>3, <2>1, QueryCacheAssumption, SMTT(30)
  <2> QED
    BY <2>2, QueryCacheAssumption
<1>5. DOMAIN f.ttl = DOMAIN e.ttl
  BY <1>2, SMTT(30) DEF AgedBefore
<1>6. \A i \in DOMAIN e.ttl : f.ttl[i] = IF i < n THEN e.ttl[i] - Elapsed(e) ELSE e.ttl[i]
  BY <1>2, <1>4 DEF AgedBefore
<1>7. ASSUME NEW i \in DOMAIN e.ttl
      PROVE  f.ttl[i] \in 0..Uint32 - 1 /\ f.ttl[i] <= e.ttl[i]
  <2>1. CASE i < n
    BY <1>4, <1>6, <2>1
  <2>2. CASE ~(i < n)
    BY <1>3, <1>6, <2>2
  <2> QED
    BY <2>1, <2>2
<1>8. f.ttl \in Seq(0..Uint32 - 1)
  <2>1. DOMAIN e.ttl = 1..Len(e.ttl) /\ Len(e.ttl) \in Nat
    BY EntryType
  <2>2. f.ttl \in [1..Len(e.ttl) -> 0..Uint32 - 1]
    <3> DEFINE g == AgedBefore(e, n)
    <3>1. g = [i \in 1..Len(e.ttl) |-> g[i]]
      BY <2>1 DEF AgedBefore
    <3>2. \A i \in 1..Len(e.ttl) : g[i] \in 0..Uint32 - 1
      BY <1>2, <1>7, <2>1
    <3> HIDE DEF g
    <3>3. g \in [1..Len(e.ttl) -> 0..Uint32 - 1]
      BY <3>1, <3>2
    <3> QED
      BY <1>2, <3>3 DEF g
  <2> QED
    BY <2>1, <2>2, IsSeq, Zenon
<1>9. f \in Entry
  <2>1. Truncate(clock) \in 0..MaxTime
    BY <1>1, QueryCacheAssumption
  <2>2. AgedBefore(e, n) \in Seq(0..Uint32 - 1)
    BY <1>2, <1>8
  <2> QED
    <3>1. f = [e EXCEPT !.ttl = AgedBefore(e, n), !.UpdateTime = Truncate(clock)]
      BY DEF Updated
    <3> HIDE DEF Updated
    <3> QED
      BY <2>1, <2>2, <3>1, Zenon DEF Entry
<1>10. TimedEntry(f)
  <2>1. Sec(f.UpdateTime) = Sec(clock)
    BY <1>1, <1>2, SecOfMultiple
  <2>2. e.born \in Nat /\ Sec(e.born) \in Nat /\ e.born = TicksPerSecond * Sec(e.born)
        /\ e.born <= clock
    <3>1. e.born \in Nat /\ e.UpdateTime \in Nat
      BY EntryType
    <3>2. Sec(e.born) \in Nat
      BY <3>1, SecType
    <3> QED
      BY <1>1, <3>1, <3>2 DEF TimedEntry
  <2>3. e.born <= Truncate(clock)
    BY <1>1, <2>2, WholeBefore
  <2> QED
    BY <1>1, <1>2, <2>1, <2>2, <2>3 DEF TimedEntry
<1>11. AgedEntry(f)
  <2>1. \A i \in DOMAIN e.ttl : e.ttl[i] <= e.orig[i] /\ e.orig[i] \in Nat
    BY EntryType DEF AgedEntry
  <2> QED
    BY <1>2, <1>3, <1>5, <1>7, <2>1 DEF AgedEntry
<1> QED
  BY <1>2, <1>5, <1>6, <1>9, <1>10, <1>11

\* What an update of one entry does to the heap.
LEMMA HeapUpdate ==
  ASSUME NEW S, NEW h \in Seq(S), NEW x \in DOMAIN h, NEW f \in S,
         NEW g, g = [h EXCEPT ![x] = f]
  PROVE  /\ g \in Seq(S) /\ Len(g) = Len(h) /\ DOMAIN g = DOMAIN h
         /\ g[x] = f /\ \A n \in DOMAIN h : n # x => g[n] = h[n]
  OBVIOUS

\* What a new entry does to the heap.
LEMMA HeapAppend ==
  ASSUME NEW S, NEW h \in Seq(S), NEW f \in S, NEW g, g = Append(h, f)
  PROVE  /\ g \in Seq(S) /\ Len(g) = Len(h) + 1
         /\ DOMAIN h = 1..Len(h) /\ DOMAIN g = 1..(Len(h) + 1) /\ Len(h) \in Nat
         /\ g[Len(h) + 1] = f /\ \A n \in DOMAIN h : g[n] = h[n]
  OBVIOUS

\* The initial states satisfy the invariant.
LEMMA InitInv == Init => IInv
<1> SUFFICES ASSUME Init PROVE IInv
  OBVIOUS
<1>1. heap = <<>> /\ heap \in Seq(Entry) /\ Len(heap) = 0 /\ DOMAIN heap = {}
  BY DEF Init
<1>2. Missing \in Outcome /\ Missing.res # "hit"
  BY QueryCacheAssumption DEF Missing, Outcome
<1>3. TypeOK
  BY <1>1, <1>2, QueryCacheAssumption DEF Init, TypeOK
<1>4. HeapInv /\ Held /\ ExpiredStaysRemoved
  BY <1>1 DEF Init, HeapInv, Held, ExpiredStaysRemoved
<1>5. HitKnown /\ HitHasRemainingTTL
  BY <1>2 DEF Init, HitKnown, HitHasRemainingTTL
<1> QED
  BY <1>3, <1>4, <1>5 DEF IInv

\* Steps that leave the entries alone.
LEMMA HeapUntouched ==
  ASSUME IInv, clock' \in Nat, clock <= clock', UNCHANGED <<heap, condemned>>
  PROVE  HeapInv'
<1>1. ASSUME NEW n \in DOMAIN heap PROVE heap[n].UpdateTime \in Nat /\ clock \in Nat
  <2>1. heap[n] \in Entry /\ clock \in Nat
    BY QueryCacheAssumption DEF IInv, TypeOK
  <2> QED
    BY <2>1, EntryType
<1> QED
  BY <1>1 DEF IInv, HeapInv, TimedEntry, ExactEntry

\* Steps that leave the outcomes and what the entries were made with alone.
LEMMA HitsUntouched ==
  ASSUME IInv, got' = got,
         \A n \in DOMAIN heap : n \in DOMAIN heap' /\ heap'[n].orig = heap[n].orig
  PROVE  HitKnown' /\ HitHasRemainingTTL'
  BY DEF IInv, HitKnown, HitHasRemainingTTL

-----------------------------------------------------------------------------
(* The steps.                                                              *)

\* The clock.
LEMMA TickInv ==
  ASSUME IInv, Tick
  PROVE  IInv'
<1>1. TypeOK'
  BY QueryCacheAssumption DEF IInv, TypeOK, Tick
<1>2. HeapInv'
  BY HeapUntouched, QueryCacheAssumption DEF IInv, TypeOK, Tick
<1>3. Held' /\ ExpiredStaysRemoved'
  BY DEF IInv, Tick, Held, ExpiredStaysRemoved
<1>4. HitKnown' /\ HitHasRemainingTTL'
  BY HitsUntouched DEF Tick
<1> QED
  BY <1>1, <1>2, <1>3, <1>4 DEF IInv

\* The eviction of a key.
LEMMA EvictInv ==
  ASSUME IInv, NEW k \in Keys, Evict(k)
  PROVE  IInv'
<1>0. Len(heap) \in Nat /\ DOMAIN heap = 1..Len(heap) /\ clock \in Nat
  BY QueryCacheAssumption DEF IInv, TypeOK
<1>1. TypeOK'
  BY <1>0 DEF IInv, TypeOK, Evict
<1>2. HeapInv'
  BY <1>0, HeapUntouched DEF Evict
<1>3. Held' /\ ExpiredStaysRemoved'
  BY <1>0 DEF IInv, TypeOK, Evict, Held, ExpiredStaysRemoved
<1>4. HitKnown' /\ HitHasRemainingTTL'
  BY HitsUntouched DEF Evict
<1> QED
  BY <1>1, <1>2, <1>3, <1>4 DEF IInv

\* The outcomes other than a hit.
LEMMA MissType ==
  ASSUME NEW r \in {"none", "notfound", "expired"}
  PROVE  [Missing EXCEPT !.res = r] \in Outcome /\ [Missing EXCEPT !.res = r].res # "hit"
         /\ Missing \in Outcome /\ Missing.res # "hit"
<1>1. <<>> \in Seq(0..Uint32 - 1) /\ 0 \in 0..MaxSets /\ 0 \in 0..MaxTime /\ FALSE \in BOOLEAN
  BY QueryCacheAssumption
<1>2. Missing \in Outcome /\ Missing.res = "none"
  BY <1>1 DEF Missing, Outcome
<1>3. [Missing EXCEPT !.res = r] \in Outcome /\ [Missing EXCEPT !.res = r].res = r
  BY <1>2 DEF Outcome
<1> QED
  BY <1>2, <1>3

\* Get begins.
LEMMA GetFetchInv ==
  ASSUME IInv, NEW c \in Clients, NEW k \in Keys, GetFetch(c, k)
  PROVE  IInv'
<1> USE DEF IInv
<1>0. Len(heap) \in Nat /\ DOMAIN heap = 1..Len(heap) /\ clock \in Nat /\ map[k] \in 0..Len(heap)
  BY QueryCacheAssumption DEF TypeOK
<1>1. Missing \in Outcome /\ [Missing EXCEPT !.res = "notfound"] \in Outcome
      /\ Missing.res # "hit" /\ [Missing EXCEPT !.res = "notfound"].res # "hit"
  BY MissType
<1>2. \E o \in Outcome : o.res # "hit" /\ got' = [got EXCEPT ![c] = o]
  BY <1>1, Zenon DEF GetFetch
<1>3. got' \in [Clients -> Outcome] /\ \A d \in Clients : got'[d] = got[d] \/ got'[d].res # "hit"
  BY <1>2 DEF TypeOK
<1>4. TypeOK'
  BY <1>0, <1>3, Zenon DEF TypeOK, GetFetch
<1>5. HeapInv'
  BY <1>0, HeapUntouched DEF GetFetch
<1>6. Held' /\ ExpiredStaysRemoved'
  BY <1>0 DEF TypeOK, GetFetch, Held, ExpiredStaysRemoved
<1>7. HitKnown' /\ HitHasRemainingTTL'
  BY <1>3 DEF GetFetch, HitKnown, HitHasRemainingTTL
<1> QED
  BY <1>4, <1>5, <1>6, <1>7

\* Get ends with the removal of the key of an expired entry.
LEMMA GetRemoveInv ==
  ASSUME IInv, NEW c \in Clients, GetRemove(c)
  PROVE  IInv'
<1> USE DEF IInv
<1>0. Len(heap) \in Nat /\ DOMAIN heap = 1..Len(heap) /\ clock \in Nat /\ el[c] \in DOMAIN heap
  BY QueryCacheAssumption DEF TypeOK, GetRemove, Held
<1>1. [Missing EXCEPT !.res = "expired"] \in Outcome /\ [Missing EXCEPT !.res = "expired"].res # "hit"
  BY MissType
<1>2. \E o \in Outcome : o.res # "hit" /\ got' = [got EXCEPT ![c] = o]
  BY <1>1, Zenon DEF GetRemove
<1>3. got' \in [Clients -> Outcome] /\ \A d \in Clients : got'[d] = got[d] \/ got'[d].res # "hit"
  BY <1>2 DEF TypeOK
<1>4. TypeOK'
  <2>0. heap[el[c]] \in Entry /\ heap[el[c]].key \in Keys /\ 0 \in 0..Len(heap)
    BY <1>0, EntryType DEF TypeOK
  <2>1. map' \in [Keys -> 0..Len(heap)] /\ el' \in [Clients -> 0..Len(heap)]
    BY <2>0 DEF TypeOK, GetRemove
  <2>2. pc' \in [Clients -> {"idle", "age", "remove", "store"}] /\ retired' \subseteq DOMAIN heap
    BY <1>0 DEF TypeOK, GetRemove
  <2> QED
    BY <1>3, <2>1, <2>2 DEF TypeOK, GetRemove
<1>5. HeapInv'
  BY <1>0, HeapUntouched DEF GetRemove
<1>6. \A k \in Keys : map'[k] = 0 \/ (map'[k] = map[k] /\ map[k] # el[c])
  BY <1>0 DEF TypeOK, GetRemove, Held
<1>7. Held'
  BY <1>0, <1>6 DEF TypeOK, GetRemove, Held
<1>8. ExpiredStaysRemoved'
  BY <1>0, <1>6 DEF TypeOK, GetRemove, ExpiredStaysRemoved
<1>9. HitKnown' /\ HitHasRemainingTTL'
  BY <1>3 DEF GetRemove, HitKnown, HitHasRemainingTTL
<1> QED
  BY <1>4, <1>5, <1>7, <1>8, <1>9

\* Set ends.
LEMMA SetStoreInv ==
  ASSUME IInv, NEW c \in Clients, SetStore(c)
  PROVE  IInv'
<1> USE DEF IInv
<1>0. Len(heap) \in Nat /\ DOMAIN heap = 1..Len(heap) /\ clock \in Nat /\ el[c] \in DOMAIN heap
  BY QueryCacheAssumption DEF TypeOK, SetStore, Held
<1>1. heap[el[c]] \in Entry /\ heap[el[c]].key \in Keys
  BY <1>0, EntryType DEF TypeOK
<1>2. TypeOK'
  BY <1>0, <1>1 DEF TypeOK, SetStore
<1>3. HeapInv'
  BY <1>0, HeapUntouched DEF SetStore
<1>4. Held'
  BY <1>0, <1>1 DEF TypeOK, SetStore, Held
<1>5. ExpiredStaysRemoved'
  BY <1>0, <1>1 DEF TypeOK, SetStore, Held, ExpiredStaysRemoved
<1>6. HitKnown' /\ HitHasRemainingTTL'
  BY HitsUntouched DEF SetStore
<1> QED
  BY <1>2, <1>3, <1>4, <1>5, <1>6

\* Set begins.
LEMMA SetMakeInv ==
  ASSUME IInv, NEW c \in Clients, NEW k \in Keys, NEW m \in Messages, SetMake(c, k, m)
  PROVE  IInv'
<1> USE DEF IInv
<1> DEFINE f == [key |-> k, ttl |-> m, UpdateTime |-> Truncate(clock),
                 orig |-> m, born |-> Truncate(clock)]
<1>1. clock \in Nat /\ Truncate(clock) \in 0..MaxTime /\ m \in Seq(0..Uint32 - 1)
  <2>1. clock \in Nat /\ clock <= MaxTime /\ MaxTime \in Nat /\ m \in Seq(0..Uint32 - 1)
    BY QueryCacheAssumption DEF TypeOK
  <2> QED
    BY <2>1, TruncateWhole
<1>2. f \in Entry /\ f.key = k /\ f.ttl = m /\ f.orig = m
      /\ f.UpdateTime = Truncate(clock) /\ f.born = Truncate(clock)
  BY <1>1 DEF Entry
<1>3. TimedEntry(f) /\ AgedEntry(f) /\ ExactEntry(f)
  <2>1. /\ Truncate(clock) = TicksPerSecond * Sec(clock) /\ Truncate(clock) <= clock
        /\ Sec(clock) \in Nat /\ Truncate(clock) \in Nat
    BY <1>1, TruncateWhole, SecType
  <2>2. Sec(Truncate(clock)) = Sec(clock)
    BY <2>1, SecOfMultiple
  <2>3. \A i \in DOMAIN m : m[i] \in Nat
    BY <1>1, QueryCacheAssumption
  <2> HIDE DEF f
  <2> QED
    BY <1>2, <2>1, <2>2, <2>3 DEF TimedEntry, AgedEntry, ExactEntry
<1>4. heap' = Append(heap, f)
  BY DEF SetMake
<1> HIDE DEF f
<1>5. /\ heap' \in Seq(Entry) /\ Len(heap') = Len(heap) + 1 /\ Len(heap) \in Nat
      /\ DOMAIN heap = 1..Len(heap) /\ DOMAIN heap' = 1..(Len(heap) + 1)
      /\ heap'[Len(heap) + 1] = f /\ \A n \in DOMAIN heap : heap'[n] = heap[n]
  BY <1>2, <1>4, HeapAppend DEF TypeOK
<1>6. Len(heap') <= MaxSets
  BY <1>5, QueryCacheAssumption DEF SetMake
<1>7. \A n \in DOMAIN heap' : n \in DOMAIN heap \/ n = Len(heap) + 1
  BY <1>5
<1>8. TypeOK'
  <2>1. \A n \in DOMAIN heap' : AgedEntry(heap'[n])
    BY <1>3, <1>5, <1>7 DEF TypeOK, AgedEntry
  <2>2. map' \in [Keys -> 0..Len(heap')] /\ el' \in [Clients -> 0..Len(heap')]
    BY <1>5 DEF TypeOK, SetMake
  <2>3. condemned' \subseteq DOMAIN heap' /\ retired' \subseteq DOMAIN heap'
    BY <1>5 DEF TypeOK, SetMake
  <2> QED
    BY <1>5, <1>6, <2>1, <2>2, <2>3 DEF TypeOK, AgedEntry, SetMake
<1>9. HeapInv'
  <2>1. clock' = clock /\ condemned' = condemned
    BY DEF SetMake
  <2> QED
    BY <1>3, <1>5, <1>7, <2>1 DEF HeapInv, TimedEntry, ExactEntry
<1>10. Held'
  <2>1. /\ map' = map /\ retired' = retired /\ el'[c] = Len(heap) + 1 /\ pc'[c] = "store"
        /\ \A d \in Clients \ {c} : el'[d] = el[d] /\ pc'[d] = pc[d]
    BY DEF TypeOK, SetMake
  <2>2. \A j \in Keys : map[j] \in 0..Len(heap)
    BY DEF TypeOK
  <2>3. Len(heap) + 1 \notin DOMAIN heap /\ Len(heap) + 1 \notin 0..Len(heap)
    BY <1>5
  <2>4. \A j \in Keys : map[j] # 0 => heap'[map[j]].key = j
    BY <1>5, <2>2 DEF Held
  <2>5. \A d \in Clients \ {c} : pc[d] # "idle" => el[d] \in DOMAIN heap
    BY DEF Held
  <2>6. retired \subseteq DOMAIN heap
    BY DEF TypeOK
  <2> QED
    BY <1>5, <2>1, <2>2, <2>3, <2>4, <2>5, <2>6 DEF Held
<1>11. ExpiredStaysRemoved'
  BY DEF SetMake, ExpiredStaysRemoved
<1>12. HitKnown' /\ HitHasRemainingTTL'
  BY <1>5, HitsUntouched DEF SetMake
<1> QED
  BY <1>8, <1>9, <1>10, <1>11, <1>12

\* The entry that a Get is about to age.
LEMMA EntryAtHand ==
  ASSUME IInv, NEW c \in Clients, pc[c] = "age"
  PROVE  /\ Len(heap) \in Nat /\ DOMAIN heap = 1..Len(heap) /\ clock \in 0..MaxTime
         /\ el[c] \in DOMAIN heap /\ heap[el[c]] \in Entry
         /\ TimedEntry(heap[el[c]]) /\ AgedEntry(heap[el[c]])
         /\ el[c] \notin condemned => ExactEntry(heap[el[c]])
<1>1. el[c] \in DOMAIN heap /\ clock \in 0..MaxTime
  BY DEF IInv, TypeOK, Held
<1>2. Len(heap) \in Nat /\ DOMAIN heap = 1..Len(heap)
  BY DEF IInv, TypeOK
<1>3. heap[el[c]] \in Entry /\ AgedEntry(heap[el[c]])
  BY <1>1 DEF IInv, TypeOK, AgedEntry
<1>4. TimedEntry(heap[el[c]]) /\ (el[c] \notin condemned => ExactEntry(heap[el[c]]))
  BY <1>1 DEF IInv, HeapInv
<1> QED
  BY <1>1, <1>2, <1>3, <1>4

\* A change of one entry that Get makes keeps the types and the times of the heap.
LEMMA AgedHeap ==
  ASSUME IInv, NEW x \in DOMAIN heap, NEW f \in Entry, heap' = [heap EXCEPT ![x] = f],
         TimedEntry(f), AgedEntry(f), clock' = clock,
         f.key = heap[x].key, f.orig = heap[x].orig,
         condemned \subseteq condemned', x \notin condemned' => ExactEntry(f)
  PROVE  /\ heap' \in Seq(Entry) /\ Len(heap') = Len(heap) /\ DOMAIN heap' = DOMAIN heap
         /\ \A n \in DOMAIN heap : /\ heap'[n].key = heap[n].key
                                  /\ heap'[n].orig = heap[n].orig
                                  /\ AgedEntry(heap'[n])
         /\ HeapInv'
<1>1. /\ heap' \in Seq(Entry) /\ Len(heap') = Len(heap) /\ DOMAIN heap' = DOMAIN heap
      /\ heap'[x] = f /\ \A n \in DOMAIN heap : n # x => heap'[n] = heap[n]
  BY HeapUpdate DEF IInv, TypeOK
<1>2. \A n \in DOMAIN heap : /\ heap'[n].key = heap[n].key
                            /\ heap'[n].orig = heap[n].orig
                            /\ AgedEntry(heap'[n])
  BY <1>1 DEF IInv, TypeOK, AgedEntry
<1>3. HeapInv'
  BY <1>1 DEF IInv, HeapInv, TimedEntry, ExactEntry
<1> QED
  BY <1>1, <1>2, <1>3

\* An entry e, aged to f by a hit: the TTLs and the age add up to those stored.
HitFacts(c, e, f) ==
    LET age == (Truncate(clock) - e.born) \div TicksPerSecond
    IN  /\ f \in Entry /\ f.key = e.key /\ f.orig = e.orig /\ TimedEntry(f) /\ AgedEntry(f)
        /\ f.ttl = AgedBefore(e, Len(e.ttl) + 1) /\ age \in 0..MaxTime
        /\ el[c] \notin condemned =>
              ExactEntry(f) /\ \A i \in DOMAIN f.ttl : f.ttl[i] + age = e.orig[i]

\* What a hit makes of the entry.
LEMMA HitEntry ==
  ASSUME IInv, NEW c \in Clients, pc[c] = "age", Overdue(heap[el[c]]) = {}
  PROVE  HitFacts(c, heap[el[c]],
                  Updated(heap[el[c]], AgedBefore(heap[el[c]], Len(heap[el[c]].ttl) + 1)))
<1>0. SUFFICES ASSUME NEW e, e = heap[el[c]],
                      NEW f, f = Updated(e, AgedBefore(e, Len(e.ttl) + 1))
               PROVE  HitFacts(c, e, f)
  OBVIOUS
<1> DEFINE n == Len(e.ttl) + 1
<1>1. /\ clock \in 0..MaxTime /\ e \in Entry /\ TimedEntry(e) /\ AgedEntry(e)
      /\ el[c] \notin condemned => ExactEntry(e)
  BY <1>0, EntryAtHand
<1>2. n \in Nat /\ \A i \in DOMAIN e.ttl : i \in Nat /\ i < n
  BY <1>1, EntryType
<1>3. \A i \in DOMAIN e.ttl : i < n => i \notin Overdue(e)
  BY <1>0
<1> HIDE DEF n
<1>4. /\ f \in Entry /\ f.key = e.key /\ f.orig = e.orig /\ f.born = e.born
      /\ f.ttl = AgedBefore(e, n) /\ TimedEntry(f) /\ AgedEntry(f)
      /\ DOMAIN f.ttl = DOMAIN e.ttl /\ f.UpdateTime = Truncate(clock)
      /\ \A i \in DOMAIN e.ttl : f.ttl[i] = IF i < n THEN e.ttl[i] - Elapsed(e) ELSE e.ttl[i]
  BY <1>0, <1>1, <1>2, <1>3, UpdatedEntry DEF n
<1>a. f \in Entry /\ DOMAIN f.ttl = DOMAIN e.ttl /\ f.orig = e.orig
      /\ f.born = e.born /\ f.UpdateTime = Truncate(clock)
  BY <1>4
<1>b. \A i \in DOMAIN e.ttl : f.ttl[i] = e.ttl[i] - Elapsed(e)
  BY <1>2, <1>4
<1>5. /\ clock \in Nat /\ Sec(clock) \in Nat /\ Sec(clock) <= clock
      /\ e.born \in Nat /\ e.UpdateTime \in Nat
      /\ Sec(e.born) \in Nat /\ Sec(e.UpdateTime) \in Nat
  <2>1. clock \in Nat /\ e.born \in Nat /\ e.UpdateTime \in Nat
    BY <1>1, EntryType, QueryCacheAssumption
  <2> QED
    BY <2>1, SecType
<1>6. (Truncate(clock) - e.born) \div TicksPerSecond = Sec(clock) - Sec(e.born)
  BY <1>1, <1>5, TruncateWhole, SecBetween, Zenon DEF TimedEntry
<1>7. Sec(e.born) <= Sec(clock)
  BY <1>1, <1>5, WholeBefore DEF TimedEntry
<1>8. Sec(clock) - Sec(e.born) \in 0..MaxTime
  BY <1>1, <1>5, <1>7, QueryCacheAssumption
<1>9. Sec(f.UpdateTime) = Sec(clock)
  BY <1>a, <1>5, TruncateWhole, SecOfMultiple
<1>10. ASSUME el[c] \notin condemned, NEW i \in DOMAIN e.ttl
       PROVE  f.ttl[i] + (Sec(clock) - Sec(e.born)) = e.orig[i]
  <2>1. f.ttl[i] = e.ttl[i] - Elapsed(e) /\ Elapsed(e) = Sec(clock) - Sec(e.UpdateTime)
    BY <1>1, <1>b, ElapsedSeconds
  <2>2. e.ttl[i] + Sec(e.UpdateTime) - Sec(e.born) = e.orig[i] /\ e.ttl[i] \in Int
    BY <1>1, <1>10, EntryType DEF ExactEntry
  <2> QED
    BY <1>5, <2>1, <2>2
<1>11. \A i \in DOMAIN e.ttl : f.ttl[i] \in Int
  <2>1. \A i \in DOMAIN f.ttl : f.ttl[i] \in 0..Uint32 - 1
    BY <1>a, EntryType
  <2> QED
    BY <1>a, <2>1, QueryCacheAssumption
<1>12. ASSUME el[c] \notin condemned PROVE ExactEntry(f)
  <2> SUFFICES ASSUME NEW i \in DOMAIN f.ttl
               PROVE  f.ttl[i] + Sec(f.UpdateTime) - Sec(f.born) = f.orig[i]
    BY DEF ExactEntry
  <2>1. i \in DOMAIN e.ttl /\ f.ttl[i] \in Int /\ f.orig[i] = e.orig[i]
    BY <1>a, <1>11
  <2>2. Sec(f.UpdateTime) = Sec(clock) /\ Sec(f.born) = Sec(e.born)
    BY <1>a, <1>9
  <2>3. f.ttl[i] + (Sec(clock) - Sec(e.born)) = e.orig[i]
    BY <1>10, <1>12, <2>1
  <2> QED
    BY <1>5, <2>1, <2>2, <2>3
<1>13. (Truncate(clock) - e.born) \div TicksPerSecond \in 0..MaxTime
  BY <1>6, <1>8
<1>14. ASSUME el[c] \notin condemned, NEW i \in DOMAIN f.ttl
       PROVE  f.ttl[i] + ((Truncate(clock) - e.born) \div TicksPerSecond) = e.orig[i]
  BY <1>a, <1>6, <1>10, <1>14
<1> QED
  BY <1>4, <1>12, <1>13, <1>14 DEF n, HitFacts

\* Get serves an entry.
LEMMA GetHitInv ==
  ASSUME IInv, NEW c \in Clients, GetHit(c)
  PROVE  IInv'
<1> USE DEF IInv
<1> DEFINE x == el[c]
           e == heap[x]
           aged == AgedBefore(e, Len(e.ttl) + 1)
           f == Updated(e, aged)
           age == (Truncate(clock) - e.born) \div TicksPerSecond
           o == [res |-> "hit", ttl |-> aged, entry |-> x, age |-> age, late |-> x \in condemned]
<1>1. /\ pc[c] = "age" /\ Overdue(e) = {} /\ heap' = [heap EXCEPT ![x] = f]
      /\ got' = [got EXCEPT ![c] = o]
      /\ pc' = [pc EXCEPT ![c] = "idle"] /\ el' = [el EXCEPT ![c] = 0]
      /\ UNCHANGED <<clock, map, condemned, retired>>
  BY DEF GetHit
<1>2. /\ Len(heap) \in Nat /\ DOMAIN heap = 1..Len(heap) /\ x \in DOMAIN heap /\ e \in Entry
      /\ AgedEntry(e)
  BY <1>1, EntryAtHand, SMTT(30)
<1>3. /\ f \in Entry /\ f.key = e.key /\ f.orig = e.orig /\ TimedEntry(f) /\ AgedEntry(f)
      /\ f.ttl = aged /\ age \in 0..MaxTime
      /\ x \notin condemned =>
            ExactEntry(f) /\ \A i \in DOMAIN f.ttl : f.ttl[i] + age = e.orig[i]
  <2>1. HitFacts(c, e, f)
    BY <1>1, HitEntry
  <2> QED
    BY <2>1, Zenon DEF HitFacts
<1> HIDE DEF f, aged, age
<1>4. /\ heap' \in Seq(Entry) /\ Len(heap') = Len(heap) /\ DOMAIN heap' = DOMAIN heap
      /\ \A n \in DOMAIN heap : /\ heap'[n].key = heap[n].key
                               /\ heap'[n].orig = heap[n].orig
                               /\ AgedEntry(heap'[n])
      /\ HeapInv'
  <2>1. e = heap[x] /\ clock' = clock /\ condemned \subseteq condemned'
        /\ (x \notin condemned' => ExactEntry(f))
    BY <1>1, <1>3
  <2> HIDE DEF x, e
  <2> QED
    BY <1>1, <1>2, <1>3, <2>1, AgedHeap, Zenon
<1>5. aged \in Seq(0..Uint32 - 1) /\ DOMAIN aged = DOMAIN e.orig
  BY <1>3, EntryType DEF AgedEntry
<1>6. /\ o \in Outcome /\ o.ttl = aged /\ o.entry = x /\ o.age = age
      /\ o.late = (x \in condemned)
  <2>1. x \in 0..MaxSets /\ (x \in condemned) \in BOOLEAN
    BY <1>2, QueryCacheAssumption, SMTT(30) DEF TypeOK
  <2> QED
    BY <1>3, <1>5, <2>1 DEF Outcome
<1> HIDE DEF o
<1>7. TypeOK'
  <2>1. got' \in [Clients -> Outcome] /\ el' \in [Clients -> 0..Len(heap)]
        /\ pc' \in [Clients -> {"idle", "age", "remove", "store"}]
    BY <1>1, <1>2, <1>6, SMTT(30) DEF TypeOK
  <2> QED
    BY <1>1, <1>4, <2>1, SMTT(30) DEF TypeOK, AgedEntry
<1>8. Held' /\ ExpiredStaysRemoved'
  <2>1. \A k \in Keys : map[k] # 0 => map[k] \in DOMAIN heap
    BY <1>2 DEF TypeOK
  <2> QED
    BY <1>1, <1>4, <2>1, SMTT(30) DEF TypeOK, Held, ExpiredStaysRemoved
<1>9. \A d \in Clients : got'[d] = IF d = c THEN o ELSE got[d]
  BY <1>1 DEF TypeOK
<1>10. HitKnown'
  BY <1>2, <1>4, <1>5, <1>6, <1>9 DEF HitKnown
<1>11. HitHasRemainingTTL'
  <2>1. ASSUME ~o.late, NEW i \in DOMAIN o.ttl
        PROVE  o.ttl[i] + o.age = heap'[o.entry].orig[i]
    BY <1>2, <1>3, <1>4, <1>6, <2>1, Zenon
  <2>2. ASSUME NEW d \in Clients, d # c, got[d].res = "hit", ~got[d].late,
               NEW i \in DOMAIN got[d].ttl
        PROVE  got[d].ttl[i] + got[d].age = heap'[got[d].entry].orig[i]
    BY <1>4, <2>2 DEF HitKnown, HitHasRemainingTTL
  <2> QED
    BY <1>9, <2>1, <2>2 DEF HitHasRemainingTTL
<1> QED
  BY <1>4, <1>7, <1>8, <1>10, <1>11, SMTT(30)

\* Get finds an entry expired.
LEMMA GetExpiredInv ==
  ASSUME IInv, NEW c \in Clients, GetExpired(c)
  PROVE  IInv'
<1> USE DEF IInv
<1> DEFINE x == el[c]
           e == heap[x]
<1>1. PICK n \in Overdue(e) : /\ \A i \in Overdue(e) : n <= i
                              /\ heap' = [heap EXCEPT ![x] = Updated(e, AgedBefore(e, n))]
  BY Zenon DEF GetExpired
<1>2. /\ pc[c] = "age" /\ condemned' = condemned \cup {x} /\ pc' = [pc EXCEPT ![c] = "remove"]
      /\ UNCHANGED <<clock, map, el, got, retired>>
  BY DEF GetExpired
<1>3. /\ Len(heap) \in Nat /\ DOMAIN heap = 1..Len(heap) /\ x \in DOMAIN heap /\ e \in Entry
      /\ TimedEntry(e) /\ AgedEntry(e) /\ clock \in 0..MaxTime
  BY <1>2, EntryAtHand
<1> DEFINE f == Updated(e, AgedBefore(e, n))
<1>4. n \in Nat /\ \A i \in DOMAIN e.ttl : i < n => i \notin Overdue(e)
  <2>1. DOMAIN e.ttl = 1..Len(e.ttl) /\ Len(e.ttl) \in Nat
    BY <1>3, EntryType
  <2> QED
    BY <1>1, <2>1 DEF Overdue
<1>5. f \in Entry /\ f.key = e.key /\ f.orig = e.orig /\ TimedEntry(f) /\ AgedEntry(f)
  BY <1>3, <1>4, UpdatedEntry, SMTT(30)
<1> HIDE DEF f
<1>6. /\ heap' \in Seq(Entry) /\ Len(heap') = Len(heap) /\ DOMAIN heap' = DOMAIN heap
      /\ \A j \in DOMAIN heap : /\ heap'[j].key = heap[j].key
                               /\ heap'[j].orig = heap[j].orig
                               /\ AgedEntry(heap'[j])
      /\ HeapInv'
  BY <1>1, <1>2, <1>3, <1>5, AgedHeap, Zenon DEF f
<1>7. TypeOK'
  <2>1. condemned' \subseteq DOMAIN heap'
        /\ pc' \in [Clients -> {"idle", "age", "remove", "store"}]
    BY <1>2, <1>3, <1>6 DEF TypeOK
  <2> QED
    BY <1>2, <1>6, <2>1 DEF TypeOK, AgedEntry
<1>8. Held' /\ ExpiredStaysRemoved'
  <2>1. \A k \in Keys : map[k] # 0 => map[k] \in DOMAIN heap
    BY <1>3 DEF TypeOK
  <2> QED
    BY <1>2, <1>3, <1>6, <2>1, Zenon DEF TypeOK, Held, ExpiredStaysRemoved
<1>9. HitKnown' /\ HitHasRemainingTTL'
  BY <1>2, <1>6, HitsUntouched
<1> QED
  BY <1>6, <1>7, <1>8, <1>9

-----------------------------------------------------------------------------
\* The invariant is inductive.
LEMMA NextInv == IInv /\ [Next]_vars => IInv'
<1> SUFFICES ASSUME IInv, [Next]_vars PROVE IInv'
  OBVIOUS
<1>1. ASSUME NEW c \in Clients, Step(c) PROVE IInv'
  BY <1>1, GetFetchInv, SetMakeInv, GetHitInv, GetExpiredInv, GetRemoveInv, SetStoreInv DEF Step
<1>2. CASE UNCHANGED vars
  <2>0. /\ clock' = clock /\ heap' = heap /\ map' = map /\ pc' = pc /\ el' = el /\ got' = got
        /\ condemned' = condemned /\ retired' = retired
    BY <1>2 DEF vars
  <2>1. TypeOK'
    BY <2>0, Zenon, Zenon DEF IInv, TypeOK
  <2>2. HeapInv'
    BY <2>0, Zenon, Zenon DEF IInv, HeapInv, TimedEntry, ExactEntry
  <2>3. Held' /\ HitKnown'
    BY <2>0, Zenon, Zenon DEF IInv, Held, HitKnown
  <2>4. HitHasRemainingTTL' /\ ExpiredStaysRemoved'
    BY <2>0, Zenon, Zenon DEF IInv, HitHasRemainingTTL, ExpiredStaysRemoved
  <2> QED
    BY <2>1, <2>2, <2>3, <2>4 DEF IInv
<1> QED
  BY <1>1, <1>2, TickInv, EvictInv DEF Next

\* The inductive invariant holds throughout.
THEOREM Invariance == Spec => []IInv
  BY InitInv, NextInv, PTL DEF Spec

\* The TTLs of the cache stay between zero and those stored: the unsigned
\* subtraction in Get never wraps.
THEOREM TypeCorrect == Spec => []TypeOK
<1>1. IInv => TypeOK
  BY DEF IInv
<1> QED
  BY Invariance, <1>1, PTL

\* The TTLs of a hit and its age add up to the TTLs of the stored message, unless
\* another Get had found the entry expired before.
THEOREM RemainingTTL == Spec => []HitHasRemainingTTL
<1>1. IInv => HitHasRemainingTTL
  BY DEF IInv
<1> QED
  BY Invariance, <1>1, PTL

\* An entry that a Get has reported as expired never is in the map again.
THEOREM ExpiredRemoved == Spec => []ExpiredStaysRemoved
<1>1. IInv => ExpiredStaysRemoved
  BY DEF IInv
<1> QED
  BY Invariance, <1>1, PTL
=============================================================================
