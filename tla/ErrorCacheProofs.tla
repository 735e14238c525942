-------------------------- MODULE ErrorCacheProofs --------------------------
(***************************************************************************)
(* Proofs about ErrorCache and its Shard for any keys, goroutines, size,   *)
(* ttl and resolution of the clock: the error cache implements             *)
(* ExpiringMap, and a Set that nothing overlaps keeps the size of the      *)
(* shard.                                                                  *)
(***************************************************************************)
EXTENDS ErrorCache, FiniteSetTheorems, TLAPS

\* The phases in which a client holds a time for its key.
Holding == {"check", "set", "pick", "evict", "store"}

\* No time in the cache or in a client is later than the latest error of its key.
TimesBounded ==
    /\ \A k \in Stored : items[k] <= last[k]
    /\ \A c \in Clients : pc[c] \in Holding => 0 <= t[c] /\ t[c] <= last[key[c]]

\* What a Set that nothing has overlapped knows of the size of the shard.
SizeKnown ==
    \A c \in Clients : ~overlap[c] =>
        /\ pc[c] = "pick" => l[c] = Cardinality(Stored) /\ l[c] + 1 > size
        /\ pc[c] = "evict" => /\ l[c] = Cardinality(Stored)
                              /\ victim[c] \in Stored
        /\ pc[c] = "store" => \/ Cardinality(Stored) + 1 <= size
                              \/ Cardinality(Stored) + 1 <= l[c]

\* The inductive invariant.
IInv == TypeOK /\ IsFiniteSet(Stored) /\ TimesBounded /\ SizeKnown

-----------------------------------------------------------------------------
\* Whole seconds are natural numbers, and no more than the ticks.
LEMMA NowType ==
  ASSUME NEW x \in Nat
  PROVE  x \div TicksPerSecond \in Nat /\ x \div TicksPerSecond <= x
  BY ErrorCacheAssumption

\* With the next tick the second stays the same or goes up by one.
LEMMA NextSecond ==
  ASSUME NEW x \in Nat
  PROVE  \/ (x + 1) \div TicksPerSecond = x \div TicksPerSecond
         \/ (x + 1) \div TicksPerSecond = x \div TicksPerSecond + 1
  BY ErrorCacheAssumption, SMTT(30)

-----------------------------------------------------------------------------
(* What the steps do to the map.                                           *)

\* What storing an element does to the map and its domain.
LEMMA PutMap ==
  ASSUME NEW k, NEW el, items' = Put(k, el)
  PROVE  /\ Stored' = Stored \cup {k}
         /\ items' = [j \in Stored' |-> IF j = k THEN el ELSE items[j]]
  BY DEF Put, Stored

\* What removing a key does to the map and its domain.
LEMMA WithoutMap ==
  ASSUME NEW k, items' = Without(k)
  PROVE  /\ Stored' = Stored \ {k}
         /\ items' = [j \in Stored' |-> items[j]]
  BY DEF Without, Stored

\* The history of overlaps stays Boolean.
LEMMA DisturbedType ==
  ASSUME overlap \in [Clients -> BOOLEAN], NEW c
  PROVE  Disturbed(c) \in [Clients -> BOOLEAN]
  BY Zenon, Zenon DEF Disturbed, InSet

\* An empty shard satisfies the invariant.
LEMMA InitInv == Init => IInv
<1> SUFFICES ASSUME Init PROVE IInv
  OBVIOUS
<1>1. Stored = {}
  BY DEF Init, ShardInit, Stored
<1>2. Now = 0 /\ clock = 0
  BY ErrorCacheAssumption, NowType DEF Init, Now
<1>3. TypeOK
  BY <1>1, <1>2, ErrorCacheAssumption DEF TypeOK, Init, ShardInit, Stored
<1>4. IsFiniteSet(Stored)
  BY <1>1, FS_EmptySet
<1>5. TimesBounded /\ SizeKnown
  BY <1>1 DEF TimesBounded, SizeKnown, Init, ShardInit, Holding
<1> QED
  BY <1>3, <1>4, <1>5 DEF IInv

-----------------------------------------------------------------------------
(* The type invariant, and that the shard is finite.                       *)

\* A step of a goroutine keeps the types, and the shard finite.
LEMMA StepType ==
  ASSUME IInv, NEW c \in Clients, Step(c)
  PROVE  TypeOK' /\ IsFiniteSet(Stored')
<1> USE DEF IInv
<1>a. clock' = clock
  BY DEF Step, GetFetch, SetMake, GetHit, GetExpired, SetEnd, ShardStep
<1>b. Now \in Nat
  BY NowType, ErrorCacheAssumption DEF TypeOK, Now
<1>c. Cardinality(Stored) \in Nat
  BY FS_CardinalityType
<1>0. Now \in Nat /\ clock' = clock /\ Now' = Now /\ Cardinality(Stored) \in Nat
  BY <1>a, <1>b, <1>c DEF Now
<1>1. CASE \E k \in Keys : GetFetch(c, k)
  BY <1>0, <1>1 DEF TypeOK, GetFetch, Goto, Stored
<1>2. CASE \E k \in Keys : SetMake(c, k)
  BY <1>0, <1>2 DEF TypeOK, SetMake, Goto, Stored, Seconds, Now
<1>3. CASE GetHit(c)
  BY <1>0, <1>3 DEF TypeOK, GetHit, Goto, Stored
<1>4. CASE GetExpired(c)
  BY <1>0, <1>4 DEF TypeOK, GetExpired, Goto, Stored
<1>5. CASE SetEnd(c)
  <2>1. items' = Put(key[c], t[c]) /\ key[c] \in Keys /\ t[c] \in 0..Now
    BY <1>5 DEF SetEnd, SetStore, Goto, TypeOK, TimesBounded, Holding
  <2>2. Stored' \subseteq Keys /\ items' \in [Stored' -> 0..Now'] /\ IsFiniteSet(Stored')
    BY <1>0, <2>1, PutMap, FS_AddElement DEF TypeOK
  <2> QED
    BY <1>0, <1>5, <2>2, DisturbedType DEF TypeOK, SetEnd, SetStore, Goto
<1>6. CASE ShardStep(c)
  <2>1. CASE SetLen(c)
    BY <1>0, <1>6, <2>1 DEF TypeOK, ShardStep, SetLen, Goto, Stored
  <2>2. CASE EvictPick(c)
    <3>1. Stored' = Stored /\ items' = items
      BY <2>2 DEF EvictPick, Stored
    <3>2. CASE Stored = {} /\ Goto(c, "pick", "store") /\ UNCHANGED victim
      BY <1>0, <1>6, <2>2, <3>1, <3>2 DEF TypeOK, ShardStep, EvictPick, Goto
    <3>3. CASE \E k \in Stored : Goto(c, "pick", "evict") /\ victim' = [victim EXCEPT ![c] = k]
      BY <1>0, <1>6, <2>2, <3>1, <3>3 DEF TypeOK, ShardStep, EvictPick, Goto
    <3> QED
      BY <2>2, <3>2, <3>3 DEF EvictPick
  <2>3. CASE EvictRemove(c)
    <3>1. Stored' \subseteq Keys /\ items' \in [Stored' -> 0..Now'] /\ IsFiniteSet(Stored')
      BY <1>0, <2>3, WithoutMap, FS_RemoveElement DEF TypeOK, EvictRemove
    <3> QED
      BY <1>0, <1>6, <2>3, <3>1, DisturbedType DEF TypeOK, ShardStep, EvictRemove, Goto
  <2>4. CASE Remove(c)
    <3>1. Stored' \subseteq Keys /\ items' \in [Stored' -> 0..Now'] /\ IsFiniteSet(Stored')
      BY <1>0, <2>4, WithoutMap, FS_RemoveElement DEF TypeOK, Remove
    <3> QED
      BY <1>0, <1>6, <2>4, <3>1, DisturbedType DEF TypeOK, ShardStep, Remove, Goto
  <2> QED
    BY <1>6, <2>1, <2>2, <2>3, <2>4 DEF ShardStep
<1> QED
  BY <1>1, <1>2, <1>3, <1>4, <1>5, <1>6 DEF Step

-----------------------------------------------------------------------------
(* The times.                                                              *)

\* A step keeps every time at or before the latest error of its key.
LEMMA StepTimes ==
  ASSUME IInv, NEW c \in Clients, Step(c)
  PROVE  TimesBounded'
<1> USE DEF IInv
<1>0. Now \in Nat
  BY NowType, ErrorCacheAssumption DEF TypeOK, Now
<1>1. CASE \E k \in Keys : GetFetch(c, k)
  <2> PICK k \in Keys : GetFetch(c, k)
    BY <1>1
  <2>1. k \in Stored => items[k] \in 0..Now
    BY DEF TypeOK
  <2> QED
    BY <1>0, <2>1 DEF TypeOK, TimesBounded, GetFetch, Goto, Stored, Holding
<1>2. CASE \E k \in Keys : SetMake(c, k)
  <2> PICK k \in Keys : SetMake(c, k)
    BY <1>2
  <2>1. Seconds(clock) = Now /\ last' = [last EXCEPT ![k] = Now] /\ t' = [t EXCEPT ![c] = Now]
    BY DEF SetMake, Seconds, Now
  <2>2. \A j \in Keys : last[j] <= last'[j] /\ last'[j] \in -1..Now
    BY <1>0, <2>1 DEF TypeOK
  <2>3. \A j \in Stored' : items'[j] <= last'[j]
    BY <1>0, <2>2 DEF TypeOK, TimesBounded, SetMake, Stored
  <2>4. ASSUME NEW d \in Clients, pc'[d] \in Holding
        PROVE  0 <= t'[d] /\ t'[d] <= last'[key'[d]]
    <3>1. CASE d = c
      BY <1>0, <2>1, <3>1 DEF TypeOK, SetMake, Goto
    <3>2. CASE d # c
      <4>1. pc[d] \in Holding /\ key'[d] = key[d] /\ t'[d] = t[d] /\ key[d] \in Keys
        BY <2>1, <2>4, <3>2 DEF TypeOK, SetMake, Goto, Holding
      <4> QED
        BY <1>0, <2>2, <4>1 DEF TypeOK, TimesBounded
    <3> QED
      BY <3>1, <3>2
  <2> QED
    BY <2>3, <2>4 DEF TimesBounded
<1>3. CASE GetHit(c) \/ GetExpired(c)
  BY <1>0, <1>3 DEF TypeOK, TimesBounded, GetHit, GetExpired, Goto, Stored, Holding
<1>4. CASE SetEnd(c)
  <2>1. items' = Put(key[c], t[c]) /\ key[c] \in Keys /\ t[c] <= last[key[c]] /\ last' = last
    BY <1>4 DEF SetEnd, SetStore, Goto, TypeOK, TimesBounded, Holding
  <2>2. ASSUME NEW j \in Stored'
        PROVE  items'[j] <= last'[j]
    <3>1. /\ Stored' = Stored \cup {key[c]}
          /\ items' = [i \in Stored' |-> IF i = key[c] THEN t[c] ELSE items[i]]
      BY <2>1, PutMap, Zenon, Zenon
    <3>2. items'[j] = IF j = key[c] THEN t[c] ELSE items[j]
      BY <2>2, <3>1
    <3>3. j \in Stored \/ j = key[c]
      BY <2>2, <3>1
    <3> QED
      BY <2>1, <3>2, <3>3 DEF TimesBounded
  <2>3. \A d \in Clients : pc'[d] \in Holding => 0 <= t'[d] /\ t'[d] <= last'[key'[d]]
    BY <1>4 DEF SetEnd, SetStore, Goto, TypeOK, TimesBounded, Holding
  <2> QED
    BY <2>2, <2>3 DEF TimesBounded
<1>5. CASE ShardStep(c)
  <2>1. \A j \in Stored' : j \in Stored /\ items'[j] = items[j]
    <3>1. CASE SetLen(c) \/ EvictPick(c)
      BY <3>1 DEF SetLen, EvictPick, Stored
    <3>2. CASE EvictRemove(c) \/ Remove(c)
      BY <3>2, WithoutMap DEF EvictRemove, Remove
    <3> QED
      BY <1>5, <3>1, <3>2 DEF ShardStep
  <2>2. last' = last /\ t' = t
    BY <1>5 DEF ShardStep
  <2>3. \A d \in Clients : pc'[d] \in Holding => pc[d] \in Holding /\ key'[d] = key[d]
    <3>1. CASE SetLen(c)
      BY <3>1 DEF SetLen, Goto, TypeOK, Holding
    <3>2. CASE EvictPick(c)
      BY <3>2 DEF EvictPick, Goto, TypeOK, Holding
    <3>3. CASE EvictRemove(c) \/ Remove(c)
      BY <3>3 DEF EvictRemove, Remove, Goto, TypeOK, Holding
    <3> QED
      BY <1>5, <3>1, <3>2, <3>3 DEF ShardStep
  <2> QED
    BY <2>1, <2>2, <2>3 DEF TimesBounded
<1> QED
  BY <1>1, <1>2, <1>3, <1>4, <1>5 DEF Step

-----------------------------------------------------------------------------
(* The size.                                                               *)

\* A step that changes neither the map nor where the Set of d is.
LEMMA SizeUntouched ==
  ASSUME SizeKnown, NEW d \in Clients, Stored' = Stored,
         pc'[d] = pc[d], l'[d] = l[d], victim'[d] = victim[d], overlap'[d] = overlap[d]
  PROVE  ~overlap'[d] =>
            /\ pc'[d] = "pick" => l'[d] = Cardinality(Stored') /\ l'[d] + 1 > size
            /\ pc'[d] = "evict" => l'[d] = Cardinality(Stored') /\ victim'[d] \in Stored'
            /\ pc'[d] = "store" => \/ Cardinality(Stored') + 1 <= size
                                   \/ Cardinality(Stored') + 1 <= l'[d]
  BY DEF SizeKnown

\* A step of c that changes the map is noticed by the other Sets.
LEMMA OthersDisturbed ==
  ASSUME NEW c \in Clients, NEW d \in Clients, d # c, InSet(d),
         overlap' = Disturbed(c) \/ overlap' = [Disturbed(c) EXCEPT ![c] = FALSE]
  PROVE  overlap'[d]
  BY Zenon DEF Disturbed

\* A step keeps what an undisturbed Set knows of the size.
LEMMA StepSize ==
  ASSUME IInv, NEW c \in Clients, Step(c)
  PROVE  SizeKnown'
<1> USE DEF IInv
<1> SUFFICES ASSUME NEW d \in Clients, ~overlap'[d]
             PROVE  /\ pc'[d] = "pick" => l'[d] = Cardinality(Stored') /\ l'[d] + 1 > size
                    /\ pc'[d] = "evict" => l'[d] = Cardinality(Stored') /\ victim'[d] \in Stored'
                    /\ pc'[d] = "store" => \/ Cardinality(Stored') + 1 <= size
                                           \/ Cardinality(Stored') + 1 <= l'[d]
  BY DEF SizeKnown
<1>0. Cardinality(Stored) \in Nat /\ size \in Nat \ {0}
  BY FS_CardinalityType, ShardAssumption
<1>1. CASE \/ \E k \in Keys : GetFetch(c, k) \/ SetMake(c, k)
           \/ GetHit(c) \/ GetExpired(c)
  <2>1. /\ Stored' = Stored /\ l' = l /\ victim' = victim /\ overlap' = overlap
        /\ pc' = pc \/ \E x \in {"idle", "check", "remove", "set"} : pc' = [pc EXCEPT ![c] = x]
    BY <1>1 DEF GetFetch, SetMake, GetHit, GetExpired, Goto, Stored
  <2>2. CASE pc'[d] = pc[d]
    BY <2>1, <2>2, SizeUntouched
  <2>3. CASE pc'[d] # pc[d]
    BY <2>1, <2>3 DEF TypeOK
  <2> QED
    BY <2>2, <2>3
<1>2. CASE SetEnd(c)
  <2>1. CASE d = c
    BY <1>2, <2>1 DEF SetEnd, SetStore, Goto, TypeOK
  <2>2. CASE d # c
    <3>1. pc'[d] = pc[d] /\ overlap' = [Disturbed(c) EXCEPT ![c] = FALSE]
      BY <1>2, <2>2 DEF SetEnd, SetStore, Goto, TypeOK
    <3> QED
      BY <2>2, <3>1, OthersDisturbed, Zenon DEF InSet
  <2> QED
    BY <2>1, <2>2
<1>3. CASE SetLen(c)
  <2>1. Stored' = Stored /\ victim' = victim /\ overlap' = overlap
    BY <1>3 DEF SetLen, Stored
  <2>2. CASE d = c
    BY <1>0, <1>3, <2>1, <2>2 DEF SetLen, Goto, TypeOK
  <2>3. CASE d # c
    BY <1>3, <2>1, <2>3, SizeUntouched DEF SetLen, Goto, TypeOK
  <2> QED
    BY <2>2, <2>3
<1>4. CASE EvictPick(c)
  <2>1. Stored' = Stored /\ l' = l /\ overlap' = overlap
    BY <1>4 DEF EvictPick, Stored
  <2>2. CASE d = c
    <3>1. l[c] = Cardinality(Stored) /\ l[c] + 1 > size
      BY <1>4, <2>1, <2>2 DEF SizeKnown, EvictPick, Goto
    <3>2. Stored # {}
      BY <1>0, <3>1, FS_EmptySet
    <3>3. PICK k \in Stored : pc' = [pc EXCEPT ![c] = "evict"] /\ victim' = [victim EXCEPT ![c] = k]
      BY <1>4, <3>2 DEF EvictPick, Goto
    <3> QED
      BY <2>1, <2>2, <3>1, <3>3 DEF TypeOK
  <2>3. CASE d # c
    <3>1. pc'[d] = pc[d] /\ victim'[d] = victim[d]
      BY <1>4, <2>3 DEF EvictPick, Goto, TypeOK
    <3> QED
      BY <2>1, <3>1, SizeUntouched
  <2> QED
    BY <2>2, <2>3
<1>5. CASE EvictRemove(c)
  <2>1. CASE d = c
    <3>a. ~overlap[c]
      BY <1>5, <2>1, Zenon, Zenon DEF EvictRemove, Disturbed
    <3>1. ~overlap[c] /\ pc[c] = "evict" /\ pc'[c] = "store" /\ l'[c] = l[c]
      BY <1>5, <2>1, <3>a DEF EvictRemove, Goto, TypeOK
    <3>2. l[c] = Cardinality(Stored) /\ victim[c] \in Stored
      BY <3>1 DEF SizeKnown
    <3>b. Stored' = Stored \ {victim[c]}
      BY <1>5, WithoutMap, Zenon DEF EvictRemove
    <3>3. Cardinality(Stored') = Cardinality(Stored) - 1
      BY <3>2, <3>b, FS_RemoveElement, Zenon
    <3> QED
      BY <1>0, <2>1, <3>1, <3>2, <3>3
  <2>2. CASE d # c
    <3>1. pc'[d] = pc[d] /\ overlap' = Disturbed(c)
      BY <1>5, <2>2 DEF EvictRemove, Goto, TypeOK
    <3> QED
      BY <2>2, <3>1, OthersDisturbed DEF InSet
  <2> QED
    BY <2>1, <2>2
<1>6. CASE Remove(c)
  <2>1. CASE d = c
    BY <1>6, <2>1 DEF Remove, Goto, TypeOK
  <2>2. CASE d # c
    <3>1. pc'[d] = pc[d] /\ overlap' = Disturbed(c)
      BY <1>6, <2>2 DEF Remove, Goto, TypeOK
    <3> QED
      BY <2>2, <3>1, OthersDisturbed DEF InSet
  <2> QED
    BY <2>1, <2>2
<1> QED
  BY <1>1, <1>2, <1>3, <1>4, <1>5, <1>6 DEF Step, ShardStep

-----------------------------------------------------------------------------
\* The clock keeps the invariant.
LEMMA TickInv ==
  ASSUME IInv, Tick
  PROVE  IInv'
<1> USE DEF IInv
<1>1. clock \in Nat /\ clock' = clock + 1 /\ clock' \in 0..MaxTime
  BY ErrorCacheAssumption DEF Tick, TypeOK
<1>2. Now \in Nat /\ Now' \in Nat /\ Now <= Now'
  BY <1>1, NowType, NextSecond DEF Now
<1>3. shardVars' = shardVars /\ t' = t /\ hit' = hit /\ last' = last /\ Stored' = Stored
  BY DEF Tick, shardVars, Stored
<1>4. TypeOK'
  BY <1>1, <1>2, <1>3 DEF TypeOK, shardVars
<1>5. IsFiniteSet(Stored') /\ TimesBounded' /\ SizeKnown'
  BY <1>3 DEF TimesBounded, SizeKnown, shardVars
<1> QED
  BY <1>4, <1>5

\* So does a step that changes nothing.
LEMMA StutterInv ==
  ASSUME IInv, UNCHANGED vars
  PROVE  IInv'
  BY DEF IInv, TypeOK, TimesBounded, SizeKnown, vars, shardVars, Stored, Now

\* The invariant is inductive.
LEMMA NextInv == IInv /\ [Next]_vars => IInv'
<1> SUFFICES ASSUME IInv, [Next]_vars PROVE IInv'
  OBVIOUS
<1>1. CASE Tick
  BY <1>1, TickInv
<1>2. CASE \E c \in Clients : Step(c)
  BY <1>2, StepType, StepTimes, StepSize DEF IInv
<1>3. CASE UNCHANGED vars
  BY <1>3, StutterInv
<1> QED
  BY <1>1, <1>2, <1>3 DEF Next

\* The inductive invariant holds throughout.
THEOREM Invariance == Spec => []IInv
  BY InitInv, NextInv, PTL DEF Spec

\* Type correctness: in particular no time is in the future, so the conversion of the
\* elapsed time to uint32 in Get does not wrap.
THEOREM TypeCorrect == Spec => []TypeOK
<1>1. IInv => TypeOK
  BY DEF IInv
<1> QED
  BY Invariance, <1>1, PTL

\* The Set of a shard that nothing overlaps keeps the shard within its size, or no
\* larger than it was, for any number of goroutines and keys.
THEOREM LoneSet == Spec => LoneSetKeepsBound
<1>1. ASSUME IInv, [Next]_vars
      PROVE  [\A c \in Clients : pc[c] = "store" /\ pc'[c] = "idle" /\ ~overlap[c]
                => Cardinality(Stored') <= size \/ Cardinality(Stored') <= l[c]]_shardVars
  <2> USE <1>1 DEF IInv
  <2> SUFFICES ASSUME NEW c \in Clients, pc[c] = "store", pc'[c] = "idle", ~overlap[c]
               PROVE  Cardinality(Stored') <= size \/ Cardinality(Stored') <= l[c]
    OBVIOUS
  <2>1. \/ Cardinality(Stored) + 1 <= size
        \/ Cardinality(Stored) + 1 <= l[c]
    BY DEF SizeKnown
  <2>2. items' = Put(key[c], t[c])
    BY SMTT(30) DEF Next, vars, shardVars, Tick, Step, ShardStep, GetFetch, SetMake, GetHit, GetExpired,
       SetEnd, SetStore, SetLen, EvictPick, EvictRemove, Remove, Goto, TypeOK
  <2>a. Stored' = Stored \cup {key[c]} /\ IsFiniteSet(Stored)
    BY <2>2, PutMap, Zenon
  <2>3. Cardinality(Stored') \in {Cardinality(Stored), Cardinality(Stored) + 1}
    BY <2>a, FS_AddElement, Zenon
  <2>4. Cardinality(Stored) \in Nat /\ size \in Nat /\ l[c] \in Nat
    BY FS_CardinalityType, ShardAssumption DEF TypeOK
  <2> QED
    BY <2>1, <2>3, <2>4, SMTT(30)
<1> QED
  BY Invariance, <1>1, PTL DEF Spec, LoneSetKeepsBound

-----------------------------------------------------------------------------
(* The refinement.                                                         *)

\* The last second of a key never goes back, and moves for the key of a Set only.
LEMMA SetMakeRefines ==
  ASSUME IInv, NEW c \in Clients, NEW k \in Keys, SetMake(c, k)
  PROVE  Promise!Put(k) \/ UNCHANGED Promise!mapVars
<1> USE DEF IInv
<1>1. Now \in Nat /\ Now' = Now /\ hit' = hit
  BY NowType, ErrorCacheAssumption DEF SetMake, TypeOK, Now
<1>2. last \in [Keys -> -1..Now] /\ last' = [last EXCEPT ![k] = Now]
  BY DEF SetMake, TypeOK, Now, Seconds
<1>3. Due' \in [Keys -> Int] /\ \A j \in Keys \ {k} : Due'[j] = Due[j]
  BY <1>1, <1>2, ErrorCacheAssumption DEF Due
<1>4. Due \in [Keys -> Int] /\ Due'[k] >= Due[k]
  BY <1>1, <1>2, ErrorCacheAssumption DEF Due
<1>5. CASE Due'[k] = Due[k]
  <2>1. Due' = Due
    BY <1>3, <1>4, <1>5 DEF Due
  <2> QED
    BY <1>1, <2>1 DEF Promise!mapVars
<1>6. CASE Due'[k] > Due[k]
  BY <1>1, <1>3, <1>6 DEF Promise!Put
<1> QED
  BY <1>3, <1>4, <1>5, <1>6

\* A hit is served within the life of the latest error of its key.
LEMMA GetHitRefines ==
  ASSUME IInv, NEW c \in Clients, GetHit(c)
  PROVE  \E k \in Keys : Promise!Serve(c, k)
<1> USE DEF IInv
<1>1. Now \in Nat /\ Now' = Now /\ Due' = Due
  BY NowType, ErrorCacheAssumption, SMTT(30) DEF GetHit, TypeOK, Now, Due
<1>2. key[c] \in Keys /\ 0 <= t[c] /\ t[c] <= last[key[c]] /\ Now - t[c] < ttl
  BY <1>1, ErrorCacheAssumption
     DEF GetHit, Goto, TypeOK, TimesBounded, Holding, Expired, Now, Seconds
<1>3. t[c] \in Int /\ last[key[c]] \in Int
  BY <1>1, <1>2 DEF TypeOK
<1>4. Now <= Due[key[c]]
  BY <1>1, <1>2, <1>3, ErrorCacheAssumption DEF Due
<1>5. Promise!Serve(c, key[c])
  BY <1>1, <1>4 DEF Promise!Serve, GetHit
<1> QED
  BY <1>2, <1>5

\* A tick of the clock is a step to the next second, or none.
LEMMA TickRefines ==
  ASSUME IInv, Tick
  PROVE  Promise!Advance \/ UNCHANGED Promise!mapVars
<1>1. clock \in Nat /\ clock < MaxTime /\ clock' = clock + 1 /\ last' = last /\ hit' = hit
  BY ErrorCacheAssumption DEF IInv, Tick, TypeOK
<1>2. Due' = Due
  BY <1>1 DEF Due
<1>3. Now \in Nat /\ Now <= clock /\ (Now' = Now \/ Now' = Now + 1)
  BY <1>1, NowType, NextSecond DEF Now
<1>4. Now < MaxTime
  BY <1>1, <1>3, ErrorCacheAssumption
<1> QED
  BY <1>1, <1>2, <1>3, <1>4 DEF Promise!Advance, Promise!mapVars

\* Every step of the cache is a step of ExpiringMap, or none.
LEMMA NextRefines ==
  ASSUME IInv, [Next]_vars
  PROVE  [Promise!Next]_(Promise!mapVars)
<1>1. CASE Tick
  BY <1>1, TickRefines DEF Promise!Next
<1>2. ASSUME NEW c \in Clients, NEW k \in Keys, SetMake(c, k)
      PROVE  [Promise!Next]_(Promise!mapVars)
  BY <1>2, SetMakeRefines DEF Promise!Next
<1>3. ASSUME NEW c \in Clients, NEW k \in Keys, GetFetch(c, k)
      PROVE  [Promise!Next]_(Promise!mapVars)
  <2>1. Promise!Refuse(c)
    BY <1>3 DEF GetFetch, Promise!Refuse, Now, Due
  <2> QED
    BY <2>1 DEF Promise!Next
<1>4. ASSUME NEW c \in Clients, GetHit(c)
      PROVE  [Promise!Next]_(Promise!mapVars)
  BY <1>4, GetHitRefines DEF Promise!Next
<1>5. ASSUME NEW c \in Clients, GetExpired(c) \/ SetEnd(c) \/ ShardStep(c)
      PROVE  UNCHANGED Promise!mapVars
  BY <1>5 DEF GetExpired, SetEnd, ShardStep, Promise!mapVars, Now, Due
<1>6. CASE UNCHANGED vars
  BY <1>6 DEF vars, Promise!mapVars, Now, Due
<1> QED
  BY <1>1, <1>2, <1>3, <1>4, <1>5, <1>6 DEF Next, Step

\* The error cache implements ExpiringMap: a query is refused from the cache only
\* within ttl seconds of a failed resolution of its key.
THEOREM Refinement == Spec => ImplementsExpiringMap
<1>1. Init => Promise!Init
  BY NowType, ErrorCacheAssumption DEF Init, Promise!Init, Now, Due
<1>2. IInv /\ [Next]_vars => [Promise!Next]_(Promise!mapVars)
  BY NextRefines
<1> QED
  BY Invariance, <1>1, <1>2, PTL DEF Spec, ImplementsExpiringMap, Promise!Spec
=============================================================================
