----------------------------- MODULE ErrorCache -----------------------------
(***************************************************************************)
(* ErrorCache of cache/error_cache.go on top of its shard: the keys whose  *)
(* resolution failed less than ttl seconds ago.  An entry is a time and    *)
(* never changes, so a Get that still holds an old entry judges it by its  *)
(* own time.  The wall clock runs in ticks, TicksPerSecond to the second.  *)
(***************************************************************************)
EXTENDS Shard

CONSTANTS TicksPerSecond,   \* resolution of the wall clock
          ttl,              \* ErrorCache.ttl, Config.Expire in the code
          MaxTime           \* bound on the wall clock, in ticks

ASSUME ErrorCacheAssumption ==
    TicksPerSecond \in Nat \ {0} /\ ttl \in Nat /\ MaxTime \in Nat

VARIABLES clock,   \* WallClock.Now(), in ticks
          t,       \* per client: the time it has read or is about to store
          hit,     \* per client: its last Get has found an error
          last     \* history, per key: the time of its latest error, or -1

vars == <<shardVars, clock, t, hit, last>>

Init ==
    /\ ShardInit
    /\ clock = 0
    /\ t = [c \in Clients |-> -1]
    /\ hit = [c \in Clients |-> FALSE]
    /\ last = [k \in Keys |-> -1]

-----------------------------------------------------------------------------
\* x.Truncate(time.Second), in seconds.
Seconds(x) == x \div TicksPerSecond

\* Get begins: fetch the time under the lock of the shard.
GetFetch(c, k) ==
    /\ pc[c] = "idle"
    /\ hit' = [hit EXCEPT ![c] = FALSE]
    /\ IF k \notin Stored
       THEN UNCHANGED <<pc, key, t>>
       ELSE /\ Goto(c, "idle", "check")
            /\ key' = [key EXCEPT ![c] = k]
            /\ t' = [t EXCEPT ![c] = items[k]]
    /\ UNCHANGED <<items, l, victim, overlap, clock, last>>

\* Variant of Expired that is one second late.
ExpiredLate(c) == Seconds(clock) - t[c] > ttl

\* elapsed >= c.ttl
Expired(c) == Seconds(clock) - t[c] >= ttl

\* Get goes on: a young error is a hit.
GetHit(c) ==
    /\ Goto(c, "check", "idle") /\ ~Expired(c)
    /\ key' = [key EXCEPT ![c] = NoKey]
    /\ t' = [t EXCEPT ![c] = -1]
    /\ hit' = [hit EXCEPT ![c] = TRUE]
    /\ UNCHANGED <<items, l, victim, overlap, clock, last>>

\* Get goes on: an old error is to be removed, whatever the key's time is by then.
GetExpired(c) ==
    /\ Goto(c, "check", "remove") /\ Expired(c)
    /\ t' = [t EXCEPT ![c] = -1]
    /\ UNCHANGED <<items, key, l, victim, overlap, clock, hit, last>>

\* Set begins: read the clock.
SetMake(c, k) ==
    /\ Goto(c, "idle", "set")
    /\ key' = [key EXCEPT ![c] = k]
    /\ t' = [t EXCEPT ![c] = Seconds(clock)]
    /\ last' = [last EXCEPT ![k] = Seconds(clock)]
    /\ UNCHANGED <<items, l, victim, overlap, clock, hit>>

\* Set ends: the shard stores the time.
SetEnd(c) ==
    /\ SetStore(c, t[c])
    /\ t' = [t EXCEPT ![c] = -1]
    /\ UNCHANGED <<clock, hit, last>>

Tick ==
    /\ clock < MaxTime
    /\ clock' = clock + 1
    /\ UNCHANGED <<shardVars, t, hit, last>>

\* The steps of the shard between those of the cache.
ShardStep(c) ==
    /\ SetLen(c) \/ EvictPick(c) \/ EvictRemove(c) \/ Remove(c)
    /\ UNCHANGED <<clock, t, hit, last>>

Step(c) ==
    \/ \E k \in Keys : GetFetch(c, k) \/ SetMake(c, k)
    \/ GetHit(c) \/ GetExpired(c) \/ SetEnd(c) \/ ShardStep(c)

Next == Tick \/ \E c \in Clients : Step(c)

Spec == Init /\ [][Next]_vars

-----------------------------------------------------------------------------
(* Properties.                                                             *)

Now == clock \div TicksPerSecond

\* Type invariant.  No time in the cache or in a client is in the future, so the
\* conversion of the elapsed time to uint32 does not wrap; a call has a key, and a
\* Set that has picked a victim knows it.
TypeOK ==
    /\ clock \in 0..MaxTime
    /\ Stored \subseteq Keys /\ items \in [Stored -> 0..Now]
    /\ pc \in [Clients -> {"idle", "check", "remove", "set", "pick", "evict", "store"}]
    /\ key \in [Clients -> Keys \cup {NoKey}]
    /\ l \in [Clients -> Nat]
    /\ victim \in [Clients -> Keys \cup {NoKey}]
    /\ overlap \in [Clients -> BOOLEAN]
    /\ t \in [Clients -> -1..Now]
    /\ hit \in [Clients -> BOOLEAN]
    /\ last \in [Keys -> -1..Now]
    /\ \A c \in Clients : /\ pc[c] # "idle" => key[c] \in Keys
                          /\ pc[c] = "evict" => victim[c] \in Keys

Due == [k \in Keys |-> IF last[k] = -1 THEN -1 ELSE last[k] + ttl - 1]

Promise == INSTANCE ExpiringMap WITH
    MaxNow <- MaxTime, now <- Now, due <- Due, served <- hit

\* The error cache implements ExpiringMap for any number of goroutines: a query
\* is refused from the cache only within ttl seconds of a failed resolution of
\* its key, however Get, Set, eviction and the clock interleave.
ImplementsExpiringMap == Promise!Spec
=============================================================================
