---------------------------- MODULE LookupQueue ----------------------------
(***************************************************************************)
(* LQueue of cache/lookup_queue.go: the map from a query key to the        *)
(* channel that announces the end of the lookup in flight for that key.    *)
(* Every operation takes the mutex once, so each is one atomic operator.   *)
(* The waiting half of Wait happens outside the mutex and is a step of the *)
(* waiting goroutine (module Handler).                                     *)
(***************************************************************************)
EXTENDS Naturals

CONSTANTS Keys,         \* cache.Hash values
          Goroutines,   \* one goroutine per client query
          NoChan        \* the nil channel

\* A channel is named after the goroutine that made it and a serial number,
\* which makes every make(chan struct{}) fresh.
Chan == Goroutines \X (Nat \ {0})

ASSUME NoChanAssumption == NoChan \notin Chan

VARIABLES delay,      \* LQueue.delay: the open channel of a key, or NoChan
          closed,     \* the channels that close(c) has been applied to
          made,       \* how many channels each goroutine has made
          orphaned,   \* history: channels overwritten by Add while still open
          raced       \* history: keys whose entry was overwritten, or removed
                      \* by a caller that had not made it

queueVars == <<delay, closed, made, orphaned, raced>>

QueueTypeOK ==
    /\ delay \in [Keys -> Chan \cup {NoChan}]
    /\ closed \subseteq Chan
    /\ made \in [Goroutines -> Nat]
    /\ orphaned \subseteq Chan
    /\ raced \subseteq Keys

NewLookupQueue ==
    /\ delay = [k \in Keys |-> NoChan]
    /\ closed = {}
    /\ made = [g \in Goroutines |-> 0]
    /\ orphaned = {}
    /\ raced = {}

\* Get, and the first half of Wait: the key has a channel.
InFlight(k) == delay[k] # NoChan

\* make(chan struct{}) in Add.
FreshChan(g) == <<g, made[g] + 1>>

\* Variant of Add that makes a channel and does not store it.
AddWithoutStore(g, k) ==
    /\ made' = [made EXCEPT ![g] = @ + 1]
    /\ UNCHANGED <<delay, closed, orphaned, raced>>

\* Add stores a new channel under the key whether or not there is one.
Add(g, k) ==
    /\ made' = [made EXCEPT ![g] = @ + 1]
    /\ delay' = [delay EXCEPT ![k] = FreshChan(g)]
    /\ orphaned' = orphaned \cup ({delay[k]} \ {NoChan})
    /\ raced' = raced \cup (IF InFlight(k) THEN {k} ELSE {})
    /\ UNCHANGED closed

\* Variant of Done that leaves the closed channel in the map.
DoneKeepsEntry(k, mine) ==
    /\ closed' = closed \cup ({delay[k]} \ {NoChan})
    /\ raced' = raced \cup (IF delay[k] \in {mine, NoChan} THEN {} ELSE {k})
    /\ UNCHANGED <<delay, made, orphaned>>

\* Variant of Done that forgets the key without closing its channel.
DoneWithoutClose(k, mine) ==
    /\ delay' = [delay EXCEPT ![k] = NoChan]
    /\ raced' = raced \cup (IF delay[k] \in {mine, NoChan} THEN {} ELSE {k})
    /\ UNCHANGED <<closed, made, orphaned>>

\* Done closes the channel it finds, whoever made it, and forgets the key.
\* mine is the channel that the caller added and has not ended yet.
Done(k, mine) ==
    /\ closed' = closed \cup ({delay[k]} \ {NoChan})
    /\ delay' = [delay EXCEPT ![k] = NoChan]
    /\ raced' = raced \cup (IF delay[k] \in {mine, NoChan} THEN {} ELSE {k})
    /\ UNCHANGED <<made, orphaned>>
=============================================================================
