------------------------------ MODULE Handler ------------------------------
(***************************************************************************)
(* DNSHandler.query (handler.go) run by one goroutine per client query,    *)
(* together with Resolver.lookupNSAddr (resolver.go), the other user of    *)
(* the lookup queue.  A goroutine has a stack of frames, one per call of   *)
(* query or lookupNSAddr that has not returned.  Every access to the       *)
(* lookup queue, the query cache or the error cache is a step of its own,  *)
(* because each takes and releases its own lock.                           *)
(*                                                                         *)
(* Resolve is used here through what it does to this state: it looks up    *)
(* nameserver addresses, any number and of any name, and then returns an   *)
(* error or a message.  MaxCalls bounds the lookups of one goroutine.      *)
(***************************************************************************)
EXTENDS LookupQueue, Sequences

CONSTANTS ClientKeys,     \* the keys that clients ask for
          NSKeys,         \* the keys of nameserver addresses
          NoKey,          \* no question
          Cname,          \* the CNAME target in the data of a key, or NoKey
          Blocked,        \* the A and AAAA keys whose name is in BlockList
          Protos,         \* transports: subset of {"udp", "tcp", "https"}
          RateLimit,      \* Config.RateLimit > 0
          TruncatedTCP,   \* an upstream may set TC in a reply over TCP
          CnameDepth,     \* cnameDepth of additionalAnswer, 5 in the code
          MaxCalls        \* bound on the lookupNSAddr calls of a goroutine

ASSUME HandlerAssumption ==
    /\ ClientKeys \subseteq Keys
    /\ NSKeys \subseteq Keys
    /\ NoKey \notin Keys
    /\ Cname \in [Keys -> Keys \cup {NoKey}]
    /\ Blocked \subseteq Keys
    /\ Protos \subseteq {"udp", "tcp", "https"}
    /\ RateLimit \in BOOLEAN /\ TruncatedTCP \in BOOLEAN
    /\ CnameDepth \in Nat /\ MaxCalls \in Nat

VARIABLES stack,    \* per goroutine: its frames, innermost last
          calls,    \* per goroutine: lookupNSAddr calls made so far
          reply,    \* per goroutine: the key it was asked and its reply
          qcache,   \* Qcache: per key "none", "answer" or "null" (null route)
          ecache    \* Ecache: the keys whose last resolution failed

handlerVars == <<stack, calls, reply, qcache, ecache>>
vars == <<queueVars, handlerVars>>
caches == <<qcache, ecache>>

-----------------------------------------------------------------------------
(* Frames.                                                                 *)

Pcs == {"wait", "blocked", "get", "qget", "eget", "block", "add", "depth",
        "resolve", "nested", "follow", "chase", "store", "done"}

Results == {"none", "dropped", "early", "servfail", "trunc", "answer", "null",
            "addr", "noaddr"}

Frame == [fn : {"query", "nsaddr"},
          key : Keys,
          net : {"udp", "tcp", "https"},
          pc : Pcs,
          waits : Chan \cup {NoChan},    \* the channel Wait is blocked on
          deferred : BOOLEAN,            \* defer Lqueue.Done(key) is registered
          mine : Chan \cup {NoChan},     \* the channel added and not ended yet
          target : Keys \cup {NoKey},    \* cnameReq.Question
          tries : 0..CnameDepth,         \* cnameDepth
          res : Results]                 \* the value to return

NewFrame(fn, k, net) ==
    [fn |-> fn, key |-> k, net |-> net,
     pc |-> IF fn = "query" THEN "wait" ELSE "get",
     waits |-> NoChan, deferred |-> FALSE, mine |-> NoChan,
     target |-> NoKey, tries |-> 0, res |-> "none"]

Top(g) == stack[g][Len(stack[g])]
Below(g) == SubSeq(stack[g], 1, Len(stack[g]) - 1)

At(g, fn, pc) == stack[g] # <<>> /\ Top(g).fn = fn /\ Top(g).pc = pc

\* The innermost frame changes to f.
Become(g, f) == stack' = [stack EXCEPT ![g] = Append(Below(g), f)]

\* The innermost frame changes to f and calls callee.
Enter(g, f, callee) ==
    stack' = [stack EXCEPT ![g] = Append(Append(Below(g), f), callee)]

\* The innermost frame returns r: to the client; to the frame that made the
\* call its own return value ("nested"); or to Resolve, which goes on.
Leave(g, r) ==
    LET b == Below(g)
        n == Len(b)
    IN  IF n = 0
        THEN /\ reply' = [reply EXCEPT ![g].res = r]
             /\ stack' = [stack EXCEPT ![g] = <<>>]
        ELSE /\ UNCHANGED reply
             /\ stack' = [stack EXCEPT ![g] =
                   IF b[n].pc = "nested"
                   THEN [b EXCEPT ![n].pc = "done", ![n].res = r]
                   ELSE b]

-----------------------------------------------------------------------------
(* handle, and the replies of query before it looks at shared state.       *)

Idle(g) == stack[g] = <<>> /\ reply[g].res = "none"

\* handle: the access list admits the client and query gets past the checks
\* of the EDNS version, of ANY, of debug HINFO and of the RD bit.
Receive(g, k, net) ==
    /\ Idle(g)
    /\ stack' = [stack EXCEPT ![g] = <<NewFrame("query", k, net)>>]
    /\ reply' = [reply EXCEPT ![g].key = k]
    /\ UNCHANGED <<queueVars, calls, caches>>

\* handle drops a client the access list refuses; query answers BADVERS,
\* NOTIMP, HINFO or SERVFAIL at once.
Reject(g, k, r) ==
    /\ Idle(g)
    /\ r \in {"dropped", "early"}
    /\ reply' = [reply EXCEPT ![g] = [key |-> k, res |-> r]]
    /\ UNCHANGED <<queueVars, stack, calls, caches>>

-----------------------------------------------------------------------------
(* query up to Lqueue.Add.                                                 *)

\* Lqueue.Wait, first half: under the read lock, fetch the channel.
QueryWait(g) ==
    /\ At(g, "query", "wait")
    /\ LET k == Top(g).key
       IN  Become(g, IF InFlight(k)
                     THEN [Top(g) EXCEPT !.pc = "blocked", !.waits = delay[k]]
                     ELSE [Top(g) EXCEPT !.pc = "qget"])
    /\ UNCHANGED <<queueVars, calls, reply, caches>>

Resume(g) ==
    /\ Become(g, [Top(g) EXCEPT !.pc = "qget", !.waits = NoChan])
    /\ UNCHANGED <<queueVars, calls, reply, caches>>

\* Lqueue.Wait, second half: the channel was closed.
QueryWake(g) ==
    /\ At(g, "query", "blocked")
    /\ Top(g).waits \in closed
    /\ Resume(g)

\* Lqueue.Wait, second half: ten seconds have passed.
QueryTimeout(g) ==
    /\ At(g, "query", "blocked")
    /\ Resume(g)

\* The CNAME target additionalAnswer starts from: none when the answer already
\* has an address, which the null route always has.
FirstTargets(k, entry) == IF entry = "null" THEN {NoKey} ELSE {NoKey, Cname[k]}

\* Qcache.Get: a hit is rate limited or completed by additionalAnswer.
QueryCacheGet(g) ==
    /\ At(g, "query", "qget")
    /\ LET f == Top(g)
           e == qcache[f.key]
       IN  \/ /\ e = "none"
              /\ Become(g, [f EXCEPT !.pc = "eget"])
              /\ UNCHANGED reply
           \/ /\ e # "none" /\ RateLimit
              /\ Leave(g, "servfail")
           \/ /\ e # "none"
              /\ \E t \in FirstTargets(f.key, e) :
                    Become(g, [f EXCEPT !.pc = "follow", !.target = t,
                                        !.tries = CnameDepth, !.res = e])
              /\ UNCHANGED reply
    /\ UNCHANGED <<queueVars, calls, caches>>

\* Ecache.Get: a hit is answered with SERVFAIL.
QueryErrorGet(g) ==
    /\ At(g, "query", "eget")
    /\ IF Top(g).key \in ecache
       THEN Leave(g, "servfail")
       ELSE Become(g, [Top(g) EXCEPT !.pc = "block"]) /\ UNCHANGED reply
    /\ UNCHANGED <<queueVars, calls, caches>>

\* BlockList.Exists: a blocked name gets the null route, which is cached.
QueryBlockList(g) ==
    /\ At(g, "query", "block")
    /\ IF Top(g).key \in Blocked
       THEN /\ qcache' = [qcache EXCEPT ![Top(g).key] = "null"]
            /\ Leave(g, "null")
       ELSE /\ Become(g, [Top(g) EXCEPT !.pc = "add"])
            /\ UNCHANGED <<reply, qcache>>
    /\ UNCHANGED <<queueVars, calls, ecache>>

\* Lqueue.Add and defer Lqueue.Done.
QueryAdd(g) ==
    /\ At(g, "query", "add")
    /\ Add(g, Top(g).key)
    /\ Become(g, [Top(g) EXCEPT !.pc = "resolve", !.deferred = TRUE,
                                !.mine = FreshChan(g)])
    /\ UNCHANGED <<calls, reply, caches>>

-----------------------------------------------------------------------------
(* query after Resolve.                                                    *)

\* Resolve failed, or found an error code and no record: Ecache.Set, SERVFAIL.
QueryFail(g) ==
    /\ At(g, "query", "resolve")
    /\ ecache' = ecache \cup {Top(g).key}
    /\ Become(g, [Top(g) EXCEPT !.pc = "done", !.res = "servfail"])
    /\ UNCHANGED <<queueVars, calls, reply, qcache>>

\* A truncated message over UDP is returned as it is and not cached.
QueryTruncatedUDP(g) ==
    /\ At(g, "query", "resolve")
    /\ Top(g).net = "udp"
    /\ Become(g, [Top(g) EXCEPT !.pc = "done", !.res = "trunc"])
    /\ UNCHANGED <<queueVars, calls, reply, caches>>

\* Variant of QueryTruncatedHTTPS without the Lqueue.Done before the retry.
RetryWithoutDone(g) ==
    /\ At(g, "query", "resolve")
    /\ Top(g).net = "https"
    /\ Enter(g, [Top(g) EXCEPT !.pc = "nested"],
             NewFrame("query", Top(g).key, "tcp"))
    /\ UNCHANGED <<queueVars, calls, reply, caches>>

\* A truncated message for a DoH client: Lqueue.Done now, then query again over
\* TCP, whose reply is returned; the deferred Done is still to come.
QueryTruncatedHTTPS(g) ==
    /\ At(g, "query", "resolve")
    /\ Top(g).net = "https"
    /\ Done(Top(g).key, Top(g).mine)
    /\ Enter(g, [Top(g) EXCEPT !.pc = "nested", !.mine = NoChan],
             NewFrame("query", Top(g).key, "tcp"))
    /\ UNCHANGED <<calls, reply, caches>>

\* Any other message, a truncated one over TCP included, goes to
\* additionalAnswer; an empty NOERROR message has got an HINFO record by then.
QueryAnswer(g) ==
    /\ At(g, "query", "resolve")
    /\ \E t \in FirstTargets(Top(g).key, "answer") :
          Become(g, [Top(g) EXCEPT !.pc = "follow", !.target = t,
                                   !.tries = CnameDepth, !.res = "answer"])
    /\ UNCHANGED <<queueVars, calls, reply, caches>>

\* Qcache.Set, the last thing query does before its deferred Done.
QueryStore(g) ==
    /\ At(g, "query", "store")
    /\ qcache' = [qcache EXCEPT ![Top(g).key] = "answer"]
    /\ Become(g, [Top(g) EXCEPT !.pc = "done"])
    /\ UNCHANGED <<queueVars, calls, reply, ecache>>

\* The deferred Lqueue.Done of query and of lookupNSAddr, and the return.
DeferredDone(g) ==
    /\ stack[g] # <<>> /\ Top(g).pc = "done"
    /\ Done(Top(g).key, Top(g).mine)
    /\ Leave(g, Top(g).res)
    /\ UNCHANGED <<calls, caches>>

-----------------------------------------------------------------------------
(* additionalAnswer: follow at most CnameDepth CNAMEs.                     *)

\* No CNAME is left to follow, or no try.
FollowEnd(g) ==
    /\ At(g, "query", "follow")
    /\ Top(g).target = NoKey \/ Top(g).tries = 0
    /\ IF Top(g).deferred
       THEN Become(g, [Top(g) EXCEPT !.pc = "store"]) /\ UNCHANGED reply
       ELSE Leave(g, Top(g).res)
    /\ UNCHANGED <<queueVars, calls, caches>>

\* Variant of Followed that does not count the try.
FollowedUncounted(f, t) == [f EXCEPT !.pc = "follow", !.target = t]

\* The frame after one try, whose answer leads on to t.
Followed(f, t) == [f EXCEPT !.pc = "follow", !.target = t, !.tries = @ - 1]

\* Variant of FollowCache that goes on when no try is left.
FollowCacheUnbounded(g) ==
    /\ At(g, "query", "follow")
    /\ Top(g).target # NoKey
    /\ LET t == Top(g).target
       IN  Become(g, CASE qcache[t] = "none" -> [Top(g) EXCEPT !.pc = "chase"]
                       [] qcache[t] = "null" -> Followed(Top(g), NoKey)
                       [] qcache[t] = "answer" -> Followed(Top(g), Cname[t]))
    /\ UNCHANGED <<queueVars, calls, reply, caches>>

\* Qcache.Get of the target: a hit may name the next target, a miss goes to
\* Resolve.
FollowCache(g) ==
    /\ At(g, "query", "follow")
    /\ Top(g).target # NoKey /\ Top(g).tries > 0
    /\ LET t == Top(g).target
       IN  Become(g, CASE qcache[t] = "none" -> [Top(g) EXCEPT !.pc = "chase"]
                       [] qcache[t] = "null" -> Followed(Top(g), NoKey)
                       [] qcache[t] = "answer" -> Followed(Top(g), Cname[t]))
    /\ UNCHANGED <<queueVars, calls, reply, caches>>

\* Resolve of the target failed or found no answer.
ChaseFail(g) ==
    /\ At(g, "query", "chase")
    /\ Become(g, Followed(Top(g), NoKey))
    /\ UNCHANGED <<queueVars, calls, reply, caches>>

\* Resolve of the target found an answer, which is cached under its own key.
ChaseAnswer(g) ==
    /\ At(g, "query", "chase")
    /\ qcache' = [qcache EXCEPT ![Top(g).target] = "answer"]
    /\ Become(g, Followed(Top(g), Cname[Top(g).target]))
    /\ UNCHANGED <<queueVars, calls, reply, ecache>>

-----------------------------------------------------------------------------
(* lookupNSAddr, called by Resolve.                                        *)

\* Resolve needs the address of the nameserver k.
CallNSAddr(g, k) ==
    /\ stack[g] # <<>> /\ Top(g).pc \in {"resolve", "chase"}
    /\ calls[g] < MaxCalls
    /\ calls' = [calls EXCEPT ![g] = @ + 1]
    /\ Enter(g, Top(g), NewFrame("nsaddr", k,
                 IF Top(g).net = "https" THEN "udp" ELSE Top(g).net))
    /\ UNCHANGED <<queueVars, reply, caches>>

\* Lqueue.Get: a lookup in flight for this key is taken for a loop.
NSAddrGet(g) ==
    /\ At(g, "nsaddr", "get")
    /\ IF InFlight(Top(g).key)
       THEN Leave(g, "noaddr")
       ELSE Become(g, [Top(g) EXCEPT !.pc = "qget"]) /\ UNCHANGED reply
    /\ UNCHANGED <<queueVars, calls, caches>>

\* Qcache.Get: a hit counts when it holds an address.
NSAddrCacheGet(g) ==
    /\ At(g, "nsaddr", "qget")
    /\ \/ qcache[Top(g).key] # "none" /\ Leave(g, "addr")
       \/ Become(g, [Top(g) EXCEPT !.pc = "eget"]) /\ UNCHANGED reply
    /\ UNCHANGED <<queueVars, calls, caches>>

NSAddrErrorGet(g) ==
    /\ At(g, "nsaddr", "eget")
    /\ IF Top(g).key \in ecache
       THEN Leave(g, "noaddr")
       ELSE Become(g, [Top(g) EXCEPT !.pc = "add"]) /\ UNCHANGED reply
    /\ UNCHANGED <<queueVars, calls, caches>>

NSAddrAdd(g) ==
    /\ At(g, "nsaddr", "add")
    /\ Add(g, Top(g).key)
    /\ Become(g, [Top(g) EXCEPT !.pc = "depth", !.deferred = TRUE,
                                !.mine = FreshChan(g)])
    /\ UNCHANGED <<calls, reply, caches>>

\* Variant of NSAddrDepth that returns on zero depth before the defer.
NSAddrDepthNoDefer(g) ==
    /\ At(g, "nsaddr", "depth")
    /\ \/ Leave(g, "noaddr")
       \/ Become(g, [Top(g) EXCEPT !.pc = "resolve"]) /\ UNCHANGED reply
    /\ UNCHANGED <<queueVars, calls, caches>>

\* The depth that is left is zero, or goes to Resolve.
NSAddrDepth(g) ==
    /\ At(g, "nsaddr", "depth")
    /\ \/ Become(g, [Top(g) EXCEPT !.pc = "done", !.res = "noaddr"])
       \/ Become(g, [Top(g) EXCEPT !.pc = "resolve"])
    /\ UNCHANGED <<queueVars, calls, reply, caches>>

\* Resolve and the fallback servers found no address: Ecache.Set.
NSAddrFail(g) ==
    /\ At(g, "nsaddr", "resolve")
    /\ ecache' = ecache \cup {Top(g).key}
    /\ Become(g, [Top(g) EXCEPT !.pc = "done", !.res = "noaddr"])
    /\ UNCHANGED <<queueVars, calls, reply, qcache>>

\* A truncated reply: Lqueue.Done now, then the same lookup over TCP.
NSAddrTruncated(g) ==
    /\ At(g, "nsaddr", "resolve")
    /\ Top(g).net = "tcp" => TruncatedTCP
    /\ calls[g] < MaxCalls
    /\ calls' = [calls EXCEPT ![g] = @ + 1]
    /\ Done(Top(g).key, Top(g).mine)
    /\ Enter(g, [Top(g) EXCEPT !.pc = "nested", !.mine = NoChan],
             NewFrame("nsaddr", Top(g).key, "tcp"))
    /\ UNCHANGED <<reply, caches>>

\* An address was found: Qcache.Set.
NSAddrAnswer(g) ==
    /\ At(g, "nsaddr", "resolve")
    /\ qcache' = [qcache EXCEPT ![Top(g).key] = "answer"]
    /\ Become(g, [Top(g) EXCEPT !.pc = "done", !.res = "addr"])
    /\ UNCHANGED <<queueVars, calls, reply, ecache>>

-----------------------------------------------------------------------------
(* The caches lose entries to expiry and eviction at any time.             *)

ForgetAnswer(k) ==
    /\ qcache[k] # "none"
    /\ qcache' = [qcache EXCEPT ![k] = "none"]
    /\ UNCHANGED <<queueVars, stack, calls, reply, ecache>>

ForgetError(k) ==
    /\ k \in ecache
    /\ ecache' = ecache \ {k}
    /\ UNCHANGED <<queueVars, stack, calls, reply, qcache>>

-----------------------------------------------------------------------------
Init ==
    /\ NewLookupQueue
    /\ stack = [g \in Goroutines |-> <<>>]
    /\ calls = [g \in Goroutines |-> 0]
    /\ reply = [g \in Goroutines |-> [key |-> NoKey, res |-> "none"]]
    /\ qcache = [k \in Keys |-> "none"]
    /\ ecache = {}

QueryStep(g) ==
    \/ QueryWait(g) \/ QueryWake(g)
    \/ QueryCacheGet(g) \/ QueryErrorGet(g) \/ QueryBlockList(g) \/ QueryAdd(g)
    \/ QueryFail(g) \/ QueryTruncatedUDP(g) \/ QueryTruncatedHTTPS(g)
    \/ QueryAnswer(g) \/ QueryStore(g) \/ DeferredDone(g)
    \/ FollowEnd(g) \/ FollowCache(g) \/ ChaseFail(g) \/ ChaseAnswer(g)

NSAddrStep(g) ==
    \/ \E k \in NSKeys : CallNSAddr(g, k)
    \/ NSAddrGet(g) \/ NSAddrCacheGet(g) \/ NSAddrErrorGet(g) \/ NSAddrAdd(g)
    \/ NSAddrDepth(g) \/ NSAddrFail(g) \/ NSAddrTruncated(g) \/ NSAddrAnswer(g)

\* Everything a goroutine does without the help of the ten second timer.
Run(g) == QueryStep(g) \/ NSAddrStep(g)

Next ==
    \/ \E g \in Goroutines :
          \/ \E k \in ClientKeys, net \in Protos : Receive(g, k, net)
          \/ \E k \in ClientKeys, r \in {"dropped", "early"} : Reject(g, k, r)
          \/ Run(g)
          \/ QueryTimeout(g)
    \/ \E k \in Keys : ForgetAnswer(k) \/ ForgetError(k)

Spec == Init /\ [][Next]_vars

\* Goroutines are scheduled, upstream exchanges time out, so Resolve returns;
\* the timer of Wait is only relied on for a channel that nobody will close.
TimeoutOrphaned(g) == QueryTimeout(g) /\ Top(g).waits \in orphaned

FairSpec ==
    /\ Spec
    /\ \A g \in Goroutines : WF_vars(Run(g)) /\ WF_vars(TimeoutOrphaned(g))

-----------------------------------------------------------------------------
(* Properties.                                                             *)

\* Type invariant of the query handlers, their frames and the caches.
TypeOK ==
    /\ QueueTypeOK
    /\ stack \in [Goroutines -> Seq(Frame)]
    /\ calls \in [Goroutines -> 0..MaxCalls]
    /\ reply \in [Goroutines -> [key : Keys \cup {NoKey}, res : Results]]
    /\ qcache \in [Keys -> {"none", "answer", "null"}]
    /\ ecache \subseteq Keys

\* A key in the lookup queue belongs to a call of query or lookupNSAddr that
\* is still running and will call Done: no error path, early return or retry
\* leaves a key behind, which would stall every later query for ten seconds
\* and make every nameserver lookup of that key report a loop.
NoLeakedLookup ==
    \A k \in Keys : InFlight(k) =>
        \E g \in Goroutines : \E i \in DOMAIN stack[g] :
            stack[g][i].key = k /\ stack[g][i].mine = delay[k]

\* The channels in the queue are open, so close(c) in Done never panics, even
\* when two lookups of a key overlap and when the TCP retries call Done twice.
ClosedOnce == \A k \in Keys : delay[k] \notin closed

\* A goroutine never waits for a channel it has to close itself: the DoH retry
\* calls Done before it asks the same question again.
NoSelfWait ==
    \A g \in Goroutines : At(g, "query", "blocked") => Top(g).waits[1] # g

\* The channel a query waits for has been closed, or is the one that the next
\* Done of its key closes, or was overwritten by an overlapping Add: only the
\* last kind of waiter has to sit out the ten seconds.
WaiterAccounted ==
    \A g \in Goroutines : At(g, "query", "blocked") =>
        Top(g).waits \in closed \cup orphaned \cup {delay[Top(g).key]}

\* Two lookups of one key are in flight together only after an Add has
\* overwritten a channel or a Done has removed a channel that another call
\* made; in particular lookupNSAddr sees every loop in its own call chain.
SingleFlight ==
    \A g, h \in Goroutines : \A i \in DOMAIN stack[g], j \in DOMAIN stack[h] :
        /\ <<g, i>> # <<h, j>>
        /\ stack[g][i].key = stack[h][j].key
        /\ stack[g][i].mine # NoChan /\ stack[h][j].mine # NoChan
        => stack[g][i].key \in raced

\* Every query that enters the handler is answered, CNAME loops, TCP retries
\* and overlapping lookups included, although the timer of Wait is relied on
\* for orphaned channels only.
EveryQueryAnswered ==
    \A g \in Goroutines : stack[g] # <<>> ~> reply[g].res # "none"

\* README.md: nullroute is the "IPv4 address to forward blocked queries to".
\* A query for a blocked name is never answered with its real records.
BlockedIsNullRouted ==
    \A g \in Goroutines :
        reply[g].key \in Blocked => reply[g].res \notin {"answer", "trunc"}
=============================================================================
