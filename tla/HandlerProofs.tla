--------------------------- MODULE HandlerProofs ----------------------------
(***************************************************************************)
(* TLAPS proofs about Handler, for any keys, goroutines, CNAME data and    *)
(* bounds: the lookup queue is used correctly by every interleaving of     *)
(* query and lookupNSAddr.                                                 *)
(***************************************************************************)
EXTENDS HandlerSteps, TLAPS

-----------------------------------------------------------------------------
(* The actions.                                                            *)

\* Receive starts the stack of an idle goroutine.
LEMMA ReceiveKeeps ==
    ASSUME IInv, NEW g \in Goroutines, NEW k \in ClientKeys, NEW net \in Protos,
           Receive(g, k, net)
    PROVE  IInv'
  <1> DEFINE e == NewFrame("query", k, net)
             t == <<e>>
  <1>1. k \in Keys /\ net \in {"udp", "tcp", "https"} /\ CnameDepth \in Nat
    BY HandlerAssumption
  <1>2. /\ e \in Frame /\ e.pc = "wait" /\ e.mine = NoChan /\ ~e.deferred
    BY <1>1, SMTT(30) DEF NewFrame, Frame, Pcs, Results
  <1>3. stack' = [stack EXCEPT ![g] = t] /\ stack[g] = <<>>
    BY DEF Receive, Idle
  <1>4. RestOK' /\ UNCHANGED queueVars
    BY <1>1, Zenon DEF Receive, IInv, TypeOK, RestOK, caches
  <1> HIDE DEF e
  <1>5. t \in Seq(Frame) /\ Len(t) = 1 /\ t[1] = e
    BY <1>2
  <1> HIDE DEF t
  <1>6. TypeOK'
    BY <1>3, <1>4, <1>5, Zenon DEF IInv, TypeOK, QueueTypeOK, queueVars, RestOK
  <1>7. GoodStack(g, t)
    BY <1>2, <1>5, SMTT(30) DEF GoodStack, StackInv, FrameInv, BeforeAdd
  <1>8. SameMine(stack[g], t)
    BY <1>2, <1>3, <1>5, SMTT(30) DEF SameMine
  <1> QED
    BY <1>3, <1>4, <1>5, <1>6, <1>7, <1>8, QuietStep, Zenon

\* Wait finds a channel of another goroutine, or none.
LEMMA QueryWaitKeeps ==
    ASSUME IInv, NEW g \in Goroutines, QueryWait(g)
    PROVE  IInv'
  <1> DEFINE k == Top(g).key
             n == Len(stack[g])
  <1>1. /\ stack[g] # <<>> /\ Top(g).fn = "query" /\ Top(g).pc = "wait"
        /\ UNCHANGED queueVars /\ RestOK'
    BY DEF QueryWait, At, IInv, TypeOK, RestOK, caches
  <1>2. /\ Top(g) \in Frame /\ FrameInv(g, Top(g)) /\ stack[g][n] = Top(g)
        /\ n \in Nat \ {0} /\ stack[g] \in Seq(Frame)
    BY <1>1, TopFrame DEF Top
  <1>3. k \in Keys /\ ~Top(g).deferred /\ Top(g).mine = NoChan
    BY <1>1, <1>2, FrameFields DEF FrameInv, BeforeAdd
  <1>4. CASE ~InFlight(k)
    <2> DEFINE f == [Top(g) EXCEPT !.pc = "qget"]
    <2>1. Become(g, f)
      BY <1>4 DEF QueryWait
    <2>2. Moves(g, f)
      BY <1>1, <1>2 DEF Moves, Frame, Pcs, BeforeAdd
    <2> HIDE DEF f
    <2> QED
      BY <1>1, <2>1, <2>2, MoveStep
  <1>5. CASE InFlight(k)
    <2> DEFINE c == delay[k]
               f == [Top(g) EXCEPT !.pc = "blocked", !.waits = c]
    <2>1. Become(g, f)
      BY <1>5 DEF QueryWait
    <2>2. c \in Chan /\ c # NoChan
      BY <1>3, <1>5 DEF IInv, TypeOK, QueueTypeOK, InFlight
    <2>3. PICK h \in Goroutines : \E i \in DOMAIN stack[h] :
              stack[h][i].key = k /\ stack[h][i].mine = c
      BY <1>3, <1>5 DEF IInv, NoLeakedLookup
    <2>4. PICK i \in DOMAIN stack[h] : stack[h][i].key = k /\ stack[h][i].mine = c
      BY <2>3
    <2>5. stack[h] \in Seq(Frame) /\ i \in 1..Len(stack[h])
      BY <2>4, SMTT(30) DEF IInv, TypeOK
    <2>6. c[1] = h
      BY <2>2, <2>4, <2>5, SMTT(30) DEF IInv, FrameInv
    <2> HIDE DEF c
    <2>7. h # g
      <3> SUFFICES ASSUME h = g PROVE FALSE
        OBVIOUS
      <3>1. i # n /\ n > 1
        BY <1>2, <1>3, <2>2, <2>4, <2>5, SMTT(30)
      <3>2. n = 2 /\ stack[g][1].mine = NoChan
        <4>1. \A j \in 1..n : stack[g][j].fn = "query" /\ j > 1 =>
                                  j = 2 /\ stack[g][1].mine = NoChan
          BY DEF IInv, StackInv
        <4>2. n \in 1..n
          BY <1>2
        <4> HIDE DEF n
        <4> QED
          BY <1>1, <1>2, <3>1, <4>1, <4>2
      <3> QED
        BY <2>2, <2>4, <2>5, <3>1, <3>2, SMTT(30)
    <2>8. /\ f \in Frame /\ f.pc = "blocked" /\ f.waits = c
          /\ f.fn = Top(g).fn /\ f.key = Top(g).key /\ f.net = Top(g).net
          /\ f.deferred = Top(g).deferred /\ f.mine = Top(g).mine
      BY <1>2, <2>2, Zenon DEF Frame, Pcs
    <2> HIDE DEF f
    <2>9. Replaces(g, f, Top(g))
      <3>1. FrameInv(g, f)
        BY <1>3, <2>2, <2>8 DEF FrameInv, c
      <3> QED
        BY <2>6, <2>7, <2>8, <3>1 DEF Replaces
    <2> QED
      BY <1>1, <2>1, <2>8, <2>9, BecomeStep
  <1> QED
    BY <1>4, <1>5

\* The steps of query that only move on.
LEMMA QueryMovesKeep ==
    ASSUME IInv, NEW g \in Goroutines,
           \/ QueryWake(g) \/ QueryTimeout(g) \/ QueryFail(g)
           \/ QueryTruncatedUDP(g) \/ QueryAnswer(g) \/ QueryStore(g)
    PROVE  IInv'
  <1> USE DEF caches
  <1>1. /\ stack[g] # <<>> /\ UNCHANGED queueVars /\ RestOK
        /\ Top(g).pc \in Pcs
    BY Zenon DEF QueryWake, QueryTimeout, Resume, QueryFail, QueryTruncatedUDP,
           QueryAnswer, QueryStore, At, IInv, TypeOK, RestOK, Pcs
  <1>2. Top(g) \in Frame /\ Top(g).key \in Keys
    BY <1>1, TopFrame, FrameFields
  <1>3. CASE QueryWake(g) \/ QueryTimeout(g)
    <2> DEFINE f == [Top(g) EXCEPT !.pc = "qget", !.waits = NoChan]
    <2>1. Become(g, f) /\ RestOK' /\ Top(g).pc = "blocked"
      BY <1>1, <1>3 DEF QueryWake, QueryTimeout, Resume, At, RestOK
    <2>2. Moves(g, f)
      BY <1>2, <2>1, Labels, MovedFrame, Zenon DEF BeforeAdd
    <2> HIDE DEF f
    <2> QED
      BY <1>1, <2>1, <2>2, MoveStep
  <1>4. CASE QueryFail(g)
    <2> DEFINE f == [Top(g) EXCEPT !.pc = "done", !.res = "servfail"]
    <2>1. Become(g, f) /\ RestOK'
      BY <1>1, <1>2, <1>4 DEF QueryFail, RestOK
    <2>2. Moves(g, f)
      BY <1>2, Labels, MovedFrame, Zenon
    <2> HIDE DEF f
    <2> QED
      BY <1>1, <2>1, <2>2, MoveStep
  <1>5. CASE QueryTruncatedUDP(g)
    <2> DEFINE f == [Top(g) EXCEPT !.pc = "done", !.res = "trunc"]
    <2>1. Become(g, f) /\ RestOK'
      BY <1>1, <1>5 DEF QueryTruncatedUDP, RestOK
    <2>2. Moves(g, f)
      BY <1>2, Labels, MovedFrame, Zenon
    <2> HIDE DEF f
    <2> QED
      BY <1>1, <2>1, <2>2, MoveStep
  <1>6. CASE QueryAnswer(g)
    <2>1. PICK t \in FirstTargets(Top(g).key, "answer") :
              Become(g, [Top(g) EXCEPT !.pc = "follow", !.target = t,
                                       !.tries = CnameDepth, !.res = "answer"])
      BY <1>6, Zenon DEF QueryAnswer
    <2> DEFINE f == [Top(g) EXCEPT !.pc = "follow", !.target = t,
                                   !.tries = CnameDepth, !.res = "answer"]
    <2>2. RestOK' /\ t \in Keys \cup {NoKey} /\ CnameDepth \in 0..CnameDepth
      BY <1>1, <1>2, <1>6, HandlerAssumption DEF QueryAnswer, RestOK, FirstTargets
    <2>3. Moves(g, f)
      BY <1>2, <2>2, Labels, MovedFrame, Zenon
    <2> HIDE DEF f
    <2>4. Become(g, f)
      BY <2>1 DEF f
    <2> QED
      BY <1>1, <2>2, <2>3, <2>4, MoveStep
  <1>7. CASE QueryStore(g)
    <2> DEFINE f == [Top(g) EXCEPT !.pc = "done"]
    <2>1. Become(g, f) /\ RestOK'
      BY <1>1, <1>2, <1>7 DEF QueryStore, RestOK
    <2>2. Moves(g, f)
      BY <1>2 DEF Moves, Frame, Pcs, BeforeAdd
    <2> HIDE DEF f
    <2> QED
      BY <1>1, <2>1, <2>2, MoveStep
  <1> QED
    BY <1>3, <1>4, <1>5, <1>6, <1>7

\* A frame before Lqueue.Add has no channel.
LEMMA NoChanBeforeAdd ==
    ASSUME IInv, NEW g \in Goroutines, stack[g] # <<>>, Top(g).pc \in BeforeAdd
    PROVE  Top(g).mine = NoChan
  BY TopFrame DEF FrameInv

\* The steps of query before Lqueue.Add that may return.
LEMMA QueryGetsKeep ==
    ASSUME IInv, NEW g \in Goroutines,
           QueryCacheGet(g) \/ QueryErrorGet(g) \/ QueryBlockList(g)
    PROVE  IInv'
  <1> USE DEF caches
  <1>1. /\ stack[g] # <<>> /\ UNCHANGED queueVars /\ RestOK
        /\ Top(g).pc \in BeforeAdd
    BY Zenon DEF QueryCacheGet, QueryErrorGet, QueryBlockList, At, IInv, TypeOK,
           RestOK, BeforeAdd
  <1>2. Top(g) \in Frame /\ Top(g).key \in Keys
    BY <1>1, TopFrame, FrameFields
  <1>3. Top(g).mine = NoChan
    BY <1>1, NoChanBeforeAdd
  <1>4. ASSUME NEW r \in Results, Leave(g, r), RestOK'
        PROVE  IInv'
    BY <1>1, <1>3, <1>4, LeaveStep
  <1>5. ASSUME NEW p \in {"eget", "block", "add"},
               Become(g, [Top(g) EXCEPT !.pc = p]), RestOK'
        PROVE  IInv'
    <2> DEFINE f == [Top(g) EXCEPT !.pc = p]
    <2>1. Moves(g, f)
      BY <1>1, <1>2 DEF Moves, Frame, Pcs, BeforeAdd
    <2>2. Become(g, f)
      BY <1>5
    <2> HIDE DEF f
    <2> QED
      BY <1>1, <1>5, <2>1, <2>2, MoveStep
  <1>6. CASE QueryCacheGet(g)
    <2> DEFINE e == qcache[Top(g).key]
    <2>1. CASE e = "none" /\ Become(g, [Top(g) EXCEPT !.pc = "eget"]) /\ UNCHANGED reply
      <3>1. RestOK'
        BY <1>1, <1>6, <2>1 DEF QueryCacheGet, RestOK
      <3> QED
        BY <1>5, <2>1, <3>1
    <2>2. CASE Leave(g, "servfail")
      <3>1. "servfail" \in Results
        BY DEF Results
      <3>2. RestOK'
        BY <1>1, <1>6, <2>2, <3>1, LeaveReply, Zenon DEF QueryCacheGet, RestOK
      <3> QED
        BY <1>4, <2>2, <3>1, <3>2
    <2>3. CASE /\ e # "none" /\ UNCHANGED reply
               /\ \E t \in FirstTargets(Top(g).key, e) :
                    Become(g, [Top(g) EXCEPT !.pc = "follow", !.target = t,
                                             !.tries = CnameDepth, !.res = e])
      <3>1. PICK t \in FirstTargets(Top(g).key, e) :
                    Become(g, [Top(g) EXCEPT !.pc = "follow", !.target = t,
                                             !.tries = CnameDepth, !.res = e])
        BY <2>3, Zenon
      <3> DEFINE f == [Top(g) EXCEPT !.pc = "follow", !.target = t,
                                     !.tries = CnameDepth, !.res = e]
      <3>2. RestOK'
        BY <1>1, <1>6, <2>3, Zenon DEF QueryCacheGet, RestOK
      <3>3. e \in Results
        BY <1>1, <1>2, Labels DEF RestOK
      <3> HIDE DEF e
      <3>4. t \in Keys \cup {NoKey}
        BY <1>2, <3>1, HandlerAssumption DEF FirstTargets
      <3>5. Moves(g, f)
        BY <1>2, <3>3, <3>4, Labels, MovedFrame, Zenon
      <3>6. Become(g, f)
        BY <3>1
      <3> HIDE DEF f
      <3> QED
        BY <1>1, <3>2, <3>5, <3>6, MoveStep
    <2> QED
      BY <1>6, <2>1, <2>2, <2>3, Zenon DEF QueryCacheGet
  <1>7. CASE QueryErrorGet(g)
    <2>1. CASE Leave(g, "servfail")
      <3>1. "servfail" \in Results
        BY DEF Results
      <3>2. RestOK'
        BY <1>1, <1>7, <2>1, <3>1, LeaveReply DEF QueryErrorGet, RestOK
      <3> QED
        BY <1>4, <2>1, <3>1, <3>2
    <2>2. CASE Become(g, [Top(g) EXCEPT !.pc = "block"]) /\ UNCHANGED reply
      <3>1. RestOK'
        BY <1>1, <1>7, <2>2 DEF QueryErrorGet, RestOK
      <3> QED
        BY <1>5, <2>2, <3>1
    <2> QED
      BY <1>7, <2>1, <2>2 DEF QueryErrorGet
  <1>8. CASE QueryBlockList(g)
    <2>1. CASE Leave(g, "null") /\ qcache' = [qcache EXCEPT ![Top(g).key] = "null"]
      <3>1. "null" \in Results
        BY DEF Results
      <3>2. RestOK'
        BY <1>1, <1>2, <1>8, <2>1, <3>1, LeaveReply DEF QueryBlockList, RestOK
      <3> QED
        BY <1>4, <2>1, <3>1, <3>2
    <2>2. CASE Become(g, [Top(g) EXCEPT !.pc = "add"]) /\ UNCHANGED <<reply, qcache>>
      <3>1. RestOK'
        BY <1>1, <1>8, <2>2 DEF QueryBlockList, RestOK
      <3> QED
        BY <1>5, <2>2, <3>1
    <2> QED
      BY <1>8, <2>1, <2>2 DEF QueryBlockList
  <1> QED
    BY <1>6, <1>7, <1>8

\* The steps of query that use the queue.
LEMMA QueryQueueKeeps ==
    ASSUME IInv, NEW g \in Goroutines,
           QueryAdd(g) \/ QueryTruncatedHTTPS(g) \/ DeferredDone(g)
    PROVE  IInv'
  <1> USE DEF caches
  <1>1. stack[g] # <<>> /\ RestOK
    BY DEF QueryAdd, QueryTruncatedHTTPS, DeferredDone, At, IInv, TypeOK, RestOK
  <1>2. Top(g) \in Frame /\ Top(g).key \in Keys /\ Top(g).res \in Results
        /\ FrameInv(g, Top(g))
    BY <1>1, TopFrame, FrameFields
  <1>3. CASE QueryAdd(g)
    <2>1. RestOK'
      BY <1>1, <1>3 DEF QueryAdd, RestOK
    <2> QED
      BY <1>1, <1>3, <2>1, AddFrameStep, Zenon DEF QueryAdd, At
  <1>4. CASE QueryTruncatedHTTPS(g)
    <2> DEFINE f == [Top(g) EXCEPT !.pc = "nested", !.mine = NoChan]
               e == NewFrame("query", Top(g).key, "tcp")
    <2>1. /\ RestOK' /\ Top(g).net = "https" /\ Enter(g, f, e)
          /\ Done(Top(g).key, Top(g).mine)
      BY <1>1, <1>4 DEF QueryTruncatedHTTPS, RestOK
    <2>2. Replaces(g, f, Top(g)) /\ f.mine = NoChan
      BY <1>2, RetryFrame, Zenon
    <2>3. Replaces(g, e, e) /\ e.mine = NoChan /\ e.net # "https"
      BY <1>2, CalleeFrame
    <2> HIDE DEF f, e
    <2> QED
      BY <1>1, <2>1, <2>2, <2>3, RetryStep
  <1>5. CASE DeferredDone(g)
    <2>1. Leave(g, Top(g).res) /\ Done(Top(g).key, Top(g).mine)
      BY <1>5 DEF DeferredDone
    <2>2. RestOK'
      BY <1>1, <1>2, <1>5, <2>1, LeaveReply DEF DeferredDone, RestOK
    <2> QED
      BY <1>1, <1>2, <2>1, <2>2, DoneLeaveStep
  <1> QED
    BY <1>3, <1>4, <1>5

\* The steps of additionalAnswer.
LEMMA FollowKeeps ==
    ASSUME IInv, NEW g \in Goroutines,
           FollowEnd(g) \/ FollowCache(g) \/ ChaseFail(g) \/ ChaseAnswer(g)
    PROVE  IInv'
  <1> USE DEF caches
  <1>1. /\ stack[g] # <<>> /\ UNCHANGED queueVars /\ RestOK
    BY DEF FollowEnd, FollowCache, ChaseFail, ChaseAnswer, At, IInv, TypeOK, RestOK
  <1>2. /\ Top(g) \in Frame /\ Top(g).key \in Keys /\ Top(g).res \in Results
        /\ Top(g).target \in Keys \cup {NoKey} /\ Top(g).tries \in 0..CnameDepth
        /\ FrameInv(g, Top(g))
    BY <1>1, TopFrame, FrameFields
  <1>3. ASSUME NEW t \in Keys \cup {NoKey}, Top(g).tries > 0,
               Become(g, Followed(Top(g), t)), RestOK'
        PROVE  IInv'
    <2> DEFINE f == [Top(g) EXCEPT !.pc = "follow", !.target = t,
                                   !.tries = Top(g).tries - 1]
    <2>1. Top(g).tries - 1 \in 0..CnameDepth
      BY <1>2, <1>3, HandlerAssumption, SMTT(30)
    <2>2. Moves(g, f)
      BY <1>2, <2>1, Labels, MovedFrame, Zenon
    <2>3. Become(g, f)
      BY <1>3 DEF Followed
    <2> HIDE DEF f
    <2> QED
      BY <1>1, <1>3, <2>2, <2>3, MoveStep
  <1>4. ASSUME NEW p \in {"store", "chase"},
               p = "chase" => Top(g).target # NoKey /\ Top(g).tries > 0,
               Become(g, [Top(g) EXCEPT !.pc = p]), RestOK'
        PROVE  IInv'
    <2> DEFINE f == [Top(g) EXCEPT !.pc = p]
    <2>1. Moves(g, f)
      BY <1>2, <1>4 DEF Moves, Frame, Pcs, BeforeAdd
    <2>2. Become(g, f)
      BY <1>4
    <2> HIDE DEF f
    <2> QED
      BY <1>1, <1>4, <2>1, <2>2, MoveStep
  <1>5. CASE FollowEnd(g)
    <2>1. CASE Top(g).deferred
      <3>1. RestOK' /\ Become(g, [Top(g) EXCEPT !.pc = "store"])
        BY <1>1, <1>5, <2>1 DEF FollowEnd, RestOK
      <3> QED
        BY <1>4, <3>1
    <2>2. CASE ~Top(g).deferred
      <3>1. Leave(g, Top(g).res) /\ Top(g).mine = NoChan
        BY <1>2, <1>5, <2>2 DEF FollowEnd, FrameInv
      <3>2. RestOK'
        BY <1>1, <1>2, <1>5, <3>1, LeaveReply DEF FollowEnd, RestOK
      <3> QED
        BY <1>1, <1>2, <3>1, <3>2, LeaveStep
    <2> QED
      BY <2>1, <2>2
  <1>6. CASE FollowCache(g)
    <2> DEFINE t == Top(g).target
    <2>1. RestOK' /\ t \in Keys /\ t # NoKey /\ Top(g).tries > 0
      BY <1>1, <1>2, <1>6 DEF FollowCache, RestOK
    <2>2. qcache[t] \in {"none", "answer", "null"} /\ Cname[t] \in Keys \cup {NoKey}
      BY <1>1, <2>1, HandlerAssumption DEF RestOK
    <2>3. CASE qcache[t] = "none"
      <3>1. Become(g, [Top(g) EXCEPT !.pc = "chase"])
        BY <1>6, <2>3 DEF FollowCache
      <3> QED
        BY <1>4, <2>1, <3>1
    <2>4. CASE qcache[t] = "null"
      <3>1. Become(g, Followed(Top(g), NoKey))
        BY <1>6, <2>4 DEF FollowCache
      <3> QED
        BY <1>3, <2>1, <3>1
    <2>5. CASE qcache[t] = "answer"
      <3>1. Become(g, Followed(Top(g), Cname[t]))
        BY <1>6, <2>5 DEF FollowCache
      <3> QED
        BY <1>3, <2>1, <2>2, <3>1
    <2> QED
      BY <2>2, <2>3, <2>4, <2>5
  <1>7. CASE ChaseFail(g)
    <2>1. RestOK' /\ Become(g, Followed(Top(g), NoKey)) /\ Top(g).tries > 0
      BY <1>1, <1>2, <1>7 DEF ChaseFail, RestOK, At, FrameInv
    <2> QED
      BY <1>3, <2>1
  <1>8. CASE ChaseAnswer(g)
    <2> DEFINE t == Cname[Top(g).target]
    <2>1. Top(g).target \in Keys /\ Top(g).tries > 0
      BY <1>2, <1>8 DEF ChaseAnswer, At, FrameInv
    <2>2. t \in Keys \cup {NoKey}
      BY <2>1, HandlerAssumption
    <2>3. RestOK' /\ Become(g, Followed(Top(g), t))
      BY <1>1, <1>8, <2>1 DEF ChaseAnswer, RestOK
    <2> QED
      BY <1>3, <2>1, <2>2, <2>3
  <1> QED
    BY <1>5, <1>6, <1>7, <1>8

\* The steps of lookupNSAddr.
LEMMA NSAddrKeeps ==
    ASSUME IInv, NEW g \in Goroutines, NSAddrStep(g)
    PROVE  IInv'
  <1> USE DEF caches
  <1>1. stack[g] # <<>> /\ RestOK
    BY DEF NSAddrStep, CallNSAddr, NSAddrGet, NSAddrCacheGet, NSAddrErrorGet,
           NSAddrAdd, NSAddrDepth, NSAddrFail, NSAddrTruncated, NSAddrAnswer, At,
           IInv, TypeOK, RestOK
  <1>2. /\ Top(g) \in Frame /\ Top(g).key \in Keys
        /\ Top(g).net \in {"udp", "tcp", "https"}
    BY <1>1, TopFrame, FrameFields
  <1>3. ASSUME NEW r \in Results, Leave(g, r), RestOK', UNCHANGED queueVars,
               Top(g).pc \in BeforeAdd
        PROVE  IInv'
    BY <1>1, <1>3, NoChanBeforeAdd, LeaveStep
  <1>4. ASSUME NEW p \in {"qget", "eget", "add", "resolve"}, RestOK',
               p = "resolve" \/ Top(g).pc \in BeforeAdd,
               Become(g, [Top(g) EXCEPT !.pc = p]), UNCHANGED queueVars
        PROVE  IInv'
    <2> DEFINE f == [Top(g) EXCEPT !.pc = p]
    <2>1. Moves(g, f)
      BY <1>2, <1>4, Labels, MovedFrame, Zenon
    <2>2. Become(g, f)
      BY <1>4
    <2> HIDE DEF f
    <2> QED
      BY <1>1, <1>4, <2>1, <2>2, MoveStep
  <1>5. ASSUME NEW r \in Results, RestOK', UNCHANGED queueVars,
               Become(g, [Top(g) EXCEPT !.pc = "done", !.res = r])
        PROVE  IInv'
    <2> DEFINE f == [Top(g) EXCEPT !.pc = "done", !.res = r]
    <2>1. Moves(g, f)
      BY <1>2, Labels, MovedFrame, Zenon
    <2>2. Become(g, f)
      BY <1>5
    <2> HIDE DEF f
    <2> QED
      BY <1>1, <1>5, <2>1, <2>2, MoveStep
  <1>6. ASSUME NEW k \in NSKeys, CallNSAddr(g, k)
        PROVE  IInv'
    <2> DEFINE net == IF Top(g).net = "https" THEN "udp" ELSE Top(g).net
               e == NewFrame("nsaddr", k, net)
    <2>1. Enter(g, Top(g), e) /\ UNCHANGED queueVars
      BY <1>6 DEF CallNSAddr
    <2>2. RestOK'
      BY <1>1, <1>6, HandlerAssumption, SMTT(30) DEF CallNSAddr, RestOK
    <2>3. k \in Keys /\ net \in {"udp", "tcp"}
      BY <1>2, HandlerAssumption
    <2> HIDE DEF net
    <2>4. Replaces(g, e, e) /\ e.mine = NoChan /\ e.net # "https" /\ e.fn # "query"
      BY <2>3, CalleeFrame
    <2> HIDE DEF e
    <2> QED
      BY <1>1, <2>1, <2>2, <2>4, CallStep
  <1>7. CASE NSAddrGet(g)
    <2>1. UNCHANGED queueVars /\ Top(g).pc \in BeforeAdd
      BY <1>7 DEF NSAddrGet, At, BeforeAdd
    <2>2. CASE Leave(g, "noaddr")
      <3>1. RestOK'
        BY <1>1, <1>7, <2>2, Labels, LeaveReply DEF NSAddrGet, RestOK
      <3> QED
        BY <1>3, <2>1, <2>2, <3>1, Labels
    <2>3. CASE Become(g, [Top(g) EXCEPT !.pc = "qget"]) /\ UNCHANGED reply
      <3>1. RestOK'
        BY <1>1, <1>7, <2>3 DEF NSAddrGet, RestOK
      <3> QED
        BY <1>4, <2>1, <2>3, <3>1
    <2> QED
      BY <1>7, <2>2, <2>3 DEF NSAddrGet
  <1>8. CASE NSAddrCacheGet(g)
    <2>1. UNCHANGED queueVars /\ Top(g).pc \in BeforeAdd
      BY <1>8 DEF NSAddrCacheGet, At, BeforeAdd
    <2>2. CASE Leave(g, "addr")
      <3>1. RestOK'
        BY <1>1, <1>8, <2>2, Labels, LeaveReply DEF NSAddrCacheGet, RestOK
      <3> QED
        BY <1>3, <2>1, <2>2, <3>1, Labels
    <2>3. CASE Become(g, [Top(g) EXCEPT !.pc = "eget"]) /\ UNCHANGED reply
      <3>1. RestOK'
        BY <1>1, <1>8, <2>3 DEF NSAddrCacheGet, RestOK
      <3> QED
        BY <1>4, <2>1, <2>3, <3>1
    <2> QED
      BY <1>8, <2>2, <2>3 DEF NSAddrCacheGet
  <1>9. CASE NSAddrErrorGet(g)
    <2>1. UNCHANGED queueVars /\ Top(g).pc \in BeforeAdd
      BY <1>9 DEF NSAddrErrorGet, At, BeforeAdd
    <2>2. CASE Leave(g, "noaddr")
      <3>1. RestOK'
        BY <1>1, <1>9, <2>2, Labels, LeaveReply DEF NSAddrErrorGet, RestOK
      <3> QED
        BY <1>3, <2>1, <2>2, <3>1, Labels
    <2>3. CASE Become(g, [Top(g) EXCEPT !.pc = "add"]) /\ UNCHANGED reply
      <3>1. RestOK'
        BY <1>1, <1>9, <2>3 DEF NSAddrErrorGet, RestOK
      <3> QED
        BY <1>4, <2>1, <2>3, <3>1
    <2> QED
      BY <1>9, <2>2, <2>3 DEF NSAddrErrorGet
  <1>10. CASE NSAddrAdd(g)
    <2>1. RestOK'
      BY <1>1, <1>10 DEF NSAddrAdd, RestOK
    <2> QED
      BY <1>1, <1>10, <2>1, AddFrameStep, Zenon DEF NSAddrAdd, At
  <1>11. CASE NSAddrDepth(g)
    <2>1. RestOK' /\ UNCHANGED queueVars
      BY <1>1, <1>11 DEF NSAddrDepth, RestOK
    <2> QED
      BY <1>4, <1>5, <1>11, <2>1, Labels, Zenon DEF NSAddrDepth
  <1>12. CASE NSAddrFail(g)
    <2>1. RestOK' /\ UNCHANGED queueVars
      BY <1>1, <1>2, <1>12 DEF NSAddrFail, RestOK
    <2> QED
      BY <1>5, <1>12, <2>1, Labels, Zenon DEF NSAddrFail
  <1>13. CASE NSAddrTruncated(g)
    <2> DEFINE f == [Top(g) EXCEPT !.pc = "nested", !.mine = NoChan]
               e == NewFrame("nsaddr", Top(g).key, "tcp")
    <2>1. Enter(g, f, e) /\ Done(Top(g).key, Top(g).mine)
      BY <1>13 DEF NSAddrTruncated
    <2>2. RestOK'
      BY <1>1, <1>13, HandlerAssumption DEF NSAddrTruncated, RestOK
    <2>3. Replaces(g, f, Top(g)) /\ f.mine = NoChan
      BY <1>2, RetryFrame, Zenon
    <2>4. Replaces(g, e, e) /\ e.mine = NoChan /\ e.net # "https" /\ e.fn # "query"
      BY <1>2, CalleeFrame
    <2> HIDE DEF f, e
    <2> QED
      BY <1>1, <2>1, <2>2, <2>3, <2>4, RetryStep
  <1>14. CASE NSAddrAnswer(g)
    <2>1. RestOK' /\ UNCHANGED queueVars
      BY <1>1, <1>2, <1>14 DEF NSAddrAnswer, RestOK
    <2> QED
      BY <1>5, <1>14, <2>1, Labels, Zenon DEF NSAddrAnswer
  <1> QED
    BY <1>6, <1>7, <1>8, <1>9, <1>10, <1>11, <1>12, <1>13, <1>14 DEF NSAddrStep

\* A step that touches neither a stack nor the queue.
LEMMA RestStep ==
    ASSUME IInv, UNCHANGED <<queueVars, stack>>, RestOK'
    PROVE  IInv'
  <1> USE DEF queueVars, InFlight
  <1>1. TypeOK'
    BY DEF IInv, TypeOK, QueueTypeOK, RestOK
  <1>2. \A g \in Goroutines : \A i \in 1..Len(stack'[g]) : FrameInv(g, stack[g][i])'
    BY SMTT(30) DEF IInv, FrameInv
  <1>3. \A g \in Goroutines : StackInv(stack[g])'
    BY DEF IInv, StackInv
  <1>4. FreshInv' /\ UniqueInv' /\ VisibleInv' /\ WaitInv'
    BY DEF IInv, FreshInv, UniqueInv, VisibleInv, WaitInv
  <1>5. NoLeakedLookup' /\ ClosedOnce'
    BY DEF IInv, NoLeakedLookup, ClosedOnce
  <1> QED
    BY <1>1, <1>2, <1>3, <1>4, <1>5 DEF IInv

-----------------------------------------------------------------------------
(* The theorems.                                                           *)

\* An idle server with an empty queue satisfies the invariant.
LEMMA InitInv == Init => IInv
  <1> SUFFICES ASSUME Init PROVE IInv
    OBVIOUS
  <1> USE DEF Init, NewLookupQueue, InFlight
  <1>1. TypeOK
    BY HandlerAssumption, Labels DEF TypeOK, QueueTypeOK
  <1>2. \A g \in Goroutines : Len(stack[g]) = 0
    OBVIOUS
  <1>3. FreshInv /\ ClosedOnce /\ NoLeakedLookup
    BY DEF FreshInv, ClosedOnce, NoLeakedLookup
  <1>4. UniqueInv /\ VisibleInv /\ WaitInv
    BY <1>2, SMTT(30) DEF UniqueInv, VisibleInv, WaitInv
  <1> QED
    BY <1>1, <1>2, <1>3, <1>4, SMTT(30) DEF IInv, StackInv

\* Every step of every goroutine, and every loss of a cache entry, keeps it.
LEMMA NextInv == IInv /\ [Next]_vars => IInv'
  <1> SUFFICES ASSUME IInv, [Next]_vars PROVE IInv'
    OBVIOUS
  <1>1. RestOK
    BY DEF IInv, TypeOK, RestOK
  <1>2. CASE UNCHANGED vars
    BY <1>1, <1>2, RestStep DEF vars, handlerVars, RestOK
  <1>3. ASSUME NEW g \in Goroutines, NEW k \in ClientKeys,
               NEW r \in {"dropped", "early"}, Reject(g, k, r)
        PROVE  IInv'
    <2>1. r \in Results /\ k \in Keys
      BY HandlerAssumption DEF Results
    <2>2. RestOK'
      BY <1>1, <1>3, <2>1 DEF Reject, RestOK, caches
    <2> QED
      BY <1>3, <2>2, RestStep DEF Reject
  <1>4. ASSUME NEW g \in Goroutines, QueryStep(g)
        PROVE  IInv'
    BY <1>4, QueryWaitKeeps, QueryMovesKeep, QueryGetsKeep, QueryQueueKeeps,
       FollowKeeps DEF QueryStep
  <1>5. ASSUME NEW k \in Keys, ForgetAnswer(k) \/ ForgetError(k)
        PROVE  IInv'
    <2>1. RestOK'
      BY <1>1, <1>5 DEF ForgetAnswer, ForgetError, RestOK
    <2> QED
      BY <1>5, <2>1, RestStep DEF ForgetAnswer, ForgetError
  <1> QED
    BY <1>2, <1>3, <1>4, <1>5, ReceiveKeeps, NSAddrKeeps, QueryMovesKeep
    DEF Next, Run

\* The inductive invariant holds throughout.
LEMMA AlwaysIInv == Spec => []IInv
  BY InitInv, NextInv, PTL DEF Spec

\* The handlers are type correct: in particular additionalAnswer never counts
\* its tries below zero.
THEOREM TypeCorrect == Spec => []TypeOK
  <1>1. IInv => TypeOK
    BY DEF IInv
  <1> QED
    BY <1>1, AlwaysIInv, PTL

\* No path through query or lookupNSAddr leaves a key in the lookup queue.
THEOREM LookupsNeverLeak == Spec => []NoLeakedLookup
  <1>1. IInv => NoLeakedLookup
    BY DEF IInv
  <1> QED
    BY <1>1, AlwaysIInv, PTL

\* close in Done is never applied to a channel twice, so it never panics.
THEOREM ChannelsClosedOnce == Spec => []ClosedOnce
  <1>1. IInv => ClosedOnce
    BY DEF IInv
  <1> QED
    BY <1>1, AlwaysIInv, PTL

\* A query never waits in Wait for a channel its own goroutine must close.
THEOREM NeverWaitsForItself == Spec => []NoSelfWait
  <1>1. IInv => NoSelfWait
    BY TopFrame DEF NoSelfWait, At
  <1> QED
    BY <1>1, AlwaysIInv, PTL

\* Only a waiter whose channel an overlapping Add overwrote needs the timer.
THEOREM WaitersAccounted == Spec => []WaiterAccounted
  <1>1. IInv => WaiterAccounted
    BY TopFrame DEF WaiterAccounted, At, FrameInv
  <1> QED
    BY <1>1, AlwaysIInv, PTL

\* Two lookups of a key overlap only after the queue was raced for that key.
THEOREM SingleFlightUnlessRaced == Spec => []SingleFlight
  <1>1. IInv => SingleFlight
    <2> SUFFICES ASSUME IInv, NEW g \in Goroutines, NEW h \in Goroutines,
                        NEW i \in DOMAIN stack[g], NEW j \in DOMAIN stack[h],
                        stack[g][i].key = stack[h][j].key,
                        stack[g][i].mine # NoChan, stack[h][j].mine # NoChan,
                        stack[g][i].key \notin raced
                 PROVE  g = h /\ i = j
      BY DEF SingleFlight
    <2>1. i \in 1..Len(stack[g]) /\ j \in 1..Len(stack[h])
      BY DEF IInv, TypeOK
    <2>2. stack[g][i].mine = stack[h][j].mine
      BY <2>1 DEF IInv, VisibleInv
    <2>3. FrameInv(g, stack[g][i]) /\ FrameInv(h, stack[h][j])
      BY <2>1 DEF IInv
    <2>4. g = h
      BY <2>2, <2>3 DEF FrameInv
    <2> QED
      BY <2>1, <2>2, <2>4 DEF IInv, UniqueInv
  <1> QED
    BY <1>1, AlwaysIInv, PTL
=============================================================================
