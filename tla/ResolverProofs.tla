--------------------------- MODULE ResolverProofs ---------------------------
(***************************************************************************)
(* Proofs about Resolver for any zones, nameservers, goroutines, callers   *)
(* and depth: lookup is never given an empty list of servers, and a call   *)
(* of Resolve follows at most MaxDepth referrals.                          *)
(***************************************************************************)
EXTENDS Resolver, TLAPS

\* The phases of a call before its next referral, and after it.
Before == {"search", "lookup", "verify"}
After == {"referred", "glue", "addr", "ds", "final"}

\* What holds of a call between two steps of its goroutine.
GoodCall(c) ==
    /\ c \in Call
    /\ c.pc \in {"search", "lookup"} => c.servers # {}
    /\ c.pc \in {"referred", "glue"} => c.ns # {} /\ c.found \subseteq c.ns
    /\ c.pc \in {"ds", "final"} => c.found # {}
    /\ c.pc \in Before => c.asked + c.depth <= MaxDepth
    /\ c.pc \in After => c.asked + c.depth <= MaxDepth + 1
    /\ c.pc \notin Walking => c.asked = 0

\* What holds of an entry of the cache, temporary or final.
GoodEntry(e) == e = NoEntry \/ (e \in Entry /\ e.servers # {})

Calls == call \in [Goroutines -> Call] /\ \A g \in Goroutines : GoodCall(call[g])
Cache == /\ ncache \in [Zones \X BOOLEAN -> Entry \cup {NoEntry}]
         /\ \A k \in Zones \X BOOLEAN : GoodEntry(ncache[k])

\* The inductive invariant.
IInv == Calls /\ Cache

-----------------------------------------------------------------------------
\* A finished call is a good call.
LEMMA GoodIdle == GoodCall(IdleCall)
  BY ResolverAssumption DEF GoodCall, IdleCall, Call, Walking, Before, After

\* A step that replaces one call by a good call keeps all calls good.
LEMMA BecomeGood ==
  ASSUME Calls, NEW g \in Goroutines, NEW c, GoodCall(c), Become(g, c)
  PROVE  Calls'
  BY DEF Calls, Become, GoodCall

\* A step that stores a nonempty list of servers keeps all entries good.
LEMMA StoreGood ==
  ASSUME Cache, NEW z \in Zones, NEW cd \in BOOLEAN,
         NEW e \in Entry, e.servers # {},
         ncache' = [ncache EXCEPT ![Key(z, cd)] = e]
  PROVE  Cache'
  BY DEF Cache, GoodEntry, Key

\* A return of Resolve keeps all calls good.
LEMMA ReturnGood ==
  ASSUME Calls, NEW g \in Goroutines, Return(g)
  PROVE  Calls'
  BY GoodIdle, BecomeGood DEF Return

\* Following a referral to a nonempty list of servers keeps all calls good: the
\* depth goes down by one for the referral that has been counted.
LEMMA DescendGood ==
  ASSUME Calls, NEW g \in Goroutines, call[g].pc \in After,
         NEW servers \in SUBSET Hosts, servers # {}, NEW ds \in BOOLEAN,
         Descend(g, servers, ds)
  PROVE  Calls'
<1> DEFINE c == call[g]
           d == [c EXCEPT !.pc = "lookup", !.servers = servers, !.ds = ds,
                          !.depth = @ - 1, !.level = Level[c.ref],
                          !.ref = Root, !.ns = {}, !.found = {}]
<1>1. c \in Call /\ c.asked + c.depth <= MaxDepth + 1
  BY DEF Calls, GoodCall
<1>2. CASE c.depth = 0
  BY <1>2, GoodIdle, BecomeGood DEF Descend
<1>3. CASE c.depth # 0
  <2>1. c.depth - 1 \in 0..MaxDepth /\ Level[c.ref] \in Nat
    BY <1>1, <1>3, ResolverAssumption DEF Call
  <2>2. d \in Call /\ d.pc = "lookup" /\ d.servers # {}
        /\ d.asked = c.asked /\ d.depth = c.depth - 1
    BY <1>1, <2>1, ResolverAssumption DEF Call, Walking
  <2>3. GoodCall(d)
    <3> HIDE DEF d
    <3>1. c.asked \in Nat /\ c.depth \in Nat
      BY <1>1, ResolverAssumption DEF Call
    <3>2. d.asked + d.depth <= MaxDepth
      BY <1>1, <1>3, <2>2, <3>1, ResolverAssumption
    <3>. QED BY <2>2, <3>2 DEF GoodCall, Before, After, Walking
  <2>. QED BY <1>3, <2>3, BecomeGood DEF Descend
<1>. QED BY <1>2, <1>3

\* The steps up to the reply keep the invariant.
LEMMA WalkKeeps ==
  ASSUME IInv, NEW g \in Goroutines,
         \/ \E z \in Zones, p \in Callers : Ask(g, z, p)
         \/ SearchCache(g) \/ LookupEnds(g) \/ LookupAnswer(g) \/ VerifyAnswer(g)
  PROVE  IInv'
<1> DEFINE c == call[g]
<1>0. Calls /\ Cache /\ GoodCall(c) /\ c \in Call
  BY DEF IInv, Calls
<1>1. ASSUME NEW z \in Zones, NEW p \in Callers, Ask(g, z, p) PROVE Calls'
  <2> DEFINE pc == IF p.isDS THEN "lookup" ELSE "search"
             ref == IF p.isDS THEN Root ELSE z
             d == [IdleCall EXCEPT !.pc = pc, !.cd = p.cd, !.nsl = p.nsl,
                                   !.depth = p.depth, !.ref = ref,
                                   !.servers = RootHosts]
  <2>1. p.isDS \in BOOLEAN /\ p.cd \in BOOLEAN /\ p.nsl \in BOOLEAN
        /\ p.depth \in 0..MaxDepth
    BY ResolverAssumption
  <2>2. d \in Call /\ d.pc \in {"lookup", "search"} /\ d.servers # {}
        /\ d.asked = 0 /\ d.depth = p.depth
    <3>1. pc \in {"lookup", "search"} /\ ref \in Zones
      BY ResolverAssumption
    <3> HIDE DEF pc, ref
    <3>2. IdleCall \in Call /\ IdleCall.asked = 0
      BY GoodIdle DEF GoodCall, IdleCall
    <3>. QED BY <2>1, <3>1, <3>2, ResolverAssumption DEF Call, Walking
  <2>3. GoodCall(d)
    <3> HIDE DEF d
    <3>1. d.asked + d.depth <= MaxDepth
      BY <2>1, <2>2, ResolverAssumption
    <3>. QED BY <2>2, <3>1 DEF GoodCall, Before, After, Walking
  <2>. QED BY <1>0, <1>1, <2>3, BecomeGood DEF Ask
<1>2. ASSUME SearchCache(g) PROVE Calls'
  <2> DEFINE e == ncache[Key(c.ref, c.cd)]
  <2>1. Key(c.ref, c.cd) \in Zones \X BOOLEAN
    BY <1>0 DEF Key, Call
  <2>2. GoodEntry(e)
    BY <1>0, <2>1 DEF Cache
  <2>3. c.pc = "search" /\ c.servers # {} /\ c.asked + c.depth <= MaxDepth
    BY <1>0, <1>2 DEF SearchCache, At, GoodCall, Before
  <2>4. CASE e # NoEntry
    <3> DEFINE d == [c EXCEPT !.pc = "lookup", !.ref = Root,
                              !.servers = e.servers, !.ds = e.ds]
    <3>1. GoodCall(d)
      BY <1>0, <2>2, <2>3, <2>4, ResolverAssumption
      DEF GoodCall, GoodEntry, Entry, Call, Before, After, Walking
    <3>. QED BY <1>0, <1>2, <2>4, <3>1, BecomeGood DEF SearchCache
  <2>5. CASE e = NoEntry /\ c.ref # Root /\ Parent[c.ref] # Root
    <3> DEFINE d == [c EXCEPT !.ref = Parent[c.ref]]
    <3>1. Parent[c.ref] \in Zones
      BY <1>0, <2>5, ResolverAssumption DEF Call
    <3>2. GoodCall(d)
      BY <1>0, <2>3, <3>1 DEF GoodCall, Call, Before, After, Walking
    <3>. QED BY <1>0, <1>2, <2>5, <3>2, BecomeGood DEF SearchCache
  <2>6. CASE e = NoEntry /\ ~(c.ref # Root /\ Parent[c.ref] # Root)
    <3> DEFINE d == [c EXCEPT !.pc = "lookup", !.ref = Root]
    <3>1. GoodCall(d)
      BY <1>0, <2>3, ResolverAssumption
      DEF GoodCall, Call, Before, After, Walking
    <3>. QED BY <1>0, <1>2, <2>6, <3>1, BecomeGood DEF SearchCache
  <2>. QED BY <2>4, <2>5, <2>6
<1>3. ASSUME LookupAnswer(g) PROVE Calls'
  <2>1. GoodCall([c EXCEPT !.pc = "verify"])
    BY <1>0, <1>3 DEF LookupAnswer, At, GoodCall, Call, Before, After, Walking
  <2>. QED BY <1>0, <1>3, <2>1, BecomeGood DEF LookupAnswer
<1>4. ASSUME LookupEnds(g) \/ VerifyAnswer(g) PROVE Calls'
  BY <1>0, <1>4, ReturnGood DEF LookupEnds, VerifyAnswer
<1>5. UNCHANGED ncache
  BY DEF Ask, SearchCache, LookupEnds, LookupAnswer, VerifyAnswer
<1>. QED BY <1>0, <1>1, <1>2, <1>3, <1>4, <1>5 DEF IInv, Cache

\* The steps from the referral to the addresses keep the invariant.
LEMMA ReferralKeeps ==
  ASSUME IInv, NEW g \in Goroutines,
         \/ \E z \in Zones, ns \in SUBSET Hosts : \E glue \in SUBSET ns :
               ns # {} /\ LookupReferral(g, z, ns, glue)
         \/ Cached(g) \/ GlueAnswers(g) \/ Glue(g)
         \/ \E more \in SUBSET (call[g].ns \ call[g].found) : Addresses(g, more)
  PROVE  IInv'
<1> DEFINE c == call[g]
<1>0. Calls /\ Cache /\ GoodCall(c) /\ c \in Call
  BY DEF IInv, Calls
<1>1. ASSUME NEW z \in Zones, NEW ns \in SUBSET Hosts, NEW glue \in SUBSET ns,
             ns # {}, LookupReferral(g, z, ns, glue)
      PROVE  IInv'
  <2> DEFINE n == IF c.asked < MaxDepth + 2 THEN c.asked + 1 ELSE c.asked
             d == [c EXCEPT !.pc = "referred", !.ref = z, !.ns = ns,
                            !.found = glue \ Local, !.asked = n]
  <2>1. c.pc = "lookup" /\ c.asked + c.depth <= MaxDepth
    BY <1>0, <1>1 DEF LookupReferral, At, GoodCall, Before
  <2>2. c.asked \in Nat /\ c.depth \in Nat
    BY <1>0, ResolverAssumption DEF Call
  <2>3. n = c.asked + 1 /\ n \in 0..(MaxDepth + 2) /\ n + c.depth <= MaxDepth + 1
    BY <2>1, <2>2, ResolverAssumption
  <2> HIDE DEF n
  <2>4. d \in Call /\ d.pc = "referred" /\ d.ns = ns /\ d.found \subseteq ns
        /\ d.asked = n /\ d.depth = c.depth
    BY <1>0, <2>3 DEF Call, Walking
  <2>5. GoodCall(d)
    <3> HIDE DEF d
    <3>. QED BY <1>1, <2>3, <2>4 DEF GoodCall, Before, After, Walking
  <2>6. Return(g) \/ Become(g, d)
    BY <1>1 DEF LookupReferral, n
  <2>7. Calls'
    BY <1>0, <2>5, <2>6, ReturnGood, BecomeGood
  <2>. QED BY <1>0, <1>1, <2>7 DEF IInv, Cache, LookupReferral
<1>2. ASSUME Cached(g) PROVE IInv'
  <2> DEFINE e == ncache[Key(c.ref, c.cd)]
             d == [c EXCEPT !.pc = "glue", !.servers = {}, !.level = 0]
  <2>1. Key(c.ref, c.cd) \in Zones \X BOOLEAN
    BY <1>0 DEF Key, Call
  <2>2. GoodEntry(e)
    BY <1>0, <2>1 DEF Cache
  <2>3. c.pc = "referred" /\ c.pc \in After
    BY <1>2 DEF Cached, At, After
  <2>4. GoodCall(d)
    BY <1>0, <2>3 DEF GoodCall, Call, Before, After, Walking
  <2>5. CASE e = NoEntry
    BY <1>0, <1>2, <2>4, <2>5, BecomeGood DEF Cached, IInv, Cache
  <2>6. CASE e # NoEntry
    <3>1. e \in Entry /\ e.servers # {}
      BY <2>2, <2>6 DEF GoodEntry
    <3>2. e.servers \in SUBSET Hosts /\ e.ds \in BOOLEAN
      BY <3>1 DEF Entry
    <3>3. Return(g) \/ Descend(g, e.servers, e.ds)
      BY <1>2, <2>6 DEF Cached
    <3>4. Calls'
      BY <1>0, <2>3, <3>1, <3>2, <3>3, ReturnGood, DescendGood
    <3>. QED BY <1>0, <1>2, <3>4 DEF IInv, Cache, Cached
  <2>. QED BY <2>5, <2>6
<1>3. ASSUME GlueAnswers(g) PROVE IInv'
  BY <1>0, <1>3, ReturnGood DEF GlueAnswers, IInv, Cache
<1>4. ASSUME Glue(g) PROVE IInv'
  <2> DEFINE pc == IF c.found = c.ns THEN "ds" ELSE "addr"
             e == [servers |-> c.found, ds |-> FALSE]
  <2>1. c.pc = "glue" /\ c.ns # {} /\ c.found \subseteq c.ns
    BY <1>0, <1>4 DEF Glue, At, GoodCall
  <2>2. pc \in {"ds", "addr"} /\ (pc = "ds" => c.found # {})
    BY <2>1
  <2>3. GoodCall([c EXCEPT !.pc = pc])
    <3> HIDE DEF pc
    <3>. QED BY <1>0, <2>1, <2>2 DEF GoodCall, Call, Before, After, Walking
  <2>4. Calls'
    BY <1>0, <1>4, <2>3, BecomeGood DEF Glue
  <2>5. e \in Entry /\ c.ref \in Zones /\ c.cd \in BOOLEAN
    BY <1>0 DEF Entry, Call
  <2>6. CASE c.found # c.ns /\ c.found # {}
    <3>1. ncache' = [ncache EXCEPT ![Key(c.ref, c.cd)] = e]
      BY <1>4, <2>6 DEF Glue
    <3>2. e.servers # {}
      BY <2>6
    <3> HIDE DEF e
    <3>. QED BY <1>0, <2>4, <2>5, <3>1, <3>2, StoreGood DEF IInv
  <2>7. CASE ~(c.found # c.ns /\ c.found # {})
    BY <1>0, <1>4, <2>4, <2>7 DEF Glue, IInv, Cache
  <2>. QED BY <2>6, <2>7
<1>5. ASSUME NEW more \in SUBSET (c.ns \ c.found), Addresses(g, more) PROVE IInv'
  <2> DEFINE found == c.found \cup (more \ Local)
             d == [c EXCEPT !.pc = "ds", !.ns = {}, !.found = found]
  <2>1. found \in SUBSET Hosts /\ c.pc = "addr"
    BY <1>0, <1>5 DEF Call, Addresses, At
  <2>2. CASE found = {}
    BY <1>0, <1>5, <2>2, GoodIdle, BecomeGood DEF Addresses, IInv, Cache
  <2>3. CASE found # {}
    <3>1. GoodCall(d)
      <4> HIDE DEF found
      <4>. QED BY <1>0, <2>1, <2>3 DEF GoodCall, Call, Before, After, Walking
    <3>. QED BY <1>0, <1>5, <2>3, <3>1, BecomeGood DEF Addresses, IInv, Cache
  <2>. QED BY <2>2, <2>3
<1>. QED BY <1>1, <1>2, <1>3, <1>4, <1>5

\* The check of the delegation, the final entry and the expiry of entries keep
\* the invariant.
LEMMA DelegationKeeps ==
  ASSUME IInv, NEW g \in Goroutines,
         \/ \E ds \in BOOLEAN : DelegationVerified(g, ds)
         \/ DelegationFails(g) \/ DelegationPanics(g) \/ Final(g)
  PROVE  IInv'
<1> DEFINE c == call[g]
<1>0. Calls /\ Cache /\ GoodCall(c) /\ c \in Call
  BY DEF IInv, Calls
<1>1. ASSUME NEW ds \in BOOLEAN, DelegationVerified(g, ds) PROVE IInv'
  <2>1. GoodCall([c EXCEPT !.pc = "final", !.ds = ds])
    BY <1>0, <1>1 DEF DelegationVerified, At, GoodCall, Call, Before, After, Walking
  <2>. QED BY <1>0, <1>1, <2>1, BecomeGood DEF DelegationVerified, IInv, Cache
<1>2. ASSUME DelegationFails(g) PROVE IInv'
  BY <1>0, <1>2, ReturnGood DEF DelegationFails, IInv, Cache
<1>3. ASSUME DelegationPanics(g) PROVE IInv'
  <2>1. GoodCall([IdleCall EXCEPT !.pc = "panicked"])
    BY GoodIdle DEF IdleCall, GoodCall, Call, Before, After, Walking
  <2>. QED BY <1>0, <1>3, <2>1, BecomeGood DEF DelegationPanics, IInv, Cache
<1>4. ASSUME Final(g) PROVE IInv'
  <2> DEFINE e == [servers |-> c.found, ds |-> c.ds]
  <2>1. c.pc \in After /\ c.found # {} /\ c.found \in SUBSET Hosts
        /\ c.ds \in BOOLEAN /\ c.ref \in Zones /\ c.cd \in BOOLEAN
    BY <1>0, <1>4 DEF Final, At, After, GoodCall, Call
  <2>2. e \in Entry /\ e.servers # {}
    BY <2>1 DEF Entry
  <2>3. ncache' = [ncache EXCEPT ![Key(c.ref, c.cd)] = e] /\ Descend(g, c.found, c.ds)
    BY <1>4 DEF Final
  <2>4. Calls'
    BY <1>0, <2>1, <2>3, DescendGood
  <2> HIDE DEF e
  <2>5. Cache'
    BY <1>0, <2>1, <2>2, <2>3, StoreGood
  <2>. QED BY <2>4, <2>5 DEF IInv
<1>. QED BY <1>1, <1>2, <1>3, <1>4

\* The initial state satisfies the invariant.
LEMMA InitInv == Init => IInv
  BY GoodIdle DEF Init, IInv, Calls, Cache, GoodEntry, GoodCall

\* Every step keeps the invariant.
LEMMA NextInv == IInv /\ [Next]_vars => IInv'
<1> SUFFICES ASSUME IInv, [Next]_vars PROVE IInv'
  OBVIOUS
<1>1. ASSUME NEW k \in Zones \X BOOLEAN, Forget(k) PROVE IInv'
  BY <1>1 DEF Forget, IInv, Calls, Cache, GoodEntry
<1>2. CASE UNCHANGED vars
  BY <1>2 DEF vars, IInv, Calls, Cache
<1>. QED
  BY <1>1, <1>2, WalkKeeps, ReferralKeeps, DelegationKeeps DEF Next, Step

\* The inductive invariant holds in every reachable state.
LEMMA AlwaysIInv == Spec => []IInv
  BY InitInv, NextInv, PTL DEF Spec

\* The calls of Resolve and the entries of the nameserver cache have their types
\* at all times; in particular the depth of a call never becomes negative.
THEOREM TypeCorrect == Spec => []TypeOK
<1>1. IInv => TypeOK
  BY DEF IInv, Calls, Cache, TypeOK
<1>. QED BY <1>1, AlwaysIInv, PTL

\* lookup is never called with an empty list of servers, for which it panics,
\* whatever mixture of glue, looked-up addresses and cached entries of other
\* goroutines Resolve takes the list from.
THEOREM LookupNeverPanics == Spec => []LookupHasServers
<1>1. IInv => LookupHasServers
  BY DEF IInv, Calls, GoodCall, LookupHasServers, At
<1>. QED BY <1>1, AlwaysIInv, PTL

\* A call of Resolve follows at most MaxDepth referrals, for every MaxDepth and
\* whatever servers answer.
THEOREM DepthIsBounded == Spec => []DepthBound
<1>1. IInv => DepthBound
  <2> SUFFICES ASSUME IInv, NEW g \in Goroutines
               PROVE  call[g].asked <= MaxDepth + 1
    BY DEF DepthBound
  <2> DEFINE c == call[g]
  <2>1. GoodCall(c) /\ c \in Call
    BY DEF IInv, Calls
  <2>2. c.asked \in Nat /\ c.depth \in Nat
    BY <2>1, ResolverAssumption DEF Call
  <2>3. c.asked + c.depth <= MaxDepth + 1 \/ c.asked = 0
    BY <2>1, <2>2, ResolverAssumption DEF GoodCall, Before, After, Walking
  <2>. QED BY <2>2, <2>3, ResolverAssumption
<1>. QED BY <1>1, AlwaysIInv, PTL
=============================================================================
