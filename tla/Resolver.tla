------------------------------ MODULE Resolver ------------------------------
(***************************************************************************)
(* Resolver.Resolve (resolver.go): the walk down the delegations from the  *)
(* deepest cached nameservers to an answer, by goroutines that share the   *)
(* nameserver cache Ncache.                                                *)
(*                                                                         *)
(* A reply of a server is any reply: an error, an answer, a referral to    *)
(* any zone with any nameservers and any part of their addresses, signed   *)
(* by anyone, so that a DNSSEC check has any outcome.  A nameserver stands *)
(* for its name and its address.                                           *)
(*                                                                         *)
(* lookupNSAddr, lookupDS and verifyDNSSEC call Resolve again.  Of such a  *)
(* call the caller sees the result and what it left in Ncache, so it is    *)
(* represented by the calls of the other goroutines, which take their      *)
(* steps while the caller is at "addr", "ds" or "verify".                  *)
(***************************************************************************)
EXTENDS Integers, FiniteSets

CONSTANTS Goroutines,
          Zones,        \* zone names, Root among them
          Root,         \* rootzone
          Parent,       \* upperName of each zone but the root
          Level,        \* how many labels the name of a zone has
          Hosts,        \* nameservers
          Local,        \* the nameservers that are this machine (isLocalIP)
          RootHosts,    \* rootservers.List
          NoEntry,      \* no entry in Ncache
          MaxDepth,     \* Config.Maxdepth, 30 by default
          Callers       \* the parameters with which Resolve is called

ASSUME ResolverAssumption ==
    /\ Root \in Zones
    /\ Parent \in [Zones \ {Root} -> Zones]
    /\ Level \in [Zones -> Nat]
    /\ RootHosts \subseteq Hosts /\ RootHosts # {}
    /\ MaxDepth \in Nat
    /\ Callers \subseteq [isDS : BOOLEAN,   \* the question is for DS records
                          cd : BOOLEAN,     \* req.CheckingDisabled
                          nsl : BOOLEAN,    \* a nameserver address is wanted
                          depth : 0..MaxDepth]

Entry == [servers : SUBSET Hosts, ds : BOOLEAN]

ASSUME NoEntryAssumption == NoEntry \notin Entry

Walking == {"search", "lookup", "referred", "glue", "addr", "ds", "final",
            "verify"}

\* A call of Resolve: its parameters and what it has learnt so far.
Call == [pc : Walking \cup {"idle", "panicked"},
         cd : BOOLEAN,
         nsl : BOOLEAN,
         servers : SUBSET Hosts,    \* the servers to ask
         ds : BOOLEAN,              \* parentdsrr is not empty
         depth : 0..MaxDepth,
         level : Nat,
         ref : Zones,               \* the zone of the referral
         ns : SUBSET Hosts,         \* nsmap: its nameservers
         found : SUBSET Hosts,      \* nservers: those with a usable address
         asked : 0..(MaxDepth + 2)] \* history: the referrals it was given,
                                    \* counted up to one too many

VARIABLES call,      \* the running call of each goroutine
          ncache     \* Ncache: per zone and CD bit an entry, or NoEntry

vars == <<call, ncache>>

IdleCall == [pc |-> "idle", cd |-> FALSE, nsl |-> FALSE, servers |-> {},
             ds |-> FALSE, depth |-> 0, level |-> 0, ref |-> Root, ns |-> {},
             found |-> {}, asked |-> 0]

At(g, pc) == call[g].pc = pc
Become(g, c) == call' = [call EXCEPT ![g] = c]
Return(g) == Become(g, IdleCall)

\* cache.Hash of the NS question for a zone and the CD bit.
Key(z, cd) == <<z, cd>>

-----------------------------------------------------------------------------
(* Resolve up to the reply.                                                *)

\* Resolve(..., rootservers, true, ...): a DS question starts at the root, any
\* other at the deepest zone that searchCache finds.
Ask(g, z, p) ==
    /\ At(g, "idle")
    /\ Become(g, [IdleCall EXCEPT !.pc = IF p.isDS THEN "lookup" ELSE "search",
                                  !.cd = p.cd, !.nsl = p.nsl, !.depth = p.depth,
                                  !.ref = IF p.isDS THEN Root ELSE z,
                                  !.servers = RootHosts])
    /\ UNCHANGED ncache

\* searchCache: one Ncache.Get per name, from the question upwards (ref is the
\* name), and the root servers at the end.
SearchCache(g) ==
    /\ At(g, "search")
    /\ LET c == call[g]
           e == ncache[Key(c.ref, c.cd)]
       IN  Become(g, IF e # NoEntry
                     THEN [c EXCEPT !.pc = "lookup", !.ref = Root,
                                    !.servers = e.servers, !.ds = e.ds]
                     ELSE IF c.ref # Root /\ Parent[c.ref] # Root
                     THEN [c EXCEPT !.ref = Parent[c.ref]]
                     ELSE [c EXCEPT !.pc = "lookup", !.ref = Root])
    /\ UNCHANGED ncache

\* lookup failed, or the reply ends the walk: it is truncated, has an error
\* code, has neither answer nor nameservers, or answers a CD question.
LookupEnds(g) ==
    /\ At(g, "lookup")
    /\ Return(g)
    /\ UNCHANGED ncache

\* The reply has an answer, to be verified unless CD is set.
LookupAnswer(g) ==
    /\ At(g, "lookup") /\ ~call[g].cd
    /\ Become(g, [call[g] EXCEPT !.pc = "verify"])
    /\ UNCHANGED ncache

\* The DS lookups and verifyDNSSEC end, with the answer or an error.
VerifyAnswer(g) ==
    /\ At(g, "verify")
    /\ Return(g)
    /\ UNCHANGED ncache

-----------------------------------------------------------------------------
(* Resolve after a referral.                                               *)

\* The reply refers to the nameservers ns of z and gives the addresses of glue.
\* A referral up the tree or to the root ends the walk with an error.
LookupReferral(g, z, ns, glue) ==
    /\ At(g, "lookup")
    /\ IF call[g].level > Level[z] \/ z = Root
       THEN Return(g)
       ELSE Become(g, [call[g] EXCEPT !.pc = "referred", !.ref = z, !.ns = ns,
                                      !.found = glue \ Local,
                                      !.asked = IF @ < MaxDepth + 2
                                                THEN @ + 1 ELSE @])
    /\ UNCHANGED ncache

\* Variant of Descend that goes on with the same depth.
DescendSameDepth(g, servers, ds) ==
    LET c == call[g]
    IN  Become(g, IF c.depth = 0
                  THEN IdleCall
                  ELSE [c EXCEPT !.pc = "lookup", !.servers = servers, !.ds = ds,
                                 !.level = Level[c.ref],
                                 !.ref = Root, !.ns = {}, !.found = {}])

\* Variant of Descend that does not look at the depth.
DescendUnchecked(g, servers, ds) ==
    LET c == call[g]
    IN  Become(g, [c EXCEPT !.pc = "lookup", !.servers = servers, !.ds = ds,
                            !.depth = @ - 1, !.level = Level[c.ref],
                            !.ref = Root, !.ns = {}, !.found = {}])

\* Resolve calls itself with one less depth, or fails with errMaxDepth.
Descend(g, servers, ds) ==
    LET c == call[g]
    IN  Become(g, IF c.depth = 0
                  THEN IdleCall
                  ELSE [c EXCEPT !.pc = "lookup", !.servers = servers, !.ds = ds,
                                 !.depth = @ - 1, !.level = Level[c.ref],
                                 !.ref = Root, !.ns = {}, !.found = {}])

\* equalServers: the same hosts in any order.
EqualServers(s1, s2) == s1 = s2

\* Ncache.Get of the referral.  A hit is followed, unless its servers are those
\* that have just been asked (errLoopDetection).
Cached(g) ==
    /\ At(g, "referred")
    /\ LET c == call[g]
           e == ncache[Key(c.ref, c.cd)]
       IN  IF e = NoEntry
           THEN Become(g, [c EXCEPT !.pc = "glue", !.servers = {}, !.level = 0])
           ELSE IF EqualServers(e.servers, c.servers)
           THEN Return(g)
           ELSE Descend(g, e.servers, e.ds)
    /\ UNCHANGED ncache

\* The glue has the nameserver address that the caller wants.
GlueAnswers(g) ==
    /\ At(g, "glue") /\ call[g].nsl
    /\ Return(g)
    /\ UNCHANGED ncache

\* Variant of Glue that caches the addresses at hand even if there are none.
GlueStoresAny(g) ==
    /\ At(g, "glue")
    /\ LET c == call[g]
       IN  /\ Become(g, [c EXCEPT !.pc = IF c.found = c.ns THEN "ds" ELSE "addr"])
           /\ ncache' = IF c.found # c.ns
                        THEN [ncache EXCEPT ![Key(c.ref, c.cd)] =
                            [servers |-> c.found, ds |-> FALSE]]
                        ELSE ncache

\* Addresses are missing: those at hand are cached for the time being, with no
\* DS record, and the missing ones are looked up.
Glue(g) ==
    /\ At(g, "glue")
    /\ LET c == call[g]
       IN  /\ Become(g, [c EXCEPT !.pc = IF c.found = c.ns THEN "ds" ELSE "addr"])
           /\ ncache' = IF c.found # c.ns /\ c.found # {}
                        THEN [ncache EXCEPT ![Key(c.ref, c.cd)] =
                            [servers |-> c.found, ds |-> FALSE]]
                        ELSE ncache

\* Variant of Addresses that does not check that there is a server.
AddressesUnchecked(g, more) ==
    /\ At(g, "addr")
    /\ Become(g, [call[g] EXCEPT !.pc = "ds", !.ns = {},
                                 !.found = @ \cup (more \ Local)])
    /\ UNCHANGED ncache

\* lookupNSAddr has found the addresses of more; without any the walk ends.
Addresses(g, more) ==
    /\ At(g, "addr")
    /\ LET found == call[g].found \cup (more \ Local)
       IN  Become(g, IF found = {}
                     THEN IdleCall
                     ELSE [call[g] EXCEPT !.pc = "ds", !.ns = {}, !.found = found])
    /\ UNCHANGED ncache

\* Unless CD is set the delegation is verified with the DS records of its parent
\* or the root keys, which leaves DS records for the zone or none.
DelegationVerified(g, ds) ==
    /\ At(g, "ds")
    /\ call[g].cd => ds = call[g].ds
    /\ Become(g, [call[g] EXCEPT !.pc = "final", !.ds = ds])
    /\ UNCHANGED ncache

\* A DS lookup, a signature or an NSEC3 denial fails.
DelegationFails(g) ==
    /\ At(g, "ds") /\ ~call[g].cd
    /\ Return(g)
    /\ UNCHANGED ncache

\* verifyNSEC fails: the warning calls Error() on the err of verifyDNSSEC, which
\* is nil here.  The panic ends the process; for a query over HTTPS net/http
\* recovers, and then it is like DelegationFails.
DelegationPanics(g) ==
    /\ At(g, "ds") /\ ~call[g].cd
    /\ Become(g, [IdleCall EXCEPT !.pc = "panicked"])
    /\ UNCHANGED ncache

\* The final entry is cached, also when no depth is left to follow it.
Final(g) ==
    /\ At(g, "final")
    /\ LET c == call[g]
       IN  /\ ncache' = [ncache EXCEPT ![Key(c.ref, c.cd)] =
                 [servers |-> c.found, ds |-> c.ds]]
           /\ Descend(g, c.found, c.ds)

\* An entry expires.
Forget(k) ==
    /\ ncache[k] # NoEntry
    /\ ncache' = [ncache EXCEPT ![k] = NoEntry]
    /\ UNCHANGED call

-----------------------------------------------------------------------------
Init ==
    /\ call = [g \in Goroutines |-> IdleCall]
    /\ ncache = [k \in Zones \X BOOLEAN |-> NoEntry]

Step(g) ==
    \/ SearchCache(g) \/ LookupEnds(g) \/ LookupAnswer(g) \/ VerifyAnswer(g)
    \/ \E z \in Zones, ns \in SUBSET Hosts : \E glue \in SUBSET ns :
          ns # {} /\ LookupReferral(g, z, ns, glue)
    \/ Cached(g) \/ GlueAnswers(g) \/ Glue(g)
    \/ \E more \in SUBSET (call[g].ns \ call[g].found) : Addresses(g, more)
    \/ \E ds \in BOOLEAN : DelegationVerified(g, ds)
    \/ DelegationFails(g) \/ DelegationPanics(g) \/ Final(g)

Running == \A g \in Goroutines : ~At(g, "panicked")

Next ==
    /\ Running
    /\ \/ \E g \in Goroutines :
             \/ \E z \in Zones, p \in Callers : Ask(g, z, p)
             \/ Step(g)
       \/ \E k \in Zones \X BOOLEAN : Forget(k)

Spec == Init /\ [][Next]_vars

\* A running call goes on: goroutines are scheduled, and every exchange with a
\* server ends with a reply or a timeout.
FairSpec == Spec /\ \A g \in Goroutines : WF_vars(Running /\ Step(g))

-----------------------------------------------------------------------------
(* Properties.                                                             *)

\* Type invariant of the calls of Resolve and of the nameserver cache.
TypeOK ==
    /\ call \in [Goroutines -> Call]
    /\ ncache \in [Zones \X BOOLEAN -> Entry \cup {NoEntry}]

\* Resolve never hands lookup an empty list of servers, on which lookup panics
\* ("looks like no root servers"): neither from its own referral nor from an
\* entry, temporary or final, that another call has left in the cache.
LookupHasServers ==
    \A g \in Goroutines : At(g, "lookup") => call[g].servers # {}

\* maxdepth is the "Maximum recursion depth for nameservers": one call of
\* Resolve follows at most MaxDepth referrals, cached or not, and fails at the
\* next, so it is given at most MaxDepth + 1.
DepthBound ==
    \A g \in Goroutines : call[g].asked <= MaxDepth + 1

\* Every call of Resolve returns or takes the process with it, whatever the
\* servers refer it to and the other goroutines put into the cache.
ResolveReturns ==
    \A g \in Goroutines :
        call[g].pc \in Walking ~> (At(g, "idle") \/ ~Running)

\* "NSEC verify failed" is an error that Resolve returns: no step of Resolve
\* panics.
NeverPanics == Running
=============================================================================
