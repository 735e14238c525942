----------------------------- MODULE Validation ------------------------------
(***************************************************************************)
(* DNSSEC validation in Resolver.Resolve, lookupDS and verifyDNSSEC        *)
(* (resolver.go): which lookups for DS and DNSKEY records a question sets  *)
(* off, from within which others, and what they decide.                    *)
(*                                                                         *)
(* The servers are honest: they answer from a tree of zones, the world,    *)
(* that is fixed at the start.  A zone is signed or not, has DS records in *)
(* its parent or not, shares the servers of its parent or has its own, and *)
(* denies by NSEC or by NSEC3.  One goroutine asks; Resolve calls itself,  *)
(* so its state is a stack of calls.  All addresses come as glue, and CD   *)
(* is not set: Resolver has the rest of the walk.                          *)
(***************************************************************************)
EXTENDS NSEC3, Signatures

CONSTANTS Zones,        \* zone names, the root <<>> among them
          Names,        \* the names that exist, the zones among them
          Questions,    \* [name, type] with type A, DS or DNSKEY: the clients'
          Worlds,       \* the trees to be looked at
          NoZone,       \* no signer, no DS records
          MaxDepth      \* Config.Maxdepth

VARIABLES world,    \* the tree
          ncache,   \* Ncache: per zone [known, ds]
          qcache,   \* Qcache and Ecache: per DS or DNSKEY question the outcome
          stack,    \* the running calls of Resolve, the innermost last
          out,      \* the outcome of the last question of a client
          odd,      \* history: the places where an honest reply was rejected, or
                    \* an honest denial warned about
          asks, forgets

vars == <<world, ncache, qcache, stack, out, odd, asks, forgets>>

Root == <<>>

\* A world is a record:
\*   status     per zone "unsigned", "island" (signed, no DS records) or "secure"
\*   together   the zones on the servers of their parent
\*   nsec3      the zones that deny by NSEC3; hash is the hash function
\*   optOut     the zones with no NSEC3 records for unsigned delegations
\*   big        the types whose answers are too large for UDP
\*   sigs       per zone the signatures in its replies
\*   dss        per zone what verifyDS finds with its DS records and its keys
\*   questions, asks, forgets
\*              bounds: what clients may ask, how often, and how many entries of
\*              the caches may expire
ASSUME ValidationAssumption ==
    /\ Root \in Zones /\ Zones \subseteq Names /\ MaxDepth \in Nat \ {0}
    /\ \A n \in Names : \A i \in 0..Len(n) : SubSeq(n, 1, i) \in Names
    /\ \A w \in Worlds :
          /\ w.questions \subseteq Questions
          /\ w.status[Root] = "secure" /\ Root \notin w.together \cup w.nsec3
          /\ w.sigs[Root] = <<Sig("a", "good")>>
          /\ \A z \in Zones : Honest(w.sigs[z]) \/ w.sigs[z] = <<Sig("a", "exponent")>>
          /\ \A z \in Zones : "match" \in {w.dss[z][i] : i \in DOMAIN w.dss[z]}

Deepest(names) == CHOOSE n \in names : \A m \in names : Len(m) <= Len(n)
Highest(names) == CHOOSE n \in names : \A m \in names : Len(m) >= Len(n)

Q(name, type) == [name |-> name, type |-> type]
AllQuestions == Questions \cup {Q(n, t) : n \in Names, t \in {"DS", "DNSKEY"}}

-----------------------------------------------------------------------------
(* The servers, which are not part of the program.                         *)

\* The zones that a name belongs to, from the root down to the one that has the
\* records: for DS records the parent.
Above(q) == {z \in Zones : IsPrefix(z, q.name) /\ (q.type = "DS" => z # q.name \/ z = Root)}

\* The zone whose servers have the zone z.
Server(z) == Deepest({y \in Zones : IsPrefix(y, z) /\ y \notin world.together})

Types(w, zone, name) ==
    IF name = zone THEN {"A", "NS", "SOA"} \cup (IF w.status[zone] = "unsigned" THEN {} ELSE {"DNSKEY"})
    ELSE IF name \in Zones THEN {"NS"} \cup (IF w.status[name] = "secure" THEN {"DS"} ELSE {})
    ELSE {"A"}

\* The names in a zone, its delegations among them.
Data(w, zone) ==
    [n \in {zone} \cup {m \in Names \ {Root} : zone = Deepest(Above(Q(m, "DS")))} |-> Types(w, zone, n)]

\* The world with its NSEC3 records.
WithNSEC3(w) ==
    [w EXCEPT !.nsec3 = [z \in {y \in @ : w.status[y] # "unsigned"} |->
                            Chain(w.hash, z, Data(w, z), z \in w.optOut)]]

NSEC3Of(zone, name) ==
    IF zone \in DOMAIN world.nsec3 THEN Denial(world.hash, world.nsec3[zone], name) ELSE {}

\* The reply of server s: its kind, the zone it is from and the signer, the zone it
\* refers to with its DS records, and the NSEC3 records that deny them, the name or
\* the type.
ReplyOf(s, q) ==
    LET zone == Deepest({z \in Above(q) : Server(z) = s})
        below == {z \in Above(q) : Len(z) > Len(zone)}
        signer == IF world.status[zone] = "unsigned" THEN NoZone ELSE zone
        to == Highest(below)
        kind == IF q.name \notin Names THEN "nxdomain"
                ELSE IF q.type \in Types(world, zone, q.name) THEN "answer" ELSE "nodata"
    IN  IF below # {}
        THEN [kind |-> "referral", signer |-> signer, to |-> to,
              ds |-> IF world.status[to] = "secure" THEN to ELSE NoZone,
              nsec3 |-> IF world.status[to] = "secure" THEN {} ELSE NSEC3Of(zone, to)]
        ELSE [kind |-> kind, signer |-> signer, to |-> Root, ds |-> NoZone,
              nsec3 |-> IF kind = "answer" THEN {} ELSE NSEC3Of(zone, q.name)]

-----------------------------------------------------------------------------
(* The stack of calls.                                                     *)

NoReply == [kind |-> "none", signer |-> NoZone, to |-> Root, ds |-> NoZone, nsec3 |-> {}]
Unknown == [known |-> FALSE, ds |-> NoZone]
Nothing == [q |-> Q(Root, "A"), res |-> "none", ad |-> FALSE]

\* searchCache: the deepest zone in Ncache, or the root servers.
SearchCache(q) ==
    LET known == {z \in Zones \ {Root} : IsPrefix(z, q.name) /\ ncache[z].known}
    IN  IF q.type = "DS" \/ known = {} THEN [srv |-> Root, ds |-> NoZone]
        ELSE [srv |-> Deepest(known), ds |-> ncache[Deepest(known)].ds]

\* Resolve(net, q, rootservers, true, depth, ...): the servers to ask, the DS
\* records of their zone, the reply, the name whose DS records are wanted, and
\* what the last call from within has returned (got, and ad for its AD bit).
Resolve(net, q, depth) ==
    [pc |-> "lookup", q |-> q, net |-> net, depth |-> depth,
     srv |-> SearchCache(q).srv, ds |-> SearchCache(q).ds, reply |-> NoReply,
     cand |-> Root, got |-> "none", ad |-> FALSE]

\* The handler's query, which calls Resolve for a client.
HandlerCall(q) == [Resolve("udp", q, MaxDepth) EXCEPT !.pc = "handler"]

Top == stack[Len(stack)]
At(pc) == stack # <<>> /\ Top.pc = pc
Got(results) == Top.got \in results

Continue(f) == stack' = Append(Front(stack), f)
Call(net, q, depth) ==
    stack' = Append(Front(stack), [Top EXCEPT !.got = "none"]) \o <<Resolve(net, q, depth)>>
Return(res, ad) ==
    stack' = Append(Front(Front(stack)),
                    [stack[Len(stack) - 1] EXCEPT !.got = res, !.ad = ad])
Fail == Return("error", FALSE)

\* A client asks what is not cached.
Ask(q) ==
    /\ stack = <<>> /\ asks < world.asks /\ q \in world.questions
    /\ qcache[q] = "none"
    /\ stack' = <<HandlerCall(q), Resolve("udp", q, MaxDepth)>>
    /\ out' = Nothing
    /\ asks' = asks + 1
    /\ UNCHANGED <<world, ncache, qcache, odd, forgets>>

\* Variant of Reply that does not ask again over TCP.
ReplyTruncated ==
    /\ At("handler") /\ ~Got({"none"})
    /\ stack' = <<>>
    /\ out' = [q |-> Top.q, res |-> Top.got, ad |-> Top.ad]
    /\ qcache' = IF Top.q.type = "A" THEN qcache ELSE [qcache EXCEPT ![Top.q] = Top.got]
    /\ UNCHANGED <<world, ncache, odd, asks, forgets>>

\* Variant of Reply that asks again over UDP.
ReplyOverUDP ==
    /\ At("handler") /\ ~Got({"none"})
    /\ IF Got({"truncated"})
       THEN Call(Top.net, Top.q, MaxDepth) /\ UNCHANGED <<qcache, out>>
       ELSE /\ stack' = <<>>
            /\ out' = [q |-> Top.q, res |-> Top.got, ad |-> Top.ad]
            /\ qcache' = IF Top.q.type = "A" THEN qcache ELSE [qcache EXCEPT ![Top.q] = Top.got]
    /\ UNCHANGED <<world, ncache, odd, asks, forgets>>

\* The handler asks again over TCP, or keeps the outcome in its caches and replies.
Reply ==
    /\ At("handler") /\ ~Got({"none"})
    /\ IF Got({"truncated"})
       THEN Call("tcp", Top.q, MaxDepth) /\ UNCHANGED <<qcache, out>>
       ELSE /\ stack' = <<>>
            /\ out' = [q |-> Top.q, res |-> Top.got, ad |-> Top.ad]
            /\ qcache' = IF Top.q.type = "A" THEN qcache ELSE [qcache EXCEPT ![Top.q] = Top.got]
    /\ UNCHANGED <<world, ncache, odd, asks, forgets>>

-----------------------------------------------------------------------------
(* Resolve up to the DNSSEC checks.                                        *)

\* Resolve goes on with the servers of a zone, unless the depth is used up.
Descend(f, zone, ds) ==
    IF f.depth = 0 THEN Fail
    ELSE Continue([f EXCEPT !.pc = "lookup", !.srv = zone, !.ds = ds, !.depth = @ - 1,
                            !.reply = NoReply, !.got = "none"])

Lookup ==
    /\ At("lookup")
    /\ Continue([Top EXCEPT !.pc = "reply", !.reply = ReplyOf(Top.srv, Top.q)])
    /\ UNCHANGED <<world, ncache, qcache, out, odd, asks, forgets>>

\* What verifyNameError and verifyNODATA have against a denial of the question.
Denied(f) ==
    IF f.reply.nsec3 = {} THEN OK
    ELSE IF f.reply.kind = "nxdomain" /\ (f.ds # NoZone \/ Len(f.q.name) = 1)
    THEN verifyNameError(world.hash, f.q.name, f.reply.nsec3)
    ELSE IF f.reply.kind = "nodata" /\ f.q.type = "DS"
    THEN verifyNODATA(world.hash, f.q.name, "DS", f.reply.nsec3)
    ELSE OK

\* A truncated reply, and a negative one, end the walk; an error of verifyNameError
\* is only logged.  A referral to a zone that is in Ncache is followed as it is,
\* but not to the servers that have just been asked (equalServers).
Receive ==
    /\ At("reply")
    /\ LET r == Top.reply
       IN  CASE r.kind = "answer" /\ Top.net = "udp" /\ Top.q.type \in world.big ->
                  Return("truncated", FALSE)
             [] r.kind = "nodata" /\ Denied(Top) # OK -> Fail
             [] r.kind = "nxdomain" \/ (r.kind = "nodata" /\ Denied(Top) = OK) ->
                  Return("empty", FALSE)
             [] r.kind = "referral" /\ ncache[r.to].known ->
                  IF r.to = Top.srv THEN Fail ELSE Descend(Top, r.to, ncache[r.to].ds)
             [] OTHER -> Continue([Top EXCEPT !.pc = "judge"])
    /\ odd' = IF Denied(Top) # OK THEN odd \cup {Top.reply.kind} ELSE odd
    /\ UNCHANGED <<world, ncache, qcache, out, asks, forgets>>

-----------------------------------------------------------------------------
(* Which DS records the reply is to be verified with.                      *)

\* The name the reply is about: the question's or the delegation's.
Target(f) == IF f.reply.kind = "referral" THEN f.reply.to ELSE f.q.name

\* The DS records are settled: verify with them, or accept without any.
Decide(f) ==
    IF f.ds # NoZone /\ f.reply.signer = NoZone THEN Fail       \* errDSRecords
    ELSE Continue([f EXCEPT !.pc = IF f.ds = NoZone THEN "accept" ELSE "verify",
                            !.got = "none"])

WantDS(f, name) == Continue([f EXCEPT !.pc = "ds", !.cand = name, !.got = "none"])

\* An unsigned reply from below the DS records: one more label of the name at a
\* time, until a name has no DS records.
Climb(f) ==
    IF Len(Target(f)) > Len(f.ds) THEN WantDS(f, SubSeq(Target(f), 1, Len(f.ds) + 1))
    ELSE Decide(f)

\* Variant of ChooseDS that keeps the DS records at hand for any signer.
ChooseDSAtHand(f) ==
    LET signer == f.reply.signer
    IN  IF f.ds = NoZone THEN Decide([f EXCEPT !.ds = IF signer = Root THEN Root ELSE NoZone])
        ELSE IF f.reply.kind = "referral" /\ f.q.type = "DS" THEN Decide(f)
        ELSE IF signer = NoZone THEN Climb(f)
        ELSE Decide(f)

\* The root's own keys; the DS records at hand (always those, for a DS question on
\* its way down); or the DS records of the signer.
ChooseDS(f) ==
    LET signer == f.reply.signer
    IN  IF f.ds = NoZone THEN Decide([f EXCEPT !.ds = IF signer = Root THEN Root ELSE NoZone])
        ELSE IF f.reply.kind = "referral" /\ f.q.type = "DS" THEN Decide(f)
        ELSE IF signer = NoZone THEN Climb(f)
        ELSE IF signer # f.ds THEN WantDS(f, signer)
        ELSE Decide(f)

OnTheWay(f) ==
    f.reply.kind = "referral" /\ f.q.type = "DS" /\ f.ds # NoZone /\ f.reply.signer # f.ds

JudgeReply ==
    /\ At("judge")
    /\ ChooseDS(Top)
    /\ odd' = IF OnTheWay(Top) THEN odd \cup {"walk"} ELSE odd
    /\ UNCHANGED <<world, ncache, qcache, out, asks, forgets>>

\* lookupDS has found DS records or none.
WithDS(f, res) ==
    LET g == [f EXCEPT !.ds = IF res = "full" THEN f.cand ELSE NoZone]
    IN  IF res = "full" /\ f.reply.signer = NoZone THEN Climb(g) ELSE Decide(g)

\* lookupDS: from the caches, or by a Resolve of its own, again over TCP if the
\* reply is truncated.
LookupDS ==
    LET q == Q(Top.cand, "DS")
    IN  /\ At("ds") /\ Got({"none", "truncated"})
        /\ IF Got({"truncated"}) THEN Call("tcp", q, MaxDepth - 1)
           ELSE IF qcache[q] = "none" THEN Call(Top.net, q, MaxDepth - 1)
           ELSE IF qcache[q] = "error" THEN Fail
           ELSE WithDS(Top, qcache[q])
        /\ UNCHANGED <<world, ncache, qcache, out, odd, asks, forgets>>

\* The Resolve of lookupDS has ended: its outcome is cached.
LookupDSEnds ==
    /\ At("ds") /\ Got({"full", "empty", "error"})
    /\ qcache' = [qcache EXCEPT ![Q(Top.cand, "DS")] = Top.got]
    /\ IF Got({"error"}) THEN Fail ELSE WithDS(Top, Top.got)
    /\ UNCHANGED <<world, ncache, out, odd, asks, forgets>>

-----------------------------------------------------------------------------
(* verifyDNSSEC and what follows it.                                       *)

\* Variant of AfterDelegation that keeps the DS records of the parent.
AfterDelegationKeeping(f) == IF f.reply.ds # NoZone THEN f.reply.ds ELSE f.ds

\* The DS records of the zone a verified referral leads to.  An NSEC record in it
\* has the NS bit, so verifyNSEC agrees.
AfterDelegation(f) == f.reply.ds

\* Answer: return it.  Referral: keep its zone in Ncache and go on there.
Accept(f, ad, ds) ==
    IF f.reply.kind = "answer" THEN Return("full", ad) /\ UNCHANGED ncache
    ELSE /\ ncache' = [ncache EXCEPT ![f.reply.to] = [known |-> TRUE, ds |-> ds]]
         /\ Descend(f, f.reply.to, ds)

\* There are no DS records to verify with.
AcceptUnverified ==
    /\ At("accept")
    /\ Accept(Top, FALSE, NoZone)
    /\ UNCHANGED <<world, qcache, out, odd, asks, forgets>>

\* Variant of Verified that takes signatures that cannot be checked for good ones.
VerifiedAnyway(f, ok) ==
    IF f.reply.nsec3 # {} /\ verifyDelegation(world.hash, f.reply.to, f.reply.nsec3) # OK
    THEN Fail /\ UNCHANGED ncache
    ELSE Accept(f, TRUE, AfterDelegation(f))

\* The signatures are good, or cannot be checked; verifyDelegation and verifyNSEC.
Verified(f, ok) ==
    IF f.reply.nsec3 # {} /\ verifyDelegation(world.hash, f.reply.to, f.reply.nsec3) # OK
    THEN Fail /\ UNCHANGED ncache
    ELSE Accept(f, ok, AfterDelegation(f))

\* The keys are at hand: keep them once they have verified the reply.
Check(f) ==
    LET signer == f.reply.signer
        found == IF f.ds = signer THEN world.dss[signer] ELSE <<"absent">>
        res == IF verifyDS(found) THEN verifyRRSIG(world.sigs[signer]) ELSE "error"
    IN  IF res = "error" THEN Fail /\ UNCHANGED <<ncache, qcache>>
        ELSE /\ qcache' = [qcache EXCEPT ![Q(signer, "DNSKEY")] = "full"]
             /\ Verified(f, res = "ok")

\* Variant of VerifyDNSKEY that looks for the keys elsewhere, as for any other reply.
VerifyDNSKEYAgain ==
    /\ At("verify") /\ Top.q.type = "DNSKEY"
    /\ IF Got({"none"}) /\ qcache[Q(Top.reply.signer, "DNSKEY")] = "none"
       THEN Call(Top.net, Q(Top.reply.signer, "DNSKEY"), MaxDepth) /\ UNCHANGED <<ncache, qcache>>
       ELSE Check(Top)
    /\ UNCHANGED <<world, out, odd, asks, forgets>>

\* verifyDNSSEC of the reply to a DNSKEY question: the keys are in the answer, so a
\* referral has none (errNoDNSKEY); the root's are checked by verifyRootKeys.
VerifyDNSKEY ==
    /\ At("verify") /\ Top.q.type = "DNSKEY"
    /\ IF Top.reply.kind = "referral"
       THEN Fail /\ odd' = odd \cup {"keys"} /\ UNCHANGED <<ncache, qcache>>
       ELSE Check(Top) /\ UNCHANGED odd
    /\ UNCHANGED <<world, out, asks, forgets>>

\* verifyDNSSEC of any other reply: the keys come from Qcache or by a Resolve with
\* the full depth, again over TCP if the reply is truncated.
VerifyOther ==
    LET q == Q(Top.reply.signer, "DNSKEY")
    IN  /\ At("verify") /\ Top.q.type # "DNSKEY"
        /\ IF Got({"none"}) /\ qcache[q] \in {"none", "error"}
           THEN Call(Top.net, q, MaxDepth) /\ UNCHANGED <<ncache, qcache>>
           ELSE IF Got({"truncated"})
           THEN Call("tcp", q, MaxDepth) /\ UNCHANGED <<ncache, qcache>>
           ELSE IF Got({"error", "empty"}) THEN Fail /\ UNCHANGED <<ncache, qcache>>
           ELSE Check(Top)
        /\ UNCHANGED <<world, out, odd, asks, forgets>>

-----------------------------------------------------------------------------
Init ==
    /\ world \in {WithNSEC3(w) : w \in Worlds}
    /\ ncache = [z \in Zones |-> Unknown]
    /\ qcache = [q \in AllQuestions |-> "none"]
    /\ stack = <<>> /\ out = Nothing /\ odd = {} /\ asks = 0 /\ forgets = 0

\* An entry of a cache expires.
Forget ==
    /\ forgets < world.forgets
    /\ forgets' = forgets + 1
    /\ \/ \E z \in Zones : /\ ncache[z].known
                           /\ ncache' = [ncache EXCEPT ![z] = Unknown]
                           /\ UNCHANGED qcache
       \/ \E q \in AllQuestions : /\ qcache[q] # "none"
                                  /\ qcache' = [qcache EXCEPT ![q] = "none"]
                                  /\ UNCHANGED ncache
    /\ UNCHANGED <<world, stack, out, odd, asks>>

Step == \/ Reply \/ Lookup \/ Receive \/ JudgeReply \/ LookupDS \/ LookupDSEnds \/ AcceptUnverified
        \/ VerifyDNSKEY \/ VerifyOther

Next == Step \/ Forget \/ (\E q \in Questions : Ask(q))

\* Goroutines are scheduled, and every exchange with a server ends.
Spec == Init /\ [][Next]_vars /\ WF_vars(Step)

-----------------------------------------------------------------------------
(* Properties.                                                             *)

\* Type invariant of the caches and of the calls of Resolve.
TypeOK ==
    /\ ncache \in [Zones -> [known : BOOLEAN, ds : Zones \cup {NoZone}]]
    /\ qcache \in [AllQuestions -> {"none", "full", "empty", "error"}]
    /\ \A i \in DOMAIN stack :
          /\ stack[i].pc \in {"handler", "lookup", "reply", "judge", "ds", "verify", "accept"}
          /\ stack[i].q \in AllQuestions /\ stack[i].depth \in 0..MaxDepth
          /\ stack[i].srv \in Zones /\ stack[i].ds \in Zones \cup {NoZone}
          /\ stack[i].got \in {"none", "truncated", "full", "empty", "error"}
    /\ odd \subseteq {"nxdomain", "nodata", "walk", "keys"}

\* There is a chain of DS records from the root to a zone, and it starts on servers
\* of its own (see ADWhenSecure).
Secure(z) == \A y \in Zones : IsPrefix(y, z) => world.status[y] = "secure"
WithRoot(z) == \E y \in Zones \ {Root} : IsPrefix(y, z) /\ Server(y) = Root

\* Validation never refuses what honest servers say, whatever mixture of signed and
\* unsigned zones, shared servers, opt-out, rollover of keys, truncation and cached
\* or expired entries Resolve meets: a question fails only after one of two known
\* gaps, a DNSKEY question that meets a referral to be verified ("keys") or a DS
\* question that meets a referral by another signer than its DS records ("walk").
HonestAccepted == out.res = "error" => odd \cap {"walk", "keys"} # {}

\* An honest NSEC3 denial, of a name or of DS records, stands up to verifyNameError
\* and verifyNODATA for every order of the hashes.
DenialsStand == odd \cap {"nxdomain", "nodata"} = {}

\* AD is set on every answer from a zone that DS records lead to from the root and
\* whose signatures can be checked, and on none from a zone without DS records.
\* Below a zone on the root's own servers it is never set: the first reply from
\* there has a signer other than the root, and no DS records to go with it.
ADWhenSecure ==
    out.res = "full" =>
        LET zone == Deepest(Above(out.q))
            checked == verifyRRSIG(world.sigs[zone]) = "ok"
        IN  /\ Secure(zone) /\ ~WithRoot(zone) /\ checked => out.ad
            /\ out.ad => world.status[zone] = "secure" /\ ~WithRoot(zone) /\ checked

\* Ncache has DS records for exactly the zones that have a chain of them, however
\* the entry came about: by a client's question, or by a lookup for DS records or
\* keys from within another.
CachedDSIsChain ==
    \A z \in Zones : ncache[z].known => (ncache[z].ds = IF Secure(z) /\ ~WithRoot(z) THEN z ELSE NoZone)

\* No call of Resolve asks, directly or through others, what it is itself asked:
\* with full depth for each nested call, nothing else would end the nesting.
NoSelfNesting ==
    \A i, j \in 2..Len(stack) : i # j => stack[i].q # stack[j].q

\* Every question of a client is replied to.
Replied == stack # <<>> ~> stack = <<>>
=============================================================================
