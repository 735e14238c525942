-------------------------------- MODULE Query --------------------------------
(***************************************************************************)
(* DNSHandler.query as a client sees it (handler.go, doh.go): which reply  *)
(* it gets, with which OPT record and with which records, while the block  *)
(* list of module BlockList is being loaded and changed.  Module Handler   *)
(* has the lookup queue, the error cache and the chase of aliases; here a  *)
(* lookup that fails for any reason is one step.  The clock is in seconds. *)
(***************************************************************************)
EXTENDS BlockList

CONSTANTS Clients,     \* goroutines that run a query
          Requests,    \* [name, type, via, opt]: the questions and how they come
          Signed,      \* the names whose zone is signed
          Targets,     \* the questions other lookups ask too, <<name, type>>
          TTL,         \* the TTL of the records of an answer
          Expire,      \* Config.Expire, the TTL of a null route
          RateLimit    \* Config.RateLimit > 0

ASSUME QueryAssumption ==
    /\ \A r \in Requests :
          /\ r.name \in Names /\ r.type \in {"A", "TXT"}
          /\ r.via \in {"udp", "tcp", "wire", "json"}
          /\ r.opt \in {"none", "plain", "do"} /\ (r.via = "json" => r.opt # "none")
    /\ Signed \subseteq Names /\ Targets \subseteq Names \X {"A", "TXT"}
    /\ TTL \in Nat /\ Expire \in Nat /\ RateLimit \in BOOLEAN
    /\ \A b \in Budgets : b.requests \subseteq Requests

VARIABLES clock,     \* WallClock.Now(), in seconds
          qcache,    \* Qcache: per <<name, type>> an entry or NoEntry
          cl,        \* per client: its call of query, or NoCall
          reply,     \* per client: the reply to its last request
          offAt,     \* history: per asked name the last second it was off the list
          onAt,      \* history: per asked name the last second it was on it, or -1
          formerr    \* history: the names some server answered FORMERR for

vars == <<listVars, clock, qcache, cl, reply, offAt, onAt, formerr>>

NoEntry == [kind |-> "none"]
NoCall == [pc |-> "idle"]
NoReply == [kind |-> "none", name |-> Junk, opt |-> "none", sec |-> FALSE, asked |-> FALSE]

Asked == {r.name : r \in Requests}
Questions == {<<r.name, r.type>> : r \in Requests} \cup Targets

Init ==
    /\ ListInit
    /\ clock = 0
    /\ qcache = [q \in Questions |-> NoEntry]
    /\ cl = [c \in Clients |-> NoCall]
    /\ reply = [c \in Clients |-> NoReply]
    /\ offAt = [n \in Asked |-> 0] /\ onAt = [n \in Asked |-> -1]
    /\ formerr = {}

-----------------------------------------------------------------------------
(* Messages.                                                               *)

\* A message made for question q: null routed or real, with or without DNSSEC
\* records, the TTL, and (history) when the block list was looked at, and whether
\* it was stored by another lookup that never looks at it.
Message(kind, sec, ttl, checked, side) ==
    [kind |-> kind, sec |-> sec, ttl |-> ttl, checked |-> checked,
     side |-> side, stored |-> clock]

\* opt.SetDo(dsReq)
SetDo(ds) == IF ds THEN "do" ELSE "plain"

\* The reply to request r with the OPT record opt; as JSON, doh.NewMsg leaves the
\* additional section out.
Reply(r, kind, sec, opt) ==
    [kind |-> kind, name |-> r.name, sec |-> sec, asked |-> r.opt = "do",
     opt |-> IF r.via = "json" THEN "none" ELSE opt]

Give(c, kind, sec, opt) ==
    /\ reply' = [reply EXCEPT ![c] = Reply(cl[c].req, kind, sec, opt)]
    /\ cl' = [cl EXCEPT ![c] = NoCall]

\* The end of query: clearDNSSEC unless the client asked for the records, clearOPT,
\* and its own OPT record with the DO bit it had.
Finish(c, m) == Give(c, m.kind, m.sec /\ cl[c].ds, SetDo(cl[c].ds))

\* handleFailed: the additional section of the request, the DO bit as it was.
HandleFailed(c, kind) ==
    Give(c, kind, FALSE, IF cl[c].edns THEN SetDo(cl[c].ds) ELSE "none")

Key(c) == <<cl[c].req.name, cl[c].req.type>>

At(c, pc) == cl[c].pc = pc

-----------------------------------------------------------------------------
(* Steps of a query.                                                       *)

\* The transport that handle, handleWireFormat and handleJSON name to query.
Proto(r) == IF r.via \in {"wire", "json"} THEN "https" ELSE r.via

\* query begins: its OPT record asks the servers for DNSSEC records in any case, and
\* ds keeps what the client has asked.
Opened(r) ==
    [pc |-> "cache", req |-> r, checked |-> 0, edns |-> TRUE, ds |-> r.opt = "do",
     net |-> Proto(r)]

\* The request of a client the access list admits: handle, or ServeHTTP with
\* handleWireFormat or handleJSON, whose message always has an OPT record.
Ask(c, r) ==
    /\ At(c, "idle") /\ proc = "up" /\ Spend("ask")
    /\ cl' = [cl EXCEPT ![c] = Opened(r)]
    /\ reply' = [reply EXCEPT ![c] = NoReply]
    /\ UNCHANGED <<proc, disk, list, walk, told, broken, clock, qcache, formerr>>

\* A client that is not admitted, or a request that is malformed: dropped over
\* UDP and TCP, an error status over HTTPS.
Refuse(c, r) ==
    /\ At(c, "idle") /\ proc = "up" /\ Spend("ask")
    /\ reply' = [reply EXCEPT ![c] =
          [NoReply EXCEPT !.kind = IF Proto(r) = "https" THEN "status" ELSE "dropped"]]
    /\ UNCHANGED <<proc, disk, list, walk, told, broken, clock, qcache, cl, formerr>>

\* query rejects the question: ANY, no RD bit, or the version of EDNS, before it
\* has looked at the DO bit.
Reject(c, r) ==
    /\ At(c, "idle") /\ proc = "up" /\ Spend("ask")
    /\ \E ds \in {FALSE, r.opt = "do"} :
          reply' = [reply EXCEPT ![c] = Reply(r, "failed", FALSE, SetDo(ds))]
    /\ UNCHANGED <<proc, disk, list, walk, told, broken, clock, qcache, cl, formerr>>

\* The error cache has the question, or Resolve fails.
Fail(c) ==
    /\ cl[c].pc \in {"list", "resolve"}
    /\ HandleFailed(c, "failed")
    /\ UNCHANGED <<listVars, clock, qcache, formerr>>

Fresh(m) == m # NoEntry /\ clock - m.stored <= m.ttl

\* Qcache.Get finds the message, and the rate limit lets it pass or not.
CacheHit(c) ==
    /\ At(c, "cache") /\ Fresh(qcache[Key(c)])
    /\ \/ Finish(c, qcache[Key(c)])
       \/ RateLimit /\ HandleFailed(c, "failed")
    /\ UNCHANGED <<listVars, clock, qcache, formerr>>

\* Qcache.Get finds nothing, or an expired message, which it removes.
CacheMiss(c) ==
    /\ At(c, "cache") /\ ~Fresh(qcache[Key(c)])
    /\ qcache' = [qcache EXCEPT ![Key(c)] = NoEntry]
    /\ cl' = [cl EXCEPT ![c].pc = "list"]
    /\ UNCHANGED <<listVars, clock, reply, formerr>>

InBlockList(q) == q[2] = "A" /\ q[1] \in list

\* The name is on the list: the null route, stored and given without OPT.
NullRoute(c) ==
    /\ At(c, "list") /\ InBlockList(Key(c))
    /\ qcache' = [qcache EXCEPT ![Key(c)] = Message("null", FALSE, Expire, clock, FALSE)]
    /\ Give(c, "null", FALSE, "none")
    /\ UNCHANGED <<listVars, clock, formerr>>

\* Variant of PassList that lets every name pass.
PassListAlways(c) ==
    /\ At(c, "list")
    /\ cl' = [cl EXCEPT ![c].pc = "resolve", ![c].checked = clock]
    /\ UNCHANGED <<listVars, clock, qcache, reply, formerr>>

\* The name is not on the list: Resolve.
PassList(c) ==
    /\ At(c, "list") /\ ~InBlockList(Key(c))
    /\ cl' = [cl EXCEPT ![c].pc = "resolve", ![c].checked = clock]
    /\ UNCHANGED <<listVars, clock, qcache, reply, formerr>>

\* exchange meets FORMERR and takes the OPT record out of the request itself.
FormErr(c) ==
    /\ At(c, "resolve") /\ cl[c].edns
    /\ cl' = [cl EXCEPT ![c].edns = FALSE]
    /\ formerr' = formerr \cup {cl[c].req.name}
    /\ UNCHANGED <<listVars, clock, qcache, reply>>

\* Resolve returns a truncated message over UDP: the client gets it as it is.
Truncated(c) ==
    /\ At(c, "resolve") /\ cl[c].net = "udp"
    /\ Give(c, "truncated", cl[c].edns, IF cl[c].edns THEN "do" ELSE "none")
    /\ UNCHANGED <<listVars, clock, qcache, formerr>>

\* Variant of RetryOverTCP that does not put the DO bit back.
RetryOverTCPWithDO(c) ==
    /\ At(c, "resolve") /\ cl[c].net = "https"
    /\ cl' = [cl EXCEPT ![c] = [@ EXCEPT !.pc = "cache", !.net = "tcp",
                                         !.ds = cl[c].edns, !.edns = TRUE]]
    /\ UNCHANGED <<listVars, clock, qcache, reply, formerr>>

\* The same over HTTPS: query calls itself with the request as it is by now.
RetryOverTCP(c) ==
    /\ At(c, "resolve") /\ cl[c].net = "https"
    /\ cl' = [cl EXCEPT ![c] = [@ EXCEPT !.pc = "cache", !.net = "tcp",
                                         !.ds = cl[c].edns /\ @, !.edns = TRUE]]
    /\ UNCHANGED <<listVars, clock, qcache, reply, formerr>>

\* Resolve returns an answer: store it with its DNSSEC records, and reply.
Answer(c) ==
    /\ At(c, "resolve")
    /\ LET m == Message("real", cl[c].edns /\ cl[c].req.name \in Signed, TTL,
                        cl[c].checked, FALSE)
       IN  /\ qcache' = [qcache EXCEPT ![Key(c)] = m]
           /\ Finish(c, m)
    /\ UNCHANGED <<listVars, clock, formerr>>

\* A request for another name stores the answer to q: additionalAnswer for the
\* target of an alias, lookupNSAddr for a nameserver.
StoreElsewhere(q) ==
    /\ proc = "up" /\ ~Fresh(qcache[q]) /\ Spend("ask")
    /\ qcache' = [qcache EXCEPT ![q] = Message("real", q[1] \in Signed, TTL, clock, TRUE)]
    /\ UNCHANGED <<proc, disk, list, walk, told, broken, clock, cl, reply, formerr>>

Tick ==
    /\ Spend("tick") /\ clock' = clock + 1
    /\ UNCHANGED <<proc, disk, list, walk, told, broken, qcache, cl, reply, formerr>>

\* The process dies, and with it the queries and the cache.
Die ==
    /\ Crash
    /\ qcache' = [q \in Questions |-> NoEntry]
    /\ cl' = [c \in Clients |-> NoCall]
    /\ reply' = [c \in Clients |-> NoReply]
    /\ UNCHANGED <<clock, formerr>>

-----------------------------------------------------------------------------
ListStep == ListNext /\ UNCHANGED <<clock, qcache, cl, reply, formerr>>

QueryStep(c) ==
    \/ \E r \in budget.requests : Ask(c, r) \/ Refuse(c, r) \/ Reject(c, r)
    \/ Fail(c) \/ CacheHit(c) \/ CacheMiss(c) \/ NullRoute(c) \/ PassList(c)
    \/ FormErr(c) \/ Truncated(c) \/ RetryOverTCP(c) \/ Answer(c)

\* History: when each name was last off the list, and on it.
Observe ==
    /\ offAt' = [n \in Asked |-> IF n \in list' THEN offAt[n] ELSE clock']
    /\ onAt' = [n \in Asked |-> IF n \in list' THEN clock' ELSE onAt[n]]

Next ==
    /\ \/ ListStep \/ Die \/ Tick
       \/ \E q \in Targets : StoreElsewhere(q)
       \/ \E c \in Clients : QueryStep(c)
    /\ Observe

\* The updater and the opening of files are steps of this process; downloads
\* depend on the servers.
Spec ==
    /\ Init /\ [][Next]_vars
    /\ WF_vars(Updater /\ UNCHANGED <<clock, qcache, cl, reply, formerr>> /\ Observe)
    /\ \A u \in Uris :
          WF_vars(Create(u) /\ UNCHANGED <<clock, qcache, cl, reply, formerr>> /\ Observe)

-----------------------------------------------------------------------------
(* Properties.                                                             *)

TypeOK ==
    /\ ListTypeOK
    /\ \A q \in Questions : qcache[q] = NoEntry \/
          /\ qcache[q].kind \in {"null", "real"} /\ qcache[q].stored \in 0..clock
          /\ qcache[q].checked \in 0..clock
    /\ \A c \in Clients : cl[c] = NoCall \/
          /\ cl[c].pc \in {"cache", "list", "resolve"} /\ cl[c].req \in Requests
          /\ cl[c].net \in {"udp", "tcp", "https"} /\ cl[c].checked \in 0..clock
    /\ reply \in [Clients ->
          [kind : {"none", "dropped", "status", "failed", "truncated", "null", "real"},
           name : Names, opt : {"none", "plain", "do"}, sec : BOOLEAN, asked : BOOLEAN]]
    /\ formerr \subseteq Names

\* The step answers client c: from the cache or from its own lookup.
Source(c) == IF At(c, "cache") THEN qcache[Key(c)] ELSE qcache'[Key(c)]

Answers(c, kind) ==
    /\ cl[c] # NoCall /\ cl'[c] = NoCall /\ proc' = "up"
    /\ reply'[c].kind = kind /\ cl[c].req.type = "A"

\* Changes of the block list take effect on clients that ask for the address of a
\* name: a real answer stems from a look at the list when the name was not on it,
\* a null route from one when it was, and either is given from the cache only
\* within its TTL.  So a name that has been on the list for longer than one lookup
\* and one TTL has no real answer any more, however loads, API calls, queries and
\* the clock interleave.  It does not extend to answers that other lookups store.
ListTakesEffect ==
    [][\A c \in Clients :
          LET n == cl[c].req.name
              m == Source(c)
          IN  /\ Answers(c, "real") =>
                    \/ m.side
                    \/ offAt[n] >= m.checked /\ clock <= m.stored + TTL
              /\ Answers(c, "null") =>
                    onAt[n] >= m.checked /\ clock <= m.stored + Expire
      ]_vars

\* Signatures go to the clients that ask for them and to no others, whoever caused
\* the cache to be filled, over any transport and through the retry over TCP: a
\* complete answer has them only if its client set the DO bit, and lacks them for
\* a client that did only if the zone is not signed or a server has refused EDNS
\* for that name.  The DO bit of the reply is that of the request, again unless a
\* server has refused EDNS.
SignaturesOnRequest ==
    \A c \in Clients : reply[c].kind = "real" =>
        /\ reply[c].sec => reply[c].asked
        /\ reply[c].asked /\ ~reply[c].sec => reply[c].name \in formerr \/ reply[c].name \notin Signed
        /\ reply[c].opt # "none" /\ (reply[c].opt = "do") # reply[c].asked =>
              reply[c].name \in formerr
=============================================================================
