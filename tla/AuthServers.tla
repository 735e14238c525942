---------------------------- MODULE AuthServers ----------------------------
(***************************************************************************)
(* cache.AuthServers (cache/authserver.go), the list of servers of a zone  *)
(* that lookups share, with its three users: Resolver.lookup, which walks  *)
(* the list under the read lock, TrySort, which reorders it in place under *)
(* the write lock, and checkPriming, which replaces the root list.         *)
(*                                                                         *)
(* The lock is Go's RWMutex: a writer first announces itself, which keeps  *)
(* new readers out, and then waits until the readers it found have left.   *)
(* A goroutine computes alone while it holds the write lock, so what it    *)
(* does there is one step.  exchange touches shared state only when it     *)
(* adds up the measured times at its end, so it is one step too.           *)
(***************************************************************************)
EXTENDS Integers, FiniteSets, Sequences

CONSTANTS Clients,      \* goroutines that call lookup for queries
          Primer,       \* the goroutine of Resolver.run, or NoOne
          NoOne,        \* no goroutine
          Hosts,        \* server addresses
          Lists,        \* the server lists that config and priming may give
          Nets,         \* the transports of the lookups of clients
          Rtts,         \* round trip times that Exchange may measure
          SortEvery,    \* TrySort sorts at every 20th call in the code
          MaxLookups,   \* bound on the lookups of one goroutine
          Debuggers     \* the clients that may send the debug HINFO query

Goroutines == Clients \cup ({Primer} \ {NoOne})

ASSUME AuthServersAssumption ==
    /\ NoOne \notin Clients
    /\ Lists \subseteq Seq(Hosts) \ {<<>>}
    /\ \A l \in Lists : \A i, j \in 1..Len(l) : l[i] = l[j] => i = j
    /\ Nets \subseteq {"udp", "tcp"}
    /\ Rtts \subseteq Nat /\ Rtts # {}
    /\ SortEvery \in Nat \ {0} /\ MaxLookups \in Nat
    /\ Debuggers \subseteq Clients

VARIABLES list,      \* AuthServers.List
          rtt,       \* AuthServer.Rtt of each server
          count,     \* AuthServer.Count of each server
          called,    \* AuthServers.called
          readers,   \* the goroutines that hold the read lock
          writer,    \* the goroutine that announced Lock and has not unlocked
          pc,        \* where each goroutine is
          tried,     \* the servers the current lookup has asked, in order
          net,       \* Client.Net of the current lookup
          edns,      \* whether its request still has an OPT record
          last,      \* what the last exchange of the lookup returned
          begun,     \* how many lookups the goroutine has begun
          padded     \* history: the servers whose Count String has stored

lockVars == <<readers, writer>>
dataVars == <<list, rtt, count>>
lookupVars == <<tried, net, edns, last>>
vars == <<dataVars, called, lockVars, pc, lookupVars, begun, padded>>

\* "fail" is an error or a reply with an error code: lookup goes on after both.
Outcomes == {"none", "ok", "fail"}

Goto(g, from, to) == pc[g] = from /\ pc' = [pc EXCEPT ![g] = to]

-----------------------------------------------------------------------------
(* TrySort.                                                                *)

\* Priming asks over UDP, and over TCP when the reply was truncated.
NetsOf(g) == IF g = Primer THEN {"udp", "tcp"} ELSE Nets

\* lookup makes a client for one transport; TrySort counts the call.
LookupStart(g, n) ==
    /\ begun[g] < MaxLookups
    /\ Goto(g, "idle", "load")
    /\ begun' = [begun EXCEPT ![g] = @ + 1]
    /\ net' = [net EXCEPT ![g] = n]
    /\ called' = called + 1
    /\ UNCHANGED <<dataVars, lockVars, tried, edns, last, padded>>

\* The count is loaded again, after calls that others may have counted.
TrySortLoad(g) ==
    /\ Goto(g, "load", IF called % SortEvery = 0 THEN "lock" ELSE "rlock")
    /\ UNCHANGED <<dataVars, called, lockVars, lookupVars, begun, padded>>

\* Lock announces the writer.
Lock(g, from, to) ==
    /\ Goto(g, from, to)
    /\ writer = NoOne
    /\ writer' = g
    /\ UNCHANGED <<dataVars, called, readers, lookupVars, begun, padded>>

\* The orders that sort.Slice, which is not stable, may leave.
SortedBy(r) ==
    {l \in [1..Len(list) -> {list[i] : i \in 1..Len(list)}] :
        /\ \A i, j \in 1..Len(list) : l[i] = l[j] => i = j
        /\ \A i, j \in 1..Len(list) : i < j => r[l[i]] <= r[l[j]]}

\* Variant of SortList that does not wait for the readers to leave.
SortListUnlocked(g) ==
    /\ Goto(g, "sorting", "reset")
    /\ LET average == [h \in Hosts |-> IF count[h] > 0 THEN rtt[h] \div count[h]
                                                       ELSE rtt[h]]
       IN  /\ rtt' = average
           /\ count' = [h \in Hosts |-> IF count[h] > 0 THEN 1 ELSE 0]
           /\ list' \in SortedBy(average)
    /\ writer' = NoOne
    /\ UNCHANGED <<called, readers, lookupVars, begun, padded>>

\* Variant of SortList without Unlock.
SortListNoUnlock(g) ==
    /\ Goto(g, "sorting", "reset")
    /\ readers = {}
    /\ LET average == [h \in Hosts |-> IF count[h] > 0 THEN rtt[h] \div count[h]
                                                       ELSE rtt[h]]
       IN  /\ rtt' = average
           /\ count' = [h \in Hosts |-> IF count[h] > 0 THEN 1 ELSE 0]
           /\ list' \in SortedBy(average)
    /\ UNCHANGED <<called, lockVars, lookupVars, begun, padded>>

\* The readers have left: average the times, sort the servers in place, Unlock.
SortList(g) ==
    /\ Goto(g, "sorting", "reset")
    /\ readers = {}
    /\ LET average == [h \in Hosts |-> IF count[h] > 0 THEN rtt[h] \div count[h]
                                                       ELSE rtt[h]]
       IN  /\ rtt' = average
           /\ count' = [h \in Hosts |-> IF count[h] > 0 THEN 1 ELSE 0]
           /\ list' \in SortedBy(average)
    /\ writer' = NoOne
    /\ UNCHANGED <<called, readers, lookupVars, begun, padded>>

\* The count starts again, whatever others have counted meanwhile.
TrySortReset(g) ==
    /\ Goto(g, "reset", "rlock")
    /\ called' = 0
    /\ UNCHANGED <<dataVars, lockVars, lookupVars, begun, padded>>

-----------------------------------------------------------------------------
(* lookup and exchange.                                                    *)

RLock(g, from, to) ==
    /\ Goto(g, from, to)
    /\ writer = NoOne
    /\ readers' = readers \cup {g}
    /\ UNCHANGED <<dataVars, called, writer, lookupVars, begun, padded>>

RUnlock(g, from, to) ==
    /\ Goto(g, from, to)
    /\ readers' = readers \ {g}
    /\ UNCHANGED <<dataVars, called, writer, lookupVars, begun, padded>>

If(b, n) == IF b THEN n ELSE 0

\* Variant of Measured that counts a server once however often it was asked.
MeasuredOnce(h, tcp, clear) ==
    /\ \E x, y, z \in Rtts : rtt' = [rtt EXCEPT ![h] = @ + x + If(tcp, y) + If(clear, z)]
    /\ count' = [count EXCEPT ![h] = @ + 1]

\* The deferred additions of exchange and of its nested calls: over TCP, and
\* without OPT.
Measured(h, tcp, clear) ==
    /\ \E x, y, z \in Rtts : rtt' = [rtt EXCEPT ![h] = @ + x + If(tcp, y) + If(clear, z)]
    /\ count' = [count EXCEPT ![h] = @ + 1 + If(tcp, 1) + If(clear, 1)]

\* exchange with the next server; lookup panics when the list has none at all,
\* which ListNeverEmpty excludes.  exchange asks again over TCP, for good, when
\* there is no route over UDP, and again without OPT, for good, on a format
\* error.
Exchange(g) ==
    LET h == list[Len(tried[g]) + 1]
        more == Len(tried[g]) + 1 < Len(list)
    IN  /\ Len(tried[g]) < Len(list)
        /\ \E tcp \in {FALSE, net[g] = "udp"}, clear \in {FALSE, edns[g]},
              o \in Outcomes \ {"none"} :
              /\ Measured(h, tcp, clear)
              /\ net' = [net EXCEPT ![g] = IF tcp THEN "tcp" ELSE @]
              /\ edns' = [edns EXCEPT ![g] = @ /\ ~clear]
              /\ last' = [last EXCEPT ![g] = o]
              /\ Goto(g, "walk", IF o # "ok" /\ more THEN "walk" ELSE "return")
        /\ tried' = [tried EXCEPT ![g] = Append(@, h)]
        /\ UNCHANGED <<list, called, lockVars, begun, padded>>

\* The locals of a lookup that has not begun.
Fresh(g) ==
    /\ net' = [net EXCEPT ![g] = "udp"]
    /\ edns' = [edns EXCEPT ![g] = TRUE]
    /\ tried' = [tried EXCEPT ![g] = <<>>]
    /\ last' = [last EXCEPT ![g] = "none"]

\* The caller has the reply; the primer goes on when it is an answer.
LookupEnd(g) ==
    /\ Goto(g, "end", IF g = Primer /\ last[g] = "ok" THEN "prime" ELSE "idle")
    /\ Fresh(g)
    /\ UNCHANGED <<dataVars, called, lockVars, begun, padded>>

-----------------------------------------------------------------------------
(* checkPriming after Resolve, and String in the debug HINFO reply.        *)

\* The additional section has no address, or the reply was truncated and the
\* question is asked again: the list stays.
PrimeNothing ==
    /\ Goto(Primer, "prime", "idle")
    /\ UNCHANGED <<dataVars, called, lockVars, lookupVars, begun, padded>>

\* Variant of PrimeSet that sets an empty list too.
PrimeSetEmpty(l) ==
    /\ Goto(Primer, "priming", "idle")
    /\ readers = {}
    /\ list' \in {l, <<>>}
    /\ rtt' = [h \in Hosts |-> 0]
    /\ count' = [h \in Hosts |-> 0]
    /\ padded' = {}
    /\ writer' = NoOne
    /\ UNCHANGED <<called, readers, lookupVars, begun>>

\* The readers have left: the list is replaced by new servers l, Unlock.
PrimeSet(l) ==
    /\ Goto(Primer, "priming", "idle")
    /\ readers = {}
    /\ list' = l
    /\ rtt' = [h \in Hosts |-> 0]
    /\ count' = [h \in Hosts |-> 0]
    /\ padded' = {}
    /\ writer' = NoOne
    /\ UNCHANGED <<called, readers, lookupVars, begun>>

\* String reads Count, and goes on to store 1 when it is zero.
StringRead(g) ==
    /\ \E i \in 1..Len(list) :
          /\ count[list[i]] = 0
          /\ tried' = [tried EXCEPT ![g] = <<list[i]>>]
    /\ Goto(g, "debug", "string")
    /\ UNCHANGED <<dataVars, called, lockVars, net, edns, last, begun, padded>>

StringWrite(g) ==
    /\ Goto(g, "string", "debugged")
    /\ count' = [count EXCEPT ![tried[g][1]] = 1]
    /\ padded' = padded \cup {tried[g][1]}
    /\ Fresh(g)
    /\ UNCHANGED <<list, rtt, called, lockVars, begun>>

\* One goroutine within the debug reply, which walks the list under RLock.
DebugRoot(g) ==
    \/ StringRead(g) \/ StringWrite(g)
    \/ RUnlock(g, "debug", "idle") \/ RUnlock(g, "debugged", "idle")

-----------------------------------------------------------------------------
Init ==
    /\ list \in Lists
    /\ rtt = [h \in Hosts |-> 0]
    /\ count = [h \in Hosts |-> 0]
    /\ called = 0
    /\ readers = {} /\ writer = NoOne
    /\ pc = [g \in Goroutines |-> "idle"]
    /\ tried = [g \in Goroutines |-> <<>>]
    /\ net = [g \in Goroutines |-> "udp"]
    /\ edns = [g \in Goroutines |-> TRUE]
    /\ last = [g \in Goroutines |-> "none"]
    /\ begun = [g \in Goroutines |-> 0]
    /\ padded = {}

\* One goroutine within lookup.
Lookup(g) ==
    \/ TrySortLoad(g) \/ Lock(g, "lock", "sorting") \/ SortList(g)
    \/ TrySortReset(g)
    \/ RLock(g, "rlock", "walk") \/ Exchange(g)
    \/ RUnlock(g, "return", "end") \/ LookupEnd(g)

Prime ==
    \/ PrimeNothing
    \/ Lock(Primer, "prime", "priming")
    \/ \E l \in Lists : PrimeSet(l)

Next ==
    \/ \E g \in Goroutines :
          \/ \E n \in NetsOf(g) : LookupStart(g, n)
          \/ Lookup(g)
    \/ Primer \in Goroutines /\ Prime
    \/ \E g \in Debuggers : RLock(g, "idle", "debug") \/ DebugRoot(g)

Spec == Init /\ [][Next]_vars

\* Goroutines are scheduled and Exchange has a timeout.
FairSpec ==
    /\ Spec
    /\ WF_vars(Primer \in Goroutines /\ Prime)
    /\ \A g \in Goroutines : WF_vars(Lookup(g))
    /\ \A g \in Debuggers : WF_vars(DebugRoot(g))

-----------------------------------------------------------------------------
(* Properties.                                                             *)

Pcs == {"idle", "load", "lock", "sorting", "reset", "rlock", "walk", "return",
        "end", "prime", "priming", "debug", "string", "debugged"}

\* Type invariant of the server list, its lock and the lookups.
TypeOK ==
    /\ list \in Seq(Hosts)
    /\ rtt \in [Hosts -> Nat] /\ count \in [Hosts -> Nat]
    /\ called \in Nat
    /\ readers \subseteq Goroutines /\ writer \in Goroutines \cup {NoOne}
    /\ pc \in [Goroutines -> Pcs]
    /\ tried \in [Goroutines -> Seq(Hosts)]
    /\ net \in [Goroutines -> {"udp", "tcp"}]
    /\ edns \in [Goroutines -> BOOLEAN]
    /\ last \in [Goroutines -> Outcomes]
    /\ begun \in [Goroutines -> 0..MaxLookups]
    /\ padded \subseteq Hosts

\* lookup returns the reply of the first server that answers well, or that of
\* the last server after every other one was asked once and failed, although
\* TrySort reorders the list in place and checkPriming replaces it meanwhile.
NoServerSkipped ==
    \A g \in Goroutines :
        /\ pc[g] \in {"walk", "return"} =>
              tried[g] = SubSeq(list, 1, Len(tried[g]))
        /\ pc[g] = "return" /\ last[g] # "ok" => Len(tried[g]) = Len(list)

\* No lookup reaches the panic after its loop ("looks like no root servers"),
\* as it would with an empty list: checkPriming never installs a list without
\* servers, and sorting loses none.
ListNeverEmpty == \A g \in Goroutines : pc[g] = "walk" => list # <<>>

\* "average rtt" (authserver.go:48): Rtt / Count, by which TrySort sorts, lies
\* between the times that exchange can measure, across sorts and nested retries,
\* for every server that String has not stored a Count for: String writes under
\* the read lock and without atomics, so it may undo what exchange has counted.
AverageInRange ==
    \A h \in Hosts \ padded :
        /\ \E r \in Rtts : count[h] * r <= rtt[h]
        /\ \E r \in Rtts : rtt[h] <= count[h] * r

\* Every lookup returns: readers, sorting lookups and the primer never wait for
\* each other in a circle.
EveryLookupReturns ==
    \A g \in Goroutines : pc[g] = "load" ~> pc[g] = "idle"
=============================================================================
