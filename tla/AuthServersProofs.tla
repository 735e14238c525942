------------------------- MODULE AuthServersProofs -------------------------
(***************************************************************************)
(* Proofs about AuthServers for any goroutines, servers, lists and round   *)
(* trip times: no lookup skips a server or meets an empty list, and the    *)
(* averages that TrySort sorts by lie within the measured times.           *)
(***************************************************************************)
EXTENDS AuthServers, TLAPS

\* Where a goroutine holds the read lock, and where it has announced Lock.
Reading == {"walk", "return", "debug", "string", "debugged"}
Writing == {"sorting", "priming"}

\* The lock knows the goroutines that hold it.
LockHeld ==
    \A g \in Goroutines : /\ pc[g] \in Reading => g \in readers
                          /\ pc[g] \in Writing => writer = g

\* A lookup that has not begun to walk has asked no server, and String knows one.
TriedKnown ==
    \A g \in Goroutines :
        /\ pc[g] \notin {"walk", "return", "end", "string"} => tried[g] = <<>>
        /\ pc[g] = "string" => tried[g] # <<>>

\* The inductive invariant.
IInv ==
    /\ TypeOK /\ LockHeld /\ TriedKnown /\ list # <<>>
    /\ NoServerSkipped /\ AverageInRange

-----------------------------------------------------------------------------
(* Arithmetic of averages.                                                 *)

\* A smaller time gives a smaller sum.
LEMMA SmallerSum ==
  ASSUME NEW n \in Nat, NEW q \in Nat, NEW r \in Nat, q <= r
  PROVE  n * q <= n * r /\ n * q \in Nat /\ n * r \in Nat
  BY SMTT(30)

\* One time more.
LEMMA OneMore ==
  ASSUME NEW n \in Nat, NEW q \in Nat
  PROVE  (n + 1) * q = n * q + q /\ n * q \in Nat
  BY SMTT(30)

\* Division keeps the bounds that multiplication gives.
LEMMA Average ==
  ASSUME NEW n \in Nat, n > 0, NEW s \in Nat, NEW q \in Nat
  PROVE  /\ s \div n \in Nat
         /\ n * q <= s => q <= s \div n
         /\ s <= n * q => s \div n <= q
  BY SMTT(30)

\* The average of n times that add up to s lies within Rtts.
InRange(n, s) ==
    /\ \E r \in Rtts : n * r <= s
    /\ \E r \in Rtts : s <= n * r

\* One more measured time keeps the average in range.
LEMMA MeasureOne ==
  ASSUME NEW n \in Nat, NEW s \in Nat, InRange(n, s), NEW x \in Rtts
  PROVE  InRange(n + 1, s + x)
<1> USE AuthServersAssumption
<1>1. \E r \in Rtts : (n + 1) * r <= s + x
  <2>1. PICK r \in Rtts : n * r <= s
    BY DEF InRange
  <2>2. CASE r <= x
    <3>1. (n + 1) * r = n * r + r /\ n * r \in Nat
      BY OneMore
    <3> QED
      BY <2>1, <2>2, <3>1
  <2>3. CASE x < r
    <3>1. (n + 1) * x = n * x + x /\ n * x \in Nat /\ n * r \in Nat /\ n * x <= n * r
      BY <2>3, OneMore, SmallerSum
    <3> QED
      BY <2>1, <3>1
  <2> QED
    BY <2>2, <2>3
<1>2. \E r \in Rtts : s + x <= (n + 1) * r
  <2>1. PICK r \in Rtts : s <= n * r
    BY Zenon DEF InRange
  <2>2. CASE x <= r
    <3>1. (n + 1) * r = n * r + r /\ n * r \in Nat
      BY OneMore
    <3> QED
      BY <2>1, <2>2, <3>1
  <2>3. CASE r < x
    <3>1. (n + 1) * x = n * x + x /\ n * x \in Nat /\ n * r \in Nat /\ n * r <= n * x
      BY <2>3, OneMore, SmallerSum
    <3> QED
      BY <2>1, <3>1
  <2> QED
    BY <2>2, <2>3
<1> QED
  BY <1>1, <1>2, Zenon DEF InRange

-----------------------------------------------------------------------------
(* The steps.                                                              *)

\* The empty list of averages is in range.
LEMMA ZeroInRange == InRange(0, 0)
<1>1. PICK r \in Rtts : r \in Nat
  BY AuthServersAssumption, Zenon
<1>2. 0 * r = 0
  BY <1>1
<1> QED
  BY <1>2 DEF InRange

\* The goroutines that may send the debug query are goroutines.
LEMMA DebuggersAreGoroutines == Debuggers \subseteq Goroutines /\ NoOne \notin Goroutines
  BY AuthServersAssumption DEF Goroutines

\* The initial states satisfy the invariant.
LEMMA InitInv == Init => IInv
<1> SUFFICES ASSUME Init PROVE IInv
  OBVIOUS
<1>1. list \in Seq(Hosts) /\ list # <<>>
  BY AuthServersAssumption DEF Init
<1>2. TypeOK
  BY <1>1, AuthServersAssumption DEF Init, TypeOK, Pcs, Outcomes
<1>3. LockHeld /\ TriedKnown /\ NoServerSkipped
  BY DEF Init, LockHeld, TriedKnown, NoServerSkipped, Reading, Writing
<1>4. AverageInRange
  BY ZeroInRange DEF Init, AverageInRange, InRange
<1> QED
  BY <1>1, <1>2, <1>3, <1>4 DEF IInv

\* Steps that leave the list and its averages alone keep what is said of them.
LEMMA DataUntouched ==
  ASSUME IInv, UNCHANGED <<dataVars, padded>>
  PROVE  list' # <<>> /\ AverageInRange'
  BY DEF IInv, AverageInRange, dataVars

\* A step of g outside the walk that only moves g on keeps the relations between
\* the goroutines, their lookups and the list.
LEMMA MovesOn ==
  ASSUME IInv, NEW g \in Goroutines, NEW from, NEW to, Goto(g, from, to),
         UNCHANGED <<dataVars, lockVars, tried, last, padded>>,
         from \notin Reading \cup Writing \cup {"end"},
         to \notin Reading \cup Writing \cup {"end"}
  PROVE  LockHeld' /\ TriedKnown' /\ NoServerSkipped' /\ list' # <<>> /\ AverageInRange'
<1> USE DEF IInv
<1>1. pc[g] = from /\ \A d \in Goroutines : pc'[d] = IF d = g THEN to ELSE pc[d]
  BY DEF Goto, TypeOK
<1>2. LockHeld'
  BY <1>1 DEF LockHeld, lockVars
<1>3. TriedKnown'
  BY <1>1 DEF TriedKnown, Reading
<1>4. NoServerSkipped'
  BY <1>1 DEF NoServerSkipped, dataVars, Reading
<1> QED
  BY <1>2, <1>3, <1>4, DataUntouched

\* Steps outside the loop of lookup and outside the lock.
LEMMA QuietStep ==
  ASSUME IInv, NEW g \in Goroutines,
         \/ \E n \in NetsOf(g) : LookupStart(g, n)
         \/ TrySortLoad(g) \/ TrySortReset(g)
         \/ g = Primer /\ PrimeNothing
  PROVE  IInv'
<1> USE DEF IInv
<1>1. ASSUME NEW n \in NetsOf(g), LookupStart(g, n) PROVE IInv'
  <2>a. n \in {"udp", "tcp"}
    BY <1>1, AuthServersAssumption DEF NetsOf
  <2>b. begun' \in [Goroutines -> 0..MaxLookups] /\ called' \in Nat
    BY <1>1, AuthServersAssumption DEF TypeOK, LookupStart
  <2>c. net' \in [Goroutines -> {"udp", "tcp"}] /\ pc' \in [Goroutines -> Pcs]
    BY <1>1, <2>a DEF TypeOK, LookupStart, Goto, Pcs
  <2>1. TypeOK'
    BY <1>1, <2>b, <2>c DEF TypeOK, LookupStart, dataVars, lockVars
  <2> QED
    BY <1>1, <2>1, MovesOn DEF LookupStart, Reading, Writing
<1>2. CASE TrySortLoad(g)
  <2>1. TypeOK'
    BY <1>2 DEF TypeOK, TrySortLoad, Goto, dataVars, lockVars, lookupVars, Pcs
  <2>2. PICK to \in {"lock", "rlock"} : Goto(g, "load", to)
    BY <1>2 DEF TrySortLoad
  <2>3. UNCHANGED <<dataVars, lockVars, tried, last, padded>>
    BY <1>2 DEF TrySortLoad, lookupVars
  <2> QED
    BY <2>1, <2>2, <2>3, MovesOn DEF Reading, Writing
<1>3. CASE TrySortReset(g)
  <2>1. TypeOK'
    BY <1>3 DEF TypeOK, TrySortReset, Goto, dataVars, lockVars, lookupVars, Pcs
  <2> QED
    BY <1>3, <2>1, MovesOn DEF TrySortReset, lookupVars, Reading, Writing
<1>4. CASE g = Primer /\ PrimeNothing
  <2>1. TypeOK'
    BY <1>4 DEF TypeOK, PrimeNothing, Goto, dataVars, lockVars, lookupVars, Pcs
  <2> QED
    BY <1>4, <2>1, MovesOn DEF PrimeNothing, lookupVars, Reading, Writing
<1> QED
  BY <1>1, <1>2, <1>3, <1>4

\* The steps of the lock.
LEMMA LockStep ==
  ASSUME IInv, NEW g \in Goroutines,
         \/ Lock(g, "lock", "sorting") \/ Lock(g, "prime", "priming")
         \/ RLock(g, "rlock", "walk") \/ RLock(g, "idle", "debug")
         \/ RUnlock(g, "return", "end") \/ RUnlock(g, "debug", "idle")
         \/ RUnlock(g, "debugged", "idle")
  PROVE  IInv'
<1> USE DEF IInv
<1>1. TypeOK'
  BY Zenon DEF TypeOK, Lock, RLock, RUnlock, Goto, dataVars, lockVars, lookupVars, Pcs
<1>2. LockHeld'
  BY DebuggersAreGoroutines DEF TypeOK, Lock, RLock, RUnlock, Goto, LockHeld, Reading, Writing
<1>3. TriedKnown'
  BY Zenon DEF TypeOK, Lock, RLock, RUnlock, Goto, lookupVars, TriedKnown
<1>4. NoServerSkipped'
  <2>1. SubSeq(list, 1, 0) = <<>> /\ Len(<<>>) = 0
    OBVIOUS
  <2>2. CASE RLock(g, "rlock", "walk")
    BY <2>1, <2>2, Zenon DEF TypeOK, RLock, Goto, dataVars, lookupVars, TriedKnown, NoServerSkipped
  <2>3. CASE ~RLock(g, "rlock", "walk")
    BY <2>3, Zenon DEF TypeOK, Lock, RLock, RUnlock, Goto, dataVars, lookupVars, NoServerSkipped
  <2> QED
    BY <2>2, <2>3
<1>5. UNCHANGED <<dataVars, padded>>
  BY DEF Lock, RLock, RUnlock
<1> QED
  BY <1>1, <1>2, <1>3, <1>4, <1>5, DataUntouched

\* The end of a lookup.
LEMMA LookupEndStep ==
  ASSUME IInv, NEW g \in Goroutines, LookupEnd(g)
  PROVE  IInv'
<1> USE DEF IInv
<1>1. TypeOK'
  BY DEF TypeOK, LookupEnd, Fresh, Goto, dataVars, lockVars, Pcs, Outcomes
<1>2. LockHeld' /\ TriedKnown' /\ NoServerSkipped'
  BY DEF TypeOK, LookupEnd, Fresh, Goto, dataVars, lockVars, LockHeld, TriedKnown,
     NoServerSkipped, Reading, Writing
<1>3. UNCHANGED <<dataVars, padded>>
  BY DEF LookupEnd
<1> QED
  BY <1>1, <1>2, <1>3, DataUntouched

\* String in the debug reply.
LEMMA StringStep ==
  ASSUME IInv, NEW g \in Goroutines, StringRead(g) \/ StringWrite(g)
  PROVE  IInv'
<1> USE DEF IInv
<1>1. CASE StringRead(g)
  <2>1. PICK i \in 1..Len(list) : tried' = [tried EXCEPT ![g] = <<list[i]>>]
    BY <1>1, Zenon DEF StringRead
  <2>2. <<list[i]>> \in Seq(Hosts) /\ <<list[i]>> # <<>>
    BY <2>1 DEF TypeOK
  <2>3. TypeOK'
    BY <1>1, <2>1, <2>2, Zenon DEF TypeOK, StringRead, Goto, dataVars, lockVars, Pcs
  <2>4. LockHeld' /\ TriedKnown' /\ NoServerSkipped'
    BY <1>1, <2>1, <2>2, Zenon DEF TypeOK, StringRead, Goto, dataVars, lockVars, LockHeld, TriedKnown,
       NoServerSkipped, Reading, Writing
  <2>5. UNCHANGED <<dataVars, padded>>
    BY <1>1 DEF StringRead
  <2> QED
    BY <2>3, <2>4, <2>5, DataUntouched
<1>2. CASE StringWrite(g)
  <2>1. tried[g][1] \in Hosts
    BY <1>2 DEF TypeOK, StringWrite, Goto, TriedKnown
  <2>a. count' \in [Hosts -> Nat] /\ padded' \subseteq Hosts
    BY <1>2, <2>1 DEF TypeOK, StringWrite
  <2>b. /\ pc' \in [Goroutines -> Pcs] /\ net' \in [Goroutines -> {"udp", "tcp"}]
        /\ last' \in [Goroutines -> Outcomes] /\ tried' \in [Goroutines -> Seq(Hosts)]
    BY <1>2, SMTT(30) DEF TypeOK, StringWrite, Fresh, Goto, Pcs, Outcomes
  <2>c. edns' \in [Goroutines -> BOOLEAN]
    BY <1>2, Zenon, Zenon DEF TypeOK, StringWrite, Fresh
  <2>2. TypeOK'
    BY <1>2, <2>a, <2>b, <2>c, Zenon DEF TypeOK, StringWrite, lockVars
  <2>3. LockHeld' /\ TriedKnown' /\ NoServerSkipped' /\ list' # <<>>
    BY <1>2 DEF TypeOK, StringWrite, Fresh, Goto, lockVars, LockHeld, TriedKnown,
       NoServerSkipped, Reading, Writing
  <2>4. AverageInRange'
    BY <1>2, <2>1, SMTT(30) DEF TypeOK, StringWrite, AverageInRange
  <2> QED
    BY <2>2, <2>3, <2>4
<1> QED
  BY <1>1, <1>2

\* The times measured for one server keep its average in range.
LEMMA MeasuredInRange ==
  ASSUME NEW n \in Nat, NEW s \in Nat, InRange(n, s), NEW x \in Rtts, NEW y \in Rtts,
         NEW z \in Rtts, NEW tcp \in BOOLEAN, NEW clear \in BOOLEAN
  PROVE  InRange(n + 1 + If(tcp, 1) + If(clear, 1), s + x + If(tcp, y) + If(clear, z))
<1>1. InRange(n + 1, s + x) /\ n + 1 \in Nat /\ s + x \in Nat
  BY MeasureOne, AuthServersAssumption
<1>2. /\ InRange(n + 1 + If(tcp, 1), s + x + If(tcp, y))
      /\ n + 1 + If(tcp, 1) \in Nat /\ s + x + If(tcp, y) \in Nat
  <2>1. CASE tcp
    BY <1>1, <2>1, MeasureOne, AuthServersAssumption DEF If
  <2>2. CASE ~tcp
    BY <1>1, <2>2 DEF If
  <2> QED
    BY <2>1, <2>2
<1>3. CASE clear
  BY <1>2, <1>3, MeasureOne DEF If
<1>4. CASE ~clear
  <2>1. /\ n + 1 + If(tcp, 1) + If(clear, 1) = n + 1 + If(tcp, 1)
        /\ s + x + If(tcp, y) + If(clear, z) = s + x + If(tcp, y)
    BY <1>2, <1>4 DEF If
  <2> QED
    BY <1>2, <2>1
<1> QED
  BY <1>3, <1>4

\* Sums of natural numbers are natural numbers.
LEMMA SumType ==
  ASSUME NEW a \in Nat, NEW b \in Nat, NEW c \in Nat, NEW d \in Nat
  PROVE  a + b + c + d \in Nat
  OBVIOUS

\* An update within the range of a function.
LEMMA UpdateType ==
  ASSUME NEW f \in [Hosts -> Nat], NEW h \in Hosts, NEW n \in Nat
  PROVE  [f EXCEPT ![h] = n] \in [Hosts -> Nat]
  OBVIOUS

\* exchange with the next server.
LEMMA ExchangeStep ==
  ASSUME IInv, NEW g \in Goroutines, Exchange(g)
  PROVE  IInv'
<1> USE DEF IInv
<1> DEFINE h == list[Len(tried[g]) + 1]
           more == Len(tried[g]) + 1 < Len(list)
<1>1. PICK tcp \in {FALSE, net[g] = "udp"}, clear \in {FALSE, edns[g]}, o \in Outcomes \ {"none"} :
         /\ Measured(h, tcp, clear)
         /\ net' = [net EXCEPT ![g] = IF tcp THEN "tcp" ELSE @]
         /\ edns' = [edns EXCEPT ![g] = @ /\ ~clear]
         /\ last' = [last EXCEPT ![g] = o]
         /\ Goto(g, "walk", IF o # "ok" /\ more THEN "walk" ELSE "return")
  BY Zenon, Zenon DEF Exchange
<1>2. /\ Len(tried[g]) < Len(list)
      /\ tried' = [tried EXCEPT ![g] = Append(@, h)]
      /\ list' = list /\ called' = called /\ readers' = readers /\ writer' = writer
      /\ begun' = begun /\ padded' = padded
  BY DEF Exchange, lockVars
<1>3. tcp \in BOOLEAN /\ clear \in BOOLEAN
  BY <1>1, Zenon, Zenon DEF TypeOK
<1>4. list \in Seq(Hosts) /\ tried[g] \in Seq(Hosts) /\ h \in Hosts
  BY <1>2 DEF TypeOK
<1>5. PICK x \in Rtts, y \in Rtts, z \in Rtts :
         rtt' = [rtt EXCEPT ![h] = @ + x + If(tcp, y) + If(clear, z)]
  BY <1>1, Zenon DEF Measured
<1>6. count' = [count EXCEPT ![h] = @ + 1 + If(tcp, 1) + If(clear, 1)]
  BY <1>1 DEF Measured
<1>7. rtt' \in [Hosts -> Nat] /\ count' \in [Hosts -> Nat]
  <2>1. \A n \in Nat : If(tcp, n) \in Nat /\ If(clear, n) \in Nat
    BY DEF If
  <2>2. x \in Nat /\ If(tcp, y) \in Nat /\ If(clear, z) \in Nat
    BY <2>1, AuthServersAssumption
  <2>3. rtt' \in [Hosts -> Nat]
    <3>0. rtt[h] \in Nat
      BY <1>4 DEF TypeOK
    <3>1. rtt[h] + x + If(tcp, y) + If(clear, z) \in Nat
      BY <2>2, <3>0, SumType, Zenon, Zenon
    <3>2. rtt' = [rtt EXCEPT ![h] = rtt[h] + x + If(tcp, y) + If(clear, z)]
      BY <1>5
    <3> QED
      BY <1>4, <3>1, <3>2, UpdateType DEF TypeOK
  <2>4. count' \in [Hosts -> Nat]
    <3>0. count[h] \in Nat /\ 1 \in Nat
      BY <1>4 DEF TypeOK
    <3>1. count[h] + 1 + If(tcp, 1) + If(clear, 1) \in Nat
      BY <2>1, <3>0, SumType, Zenon, Zenon
    <3>2. count' = [count EXCEPT ![h] = count[h] + 1 + If(tcp, 1) + If(clear, 1)]
      BY <1>6
    <3> QED
      BY <1>4, <3>1, <3>2, UpdateType DEF TypeOK
  <2> QED
    BY <2>3, <2>4
<1>8. TypeOK'
  <2>1. net' \in [Goroutines -> {"udp", "tcp"}] /\ last' \in [Goroutines -> Outcomes]
    BY <1>1 DEF TypeOK
  <2>2. edns' \in [Goroutines -> BOOLEAN]
    BY <1>1, Zenon, Zenon DEF TypeOK
  <2>3. pc' \in [Goroutines -> Pcs]
    BY <1>1 DEF TypeOK, Goto, Pcs
  <2>4. tried' \in [Goroutines -> Seq(Hosts)]
    BY <1>2, <1>4 DEF TypeOK
  <2> QED
    BY <1>2, <1>7, <2>1, <2>2, <2>3, <2>4, Zenon DEF TypeOK
<1>9. LockHeld' /\ TriedKnown'
  BY <1>1, <1>2, SMTT(30) DEF TypeOK, Goto, LockHeld, TriedKnown, Reading, Writing
<1>10. NoServerSkipped'
  <2>1. tried[g] = SubSeq(list, 1, Len(tried[g]))
    BY <1>1 DEF NoServerSkipped, Goto
  <2>2. /\ tried'[g] = Append(tried[g], h) /\ Len(tried'[g]) = Len(tried[g]) + 1
        /\ last'[g] = o
    BY <1>1, <1>2, <1>4 DEF TypeOK
  <2>3. tried'[g] = SubSeq(list, 1, Len(tried'[g]))
    BY <1>2, <1>4, <2>1, <2>2
  <2>4. pc'[g] = "return" /\ last'[g] # "ok" => Len(tried'[g]) = Len(list)
    BY <1>1, <1>2, <1>4, <2>2 DEF TypeOK, Goto
  <2>5. ASSUME NEW d \in Goroutines, d # g
        PROVE  pc'[d] = pc[d] /\ tried'[d] = tried[d] /\ last'[d] = last[d]
    BY <1>1, <1>2, <2>5 DEF TypeOK, Goto
  <2> QED
    BY <1>2, <2>3, <2>4, <2>5 DEF NoServerSkipped
<1>11. AverageInRange'
  <2> SUFFICES ASSUME NEW j \in Hosts \ padded PROVE InRange(count'[j], rtt'[j])
    BY <1>2 DEF AverageInRange, InRange
  <2>1. InRange(count[j], rtt[j]) /\ count[j] \in Nat /\ rtt[j] \in Nat
    BY DEF AverageInRange, InRange, TypeOK
  <2>2. CASE j = h
    <3>1. /\ count'[j] = count[j] + 1 + If(tcp, 1) + If(clear, 1)
          /\ rtt'[j] = rtt[j] + x + If(tcp, y) + If(clear, z)
      BY <1>5, <1>6, <2>2 DEF TypeOK
    <3> QED
      BY <1>3, <2>1, <3>1, MeasuredInRange
  <2>3. CASE j # h
    BY <1>5, <1>6, <2>1, <2>3 DEF TypeOK
  <2> QED
    BY <2>2, <2>3
<1> QED
  BY <1>2, <1>8, <1>9, <1>10, <1>11

\* Sorting keeps the length and the servers of the list.
LEMMA SortedList ==
  ASSUME list \in Seq(Hosts), NEW r, NEW l \in SortedBy(r)
  PROVE  l \in Seq(Hosts) /\ Len(l) = Len(list)
<1>1. l \in [1..Len(list) -> Hosts] /\ Len(list) \in Nat
  BY DEF SortedBy
<1> QED
  BY <1>1

\* The holder of the write lock that finds no readers is alone.
LEMMA WriterAlone ==
  ASSUME IInv, readers = {}
  PROVE  \A d \in Goroutines : pc[d] \notin Reading
  BY DEF IInv, LockHeld

\* The sort under the write lock.
LEMMA SortStep ==
  ASSUME IInv, NEW g \in Goroutines, SortList(g)
  PROVE  IInv'
<1> USE DEF IInv
<1> DEFINE average == [h \in Hosts |-> IF count[h] > 0 THEN rtt[h] \div count[h] ELSE rtt[h]]
<1>1. /\ rtt' = average /\ list' \in SortedBy(average)
      /\ count' = [h \in Hosts |-> IF count[h] > 0 THEN 1 ELSE 0]
      /\ readers = {} /\ writer' = NoOne /\ Goto(g, "sorting", "reset")
      /\ UNCHANGED <<called, readers, lookupVars, begun, padded>>
  BY DEF SortList
<1>2. list' \in Seq(Hosts) /\ Len(list') = Len(list)
  BY <1>1, SortedList DEF TypeOK
<1>3. list' # <<>>
  BY <1>2 DEF TypeOK
<1>4. rtt' \in [Hosts -> Nat] /\ count' \in [Hosts -> Nat]
  BY <1>1, Average, Zenon DEF TypeOK
<1>5. TypeOK'
  BY <1>1, <1>2, <1>4 DEF TypeOK, Goto, lookupVars, Pcs
<1>6. LockHeld'
  <2>1. writer = g
    BY <1>1 DEF LockHeld, Goto, Writing
  <2> QED
    BY <1>1, <2>1 DEF LockHeld, TypeOK, Goto, Reading, Writing
<1>7. TriedKnown' /\ NoServerSkipped'
  BY <1>1, WriterAlone, Zenon DEF TypeOK, TriedKnown, NoServerSkipped, Goto, lookupVars, Reading
<1>8. AverageInRange'
  <2> SUFFICES ASSUME NEW j \in Hosts \ padded PROVE InRange(count'[j], rtt'[j])
    BY <1>1 DEF AverageInRange, InRange
  <2>1. count[j] \in Nat /\ rtt[j] \in Nat
    BY DEF TypeOK
  <2>2. PICK q \in Rtts, r \in Rtts : count[j] * q <= rtt[j] /\ rtt[j] <= count[j] * r
    BY DEF AverageInRange
  <2>3. q \in Nat /\ r \in Nat
    BY AuthServersAssumption
  <2>4. CASE count[j] > 0
    <3>1. count'[j] = 1 /\ rtt'[j] = rtt[j] \div count[j]
      BY <1>1, <2>4
    <3>2. q <= rtt[j] \div count[j] /\ rtt[j] \div count[j] <= r /\ rtt[j] \div count[j] \in Nat
      BY <2>1, <2>2, <2>3, <2>4, Average, Zenon
    <3> QED
      BY <2>3, <3>1, <3>2 DEF InRange
  <2>5. CASE ~(count[j] > 0)
    <3>1. count[j] = 0 /\ count'[j] = 0 /\ rtt'[j] = rtt[j]
      BY <1>1, <2>1, <2>5
    <3>2. rtt[j] = 0
      BY <2>1, <2>2, <2>3, <3>1
    <3> QED
      BY <3>1, <3>2, ZeroInRange
  <2> QED
    BY <2>4, <2>5
<1> QED
  BY <1>3, <1>5, <1>6, <1>7, <1>8

\* The new root servers under the write lock.
LEMMA PrimeStep ==
  ASSUME IInv, Primer \in Goroutines, NEW l \in Lists, PrimeSet(l)
  PROVE  IInv'
<1> USE DEF IInv
<1>1. l \in Seq(Hosts) /\ l # <<>>
  BY AuthServersAssumption
<1>2. TypeOK' /\ list' # <<>>
  BY <1>1, SMTT(30) DEF TypeOK, PrimeSet, Goto, lookupVars, Pcs
<1>3. LockHeld'
  <2>1. writer = Primer
    BY DEF LockHeld, PrimeSet, Goto, Writing
  <2> QED
    BY <2>1 DEF LockHeld, TypeOK, PrimeSet, Goto, Reading, Writing
<1>4. TriedKnown' /\ NoServerSkipped'
  BY WriterAlone, Zenon DEF TypeOK, PrimeSet, TriedKnown, NoServerSkipped, Goto, lookupVars, Reading
<1>5. AverageInRange'
  BY ZeroInRange DEF PrimeSet, AverageInRange, InRange
<1> QED
  BY <1>2, <1>3, <1>4, <1>5

-----------------------------------------------------------------------------
\* The invariant is inductive.
LEMMA NextInv == IInv /\ [Next]_vars => IInv'
<1> SUFFICES ASSUME IInv, [Next]_vars PROVE IInv'
  OBVIOUS
<1>1. ASSUME NEW g \in Goroutines, \/ \E n \in NetsOf(g) : LookupStart(g, n)
                                  \/ Lookup(g)
      PROVE  IInv'
  BY <1>1, QuietStep, LockStep, SortStep, ExchangeStep, LookupEndStep DEF Lookup
<1>2. CASE Primer \in Goroutines /\ Prime
  BY <1>2, QuietStep, LockStep, PrimeStep DEF Prime
<1>3. ASSUME NEW g \in Debuggers, RLock(g, "idle", "debug") \/ DebugRoot(g)
      PROVE  IInv'
  BY <1>3, DebuggersAreGoroutines, LockStep, StringStep DEF DebugRoot
<1>4. CASE UNCHANGED vars
  BY <1>4 DEF IInv, vars, dataVars, lockVars, lookupVars, TypeOK, LockHeld, TriedKnown,
     NoServerSkipped, AverageInRange
<1> QED
  BY <1>1, <1>2, <1>3, <1>4 DEF Next

\* The inductive invariant holds throughout.
THEOREM Invariance == Spec => []IInv
  BY InitInv, NextInv, PTL DEF Spec

\* The list, its lock and the lookups have their types; the call counter in
\* particular never goes below zero, whoever resets it.
THEOREM TypeCorrect == Spec => []TypeOK
<1>1. IInv => TypeOK
  BY DEF IInv
<1> QED
  BY Invariance, <1>1, PTL

\* A lookup returns the reply of the first server that answers well, or has asked
\* every server once, whatever sorts and priming do to the shared list.
THEOREM NoneSkipped == Spec => []NoServerSkipped
<1>1. IInv => NoServerSkipped
  BY DEF IInv
<1> QED
  BY Invariance, <1>1, PTL

\* No lookup walks an empty list, so none reaches the panic after the loop.
THEOREM NoEmptyWalk == Spec => []ListNeverEmpty
<1>1. IInv => ListNeverEmpty
  BY DEF IInv, ListNeverEmpty
<1> QED
  BY Invariance, <1>1, PTL

\* The averages that TrySort compares lie within the times exchange measures.
THEOREM AveragesInRange == Spec => []AverageInRange
<1>1. IInv => AverageInRange
  BY DEF IInv
<1> QED
  BY Invariance, <1>1, PTL
=============================================================================
