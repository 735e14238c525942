-------------------------- MODULE HandlerInvariant --------------------------
(***************************************************************************)
(* The inductive invariant of Handler, facts about stacks of frames, and the *)
(* three ways in which a step changes a goroutine's stack and the queue:   *)
(* leaving the channels alone, adding one, ending one.  Each keeps the     *)
(* invariant.                                                              *)
(***************************************************************************)
EXTENDS Handler, TLAPS

-----------------------------------------------------------------------------
(* The inductive invariant.                                                *)

\* The program points before Lqueue.Add.
BeforeAdd == {"wait", "blocked", "get", "qget", "eget", "block", "add"}

\* What holds of every frame f of goroutine g by itself: Done is deferred only
\* after Add, the channel of the frame was made by its goroutine, and Resolve of
\* a CNAME target starts with a target and a try left.
FrameInv(g, f) ==
    /\ f.pc \in BeforeAdd => ~f.deferred
    /\ ~f.deferred \/ f.pc = "nested" => f.mine = NoChan
    /\ f.mine # NoChan => f.mine[1] = g /\ f.mine[2] <= made[g]
    /\ f.pc = "blocked" =>
          f.waits \in (closed \cup orphaned \cup {delay[f.key]}) \ {NoChan}
    /\ f.pc = "chase" => f.target # NoKey /\ f.tries > 0

\* The frames of one goroutine: only the outermost one serves a DoH client, and
\* an inner query is its retry, made after it has given up its channel.
StackInv(s) ==
    \A i \in 1..Len(s) :
        /\ s[i].net = "https" => i = 1
        /\ s[i].fn = "query" /\ i > 1 => i = 2 /\ s[1].mine = NoChan

\* Channels in use are not newer than the last one made.
FreshInv ==
    /\ \A k \in Keys : InFlight(k) => delay[k][2] <= made[delay[k][1]]
    /\ \A c \in closed : c[2] <= made[c[1]]

\* A channel is in the queue under one key, and is the channel of one frame.
UniqueInv ==
    /\ \A j, k \in Keys : InFlight(j) /\ delay[j] = delay[k] => j = k
    /\ \A g \in Goroutines : \A i, j \in 1..Len(stack[g]) :
          stack[g][i].mine # NoChan /\ stack[g][i].mine = stack[g][j].mine => i = j

\* A lookup that nobody has raced is in the queue with its own channel.
VisibleInv ==
    \A g \in Goroutines : \A i \in 1..Len(stack[g]) :
        stack[g][i].mine # NoChan /\ stack[g][i].key \notin raced
            => delay[stack[g][i].key] = stack[g][i].mine

\* NoSelfWait for every frame.
WaitInv ==
    \A g \in Goroutines : \A i \in 1..Len(stack[g]) :
        stack[g][i].pc = "blocked" => stack[g][i].waits[1] # g

IInv ==
    /\ TypeOK
    /\ \A g \in Goroutines : \A i \in 1..Len(stack[g]) : FrameInv(g, stack[g][i])
    /\ \A g \in Goroutines : StackInv(stack[g])
    /\ FreshInv
    /\ UniqueInv
    /\ VisibleInv
    /\ WaitInv
    /\ NoLeakedLookup
    /\ ClosedOnce

-----------------------------------------------------------------------------
(* Facts about stacks.                                                     *)

\* The innermost frame of a stack that is not empty is a frame.
LEMMA TopStack ==
    ASSUME NEW S, NEW s \in Seq(S), s # <<>>
    PROVE  Len(s) \in Nat /\ Len(s) > 0 /\ s[Len(s)] \in S
  OBVIOUS

\* A prefix of a stack keeps its frames.
LEMMA PrefixStack ==
    ASSUME NEW S, NEW s \in Seq(S), NEW n \in 0..Len(s)
    PROVE  /\ SubSeq(s, 1, n) \in Seq(S)
           /\ Len(SubSeq(s, 1, n)) = n
           /\ \A i \in 1..n : SubSeq(s, 1, n)[i] = s[i]
  OBVIOUS

\* Dropping the innermost frame keeps the others (Leave).
LEMMA DropStack ==
    ASSUME NEW S, NEW s \in Seq(S), s # <<>>
    PROVE  LET t == SubSeq(s, 1, Len(s) - 1)
           IN  /\ t \in Seq(S)
               /\ Len(t) = Len(s) - 1
               /\ \A i \in 1..Len(t) : t[i] = s[i]
  <1> DEFINE n == Len(s) - 1
  <1>1. n \in 0..Len(s)
    BY TopStack
  <1> HIDE DEF n
  <1>2. /\ SubSeq(s, 1, n) \in Seq(S)
        /\ Len(SubSeq(s, 1, n)) = n
        /\ \A i \in 1..n : SubSeq(s, 1, n)[i] = s[i]
    BY <1>1, PrefixStack
  <1> QED
    BY <1>2 DEF n

\* Pushing a frame keeps the others.
LEMMA PushStack ==
    ASSUME NEW S, NEW s \in Seq(S), NEW f \in S
    PROVE  /\ Append(s, f) \in Seq(S)
           /\ Len(Append(s, f)) = Len(s) + 1
           /\ \A i \in 1..Len(s) : Append(s, f)[i] = s[i]
           /\ Append(s, f)[Len(s) + 1] = f
  OBVIOUS

\* Updating a frame keeps the others.
LEMMA UpdateStack ==
    ASSUME NEW S, NEW s \in Seq(S), NEW n \in 1..Len(s), NEW f \in S
    PROVE  /\ [s EXCEPT ![n] = f] \in Seq(S)
           /\ Len([s EXCEPT ![n] = f]) = Len(s)
           /\ \A i \in 1..Len(s) :
                 [s EXCEPT ![n] = f][i] = IF i = n THEN f ELSE s[i]
           /\ s[n] \in S
  OBVIOUS

\* Replacing the innermost frame keeps the others (Become).
LEMMA BecomeStack ==
    ASSUME NEW S, NEW s \in Seq(S), s # <<>>, NEW f \in S
    PROVE  LET t == Append(SubSeq(s, 1, Len(s) - 1), f)
           IN  /\ t \in Seq(S)
               /\ Len(t) = Len(s)
               /\ \A i \in 1..Len(s) : t[i] = IF i = Len(s) THEN f ELSE s[i]
  <1> DEFINE b == SubSeq(s, 1, Len(s) - 1)
  <1>1. /\ b \in Seq(S)
        /\ Len(b) = Len(s) - 1
        /\ \A i \in 1..Len(b) : b[i] = s[i]
    BY DropStack
  <1>2. Len(s) \in Nat /\ Len(s) > 0
    BY TopStack
  <1> HIDE DEF b
  <1>3. /\ Append(b, f) \in Seq(S)
        /\ Len(Append(b, f)) = Len(s)
        /\ \A i \in 1..Len(b) : Append(b, f)[i] = s[i]
        /\ Append(b, f)[Len(s)] = f
    BY <1>1, <1>2, PushStack
  <1>4. \A i \in 1..Len(s) : Append(b, f)[i] = IF i = Len(s) THEN f ELSE s[i]
    BY <1>1, <1>2, <1>3
  <1> QED
    BY <1>3, <1>4 DEF b

\* Replacing the innermost frame and pushing a callee (Enter).
LEMMA EnterStack ==
    ASSUME NEW S, NEW s \in Seq(S), s # <<>>, NEW f \in S, NEW e \in S
    PROVE  LET t == Append(Append(SubSeq(s, 1, Len(s) - 1), f), e)
           IN  /\ t \in Seq(S)
               /\ Len(t) = Len(s) + 1
               /\ \A i \in 1..Len(s) : t[i] = IF i = Len(s) THEN f ELSE s[i]
               /\ t[Len(s) + 1] = e
  <1> DEFINE b == Append(SubSeq(s, 1, Len(s) - 1), f)
  <1>1. /\ b \in Seq(S)
        /\ Len(b) = Len(s)
        /\ \A i \in 1..Len(s) : b[i] = IF i = Len(s) THEN f ELSE s[i]
    BY BecomeStack
  <1> HIDE DEF b
  <1>2. /\ Append(b, e) \in Seq(S)
        /\ Len(Append(b, e)) = Len(s) + 1
        /\ \A i \in 1..Len(s) : Append(b, e)[i] = b[i]
        /\ Append(b, e)[Len(s) + 1] = e
    BY <1>1, PushStack
  <1> QED
    BY <1>1, <1>2 DEF b

\* The fields of a frame have their types.
LEMMA FrameFields ==
    ASSUME NEW f \in Frame
    PROVE  /\ f.key \in Keys
           /\ f.net \in {"udp", "tcp", "https"}
           /\ f.mine \in Chan \cup {NoChan}
           /\ f.waits \in Chan \cup {NoChan}
           /\ f.target \in Keys \cup {NoKey}
           /\ f.tries \in 0..CnameDepth
           /\ f.res \in Results
  BY DEF Frame

-----------------------------------------------------------------------------
(* The three ways a step of goroutine g changes its stack and the queue.   *)

\* Stacks s and t hold the same channels for the same keys.
SameMine(s, t) ==
    /\ \A i \in 1..Len(t) : t[i].mine # NoChan =>
          i \in 1..Len(s) /\ s[i].mine = t[i].mine /\ s[i].key = t[i].key
    /\ \A i \in 1..Len(s) : s[i].mine # NoChan =>
          i \in 1..Len(t) /\ s[i].mine = t[i].mine /\ s[i].key = t[i].key

\* What a new stack t of g must satisfy by itself.
GoodStack(g, t) ==
    /\ \A i \in 1..Len(t) : FrameInv(g, t[i])
    /\ \A i \in 1..Len(t) : t[i].pc = "blocked" => t[i].waits[1] # g
    /\ StackInv(t)

\* A step that leaves the queue alone and no channel changes hands.
LEMMA QuietStep ==
    ASSUME IInv, NEW g \in Goroutines, NEW t \in Seq(Frame),
           stack' = [stack EXCEPT ![g] = t], UNCHANGED queueVars, TypeOK',
           GoodStack(g, t), SameMine(stack[g], t)
    PROVE  IInv'
  <1> USE DEF InFlight, QueueTypeOK, queueVars
  <1>1. /\ stack \in [Goroutines -> Seq(Frame)]
        /\ \A h \in Goroutines : stack'[h] = IF h = g THEN t ELSE stack[h]
    BY DEF IInv, TypeOK
  <1>2. \A h \in Goroutines : \A i \in 1..Len(stack'[h]) :
            FrameInv(h, stack[h][i])'
    BY <1>1 DEF IInv, FrameInv, GoodStack
  <1>3. \A h \in Goroutines : StackInv(stack[h])'
    BY <1>1 DEF IInv, StackInv, GoodStack
  <1>4. FreshInv' /\ ClosedOnce'
    BY DEF IInv, FreshInv, ClosedOnce
  <1>5. UniqueInv'
    <2>1. \A j, k \in Keys : delay'[j] # NoChan /\ delay'[j] = delay'[k] => j = k
      BY DEF IInv, UniqueInv
    <2>2. ASSUME NEW h \in Goroutines, NEW i \in 1..Len(stack'[h]),
                 NEW j \in 1..Len(stack'[h]), stack'[h][i].mine # NoChan,
                 stack'[h][i].mine = stack'[h][j].mine
          PROVE  i = j
      <3>1. /\ i \in 1..Len(stack[h]) /\ j \in 1..Len(stack[h])
            /\ stack[h][i].mine = stack'[h][i].mine
            /\ stack[h][j].mine = stack'[h][j].mine
        BY <1>1, <2>2 DEF SameMine
      <3>2. UniqueInv
        BY DEF IInv
      <3> QED
        BY <2>2, <3>1, <3>2 DEF UniqueInv
    <2> QED
      BY <2>1, <2>2 DEF UniqueInv
  <1>6. VisibleInv'
    BY <1>1 DEF IInv, VisibleInv, SameMine
  <1>7. WaitInv'
    BY <1>1 DEF IInv, WaitInv, GoodStack
  <1>8. NoLeakedLookup'
    <2> SUFFICES ASSUME NEW k \in Keys, delay[k] # NoChan
                 PROVE  \E h \in Goroutines : \E i \in DOMAIN stack'[h] :
                            stack'[h][i].key = k /\ stack'[h][i].mine = delay[k]
      BY DEF NoLeakedLookup
    <2>1. PICK h \in Goroutines : \E i \in DOMAIN stack[h] :
              stack[h][i].key = k /\ stack[h][i].mine = delay[k]
      BY DEF IInv, NoLeakedLookup
    <2> PICK i \in DOMAIN stack[h] :
              stack[h][i].key = k /\ stack[h][i].mine = delay[k]
      BY <2>1
    <2>2. i \in 1..Len(stack[h])
      BY <1>1
    <2>3. i \in DOMAIN stack'[h] /\ stack'[h][i].key = k
          /\ stack'[h][i].mine = delay[k]
      BY <1>1, <2>2 DEF SameMine
    <2> QED
      BY <2>3
  <1> QED
    BY <1>2, <1>3, <1>4, <1>5, <1>6, <1>7, <1>8 DEF IInv

\* A step that calls Lqueue.Add for the innermost frame.
LEMMA AddStep ==
    ASSUME IInv, NEW g \in Goroutines, NEW t \in Seq(Frame), NEW n \in Nat \ {0},
           stack' = [stack EXCEPT ![g] = t], TypeOK',
           Len(stack[g]) = n, Len(t) = n,
           \A i \in 1..n : i # n => t[i] = stack[g][i],
           stack[g][n].mine = NoChan, t[n].mine = FreshChan(g),
           t[n].key = stack[g][n].key, t[n].deferred,
           t[n].pc \in {"resolve", "depth"}, StackInv(t),
           Add(g, t[n].key)
    PROVE  IInv'
  <1> USE DEF InFlight
  <1> DEFINE k == t[n].key
             c == FreshChan(g)
  <1>1. /\ stack \in [Goroutines -> Seq(Frame)]
        /\ \A h \in Goroutines : stack'[h] = IF h = g THEN t ELSE stack[h]
        /\ QueueTypeOK
    BY DEF IInv, TypeOK
  <1>2. k \in Keys
    <2>1. t[n] \in Frame
      OBVIOUS
    <2> QED
      BY <2>1, FrameFields
  <1>3. /\ c \in Chan /\ c # NoChan /\ c[1] = g /\ c[2] = made[g] + 1
        /\ c \notin closed
        /\ \A j \in Keys : delay[j] # c
    <2>1. made[g] \in Nat
      BY <1>1 DEF QueueTypeOK
    <2>2. c \in Chan /\ c[1] = g /\ c[2] = made[g] + 1
      BY <2>1 DEF FreshChan, Chan
    <2> HIDE DEF c
    <2>3. c \notin closed
      BY <2>1, <2>2 DEF IInv, FreshInv
    <2>4. c # NoChan
      BY <2>2, NoChanAssumption
    <2>5. \A j \in Keys : delay[j] # c
      BY <2>1, <2>2, <2>4 DEF IInv, FreshInv
    <2> QED
      BY <2>2, <2>3, <2>4, <2>5
  <1>4. \A h \in Goroutines : \A i \in 1..Len(stack[h]) : stack[h][i].mine # c
    <2> HIDE DEF c
    <2> SUFFICES ASSUME NEW h \in Goroutines, NEW i \in 1..Len(stack[h]),
                        stack[h][i].mine = c
                 PROVE  FALSE
      OBVIOUS
    <2>1. FrameInv(h, stack[h][i]) /\ made[g] \in Nat
      BY <1>1 DEF IInv, QueueTypeOK
    <2>2. c[1] = h /\ c[2] <= made[h]
      BY <1>3, <2>1 DEF FrameInv
    <2> QED
      BY <1>3, <2>1, <2>2
  <1>5. /\ delay' = [delay EXCEPT ![k] = c]
        /\ closed' = closed
        /\ made' = [made EXCEPT ![g] = @ + 1]
        /\ orphaned' = orphaned \cup ({delay[k]} \ {NoChan})
        /\ raced' = raced \cup (IF delay[k] # NoChan THEN {k} ELSE {})
    BY DEF Add
  <1>6. \A h \in Goroutines : \A i \in 1..Len(stack'[h]) :
            IF h = g /\ i = n THEN stack'[h][i] = t[n]
            ELSE i \in 1..Len(stack[h]) /\ stack'[h][i] = stack[h][i]
    BY <1>1
  <1>7. \A h \in Goroutines : made'[h] \in Nat /\ made[h] <= made'[h]
    BY <1>1, <1>5 DEF QueueTypeOK
  <1>8. /\ \A i \in 1..n : stack'[g][i] = IF i = n THEN t[n] ELSE stack[g][i]
        /\ Len(stack'[g]) = n
        /\ t[n].mine = c
    BY <1>1
  <1> HIDE DEF k, c
  <1>9. \A h \in Goroutines : \A i \in 1..Len(stack'[h]) :
            FrameInv(h, stack[h][i])'
    <2> SUFFICES ASSUME NEW h \in Goroutines, NEW i \in 1..Len(stack'[h])
                 PROVE  FrameInv(h, stack[h][i])'
      OBVIOUS
    <2>1. CASE h = g /\ i = n
      BY <1>3, <1>5, <1>6, <2>1, <1>1 DEF FrameInv, BeforeAdd, QueueTypeOK, c
    <2>2. CASE ~(h = g /\ i = n)
      <3>1. i \in 1..Len(stack[h]) /\ stack'[h][i] = stack[h][i]
        BY <1>6, <2>2
      <3>2. FrameInv(h, stack[h][i]) /\ stack[h][i] \in Frame
        BY <1>1, <3>1 DEF IInv
      <3>3. stack[h][i].key \in Keys /\ stack[h][i].mine \in Chan \cup {NoChan}
        BY <3>2 DEF Frame
      <3> QED
        BY <1>1, <1>2, <1>5, <1>7, <3>1, <3>2, <3>3, SMTT(30)
        DEF FrameInv, QueueTypeOK, Chan
    <2> QED
      BY <2>1, <2>2
  <1>10. \A h \in Goroutines : StackInv(stack[h])'
    BY <1>1 DEF IInv, StackInv
  <1>11. FreshInv'
    BY <1>1, <1>2, <1>3, <1>5, <1>7 DEF IInv, FreshInv, QueueTypeOK, Chan
  <1>12. ClosedOnce'
    BY <1>1, <1>2, <1>3, <1>5 DEF IInv, ClosedOnce, QueueTypeOK
  <1>13. UniqueInv'
    <2>1. \A i, j \in Keys : delay'[i] # NoChan /\ delay'[i] = delay'[j] => i = j
      BY <1>1, <1>2, <1>3, <1>5 DEF IInv, UniqueInv, QueueTypeOK
    <2>2. ASSUME NEW h \in Goroutines, NEW i \in 1..Len(stack'[h]),
                 NEW j \in 1..Len(stack'[h]), stack'[h][i].mine # NoChan,
                 stack'[h][i].mine = stack'[h][j].mine
          PROVE  i = j
      <3>1. CASE h = g /\ i = n
        BY <2>2, <3>1, <1>1, <1>4, <1>6, <1>8
      <3>2. CASE h = g /\ j = n
        BY <2>2, <3>2, <1>1, <1>4, <1>6, <1>8
      <3>3. CASE ~(h = g /\ i = n) /\ ~(h = g /\ j = n)
        BY <2>2, <3>3, <1>6 DEF IInv, UniqueInv
      <3> QED
        BY <3>1, <3>2, <3>3
    <2> QED
      BY <2>1, <2>2 DEF UniqueInv
  <1>14. VisibleInv'
    <2> SUFFICES ASSUME NEW h \in Goroutines, NEW i \in 1..Len(stack'[h]),
                        stack'[h][i].mine # NoChan, stack'[h][i].key \notin raced'
                 PROVE  delay'[stack'[h][i].key] = stack'[h][i].mine
      BY DEF VisibleInv
    <2>1. CASE h = g /\ i = n
      BY <1>1, <1>2, <1>5, <1>6, <1>8, <2>1 DEF QueueTypeOK, k
    <2>2. CASE ~(h = g /\ i = n)
      <3>1. i \in 1..Len(stack[h]) /\ stack'[h][i] = stack[h][i]
        BY <1>6, <2>2
      <3>2. stack[h][i] \in Frame /\ stack[h][i].key \in Keys
        BY <1>1, <3>1, FrameFields
      <3>3. delay[stack[h][i].key] = stack[h][i].mine
        BY <3>1, <1>5 DEF IInv, VisibleInv
      <3>4. stack[h][i].key # k
        BY <1>2, <1>5, <3>1, <3>3
      <3> QED
        BY <1>1, <1>5, <3>1, <3>2, <3>3, <3>4 DEF QueueTypeOK
    <2> QED
      BY <2>1, <2>2
  <1>15. WaitInv'
    BY <1>6 DEF IInv, WaitInv, BeforeAdd
  <1>16. NoLeakedLookup'
    <2> SUFFICES ASSUME NEW j \in Keys, delay'[j] # NoChan
                 PROVE  \E h \in Goroutines : \E i \in DOMAIN stack'[h] :
                            stack'[h][i].key = j /\ stack'[h][i].mine = delay'[j]
      BY DEF NoLeakedLookup
    <2>1. CASE j = k
      <3>1. n \in DOMAIN stack'[g] /\ stack'[g][n].key = k /\ stack'[g][n].mine = c
        BY <1>1, <1>8 DEF k
      <3> QED
        BY <1>1, <1>5, <2>1, <3>1, Zenon DEF QueueTypeOK
    <2>2. CASE j # k
      <3>1. delay'[j] = delay[j]
        BY <1>1, <1>5, <2>2 DEF QueueTypeOK
      <3>2. PICK h \in Goroutines : \E i \in DOMAIN stack[h] :
                stack[h][i].key = j /\ stack[h][i].mine = delay[j]
        BY <3>1 DEF IInv, NoLeakedLookup
      <3> PICK i \in DOMAIN stack[h] :
                stack[h][i].key = j /\ stack[h][i].mine = delay[j]
        BY <3>2
      <3>3. i \in DOMAIN stack'[h] /\ stack'[h][i] = stack[h][i]
        BY <1>1, <2>2 DEF k
      <3> QED
        BY <3>1, <3>3
    <2> QED
      BY <2>1, <2>2
  <1> QED
    BY <1>9, <1>10, <1>11, <1>12, <1>13, <1>14, <1>15, <1>16 DEF IInv

\* A step that calls Lqueue.Done for the innermost frame, which then returns or
\* starts a retry without a channel of its own.
LEMMA DoneStep ==
    ASSUME IInv, NEW g \in Goroutines, NEW t \in Seq(Frame), NEW n \in Nat \ {0},
           stack' = [stack EXCEPT ![g] = t], TypeOK',
           Len(stack[g]) = n, GoodStack(g, t),
           \A i \in 1..Len(t) : t[i].mine # NoChan =>
               /\ i \in 1..n /\ i # n
               /\ stack[g][i].mine = t[i].mine /\ stack[g][i].key = t[i].key,
           \A i \in 1..n : i # n /\ stack[g][i].mine # NoChan =>
               /\ i \in 1..Len(t)
               /\ stack[g][i].mine = t[i].mine /\ stack[g][i].key = t[i].key,
           Done(stack[g][n].key, stack[g][n].mine)
    PROVE  IInv'
  <1> USE DEF InFlight
  <1> DEFINE k == stack[g][n].key
             m == stack[g][n].mine
  <1>1. /\ stack \in [Goroutines -> Seq(Frame)]
        /\ \A h \in Goroutines : stack'[h] = IF h = g THEN t ELSE stack[h]
        /\ QueueTypeOK
    BY DEF IInv, TypeOK
  <1>2. stack[g][n] \in Frame /\ k \in Keys
    BY <1>1, FrameFields
  <1>3. /\ closed' = closed \cup ({delay[k]} \ {NoChan})
        /\ delay' = [delay EXCEPT ![k] = NoChan]
        /\ raced' = raced \cup (IF delay[k] \in {m, NoChan} THEN {} ELSE {k})
        /\ made' = made /\ orphaned' = orphaned
    BY DEF Done
  <1>4. \A h \in Goroutines : \A i \in 1..Len(stack'[h]) :
            /\ stack'[h][i] \in Frame
            /\ FrameInv(h, stack'[h][i])
            /\ stack'[h][i].pc = "blocked" => stack'[h][i].waits[1] # h
            /\ stack'[h][i].mine # NoChan =>
                 /\ i \in 1..Len(stack[h]) /\ ~(h = g /\ i = n)
                 /\ stack[h][i].mine = stack'[h][i].mine
                 /\ stack[h][i].key = stack'[h][i].key
    BY <1>1 DEF GoodStack, IInv, WaitInv
  <1>5. \A h \in Goroutines : StackInv(stack[h])'
    BY <1>1 DEF IInv, StackInv, GoodStack
  <1> HIDE DEF k, m
  <1>6. \A h \in Goroutines : \A i \in 1..Len(stack'[h]) :
            FrameInv(h, stack[h][i])'
    <2> SUFFICES ASSUME NEW h \in Goroutines, NEW i \in 1..Len(stack'[h])
                 PROVE  FrameInv(h, stack[h][i])'
      OBVIOUS
    <2>1. stack'[h][i].key \in Keys /\ FrameInv(h, stack'[h][i])
      BY <1>4, FrameFields
    <2> QED
      BY <1>1, <1>2, <1>3, <2>1 DEF FrameInv, QueueTypeOK
  <1>7. FreshInv'
    BY <1>1, <1>2, <1>3 DEF IInv, FreshInv, QueueTypeOK
  <1>8. ClosedOnce'
    BY <1>1, <1>2, <1>3, NoChanAssumption
    DEF IInv, ClosedOnce, UniqueInv, QueueTypeOK
  <1>9. UniqueInv'
    <2>1. \A i, j \in Keys : delay'[i] # NoChan /\ delay'[i] = delay'[j] => i = j
      BY <1>1, <1>2, <1>3 DEF IInv, UniqueInv, QueueTypeOK
    <2>2. ASSUME NEW h \in Goroutines, NEW i \in 1..Len(stack'[h]),
                 NEW j \in 1..Len(stack'[h]), stack'[h][i].mine # NoChan,
                 stack'[h][i].mine = stack'[h][j].mine
          PROVE  i = j
      <3>1. /\ i \in 1..Len(stack[h]) /\ j \in 1..Len(stack[h])
            /\ stack[h][i].mine = stack'[h][i].mine
            /\ stack[h][j].mine = stack'[h][j].mine
        BY <1>4, <2>2
      <3>2. UniqueInv
        BY DEF IInv
      <3> QED
        BY <2>2, <3>1, <3>2 DEF UniqueInv
    <2> QED
      BY <2>1, <2>2 DEF UniqueInv
  <1>10. VisibleInv'
    <2> SUFFICES ASSUME NEW h \in Goroutines, NEW i \in 1..Len(stack'[h]),
                        stack'[h][i].mine # NoChan, stack'[h][i].key \notin raced'
                 PROVE  delay'[stack'[h][i].key] = stack'[h][i].mine
      BY DEF VisibleInv
    <2>1. /\ i \in 1..Len(stack[h]) /\ ~(h = g /\ i = n)
          /\ stack[h][i].mine = stack'[h][i].mine
          /\ stack[h][i].key = stack'[h][i].key
      BY <1>4
    <2>2. stack[h][i] \in Frame /\ stack[h][i].key \in Keys
      BY <1>1, <2>1, FrameFields
    <2>3. delay[stack[h][i].key] = stack[h][i].mine
      BY <2>1, <1>3, SMTT(30) DEF IInv, VisibleInv
    <2>4. stack[h][i].key # k
      <3> SUFFICES ASSUME stack[h][i].key = k PROVE FALSE
        OBVIOUS
      <3>1. delay[k] = m /\ m = stack[h][i].mine /\ m # NoChan
        BY <1>3, <2>1, <2>3
      <3>2. FrameInv(h, stack[h][i]) /\ FrameInv(g, stack[g][n])
        BY <2>1 DEF IInv
      <3>3. h = g
        BY <3>1, <3>2 DEF FrameInv, m
      <3>4. UniqueInv /\ n \in 1..Len(stack[g])
        BY DEF IInv
      <3> QED
        BY <3>1, <3>3, <3>4, <2>1 DEF UniqueInv, m
    <2> QED
      BY <1>1, <1>3, <2>1, <2>2, <2>3, <2>4 DEF QueueTypeOK
  <1>11. WaitInv'
    BY <1>4 DEF WaitInv
  <1>12. NoLeakedLookup'
    <2> SUFFICES ASSUME NEW j \in Keys, delay'[j] # NoChan
                 PROVE  \E h \in Goroutines : \E i \in DOMAIN stack'[h] :
                            stack'[h][i].key = j /\ stack'[h][i].mine = delay'[j]
      BY DEF NoLeakedLookup
    <2>1. j # k /\ delay'[j] = delay[j]
      BY <1>1, <1>2, <1>3 DEF QueueTypeOK
    <2>2. PICK h \in Goroutines : \E i \in DOMAIN stack[h] :
              stack[h][i].key = j /\ stack[h][i].mine = delay[j]
      BY <2>1 DEF IInv, NoLeakedLookup
    <2> PICK i \in DOMAIN stack[h] :
              stack[h][i].key = j /\ stack[h][i].mine = delay[j]
      BY <2>2
    <2>3. i \in DOMAIN stack'[h] /\ stack'[h][i].key = j
          /\ stack'[h][i].mine = delay[j]
      BY <1>1, <2>1 DEF k
    <2> QED
      BY <2>1, <2>3
  <1> QED
    BY <1>5, <1>6, <1>7, <1>8, <1>9, <1>10, <1>11, <1>12 DEF IInv
=============================================================================
