---------------------------- MODULE HandlerSteps ----------------------------
(***************************************************************************)
(* The steps of a goroutine in the terms that the actions of Handler are   *)
(* written with (Become, Enter, Leave, with Add and Done): when each of    *)
(* them keeps the invariant.                                               *)
(***************************************************************************)
EXTENDS HandlerInvariant, TLAPS

-----------------------------------------------------------------------------
(* The same for the operators that the actions are written with.           *)

\* The type of everything but the stacks and the queue.
RestOK ==
    /\ calls \in [Goroutines -> 0..MaxCalls]
    /\ reply \in [Goroutines -> [key : Keys \cup {NoKey}, res : Results]]
    /\ qcache \in [Keys -> {"none", "answer", "null"}]
    /\ ecache \subseteq Keys

\* A frame f that may take the place of e in a stack of g.
Replaces(g, f, e) ==
    /\ f \in Frame /\ FrameInv(g, f)
    /\ f.pc = "blocked" => f.waits[1] # g
    /\ f.fn = e.fn /\ f.key = e.key /\ f.net = e.net

\* The innermost frame of g satisfies what all frames do.
LEMMA TopFrame ==
    ASSUME IInv, NEW g \in Goroutines, stack[g] # <<>>
    PROVE  /\ stack[g] \in Seq(Frame)
           /\ Len(stack[g]) \in Nat \ {0}
           /\ Top(g) \in Frame /\ FrameInv(g, Top(g))
           /\ Top(g).pc = "blocked" => Top(g).waits[1] # g
  <1>1. stack[g] \in Seq(Frame)
    BY DEF IInv, TypeOK
  <1>2. Len(stack[g]) \in Nat /\ Len(stack[g]) > 0 /\ Top(g) \in Frame
    BY <1>1, TopStack DEF Top
  <1> QED
    BY <1>1, <1>2 DEF IInv, WaitInv, Top

\* Become keeps the invariant when the new frame keeps the channel.
LEMMA BecomeStep ==
    ASSUME IInv, NEW g \in Goroutines, stack[g] # <<>>, NEW f,
           Replaces(g, f, Top(g)), f.mine = Top(g).mine,
           Become(g, f), UNCHANGED queueVars, RestOK'
    PROVE  IInv'
  <1> DEFINE t == Append(Below(g), f)
             s == stack[g]
  <1>1. s \in Seq(Frame) /\ Len(s) \in Nat \ {0}
    BY TopFrame
  <1>2. f \in Frame
    BY DEF Replaces
  <1>3. /\ t \in Seq(Frame)
        /\ Len(t) = Len(s)
        /\ \A i \in 1..Len(s) : t[i] = IF i = Len(s) THEN f ELSE s[i]
    BY <1>1, <1>2, BecomeStack DEF Below
  <1>4. stack' = [stack EXCEPT ![g] = t]
    BY DEF Become
  <1> HIDE DEF t
  <1>5. TypeOK'
    BY <1>3, <1>4 DEF IInv, TypeOK, QueueTypeOK, queueVars, RestOK
  <1>6. GoodStack(g, t)
    <2>1. \A i \in 1..Len(t) : FrameInv(g, t[i])
      BY <1>1, <1>3 DEF IInv, Replaces
    <2>2. \A i \in 1..Len(t) : t[i].pc = "blocked" => t[i].waits[1] # g
      BY <1>1, <1>3 DEF IInv, WaitInv, Replaces
    <2>3. StackInv(t)
      BY <1>1, <1>3 DEF IInv, StackInv, Replaces, Top
    <2> QED
      BY <2>1, <2>2, <2>3 DEF GoodStack
  <1>7. SameMine(s, t)
    BY <1>1, <1>3 DEF SameMine, Replaces, Top
  <1> QED
    BY <1>3, <1>4, <1>5, <1>6, <1>7, QuietStep, Zenon

\* What Leave makes of the stack.
LEMMA LeaveStack ==
    ASSUME IInv, NEW g \in Goroutines, stack[g] # <<>>, NEW r \in Results,
           Leave(g, r)
    PROVE  \E t \in Seq(Frame) :
              /\ stack' = [stack EXCEPT ![g] = t]
              /\ Len(t) = Len(stack[g]) - 1
              /\ \A i \in 1..Len(t) : /\ t[i].mine = stack[g][i].mine
                                      /\ t[i].key = stack[g][i].key
              /\ GoodStack(g, t)
  <1> DEFINE s == stack[g]
             b == Below(g)
             n == Len(b)
  <1>1. s \in Seq(Frame) /\ Len(s) \in Nat \ {0}
    BY TopFrame
  <1>2. /\ b \in Seq(Frame) /\ Len(b) = n /\ n = Len(s) - 1 /\ n \in Nat
        /\ \A i \in 1..n : b[i] = s[i]
    BY <1>1, DropStack DEF Below
  <1>3. GoodStack(g, b)
    <2> HIDE DEF b
    <2>1. \A i \in 1..Len(b) : FrameInv(g, b[i])
      BY <1>1, <1>2 DEF IInv
    <2>2. \A i \in 1..Len(b) : b[i].pc = "blocked" => b[i].waits[1] # g
      BY <1>1, <1>2 DEF IInv, WaitInv
    <2>3. StackInv(b)
      BY <1>1, <1>2 DEF IInv, StackInv
    <2> QED
      BY <2>1, <2>2, <2>3 DEF GoodStack
  <1>4. CASE n = 0
    <2>1. stack' = [stack EXCEPT ![g] = <<>>] /\ <<>> \in Seq(Frame) /\ Len(<<>>) = 0
      BY <1>4 DEF Leave
    <2>2. GoodStack(g, <<>>)
      BY DEF GoodStack, StackInv
    <2>3. Len(<<>>) = Len(stack[g]) - 1
      BY <1>2, <1>4
    <2>4. \A i \in 1..Len(<<>>) : /\ <<>>[i].mine = stack[g][i].mine
                                  /\ <<>>[i].key = stack[g][i].key
      OBVIOUS
    <2> WITNESS <<>> \in Seq(Frame)
    <2> QED
      BY <2>1, <2>2, <2>3, <2>4
  <1>5. CASE n # 0 /\ b[n].pc # "nested"
    <2>1. stack' = [stack EXCEPT ![g] = b]
      BY <1>5 DEF Leave
    <2> HIDE DEF b
    <2> QED
      BY <1>1, <1>2, <1>3, <2>1, Zenon
  <1>6. CASE n # 0 /\ b[n].pc = "nested"
    <2> DEFINE f == [b[n] EXCEPT !.pc = "done", !.res = r]
               t == [b EXCEPT ![n] = f]
    <2>1. stack' = [stack EXCEPT ![g] = [b EXCEPT ![n].pc = "done", ![n].res = r]]
      BY <1>6 DEF Leave
    <2>2. n \in 1..Len(b)
      <3>1. n \in Nat /\ n # 0
        BY <1>2, <1>6
      <3> QED
        BY <3>1
    <2> HIDE DEF b
    <2>3. [b EXCEPT ![n].pc = "done", ![n].res = r] = t
      BY <1>2, <1>6, Zenon
    <2> HIDE DEF n
    <2>4. b[n] \in Frame
      BY <1>2, <2>2, UpdateStack
    <2>5. /\ f \in Frame /\ f.pc = "done"
          /\ f.key = b[n].key /\ f.mine = b[n].mine /\ f.fn = b[n].fn
          /\ f.net = b[n].net /\ f.deferred = b[n].deferred
      BY <2>4, Zenon DEF Frame, Pcs
    <2>6. FrameInv(g, b[n])
      BY <1>3, <2>2 DEF GoodStack
    <2>7. FrameInv(g, f)
      BY <1>6, <2>5, <2>6 DEF FrameInv, BeforeAdd
    <2> HIDE DEF f
    <2>8. /\ t \in Seq(Frame) /\ Len(t) = n
          /\ \A i \in 1..n : t[i] = IF i = n THEN f ELSE b[i]
      BY <1>2, <2>2, <2>5, UpdateStack
    <2> HIDE DEF t
    <2>9. GoodStack(g, t)
      <3>1. \A i \in 1..Len(t) : FrameInv(g, t[i])
        BY <1>2, <1>3, <2>7, <2>8 DEF GoodStack
      <3>2. \A i \in 1..Len(t) : t[i].pc = "blocked" => t[i].waits[1] # g
        BY <1>2, <1>3, <2>5, <2>8, SMTT(30) DEF GoodStack
      <3>3. StackInv(t)
        <4>1. StackInv(b)
          BY <1>3 DEF GoodStack
        <4>2. \A i \in 1..n : t[i].net = b[i].net /\ t[i].fn = b[i].fn
                              /\ t[i].mine = b[i].mine
          BY <2>5, <2>8
        <4> QED
          BY <1>2, <2>2, <2>8, <4>1, <4>2 DEF StackInv
      <3> QED
        BY <3>1, <3>2, <3>3 DEF GoodStack
    <2>10. \A i \in 1..Len(t) : t[i].mine = s[i].mine /\ t[i].key = s[i].key
      BY <1>2, <2>5, <2>8, Zenon
    <2> QED
      BY <1>2, <2>1, <2>3, <2>8, <2>9, <2>10, Zenon
  <1> QED
    BY <1>4, <1>5, <1>6

\* Leave keeps the types of the replies.
LEMMA LeaveReply ==
    ASSUME IInv, NEW g \in Goroutines, NEW r \in Results, Leave(g, r)
    PROVE  reply' \in [Goroutines -> [key : Keys \cup {NoKey}, res : Results]]
  <1>1. reply \in [Goroutines -> [key : Keys \cup {NoKey}, res : Results]]
    BY DEF IInv, TypeOK
  <1>2. reply' = [reply EXCEPT ![g].res = r] \/ reply' = reply
    BY Zenon DEF Leave
  <1> QED
    BY <1>1, <1>2

\* The operations of the queue keep its types.
LEMMA QueueTypes ==
    ASSUME QueueTypeOK, NEW g \in Goroutines, NEW k \in Keys, NEW m,
           Add(g, k) \/ Done(k, m)
    PROVE  QueueTypeOK'
  <1>1. FreshChan(g) \in Chan
    BY DEF QueueTypeOK, FreshChan, Chan
  <1>2. CASE Add(g, k)
    BY <1>1, <1>2 DEF Add, QueueTypeOK
  <1>3. CASE Done(k, m)
    BY <1>3 DEF Done, QueueTypeOK
  <1> QED
    BY <1>2, <1>3

\* Leave of a frame without a channel keeps the invariant.
LEMMA LeaveStep ==
    ASSUME IInv, NEW g \in Goroutines, stack[g] # <<>>, NEW r \in Results,
           Leave(g, r), Top(g).mine = NoChan, UNCHANGED queueVars, RestOK'
    PROVE  IInv'
  <1>1. PICK t \in Seq(Frame) :
              /\ stack' = [stack EXCEPT ![g] = t]
              /\ Len(t) = Len(stack[g]) - 1
              /\ \A i \in 1..Len(t) : /\ t[i].mine = stack[g][i].mine
                                      /\ t[i].key = stack[g][i].key
              /\ GoodStack(g, t)
    BY LeaveStack
  <1>2. stack[g] \in Seq(Frame) /\ Len(stack[g]) \in Nat \ {0}
    BY TopFrame
  <1>3. TypeOK'
    BY <1>1 DEF IInv, TypeOK, QueueTypeOK, queueVars, RestOK
  <1>4. SameMine(stack[g], t)
    BY <1>1, <1>2 DEF SameMine, Top
  <1> QED
    BY <1>1, <1>3, <1>4, QuietStep, Zenon

\* Done and Leave together keep the invariant (DeferredDone).
LEMMA DoneLeaveStep ==
    ASSUME IInv, NEW g \in Goroutines, stack[g] # <<>>, NEW r \in Results,
           Leave(g, r), Done(Top(g).key, Top(g).mine), RestOK'
    PROVE  IInv'
  <1>1. PICK t \in Seq(Frame) :
              /\ stack' = [stack EXCEPT ![g] = t]
              /\ Len(t) = Len(stack[g]) - 1
              /\ \A i \in 1..Len(t) : /\ t[i].mine = stack[g][i].mine
                                      /\ t[i].key = stack[g][i].key
              /\ GoodStack(g, t)
    BY LeaveStack
  <1>2. Top(g) \in Frame /\ Len(stack[g]) \in Nat \ {0}
    BY TopFrame
  <1>3. QueueTypeOK'
    <2>1. Top(g).key \in Keys /\ QueueTypeOK
      BY <1>2, FrameFields DEF IInv, TypeOK
    <2> QED
      BY <2>1, QueueTypes
  <1>4. TypeOK'
    BY <1>1, <1>3 DEF IInv, TypeOK, RestOK
  <1> DEFINE n == Len(stack[g])
  <1>5. /\ \A i \in 1..Len(t) : t[i].mine # NoChan =>
               /\ i \in 1..n /\ i # n
               /\ stack[g][i].mine = t[i].mine /\ stack[g][i].key = t[i].key
        /\ \A i \in 1..n : i # n /\ stack[g][i].mine # NoChan =>
               /\ i \in 1..Len(t)
               /\ stack[g][i].mine = t[i].mine /\ stack[g][i].key = t[i].key
    BY <1>1, <1>2
  <1>6. Done(stack[g][n].key, stack[g][n].mine)
    BY DEF Top
  <1> QED
    BY <1>1, <1>2, <1>4, <1>5, <1>6, DoneStep, Zenon

\* A new call keeps the stack of g in order when its frame e has no channel.
LEMMA EnterGood ==
    ASSUME IInv, NEW g \in Goroutines, stack[g] # <<>>, NEW f, NEW e,
           Replaces(g, f, Top(g)), f.mine \in {Top(g).mine, NoChan},
           Replaces(g, e, e), e.mine = NoChan, e.net # "https",
           e.fn = "query" => Top(g).net = "https" /\ f.mine = NoChan,
           Enter(g, f, e)
    PROVE  \E t \in Seq(Frame) :
              /\ stack' = [stack EXCEPT ![g] = t]
              /\ Len(t) = Len(stack[g]) + 1
              /\ \A i \in 1..Len(stack[g]) :
                    t[i] = IF i = Len(stack[g]) THEN f ELSE stack[g][i]
              /\ t[Len(stack[g]) + 1] = e
              /\ GoodStack(g, t)
  <1> DEFINE t == Append(Append(Below(g), f), e)
             s == stack[g]
             n == Len(s)
  <1>1. s \in Seq(Frame) /\ n \in Nat \ {0}
    BY TopFrame
  <1>2. f \in Frame /\ e \in Frame
    BY DEF Replaces
  <1>3. /\ t \in Seq(Frame)
        /\ Len(t) = n + 1
        /\ \A i \in 1..n : t[i] = IF i = n THEN f ELSE s[i]
        /\ t[n + 1] = e
    BY <1>1, <1>2, EnterStack DEF Below
  <1>4. stack' = [stack EXCEPT ![g] = t]
    BY DEF Enter
  <1> HIDE DEF t
  <1>5. GoodStack(g, t)
    <2> SUFFICES ASSUME NEW i \in 1..Len(t)
                 PROVE  /\ FrameInv(g, t[i])
                        /\ t[i].pc = "blocked" => t[i].waits[1] # g
                        /\ t[i].net = "https" => i = 1
                        /\ t[i].fn = "query" /\ i > 1 => i = 2 /\ t[1].mine = NoChan
      BY DEF GoodStack, StackInv
    <2>1. Top(g) = s[n]
      BY DEF Top
    <2>2. \A j \in 1..n : /\ s[j].net = "https" => j = 1
                          /\ s[j].fn = "query" /\ j > 1 =>
                                j = 2 /\ s[1].mine = NoChan
      BY DEF IInv, StackInv
    <2>3. s[1].mine = NoChan => t[1].mine = NoChan
      BY <1>1, <1>3, <2>1
    <2>4. CASE i = n + 1
      <3>1. t[i].fn = "query" => n = 1 /\ t[1].mine = NoChan
        <4> SUFFICES ASSUME e.fn = "query" PROVE n = 1 /\ t[1].mine = NoChan
          BY <1>3, <2>4
        <4>1. s[n].net = "https" /\ f.mine = NoChan /\ n \in 1..n
          BY <1>1, <2>1
        <4>2. n = 1
          BY <4>1, <2>2, Zenon
        <4> QED
          BY <1>1, <1>3, <4>1, <4>2
      <3> QED
        BY <1>1, <1>3, <2>4, <3>1 DEF Replaces
    <2>5. CASE i \in 1..n /\ i # n
      <3>1. t[i] = s[i] /\ FrameInv(g, s[i])
            /\ (s[i].pc = "blocked" => s[i].waits[1] # g)
        BY <1>3, <2>5 DEF IInv, WaitInv
      <3> QED
        BY <2>2, <2>3, <2>5, <3>1
    <2>6. CASE i = n
      <3>1. t[i] = f
        BY <1>1, <1>3, <2>6
      <3>2. /\ FrameInv(g, f) /\ (f.pc = "blocked" => f.waits[1] # g)
            /\ f.fn = s[n].fn /\ f.net = s[n].net
        BY <2>1 DEF Replaces
      <3>3. n \in 1..n
        BY <1>1
      <3> HIDE DEF s, n
      <3>4. /\ s[n].net = "https" => n = 1
            /\ s[n].fn = "query" /\ n > 1 => n = 2 /\ s[1].mine = NoChan
        BY <3>3, <2>2
      <3> QED
        BY <2>3, <2>6, <3>1, <3>2, <3>4
    <2> QED
      BY <1>1, <1>3, <2>4, <2>5, <2>6
  <1> QED
    BY <1>3, <1>4, <1>5, Zenon

\* A call of lookupNSAddr by Resolve keeps the invariant.
LEMMA CallStep ==
    ASSUME IInv, NEW g \in Goroutines, stack[g] # <<>>, NEW e,
           Replaces(g, e, e), e.mine = NoChan, e.net # "https", e.fn # "query",
           Enter(g, Top(g), e), UNCHANGED queueVars, RestOK'
    PROVE  IInv'
  <1> DEFINE n == Len(stack[g])
  <1>1. Replaces(g, Top(g), Top(g)) /\ n \in Nat \ {0} /\ stack[g][n] = Top(g)
    BY TopFrame DEF Replaces, Top
  <1>2. PICK t \in Seq(Frame) :
              /\ stack' = [stack EXCEPT ![g] = t]
              /\ Len(t) = Len(stack[g]) + 1
              /\ \A i \in 1..Len(stack[g]) :
                    t[i] = IF i = Len(stack[g]) THEN Top(g) ELSE stack[g][i]
              /\ t[Len(stack[g]) + 1] = e
              /\ GoodStack(g, t)
    BY <1>1, EnterGood, SMTT(30)
  <1>3. TypeOK'
    BY <1>2 DEF IInv, TypeOK, QueueTypeOK, queueVars, RestOK
  <1>4. SameMine(stack[g], t)
    BY <1>1, <1>2, SMTT(30) DEF SameMine
  <1> QED
    BY <1>2, <1>3, <1>4, QuietStep, Zenon

\* Done followed by a retry keeps the invariant.
LEMMA RetryStep ==
    ASSUME IInv, NEW g \in Goroutines, stack[g] # <<>>, NEW f, NEW e,
           Replaces(g, f, Top(g)), f.mine = NoChan,
           Replaces(g, e, e), e.mine = NoChan, e.net # "https",
           e.fn = "query" => Top(g).net = "https",
           Enter(g, f, e), Done(Top(g).key, Top(g).mine), RestOK'
    PROVE  IInv'
  <1> DEFINE n == Len(stack[g])
  <1>1. Top(g) \in Frame /\ n \in Nat \ {0} /\ stack[g][n] = Top(g)
    BY TopFrame DEF Top
  <1>2. PICK t \in Seq(Frame) :
              /\ stack' = [stack EXCEPT ![g] = t]
              /\ Len(t) = Len(stack[g]) + 1
              /\ \A i \in 1..Len(stack[g]) :
                    t[i] = IF i = Len(stack[g]) THEN f ELSE stack[g][i]
              /\ t[Len(stack[g]) + 1] = e
              /\ GoodStack(g, t)
    BY EnterGood, SMTT(30)
  <1>3. QueueTypeOK'
    <2>1. Top(g).key \in Keys /\ QueueTypeOK
      BY <1>1, FrameFields DEF IInv, TypeOK
    <2> QED
      BY <2>1, QueueTypes
  <1>4. TypeOK'
    BY <1>2, <1>3 DEF IInv, TypeOK, RestOK
  <1>5. /\ \A i \in 1..Len(t) : t[i].mine # NoChan =>
               /\ i \in 1..n /\ i # n
               /\ stack[g][i].mine = t[i].mine /\ stack[g][i].key = t[i].key
        /\ \A i \in 1..n : i # n /\ stack[g][i].mine # NoChan =>
               /\ i \in 1..Len(t)
               /\ stack[g][i].mine = t[i].mine /\ stack[g][i].key = t[i].key
    BY <1>1, <1>2
  <1>6. Done(stack[g][n].key, stack[g][n].mine)
    BY DEF Top
  <1> QED
    BY <1>1, <1>2, <1>4, <1>5, <1>6, DoneStep, Zenon

\* Lqueue.Add and the defer keep the invariant.
LEMMA AddFrameStep ==
    ASSUME IInv, NEW g \in Goroutines, stack[g] # <<>>,
           Top(g).pc = "add", NEW p \in {"resolve", "depth"},
           Add(g, Top(g).key),
           Become(g, [Top(g) EXCEPT !.pc = p, !.deferred = TRUE,
                                    !.mine = FreshChan(g)]),
           RestOK'
    PROVE  IInv'
  <1> DEFINE n == Len(stack[g])
             s == stack[g]
             f == [Top(g) EXCEPT !.pc = p, !.deferred = TRUE,
                                 !.mine = FreshChan(g)]
             t == Append(Below(g), f)
  <1>1. /\ Top(g) \in Frame /\ n \in Nat \ {0} /\ s[n] = Top(g)
        /\ s \in Seq(Frame) /\ FrameInv(g, Top(g))
    BY TopFrame DEF Top
  <1>2. FreshChan(g) \in Chan /\ QueueTypeOK
    BY SMTT(30) DEF IInv, TypeOK, QueueTypeOK, FreshChan, Chan
  <1>3. /\ f \in Frame /\ f.pc = p /\ f.deferred /\ f.mine = FreshChan(g)
        /\ f.key = Top(g).key /\ f.fn = Top(g).fn /\ f.net = Top(g).net
    BY <1>1, <1>2, Zenon DEF Frame, Pcs
  <1>4. Top(g).mine = NoChan /\ Top(g).key \in Keys
    BY <1>1, FrameFields DEF FrameInv, BeforeAdd
  <1>5. stack' = [stack EXCEPT ![g] = t]
    BY DEF Become
  <1> HIDE DEF f
  <1>6. /\ t \in Seq(Frame)
        /\ Len(t) = n
        /\ \A i \in 1..n : t[i] = IF i = n THEN f ELSE s[i]
    BY <1>1, <1>3, BecomeStack DEF Below
  <1> HIDE DEF t
  <1>7. QueueTypeOK'
    BY <1>2, <1>4, QueueTypes
  <1>8. TypeOK'
    BY <1>5, <1>6, <1>7 DEF IInv, TypeOK, RestOK
  <1>9. t[n] = f
    BY <1>1, <1>6
  <1>10. StackInv(t)
    <2>1. StackInv(s)
      BY DEF IInv
    <2>2. \A i \in 1..n : t[i].net = s[i].net /\ t[i].fn = s[i].fn
      BY <1>1, <1>3, <1>6
    <2>3. n > 1 => t[1] = s[1]
      BY <1>1, <1>6
    <2> QED
      BY <1>1, <1>6, <2>1, <2>2, <2>3 DEF StackInv
  <1>11. t[n].pc \in {"resolve", "depth"}
    BY <1>3, <1>9
  <1> QED
    BY <1>1, <1>3, <1>4, <1>5, <1>6, <1>8, <1>9, <1>10, <1>11, AddStep, Zenon

\* A new innermost frame f that only moves on: no channel, no wait, no way back
\* to before Lqueue.Add.
Moves(g, f) ==
    /\ f \in Frame
    /\ f.fn = Top(g).fn /\ f.key = Top(g).key /\ f.net = Top(g).net
    /\ f.deferred = Top(g).deferred /\ f.mine = Top(g).mine
    /\ f.pc \notin {"blocked", "nested"}
    /\ f.pc \in BeforeAdd => Top(g).pc \in BeforeAdd
    /\ f.pc = "chase" => f.target # NoKey /\ f.tries > 0

\* A step of the innermost frame that only moves on keeps the invariant.
LEMMA MoveStep ==
    ASSUME IInv, NEW g \in Goroutines, stack[g] # <<>>, NEW f, Moves(g, f),
           Become(g, f), UNCHANGED queueVars, RestOK'
    PROVE  IInv'
  <1>1. FrameInv(g, Top(g))
    BY TopFrame
  <1>2. Replaces(g, f, Top(g))
    BY <1>1 DEF Replaces, FrameInv, Moves
  <1> QED
    BY <1>2, BecomeStep DEF Moves

\* The updates of the innermost frame that move it on.
LEMMA MovedFrame ==
    ASSUME NEW g, Top(g) \in Frame,
           NEW p \in Pcs \ {"blocked", "nested", "chase"},
           p \in BeforeAdd => Top(g).pc \in BeforeAdd,
           NEW r \in Results, NEW t \in Keys \cup {NoKey}, NEW d \in 0..CnameDepth
    PROVE  /\ Moves(g, [Top(g) EXCEPT !.pc = p])
           /\ Moves(g, [Top(g) EXCEPT !.pc = p, !.waits = NoChan])
           /\ Moves(g, [Top(g) EXCEPT !.pc = p, !.res = r])
           /\ Moves(g, [Top(g) EXCEPT !.pc = p, !.target = t, !.tries = d])
           /\ Moves(g, [Top(g) EXCEPT !.pc = p, !.target = t, !.tries = d, !.res = r])
  <1>1. Moves(g, [Top(g) EXCEPT !.pc = p])
    BY Zenon DEF Moves, Frame
  <1>2. Moves(g, [Top(g) EXCEPT !.pc = p, !.waits = NoChan])
    BY Zenon DEF Moves, Frame
  <1>3. Moves(g, [Top(g) EXCEPT !.pc = p, !.res = r])
    BY Zenon DEF Moves, Frame
  <1>4. Moves(g, [Top(g) EXCEPT !.pc = p, !.target = t, !.tries = d])
    BY Zenon DEF Moves, Frame
  <1>5. Moves(g, [Top(g) EXCEPT !.pc = p, !.target = t, !.tries = d, !.res = r])
    BY Zenon DEF Moves, Frame
  <1> QED
    BY <1>1, <1>2, <1>3, <1>4, <1>5

\* The program points and results that occur in the actions.
LEMMA Labels ==
    /\ {"qget", "eget", "block", "add", "resolve", "follow", "store",
        "done"} \subseteq Pcs \ {"blocked", "nested", "chase"}
    /\ {"resolve", "follow", "store", "done"} \cap BeforeAdd = {}
    /\ {"none", "servfail", "trunc", "answer", "null", "addr", "noaddr"}
          \subseteq Results
    /\ CnameDepth \in 0..CnameDepth
  BY HandlerAssumption DEF Pcs, BeforeAdd, Results

\* The frame that waits for its retry.
LEMMA RetryFrame ==
    ASSUME NEW g, Top(g) \in Frame
    PROVE  LET f == [Top(g) EXCEPT !.pc = "nested", !.mine = NoChan]
           IN  Replaces(g, f, Top(g)) /\ f.mine = NoChan
  <1> DEFINE f == [Top(g) EXCEPT !.pc = "nested", !.mine = NoChan]
  <1>1. /\ f \in Frame /\ f.fn = Top(g).fn /\ f.key = Top(g).key
        /\ f.net = Top(g).net /\ f.pc = "nested" /\ f.mine = NoChan
    BY Zenon DEF Frame, Pcs
  <1> HIDE DEF f
  <1>2. FrameInv(g, f)
    BY <1>1 DEF FrameInv, BeforeAdd
  <1>3. Replaces(g, f, Top(g)) /\ f.mine = NoChan
    BY <1>1, <1>2 DEF Replaces
  <1> QED
    BY <1>3 DEF f

\* The frame of a new call.
LEMMA CalleeFrame ==
    ASSUME NEW g, NEW fn \in {"query", "nsaddr"}, NEW k \in Keys,
           NEW net \in {"udp", "tcp", "https"}
    PROVE  LET e == NewFrame(fn, k, net)
           IN  /\ Replaces(g, e, e)
               /\ e.mine = NoChan /\ e.fn = fn /\ e.net = net /\ e.key = k
  <1> DEFINE e == NewFrame(fn, k, net)
  <1>1. /\ e \in Frame /\ e.fn = fn /\ e.key = k /\ e.net = net
        /\ e.pc \in {"wait", "get"} /\ e.mine = NoChan /\ ~e.deferred
    BY HandlerAssumption, Labels, SMTT(30) DEF NewFrame, Frame, Pcs
  <1> HIDE DEF e
  <1>2. FrameInv(g, e)
    BY <1>1 DEF FrameInv
  <1>3. /\ Replaces(g, e, e)
        /\ e.mine = NoChan /\ e.fn = fn /\ e.net = net /\ e.key = k
    BY <1>1, <1>2 DEF Replaces
  <1> QED
    BY <1>3 DEF e
=============================================================================
