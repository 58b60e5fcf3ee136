------------------------ MODULE GlassEventLoopProofs ------------------------
(***************************************************************************)
(* Proofs about GlassEventLoop, for any number of runnables, loops, events *)
(* and threads.                                                            *)
(***************************************************************************)
EXTENDS GlassEventLoop, TLAPS

-----------------------------------------------------------------------------
(* The inductive invariant *)

\* EventLoop.stack mirrors the native loops, a native loop told to quit
\* belongs to a LEAVING loop, and no loop is entered twice.
StackInv ==
    /\ stack = mainLoops
    /\ \A i, j \in 1 .. Len(stack) : stack[i] = stack[j] => i = j
    /\ \A l \in quit : state[l] = "LEAVING"
    /\ \A l \in Loops : state[l] # "IDLE" => l \in created

\* A loop posts its runnable at most once, when it is over.
PostedInv ==
    \A l \in Loops : l \in Elements(posted) => state[l] = "IDLE" /\ l \in created

\* Everything that was posted and has not been started is in one place only.
OnePlaceInv ==
    /\ \A i, j \in 1 .. Len(deque) : deque[i] = deque[j] => i = j
    /\ Elements(deque) \subseteq Elements(posted)
    /\ pc \in {"check", "submit"} => r \in Elements(posted)
    /\ \A t \in Posted :
        /\ t \in Elements(idle) \cup Elements(handlers) =>
              /\ t \in Elements(posted)
              /\ t \notin Elements(deque)
              /\ ~(pc \in {"check", "submit"} /\ r = t)
        /\ t \in Elements(deque) => ~(pc \in {"check", "submit"} /\ r = t)

IInv ==
    /\ TypeOK
    /\ StackInv
    /\ LeaveNeverThrows
    /\ HeldBackForALoop
    /\ LeavingLoopNotForgotten
    /\ PostedInv
    /\ OnePlaceInv
    /\ DispatcherServesInnerLoops

-----------------------------------------------------------------------------
(* Sequences *)

\* What Append does to a sequence (Application.invokeLater, idle sources).
LEMMA AppendFacts ==
    ASSUME NEW S, NEW s \in Seq(S), NEW e \in S
    PROVE  /\ Append(s, e) \in Seq(S)
           /\ Len(Append(s, e)) = Len(s) + 1
           /\ Append(s, e)[Len(s) + 1] = e
           /\ \A i \in 1 .. Len(s) : Append(s, e)[i] = s[i]
           /\ Top(Append(s, e)) = e
           /\ Elements(Append(s, e)) = Elements(s) \cup {e}
  BY DEF Top, Elements

\* What Pop leaves of a sequence (returning handlers and loops).
LEMMA PopFacts ==
    ASSUME NEW S, NEW s \in Seq(S), s # << >>
    PROVE  /\ Pop(s) \in Seq(S)
           /\ Len(Pop(s)) = Len(s) - 1
           /\ \A i \in 1 .. Len(s) - 1 : Pop(s)[i] = s[i]
           /\ Top(s) \in S
           /\ Top(s) \in Elements(s)
           /\ Elements(s) = Elements(Pop(s)) \cup {Top(s)}
  <1>1. Len(s) \in Nat \ {0}
    OBVIOUS
  <1>2. /\ Pop(s) \in Seq(S)
        /\ Len(Pop(s)) = Len(s) - 1
        /\ \A i \in 1 .. Len(s) - 1 : Pop(s)[i] = s[i]
    <2> DEFINE n == Len(s) - 1
    <2>1. n \in Nat /\ \A i \in 1 .. n : s[i] \in S
      BY <1>1
    <2>2. Pop(s) = [i \in 1 .. n |-> s[i]]
      BY DEF Pop
    <2> HIDE DEF n
    <2>3. Pop(s) \in Seq(S)
      BY <2>1, <2>2
    <2>4. Len(Pop(s)) = n
      BY <2>1, <2>2, <2>3
    <2> QED BY <2>2, <2>3, <2>4 DEF n
  <1>3. Top(s) \in S /\ Top(s) \in Elements(s)
    BY <1>1 DEF Top, Elements
  <1>4. Elements(s) = Elements(Pop(s)) \cup {Top(s)}
    <2>1. Elements(s) \subseteq Elements(Pop(s)) \cup {Top(s)}
      BY <1>1, <1>2 DEF Top, Elements
    <2>2. Elements(Pop(s)) \subseteq Elements(s)
      BY <1>1, <1>2 DEF Elements
    <2> QED BY <2>1, <2>2, <1>3
  <1> QED BY <1>2, <1>3, <1>4

\* What Head and Tail make of a queue (takeFirst, the oldest idle source).
LEMMA TailFacts ==
    ASSUME NEW S, NEW s \in Seq(S), s # << >>
    PROVE  /\ Tail(s) \in Seq(S)
           /\ Head(s) \in S
           /\ Len(Tail(s)) = Len(s) - 1
           /\ \A i \in 1 .. Len(s) - 1 : Tail(s)[i] = s[i + 1]
           /\ Elements(s) = Elements(Tail(s)) \cup {Head(s)}
  <1>1. Len(s) \in Nat \ {0}
    OBVIOUS
  <1>2. /\ Tail(s) \in Seq(S)
        /\ Head(s) \in S
        /\ Head(s) = s[1]
        /\ Len(Tail(s)) = Len(s) - 1
        /\ \A i \in 1 .. Len(s) - 1 : Tail(s)[i] = s[i + 1]
    BY <1>1
  <1>3. Elements(s) \subseteq Elements(Tail(s)) \cup {Head(s)}
    <2>1. SUFFICES ASSUME NEW i \in 1 .. Len(s), i # 1
                   PROVE  s[i] \in Elements(Tail(s))
      BY <1>2 DEF Elements
    <2>2. i - 1 \in 1 .. Len(s) - 1 /\ Tail(s)[i - 1] = s[i]
      BY <1>1, <1>2, <2>1
    <2> QED BY <1>2, <2>2 DEF Elements
  <1>4. Elements(Tail(s)) \cup {Head(s)} \subseteq Elements(s)
    BY <1>1, <1>2 DEF Elements
  <1> QED BY <1>2, <1>3, <1>4

\* What addFirst makes of the deque.
LEMMA ConsFacts ==
    ASSUME NEW S, NEW s \in Seq(S), NEW e \in S
    PROVE  /\ <<e>> \o s \in Seq(S)
           /\ Len(<<e>> \o s) = Len(s) + 1
           /\ (<<e>> \o s)[1] = e
           /\ \A i \in 1 .. Len(s) : (<<e>> \o s)[i + 1] = s[i]
           /\ Elements(<<e>> \o s) = Elements(s) \cup {e}
  <1>1. /\ <<e>> \o s \in Seq(S)
        /\ Len(<<e>> \o s) = Len(s) + 1
        /\ (<<e>> \o s)[1] = e
        /\ \A i \in 1 .. Len(s) : (<<e>> \o s)[i + 1] = s[i]
    OBVIOUS
  <1>2. Elements(<<e>> \o s) \subseteq Elements(s) \cup {e}
    <2>1. SUFFICES ASSUME NEW i \in 1 .. Len(s) + 1, i # 1
                   PROVE  (<<e>> \o s)[i] \in Elements(s)
      BY <1>1 DEF Elements
    <2>2. i - 1 \in 1 .. Len(s) /\ (<<e>> \o s)[i] = s[i - 1]
      BY <1>1, <2>1
    <2> QED BY <2>2 DEF Elements
  <1>3. Elements(s) \cup {e} \subseteq Elements(<<e>> \o s)
    BY <1>1 DEF Elements
  <1> QED BY <1>1, <1>2, <1>3

-----------------------------------------------------------------------------
(* Type correctness *)

\* The invariant holds in the initial state.
LEMMA InitIInv == Init => IInv
  <1> SUFFICES ASSUME Init PROVE IInv
    OBVIOUS
  <1>1. TypeOK
    <2>1. \A S : << >> \in Seq(S) /\ Len(<< >>) = 0
      OBVIOUS
    <2>2. state \in [Loops -> States]
      BY DEF Init, States
    <2> QED BY <2>1, <2>2 DEF Init, TypeOK
  <1>2. StackInv /\ PostedInv /\ OnePlaceInv
    BY DEF Init, StackInv, PostedInv, OnePlaceInv, Elements
  <1>3. LeaveNeverThrows /\ HeldBackForALoop
    BY DEF Init, LeaveNeverThrows, HeldBackForALoop, Elements
  <1>4. LeavingLoopNotForgotten /\ DispatcherServesInnerLoops
    BY DEF Init, LeavingLoopNotForgotten, DispatcherServesInnerLoops, IsLeaving, Blocked
  <1> QED BY <1>1, <1>2, <1>3, <1>4 DEF IInv

\* A native loop is told to quit only when there is one.
LEMMA LeaveFacts ==
    ASSUME IInv, nestedEventLoopCounter > 0
    PROVE  mainLoops # << >> /\ Top(mainLoops) \in Loops /\ Top(mainLoops) = Top(stack)
  <1>1. mainLoops # << >> /\ mainLoops \in Seq(Loops) /\ mainLoops = stack
    BY DEF IInv, TypeOK, StackInv, LeaveNeverThrows
  <1> QED BY <1>1, PopFacts

\* The dispatcher thread's steps preserve the type invariant.
LEMMA DispatcherTypes == ASSUME IInv, Dispatcher PROVE TypeOK'
  <1> USE DEF IInv, TypeOK, loopVars, nativeVars, callerVars
  <1>1. CASE TakeFirst
    BY <1>1, TailFacts DEF TakeFirst
  <1>2. CASE PutBack
    BY <1>2, ConsFacts DEF PutBack, AddFirst
  <1>3. CASE MayPass
    BY <1>3 DEF MayPass
  <1>4. CASE Submit
    BY <1>4, AppendFacts DEF Submit, Futures
  <1>5. CASE Awaited
    BY <1>5 DEF Awaited
  <1>6. CASE WaitedLeft
    BY <1>6 DEF WaitedLeft
  <1> QED BY <1>1, <1>2, <1>3, <1>4, <1>5, <1>6 DEF Dispatcher

\* So do the calls of other threads.
LEMMA OtherThreadsTypes == ASSUME IInv, OtherThreads PROVE TypeOK'
  <1> USE DEF IInv, TypeOK, dispatcherVars, loopVars, nativeVars, callerVars
  <1>1. ASSUME NEW t \in Runnables, InvokeLater(t) PROVE TypeOK'
    BY <1>1, AppendFacts DEF InvokeLater, Posted
  <1>2. ASSUME NEW c \in Callers, InvokeAndWait(c) PROVE TypeOK'
    BY <1>2, AppendFacts DEF InvokeAndWait, Futures
  <1>3. ASSUME NEW c \in Callers, InvokeAndWaitReturns(c) PROVE TypeOK'
    BY <1>3 DEF InvokeAndWaitReturns
  <1> QED BY <1>1, <1>2, <1>3 DEF OtherThreads

\* And the steps of the event thread: here the invariant is needed to know
\* that a loop told to quit exists.
LEMMA EventThreadTypes == ASSUME IInv, EventThread PROVE TypeOK'
  <1> USE DEF IInv, TypeOK, dispatcherVars, loopVars, nativeVars, callerVars
  <1>1. CASE RunIdle
    <2>1. /\ idle' \in Seq(Futures)
          /\ handlers' \in Seq(Handlers)
          /\ Len(handlers') = Len(mainLoops') + 1
      BY <1>1, TailFacts, AppendFacts DEF RunIdle, HandlerOnTop, Handlers
    <2>2. ran' \in Seq(Posted)
      BY <1>1, AppendFacts DEF RunIdle
    <2> QED BY <1>1, <2>1, <2>2 DEF RunIdle
  <1>2. ASSUME NEW e \in Events, NativeEvent(e) PROVE TypeOK'
    BY <1>2, AppendFacts DEF NativeEvent, HandlerOnTop, Handlers
  <1>3. ASSUME NEW l \in Loops, ReturnFromLoop(l) PROVE TypeOK'
    <2>1. mainLoops # << >> /\ stack = mainLoops /\ nestedEventLoopCounter = Len(stack)
      BY <1>3 DEF ReturnFromLoop, Quitting, StackInv, LeaveNeverThrows
    <2>2. /\ mainLoops' \in Seq(Loops) /\ stack' \in Seq(Loops)
          /\ Len(handlers') \in {Len(mainLoops'), Len(mainLoops') + 1}
          /\ nestedEventLoopCounter' \in Nat
      BY <1>3, <2>1, PopFacts DEF ReturnFromLoop, HandlerOnTop
    <2>3. deque' \in Seq(Posted) /\ posted' \in Seq(Posted)
      <3>1. l \in Posted
        BY DEF Posted
      <3>2. Append(deque, l) \in Seq(Posted) /\ Append(posted, l) \in Seq(Posted)
        BY <3>1, AppendFacts
      <3> QED BY <1>3, <3>2 DEF ReturnFromLoop, LeaveNextLoop
    <2>4. state' \in [Loops -> States]
      BY <1>3 DEF ReturnFromLoop, States
    <2> QED BY <1>3, <2>2, <2>3, <2>4
            DEF ReturnFromLoop, NotifyLeftNestedEventLoop
  <1>4. ASSUME NEW l \in Loops, EnterNestedEventLoop(l) PROVE TypeOK'
    <2>1. /\ stack' \in Seq(Loops) /\ mainLoops' \in Seq(Loops)
          /\ Len(handlers') \in {Len(mainLoops'), Len(mainLoops') + 1}
      BY <1>4, AppendFacts DEF EnterNestedEventLoop, AppHandlerOnTop, HandlerOnTop
    <2>2. state' \in [Loops -> States]
      BY <1>4 DEF EnterNestedEventLoop, States
    <2> QED BY <1>4, <2>1, <2>2
            DEF EnterNestedEventLoop, NotifyEnteringNestedEventLoop
  <1>5. ASSUME NEW l \in Loops, ExitNestedEventLoop(l) PROVE TypeOK'
    <2>1. /\ leavingNestedEventLoop' \in BOOLEAN
          /\ eventLoopExitEnterPassValue' \in Loops \cup {NoLoop}
          /\ quit' \subseteq Loops
      BY <1>5, LeaveFacts
         DEF ExitNestedEventLoop, LeaveNestedEventLoop, NoLeave, NotifyLeavingNestedEventLoop
    <2>2. state' \in [Loops -> States]
      BY <1>5 DEF ExitNestedEventLoop, States
    <2> QED BY <1>5, <2>1, <2>2 DEF ExitNestedEventLoop, RemoveKey
  <1>6. ASSUME HandlerOnTop, HandlerReturns, mainLoops' = mainLoops
        PROVE  /\ handlers' \in Seq(Handlers) /\ done' \subseteq Futures
               /\ Len(handlers') \in {Len(mainLoops'), Len(mainLoops') + 1}
    <2>1. handlers # << >>
      BY <1>6 DEF HandlerOnTop
    <2>2. Pop(handlers) \in Seq(Handlers) /\ Len(Pop(handlers)) = Len(handlers) - 1
      BY <2>1, PopFacts
    <2> QED BY <1>6, <2>2 DEF HandlerReturns, HandlerOnTop
  <1>7. CASE AppHandlerReturns
    BY <1>6, <1>7 DEF AppHandlerReturns, AppHandlerOnTop
  <1>8. CASE LeaveOuterLoop
    <2>1. /\ leavingNestedEventLoop' \in BOOLEAN
          /\ eventLoopExitEnterPassValue' \in Loops \cup {NoLoop}
          /\ quit' \subseteq Loops
      BY <1>8, LeaveFacts
         DEF LeaveOuterLoop, LeaveNestedEventLoop, NoLeave, NotifyLeavingNestedEventLoop
    <2> QED BY <1>6, <1>8, <2>1 DEF LeaveOuterLoop
  <1> QED BY <1>1, <1>2, <1>3, <1>4, <1>5, <1>7, <1>8 DEF EventThread

\* Every step preserves the type invariant.
LEMMA TypeStep == ASSUME IInv, [Next]_vars PROVE TypeOK'
  <1>1. CASE UNCHANGED vars
    BY <1>1 DEF IInv, TypeOK, vars, dispatcherVars, loopVars, nativeVars, callerVars
  <1> QED BY <1>1, DispatcherTypes, OtherThreadsTypes, EventThreadTypes DEF Next

-----------------------------------------------------------------------------
(* EventLoop.stack, the native loops and the counter *)

LoopPart == StackInv /\ LeaveNeverThrows /\ HeldBackForALoop

\* The steps that touch none of it.
LEMMA LoopPartFrame ==
    ASSUME LoopPart,
           UNCHANGED <<state, stack, nestedEventLoopCounter, eventLoopMap, created,
                       mainLoops, quit, leavingNestedEventLoop>>
    PROVE  LoopPart'
  BY DEF LoopPart, StackInv, LeaveNeverThrows, HeldBackForALoop, Elements

\* A loop that is told to quit is LEAVING and on the stack.
LEMMA LeavePreservesLoopPart ==
    ASSUME IInv, TypeOK',
           NEW l \in Loops,
           NoLeave \/ (LeaveNestedEventLoop(l) /\ state'[Top(stack)] = "LEAVING"),
           \A k \in Loops : state[k] = "LEAVING" => state'[k] = "LEAVING",
           \A k \in Loops : state'[k] = "IDLE" <=> state[k] = "IDLE",
           eventLoopMap' = {k \in Loops : state'[k] = "ACTIVE"},
           UNCHANGED <<stack, nestedEventLoopCounter, created, mainLoops>>
    PROVE  LoopPart'
  <1>1. /\ stack = mainLoops /\ stack \in Seq(Loops)
        /\ nestedEventLoopCounter = Len(stack)
        /\ quit \subseteq Loops
        /\ Elements(stack) = {k \in Loops : state[k] # "IDLE"}
    BY DEF IInv, TypeOK, StackInv, LeaveNeverThrows
  <1>2. \A k \in quit' : state'[k] = "LEAVING"
    BY <1>1 DEF IInv, StackInv, LeaveNestedEventLoop, NoLeave
  <1>3. StackInv'
    BY <1>1, <1>2 DEF IInv, StackInv
  <1>4. LeaveNeverThrows'
    BY <1>1 DEF LeaveNeverThrows, Elements
  <1>5. HeldBackForALoop'
    <2>1. CASE NoLeave
      BY <2>1 DEF IInv, HeldBackForALoop, NoLeave, Elements
    <2>2. CASE LeaveNestedEventLoop(l)
      <3>1. Top(mainLoops) \in quit' /\ Top(mainLoops) \in Elements(mainLoops)
        BY <1>1, <2>2, PopFacts DEF LeaveNestedEventLoop
      <3> QED BY <3>1 DEF HeldBackForALoop, Elements
    <2> QED BY <2>1, <2>2
  <1> QED BY <1>3, <1>4, <1>5 DEF LoopPart

\* Every step preserves the relation between stack, native loops and counter.
LEMMA LoopPartStep == ASSUME IInv, [Next]_vars PROVE LoopPart'
  <1> USE DEF dispatcherVars, loopVars, nativeVars, callerVars
  <1>0. TypeOK /\ TypeOK' /\ LoopPart
    BY TypeStep DEF IInv, LoopPart
  <1>1. CASE UNCHANGED vars
    BY <1>0, <1>1, LoopPartFrame DEF vars
  <1>2. CASE Dispatcher
    BY <1>0, <1>2, LoopPartFrame
       DEF Dispatcher, TakeFirst, PutBack, MayPass, Submit, Awaited, WaitedLeft
  <1>3. CASE OtherThreads
    BY <1>0, <1>3, LoopPartFrame
       DEF OtherThreads, InvokeLater, InvokeAndWait, InvokeAndWaitReturns
  <1>4. CASE RunIdle
    BY <1>0, <1>4, LoopPartFrame DEF RunIdle
  <1>5. ASSUME NEW e \in Events, NativeEvent(e) PROVE LoopPart'
    BY <1>0, <1>5, LoopPartFrame DEF NativeEvent
  <1>6. CASE AppHandlerReturns
    BY <1>0, <1>6, LoopPartFrame DEF AppHandlerReturns
  <1>7. ASSUME NEW l \in Loops, ReturnFromLoop(l) PROVE LoopPart'
    <2>1. /\ stack = mainLoops /\ stack \in Seq(Loops) /\ stack # << >> /\ l = Top(stack)
          /\ stack' = Pop(stack) /\ mainLoops' = Pop(mainLoops)
      BY <1>0, <1>7 DEF ReturnFromLoop, Quitting, LoopPart, StackInv, TypeOK
    <2>2. l = stack[Len(stack)] /\ Len(stack) \in Nat \ {0}
      BY <2>1 DEF Top
    <2>3. /\ Len(stack') = Len(stack) - 1
          /\ \A i \in 1 .. Len(stack) - 1 : stack'[i] = stack[i]
          /\ Elements(stack) = Elements(stack') \cup {l}
      BY <2>1, PopFacts
    <2>4. l \notin Elements(stack')
      BY <1>0, <2>2, <2>3 DEF LoopPart, StackInv, Elements
    <2>5. state' = [state EXCEPT ![l] = "IDLE"] /\ state \in [Loops -> States]
      BY <1>0, <1>7 DEF ReturnFromLoop, TypeOK
    <2>6. StackInv'
      <3>1. stack' = mainLoops' /\ \A i, j \in 1 .. Len(stack') : stack'[i] = stack'[j] => i = j
        BY <1>0, <2>1, <2>2, <2>3 DEF LoopPart, StackInv
      <3>2. quit' = quit \ {l} /\ created' = created /\ quit \subseteq Loops
        BY <1>0, <1>7 DEF ReturnFromLoop, TypeOK
      <3>3. \A k \in quit' : state'[k] = "LEAVING"
        BY <1>0, <2>5, <3>2 DEF LoopPart, StackInv
      <3>4. \A k \in Loops : state'[k] # "IDLE" => k \in created'
        BY <1>0, <2>5, <3>2 DEF LoopPart, StackInv
      <3> QED BY <3>1, <3>3, <3>4 DEF StackInv
    <2>7. LeaveNeverThrows'
      <3>1. state[l] = "LEAVING"
        BY <1>0, <1>7 DEF ReturnFromLoop, Quitting, LoopPart, StackInv
      <3>2. eventLoopMap' = {k \in Loops : state'[k] = "ACTIVE"}
        BY <1>0, <1>7, <2>5, <3>1 DEF LoopPart, LeaveNeverThrows, ReturnFromLoop
      <3>3. Elements(stack') = {k \in Loops : state'[k] # "IDLE"}
        BY <1>0, <2>3, <2>4, <2>5 DEF LoopPart, LeaveNeverThrows
      <3>4. nestedEventLoopCounter' = Len(stack')
        BY <1>0, <1>7, <2>3 DEF LoopPart, LeaveNeverThrows, ReturnFromLoop
      <3> QED BY <3>2, <3>3, <3>4 DEF LeaveNeverThrows, Elements
    <2>8. HeldBackForALoop'
      BY <1>7 DEF HeldBackForALoop, ReturnFromLoop, NotifyLeftNestedEventLoop
    <2> QED BY <2>6, <2>7, <2>8 DEF LoopPart
  <1>8. ASSUME NEW l \in Loops, EnterNestedEventLoop(l) PROVE LoopPart'
    <2>1. /\ stack = mainLoops /\ stack \in Seq(Loops)
          /\ stack' = Append(stack, l) /\ mainLoops' = Append(mainLoops, l)
          /\ state' = [state EXCEPT ![l] = "ACTIVE"] /\ state \in [Loops -> States]
          /\ state[l] = "IDLE"
      BY <1>0, <1>8 DEF EnterNestedEventLoop, LoopPart, StackInv, TypeOK
    <2>2. /\ Len(stack') = Len(stack) + 1 /\ Len(stack) \in Nat
          /\ stack'[Len(stack) + 1] = l
          /\ \A i \in 1 .. Len(stack) : stack'[i] = stack[i]
          /\ Elements(stack') = Elements(stack) \cup {l}
      BY <2>1, AppendFacts
    <2>3. l \notin Elements(stack)
      BY <1>0, <2>1 DEF LoopPart, LeaveNeverThrows
    <2>4. StackInv'
      <3>1. \A i, j \in 1 .. Len(stack') : stack'[i] = stack'[j] => i = j
        BY <1>0, <2>2, <2>3 DEF LoopPart, StackInv, Elements
      <3>2. \A k \in quit' : state'[k] = "LEAVING"
        BY <1>0, <1>8, <2>1 DEF LoopPart, StackInv, EnterNestedEventLoop, TypeOK
      <3>3. \A k \in Loops : state'[k] # "IDLE" => k \in created'
        BY <1>0, <1>8, <2>1 DEF LoopPart, StackInv, EnterNestedEventLoop
      <3> QED BY <2>1, <3>1, <3>2, <3>3 DEF StackInv
    <2>5. LeaveNeverThrows'
      <3>1. eventLoopMap' = {k \in Loops : state'[k] = "ACTIVE"}
        BY <1>0, <1>8, <2>1 DEF LoopPart, LeaveNeverThrows, EnterNestedEventLoop
      <3>2. Elements(stack') = {k \in Loops : state'[k] # "IDLE"}
        BY <1>0, <2>1, <2>2 DEF LoopPart, LeaveNeverThrows
      <3>3. nestedEventLoopCounter' = Len(stack')
        BY <1>0, <1>8, <2>2 DEF LoopPart, LeaveNeverThrows, EnterNestedEventLoop
      <3> QED BY <3>1, <3>2, <3>3 DEF LeaveNeverThrows, Elements
    <2>6. HeldBackForALoop'
      <3>1. Elements(mainLoops) \subseteq Elements(mainLoops')
        BY <2>1, <2>2
      <3> QED BY <1>0, <1>8, <3>1 DEF LoopPart, HeldBackForALoop, EnterNestedEventLoop, Elements
    <2> QED BY <2>4, <2>5, <2>6 DEF LoopPart
  <1>9. ASSUME NEW l \in Loops, ExitNestedEventLoop(l) PROVE LoopPart'
    <2>1. /\ state' = [state EXCEPT ![l] = "LEAVING"] /\ state \in [Loops -> States]
          /\ state[l] = "ACTIVE"
      BY <1>0, <1>9 DEF ExitNestedEventLoop, TypeOK
    <2>2. NoLeave \/ (LeaveNestedEventLoop(l) /\ state'[Top(stack)] = "LEAVING")
      BY <1>9, <2>1 DEF ExitNestedEventLoop
    <2>3. eventLoopMap' = {k \in Loops : state'[k] = "ACTIVE"}
      BY <1>0, <1>9, <2>1 DEF ExitNestedEventLoop, RemoveKey, LoopPart, LeaveNeverThrows
    <2> QED BY <1>0, <1>9, <2>1, <2>2, <2>3, LeavePreservesLoopPart
            DEF ExitNestedEventLoop
  <1>10. CASE LeaveOuterLoop
    <2>1. /\ UNCHANGED <<state, stack, nestedEventLoopCounter, eventLoopMap, created,
                         mainLoops>>
          /\ Top(handlers) \in Loops
      BY <1>10 DEF LeaveOuterLoop
    <2>2. eventLoopMap' = {k \in Loops : state'[k] = "ACTIVE"}
      BY <1>0, <2>1 DEF LoopPart, LeaveNeverThrows
    <2>3. CASE NoLeave
      BY <1>0, <2>1, <2>2, <2>3, LeavePreservesLoopPart
    <2>4. CASE StillLeaving /\ LeaveNestedEventLoop(Top(stack))
      <3>1. Top(stack) \in Loops /\ state'[Top(stack)] = "LEAVING"
        BY <1>0, <2>1, <2>4, PopFacts DEF StillLeaving, IsLeaving, TypeOK
      <3> QED BY <1>0, <2>1, <2>2, <2>4, <3>1, LeavePreservesLoopPart
    <2> QED BY <1>10, <2>3, <2>4 DEF LeaveOuterLoop
  <1> QED BY <1>1, <1>2, <1>3, <1>4, <1>5, <1>6, <1>7, <1>8, <1>9, <1>10
          DEF Next, EventThread

-----------------------------------------------------------------------------
(* A loop that was asked to leave is not forgotten *)

\* The steps that leave the stack alone and lose no pending runnable.
LEMMA NotForgottenFrame ==
    ASSUME IInv, quit \subseteq quit',
           UNCHANGED <<state, stack>>,
           \A l \in Loops : LeaveIsPending(l) => LeaveIsPending(l)'
    PROVE  LeavingLoopNotForgotten'
  BY DEF IInv, LeavingLoopNotForgotten, IsLeaving, Top

\* The runnable stays pending from EventLoop.enter() until it runs.
LEMMA NotForgottenStep == ASSUME IInv, [Next]_vars PROVE LeavingLoopNotForgotten'
  <1> USE DEF dispatcherVars, loopVars, nativeVars, callerVars
  <1>0. TypeOK /\ TypeOK' /\ stack = mainLoops
    BY TypeStep DEF IInv, StackInv
  <1>1. CASE UNCHANGED vars
    BY <1>1, NotForgottenFrame DEF vars, LeaveIsPending, HandlerOnTop, Top, Elements
  <1>2. CASE TakeFirst
    <2>1. Elements(deque) = Elements(deque') \cup {r'} /\ idle' = idle
      BY <1>0, <1>2, TailFacts DEF TakeFirst, TypeOK
    <2>2. \A l \in Loops : LeaveIsPending(l) => LeaveIsPending(l)'
      BY <1>2, <2>1 DEF TakeFirst, LeaveIsPending, HandlerOnTop, Top, Elements
    <2> QED BY <1>2, <2>2, NotForgottenFrame DEF TakeFirst
  <1>3. CASE PutBack
    <2>1. Elements(deque') = Elements(deque) \cup {r}
      BY <1>0, <1>3, ConsFacts DEF PutBack, AddFirst, TypeOK
    <2>2. \A l \in Loops : LeaveIsPending(l) => LeaveIsPending(l)'
      BY <1>3, <2>1 DEF PutBack, LeaveIsPending, HandlerOnTop, Top, Elements
    <2> QED BY <1>3, <2>2, NotForgottenFrame DEF PutBack
  <1>4. CASE MayPass
    BY <1>4, NotForgottenFrame DEF MayPass, LeaveIsPending, HandlerOnTop, Top, Elements
  <1>5. CASE Submit
    <2>1. Elements(idle') = Elements(idle) \cup {r}
      BY <1>0, <1>5, AppendFacts DEF Submit, TypeOK, Futures
    <2>2. \A l \in Loops : LeaveIsPending(l) => LeaveIsPending(l)'
      BY <1>5, <2>1 DEF Submit, LeaveIsPending, HandlerOnTop, Top, Elements
    <2> QED BY <1>5, <2>2, NotForgottenFrame DEF Submit
  <1>6. CASE Awaited
    BY <1>6, NotForgottenFrame DEF Awaited, LeaveIsPending, HandlerOnTop, Top, Elements
  <1>7. CASE WaitedLeft
    BY <1>7, NotForgottenFrame DEF WaitedLeft, LeaveIsPending, HandlerOnTop, Top, Elements
  <1>8. ASSUME NEW t \in Runnables, InvokeLater(t) PROVE LeavingLoopNotForgotten'
    <2>0. t \in Posted
      BY DEF Posted
    <2>1. Elements(deque') = Elements(deque) \cup {t}
      BY <1>0, <1>8, <2>0, AppendFacts DEF InvokeLater, TypeOK
    <2>2. \A l \in Loops : LeaveIsPending(l) => LeaveIsPending(l)'
      BY <1>8, <2>1 DEF InvokeLater, LeaveIsPending, HandlerOnTop, Top, Elements
    <2> QED BY <1>8, <2>2, NotForgottenFrame DEF InvokeLater
  <1>9. ASSUME NEW c \in Callers, InvokeAndWait(c) PROVE LeavingLoopNotForgotten'
    <2>1. Elements(idle') = Elements(idle) \cup {c}
      BY <1>0, <1>9, AppendFacts DEF InvokeAndWait, TypeOK, Futures
    <2>2. \A l \in Loops : LeaveIsPending(l) => LeaveIsPending(l)'
      BY <1>9, <2>1 DEF InvokeAndWait, LeaveIsPending, HandlerOnTop, Top, Elements
    <2> QED BY <1>9, <2>2, NotForgottenFrame DEF InvokeAndWait
  <1>10. ASSUME NEW c \in Callers, InvokeAndWaitReturns(c) PROVE LeavingLoopNotForgotten'
    BY <1>10, NotForgottenFrame
       DEF InvokeAndWaitReturns, LeaveIsPending, HandlerOnTop, Top, Elements
  <1>11. CASE RunIdle
    <2>1. Elements(idle) = Elements(idle') \cup {Head(idle)} /\ Head(idle) \in Futures
      BY <1>0, <1>11, TailFacts DEF RunIdle, TypeOK
    <2>2. HandlerOnTop' /\ Top(handlers)' = Head(idle)
      BY <1>0, <1>11, <2>1, AppendFacts DEF RunIdle, HandlerOnTop, TypeOK, Handlers, Top
    <2>3. \A l \in Loops : LeaveIsPending(l) => LeaveIsPending(l)'
      BY <1>11, <2>1, <2>2 DEF RunIdle, LeaveIsPending, Elements
    <2> QED BY <1>11, <2>3, NotForgottenFrame DEF RunIdle
  <1>12. ASSUME NEW e \in Events, NativeEvent(e) PROVE LeavingLoopNotForgotten'
    <2>1. \A l \in Loops : LeaveIsPending(l) => LeaveIsPending(l)'
      BY <1>12 DEF NativeEvent, LeaveIsPending, Elements
    <2> QED BY <1>12, <2>1, NotForgottenFrame DEF NativeEvent
  <1>13. ASSUME NEW l \in Loops, ReturnFromLoop(l) PROVE LeavingLoopNotForgotten'
    <2>1. CASE IsLeaving(stack)'
      <3>1. deque' = Append(deque, l) /\ l \in Posted
        BY <1>13, <2>1 DEF ReturnFromLoop, LeaveNextLoop, IsLeaving, Top, Posted
      <3>2. l \in Elements(deque)'
        <4>1. Elements(Append(deque, l)) = Elements(deque) \cup {l}
          BY <1>0, <3>1, AppendFacts DEF TypeOK
        <4> QED BY <3>1, <4>1 DEF Elements
      <3> QED BY <3>2 DEF LeavingLoopNotForgotten, LeaveIsPending
    <2> QED BY <2>1 DEF LeavingLoopNotForgotten
  <1>14. ASSUME NEW l \in Loops, EnterNestedEventLoop(l) PROVE LeavingLoopNotForgotten'
    <2>1. Top(stack') = l /\ state'[l] = "ACTIVE"
      BY <1>0, <1>14, AppendFacts DEF EnterNestedEventLoop, TypeOK
    <2> QED BY <2>1 DEF LeavingLoopNotForgotten, IsLeaving, Top
  <1>15. ASSUME NEW l \in Loops, ExitNestedEventLoop(l) PROVE LeavingLoopNotForgotten'
    <2>1. \A k \in Loops : LeaveIsPending(k) => LeaveIsPending(k)'
      BY <1>15 DEF ExitNestedEventLoop, LeaveIsPending, HandlerOnTop, Top, Elements
    <2>2. CASE Top(stack) = l
      <3>1. Top(stack') \in quit'
        BY <1>0, <1>15, <2>2 DEF ExitNestedEventLoop, LeaveNestedEventLoop
      <3> QED BY <3>1 DEF LeavingLoopNotForgotten, Top
    <2>3. CASE Top(stack) # l
      <3>1. quit' = quit /\ state'[Top(stack)] = state[Top(stack)] /\ stack' = stack
        BY <1>0, <1>15, <2>3 DEF ExitNestedEventLoop, NoLeave, TypeOK
      <3> QED BY <2>1, <3>1 DEF IInv, LeavingLoopNotForgotten, IsLeaving, Top
    <2> QED BY <2>2, <2>3
  <1>16. CASE AppHandlerReturns
    <2>1. \A l \in Loops : LeaveIsPending(l) => LeaveIsPending(l)'
      BY <1>16 DEF AppHandlerReturns, AppHandlerOnTop, LeaveIsPending, Elements
    <2> QED BY <1>16, <2>1, NotForgottenFrame DEF AppHandlerReturns
  <1>17. CASE LeaveOuterLoop
    <2>1. CASE StillLeaving
      <3>1. Top(stack') \in quit'
        BY <1>0, <1>17, <2>1 DEF LeaveOuterLoop, LeaveNestedEventLoop
      <3> QED BY <3>1 DEF LeavingLoopNotForgotten, Top
    <2>2. CASE ~StillLeaving
      BY <1>17, <2>2 DEF LeaveOuterLoop, StillLeaving, LeavingLoopNotForgotten, IsLeaving, Top
    <2> QED BY <2>1, <2>2
  <1> QED
    BY <1>1, <1>2, <1>3, <1>4, <1>5, <1>6, <1>7, <1>8, <1>9, <1>10, <1>11, <1>12,
       <1>13, <1>14, <1>15, <1>16, <1>17
       DEF Next, Dispatcher, EventThread, OtherThreads

-----------------------------------------------------------------------------
(* Every posted runnable is in one place only *)

\* Something new is posted: a runnable, or a loop's at the end of enter().
LEMMA PostFresh ==
    ASSUME IInv, NEW t \in Posted, t \notin Elements(posted),
           deque' = Append(deque, t), posted' = Append(posted, t),
           UNCHANGED <<pc, r, idle, handlers>>
    PROVE  OnePlaceInv' /\ Elements(posted)' = Elements(posted) \cup {t}
  <1>1. /\ Elements(deque') = Elements(deque) \cup {t}
        /\ Len(deque') = Len(deque) + 1 /\ Len(deque) \in Nat
        /\ deque'[Len(deque) + 1] = t
        /\ \A i \in 1 .. Len(deque) : deque'[i] = deque[i]
    BY AppendFacts DEF IInv, TypeOK
  <1>2. Elements(posted') = Elements(posted) \cup {t}
    BY AppendFacts DEF IInv, TypeOK
  <1>3. t \notin Elements(deque)
    BY DEF IInv, OnePlaceInv
  <1>4. \A i, j \in 1 .. Len(deque') : deque'[i] = deque'[j] => i = j
    BY <1>1, <1>3 DEF IInv, OnePlaceInv, Elements
  <1>5. /\ Elements(deque)' = Elements(deque') /\ Elements(posted)' = Elements(posted')
        /\ Elements(idle)' = Elements(idle) /\ Elements(handlers)' = Elements(handlers)
    BY DEF Elements
  <1>6. OnePlaceInv'
    BY <1>1, <1>2, <1>4, <1>5 DEF IInv, OnePlaceInv
  <1> QED BY <1>2, <1>5, <1>6

\* The event thread's call stack only grows by what comes from the idle queue
\* or is not posted, and nothing enters the deque.
LEMMA OnePlaceFrame ==
    ASSUME IInv, UNCHANGED <<deque, posted, pc, r>>,
           \A t \in Posted :
              t \in Elements(idle') \cup Elements(handlers') =>
              t \in Elements(idle) \cup Elements(handlers)
    PROVE  OnePlaceInv'
  <1>1. /\ Elements(deque)' = Elements(deque) /\ Elements(posted)' = Elements(posted)
        /\ Elements(idle)' = Elements(idle') /\ Elements(handlers)' = Elements(handlers')
    BY DEF Elements
  <1> QED BY <1>1 DEF IInv, OnePlaceInv

\* Every step keeps posted runnables apart, and a loop posts only once.
LEMMA OnePlaceStep == ASSUME IInv, [Next]_vars PROVE OnePlaceInv' /\ PostedInv'
  <1> USE DEF dispatcherVars, loopVars, nativeVars, callerVars
  <1> DEFINE Goal == OnePlaceInv' /\ PostedInv'
  <1>0. TypeOK /\ TypeOK' /\ stack = mainLoops
    BY TypeStep DEF IInv, StackInv
  <1>a. ASSUME UNCHANGED <<posted, state, created>> PROVE PostedInv'
    BY <1>a DEF IInv, PostedInv, Elements
  <1>b. /\ Elements(deque)' = Elements(deque') /\ Elements(posted)' = Elements(posted')
        /\ Elements(idle)' = Elements(idle') /\ Elements(handlers)' = Elements(handlers')
    BY DEF Elements
  <1>1. CASE UNCHANGED vars
    BY <1>1, <1>a, OnePlaceFrame DEF vars
  <1>2. CASE TakeFirst
    <2>1. /\ Elements(deque) = Elements(deque') \cup {r'} /\ deque # << >>
          /\ Len(deque') = Len(deque) - 1 /\ Len(deque) \in Nat
          /\ \A i \in 1 .. Len(deque) - 1 : deque'[i] = deque[i + 1]
          /\ r' = deque[1] /\ Len(deque) > 0
      BY <1>0, <1>2, TailFacts DEF TakeFirst, TypeOK
    <2>2. \A i, j \in 1 .. Len(deque') : deque'[i] = deque'[j] => i = j
      BY <2>1 DEF IInv, OnePlaceInv
    <2>3. r' \notin Elements(deque')
      <3>1. \A i \in 1 .. Len(deque') : i + 1 \in 1 .. Len(deque) /\ deque'[i] = deque[i + 1]
        BY <2>1
      <3>2. 1 \in 1 .. Len(deque) /\ \A i \in 1 .. Len(deque') : i + 1 # 1
        BY <2>1
      <3>3. \A i \in 1 .. Len(deque') : deque'[i] # r'
        BY <2>1, <3>1, <3>2 DEF IInv, OnePlaceInv
      <3> QED BY <3>3 DEF Elements
    <2>4. OnePlaceInv'
      BY <1>2, <1>b, <2>1, <2>2, <2>3 DEF IInv, OnePlaceInv, TakeFirst
    <2> QED BY <1>2, <1>a, <2>4 DEF TakeFirst
  <1>3. CASE PutBack
    <2>1. /\ Elements(deque') = Elements(deque) \cup {r}
          /\ Len(deque') = Len(deque) + 1 /\ Len(deque) \in Nat
          /\ deque'[1] = r
          /\ \A i \in 1 .. Len(deque) : deque'[i + 1] = deque[i]
          /\ r \in Posted
      BY <1>0, <1>3, ConsFacts DEF PutBack, AddFirst, TypeOK
    <2>2. r \notin Elements(deque) /\ r \in Elements(posted)
      BY <1>3, <2>1 DEF PutBack, IInv, OnePlaceInv
    <2>3. \A i, j \in 1 .. Len(deque') : deque'[i] = deque'[j] => i = j
      <3>1. \A i \in 2 .. Len(deque') : i - 1 \in 1 .. Len(deque) /\ deque'[i] = deque[i - 1]
        BY <2>1
      <3>2. \A i \in 2 .. Len(deque') : deque'[i] # r
        BY <2>2, <3>1 DEF Elements
      <3>3. \A i, j \in 2 .. Len(deque') : deque'[i] = deque'[j] => i = j
        <4> SUFFICES ASSUME NEW i \in 2 .. Len(deque'), NEW j \in 2 .. Len(deque'),
                            deque'[i] = deque'[j]
                     PROVE  i = j
          OBVIOUS
        <4>1. i - 1 = j - 1
          BY <3>1 DEF IInv, OnePlaceInv
        <4> QED BY <2>1, <4>1
      <3>4. \A i \in 1 .. Len(deque') : i = 1 \/ i \in 2 .. Len(deque')
        BY <2>1
      <3> QED BY <2>1, <3>2, <3>3, <3>4
    <2>4. OnePlaceInv'
      BY <1>3, <1>b, <2>1, <2>2, <2>3 DEF IInv, OnePlaceInv, PutBack
    <2> QED BY <1>3, <1>a, <2>4 DEF PutBack
  <1>4. CASE MayPass
    BY <1>4, <1>a, <1>b DEF IInv, OnePlaceInv, MayPass
  <1>5. CASE Submit
    <2>1. Elements(idle') = Elements(idle) \cup {r}
      BY <1>0, <1>5, AppendFacts DEF Submit, TypeOK, Futures
    <2> QED BY <1>5, <1>a, <1>b, <2>1 DEF IInv, OnePlaceInv, Submit
  <1>6. CASE Awaited
    BY <1>6, <1>a, <1>b DEF IInv, OnePlaceInv, Awaited
  <1>7. CASE WaitedLeft
    BY <1>7, <1>a, <1>b DEF IInv, OnePlaceInv, WaitedLeft
  <1>8. ASSUME NEW t \in Runnables, InvokeLater(t) PROVE Goal
    <2>1. t \in Posted /\ t \notin Loops
      BY DisjointAssumption DEF Posted
    <2>2. OnePlaceInv' /\ Elements(posted)' = Elements(posted) \cup {t}
      BY <1>8, <2>1, PostFresh DEF InvokeLater
    <2> QED BY <1>8, <2>1, <2>2 DEF InvokeLater, IInv, PostedInv
  <1>9. ASSUME NEW c \in Callers, InvokeAndWait(c) PROVE Goal
    <2>1. c \in Futures /\ c \notin Posted
      BY DisjointAssumption DEF Futures, Posted
    <2>2. Elements(idle') = Elements(idle) \cup {c}
      BY <1>0, <1>9, <2>1, AppendFacts DEF InvokeAndWait, TypeOK
    <2> QED BY <1>9, <1>a, <2>1, <2>2, OnePlaceFrame DEF InvokeAndWait
  <1>10. ASSUME NEW c \in Callers, InvokeAndWaitReturns(c) PROVE Goal
    BY <1>10, <1>a, OnePlaceFrame DEF InvokeAndWaitReturns
  <1>11. CASE RunIdle
    <2>1. Elements(idle) = Elements(idle') \cup {Head(idle)} /\ Head(idle) \in Handlers
      BY <1>0, <1>11, TailFacts DEF RunIdle, TypeOK, Handlers
    <2>2. Elements(handlers') = Elements(handlers) \cup {Head(idle)}
      BY <1>0, <1>11, <2>1, AppendFacts DEF RunIdle, TypeOK
    <2> QED BY <1>11, <1>a, <2>1, <2>2, OnePlaceFrame DEF RunIdle
  <1>12. ASSUME NEW e \in Events, NativeEvent(e) PROVE Goal
    <2>1. Elements(handlers') = Elements(handlers) \cup {e} /\ e \notin Posted
      BY <1>0, <1>12, AppendFacts, DisjointAssumption DEF NativeEvent, TypeOK, Handlers, Posted
    <2> QED BY <1>12, <1>a, <2>1, OnePlaceFrame DEF NativeEvent
  <1>13. ASSUME NEW l \in Loops, ReturnFromLoop(l) PROVE Goal
    <2>1. state[l] = "LEAVING" /\ l \in Posted
      BY <1>13 DEF ReturnFromLoop, Quitting, IInv, StackInv, Posted
    <2>2. l \notin Elements(posted) /\ l \in created
      BY <2>1 DEF IInv, PostedInv, StackInv
    <2>3. \A k \in Loops : state'[k] = IF k = l THEN "IDLE" ELSE state[k]
      BY <1>0, <1>13 DEF ReturnFromLoop, TypeOK
    <2>4. CASE UNCHANGED <<deque, posted>>
      BY <1>13, <1>b, <2>2, <2>3, <2>4, OnePlaceFrame DEF ReturnFromLoop, IInv, PostedInv
    <2>5. CASE deque' = Append(deque, l) /\ posted' = Append(posted, l)
      <3>1. OnePlaceInv' /\ Elements(posted)' = Elements(posted) \cup {l}
        BY <1>13, <2>1, <2>2, <2>5, PostFresh DEF ReturnFromLoop
      <3> QED BY <1>13, <2>2, <2>3, <3>1 DEF ReturnFromLoop, IInv, PostedInv
    <2> QED BY <1>13, <2>4, <2>5 DEF ReturnFromLoop, LeaveNextLoop
  <1>14. ASSUME NEW l \in Loops, EnterNestedEventLoop(l) PROVE Goal
    <2>1. OnePlaceInv'
      BY <1>14, OnePlaceFrame DEF EnterNestedEventLoop
    <2>2. \A k \in Loops : k # l => state'[k] = state[k]
      BY <1>0, <1>14 DEF EnterNestedEventLoop, TypeOK
    <2> QED BY <1>14, <1>b, <2>1, <2>2 DEF EnterNestedEventLoop, IInv, PostedInv
  <1>15. ASSUME NEW l \in Loops, ExitNestedEventLoop(l) PROVE Goal
    <2>1. OnePlaceInv'
      BY <1>15, OnePlaceFrame DEF ExitNestedEventLoop
    <2>2. \A k \in Loops : k # l => state'[k] = state[k]
      BY <1>0, <1>15 DEF ExitNestedEventLoop, TypeOK
    <2> QED BY <1>15, <1>b, <2>1, <2>2 DEF ExitNestedEventLoop, IInv, PostedInv
  <1>16. ASSUME HandlerOnTop, HandlerReturns
         PROVE  Elements(handlers') \subseteq Elements(handlers)
    <2>1. handlers # << >> /\ handlers \in Seq(Handlers)
      BY <1>0, <1>16 DEF HandlerOnTop, TypeOK
    <2> QED BY <1>16, <2>1, PopFacts DEF HandlerReturns
  <1>17. CASE AppHandlerReturns
    BY <1>16, <1>17, <1>a, OnePlaceFrame DEF AppHandlerReturns, AppHandlerOnTop
  <1>18. CASE LeaveOuterLoop
    BY <1>16, <1>18, <1>a, OnePlaceFrame DEF LeaveOuterLoop
  <1> QED
    BY <1>1, <1>2, <1>3, <1>4, <1>5, <1>6, <1>7, <1>8, <1>9, <1>10, <1>11, <1>12,
       <1>13, <1>14, <1>15, <1>17, <1>18
       DEF Next, Dispatcher, EventThread, OtherThreads

-----------------------------------------------------------------------------
(* The dispatcher serves the inner loops *)

\* The steps that neither start waiting, nor clear the notification, nor block
\* another handler.
LEMMA ServesFrame ==
    ASSUME IInv, UNCHANGED <<pc, r>>,
           nestedEventLoopEntered => nestedEventLoopEntered',
           \A h \in Posted : Blocked(h)' => Blocked(h)
    PROVE  DispatcherServesInnerLoops'
  BY DEF IInv, TypeOK, DispatcherServesInnerLoops

\* A runnable can block only after the dispatcher began to wait for it, and
\* entering the loop in which it blocks notifies the dispatcher.
LEMMA ServesStep == ASSUME IInv, [Next]_vars PROVE DispatcherServesInnerLoops'
  <1> USE DEF dispatcherVars, loopVars, nativeVars, callerVars
  <1>0. TypeOK /\ TypeOK' /\ stack = mainLoops
    BY TypeStep DEF IInv, StackInv
  <1>a. ASSUME UNCHANGED <<mainLoops, handlers>> PROVE \A h : Blocked(h)' <=> Blocked(h)
    BY <1>a DEF Blocked
  <1>1. CASE UNCHANGED vars
    BY <1>1, <1>a, ServesFrame DEF vars
  <1>2. CASE TakeFirst \/ PutBack \/ MayPass \/ Awaited \/ WaitedLeft
    BY <1>2 DEF DispatcherServesInnerLoops, TakeFirst, PutBack, MayPass, Awaited, WaitedLeft
  <1>3. CASE Submit
    <2>1. r \notin Elements(handlers)
      BY <1>0, <1>3 DEF Submit, IInv, OnePlaceInv, TypeOK
    <2>2. ~Blocked(r)
      BY <1>0, <2>1 DEF Blocked, Elements, TypeOK
    <2> QED BY <1>3, <1>a, <2>2 DEF Submit, DispatcherServesInnerLoops, Blocked
  <1>4. CASE OtherThreads
    BY <1>4, <1>a, ServesFrame
       DEF OtherThreads, InvokeLater, InvokeAndWait, InvokeAndWaitReturns
  <1>5. ASSUME NEW h \in Handlers, ~HandlerOnTop, handlers' = Append(handlers, h),
               mainLoops' = mainLoops
        PROVE  \A k : Blocked(k)' => Blocked(k)
    <2>1. /\ Len(handlers) = Len(mainLoops) /\ Len(mainLoops) \in Nat
          /\ \A i \in 1 .. Len(handlers) : handlers'[i] = handlers[i]
      BY <1>0, <1>5, AppendFacts DEF HandlerOnTop, TypeOK
    <2> QED BY <1>5, <2>1 DEF Blocked
  <1>6. CASE RunIdle
    <2>1. Head(idle) \in Handlers
      BY <1>0, <1>6, TailFacts DEF RunIdle, TypeOK, Handlers
    <2> QED BY <1>5, <1>6, <2>1, ServesFrame DEF RunIdle
  <1>7. ASSUME NEW e \in Events, NativeEvent(e) PROVE DispatcherServesInnerLoops'
    <2>1. e \in Handlers
      BY DEF Handlers
    <2> QED BY <1>5, <1>7, <2>1, ServesFrame DEF NativeEvent
  <1>8. ASSUME NEW l \in Loops, ReturnFromLoop(l) PROVE DispatcherServesInnerLoops'
    <2>1. Len(mainLoops') = Len(mainLoops) - 1 /\ Len(mainLoops) \in Nat
      BY <1>0, <1>8, PopFacts DEF ReturnFromLoop, Quitting, TypeOK
    <2>2. \A h : Blocked(h)' => Blocked(h)
      BY <1>8, <2>1 DEF Blocked, ReturnFromLoop
    <2> QED BY <1>8, <2>2, ServesFrame DEF ReturnFromLoop
  <1>9. ASSUME NEW l \in Loops, EnterNestedEventLoop(l) PROVE DispatcherServesInnerLoops'
    BY <1>9 DEF EnterNestedEventLoop, NotifyEnteringNestedEventLoop, DispatcherServesInnerLoops
  <1>10. ASSUME NEW l \in Loops, ExitNestedEventLoop(l) PROVE DispatcherServesInnerLoops'
    BY <1>10, <1>a, ServesFrame DEF ExitNestedEventLoop
  <1>11. ASSUME HandlerOnTop, HandlerReturns, mainLoops' = mainLoops
         PROVE  \A h : Blocked(h)' => Blocked(h)
    <2>1. handlers # << >> /\ handlers \in Seq(Handlers) /\ Len(handlers) = Len(mainLoops) + 1
          /\ Len(mainLoops) \in Nat
      BY <1>0, <1>11 DEF HandlerOnTop, TypeOK
    <2>2. /\ Len(handlers') = Len(mainLoops)
          /\ \A i \in 1 .. Len(mainLoops) : handlers'[i] = handlers[i]
      BY <1>11, <2>1, PopFacts DEF HandlerReturns
    <2> QED BY <1>11, <2>1, <2>2 DEF Blocked
  <1>12. CASE AppHandlerReturns
    BY <1>11, <1>12, ServesFrame DEF AppHandlerReturns, AppHandlerOnTop
  <1>13. CASE LeaveOuterLoop
    BY <1>11, <1>13, ServesFrame DEF LeaveOuterLoop
  <1> QED
    BY <1>1, <1>2, <1>3, <1>4, <1>6, <1>7, <1>8, <1>9, <1>10, <1>12, <1>13
       DEF Next, Dispatcher, EventThread

-----------------------------------------------------------------------------
(* The theorems *)

\* Every step preserves the invariant.
LEMMA NextIInv == IInv /\ [Next]_vars => IInv'
  BY TypeStep, LoopPartStep, NotForgottenStep, OnePlaceStep, ServesStep
     DEF IInv, LoopPart

\* The invariant holds in every reachable state.
THEOREM Invariance == Spec => []IInv
  BY InitIInv, NextIInv, PTL DEF Spec

\* Type correctness of the event loop model; in particular the call stack of
\* the event thread always alternates loops and handlers.
THEOREM TypeCorrect == Spec => []TypeOK
  BY Invariance, PTL DEF IInv

\* EventLoop.leave() and Application.leaveNestedEventLoop() never throw their
\* IllegalStateException when called through QuantumToolkit.
THEOREM LeavingIsLegal == Spec => []LeaveNeverThrows
  BY Invariance, PTL DEF IInv

\* The assertions of EventLoop.enter() on the state and on the stack hold
\* whenever a native loop returns.
THEOREM AssertionsHold == Spec => []EnterAssertions
  <1>1. IInv => EnterAssertions
    <2> SUFFICES ASSUME IInv, Quitting
                 PROVE  /\ stack # << >>
                        /\ Top(stack) = Top(mainLoops)
                        /\ state[Top(stack)] = "LEAVING"
      BY DEF EnterAssertions
    <2> QED BY DEF IInv, StackInv, Quitting
  <1> QED BY <1>1, Invariance, PTL

\* The dispatcher never sleeps on a runnable that is blocked in a nested loop
\* it has not been told about.
THEOREM InnerLoopsServed == Spec => []DispatcherServesInnerLoops
  BY Invariance, PTL DEF IInv

\* leavingNestedEventLoop never outlives the native loops being left.
THEOREM HoldingBackEnds == Spec => []HeldBackForALoop
  BY Invariance, PTL DEF IInv

\* A loop that was asked to leave while it was not innermost is told to quit,
\* or will be by a runnable on its way, once it is innermost.
THEOREM NoLeaveForgotten == Spec => []LeavingLoopNotForgotten
  BY Invariance, PTL DEF IInv
=============================================================================
