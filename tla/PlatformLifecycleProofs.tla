---------------------- MODULE PlatformLifecycleProofs ----------------------
(***************************************************************************)
(* The safety properties of PlatformLifecycle for any finite number of     *)
(* threads, calls, events, windows and nested loops: pendingRunnables      *)
(* counts what is on its way, Toolkit.exit() runs once, and the runtime    *)
(* does not find itself idle while a window shows or a nested loop runs.   *)
(***************************************************************************)
EXTENDS PlatformLifecycle, FiniteSetTheorems, SequenceTheorems, TLAPS

-----------------------------------------------------------------------------
(* The parts of the inductive invariant *)

TypeInv == FlagTypes /\ FxTypes /\ ThreadTypes /\ pendingRunnables \in Int

\* Where the FX thread returns to: every nested loop has its handler below
\* it, and a handler that is in its finally block is a deferred runnable.
NoHandler == {"notStarted", "runToolkit", "loop", "ended"}

StackInv ==
    /\ Len(handlers) = nested + (IF fx.pc \in NoHandler THEN 0 ELSE 1)
    /\ fx.pc \in {"notStarted", "runToolkit"} => nested = 0
    /\ fx.pc \in NoHandler \cup {"body", "finish"} => fx.cont = "none" /\ fx.why = "none"
    /\ fx.pc \in {"notify", "tkExit"} => fx.cont \in {"body", "pop"}
    /\ fx.pc \in {"exit", "finishTerminating", "dispose", "exited"} =>
          fx.cont \in {"body", "pop", "finish"}
    /\ fx.cont = "pop" => Top(handlers) \in Deferred
    /\ fx.cont = "finish" => Top(handlers) \in Deferred /\ Top(handlers).kind = "exit"

\* What has been started, and that it is taken down by Toolkit.exit() alone.
StartInv ==
    /\ fx.pc = "notStarted" <=> ~initialized
    /\ startupLatch <=> fx.pc \notin {"notStarted", "runToolkit"}
    /\ startupLatch => toolkitRunning \/ toolkitExit
    /\ initialized => application \/ toolkitExit
    /\ fx.pc \in {"exit", "finishTerminating", "dispose", "exited"} => toolkitExit
    /\ \A t \in InTransit : initialized
    /\ \A t \in Threads : pc[t] \in {"checkExit", "defer", "invokeLater"} => startupLatch

\* Toolkit.exit() is to be run by one at most: a thread that is about to post
\* it, the queue, or the FX thread.
PostsExit(t) == \/ pc[t] = "scheduleExit"
                \/ t \in InTransit /\ item[t].kind = "exit"
QueuedExit == \E i \in 1 .. Len(queue) : queue[i].kind = "exit"
RunsExit == fx.pc \in {"exit", "finishTerminating"}

ExitInv ==
    /\ \A t \in Threads : PostsExit(t) => toolkitExit /\ ~QueuedExit /\ ~RunsExit
    /\ \A t, u \in Threads : PostsExit(t) /\ PostsExit(u) => t = u
    /\ QueuedExit => toolkitExit /\ ~RunsExit
    /\ \A i, j \in 1 .. Len(queue) : queue[i].kind = "exit" /\ queue[j].kind = "exit" => i = j
    /\ initialized /\ ~application =>
          ~QueuedExit /\ ~RunsExit /\ \A t \in Threads : ~PostsExit(t)

\* Runnables are lost from the count only after toolkitExit is set.
PendingInv ==
    LET counted == Cardinality(InTransit) + Len(queue) + Running IN
    /\ pendingRunnables >= counted
    /\ ~toolkitExit => pendingRunnables = counted

IInv == TypeInv /\ StackInv /\ StartInv /\ ExitInv /\ PendingInv
-----------------------------------------------------------------------------
(* Runnables and the call stack *)

Handlers == Deferred \cup {Event, Startup}

LEMMA RunnableFacts ==
    /\ App \in Deferred /\ Dummy \in Deferred
    /\ App.kind = "app" /\ Dummy.kind = "dummy"
    /\ \A t \in Threads : Runnable("wait", t) \in Deferred /\ Runnable("exit", t) \in Deferred
    /\ \A t \in Threads : Runnable("wait", t).kind = "wait" /\ Runnable("exit", t).kind = "exit"
    /\ \A r \in Deferred : r.kind \in {"app", "dummy", "wait", "exit"}
    /\ \A r \in Handlers : r.kind \in {"wait", "exit"} => r.by \in Threads /\ r \in Deferred
    /\ Event \notin Deferred /\ Startup \notin Deferred
<1>1. App.kind = "app" /\ Dummy.kind = "dummy" /\ Event.kind = "event" /\ Startup.kind = "startup"
  BY DEF App, Dummy, Event, Startup, Runnable
<1>2. \A t \in Threads : Runnable("wait", t).kind = "wait" /\ Runnable("exit", t).kind = "exit"
  BY DEF Runnable
<1>3. App \in Deferred /\ Dummy \in Deferred
  BY DEF Deferred
<1>4. \A t \in Threads : Runnable("wait", t) \in Deferred /\ Runnable("exit", t) \in Deferred
  BY DEF Deferred
<1>5. ASSUME NEW r \in Deferred
      PROVE  /\ r.kind \in {"app", "dummy", "wait", "exit"}
             /\ r.kind \in {"wait", "exit"} => r.by \in Threads
  <2>1. CASE r \in {App, Dummy}
    BY <1>1, <2>1
  <2>2. CASE r \in {Runnable(k, t) : k \in {"wait", "exit"}, t \in Threads}
    BY <2>2 DEF Runnable
  <2>3. QED
    BY <2>1, <2>2 DEF Deferred
<1>6. Event \notin Deferred /\ Startup \notin Deferred
  BY <1>1, <1>5
<1>7. ASSUME NEW r \in Handlers, r.kind \in {"wait", "exit"}
      PROVE  r.by \in Threads /\ r \in Deferred
  BY <1>1, <1>5, <1>7 DEF Handlers
<1>8. \A r \in Deferred : r.kind \in {"app", "dummy", "wait", "exit"}
  BY <1>5
<1>9. QED
  BY <1>1, <1>2, <1>3, <1>4, <1>6, <1>7, <1>8

LEMMA PopFacts ==
    ASSUME NEW X, NEW h \in Seq(X), h # << >>
    PROVE  /\ Len(h) \in Nat \ {0}
           /\ Top(h) \in X
           /\ Pop(h) \in Seq(X)
           /\ Len(Pop(h)) = Len(h) - 1
           /\ \A i \in 1 .. Len(h) - 1 : Pop(h)[i] = h[i]
<1>1. Len(h) \in Nat \ {0} /\ \A i \in 1 .. Len(h) : h[i] \in X
  BY EmptySeq, LenProperties
<1>2. Top(h) \in X
  BY <1>1 DEF Top
<1>3. /\ Pop(h) \in Seq(X)
      /\ Len(Pop(h)) = Len(h) - 1
      /\ \A i \in 1 .. Len(h) - 1 : Pop(h)[i] = h[i]
  <2> DEFINE n == Len(h) - 1
  <2>1. n \in Int /\ n >= 0 /\ \A i \in 1 .. n : h[i] \in X
    BY <1>1
  <2> HIDE DEF n
  <2>2. /\ SubSeq(h, 1, n) \in Seq(X)
        /\ Len(SubSeq(h, 1, n)) = IF 1 <= n THEN n - 1 + 1 ELSE 0
        /\ \A i \in 1 .. n - 1 + 1 : SubSeq(h, 1, n)[i] = h[1 + i - 1]
    BY ONLY <2>1, 1 \in Int, SubSeqProperties
  <2>3. Len(SubSeq(h, 1, n)) = n
    BY <2>1, <2>2
  <2>4. \A i \in 1 .. n : SubSeq(h, 1, n)[i] = h[i]
    BY <2>1, <2>2
  <2>5. Pop(h) = SubSeq(h, 1, n)
    BY DEF Pop, n
  <2>6. QED
    BY <2>2, <2>3, <2>4, <2>5 DEF n
<1>4. QED
  BY <1>1, <1>2, <1>3

LEMMA TopOfAppend ==
    ASSUME NEW X, NEW h \in Seq(X), NEW r \in X
    PROVE  /\ Append(h, r) \in Seq(X)
           /\ Top(Append(h, r)) = r
           /\ Len(Append(h, r)) = Len(h) + 1
BY AppendProperties, LenProperties DEF Top

(* How many deferred runnables are on a stack. *)
DeferredOn(h) == {i \in 1 .. Len(h) : h[i] \in Deferred}

LEMMA CountIsNat ==
    ASSUME NEW X, NEW h \in Seq(X)
    PROVE  IsFiniteSet(DeferredOn(h)) /\ Cardinality(DeferredOn(h)) \in Nat
<1>1. IsFiniteSet(1 .. Len(h))
  BY LenProperties, FS_Interval
<1>2. IsFiniteSet(DeferredOn(h))
  BY <1>1, FS_Subset DEF DeferredOn
<1>3. QED
  BY <1>2, FS_CardinalityType

LEMMA CountAppend ==
    ASSUME NEW X, NEW h \in Seq(X), NEW r \in X
    PROVE  Cardinality(DeferredOn(Append(h, r))) =
              Cardinality(DeferredOn(h)) + (IF r \in Deferred THEN 1 ELSE 0)
<1>1. /\ Len(h) \in Nat
      /\ Len(Append(h, r)) = Len(h) + 1
      /\ \A i \in 1 .. Len(h) : Append(h, r)[i] = h[i]
      /\ Append(h, r)[Len(h) + 1] = r
  BY AppendProperties, LenProperties
<1>2. IsFiniteSet(DeferredOn(h)) /\ Cardinality(DeferredOn(h)) \in Nat
  BY CountIsNat
<1>3. CASE r \in Deferred
  <2>1. DeferredOn(Append(h, r)) = DeferredOn(h) \cup {Len(h) + 1}
    BY <1>1, <1>3 DEF DeferredOn
  <2>2. Len(h) + 1 \notin DeferredOn(h)
    BY <1>1 DEF DeferredOn
  <2>3. QED
    BY <1>2, <1>3, <2>1, <2>2, FS_AddElement
<1>4. CASE r \notin Deferred
  <2>1. DeferredOn(Append(h, r)) = DeferredOn(h)
    BY <1>1, <1>4 DEF DeferredOn
  <2>2. QED
    BY <1>2, <1>4, <2>1
<1>5. QED
  BY <1>3, <1>4

LEMMA CountPop ==
    ASSUME NEW X, NEW h \in Seq(X), h # << >>
    PROVE  Cardinality(DeferredOn(Pop(h))) =
              Cardinality(DeferredOn(h)) - (IF Top(h) \in Deferred THEN 1 ELSE 0)
<1>1. /\ Len(h) \in Nat \ {0}
      /\ Len(Pop(h)) = Len(h) - 1
      /\ \A i \in 1 .. Len(h) - 1 : Pop(h)[i] = h[i]
  BY PopFacts
<1>2. IsFiniteSet(DeferredOn(h)) /\ Cardinality(DeferredOn(h)) \in Nat
  BY CountIsNat
<1>3. DeferredOn(Pop(h)) = DeferredOn(h) \ {Len(h)}
  BY <1>1 DEF DeferredOn
<1>4. Len(h) \in DeferredOn(h) <=> Top(h) \in Deferred
  BY <1>1 DEF DeferredOn, Top
<1>5. Cardinality(DeferredOn(h) \ {Len(h)}) =
          IF Len(h) \in DeferredOn(h) THEN Cardinality(DeferredOn(h)) - 1
          ELSE Cardinality(DeferredOn(h))
  BY <1>2, FS_RemoveElement
<1>6. QED
  BY <1>2, <1>3, <1>4, <1>5

-----------------------------------------------------------------------------
(* checkIdle and the return to the handler's body or out of it *)

(* What checkIdle does besides its flags: it may post its empty runnable,    *)
(* unless the toolkit exits, and goes back, or on to notify the listeners.   *)
LEMMA CheckIdleEffect ==
    ASSUME FlagTypes, NEW n \in Nat, NEW p \in Int, NEW m, NEW c,
           CheckIdle(n, p, m, c)
    PROVE  /\ firstWindowShown' \in BOOLEAN /\ lastWindowClosed' \in BOOLEAN
           /\ reallyIdle' \in BOOLEAN
           /\ \/ queue' = queue /\ pendingRunnables' = p
              \/ ~toolkitExit /\ queue' = Append(queue, Dummy) /\ pendingRunnables' = p + 1
           /\ \/ Resume(c)
              \/ fx' = At("notify", c, "idle") /\ handlers' = handlers /\ p = 0
<1>1. CASE ~fxUserThread
  BY <1>1 DEF CheckIdle, FlagTypes, idleFlags
<1>2. CASE fxUserThread
  <2>1. firstWindowShown' \in BOOLEAN /\ lastWindowClosed' \in BOOLEAN /\ reallyIdle' \in BOOLEAN
    BY <1>2 DEF CheckIdle, IdleFlags, IdleNow, FlagTypes
  <2>2. \/ queue' = queue /\ pendingRunnables' = p
        \/ ~toolkitExit /\ queue' = Append(queue, Dummy) /\ pendingRunnables' = p + 1
    BY <1>2 DEF CheckIdle, FxRunLater
  <2>3. \/ Resume(c)
        \/ fx' = At("notify", c, "idle") /\ handlers' = handlers /\ p = 0
    BY <1>2 DEF CheckIdle, IdleNow
  <2>4. QED
    BY <2>1, <2>2, <2>3
<1>3. QED
  BY <1>1, <1>2 DEF FlagTypes

-----------------------------------------------------------------------------
(* Types *)

USE DEF platformVars, listenerVars, flagVars, postVars, idleFlags, toolkitVars, stackVars,
        fxState, threadVars, threadState, TypeInv

(* A step that leaves the variables of a part alone keeps their types. *)
LEMMA TypeFrame ==
    /\ FlagTypes
       /\ UNCHANGED <<flagVars, numWindows, idleFlags, toolkitVars, runLaterLock>> => FlagTypes'
    /\ FxTypes /\ UNCHANGED <<queue, fx, stackVars>> => FxTypes'
    /\ ThreadTypes /\ UNCHANGED <<threadVars, latch, failed>> => ThreadTypes'
    /\ pendingRunnables \in Int /\ UNCHANGED pendingRunnables => pendingRunnables' \in Int
BY DEF FlagTypes, FxTypes, ThreadTypes

(* The calls of other threads: their first steps. *)
LEMMA BeginCallType ==
    ASSUME TypeInv,
           NEW t \in Threads, BeginCall(t)
    PROVE  TypeInv'
<1>1. CASE StartupCall(t)
  <2>1. ThreadTypes'
    BY <1>1 DEF StartupCall, ThreadTypes, Goto
  <2>2. FlagTypes' /\ FxTypes' /\ pendingRunnables' \in Int
    BY <1>1, TypeFrame DEF StartupCall
  <2>3. QED
    BY <2>1, <2>2
<1>2. CASE RunLaterCall(t)
  <2>1. ThreadTypes'
    BY <1>2, RunnableFacts DEF RunLaterCall, ThreadTypes, Goto, BeginRunLater
  <2>2. pendingRunnables' \in Int
    BY <1>2 DEF RunLaterCall, BeginRunLater
  <2>3. FlagTypes' /\ FxTypes'
    BY <1>2, TypeFrame DEF RunLaterCall, Begin
  <2>4. QED
    BY <2>1, <2>2, <2>3
<1>3. CASE RunAndWaitCall(t)
  <2>1. ThreadTypes'
    BY <1>3, RunnableFacts DEF RunAndWaitCall, ThreadTypes, Goto, BeginRunLater
  <2>2. pendingRunnables' \in Int
    BY <1>3 DEF RunAndWaitCall, BeginRunLater
  <2>3. FlagTypes' /\ FxTypes'
    BY <1>3, TypeFrame DEF RunAndWaitCall, Begin
  <2>4. QED
    BY <2>1, <2>2, <2>3
<1>4. CASE ExitCall(t)
  <2>1. FlagTypes'
    BY <1>4 DEF ExitCall, FlagTypes
  <2>2. ThreadTypes'
    BY <1>4 DEF ExitCall, ThreadTypes, Goto
  <2>3. FxTypes' /\ pendingRunnables' \in Int
    BY <1>4, TypeFrame DEF ExitCall, Begin
  <2>4. QED
    BY <2>1, <2>2, <2>3
<1>5. CASE TkExitCall(t)
  <2>1. ThreadTypes'
    BY <1>5 DEF TkExitCall, ThreadTypes, Goto
  <2>2. FlagTypes' /\ FxTypes' /\ pendingRunnables' \in Int
    BY <1>5, TypeFrame DEF TkExitCall, Begin
  <2>3. QED
    BY <2>1, <2>2
<1>6. CASE SetImplicitExitCall(t)
  <2>1. FlagTypes'
    BY <1>6 DEF SetImplicitExitCall, FlagTypes
  <2>2. ThreadTypes'
    BY <1>6 DEF SetImplicitExitCall, ThreadTypes, Goto
  <2>3. FxTypes' /\ pendingRunnables' \in Int
    BY <1>6, TypeFrame DEF SetImplicitExitCall, Begin
  <2>4. QED
    BY <2>1, <2>2, <2>3
<1>7. CASE AddListenerCall(t)
  <2>1. FlagTypes'
    BY <1>7 DEF AddListenerCall, FlagTypes
  <2>2. ThreadTypes'
    BY <1>7 DEF AddListenerCall, ThreadTypes, Goto
  <2>3. FxTypes' /\ pendingRunnables' \in Int
    BY <1>7, TypeFrame DEF AddListenerCall, Begin
  <2>4. QED
    BY <2>1, <2>2, <2>3
<1>8. CASE RemoveListenerCall(t)
  <2>1. FlagTypes'
    BY <1>8 DEF RemoveListenerCall, FlagTypes
  <2>2. ThreadTypes'
    BY <1>8 DEF RemoveListenerCall, ThreadTypes, Goto
  <2>3. FxTypes' /\ pendingRunnables' \in Int
    BY <1>8, TypeFrame DEF RemoveListenerCall, Begin
  <2>4. QED
    BY <2>1, <2>2, <2>3
<1>9. QED
  BY <1>1, <1>2, <1>3, <1>4, <1>5, <1>6, <1>7, <1>8 DEF BeginCall

(* runLater on another thread. *)
LEMMA RunLaterStepsType ==
    ASSUME TypeInv,
           NEW t \in Threads, RunLaterSteps(t)
    PROVE  TypeInv'
<1>1. CASE WaitForStart(t)
  <2>1. FlagTypes'
    BY <1>1 DEF WaitForStart, FlagTypes
  <2>2. ThreadTypes'
    BY <1>1 DEF WaitForStart, ThreadTypes, Goto
  <2>3. FxTypes' /\ pendingRunnables' \in Int
    BY <1>1, TypeFrame DEF WaitForStart
  <2>4. QED
    BY <2>1, <2>2, <2>3
<1>2. CASE CheckExit(t)
  <2>1. FlagTypes'
    BY <1>2 DEF CheckExit, FlagTypes, Unlock
  <2>2. ThreadTypes'
    BY <1>2 DEF CheckExit, ThreadTypes, Goto, AfterRunLater
  <2>3. pendingRunnables' \in Int
    BY <1>2 DEF CheckExit
  <2>4. FxTypes'
    BY <1>2, TypeFrame DEF CheckExit
  <2>5. QED
    BY <2>1, <2>2, <2>3, <2>4
<1>3. CASE Defer(t)
  <2>1. FlagTypes'
    BY <1>3 DEF Defer, FlagTypes, Unlock
  <2>2. ThreadTypes'
    BY <1>3 DEF Defer, ThreadTypes, Goto, AfterRunLater
  <2>3. FxTypes' /\ pendingRunnables' \in Int
    BY <1>3, TypeFrame DEF Defer
  <2>4. QED
    BY <2>1, <2>2, <2>3
<1>4. CASE InvokeLater(t)
  <2>1. FlagTypes'
    BY <1>4 DEF InvokeLater, FlagTypes, Unlock
  <2>2. FxTypes'
    <3>1. queue' = queue \/ queue' = Append(queue, item[t])
      BY <1>4 DEF InvokeLater
    <3>2. queue' \in Seq(Deferred)
      BY <3>1, AppendProperties DEF FxTypes, ThreadTypes
    <3>3. QED
      BY <1>4, <3>2 DEF InvokeLater, FxTypes
  <2>3. ThreadTypes'
    BY <1>4 DEF InvokeLater, ThreadTypes, Goto, AfterRunLater
  <2>4. pendingRunnables' \in Int
    BY <1>4, TypeFrame DEF InvokeLater
  <2>5. QED
    BY <2>1, <2>2, <2>3, <2>4
<1>5. CASE WaitCheck(t)
  <2>1. ThreadTypes'
    BY <1>5 DEF WaitCheck, ThreadTypes, Goto
  <2>2. FlagTypes' /\ FxTypes' /\ pendingRunnables' \in Int
    BY <1>5, TypeFrame DEF WaitCheck
  <2>3. QED
    BY <2>1, <2>2
<1>6. CASE Awaited(t)
  <2>1. FlagTypes'
    BY <1>6 DEF Awaited, FlagTypes
  <2>2. ThreadTypes'
    BY <1>6 DEF Awaited, ThreadTypes, Goto
  <2>3. FxTypes' /\ pendingRunnables' \in Int
    BY <1>6, TypeFrame DEF Awaited
  <2>4. QED
    BY <2>1, <2>2, <2>3
<1>7. QED
  BY <1>1, <1>2, <1>3, <1>4, <1>5, <1>6 DEF RunLaterSteps

(* The later steps of their calls. *)
LEMMA ContinueCallType ==
    ASSUME TypeInv,
           NEW t \in Threads, ContinueCall(t)
    PROVE  TypeInv'
<1>1. CASE StartupToolkit(t)
  <2>1. FlagTypes'
    <3>1. initialized' \in BOOLEAN /\ application' \in BOOLEAN
      BY <1>1 DEF StartupToolkit, FlagTypes
    <3>2. QED
      BY <1>1, <3>1 DEF StartupToolkit, FlagTypes
  <2>2. FxTypes'
    BY <1>1 DEF StartupToolkit, FxTypes, At, FxPlaces
  <2>3. ThreadTypes'
    BY <1>1, RunnableFacts DEF StartupToolkit, ThreadTypes, Goto, BeginRunLater
  <2>4. pendingRunnables' \in Int
    BY <1>1 DEF StartupToolkit, BeginRunLater
  <2>5. QED
    BY <2>1, <2>2, <2>3, <2>4
<1>2. CASE Launched(t)
  <2>1. ThreadTypes'
    BY <1>2 DEF Launched, ThreadTypes, Goto
  <2>2. FlagTypes' /\ FxTypes' /\ pendingRunnables' \in Int
    BY <1>2, TypeFrame DEF Launched
  <2>3. QED
    BY <2>1, <2>2
<1>3. CASE Notify(t)
  <2>1. ThreadTypes'
    BY <1>3 DEF Notify, ThreadTypes, Goto
  <2>2. FlagTypes' /\ FxTypes' /\ pendingRunnables' \in Int
    BY <1>3, TypeFrame DEF Notify
  <2>3. QED
    BY <2>1, <2>2
<1>4. CASE TkExit(t)
  <2>1. FlagTypes'
    BY <1>4 DEF TkExit, FlagTypes
  <2>2. ThreadTypes'
    BY <1>4 DEF TkExit, ThreadTypes, Goto, AfterGetAndSet
  <2>3. FxTypes' /\ pendingRunnables' \in Int
    BY <1>4, TypeFrame DEF TkExit
  <2>4. QED
    BY <2>1, <2>2, <2>3
<1>5. CASE ScheduleExit(t)
  <2>1. ThreadTypes'
    BY <1>5, RunnableFacts DEF ScheduleExit, ThreadTypes, Goto, BeginRunLater
  <2>2. pendingRunnables' \in Int
    BY <1>5 DEF ScheduleExit, BeginRunLater
  <2>3. FlagTypes' /\ FxTypes'
    BY <1>5, TypeFrame DEF ScheduleExit
  <2>4. QED
    BY <2>1, <2>2, <2>3
<1>6. CASE CheckIdleElsewhere(t)
  <2>1. ThreadTypes'
    BY <1>6, RunnableFacts DEF CheckIdleElsewhere, ThreadTypes, Goto, BeginRunLater
  <2>2. pendingRunnables' \in Int
    BY <1>6 DEF CheckIdleElsewhere, BeginRunLater
  <2>3. FlagTypes' /\ FxTypes'
    BY <1>6, TypeFrame DEF CheckIdleElsewhere
  <2>4. QED
    BY <2>1, <2>2, <2>3
<1>7. CASE Add(t)
  <2>1. FlagTypes'
    BY <1>7 DEF Add, FlagTypes
  <2>2. ThreadTypes'
    BY <1>7 DEF Add, ThreadTypes, Goto
  <2>3. FxTypes' /\ pendingRunnables' \in Int
    BY <1>7, TypeFrame DEF Add
  <2>4. QED
    BY <2>1, <2>2, <2>3
<1>8. CASE ReadIsEmpty(t)
  <2>1. ThreadTypes'
    BY <1>8 DEF ReadIsEmpty, ThreadTypes, Goto
  <2>2. FlagTypes' /\ FxTypes' /\ pendingRunnables' \in Int
    BY <1>8, TypeFrame DEF ReadIsEmpty
  <2>3. QED
    BY <2>1, <2>2
<1>9. CASE SetRegistered(t)
  <2>1. FlagTypes'
    BY <1>9 DEF SetRegistered, FlagTypes, ThreadTypes
  <2>2. ThreadTypes'
    BY <1>9 DEF SetRegistered, ThreadTypes, Goto
  <2>3. FxTypes' /\ pendingRunnables' \in Int
    BY <1>9, TypeFrame DEF SetRegistered
  <2>4. QED
    BY <2>1, <2>2, <2>3
<1>10. CASE Removed(t)
  <2>1. ThreadTypes'
    BY <1>10 DEF Removed, ThreadTypes, Goto
  <2>2. FlagTypes' /\ FxTypes' /\ pendingRunnables' \in Int
    BY <1>10, TypeFrame DEF Removed
  <2>3. QED
    BY <2>1, <2>2
<1>11. QED
  BY RunLaterStepsType, <1>1, <1>2, <1>3, <1>4, <1>5, <1>6, <1>7, <1>8, <1>9, <1>10 DEF ContinueCall

(* What the FX thread posts. *)
LEMMA FxPosts ==
    ASSUME FxTypes
    PROVE  Append(queue, App) \in Seq(Deferred) /\ Append(queue, Dummy) \in Seq(Deferred)
<1>1. App \in Deferred /\ Dummy \in Deferred /\ queue \in Seq(Deferred)
  BY RunnableFacts DEF FxTypes
<1>2. QED
  BY <1>1, AppendProperties

(* A handler that runs is on the stack. *)
LEMMA HandlerRuns ==
    ASSUME FxTypes, StackInv, fx.pc \notin NoHandler
    PROVE  handlers # << >> /\ Top(handlers) \in Handlers
<1>1. Len(handlers) = nested + 1 /\ nested \in Nat
  BY BoundsAssumption DEF StackInv, FxTypes
<1>2. handlers # << >> /\ handlers \in Seq(Handlers)
  BY <1>1, EmptySeq DEF FxTypes, Handlers
<1>3. QED
  BY <1>2, PopFacts

LEMMA Places ==
    /\ InLoop \in FxPlaces /\ InBody \in FxPlaces /\ Finishing \in FxPlaces
    /\ InLoop.pc = "loop" /\ InLoop.cont = "none" /\ InLoop.why = "none"
    /\ InBody.pc = "body" /\ InBody.cont = "none" /\ InBody.why = "none"
    /\ Finishing.pc = "finish" /\ Finishing.cont = "none" /\ Finishing.why = "none"
BY DEF InLoop, InBody, Finishing, At, FxPlaces

(* The way back keeps the stack in order. *)
LEMMA ResumeKeeps ==
    ASSUME FxTypes, StackInv, fx.pc \notin NoHandler, NEW c, Resume(c), nested' = nested
    PROVE  /\ fx' \in FxPlaces /\ fx' \in {InLoop, InBody}
           /\ handlers' \in Seq(Deferred \cup {Event, Startup})
           /\ StackInv'
<1>1. handlers # << >>
  BY HandlerRuns
<1>2. CASE c = "body"
  BY <1>2, Places DEF Resume, StackInv, NoHandler, FxTypes
<1>3. CASE c # "body"
  <2>1. fx' = InLoop /\ handlers' = Pop(handlers)
    BY <1>3 DEF Resume
  <2>2. /\ handlers' \in Seq(Deferred \cup {Event, Startup})
        /\ Len(handlers') = Len(handlers) - 1
        /\ Len(handlers) = nested + 1 /\ nested \in Nat
    BY <1>1, <2>1, PopFacts, BoundsAssumption DEF FxTypes, StackInv
  <2>3. QED
    BY <2>1, <2>2, Places DEF StackInv, NoHandler
<1>4. QED
  BY <1>2, <1>3

LEMMA CheckIdleKeeps ==
    ASSUME FlagTypes, FxTypes, StackInv, fx.pc \notin NoHandler, nested' = nested,
           NEW n \in Nat, NEW p \in Int, NEW m, NEW c \in {"body", "pop"},
           c = "pop" => Top(handlers) \in Deferred,
           CheckIdle(n, p, m, c)
    PROVE  /\ firstWindowShown' \in BOOLEAN /\ lastWindowClosed' \in BOOLEAN
           /\ reallyIdle' \in BOOLEAN
           /\ pendingRunnables' \in Int /\ queue' \in Seq(Deferred)
           /\ fx' \in FxPlaces /\ fx'.pc \in {"loop", "body", "notify"}
           /\ handlers' \in Seq(Deferred \cup {Event, Startup})
           /\ StackInv'
<1>1. /\ firstWindowShown' \in BOOLEAN /\ lastWindowClosed' \in BOOLEAN
      /\ reallyIdle' \in BOOLEAN
  BY CheckIdleEffect
<1>2. \/ queue' = queue /\ pendingRunnables' = p
      \/ queue' = Append(queue, Dummy) /\ pendingRunnables' = p + 1
  BY CheckIdleEffect
<1>3. queue' \in Seq(Deferred) /\ pendingRunnables' \in Int
  <2>1. queue \in Seq(Deferred) /\ Append(queue, Dummy) \in Seq(Deferred)
    BY FxPosts DEF FxTypes
  <2>2. p + 1 \in Int
    OBVIOUS
  <2>3. QED
    BY <1>2, <2>1, <2>2
<1>4. CASE Resume(c)
  BY <1>1, <1>3, <1>4, ResumeKeeps, Places
<1>5. CASE fx' = At("notify", c, "idle") /\ handlers' = handlers
  <2>1. fx' \in FxPlaces /\ fx'.pc = "notify" /\ fx'.cont = c
    BY <1>5 DEF At, FxPlaces
  <2>2. StackInv'
    BY <1>5, <2>1 DEF StackInv, NoHandler
  <2>3. QED
    BY <1>1, <1>3, <1>5, <2>1, <2>2 DEF FxTypes
<1>6. Resume(c) \/ (fx' = At("notify", c, "idle") /\ handlers' = handlers)
  BY CheckIdleEffect
<1>7. QED
  BY <1>4, <1>5, <1>6

(* Thread steps other than startup leave the FX thread's stack alone. *)
LEMMA StackFrame == StackInv /\ UNCHANGED <<fx, handlers, nested>> => StackInv'
BY DEF StackInv, NoHandler

(* The calls that handlers make. *)
LEMMA FxCallType ==
    ASSUME TypeInv, StackInv, FxCall
    PROVE  TypeInv' /\ StackInv'
<1> USE DEF FxBegin
<1>1. CASE FxRunLaterCall
  <2>1. UNCHANGED <<fx, handlers, nested>>
    BY <1>1 DEF FxRunLaterCall
  <2>2. queue' \in Seq(Deferred) /\ pendingRunnables' \in Int
    BY <1>1, FxPosts DEF FxRunLaterCall, FxRunLater, FxTypes
  <2>3. FxTypes'
    <3>1. UNCHANGED <<handlers, nested, quit, fx>>
      BY <1>1 DEF FxRunLaterCall
    <3>2. QED
      BY <2>2, <3>1 DEF FxTypes
  <2>4. FlagTypes' /\ ThreadTypes'
    BY <1>1, TypeFrame DEF FxRunLaterCall
  <2>5. QED
    BY <2>1, <2>2, <2>3, <2>4, StackFrame
<1>2. CASE FxExitCall
  <2>1. /\ fx = InBody /\ fx' = At("notify", "body", "call")
        /\ UNCHANGED <<queue, handlers, nested, quit>>
    BY <1>2 DEF FxExitCall
  <2>2. FxTypes'
    BY <2>1 DEF FxTypes, At, FxPlaces
  <2>3. StackInv'
    BY <2>1, Places DEF StackInv, NoHandler, At
  <2>4. FlagTypes'
    BY <1>2 DEF FxExitCall, FlagTypes
  <2>5. ThreadTypes' /\ pendingRunnables' \in Int
    BY <1>2, TypeFrame DEF FxExitCall
  <2>6. QED
    BY <2>2, <2>3, <2>4, <2>5
<1>3. CASE FxSetImplicitExitCall
  <2>1. fx.pc \notin NoHandler /\ nested' = nested /\ quit' = quit
    BY <1>3, Places DEF FxSetImplicitExitCall, NoHandler
  <2>2. numWindows \in Nat /\ CheckIdle(numWindows, pendingRunnables, nested, "body")
    BY <1>3, BoundsAssumption DEF FxSetImplicitExitCall, FlagTypes
  <2>3. /\ firstWindowShown' \in BOOLEAN /\ lastWindowClosed' \in BOOLEAN
        /\ reallyIdle' \in BOOLEAN
        /\ pendingRunnables' \in Int /\ queue' \in Seq(Deferred)
        /\ fx' \in FxPlaces /\ handlers' \in Seq(Deferred \cup {Event, Startup})
        /\ StackInv'
    BY <2>1, <2>2, CheckIdleKeeps
  <2>4. FxTypes'
    BY <2>1, <2>3 DEF FxTypes
  <2>5. FlagTypes'
    BY <1>3, <2>3 DEF FxSetImplicitExitCall, FlagTypes
  <2>6. ThreadTypes'
    BY <1>3, TypeFrame DEF FxSetImplicitExitCall
  <2>7. QED
    BY <2>3, <2>4, <2>5, <2>6
<1>4. CASE EnterNestedEventLoop
  <2>1. /\ fx = InBody /\ fx' = InLoop /\ nested' = nested + 1 /\ nested < MaxNested
        /\ UNCHANGED <<queue, handlers, quit>>
    BY <1>4 DEF EnterNestedEventLoop
  <2>2. FxTypes'
    BY <2>1, Places, BoundsAssumption DEF FxTypes
  <2>3. StackInv'
    BY <2>1, Places, BoundsAssumption DEF StackInv, NoHandler, FxTypes
  <2>4. FlagTypes' /\ ThreadTypes' /\ pendingRunnables' \in Int
    BY <1>4, TypeFrame DEF EnterNestedEventLoop
  <2>5. QED
    BY <2>2, <2>3, <2>4
<1>5. CASE ExitNestedEventLoop
  <2>1. quit' = quit \cup {nested} /\ UNCHANGED <<fx, queue, handlers, nested>>
    BY <1>5 DEF ExitNestedEventLoop
  <2>2. FxTypes'
    BY <2>1, BoundsAssumption DEF FxTypes
  <2>3. FlagTypes' /\ ThreadTypes' /\ pendingRunnables' \in Int
    BY <1>5, TypeFrame DEF ExitNestedEventLoop
  <2>4. QED
    BY <2>1, <2>2, <2>3, StackFrame
<1>6. ASSUME NEW n \in 0 .. MaxWindows, ChangedTopLevelWindows(n)
      PROVE  TypeInv' /\ StackInv'
  <2>1. fx.pc \notin NoHandler /\ nested' = nested /\ quit' = quit
    BY <1>6, Places DEF ChangedTopLevelWindows, NoHandler
  <2>2. n \in Nat /\ numWindows' = n /\ CheckIdle(n, pendingRunnables, nested, "body")
    BY <1>6, BoundsAssumption DEF ChangedTopLevelWindows
  <2>3. /\ firstWindowShown' \in BOOLEAN /\ lastWindowClosed' \in BOOLEAN
        /\ reallyIdle' \in BOOLEAN
        /\ pendingRunnables' \in Int /\ queue' \in Seq(Deferred)
        /\ fx' \in FxPlaces /\ handlers' \in Seq(Deferred \cup {Event, Startup})
        /\ StackInv'
    BY <2>1, <2>2, CheckIdleKeeps
  <2>4. FxTypes'
    BY <2>1, <2>3 DEF FxTypes
  <2>5. FlagTypes'
    BY <1>6, <2>2, <2>3 DEF ChangedTopLevelWindows, FlagTypes
  <2>6. ThreadTypes'
    BY <1>6, TypeFrame DEF ChangedTopLevelWindows
  <2>7. QED
    BY <2>3, <2>4, <2>5, <2>6
<1>7. QED
  BY <1>1, <1>2, <1>3, <1>4, <1>5, <1>6 DEF FxCall

(* The event loops: handlers come and go. *)
LEMMA FxLoopType ==
    ASSUME TypeInv, StackInv, RunDeferred \/ NativeEvent \/ LoopReturns
    PROVE  TypeInv' /\ StackInv'
<1>1. CASE RunDeferred
  <2>1. /\ fx = InLoop /\ queue # << >> /\ handlers' = Append(handlers, Head(queue))
        /\ queue' = Tail(queue) /\ UNCHANGED <<nested, quit>>
        /\ fx' \in {Finishing, InBody} \/ (fx' = At("exit", "finish", "call")
                                             /\ Head(queue).kind = "exit")
    BY <1>1 DEF RunDeferred
  <2>2. Head(queue) \in Deferred /\ queue' \in Seq(Deferred)
    BY <2>1, HeadTailProperties DEF FxTypes
  <2>3. /\ handlers' \in Seq(Deferred \cup {Event, Startup})
        /\ Top(handlers') = Head(queue) /\ Len(handlers') = Len(handlers) + 1
    BY <2>1, <2>2, TopOfAppend DEF FxTypes
  <2>4. fx' \in FxPlaces
    BY <2>1, Places DEF At, FxPlaces
  <2>5. FxTypes'
    BY <2>1, <2>2, <2>3, <2>4 DEF FxTypes
  <2>6. Len(handlers') = nested' + 1
    BY <2>1, <2>3, Places DEF StackInv, NoHandler, FxTypes
  <2>7. StackInv'
    <3>1. CASE fx' \in {Finishing, InBody}
      BY <2>6, <3>1, Places DEF StackInv, NoHandler
    <3>2. CASE fx' = At("exit", "finish", "call") /\ Head(queue).kind = "exit"
      BY <2>2, <2>3, <2>6, <3>2 DEF StackInv, NoHandler, At
    <3>3. QED
      BY <2>1, <3>1, <3>2
  <2>8. FlagTypes' /\ ThreadTypes' /\ pendingRunnables' \in Int
    BY <1>1, TypeFrame DEF RunDeferred
  <2>9. QED
    BY <2>5, <2>7, <2>8
<1>2. CASE NativeEvent
  <2>1. /\ fx = InLoop /\ fx' = InBody /\ handlers' = Append(handlers, Event)
        /\ UNCHANGED <<queue, nested, quit>>
    BY <1>2 DEF NativeEvent
  <2>2. /\ handlers' \in Seq(Deferred \cup {Event, Startup})
        /\ Len(handlers') = Len(handlers) + 1
    BY <2>1, TopOfAppend DEF FxTypes
  <2>3. FxTypes'
    BY <2>1, <2>2, Places DEF FxTypes
  <2>4. StackInv'
    BY <2>1, <2>2, Places DEF StackInv, NoHandler, FxTypes
  <2>5. FlagTypes' /\ ThreadTypes' /\ pendingRunnables' \in Int
    BY <1>2, TypeFrame DEF NativeEvent
  <2>6. QED
    BY <2>3, <2>4, <2>5
<1>3. CASE LoopReturns
  <2>1. fx = InLoop /\ nested \in Nat /\ Len(handlers) = nested /\ numWindows \in Nat
    BY <1>3, Places, BoundsAssumption
       DEF LoopReturns, StackInv, NoHandler, FxTypes, FlagTypes
  <2>2. ThreadTypes'
    <3>1. CASE UNCHANGED latch
      BY <1>3, <3>1, TypeFrame DEF LoopReturns, threadState
    <3>2. CASE nested # 0 /\ CountDown
      <4>1. handlers # << >> /\ handlers \in Seq(Handlers)
        BY <2>1, <3>2 DEF FxTypes, Handlers
      <4>2. Top(handlers) \in Handlers
        BY <4>1, PopFacts
      <4>3. latch' \subseteq Threads
        BY <3>2, <4>2, RunnableFacts DEF CountDown, ThreadTypes
      <4>4. QED
        BY <1>3, <4>3 DEF LoopReturns, threadState, threadVars, ThreadTypes
    <3>3. QED
      BY <1>3, <3>1, <3>2 DEF LoopReturns
  <2>3. CASE nested = 0
    <3>1. fx' = At("ended", "none", "none") /\ UNCHANGED <<queue, handlers, nested, quit>>
      BY <1>3, <2>3 DEF LoopReturns
    <3>2. FxTypes'
      BY <3>1 DEF FxTypes, At, FxPlaces
    <3>3. StackInv'
      BY <2>1, <2>3, <3>1 DEF StackInv, NoHandler, At
    <3>4. FlagTypes' /\ pendingRunnables' \in Int
      BY <1>3, <2>3, TypeFrame DEF LoopReturns
    <3>5. QED
      BY <2>2, <3>2, <3>3, <3>4
  <2>4. CASE nested # 0
    <3>1. nested' = nested - 1 /\ quit' = quit \ {nested}
      BY <1>3, <2>4 DEF LoopReturns
    <3>2. /\ fx' \in FxPlaces /\ handlers' = handlers
          /\ fx' \in {InBody, Finishing, At("notify", "body", "idle")}
          /\ queue' \in Seq(Deferred) /\ pendingRunnables' \in Int
          /\ firstWindowShown' \in BOOLEAN /\ lastWindowClosed' \in BOOLEAN
          /\ reallyIdle' \in BOOLEAN
      <4>1. CASE application /\ nested = 1
        <5>1. CheckIdle(numWindows, pendingRunnables, 0, "body")
          BY <1>3, <2>4, <4>1 DEF LoopReturns
        <5>2. /\ firstWindowShown' \in BOOLEAN /\ lastWindowClosed' \in BOOLEAN
              /\ reallyIdle' \in BOOLEAN
              /\ \/ queue' = queue /\ pendingRunnables' = pendingRunnables
                 \/ queue' = Append(queue, Dummy) /\ pendingRunnables' = pendingRunnables + 1
              /\ \/ Resume("body")
                 \/ fx' = At("notify", "body", "idle") /\ handlers' = handlers
          BY <2>1, <5>1, CheckIdleEffect
        <5>3. queue' \in Seq(Deferred) /\ pendingRunnables' \in Int
          <6>1. queue \in Seq(Deferred) /\ Append(queue, Dummy) \in Seq(Deferred)
            BY FxPosts DEF FxTypes
          <6>2. pendingRunnables + 1 \in Int
            OBVIOUS
          <6>3. QED
            BY <5>2, <6>1, <6>2
        <5>4. handlers' = handlers /\ fx' \in {InBody, At("notify", "body", "idle")}
          BY <5>2 DEF Resume
        <5>5. At("notify", "body", "idle") \in FxPlaces
          BY DEF At, FxPlaces
        <5>6. QED
          BY <5>2, <5>3, <5>4, <5>5, Places
      <4>2. CASE ~(application /\ nested = 1)
        BY <1>3, <2>4, <4>2, Places DEF LoopReturns, FlagTypes, FxTypes
      <4>3. QED
        BY <4>1, <4>2
    <3>3. FxTypes'
      <4>1. nested' \in 0 .. MaxNested /\ quit' \subseteq 0 .. nested'
        BY <2>1, <2>4, <3>1, BoundsAssumption DEF FxTypes
      <4>2. QED
        BY <3>2, <4>1 DEF FxTypes
    <3>4. StackInv'
      BY <2>1, <2>4, <3>1, <3>2, Places DEF StackInv, NoHandler, At
    <3>5. FlagTypes'
      BY <1>3, <3>2 DEF LoopReturns, FlagTypes
    <3>6. QED
      BY <2>2, <3>2, <3>3, <3>4, <3>5
  <2>5. QED
    BY <2>3, <2>4
<1>4. QED
  BY <1>1, <1>2, <1>3

(* The end of a handler and what follows it. *)
LEMMA FxEndType ==
    ASSUME TypeInv, StackInv, BodyReturns \/ Finish \/ FxNotify
    PROVE  TypeInv' /\ StackInv'
<1>1. CASE BodyReturns
  <2>1. fx = InBody /\ fx' = Finishing /\ UNCHANGED <<handlers, nested, queue, quit>>
    BY <1>1 DEF BodyReturns
  <2>2. StackInv'
    BY <2>1, Places DEF StackInv, NoHandler
  <2>3. FxTypes'
    BY <2>1, Places DEF FxTypes
  <2>4. latch' \subseteq Threads
    <3>1. Top(handlers) \in Handlers
      BY <2>1, Places, HandlerRuns DEF NoHandler
    <3>2. Top(handlers).kind = "wait" => Top(handlers).by \in Threads
      BY <3>1, RunnableFacts
    <3>3. QED
      BY <1>1, <3>2 DEF BodyReturns, CountDown, ThreadTypes
  <2>5. ThreadTypes'
    BY <1>1, <2>4 DEF BodyReturns, ThreadTypes
  <2>6. FlagTypes' /\ pendingRunnables' \in Int
    BY <1>1, TypeFrame DEF BodyReturns
  <2>7. QED
    BY <2>2, <2>3, <2>5, <2>6
<1>2. CASE Finish
  <2>1. fx = Finishing /\ fx.pc \notin NoHandler /\ UNCHANGED <<nested, quit>>
    BY <1>2, Places DEF Finish, NoHandler
  <2>2. ThreadTypes'
    BY <1>2, TypeFrame DEF Finish
  <2>3. CASE Top(handlers) \in Deferred
    <3>1. /\ numWindows \in Nat /\ pendingRunnables - 1 \in Int
          /\ CheckIdle(numWindows, pendingRunnables - 1, nested, "pop")
      BY <1>2, <2>3, BoundsAssumption DEF Finish, FlagTypes
    <3>2. /\ firstWindowShown' \in BOOLEAN /\ lastWindowClosed' \in BOOLEAN
          /\ reallyIdle' \in BOOLEAN
          /\ pendingRunnables' \in Int /\ queue' \in Seq(Deferred)
          /\ fx' \in FxPlaces /\ handlers' \in Seq(Deferred \cup {Event, Startup})
          /\ StackInv'
      BY <2>1, <2>3, <3>1, CheckIdleKeeps
    <3>3. FxTypes'
      BY <2>1, <3>2 DEF FxTypes
    <3>4. FlagTypes'
      BY <1>2, <3>2 DEF Finish, FlagTypes
    <3>5. QED
      BY <2>2, <3>2, <3>3, <3>4
  <2>4. CASE Top(handlers) \notin Deferred
    <3>1. Resume("pop") /\ UNCHANGED <<pendingRunnables, idleFlags, queue>>
      BY <1>2, <2>4 DEF Finish
    <3>2. /\ fx' \in FxPlaces /\ handlers' \in Seq(Deferred \cup {Event, Startup})
          /\ StackInv'
      BY <2>1, <3>1, ResumeKeeps
    <3>3. FxTypes'
      BY <2>1, <3>1, <3>2 DEF FxTypes
    <3>4. FlagTypes' /\ pendingRunnables' \in Int
      BY <1>2, <3>1, TypeFrame DEF Finish
    <3>5. QED
      BY <2>2, <3>2, <3>3, <3>4
  <2>5. QED
    BY <2>3, <2>4
<1>3. CASE FxNotify
  <2>1. fx.pc = "notify" /\ fx.pc \notin NoHandler /\ UNCHANGED <<nested, quit, queue>>
    BY <1>3 DEF FxNotify, NoHandler
  <2>2. FlagTypes' /\ ThreadTypes' /\ pendingRunnables' \in Int
    BY <1>3, TypeFrame DEF FxNotify
  <2>3. CASE fx' = [fx EXCEPT !.pc = "tkExit"] /\ UNCHANGED handlers
    <3>1. fx' \in FxPlaces /\ fx'.pc = "tkExit" /\ fx'.cont = fx.cont
      BY <2>3 DEF FxTypes, FxPlaces
    <3>2. StackInv'
      BY <2>1, <2>3, <3>1 DEF StackInv, NoHandler
    <3>3. FxTypes'
      BY <2>1, <2>3, <3>1 DEF FxTypes
    <3>4. QED
      BY <2>2, <3>2, <3>3
  <2>4. CASE Resume(fx.cont)
    <3>1. /\ fx' \in FxPlaces /\ handlers' \in Seq(Deferred \cup {Event, Startup})
          /\ StackInv'
      BY <2>1, <2>4, ResumeKeeps
    <3>2. QED
      BY <2>1, <2>2, <3>1 DEF FxTypes
  <2>5. QED
    BY <1>3, <2>3, <2>4 DEF FxNotify
<1>4. QED
  BY <1>1, <1>2, <1>3

(* The start and the exit of the toolkit. *)
LEMMA FxExitType ==
    ASSUME TypeInv, StackInv,
           RunToolkit \/ FxTkExit \/ CloseWindows \/ FinishTerminating \/ Dispose \/ Exited
    PROVE  TypeInv' /\ StackInv'
<1>1. CASE RunToolkit
  <2>1. /\ fx.pc = "runToolkit" /\ fx' = InBody /\ handlers' = <<Startup>>
        /\ UNCHANGED <<nested, quit, queue>>
    BY <1>1 DEF RunToolkit
  <2>2. handlers' \in Seq(Deferred \cup {Event, Startup}) /\ Len(handlers') = 1
    BY <2>1
  <2>3. FxTypes'
    BY <2>1, <2>2, Places DEF FxTypes
  <2>4. StackInv'
    BY <2>1, <2>2, Places DEF StackInv, NoHandler
  <2>5. FlagTypes'
    BY <1>1 DEF RunToolkit, FlagTypes
  <2>6. ThreadTypes' /\ pendingRunnables' \in Int
    BY <1>1, TypeFrame DEF RunToolkit
  <2>7. QED
    BY <2>3, <2>4, <2>5, <2>6
<1>2. CASE FxTkExit
  <2>1. fx.pc = "tkExit" /\ fx.pc \notin NoHandler /\ UNCHANGED <<nested, quit, queue>>
    BY <1>2 DEF FxTkExit, NoHandler
  <2>2. FlagTypes'
    BY <1>2 DEF FxTkExit, FlagTypes
  <2>3. ThreadTypes' /\ pendingRunnables' \in Int
    BY <1>2, TypeFrame DEF FxTkExit
  <2>4. CASE fx' = [fx EXCEPT !.pc = "exit"] /\ UNCHANGED handlers
    <3>1. fx' \in FxPlaces /\ fx'.pc = "exit" /\ fx'.cont = fx.cont
      BY <2>4 DEF FxTypes, FxPlaces
    <3>2. StackInv'
      BY <2>1, <2>4, <3>1 DEF StackInv, NoHandler
    <3>3. FxTypes'
      BY <2>1, <2>4, <3>1 DEF FxTypes
    <3>4. QED
      BY <2>2, <2>3, <3>2, <3>3
  <2>5. CASE Resume(fx.cont)
    <3>1. /\ fx' \in FxPlaces /\ handlers' \in Seq(Deferred \cup {Event, Startup})
          /\ StackInv'
      BY <2>1, <2>5, ResumeKeeps
    <3>2. QED
      BY <2>1, <2>2, <2>3, <3>1 DEF FxTypes
  <2>6. QED
    BY <1>2, <2>4, <2>5 DEF FxTkExit
<1>3. CASE CloseWindows
  <2>1. fx' = [fx EXCEPT !.pc = "finishTerminating"] /\ fx.pc = "exit" /\ UNCHANGED <<handlers, nested, queue>>
    BY <1>3 DEF CloseWindows
  <2>2. fx' \in FxPlaces /\ fx'.pc = "finishTerminating" /\ fx'.cont = fx.cont /\ fx'.why = fx.why
    BY <2>1 DEF FxTypes, FxPlaces
  <2>3. StackInv'
    BY <2>1, <2>2 DEF StackInv, NoHandler
  <2>4. FxTypes'
    BY <1>3, <2>1, <2>2, BoundsAssumption DEF CloseWindows, FxTypes
  <2>5. FlagTypes'
    <3>1. /\ firstWindowShown' \in BOOLEAN /\ lastWindowClosed' \in BOOLEAN
          /\ reallyIdle' \in BOOLEAN
      BY <1>3 DEF CloseWindows, FlagTypes, IdleFlags, IdleNow
    <3>2. numWindows' \in 0 .. MaxWindows
      BY <1>3, BoundsAssumption DEF CloseWindows
    <3>3. QED
      BY <1>3, <3>1, <3>2 DEF CloseWindows, FlagTypes
  <2>6. ThreadTypes' /\ pendingRunnables' \in Int
    BY <1>3, TypeFrame DEF CloseWindows
  <2>7. QED
    BY <2>3, <2>4, <2>5, <2>6
<1>4. CASE FinishTerminating
  <2>1. fx' = [fx EXCEPT !.pc = "dispose"] /\ fx.pc = "finishTerminating" /\ UNCHANGED <<handlers, nested, queue>>
    BY <1>4 DEF FinishTerminating
  <2>2. fx' \in FxPlaces /\ fx'.pc = "dispose" /\ fx'.cont = fx.cont /\ fx'.why = fx.why
    BY <2>1 DEF FxTypes, FxPlaces
  <2>3. StackInv'
    BY <2>1, <2>2 DEF StackInv, NoHandler
  <2>4. FxTypes'
    BY <1>4, <2>1, <2>2, BoundsAssumption DEF FinishTerminating, FxTypes
  <2>5. FlagTypes'
    <3>1. application' \in BOOLEAN
      BY <1>4 DEF FinishTerminating
    <3>2. QED
      BY <1>4, <3>1 DEF FinishTerminating, FlagTypes
  <2>6. ThreadTypes' /\ pendingRunnables' \in Int
    BY <1>4, TypeFrame DEF FinishTerminating
  <2>7. QED
    BY <2>3, <2>4, <2>5, <2>6
<1>5. CASE Dispose
  <2>1. fx' = [fx EXCEPT !.pc = "exited"] /\ fx.pc = "dispose" /\ UNCHANGED <<handlers, nested, queue>>
    BY <1>5 DEF Dispose
  <2>2. fx' \in FxPlaces /\ fx'.pc = "exited" /\ fx'.cont = fx.cont /\ fx'.why = fx.why
    BY <2>1 DEF FxTypes, FxPlaces
  <2>3. StackInv'
    BY <2>1, <2>2 DEF StackInv, NoHandler
  <2>4. FxTypes'
    BY <1>5, <2>1, <2>2, BoundsAssumption DEF Dispose, FxTypes
  <2>5. FlagTypes'
    <3>1. toolkitRunning' \in BOOLEAN
      BY <1>5 DEF Dispose
    <3>2. QED
      BY <1>5, <3>1 DEF Dispose, FlagTypes
  <2>6. ThreadTypes' /\ pendingRunnables' \in Int
    BY <1>5, TypeFrame DEF Dispose
  <2>7. QED
    BY <2>3, <2>4, <2>5, <2>6
<1>6. CASE Exited
  <2>1. fx.pc = "exited" /\ fx.pc \notin NoHandler /\ UNCHANGED <<nested, quit, queue>>
    BY <1>6 DEF Exited, NoHandler
  <2>2. FlagTypes'
    <3>1. platformExitLatch' \in BOOLEAN /\ fxUserThread' \in BOOLEAN
      BY <1>6 DEF Exited, FlagTypes
    <3>2. QED
      BY <1>6, <3>1 DEF Exited, FlagTypes
  <2>3. pendingRunnables' \in Int
    BY <1>6 DEF Exited
  <2>4. CASE fx.cont = "finish"
    <3>1. fx' = Finishing /\ UNCHANGED handlers /\ latch' = latch \cup {Top(handlers).by}
      BY <1>6, <2>4 DEF Exited
    <3>2. Top(handlers).by \in Threads
      <4>1. Top(handlers) \in Handlers /\ Top(handlers).kind = "exit"
        BY <2>1, <2>4, HandlerRuns DEF StackInv
      <4>2. QED
        BY <4>1, RunnableFacts
    <3>3. ThreadTypes'
      BY <1>6, <3>1, <3>2 DEF Exited, ThreadTypes
    <3>4. StackInv'
      BY <2>1, <3>1, Places DEF StackInv, NoHandler
    <3>5. FxTypes'
      BY <2>1, <3>1, Places DEF FxTypes
    <3>6. QED
      BY <2>2, <2>3, <3>3, <3>4, <3>5
  <2>5. CASE fx.cont # "finish"
    <3>1. Resume(fx.cont) /\ UNCHANGED latch
      BY <1>6, <2>5 DEF Exited
    <3>2. /\ fx' \in FxPlaces /\ handlers' \in Seq(Deferred \cup {Event, Startup})
          /\ StackInv'
      BY <2>1, <3>1, ResumeKeeps
    <3>3. FxTypes'
      BY <2>1, <3>2 DEF FxTypes
    <3>4. ThreadTypes'
      BY <1>6, <3>1, TypeFrame DEF Exited
    <3>5. QED
      BY <2>2, <2>3, <3>2, <3>3, <3>4
  <2>6. QED
    BY <2>4, <2>5
<1>7. QED
  BY <1>1, <1>2, <1>3, <1>4, <1>5, <1>6

-----------------------------------------------------------------------------
(* What a step of another thread is to the rest of the system.  It stays     *)
(* outside runLater, takes toolkitExit, enters runLater, goes on in it,      *)
(* leaves it with or without having posted, or starts the toolkit.           *)

Transit == {"waitForStart", "checkExit", "defer", "invokeLater"}

FxAlone == UNCHANGED <<initialized, startupLatch, toolkitVars, fx, handlers, nested, numWindows>>

Elsewhere(t) ==
    /\ pc[t] \notin Transit /\ pc'[t] \notin Transit \cup {"scheduleExit"}
    /\ UNCHANGED <<toolkitExit, queue, pendingRunnables, item>> /\ FxAlone

Asks(t) ==
    /\ pc[t] = "tkExit" /\ pc'[t] = IF toolkitExit THEN "ready" ELSE "scheduleExit"
    /\ toolkitExit' = TRUE
    /\ UNCHANGED <<queue, pendingRunnables, item>> /\ FxAlone

Enters(t) ==
    /\ pc[t] \notin Transit /\ pc'[t] = "waitForStart" /\ initialized
    /\ pendingRunnables' = pendingRunnables + 1
    /\ item'[t].kind = "exit" => pc[t] = "scheduleExit"
    /\ UNCHANGED <<toolkitExit, queue>> /\ FxAlone

Advances(t) ==
    /\ pc[t] \in Transit /\ pc'[t] \in Transit \ {"waitForStart"} /\ startupLatch
    /\ UNCHANGED <<toolkitExit, queue, pendingRunnables, item>> /\ FxAlone

Drops(t) ==
    /\ pc[t] \in Transit /\ pc'[t] \notin Transit \cup {"scheduleExit"} /\ toolkitExit
    /\ pendingRunnables' \in {pendingRunnables, pendingRunnables - 1}
    /\ UNCHANGED <<toolkitExit, queue, item>> /\ FxAlone

Posts(t) ==
    /\ pc[t] \in Transit /\ pc'[t] \notin Transit \cup {"scheduleExit"}
    /\ queue' = Append(queue, item[t])
    /\ UNCHANGED <<toolkitExit, pendingRunnables, item>> /\ FxAlone

Starts(t) ==
    /\ pc[t] \notin Transit /\ pc'[t] \notin Transit \cup {"scheduleExit"}
    /\ ~initialized /\ initialized' /\ application'
    /\ fx' = At("runToolkit", "none", "none")
    /\ UNCHANGED <<toolkitExit, queue, pendingRunnables, item, startupLatch, toolkitRunning,
                   handlers, nested, numWindows>>

(* The first steps of the calls. *)
LEMMA BeginCallStep ==
    ASSUME TypeInv, NEW t \in Threads, BeginCall(t)
    PROVE  /\ \A u \in Threads \ {t} : pc'[u] = pc[u] /\ item'[u] = item[u]
           /\ Elsewhere(t) \/ Enters(t)
<1> USE DEF Transit, FxAlone, Begin, Goto, ThreadTypes
<1>1. CASE StartupCall(t)
  BY <1>1 DEF StartupCall, Elsewhere
<1>2. CASE ExitCall(t)
  BY <1>2 DEF ExitCall, Elsewhere
<1>3. CASE TkExitCall(t)
  BY <1>3 DEF TkExitCall, Elsewhere
<1>4. CASE SetImplicitExitCall(t)
  BY <1>4 DEF SetImplicitExitCall, Elsewhere
<1>5. CASE AddListenerCall(t)
  BY <1>5 DEF AddListenerCall, Elsewhere
<1>6. CASE RemoveListenerCall(t)
  BY <1>6 DEF RemoveListenerCall, Elsewhere
<1>7. CASE RunLaterCall(t)
  <2>1. App.kind # "exit"
    BY RunnableFacts
  <2>2. QED
    BY <1>7, <2>1 DEF RunLaterCall, BeginRunLater, Enters
<1>8. CASE RunAndWaitCall(t)
  <2>1. Runnable("wait", t).kind # "exit"
    BY RunnableFacts
  <2>2. QED
    BY <1>8, <2>1 DEF RunAndWaitCall, BeginRunLater, Enters
<1>9. QED
  BY <1>1, <1>2, <1>3, <1>4, <1>5, <1>6, <1>7, <1>8 DEF BeginCall

(* Their later steps.  What is dropped is dropped because the toolkit exits. *)
LEMMA ContinueCallStep ==
    ASSUME TypeInv, StartInv, NEW t \in Threads, ContinueCall(t)
    PROVE  /\ \A u \in Threads \ {t} : pc'[u] = pc[u] /\ item'[u] = item[u]
           /\ \/ Elsewhere(t) \/ Asks(t) \/ Enters(t) \/ Advances(t) \/ Drops(t)
              \/ Posts(t) \/ Starts(t)
<1> USE DEF Transit, FxAlone, Goto, ThreadTypes
<1>1. CASE Launched(t)
  BY <1>1 DEF Launched, Elsewhere
<1>2. CASE WaitCheck(t)
  BY <1>2 DEF WaitCheck, Elsewhere
<1>3. CASE Awaited(t)
  BY <1>3 DEF Awaited, Elsewhere
<1>4. CASE Notify(t)
  BY <1>4 DEF Notify, Elsewhere
<1>5. CASE Add(t)
  BY <1>5 DEF Add, Elsewhere
<1>6. CASE ReadIsEmpty(t)
  BY <1>6 DEF ReadIsEmpty, Elsewhere
<1>7. CASE SetRegistered(t)
  BY <1>7 DEF SetRegistered, Elsewhere
<1>8. CASE Removed(t)
  BY <1>8 DEF Removed, Elsewhere
<1>9. CASE TkExit(t)
  BY <1>9 DEF TkExit, AfterGetAndSet, Asks
<1>10. CASE StartupToolkit(t)
  <2>1. CASE initialized
    <3>1. App.kind # "exit"
      BY RunnableFacts
    <3>2. QED
      BY <1>10, <2>1, <3>1 DEF StartupToolkit, BeginRunLater, Enters
  <2>2. CASE ~initialized
    BY <1>10, <2>2 DEF StartupToolkit, Starts
  <2>3. QED
    BY <2>1, <2>2
<1>11. CASE ScheduleExit(t)
  BY <1>11 DEF ScheduleExit, BeginRunLater, Elsewhere, Enters
<1>12. CASE CheckIdleElsewhere(t)
  <2>1. Dummy.kind # "exit"
    BY RunnableFacts
  <2>2. QED
    BY <1>12, <2>1 DEF CheckIdleElsewhere, BeginRunLater, Elsewhere, Enters
<1>13. CASE WaitForStart(t)
  BY <1>13 DEF WaitForStart, Advances
<1>14. CASE CheckExit(t)
  <2>1. startupLatch /\ (toolkitRunning \/ toolkitExit)
    BY <1>14 DEF CheckExit, StartInv
  <2>2. QED
    BY <1>14, <2>1 DEF CheckExit, AfterRunLater, Advances, Drops, IsDropped
<1>15. CASE Defer(t)
  <2>1. startupLatch /\ (toolkitRunning \/ toolkitExit)
    BY <1>15 DEF Defer, StartInv
  <2>2. QED
    BY <1>15, <2>1 DEF Defer, AfterRunLater, Advances, Drops
<1>16. CASE InvokeLater(t)
  <2>1. application \/ toolkitExit
    BY <1>16 DEF InvokeLater, StartInv, InTransit
  <2>2. QED
    BY <1>16, <2>1 DEF InvokeLater, AfterRunLater, Drops, Posts
<1>17. QED
  BY <1>1, <1>2, <1>3, <1>4, <1>5, <1>6, <1>7, <1>8, <1>9, <1>10, <1>11, <1>12, <1>13, <1>14, <1>15, <1>16 DEF ContinueCall, RunLaterSteps

ThreadStep(t) == Elsewhere(t) \/ Asks(t) \/ Enters(t) \/ Advances(t) \/ Drops(t) \/ Posts(t)
                 \/ Starts(t)
OthersStay(t) == \A u \in Threads \ {t} : pc'[u] = pc[u] /\ item'[u] = item[u]

LEMMA ThreadStack ==
    ASSUME StackInv, StartInv, NEW t \in Threads, ThreadStep(t)
    PROVE  StackInv'
<1>1. CASE FxAlone
  BY <1>1, StackFrame DEF FxAlone
<1>2. CASE Starts(t)
  <2>1. fx.pc = "notStarted" /\ nested = 0 /\ Len(handlers) = 0
    BY <1>2 DEF Starts, StartInv, StackInv, NoHandler
  <2>2. QED
    BY <1>2, <2>1 DEF Starts, StackInv, NoHandler, At
<1>3. QED
  BY <1>1, <1>2 DEF ThreadStep, Elsewhere, Asks, Enters, Advances, Drops, Posts

(* Threads find the toolkit started before they post to it. *)
LEMMA ThreadStart ==
    ASSUME TypeInv, TypeInv', StartInv, NEW t \in Threads, ThreadStep(t), OthersStay(t)
    PROVE  StartInv'
<1>1. InTransit = {u \in Threads : pc[u] \in Transit}
      /\ InTransit' = {u \in Threads : pc'[u] \in Transit}
  BY DEF InTransit, Transit
<1>2. /\ toolkitExit => toolkitExit'
      /\ initialized => initialized'
      /\ startupLatch' = startupLatch
  BY DEF ThreadStep, FxAlone, Elsewhere, Asks, Enters, Advances, Drops, Posts, Starts
<1>3. \A u \in InTransit' : initialized'
  BY <1>1, <1>2 DEF StartInv, OthersStay, ThreadStep, Elsewhere, Asks, Enters, Advances, Drops, Posts, Starts,
                    Transit
<1>4. \A u \in Threads : pc'[u] \in {"checkExit", "defer", "invokeLater"} => startupLatch'
  BY <1>1, <1>2 DEF StartInv, OthersStay, ThreadStep, Elsewhere, Asks, Enters, Advances, Drops, Posts, Starts,
                    Transit
<1>5. CASE FxAlone
  BY <1>2, <1>3, <1>4, <1>5 DEF StartInv, FxAlone
<1>6. CASE Starts(t)
  BY <1>2, <1>3, <1>4, <1>6 DEF StartInv, Starts, At
<1>7. QED
  BY <1>5, <1>6 DEF ThreadStep, Elsewhere, Asks, Enters, Advances, Drops, Posts

-----------------------------------------------------------------------------
(* What a step of the FX thread is to the others.  Most post an ordinary     *)
(* runnable at most and neither start nor begin to exit the toolkit.         *)

ExitPlaces == {"exit", "finishTerminating", "dispose", "exited"}

FxOrdinary ==
    /\ fx.pc \notin {"notStarted", "runToolkit"} /\ fx'.pc \notin {"notStarted", "runToolkit"}
    /\ fx'.pc \in ExitPlaces => fx.pc \in ExitPlaces
    /\ RunsExit' => RunsExit
    /\ queue' = queue \/ queue' = Append(queue, App) \/ queue' = Append(queue, Dummy)
    /\ UNCHANGED <<initialized, startupLatch, toolkitExit, toolkitRunning, application, pc, item>>

(* Where a step goes that returns, or checks for idleness first. *)
LEMMA ReturnPlaces ==
    /\ \A c : Resume(c) => fx' \in {InLoop, InBody} /\ fx'.pc \in {"loop", "body"}
    /\ \A c : At("notify", c, "idle").pc = "notify" /\ At("notify", c, "idle").why = "idle"
    /\ \A c : At("notify", c, "call").pc = "notify" /\ At("notify", c, "call").why = "call"
BY Places DEF Resume, At

LEMMA CheckIdleOrdinary ==
    ASSUME FlagTypes, NEW n \in Nat, NEW p \in Int, NEW m, NEW c, CheckIdle(n, p, m, c)
    PROVE  /\ fx'.pc \in {"loop", "body", "notify"}
           /\ queue' = queue \/ queue' = Append(queue, Dummy)
<1>1. Resume(c) \/ fx' = At("notify", c, "idle")
  BY CheckIdleEffect
<1>2. queue' = queue \/ queue' = Append(queue, Dummy)
  BY CheckIdleEffect
<1>3. QED
  BY <1>1, <1>2, ReturnPlaces

LEMMA FxCallOrdinary ==
    ASSUME TypeInv, FxCall
    PROVE  FxOrdinary
<1> USE DEF FxBegin, ExitPlaces, RunsExit
<1>0. numWindows \in Nat /\ 0 .. MaxWindows \subseteq Nat
  BY BoundsAssumption DEF FlagTypes
<1>1. CASE FxRunLaterCall
  BY <1>1, Places DEF FxRunLaterCall, FxRunLater, FxOrdinary
<1>2. CASE FxExitCall
  BY <1>2, Places, ReturnPlaces DEF FxExitCall, FxOrdinary
<1>3. CASE FxSetImplicitExitCall
  <2>1. CheckIdle(numWindows, pendingRunnables, nested, "body")
    BY <1>3 DEF FxSetImplicitExitCall
  <2>2. /\ fx'.pc \in {"loop", "body", "notify"}
        /\ queue' = queue \/ queue' = Append(queue, Dummy)
    BY <1>0, <2>1, CheckIdleOrdinary
  <2>3. QED
    BY <1>3, <2>2, Places DEF FxSetImplicitExitCall, FxOrdinary
<1>4. CASE EnterNestedEventLoop
  BY <1>4, Places DEF EnterNestedEventLoop, FxOrdinary
<1>5. CASE ExitNestedEventLoop
  BY <1>5, Places DEF ExitNestedEventLoop, FxOrdinary
<1>6. ASSUME NEW n \in 0 .. MaxWindows, ChangedTopLevelWindows(n)
      PROVE  FxOrdinary
  <2>1. n \in Nat /\ CheckIdle(n, pendingRunnables, nested, "body")
    BY <1>0, <1>6 DEF ChangedTopLevelWindows
  <2>2. /\ fx'.pc \in {"loop", "body", "notify"}
        /\ queue' = queue \/ queue' = Append(queue, Dummy)
    BY <2>1, CheckIdleOrdinary
  <2>3. QED
    BY <1>6, <2>2, Places DEF ChangedTopLevelWindows, FxOrdinary
<1>7. QED
  BY <1>1, <1>2, <1>3, <1>4, <1>5, <1>6 DEF FxCall

LEMMA FxHandlerOrdinary ==
    ASSUME TypeInv, NativeEvent \/ LoopReturns \/ BodyReturns \/ Finish \/ FxNotify
    PROVE  FxOrdinary
<1> USE DEF ExitPlaces, RunsExit
<1>0. numWindows \in Nat /\ pendingRunnables - 1 \in Int
  BY BoundsAssumption DEF FlagTypes
<1>1. CASE NativeEvent
  BY <1>1, Places DEF NativeEvent, FxOrdinary
<1>2. CASE LoopReturns
  <2>1. CASE nested # 0 /\ application /\ nested = 1
    <3>1. CheckIdle(numWindows, pendingRunnables, 0, "body")
      BY <1>2, <2>1 DEF LoopReturns
    <3>2. /\ fx'.pc \in {"loop", "body", "notify"}
          /\ queue' = queue \/ queue' = Append(queue, Dummy)
      BY <1>0, <3>1, CheckIdleOrdinary
    <3>3. QED
      BY <1>2, <3>2, Places DEF LoopReturns, FxOrdinary
  <2>2. CASE ~(nested # 0 /\ application /\ nested = 1)
    <3>1. fx' \in {At("ended", "none", "none"), InBody, Finishing} /\ queue' = queue
      BY <1>2, <2>2 DEF LoopReturns
    <3>2. fx'.pc \in {"ended", "body", "finish"}
      BY <3>1, Places DEF At
    <3>3. QED
      BY <1>2, <3>1, <3>2, Places DEF LoopReturns, FxOrdinary
  <2>3. QED
    BY <2>1, <2>2
<1>3. CASE BodyReturns
  BY <1>3, Places DEF BodyReturns, FxOrdinary
<1>4. CASE Finish
  <2>1. /\ fx'.pc \in {"loop", "body", "notify"}
        /\ queue' = queue \/ queue' = Append(queue, Dummy)
    <3>1. CASE Top(handlers) \in Deferred
      <4>1. CheckIdle(numWindows, pendingRunnables - 1, nested, "pop")
        BY <1>4, <3>1 DEF Finish
      <4>2. QED
        BY <1>0, <4>1, CheckIdleOrdinary
    <3>2. CASE Top(handlers) \notin Deferred
      BY <1>4, <3>2, ReturnPlaces DEF Finish
    <3>3. QED
      BY <3>1, <3>2
  <2>2. QED
    BY <1>4, <2>1, Places DEF Finish, FxOrdinary
<1>5. CASE FxNotify
  <2>1. fx'.pc \in {"tkExit", "loop", "body"}
    BY <1>5, ReturnPlaces DEF FxNotify, FxTypes, FxPlaces
  <2>2. QED
    BY <1>5, <2>1 DEF FxNotify, FxOrdinary
<1>6. QED
  BY <1>1, <1>2, <1>3, <1>4, <1>5

LEMMA FxExitOrdinary ==
    ASSUME TypeInv, CloseWindows \/ Exited \/ (FxTkExit /\ toolkitExit)
    PROVE  FxOrdinary
<1> USE DEF ExitPlaces, RunsExit
<1>1. CASE CloseWindows
  <2>1. fx'.pc = "finishTerminating"
    BY <1>1 DEF CloseWindows, FxTypes, FxPlaces
  <2>2. QED
    BY <1>1, <2>1 DEF CloseWindows, FxOrdinary
<1>2. CASE Exited
  <2>1. fx'.pc \in {"finish", "loop", "body"}
    BY <1>2, Places, ReturnPlaces DEF Exited
  <2>2. QED
    BY <1>2, <2>1 DEF Exited, FxOrdinary
<1>3. CASE FxTkExit /\ toolkitExit
  <2>1. fx'.pc \in {"loop", "body"}
    BY <1>3, ReturnPlaces DEF FxTkExit
  <2>2. QED
    BY <1>3, <2>1 DEF FxTkExit, FxOrdinary
<1>4. QED
  BY <1>1, <1>2, <1>3

(* The toolkit is taken down by Toolkit.exit() alone. *)
LEMMA FxStart ==
    ASSUME TypeInv, TypeInv', StackInv, StartInv, ExitInv, FxCall \/ NativeEvent \/ FxContinue
    PROVE  StartInv'
<1> USE DEF StartInv, InTransit
<1>1. CASE FxOrdinary
  BY <1>1 DEF FxOrdinary, ExitPlaces
<1>2. CASE RunToolkit
  BY <1>2, Places DEF RunToolkit
<1>3. CASE RunDeferred
  <2>1. fx = InLoop /\ fx'.pc \in {"finish", "body", "exit"}
        /\ UNCHANGED <<initialized, startupLatch, toolkitExit, toolkitRunning, application, pc>>
    BY <1>3, Places DEF RunDeferred, At
  <2>2. ASSUME fx'.pc = "exit" PROVE toolkitExit
    <3>1. Head(queue).kind = "exit" /\ queue # << >>
      BY <1>3, <2>2, Places DEF RunDeferred, At
    <3>2. 1 \in 1 .. Len(queue) /\ Head(queue) = queue[1]
      BY <3>1, EmptySeq, LenProperties, HeadTailProperties DEF FxTypes
    <3>3. QED
      BY <3>1, <3>2 DEF ExitInv, QueuedExit
  <2>3. QED
    BY <2>1, <2>2, Places
<1>4. CASE FxTkExit /\ ~toolkitExit
  <2>1. fx.pc = "tkExit" /\ fx'.pc = "exit"
    BY <1>4 DEF FxTkExit, FxTypes, FxPlaces
  <2>2. QED
    BY <1>4, <2>1 DEF FxTkExit
<1>5. CASE FinishTerminating
  <2>1. fx.pc = "finishTerminating" /\ fx'.pc = "dispose"
    BY <1>5 DEF FinishTerminating, FxTypes, FxPlaces
  <2>2. QED
    BY <1>5, <2>1 DEF FinishTerminating
<1>6. CASE Dispose
  <2>1. fx.pc = "dispose" /\ fx'.pc = "exited"
    BY <1>6 DEF Dispose, FxTypes, FxPlaces
  <2>2. QED
    BY <1>6, <2>1 DEF Dispose
<1>7. QED
  BY <1>1, <1>2, <1>3, <1>4, <1>5, <1>6, FxCallOrdinary, FxHandlerOrdinary, FxExitOrdinary
     DEF FxContinue

-----------------------------------------------------------------------------
(* Toolkit.exit() is run once *)

(* What is appended to the queue, and what is taken from it. *)
LEMMA QueuedAfterAppend ==
    ASSUME NEW q \in Seq(Deferred), NEW r \in Deferred
    PROVE  /\ Len(Append(q, r)) = Len(q) + 1 /\ Len(q) \in Nat
           /\ Append(q, r)[Len(q) + 1] = r
           /\ \A i \in 1 .. Len(q) : Append(q, r)[i] = q[i]
BY AppendProperties, LenProperties

LEMMA QueuedAfterTail ==
    ASSUME NEW q \in Seq(Deferred), q # << >>
    PROVE  /\ Len(q) \in Nat \ {0} /\ Len(Tail(q)) = Len(q) - 1
           /\ \A i \in 1 .. Len(q) - 1 : Tail(q)[i] = q[i + 1]
           /\ Head(q) = q[1]
BY EmptySeq, LenProperties, HeadTailProperties

(* A step after which no more exits are on their way than before. *)
LEMMA ExitFrame ==
    ASSUME FxTypes, ExitInv,
           \A t \in Threads : PostsExit(t)' => PostsExit(t),
           RunsExit' => RunsExit,
           toolkitExit => toolkitExit',
           initialized' /\ ~application' => initialized /\ ~application,
           \/ queue' = queue
           \/ queue' = Append(queue, App)
           \/ queue' = Append(queue, Dummy)
           \/ queue # << >> /\ queue' = Tail(queue)
    PROVE  ExitInv'
<1>1. /\ QueuedExit' => QueuedExit
      /\ \A i, j \in 1 .. Len(queue') :
            queue'[i].kind = "exit" /\ queue'[j].kind = "exit" => i = j
  <2>0. queue \in Seq(Deferred)
    BY DEF FxTypes
  <2>1. CASE queue' = queue
    BY <2>1 DEF QueuedExit, ExitInv
  <2>2. ASSUME NEW r \in {App, Dummy}, queue' = Append(queue, r)
        PROVE  /\ QueuedExit' => QueuedExit
               /\ \A i, j \in 1 .. Len(queue') :
                     queue'[i].kind = "exit" /\ queue'[j].kind = "exit" => i = j
    <3>1. r \in Deferred /\ r.kind # "exit"
      BY RunnableFacts
    <3>2. /\ Len(queue') = Len(queue) + 1 /\ Len(queue) \in Nat
          /\ queue'[Len(queue) + 1] = r
          /\ \A i \in 1 .. Len(queue) : queue'[i] = queue[i]
      BY <2>0, <2>2, <3>1, QueuedAfterAppend
    <3>3. \A i \in 1 .. Len(queue') :
             queue'[i].kind = "exit" => i \in 1 .. Len(queue) /\ queue[i].kind = "exit"
      BY <3>1, <3>2
    <3>4. QED
      BY <3>3 DEF QueuedExit, ExitInv
  <2>3. CASE queue # << >> /\ queue' = Tail(queue)
    <3>1. /\ Len(queue) \in Nat \ {0} /\ Len(queue') = Len(queue) - 1
          /\ \A i \in 1 .. Len(queue) - 1 : queue'[i] = queue[i + 1]
      BY <2>0, <2>3, QueuedAfterTail
    <3>2. \A i \in 1 .. Len(queue') :
             queue'[i].kind = "exit" => i + 1 \in 1 .. Len(queue) /\ queue[i + 1].kind = "exit"
      BY <3>1
    <3>3. QED
      BY <3>1, <3>2 DEF QueuedExit, ExitInv
  <2>4. QED
    BY <2>1, <2>2, <2>3
<1>2. QED
  BY <1>1 DEF ExitInv

(* One thread at a time asks for it, posts it and sees it run. *)
LEMMA ThreadExit ==
    ASSUME TypeInv, TypeInv', StartInv, ExitInv, NEW t \in Threads, ThreadStep(t), OthersStay(t)
    PROVE  ExitInv'
<1>1. ASSUME ~(pc'[t] = "scheduleExit"), pc'[t] \in Transit /\ PostsExit(t)' => PostsExit(t)
      PROVE  \A u \in Threads : PostsExit(u)' => PostsExit(u)
  BY <1>1 DEF PostsExit, InTransit, OthersStay, Transit
<1>2. CASE Elsewhere(t) \/ Drops(t) \/ Enters(t) \/ Advances(t)
  <2>1. \A u \in Threads : PostsExit(u)' => PostsExit(u)
    BY <1>1, <1>2 DEF Elsewhere, Drops, Enters, Advances, Transit, PostsExit, InTransit
  <2>2. queue' = queue /\ toolkitExit' = toolkitExit /\ FxAlone
    BY <1>2 DEF Elsewhere, Drops, Enters, Advances
  <2>3. QED
    BY <2>1, <2>2, ExitFrame DEF FxAlone, RunsExit
<1>3. CASE Asks(t)
  <2>1. CASE toolkitExit
    <3>1. \A u \in Threads : PostsExit(u)' => PostsExit(u)
      BY <1>1, <1>3, <2>1 DEF Asks, Transit
    <3>2. QED
      BY <1>3, <2>1, <3>1, ExitFrame DEF Asks, FxAlone, RunsExit
  <2>2. CASE ~toolkitExit
    <3>1. ~QueuedExit /\ ~RunsExit /\ (\A u \in Threads : ~PostsExit(u))
          /\ (initialized => application)
      BY <2>2 DEF ExitInv, StartInv, RunsExit
    <3>2. \A u \in Threads : PostsExit(u)' => u = t
      BY <3>1 DEF PostsExit, InTransit, OthersStay
    <3>3. ~QueuedExit' /\ ~RunsExit' /\ toolkitExit' /\ (initialized' => application')
          /\ queue' = queue
      BY <1>3, <3>1 DEF Asks, FxAlone, QueuedExit, RunsExit
    <3>4. QED
      BY <3>2, <3>3 DEF ExitInv
  <2>3. QED
    BY <2>1, <2>2
<1>4. CASE Posts(t)
  <2>1. \A u \in Threads : PostsExit(u)' => PostsExit(u) /\ u # t
    BY <1>4 DEF Posts, Transit, PostsExit, InTransit, OthersStay
  <2>2. queue \in Seq(Deferred) /\ item[t] \in Deferred
    BY DEF FxTypes, ThreadTypes
  <2>3. /\ queue' = Append(queue, item[t])
        /\ UNCHANGED <<fx, toolkitExit, initialized, application>>
    BY <1>4 DEF Posts, FxAlone
  <2>4. /\ Len(queue') = Len(queue) + 1 /\ Len(queue) \in Nat
        /\ queue'[Len(queue) + 1] = item[t]
        /\ \A i \in 1 .. Len(queue) : queue'[i] = queue[i]
    BY <2>2, <2>3, QueuedAfterAppend
  <2>5. CASE item[t].kind = "exit"
    <3>1. PostsExit(t)
      BY <1>4, <2>5 DEF PostsExit, Posts, Transit, InTransit
    <3>2. /\ toolkitExit /\ ~QueuedExit /\ ~RunsExit /\ ~(initialized /\ ~application)
          /\ \A u \in Threads : PostsExit(u) => u = t
      BY <3>1 DEF ExitInv
    <3>3. \A u \in Threads : ~PostsExit(u)'
      BY <2>1, <3>2
    <3>4. \A i \in 1 .. Len(queue') : queue'[i].kind = "exit" => i = Len(queue) + 1
      BY <2>4, <3>2 DEF QueuedExit
    <3>5. ~RunsExit' /\ toolkitExit' /\ ~(initialized' /\ ~application')
      BY <2>3, <3>2 DEF RunsExit
    <3>6. QED
      BY <3>3, <3>4, <3>5 DEF ExitInv
  <2>6. CASE item[t].kind # "exit"
    <3>1. \A i \in 1 .. Len(queue') :
             queue'[i].kind = "exit" => i \in 1 .. Len(queue) /\ queue[i].kind = "exit"
      BY <2>4, <2>6
    <3>2. /\ QueuedExit' => QueuedExit
          /\ \A i, j \in 1 .. Len(queue') :
                queue'[i].kind = "exit" /\ queue'[j].kind = "exit" => i = j
      BY <3>1 DEF QueuedExit, ExitInv
    <3>3. RunsExit' <=> RunsExit
      BY <2>3 DEF RunsExit
    <3>4. QED
      BY <2>1, <2>3, <3>2, <3>3 DEF ExitInv
  <2>7. QED
    BY <2>5, <2>6
<1>5. CASE Starts(t)
  <2>1. \A u \in Threads : PostsExit(u)' => PostsExit(u)
    BY <1>1, <1>5 DEF Starts
  <2>2. ~RunsExit'
    BY <1>5 DEF Starts, RunsExit, At
  <2>3. QED
    BY <1>5, <2>1, <2>2, ExitFrame DEF Starts
<1>6. QED
  BY <1>2, <1>3, <1>4, <1>5 DEF ThreadStep

(* The FX thread runs it from the queue, or at once if it was the first to ask. *)
LEMMA FxExit ==
    ASSUME TypeInv, StartInv, ExitInv, FxCall \/ NativeEvent \/ FxContinue
    PROVE  ExitInv'
<1>0. ASSUME UNCHANGED <<pc, item>>
      PROVE  \A t \in Threads : PostsExit(t)' <=> PostsExit(t)
  BY <1>0 DEF PostsExit, InTransit
<1>1. CASE FxOrdinary
  <2>1. \A t \in Threads : PostsExit(t)' => PostsExit(t)
    BY <1>0, <1>1 DEF FxOrdinary
  <2>2. QED
    BY <1>1, <2>1, ExitFrame DEF FxOrdinary
<1>2. CASE RunToolkit
  <2>1. ~RunsExit' /\ \A t \in Threads : PostsExit(t)' => PostsExit(t)
    BY <1>0, <1>2, Places DEF RunToolkit, RunsExit
  <2>2. QED
    BY <1>2, <2>1, ExitFrame DEF RunToolkit
<1>3. CASE RunDeferred
  <2>1. /\ \A t \in Threads : PostsExit(t)' <=> PostsExit(t)
        /\ queue # << >> /\ queue' = Tail(queue)
        /\ UNCHANGED <<initialized, toolkitExit, application>>
        /\ fx'.pc \in {"finish", "body"} \/ Head(queue).kind = "exit"
    BY <1>0, <1>3, Places DEF RunDeferred
  <2>2. CASE fx'.pc \in {"finish", "body"}
    BY <2>1, <2>2, ExitFrame DEF RunsExit
  <2>3. CASE Head(queue).kind = "exit"
    <3>1. /\ Len(queue) \in Nat \ {0} /\ Len(queue') = Len(queue) - 1
          /\ \A i \in 1 .. Len(queue) - 1 : queue'[i] = queue[i + 1]
          /\ Head(queue) = queue[1]
      BY <2>1, QueuedAfterTail DEF FxTypes
    <3>2. 1 \in 1 .. Len(queue) /\ queue[1].kind = "exit"
      BY <2>3, <3>1
    <3>3. QueuedExit
      BY <3>2 DEF QueuedExit
    <3>4. /\ toolkitExit /\ ~(initialized /\ ~application)
          /\ \A t \in Threads : ~PostsExit(t)
          /\ \A i \in 1 .. Len(queue) : queue[i].kind = "exit" => i = 1
      BY <3>2, <3>3 DEF ExitInv
    <3>5. \A i \in 1 .. Len(queue') : queue'[i].kind # "exit"
      <4>1. SUFFICES ASSUME NEW i \in 1 .. Len(queue'), queue'[i].kind = "exit"
                     PROVE  FALSE
        OBVIOUS
      <4>2. i + 1 \in 1 .. Len(queue) /\ queue[i + 1].kind = "exit" /\ i # 0
        BY <3>1, <4>1
      <4>3. QED
        BY <3>4, <4>2
    <3>6. ~QueuedExit'
      BY <3>5 DEF QueuedExit
    <3>7. QED
      BY <2>1, <3>4, <3>5, <3>6 DEF ExitInv
  <2>4. QED
    BY <2>1, <2>2, <2>3
<1>4. CASE FxTkExit /\ ~toolkitExit
  <2>1. ~QueuedExit /\ (\A t \in Threads : ~PostsExit(t)) /\ (initialized => application)
    BY <1>4 DEF ExitInv, StartInv
  <2>2. /\ \A t \in Threads : ~PostsExit(t)'
        /\ UNCHANGED <<queue, initialized, application>>
    BY <1>0, <1>4, <2>1 DEF FxTkExit
  <2>3. ~QueuedExit'
    BY <2>1, <2>2 DEF QueuedExit
  <2>4. QED
    BY <2>1, <2>2, <2>3 DEF ExitInv
<1>5. CASE FinishTerminating
  <2>1. RunsExit /\ ~RunsExit'
    BY <1>5 DEF FinishTerminating, RunsExit, FxTypes, FxPlaces
  <2>2. ~QueuedExit /\ \A t \in Threads : ~PostsExit(t)
    BY <2>1 DEF ExitInv
  <2>3. UNCHANGED queue /\ \A t \in Threads : ~PostsExit(t)'
    BY <1>0, <1>5, <2>2 DEF FinishTerminating
  <2>4. ~QueuedExit'
    BY <2>2, <2>3 DEF QueuedExit
  <2>5. QED
    BY <2>1, <2>3, <2>4 DEF ExitInv
<1>6. CASE Dispose
  <2>1. ~RunsExit' /\ \A t \in Threads : PostsExit(t)' => PostsExit(t)
    BY <1>0, <1>6 DEF Dispose, RunsExit, FxTypes, FxPlaces
  <2>2. QED
    BY <1>6, <2>1, ExitFrame DEF Dispose
<1>7. QED
  BY <1>1, <1>2, <1>3, <1>4, <1>5, <1>6, FxCallOrdinary, FxHandlerOrdinary, FxExitOrdinary
     DEF FxContinue

-----------------------------------------------------------------------------
(* pendingRunnables *)

OnStack == Cardinality(DeferredOn(handlers))

LEMMA RunningIs ==
    /\ Running = OnStack - (IF fx.cont = "pop" THEN 1 ELSE 0)
    /\ Running' = OnStack' - (IF fx'.cont = "pop" THEN 1 ELSE 0)
BY DEF Running, OnStack, DeferredOn

LEMMA CountTypes ==
    ASSUME FxTypes
    PROVE  OnStack \in Nat /\ Len(queue) \in Nat /\ Running \in Int
<1>1. OnStack \in Nat /\ Len(queue) \in Nat
  BY CountIsNat, LenProperties DEF FxTypes, OnStack
<1>2. QED
  BY <1>1, RunningIs

(* The way back out of a handler's finally block is the end of a runnable. *)
LEMMA ResumeCounts ==
    ASSUME FxTypes, NEW c, Resume(c),
           c # "body" => handlers # << >>
    PROVE  Running' = OnStack - (IF c # "body" /\ Top(handlers) \in Deferred THEN 1 ELSE 0)
<1>1. fx'.cont = "none" /\ OnStack \in Nat
  BY Places, CountTypes DEF Resume
<1>2. CASE c = "body"
  <2>1. OnStack' = OnStack
    BY <1>2 DEF Resume, OnStack
  <2>2. QED
    BY <1>1, <1>2, <2>1, RunningIs
<1>3. CASE c # "body"
  <2>1. handlers' = Pop(handlers) /\ handlers \in Seq(Handlers)
    BY <1>3 DEF Resume, FxTypes, Handlers
  <2>2. Cardinality(DeferredOn(Pop(handlers))) =
           Cardinality(DeferredOn(handlers)) - (IF Top(handlers) \in Deferred THEN 1 ELSE 0)
    BY <1>3, <2>1, CountPop
  <2>3. OnStack' = OnStack - (IF Top(handlers) \in Deferred THEN 1 ELSE 0)
    BY <2>1, <2>2 DEF OnStack
  <2>4. QED
    BY <1>1, <1>3, <2>3, RunningIs
<1>4. QED
  BY <1>2, <1>3

(* checkIdle counts the empty runnable that it posts. *)
LEMMA CheckIdleCounts ==
    ASSUME FlagTypes, FxTypes, NEW n \in Nat, NEW p \in Int, NEW m, NEW c \in {"body", "pop"},
           c = "pop" => handlers # << >> /\ Top(handlers) \in Deferred,
           CheckIdle(n, p, m, c)
    PROVE  /\ pendingRunnables' - Len(queue') = p - Len(queue)
           /\ Running' = OnStack - (IF c = "pop" THEN 1 ELSE 0)
<1>1. \/ queue' = queue /\ pendingRunnables' = p
      \/ queue' = Append(queue, Dummy) /\ pendingRunnables' = p + 1
  BY CheckIdleEffect
<1>2. Len(queue) \in Nat /\ Len(Append(queue, Dummy)) = Len(queue) + 1
  <2>1. Dummy \in Deferred /\ queue \in Seq(Deferred)
    BY RunnableFacts DEF FxTypes
  <2>2. QED
    BY <2>1, QueuedAfterAppend
<1>3. pendingRunnables' - Len(queue') = p - Len(queue)
  BY <1>1, <1>2
<1>4. CASE Resume(c)
  BY <1>3, <1>4, ResumeCounts
<1>5. CASE fx' = At("notify", c, "idle") /\ handlers' = handlers
  <2>1. fx'.cont = c /\ OnStack' = OnStack
    BY <1>5 DEF At, OnStack
  <2>2. QED
    BY <1>3, <2>1, RunningIs
<1>6. Resume(c) \/ (fx' = At("notify", c, "idle") /\ handlers' = handlers)
  BY CheckIdleEffect
<1>7. QED
  BY <1>4, <1>5, <1>6

(* The FX thread keeps the count: what it posts or finishes is counted. *)
Balance == pendingRunnables - Len(queue) - Running

LEMMA FxBalance ==
    ASSUME TypeInv, StackInv, FxCall \/ NativeEvent \/ FxContinue
    PROVE  Balance' = Balance
<1> USE DEF FxBegin
<1>0. /\ OnStack \in Nat /\ Len(queue) \in Nat /\ Running \in Int
      /\ numWindows \in Nat /\ 0 .. MaxWindows \subseteq Nat
  BY CountTypes, BoundsAssumption DEF FlagTypes
<1>1. ASSUME UNCHANGED <<queue, pendingRunnables>>, Running' = Running
      PROVE  Balance' = Balance
  BY <1>1 DEF Balance
<1>2. ASSUME UNCHANGED <<queue, pendingRunnables, handlers>>, fx'.cont = "pop" <=> fx.cont = "pop"
      PROVE  Balance' = Balance
  <2>1. OnStack' = OnStack
    BY <1>2 DEF OnStack
  <2>2. QED
    BY <1>1, <1>2, <2>1, RunningIs
<1>3. CASE FxRunLaterCall
  <2>1. Running' = Running
    BY <1>3 DEF FxRunLaterCall, Running
  <2>2. \/ queue' = queue /\ pendingRunnables' = pendingRunnables
        \/ queue' = Append(queue, App) /\ pendingRunnables' = pendingRunnables + 1
    BY <1>3 DEF FxRunLaterCall, FxRunLater
  <2>3. Len(Append(queue, App)) = Len(queue) + 1
    <3>1. App \in Deferred /\ queue \in Seq(Deferred)
      BY RunnableFacts DEF FxTypes
    <3>2. QED
      BY <3>1, QueuedAfterAppend
  <2>4. QED
    BY <1>0, <2>1, <2>2, <2>3 DEF Balance
<1>4. CASE FxExitCall
  <2>1. fx'.cont = "body" /\ fx.cont = "none"
    BY <1>4, Places DEF FxExitCall, At
  <2>2. QED
    BY <1>2, <1>4, <2>1 DEF FxExitCall
<1>5. CASE FxSetImplicitExitCall
  <2>1. fx.cont = "none" /\ CheckIdle(numWindows, pendingRunnables, nested, "body")
    BY <1>5, Places DEF FxSetImplicitExitCall
  <2>2. pendingRunnables' - Len(queue') = pendingRunnables - Len(queue) /\ Running' = OnStack
    BY <1>0, <2>1, CheckIdleCounts
  <2>3. QED
    BY <1>0, <2>1, <2>2, RunningIs DEF Balance
<1>6. CASE EnterNestedEventLoop
  BY <1>2, <1>6, Places DEF EnterNestedEventLoop
<1>7. CASE ExitNestedEventLoop
  BY <1>2, <1>7 DEF ExitNestedEventLoop
<1>8. ASSUME NEW n \in 0 .. MaxWindows, ChangedTopLevelWindows(n)
      PROVE  Balance' = Balance
  <2>1. fx.cont = "none" /\ CheckIdle(n, pendingRunnables, nested, "body") /\ n \in Nat
    BY <1>0, <1>8, Places DEF ChangedTopLevelWindows
  <2>2. pendingRunnables' - Len(queue') = pendingRunnables - Len(queue) /\ Running' = OnStack
    BY <1>0, <2>1, CheckIdleCounts
  <2>3. QED
    BY <1>0, <2>1, <2>2, RunningIs DEF Balance
<1>9. CASE NativeEvent
  <2>1. fx.cont = "none" /\ fx'.cont = "none" /\ handlers' = Append(handlers, Event)
    BY <1>9, Places DEF NativeEvent
  <2>2. OnStack' = OnStack
    <3>1. handlers \in Seq(Handlers) /\ Event \in Handlers
      BY DEF FxTypes, Handlers
    <3>2. Event \notin Deferred
      BY RunnableFacts
    <3>3. Cardinality(DeferredOn(Append(handlers, Event))) = Cardinality(DeferredOn(handlers)) + 0
      BY <3>1, <3>2, CountAppend
    <3>4. QED
      BY <1>0, <2>1, <3>3 DEF OnStack
  <2>3. QED
    BY <1>1, <1>9, <2>1, <2>2, RunningIs DEF NativeEvent
<1>10. CASE RunDeferred
  <2>1. /\ fx.cont = "none" /\ fx'.cont # "pop"
        /\ queue # << >> /\ queue' = Tail(queue) /\ handlers' = Append(handlers, Head(queue))
        /\ pendingRunnables' = pendingRunnables
    BY <1>10, Places DEF RunDeferred, At
  <2>2. Head(queue) \in Deferred /\ Len(queue') = Len(queue) - 1
    BY <2>1, HeadTailProperties DEF FxTypes
  <2>3. OnStack' = OnStack + 1
    <3>1. handlers \in Seq(Handlers) /\ Head(queue) \in Handlers
      BY <2>2 DEF FxTypes, Handlers
    <3>2. QED
      BY <2>1, <2>2, <3>1, CountAppend DEF OnStack
  <2>4. QED
    BY <1>0, <2>1, <2>2, <2>3, RunningIs DEF Balance
<1>11. CASE LoopReturns
  <2>1. fx.cont = "none"
    BY <1>11, Places DEF LoopReturns
  <2>2. CASE nested # 0 /\ application /\ nested = 1
    <3>1. CheckIdle(numWindows, pendingRunnables, 0, "body")
      BY <1>11, <2>2 DEF LoopReturns
    <3>2. pendingRunnables' - Len(queue') = pendingRunnables - Len(queue) /\ Running' = OnStack
      BY <1>0, <3>1, CheckIdleCounts
    <3>3. QED
      BY <1>0, <2>1, <3>2, RunningIs DEF Balance
  <2>3. CASE ~(nested # 0 /\ application /\ nested = 1)
    <3>1. /\ fx' \in {At("ended", "none", "none"), InBody, Finishing}
          /\ UNCHANGED <<queue, pendingRunnables, handlers>>
      BY <1>11, <2>3 DEF LoopReturns
    <3>2. fx'.cont = "none"
      BY <3>1, Places DEF At
    <3>3. QED
      BY <1>2, <2>1, <3>1, <3>2
  <2>4. QED
    BY <2>2, <2>3
<1>12. CASE BodyReturns
  BY <1>2, <1>12, Places DEF BodyReturns
<1>13. CASE Finish
  <2>1. fx.cont = "none" /\ handlers # << >>
    BY <1>13, Places, HandlerRuns DEF Finish, NoHandler
  <2>2. CASE Top(handlers) \in Deferred
    <3>1. CheckIdle(numWindows, pendingRunnables - 1, nested, "pop") /\ pendingRunnables - 1 \in Int
      BY <1>13, <2>2 DEF Finish
    <3>2. /\ pendingRunnables' - Len(queue') = pendingRunnables - 1 - Len(queue)
          /\ Running' = OnStack - 1
      BY <1>0, <2>1, <2>2, <3>1, CheckIdleCounts
    <3>3. QED
      BY <1>0, <2>1, <3>2, RunningIs DEF Balance
  <2>3. CASE Top(handlers) \notin Deferred
    <3>1. Resume("pop") /\ UNCHANGED <<pendingRunnables, queue>>
      BY <1>13, <2>3 DEF Finish
    <3>2. Running' = OnStack
      BY <1>0, <2>1, <2>3, <3>1, ResumeCounts
    <3>3. QED
      BY <1>0, <1>1, <2>1, <3>1, <3>2, RunningIs
  <2>4. QED
    BY <2>2, <2>3
<1>14. CASE (FxNotify \/ FxTkExit \/ (Exited /\ fx.cont # "finish")) /\ Resume(fx.cont)
  <2>1. /\ fx.cont \in {"body", "pop"} /\ handlers # << >>
        /\ UNCHANGED <<queue, pendingRunnables>>
        /\ fx.cont = "pop" => Top(handlers) \in Deferred
    BY <1>14, HandlerRuns DEF StackInv, FxNotify, FxTkExit, Exited, NoHandler
  <2>2. Running' = Running
    BY <1>0, <1>14, <2>1, ResumeCounts, RunningIs
  <2>3. QED
    BY <1>1, <2>1, <2>2
<1>15. CASE \E p \in {"tkExit", "exit", "finishTerminating", "dispose", "exited"} :
               fx' = [fx EXCEPT !.pc = p] /\ UNCHANGED <<handlers, queue, pendingRunnables>>
  BY <1>2, <1>15 DEF FxTypes, FxPlaces
<1>16. CASE Exited /\ fx.cont = "finish"
  BY <1>2, <1>16, Places DEF Exited
<1>17. CASE RunToolkit
  <2>1. /\ handlers' = <<Startup>> /\ fx'.cont = "none" /\ fx.cont = "none"
        /\ Len(handlers) = 0
        /\ UNCHANGED <<queue, pendingRunnables>>
    BY <1>17, Places DEF RunToolkit, StackInv, NoHandler
  <2>2. Startup \notin Deferred
    BY RunnableFacts
  <2>3. DeferredOn(handlers) = {} /\ DeferredOn(handlers') = {}
    BY <2>1, <2>2 DEF DeferredOn
  <2>4. OnStack' = OnStack
    BY <2>3 DEF OnStack
  <2>5. QED
    BY <1>1, <2>1, <2>4, RunningIs
<1>18. QED
  <2>1. CASE FxNotify
    BY <1>14, <1>15, <2>1 DEF FxNotify
  <2>2. CASE FxTkExit
    BY <1>14, <1>15, <2>2 DEF FxTkExit
  <2>3. CASE CloseWindows
    BY <1>15, <2>3 DEF CloseWindows
  <2>4. CASE FinishTerminating
    BY <1>15, <2>4 DEF FinishTerminating
  <2>5. CASE Dispose
    BY <1>15, <2>5 DEF Dispose
  <2>6. CASE Exited
    BY <1>14, <1>16, <2>6 DEF Exited
  <2>7. QED
    BY <1>3, <1>4, <1>5, <1>6, <1>7, <1>8, <1>9, <1>10, <1>11, <1>12, <1>13, <1>17,
       <2>1, <2>2, <2>3, <2>4, <2>5, <2>6 DEF FxCall, FxContinue

LEMMA PendingIs ==
    ASSUME FxTypes, pendingRunnables \in Int
    PROVE  PendingInv <=> /\ Balance >= Cardinality(InTransit)
                          /\ ~toolkitExit => Balance = Cardinality(InTransit)
<1>1. Len(queue) \in Nat /\ Running \in Int
  BY CountTypes
<1>2. IsFiniteSet(InTransit)
  BY BoundsAssumption, FS_Subset DEF InTransit
<1>3. Cardinality(InTransit) \in Nat
  BY <1>2, FS_CardinalityType
<1>4. QED
  BY <1>1, <1>3 DEF PendingInv, Balance

(* How many threads are in runLater, as one enters or leaves it. *)
LEMMA TransitCounts ==
    ASSUME NEW t \in Threads, OthersStay(t)
    PROVE  /\ Cardinality(InTransit) \in Nat
           /\ pc[t] \notin Transit /\ pc'[t] \notin Transit =>
                 Cardinality(InTransit') = Cardinality(InTransit)
           /\ pc[t] \in Transit /\ pc'[t] \in Transit =>
                 Cardinality(InTransit') = Cardinality(InTransit)
           /\ pc[t] \notin Transit /\ pc'[t] \in Transit =>
                 Cardinality(InTransit') = Cardinality(InTransit) + 1
           /\ pc[t] \in Transit /\ pc'[t] \notin Transit =>
                 Cardinality(InTransit') = Cardinality(InTransit) - 1
<1>1. /\ InTransit = {u \in Threads : pc[u] \in Transit}
      /\ InTransit' = {u \in Threads : pc'[u] \in Transit}
  BY DEF InTransit, Transit
<1>2. IsFiniteSet(InTransit)
  BY BoundsAssumption, FS_Subset DEF InTransit
<1>3. Cardinality(InTransit) \in Nat
  BY <1>2, FS_CardinalityType
<1>4. ASSUME pc[t] \in Transit <=> pc'[t] \in Transit
      PROVE  Cardinality(InTransit') = Cardinality(InTransit)
  <2>1. InTransit' = InTransit
    BY <1>1, <1>4 DEF OthersStay
  <2>2. QED
    BY <2>1
<1>5. ASSUME pc[t] \notin Transit, pc'[t] \in Transit
      PROVE  Cardinality(InTransit') = Cardinality(InTransit) + 1
  <2>1. InTransit' = InTransit \cup {t} /\ t \notin InTransit
    BY <1>1, <1>5 DEF OthersStay
  <2>2. QED
    BY <1>2, <2>1, FS_AddElement
<1>6. ASSUME pc[t] \in Transit, pc'[t] \notin Transit
      PROVE  Cardinality(InTransit') = Cardinality(InTransit) - 1
  <2>1. InTransit' = InTransit \ {t} /\ t \in InTransit
    BY <1>1, <1>6 DEF OthersStay
  <2>2. QED
    BY <1>2, <2>1, FS_RemoveElement
<1>7. QED
  BY <1>3, <1>4, <1>5, <1>6

LEMMA ThreadPending ==
    ASSUME TypeInv, TypeInv', StackInv, StartInv, PendingInv, NEW t \in Threads, ThreadStep(t),
           OthersStay(t)
    PROVE  PendingInv'
<1>1. Running' = Running /\ Running \in Int /\ Len(queue) \in Nat
  <2>1. CASE FxAlone
    BY <2>1, CountTypes DEF FxAlone, Running
  <2>2. CASE Starts(t)
    <3>1. fx.cont = "none" /\ fx'.cont = "none" /\ OnStack' = OnStack
      BY <2>2 DEF Starts, StartInv, StackInv, NoHandler, At, OnStack
    <3>2. QED
      BY <3>1, RunningIs, CountTypes
  <2>3. QED
    BY <2>1, <2>2 DEF ThreadStep, Elsewhere, Asks, Enters, Advances, Drops, Posts
<1>2. /\ Balance >= Cardinality(InTransit)
      /\ ~toolkitExit => Balance = Cardinality(InTransit)
      /\ Balance \in Int /\ Cardinality(InTransit) \in Nat
  BY <1>1, PendingIs, TransitCounts DEF Balance
<1>3. SUFFICES /\ Balance' >= Cardinality(InTransit')
               /\ ~toolkitExit' => Balance' = Cardinality(InTransit')
  <2>1. /\ Len(queue') \in Nat /\ Running' \in Int /\ pendingRunnables' \in Int
    BY <1>1, LenProperties DEF FxTypes
  <2>2. Cardinality(InTransit') \in Nat
    <3>1. InTransit' \subseteq Threads
      BY DEF InTransit
    <3>2. IsFiniteSet(InTransit')
      BY <3>1, BoundsAssumption, FS_Subset
    <3>3. QED
      BY <3>2, FS_CardinalityType
  <2>3. QED
    BY <2>1, <2>2 DEF PendingInv, Balance
<1>4. CASE Elsewhere(t) \/ Asks(t) \/ Advances(t) \/ Starts(t)
  <2>1. Cardinality(InTransit') = Cardinality(InTransit)
    BY <1>4, TransitCounts DEF Elsewhere, Asks, Advances, Starts, Transit
  <2>2. Balance' = Balance /\ (~toolkitExit' => ~toolkitExit)
    BY <1>1, <1>4 DEF Balance, Elsewhere, Asks, Advances, Starts
  <2>3. QED
    BY <1>2, <2>1, <2>2
<1>5. CASE Enters(t)
  <2>1. Cardinality(InTransit') = Cardinality(InTransit) + 1
    BY <1>5, TransitCounts DEF Enters, Transit
  <2>2. Balance' = Balance + 1 /\ toolkitExit' = toolkitExit
    BY <1>1, <1>5 DEF Balance, Enters
  <2>3. QED
    BY <1>2, <2>1, <2>2
<1>6. CASE Drops(t)
  <2>1. Cardinality(InTransit') = Cardinality(InTransit) - 1
    BY <1>6, TransitCounts DEF Drops
  <2>2. Balance' \in {Balance, Balance - 1} /\ toolkitExit'
    BY <1>1, <1>6 DEF Balance, Drops
  <2>3. QED
    BY <1>2, <2>1, <2>2
<1>7. CASE Posts(t)
  <2>1. Cardinality(InTransit') = Cardinality(InTransit) - 1
    BY <1>7, TransitCounts DEF Posts
  <2>2. Len(queue') = Len(queue) + 1
    <3>1. queue \in Seq(Deferred) /\ item[t] \in Deferred /\ queue' = Append(queue, item[t])
      BY <1>7 DEF Posts, FxTypes, ThreadTypes
    <3>2. QED
      BY <3>1, QueuedAfterAppend
  <2>3. Balance' = Balance - 1 /\ toolkitExit' = toolkitExit
    BY <1>1, <1>7, <2>2 DEF Balance, Posts
  <2>4. QED
    BY <1>2, <2>1, <2>3
<1>8. QED
  BY <1>4, <1>5, <1>6, <1>7 DEF ThreadStep

LEMMA FxPending ==
    ASSUME TypeInv, TypeInv', StackInv, PendingInv, FxCall \/ NativeEvent \/ FxContinue
    PROVE  PendingInv'
<1>1. Balance' = Balance
  BY FxBalance
<1>2. pc' = pc /\ (toolkitExit => toolkitExit')
  BY DEF FxCall, FxRunLaterCall, FxExitCall, FxSetImplicitExitCall, EnterNestedEventLoop,
         ExitNestedEventLoop, ChangedTopLevelWindows, NativeEvent, FxContinue, RunToolkit,
         RunDeferred, LoopReturns, BodyReturns, Finish, FxNotify, FxTkExit, CloseWindows,
         FinishTerminating, Dispose, Exited
<1>3. /\ Len(queue) \in Nat /\ Running \in Int /\ InTransit' = InTransit
      /\ Len(queue') \in Nat
  BY <1>2, CountTypes, LenProperties DEF InTransit, FxTypes
<1>4. Running' \in Int
  <2>1. handlers' \in Seq(Handlers)
    BY DEF FxTypes, Handlers
  <2>2. OnStack' \in Nat
    BY <2>1, CountIsNat DEF OnStack
  <2>3. QED
    BY <2>2, RunningIs
<1>5. Cardinality(InTransit) \in Nat
  <2>1. IsFiniteSet(InTransit)
    BY BoundsAssumption, FS_Subset DEF InTransit
  <2>2. QED
    BY <2>1, FS_CardinalityType
<1>6. /\ Balance >= Cardinality(InTransit)
      /\ ~toolkitExit => Balance = Cardinality(InTransit)
  BY PendingIs
<1>7. Cardinality(InTransit') = Cardinality(InTransit)
  BY <1>3
<1>8. /\ Balance' >= Cardinality(InTransit')
      /\ ~toolkitExit' => Balance' = Cardinality(InTransit')
  BY <1>1, <1>2, <1>6, <1>7
<1>9. pendingRunnables' \in Int /\ Cardinality(InTransit') \in Nat
  BY <1>5, <1>7
<1>10. pendingRunnables' >= Cardinality(InTransit') + Len(queue') + Running'
  BY <1>3, <1>4, <1>8, <1>9 DEF Balance
<1>11. ~toolkitExit' => pendingRunnables' = Cardinality(InTransit') + Len(queue') + Running'
  BY <1>3, <1>4, <1>8, <1>9 DEF Balance
<1>12. QED
  BY <1>10, <1>11 DEF PendingInv

-----------------------------------------------------------------------------
(* Idleness *)

(* checkIdle waits for pendingRunnables to be 0: at the end of a runnable,   *)
(* which has just been taken off the count, or inside some other handler.    *)
LEMMA NoneLeft ==
    ASSUME IInv, fx.cont = "none", pendingRunnables = 0
    PROVE  /\ InTransit = {} /\ queue = << >>
           /\ \A i \in 1 .. Len(handlers) : handlers[i] \notin Deferred
<1>1. OnStack \in Nat /\ Len(queue) \in Nat /\ Running = OnStack
  BY CountTypes, RunningIs DEF IInv
<1>2. IsFiniteSet(InTransit) /\ Cardinality(InTransit) \in Nat
  BY BoundsAssumption, FS_Subset, FS_CardinalityType DEF InTransit
<1>3. Cardinality(InTransit) = 0 /\ Len(queue) = 0 /\ OnStack = 0
  BY <1>1, <1>2 DEF IInv, PendingInv
<1>4. IsFiniteSet(DeferredOn(handlers))
  BY CountIsNat DEF IInv, FxTypes
<1>5. InTransit = {} /\ DeferredOn(handlers) = {}
  BY <1>2, <1>3, <1>4, FS_EmptySet DEF OnStack
<1>6. queue = << >>
  BY <1>3, EmptySeq DEF IInv, FxTypes
<1>7. QED
  BY <1>5, <1>6 DEF DeferredOn

LEMMA OneLeft ==
    ASSUME IInv, fx.cont = "none", pendingRunnables = 1,
           handlers # << >>, Top(handlers) \in Deferred
    PROVE  /\ InTransit = {} /\ queue = << >>
           /\ \A i \in 1 .. Len(handlers) : handlers[i] \in Deferred => i = Len(handlers)
<1>1. OnStack \in Nat /\ Len(queue) \in Nat /\ Running = OnStack
  BY CountTypes, RunningIs DEF IInv
<1>2. IsFiniteSet(InTransit) /\ Cardinality(InTransit) \in Nat
  BY BoundsAssumption, FS_Subset, FS_CardinalityType DEF InTransit
<1>3. handlers \in Seq(Handlers) /\ Pop(handlers) \in Seq(Handlers)
  BY PopFacts DEF IInv, FxTypes, Handlers
<1>4. /\ Cardinality(DeferredOn(Pop(handlers))) = OnStack - 1
      /\ Cardinality(DeferredOn(Pop(handlers))) \in Nat
      /\ IsFiniteSet(DeferredOn(Pop(handlers)))
  BY <1>3, CountPop, CountIsNat DEF OnStack
<1>5. /\ Cardinality(InTransit) = 0 /\ Len(queue) = 0
      /\ Cardinality(DeferredOn(Pop(handlers))) = 0
  BY <1>1, <1>2, <1>4 DEF IInv, PendingInv
<1>6. InTransit = {} /\ DeferredOn(Pop(handlers)) = {}
  BY <1>2, <1>4, <1>5, FS_EmptySet
<1>7. queue = << >>
  BY <1>5, EmptySeq DEF IInv, FxTypes
<1>8. /\ Len(handlers) \in Nat \ {0}
      /\ Len(Pop(handlers)) = Len(handlers) - 1
      /\ \A i \in 1 .. Len(handlers) - 1 : Pop(handlers)[i] = handlers[i]
  BY <1>3, PopFacts
<1>9. \A i \in 1 .. Len(handlers) - 1 : handlers[i] \notin Deferred
  BY <1>6, <1>8 DEF DeferredOn
<1>10. QED
  BY <1>6, <1>7, <1>8, <1>9

LEMMA ThreadIdle ==
    ASSUME NEW t \in Threads, ThreadStep(t)
    PROVE  ~FoundIdle
<1>1. CASE fx' = fx
  BY <1>1 DEF FoundIdle
<1>2. CASE Starts(t)
  BY <1>2 DEF Starts, At, FoundIdle
<1>3. QED
  BY <1>1, <1>2 DEF ThreadStep, Elsewhere, Asks, Enters, Advances, Drops, Posts, FxAlone

LEMMA FxIdle ==
    ASSUME IInv, FxCall \/ NativeEvent \/ FxContinue, FoundIdle
    PROVE  NothingPending
<1> USE DEF FxBegin, IInv
<1>0. numWindows \in Nat /\ 0 .. MaxWindows \subseteq Nat /\ pendingRunnables - 1 \in Int
  BY BoundsAssumption DEF FlagTypes
<1>1. ASSUME fx'.why # "idle" PROVE FALSE
  BY <1>1 DEF FoundIdle
<1>2. ASSUME NEW n \in Nat, NEW p \in Int, NEW m, NEW c, CheckIdle(n, p, m, c)
      PROVE  fx'.cont = c /\ p = 0
  <2>1. Resume(c) \/ (fx' = At("notify", c, "idle") /\ p = 0)
    BY <1>2, CheckIdleEffect
  <2>2. Resume(c) => fx'.why = "none"
    BY Places DEF Resume
  <2>3. QED
    BY <1>1, <2>1, <2>2 DEF At
<1>3. ASSUME NEW n \in Nat, NEW m, CheckIdle(n, pendingRunnables, m, "body"),
             fx \in {InBody, InLoop}
      PROVE  NothingPending
  <2>1. pendingRunnables = 0 /\ fx.cont = "none"
    BY <1>2, <1>3, Places
  <2>2. QED
    BY <2>1, NoneLeft DEF NothingPending
<1>4. CASE FxRunLaterCall \/ ExitNestedEventLoop
  BY <1>1, <1>4, Places DEF FxRunLaterCall, ExitNestedEventLoop
<1>5. CASE FxExitCall
  BY <1>1, <1>5 DEF FxExitCall, At
<1>6. CASE EnterNestedEventLoop \/ NativeEvent \/ RunToolkit \/ BodyReturns
  BY <1>1, <1>6, Places DEF EnterNestedEventLoop, NativeEvent, RunToolkit, BodyReturns
<1>7. CASE FxSetImplicitExitCall
  BY <1>0, <1>3, <1>7 DEF FxSetImplicitExitCall
<1>8. ASSUME NEW n \in 0 .. MaxWindows, ChangedTopLevelWindows(n)
      PROVE  NothingPending
  BY <1>0, <1>3, <1>8 DEF ChangedTopLevelWindows
<1>9. CASE RunDeferred
  <2>1. fx' \in {Finishing, At("exit", "finish", "call"), InBody}
    BY <1>9 DEF RunDeferred
  <2>2. QED
    BY <1>1, <2>1, Places DEF At
<1>10. CASE LoopReturns
  <2>1. CASE nested # 0 /\ application /\ nested = 1
    BY <1>0, <1>3, <1>10, <2>1 DEF LoopReturns
  <2>2. CASE ~(nested # 0 /\ application /\ nested = 1)
    <3>1. fx' \in {At("ended", "none", "none"), InBody, Finishing}
      BY <1>10, <2>2 DEF LoopReturns
    <3>2. QED
      BY <1>1, <3>1, Places DEF At
  <2>3. QED
    BY <2>1, <2>2
<1>11. CASE Finish
  <2>1. CASE Top(handlers) \in Deferred
    <3>1. fx'.cont = "pop" /\ pendingRunnables = 1
      BY <1>0, <1>2, <1>11, <2>1 DEF Finish
    <3>2. fx.cont = "none" /\ handlers # << >>
      BY <1>11, Places, HandlerRuns DEF Finish, NoHandler
    <3>3. QED
      BY <2>1, <3>1, <3>2, OneLeft DEF NothingPending
  <2>2. CASE Top(handlers) \notin Deferred
    <3>1. Resume("pop")
      BY <1>11, <2>2 DEF Finish
    <3>2. QED
      BY <1>1, <3>1, Places DEF Resume
  <2>3. QED
    BY <2>1, <2>2
<1>12. CASE FxNotify \/ FxTkExit \/ CloseWindows \/ FinishTerminating \/ Dispose \/ Exited
  <2>1. fx'.why = fx.why \/ fx' \in {InLoop, InBody, Finishing}
    BY <1>12 DEF FxNotify, FxTkExit, CloseWindows, FinishTerminating, Dispose, Exited, Resume,
                 FxTypes, FxPlaces
  <2>2. QED
    BY <2>1, Places DEF FoundIdle
<1>13. QED
  BY <1>4, <1>5, <1>6, <1>7, <1>8, <1>9, <1>10, <1>11, <1>12 DEF FxCall, FxContinue

-----------------------------------------------------------------------------
(* The theorems *)

LEMMA Initially == Init => IInv
<1> SUFFICES ASSUME Init PROVE IInv
  OBVIOUS
<1>0. fx.pc = "notStarted" /\ fx.cont = "none" /\ fx.why = "none" /\ fx \in FxPlaces
  BY DEF Init, NotStarted, At, FxPlaces
<1>1. App \in Deferred /\ App.kind # "exit"
  BY RunnableFacts
<1>2. FlagTypes
  <2>1. /\ initialized \in BOOLEAN /\ platformExit \in BOOLEAN /\ toolkitExit \in BOOLEAN
        /\ startupLatch \in BOOLEAN /\ listenersRegistered \in BOOLEAN
        /\ implicitExit \in BOOLEAN /\ platformExitLatch \in BOOLEAN
    BY DEF Init
  <2>2. /\ firstWindowShown \in BOOLEAN /\ lastWindowClosed \in BOOLEAN
        /\ reallyIdle \in BOOLEAN /\ toolkitRunning \in BOOLEAN
        /\ fxUserThread \in BOOLEAN /\ application \in BOOLEAN
    BY DEF Init
  <2>3. numWindows \in 0 .. MaxWindows
    BY BoundsAssumption DEF Init
  <2>4. finishListeners \subseteq Threads /\ runLaterLock \in Threads \cup {NoThread}
    BY DEF Init
  <2>5. QED
    BY <2>1, <2>2, <2>3, <2>4 DEF FlagTypes
<1>3. FxTypes
  BY <1>0, BoundsAssumption DEF Init, FxTypes
<1>4. ThreadTypes
  BY <1>1 DEF Init, ThreadTypes
<1>5. pendingRunnables \in Int
  BY DEF Init
<1>6. StackInv
  BY <1>0 DEF Init, StackInv, NoHandler
<1>7. InTransit = {} /\ queue = << >> /\ handlers = << >>
  BY DEF Init, InTransit
<1>8. StartInv
  BY <1>0, <1>7 DEF Init, StartInv
<1>9. ExitInv
  BY <1>0, <1>7 DEF Init, ExitInv, PostsExit, QueuedExit, RunsExit
<1>10. PendingInv
  <2>1. DeferredOn(handlers) = {}
    BY <1>7 DEF DeferredOn
  <2>2. OnStack = 0 /\ Cardinality(InTransit) = 0
    BY <1>7, <2>1, FS_EmptySet DEF OnStack
  <2>3. QED
    BY <1>0, <1>7, <2>2, RunningIs DEF Init, PendingInv
<1>11. QED
  BY <1>2, <1>3, <1>4, <1>5, <1>6, <1>8, <1>9, <1>10 DEF IInv

LEMMA Inductive == IInv /\ [Next]_vars => IInv'
<1> SUFFICES ASSUME IInv, [Next]_vars
             PROVE  IInv'
  OBVIOUS
<1> USE DEF IInv
<1>1. CASE FxCall \/ NativeEvent \/ FxContinue
  <2>1. TypeInv' /\ StackInv'
    BY <1>1, FxCallType, FxLoopType, FxEndType, FxExitType DEF FxContinue
  <2>2. QED
    BY <1>1, <2>1, FxStart, FxExit, FxPending
<1>2. ASSUME NEW t \in Threads, BeginCall(t) \/ ContinueCall(t)
      PROVE  IInv'
  <2>1. TypeInv'
    BY <1>2, BeginCallType, ContinueCallType
  <2>2. ThreadStep(t) /\ OthersStay(t)
    BY <1>2, BeginCallStep, ContinueCallStep DEF ThreadStep, OthersStay
  <2>3. QED
    BY <2>1, <2>2, ThreadStack, ThreadStart, ThreadExit, ThreadPending
<1>3. CASE UNCHANGED vars
  <2>1. TypeInv' /\ StackInv'
    BY <1>3, TypeFrame, StackFrame DEF vars
  <2>2. StartInv' /\ ExitInv'
    BY <1>3 DEF vars, StartInv, ExitInv, InTransit, PostsExit, QueuedExit, RunsExit
  <2>3. PendingInv'
    BY <1>3 DEF vars, PendingInv, InTransit, Running
  <2>4. QED
    BY <2>1, <2>2, <2>3
<1>4. QED
  BY <1>1, <1>2, <1>3 DEF Next

LEMMA Invariance == Spec => []IInv
<1>1. Init => IInv
  BY Initially
<1>2. IInv /\ [Next]_vars => IInv'
  BY Inductive
<1>3. QED
  BY <1>1, <1>2, PTL DEF Spec

(* pendingRunnables, which runLater and its callers increment and decrement  *)
(* on different threads, is never negative, and every variable keeps to its  *)
(* values.                                                                   *)
THEOREM TypeCorrect == Spec => []TypeOK
<1>1. ASSUME IInv PROVE TypeOK
  <2>1. FxTypes /\ StackInv /\ OnStack \in Nat /\ Len(queue) \in Nat /\ pendingRunnables \in Int
    BY <1>1, CountTypes DEF IInv
  <2>2. fx.cont = "pop" => OnStack >= 1
    <3>1. SUFFICES ASSUME fx.cont = "pop" PROVE OnStack >= 1
      OBVIOUS
    <3>2. handlers # << >> /\ Top(handlers) \in Deferred
      BY <2>1, <3>1, HandlerRuns DEF StackInv
    <3>3. handlers \in Seq(Handlers) /\ Pop(handlers) \in Seq(Handlers)
      BY <2>1, <3>2, PopFacts DEF FxTypes, Handlers
    <3>4. Cardinality(DeferredOn(Pop(handlers))) = OnStack - 1
      BY <3>2, <3>3, CountPop DEF OnStack
    <3>5. Cardinality(DeferredOn(Pop(handlers))) \in Nat
      BY <3>3, CountIsNat
    <3>6. QED
      BY <2>1, <3>4, <3>5
  <2>3. Cardinality(InTransit) \in Nat
    <3>1. IsFiniteSet(InTransit)
      BY BoundsAssumption, FS_Subset DEF InTransit
    <3>2. QED
      BY <3>1, FS_CardinalityType
  <2>4. pendingRunnables \in Nat
    BY <1>1, <2>1, <2>2, <2>3, RunningIs DEF IInv, PendingInv
  <2>5. QED
    BY <1>1, <2>4 DEF IInv, TypeOK
<1>2. QED
  BY <1>1, Invariance, PTL

(* Until the toolkit exits, pendingRunnables is the number of runnables that *)
(* are on their way to the queue, in it, or running: checkIdle, which waits  *)
(* for it to be 0, neither misses one nor waits for one that is gone.        *)
THEOREM PendingIsExact == Spec => []PendingAccounted
<1>1. IInv => PendingAccounted
  BY DEF IInv, PendingInv, PendingAccounted
<1>2. QED
  BY <1>1, Invariance, PTL

(* However many threads call tkExit, and whatever the FX thread does at the  *)
(* same time, Toolkit.exit() finds an Application to terminate: it is run    *)
(* once.                                                                     *)
THEOREM ExitRunsOnce == Spec => []TerminatesOnce
<1>1. IInv => TerminatesOnce
  BY DEF IInv, StartInv, ExitInv, RunsExit, TerminatesOnce
<1>2. QED
  BY <1>1, Invariance, PTL

(* The step of checkIdle that finds the runtime idle, and leads to its       *)
(* implicit exit, is taken only when no runLater that any thread has begun   *)
(* is on its way, queued or running, the runnable that ends here aside.      *)
THEOREM IdleExitDropsNothing == Spec => ImplicitExitDropsNothing
<1>1. IInv /\ [Next]_vars => [FoundIdle => NothingPending]_vars
  <2>1. SUFFICES ASSUME IInv, Next, FoundIdle PROVE NothingPending
    OBVIOUS
  <2>2. CASE FxCall \/ NativeEvent \/ FxContinue
    BY <2>1, <2>2, FxIdle
  <2>3. ASSUME NEW t \in Threads, BeginCall(t) \/ ContinueCall(t)
        PROVE  FALSE
    BY <2>1, <2>3, BeginCallStep, ContinueCallStep, ThreadIdle DEF IInv, ThreadStep
  <2>4. QED
    BY <2>1, <2>2, <2>3 DEF Next
<1>2. QED
  BY <1>1, Invariance, PTL DEF Spec, ImplicitExitDropsNothing

=============================================================================
