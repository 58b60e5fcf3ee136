------------------------- MODULE PlatformLifecycle -------------------------
(***************************************************************************)
(* Start, idle detection and exit of the JavaFX runtime.                   *)
(*                                                                         *)
(*   com/sun/javafx/application/PlatformImpl.java                          *)
(*   com/sun/javafx/tk/quantum/QuantumToolkit.java  startup, defer, exit   *)
(*   com/sun/javafx/tk/Toolkit.java                 fxUserThread           *)
(*   com/sun/glass/ui/Application.java              run, terminate         *)
(*   com/sun/glass/ui/gtk/GtkApplication.java       finishTerminating      *)
(*                                                                         *)
(* The FX application thread runs native events and deferred runnables,    *)
(* possibly in nested event loops; any other thread may call the static    *)
(* methods of PlatformImpl at any time.  Glass is taken by its contract:   *)
(* deferred runnables start in the order in which they were posted         *)
(* (InvokeLaterQueue).  A call of another thread takes one step per access *)
(* to state that a thread not holding runLaterLock can change.             *)
(***************************************************************************)
EXTENDS Integers, Sequences, FiniteSets

CONSTANTS Threads,      \* threads other than the FX application thread
          NoThread,
          Calls,        \* the calls that threads and handlers may make
          MaxCalls,     \* bound: calls made by each of the threads
          MaxFxCalls,   \* bound: calls made by handlers on the FX thread
          MaxEvents,    \* bound: native events delivered
          MaxWindows,   \* bound: windows showing at a time
          MaxNested     \* bound: depth of nested event loops

AllCalls == {"runLater", "runAndWait", "exit", "tkExit", "setImplicitExit",
             "listeners", "windows", "nested"}

ASSUME BoundsAssumption ==
    /\ NoThread \notin Threads
    /\ IsFiniteSet(Threads)
    /\ Calls \subseteq AllCalls
    /\ MaxCalls \in Nat /\ MaxFxCalls \in Nat /\ MaxEvents \in Nat
    /\ MaxWindows \in Nat /\ MaxNested \in Nat

VARIABLES
    \* PlatformImpl
    initialized, platformExit, toolkitExit, startupLatch,
    listenersRegistered, finishListeners, implicitExit, pendingRunnables,
    numWindows, firstWindowShown, lastWindowClosed, reallyIdle,
    runLaterLock,           \* the thread inside synchronized (runLaterLock)
    platformExitLatch,
    \* Toolkit and Application
    toolkitRunning, fxUserThread, application,
    queue,                  \* posted to Glass and not yet started
    \* the FX thread
    fx,                     \* where it is, what follows, why it notifies
    handlers,               \* handlers on its call stack, innermost last
    nested,                 \* nestedEventLoopCounter
    quit,                   \* levels whose native loop was told to quit
    \* the other threads
    pc, item, isEmpty, latch,
    \* bounds, and a record of failures
    calls, fxCalls, events,
    failed                  \* threads that met a null Application

platformVars == <<initialized, platformExit, toolkitExit, startupLatch>>
listenerVars == <<listenersRegistered, finishListeners>>
flagVars == <<platformVars, listenerVars, implicitExit, platformExitLatch>>
postVars == <<pendingRunnables, runLaterLock, queue>>
idleFlags == <<firstWindowShown, lastWindowClosed, reallyIdle>>
toolkitVars == <<toolkitRunning, fxUserThread, application>>
stackVars == <<handlers, nested, quit>>
fxState == <<fx, stackVars, numWindows, idleFlags, toolkitVars, fxCalls, events>>
threadVars == <<pc, item, isEmpty>>
threadState == <<threadVars, calls, failed>>
vars == <<flagVars, postVars, fxState, threadState, latch>>

\* What waits in the queue or runs on the FX thread.
Runnable(k, t) == [kind |-> k, by |-> t]
App     == Runnable("app", NoThread)        \* the application's runLater
Dummy   == Runnable("dummy", NoThread)      \* checkIdle's empty runnable
Event   == Runnable("event", NoThread)      \* a native event, or a pulse
Startup == Runnable("startup", NoThread)    \* the startup runnable
Deferred == {App, Dummy} \cup {Runnable(k, t) : k \in {"wait", "exit"}, t \in Threads}

At(p, c, why) == [pc |-> p, cont |-> c, why |-> why]
NotStarted == At("notStarted", "none", "none")
InLoop == At("loop", "none", "none")
InBody == At("body", "none", "none")
Finishing == At("finish", "none", "none")

Init ==
    /\ initialized = FALSE /\ platformExit = FALSE /\ toolkitExit = FALSE
    /\ startupLatch = FALSE
    /\ listenersRegistered = FALSE /\ finishListeners = {}
    /\ implicitExit = TRUE
    /\ pendingRunnables = 0
    /\ numWindows = 0 /\ firstWindowShown = FALSE
    /\ lastWindowClosed = FALSE /\ reallyIdle = FALSE
    /\ runLaterLock = NoThread
    /\ platformExitLatch = FALSE
    /\ toolkitRunning = FALSE /\ fxUserThread = FALSE /\ application = FALSE
    /\ queue = << >>
    /\ fx = NotStarted /\ handlers = << >> /\ nested = 0 /\ quit = {}
    /\ pc = [t \in Threads |-> "ready"]
    /\ item = [t \in Threads |-> App]
    /\ isEmpty = [t \in Threads |-> FALSE]
    /\ latch = {}
    /\ calls = [t \in Threads |-> 0] /\ fxCalls = 0 /\ events = 0
    /\ failed = {}

Goto(t, p) == pc' = [pc EXCEPT ![t] = p]

Top(s) == s[Len(s)]
Pop(s) == SubSeq(s, 1, Len(s) - 1)

-----------------------------------------------------------------------------
(* PlatformImpl.runLater on a thread other than the FX thread.  The thread   *)
(* carries in item what it posts; an "exit" item is posted with exiting set. *)

BeginRunLater_dummyUncounted(t, i) ==
    /\ initialized
    /\ pendingRunnables' = IF i = Dummy THEN pendingRunnables ELSE pendingRunnables + 1
    /\ item' = [item EXCEPT ![t] = i]
    /\ Goto(t, "waitForStart")

BeginRunLater(t, i) ==
    /\ initialized
    /\ pendingRunnables' = pendingRunnables + 1
    /\ item' = [item EXCEPT ![t] = i]
    /\ Goto(t, "waitForStart")

\* What the caller of runLater does next.
AfterRunLater(t) ==
    Goto(t, CASE item[t].kind = "wait" -> "waitCheck"
              [] item[t].kind = "exit" -> "await"
              [] OTHER                 -> "ready")

Unlock == runLaterLock' = NoThread

WaitForStart(t) ==
    /\ pc[t] = "waitForStart"
    /\ startupLatch
    /\ runLaterLock = NoThread
    /\ runLaterLock' = t
    /\ Goto(t, "checkExit")
    /\ UNCHANGED <<flagVars, pendingRunnables, fxState, queue, item, isEmpty, latch,
                   calls, failed>>

\* Only the runnable that exits the toolkit is posted after toolkitExit is set.
IsDropped_exitToo(t) == toolkitExit
IsDropped(t) == item[t].kind # "exit" /\ toolkitExit

CheckExit(t) ==
    /\ pc[t] = "checkExit"
    /\ IF IsDropped(t)
       THEN /\ pendingRunnables' = pendingRunnables - 1
            /\ Unlock
            /\ AfterRunLater(t)
       ELSE /\ Goto(t, "defer")
            /\ UNCHANGED <<pendingRunnables, runLaterLock>>
    /\ UNCHANGED <<flagVars, fxState, queue, item, isEmpty, latch, calls, failed>>

Defer(t) ==
    /\ pc[t] = "defer"
    /\ IF toolkitRunning
       THEN Goto(t, "invokeLater") /\ UNCHANGED runLaterLock
       ELSE Unlock /\ AfterRunLater(t)
    /\ UNCHANGED <<flagVars, pendingRunnables, fxState, queue, item, isEmpty, latch,
                   calls, failed>>

\* GetApplication() may be null by now; the NullPointerException leaves the
\* synchronized block and the caller's call.
InvokeLater(t) ==
    /\ pc[t] = "invokeLater"
    /\ Unlock
    /\ IF application
       THEN queue' = Append(queue, item[t]) /\ AfterRunLater(t) /\ UNCHANGED failed
       ELSE failed' = failed \cup {t} /\ Goto(t, "ready") /\ UNCHANGED queue
    /\ UNCHANGED <<flagVars, pendingRunnables, fxState, item, isEmpty, latch, calls>>

\* runAndWait: "Toolkit has exited", or wait for the latch.
WaitCheck(t) ==
    /\ pc[t] = "waitCheck"
    /\ Goto(t, IF toolkitExit THEN "ready" ELSE "await")
    /\ UNCHANGED <<flagVars, postVars, fxState, item, isEmpty, latch, calls, failed>>

\* doneLatch.await() returns; tkExit goes on to report that the toolkit is gone.
Awaited(t) ==
    /\ pc[t] = "await"
    /\ t \in latch
    /\ latch' = latch \ {t}
    /\ platformExitLatch' = (platformExitLatch \/ item[t].kind = "exit")
    /\ Goto(t, "ready")
    /\ UNCHANGED <<platformVars, listenerVars, implicitExit, postVars, fxState,
                   item, isEmpty, calls, failed>>

RunLaterSteps(t) == WaitForStart(t) \/ CheckExit(t) \/ Defer(t) \/ InvokeLater(t)
                    \/ WaitCheck(t) \/ Awaited(t)

-----------------------------------------------------------------------------
(* The other calls of PlatformImpl, on a thread other than the FX thread *)

Begin(t, c) ==
    /\ pc[t] = "ready"
    /\ c \in Calls
    /\ calls[t] < MaxCalls
    /\ calls' = [calls EXCEPT ![t] = @ + 1]
    /\ UNCHANGED <<fxCalls, events>>

StartupCall(t) ==
    /\ pc[t] = "ready"
    /\ calls[t] < MaxCalls
    /\ ~platformExit
    /\ calls' = [calls EXCEPT ![t] = @ + 1]
    /\ Goto(t, "startup")
    /\ UNCHANGED <<flagVars, postVars, fxState, item, isEmpty, latch, failed>>

\* initialized.getAndSet(true), then Toolkit.startup or runLater.
StartupToolkit(t) ==
    /\ pc[t] = "startup"
    /\ IF initialized
       THEN BeginRunLater(t, App) /\ UNCHANGED <<initialized, application, fx>>
       ELSE /\ initialized' = TRUE
            /\ application' = TRUE
            /\ fx' = At("runToolkit", "none", "none")
            /\ Goto(t, "launchLatch")
            /\ UNCHANGED <<item, pendingRunnables>>
    /\ UNCHANGED <<platformExit, toolkitExit, startupLatch, listenerVars,
                   implicitExit, numWindows, idleFlags, runLaterLock,
                   platformExitLatch, toolkitRunning, fxUserThread, queue,
                   stackVars, isEmpty, latch, calls, fxCalls, events, failed>>

\* The thread that started the toolkit waits until runToolkit() lets it go.
Launched(t) ==
    /\ pc[t] = "launchLatch"
    /\ fx.pc # "runToolkit"
    /\ Goto(t, "ready")
    /\ UNCHANGED <<flagVars, postVars, fxState, item, isEmpty, latch, calls, failed>>

RunLaterCall(t) ==
    /\ Begin(t, "runLater")
    /\ BeginRunLater(t, App)
    /\ UNCHANGED <<flagVars, numWindows, idleFlags, runLaterLock, toolkitVars,
                   queue, fx, stackVars, isEmpty, latch, failed>>

RunAndWaitCall(t) ==
    /\ Begin(t, "runAndWait")
    /\ BeginRunLater(t, Runnable("wait", t))
    /\ UNCHANGED <<flagVars, numWindows, idleFlags, runLaterLock, toolkitVars,
                   queue, fx, stackVars, isEmpty, latch, failed>>

ExitCall(t) ==
    /\ Begin(t, "exit")
    /\ platformExit' = TRUE
    /\ Goto(t, "notify")
    /\ UNCHANGED <<initialized, toolkitExit, startupLatch, listenerVars,
                   implicitExit, postVars, numWindows, idleFlags, platformExitLatch,
                   toolkitVars, fx, stackVars, item, isEmpty, latch, failed>>

\* notifyFinishListeners(true): what a listener does is its own business.
Notify(t) ==
    /\ pc[t] = "notify"
    /\ Goto(t, IF ~listenersRegistered /\ (implicitExit \/ platformExit)
               THEN "tkExit" ELSE "ready")
    /\ UNCHANGED <<flagVars, postVars, fxState, item, isEmpty, latch, calls, failed>>

TkExitCall(t) ==
    /\ Begin(t, "tkExit")
    /\ Goto(t, "tkExit")
    /\ UNCHANGED <<flagVars, postVars, numWindows, idleFlags, toolkitVars, fx,
                   stackVars, item, isEmpty, latch, failed>>

AfterGetAndSet_always == "scheduleExit"
AfterGetAndSet == IF toolkitExit THEN "ready" ELSE "scheduleExit"

TkExit(t) ==
    /\ pc[t] = "tkExit"
    /\ toolkitExit' = TRUE
    /\ Goto(t, AfterGetAndSet)
    /\ UNCHANGED <<initialized, platformExit, startupLatch, listenerVars,
                   implicitExit, postVars, fxState, platformExitLatch, item,
                   isEmpty, latch, calls, failed>>

\* runAndWait(Toolkit.exit, exiting), if there is a toolkit to exit.
ScheduleExit(t) ==
    /\ pc[t] = "scheduleExit"
    /\ IF initialized
       THEN BeginRunLater(t, Runnable("exit", t))
       ELSE Goto(t, "ready") /\ UNCHANGED <<item, pendingRunnables>>
    /\ UNCHANGED <<flagVars, fxState, runLaterLock, queue, isEmpty, latch, calls,
                   failed>>

SetImplicitExitCall(t) ==
    /\ Begin(t, "setImplicitExit")
    /\ implicitExit' = ~implicitExit
    /\ Goto(t, "checkIdle")
    /\ UNCHANGED <<platformVars, listenerVars, postVars, numWindows, idleFlags,
                   platformExitLatch, toolkitVars, fx, stackVars, item, isEmpty,
                   latch, failed>>

\* checkIdle off the FX thread posts an empty runnable, whose end checks again.
CheckIdleElsewhere_skipped(t) ==
    /\ pc[t] = "checkIdle"
    /\ Goto(t, "ready")
    /\ UNCHANGED <<flagVars, postVars, fxState, item, isEmpty, latch, calls, failed>>

CheckIdleElsewhere(t) ==
    /\ pc[t] = "checkIdle"
    /\ IF initialized
       THEN BeginRunLater(t, Dummy)
       ELSE Goto(t, "ready") /\ UNCHANGED <<item, pendingRunnables>>
    /\ UNCHANGED <<flagVars, fxState, runLaterLock, queue, isEmpty, latch, calls,
                   failed>>

\* addListener and removeListener; the listener is named by its thread.
AddListenerCall(t) ==
    /\ Begin(t, "listeners")
    /\ t \notin finishListeners
    /\ listenersRegistered' = TRUE
    /\ Goto(t, "add")
    /\ UNCHANGED <<platformVars, finishListeners, implicitExit, postVars,
                   numWindows, idleFlags, platformExitLatch, toolkitVars, fx,
                   stackVars, item, isEmpty, latch, failed>>

Add(t) ==
    /\ pc[t] = "add"
    /\ finishListeners' = finishListeners \cup {t}
    /\ Goto(t, "ready")
    /\ UNCHANGED <<platformVars, listenersRegistered, implicitExit, postVars,
                   fxState, platformExitLatch, item, isEmpty, latch, calls, failed>>

RemoveListenerCall(t) ==
    /\ Begin(t, "listeners")
    /\ t \in finishListeners
    /\ finishListeners' = finishListeners \ {t}
    /\ Goto(t, "isEmpty")
    /\ UNCHANGED <<platformVars, listenersRegistered, implicitExit, postVars,
                   numWindows, idleFlags, platformExitLatch, toolkitVars, fx,
                   stackVars, item, isEmpty, latch, failed>>

\* listenersRegistered.set(!finishListeners.isEmpty()): a read, then a write.
ReadIsEmpty(t) ==
    /\ pc[t] = "isEmpty"
    /\ isEmpty' = [isEmpty EXCEPT ![t] = finishListeners = {}]
    /\ Goto(t, "setRegistered")
    /\ UNCHANGED <<flagVars, postVars, fxState, item, latch, calls, failed>>

SetRegistered(t) ==
    /\ pc[t] = "setRegistered"
    /\ listenersRegistered' = ~isEmpty[t]
    /\ Goto(t, "removed")
    /\ UNCHANGED <<platformVars, finishListeners, implicitExit, postVars, fxState,
                   platformExitLatch, item, isEmpty, latch, calls, failed>>

Removed(t) ==
    /\ pc[t] = "removed"
    /\ Goto(t, IF listenersRegistered THEN "ready" ELSE "checkIdle")
    /\ UNCHANGED <<flagVars, postVars, fxState, item, isEmpty, latch, calls, failed>>

\* Nobody is forced to call, but a call that was begun goes on.
BeginCall(t) == StartupCall(t) \/ RunLaterCall(t) \/ RunAndWaitCall(t) \/ ExitCall(t)
                \/ TkExitCall(t) \/ SetImplicitExitCall(t) \/ AddListenerCall(t)
                \/ RemoveListenerCall(t)
ContinueCall(t) == StartupToolkit(t) \/ Launched(t) \/ RunLaterSteps(t) \/ Notify(t)
                   \/ TkExit(t) \/ ScheduleExit(t) \/ CheckIdleElsewhere(t) \/ Add(t)
                   \/ ReadIsEmpty(t) \/ SetRegistered(t) \/ Removed(t)

-----------------------------------------------------------------------------
(* The FX application thread *)

\* Where it goes after checkIdle, notifyFinishListeners or tkExit: back to the
\* body of the handler, or out of a deferred runnable.
Resume(c) ==
    IF c = "body" THEN fx' = InBody /\ UNCHANGED handlers
                  ELSE fx' = InLoop /\ handlers' = Pop(handlers)

\* runLater on the FX thread, which is never inside the lock when it calls.
\* Called with p pending runnables.
FxRunLater_decrements(i, p) ==
    /\ runLaterLock = NoThread
    /\ IF toolkitExit
       THEN pendingRunnables' = p - 1 /\ UNCHANGED queue
       ELSE pendingRunnables' = p + 1 /\ queue' = Append(queue, i)

FxRunLater(i, p) ==
    /\ runLaterLock = NoThread
    /\ IF toolkitExit
       THEN pendingRunnables' = p /\ UNCHANGED queue
       ELSE pendingRunnables' = p + 1 /\ queue' = Append(queue, i)

\* The condition inside checkIdle, with n windows showing, p pending runnables
\* and m nested loops running.
IdleNow(n, p, m) ==
    /\ n = 0
    /\ firstWindowShown \/ lastWindowClosed
    /\ p = 0
    /\ toolkitExit \/ m = 0

IdleFlags(n, p, m) ==
    LET idle == IdleNow(n, p, m) IN
    /\ firstWindowShown' = (firstWindowShown \/ n > 0)
    /\ lastWindowClosed' = ( /\ n = 0
                             /\ firstWindowShown \/ lastWindowClosed
                             /\ ~(idle /\ reallyIdle) )
    /\ reallyIdle' = (n = 0 /\ (reallyIdle \/ idle))

\* checkIdle() on the FX thread.  Idle must be seen twice: the first time
\* posts an empty runnable, whose end looks again.  Once Toolkit.exit() is
\* over the thread does not count as the FX thread any more, and the empty
\* runnable it tries to post is dropped.
CheckIdle(n, p, m, c) ==
    LET idle == IdleNow(n, p, m) IN
    IF ~fxUserThread
    THEN /\ Resume(c)
         /\ pendingRunnables' = p
         /\ UNCHANGED <<idleFlags, queue>>
    ELSE /\ IdleFlags(n, p, m)
         /\ IF idle /\ ~reallyIdle
            THEN FxRunLater(Dummy, p)
            ELSE pendingRunnables' = p /\ UNCHANGED queue
         /\ IF idle /\ reallyIdle
            THEN fx' = At("notify", c, "idle") /\ UNCHANGED handlers
            ELSE Resume(c)

\* Application.run, QuantumToolkit.runToolkit and the startup runnable.
RunToolkit ==
    /\ fx.pc = "runToolkit"
    /\ toolkitRunning' = TRUE
    /\ fxUserThread' = TRUE
    /\ startupLatch' = TRUE
    /\ handlers' = <<Startup>>
    /\ fx' = InBody
    /\ UNCHANGED <<initialized, platformExit, toolkitExit, listenerVars,
                   implicitExit, postVars, numWindows, idleFlags, platformExitLatch,
                   application, nested, quit, threadState, latch, fxCalls, events>>

\* A loop runs the next deferred runnable.
RunDeferred ==
    /\ fx = InLoop
    /\ queue # << >>
    /\ handlers' = Append(handlers, Head(queue))
    /\ queue' = Tail(queue)
    /\ fx' = CASE Head(queue).kind = "dummy" -> Finishing
               [] Head(queue).kind = "exit"  -> At("exit", "finish", "call")
               [] OTHER                      -> InBody
    /\ UNCHANGED <<flagVars, pendingRunnables, numWindows, idleFlags, runLaterLock,
                   toolkitVars, nested, quit, threadState, latch, fxCalls, events>>

\* A native event or a pulse, which runLater does not count as pending.
NativeEvent ==
    /\ fx = InLoop
    /\ application
    /\ nested \notin quit
    /\ events < MaxEvents
    /\ events' = events + 1
    /\ handlers' = Append(handlers, Event)
    /\ fx' = InBody
    /\ UNCHANGED <<flagVars, postVars, numWindows, idleFlags, toolkitVars, nested,
                   quit, threadState, latch, fxCalls>>

CountDown_dropped == UNCHANGED latch
CountDown == latch' = IF Top(handlers).kind = "wait"
                      THEN latch \cup {Top(handlers).by} ELSE latch

\* A native loop that was told to quit returns: the event thread ends, or the
\* handler that entered the nested loop goes on.  After Toolkit.exit() there
\* is no event thread to Glass, and enterNestedEventLoop throws instead, which
\* ends the handler; the finally block of a runAndWait counts down as ever.
LoopReturns ==
    /\ fx = InLoop
    /\ nested \in quit
    /\ IF nested = 0
       THEN /\ fx' = At("ended", "none", "none")
            /\ UNCHANGED <<stackVars, pendingRunnables, idleFlags, queue, latch>>
       ELSE /\ nested' = nested - 1
            /\ quit' = quit \ {nested}
            /\ IF application
               THEN /\ UNCHANGED latch
                    /\ IF nested = 1
                       THEN CheckIdle(numWindows, pendingRunnables, 0, "body")
                       ELSE /\ fx' = InBody
                            /\ UNCHANGED <<handlers, pendingRunnables, idleFlags, queue>>
               ELSE /\ fx' = Finishing
                    /\ CountDown
                    /\ UNCHANGED <<handlers, pendingRunnables, idleFlags, queue>>
    /\ UNCHANGED <<flagVars, numWindows, runLaterLock, toolkitVars, threadState,
                   fxCalls, events>>

\* Calls made by the body of a handler.  The startup runnable is the
\* launcher's and calls nothing.
FxBegin(c) ==
    /\ fx = InBody
    /\ Top(handlers) # Startup
    /\ fxUserThread
    /\ c \in Calls
    /\ fxCalls < MaxFxCalls
    /\ fxCalls' = fxCalls + 1
    /\ UNCHANGED <<calls, events>>

\* A window is shown or hidden: TKListener.changedTopLevelWindows.
ChangedTopLevelWindows(n) ==
    /\ FxBegin("windows")
    /\ n \in {numWindows - 1, numWindows + 1}
    /\ numWindows' = n
    /\ CheckIdle(n, pendingRunnables, nested, "body")
    /\ UNCHANGED <<flagVars, runLaterLock, toolkitVars, nested, quit, threadVars,
                   latch, failed>>

FxRunLaterCall ==
    /\ FxBegin("runLater")
    /\ FxRunLater(App, pendingRunnables)
    /\ UNCHANGED <<flagVars, numWindows, idleFlags, runLaterLock, toolkitVars, fx,
                   stackVars, threadVars, latch, failed>>

FxExitCall ==
    /\ FxBegin("exit")
    /\ platformExit' = TRUE
    /\ fx' = At("notify", "body", "call")
    /\ UNCHANGED <<initialized, toolkitExit, startupLatch, listenerVars,
                   implicitExit, postVars, numWindows, idleFlags, platformExitLatch,
                   toolkitVars, stackVars, threadVars, latch, failed>>

FxSetImplicitExitCall ==
    /\ FxBegin("setImplicitExit")
    /\ implicitExit' = ~implicitExit
    /\ CheckIdle(numWindows, pendingRunnables, nested, "body")
    /\ UNCHANGED <<platformVars, listenerVars, numWindows, runLaterLock,
                   platformExitLatch, toolkitVars, nested, quit, threadVars, latch,
                   failed>>

EnterNestedEventLoop ==
    /\ FxBegin("nested")
    /\ application
    /\ nested < MaxNested
    /\ nested' = nested + 1
    /\ fx' = InLoop
    /\ UNCHANGED <<flagVars, postVars, numWindows, idleFlags, toolkitVars, handlers,
                   quit, threadVars, latch, failed>>

ExitNestedEventLoop ==
    /\ FxBegin("nested")
    /\ nested > 0
    /\ quit' = quit \cup {nested}
    /\ UNCHANGED <<flagVars, postVars, numWindows, idleFlags, toolkitVars, fx,
                   handlers, nested, threadVars, latch, failed>>

\* The handler's own code is over; runAndWait's caller may go on.
BodyReturns ==
    /\ fx = InBody
    /\ fx' = Finishing
    /\ CountDown
    /\ UNCHANGED <<flagVars, postVars, numWindows, idleFlags, toolkitVars,
                   stackVars, threadState, fxCalls, events>>

\* The finally block of a deferred runnable; other handlers just return.
Finish ==
    /\ fx = Finishing
    /\ IF Top(handlers) \in Deferred
       THEN CheckIdle(numWindows, pendingRunnables - 1, nested, "pop")
       ELSE /\ Resume("pop")
            /\ UNCHANGED <<pendingRunnables, idleFlags, queue>>
    /\ UNCHANGED <<flagVars, numWindows, runLaterLock, toolkitVars, nested, quit,
                   threadState, latch, fxCalls, events>>

\* notifyFinishListeners on the FX thread.
FxNotify ==
    /\ fx.pc = "notify"
    /\ IF ~listenersRegistered /\ (implicitExit \/ platformExit)
       THEN fx' = [fx EXCEPT !.pc = "tkExit"] /\ UNCHANGED handlers
       ELSE Resume(fx.cont)
    /\ UNCHANGED <<flagVars, postVars, numWindows, idleFlags, toolkitVars, nested,
                   quit, threadState, latch, fxCalls, events>>

\* tkExit on the FX thread runs Toolkit.exit() on the spot.
FxTkExit ==
    /\ fx.pc = "tkExit"
    /\ toolkitExit' = TRUE
    /\ IF toolkitExit
       THEN Resume(fx.cont)
       ELSE fx' = [fx EXCEPT !.pc = "exit"] /\ UNCHANGED handlers
    /\ UNCHANGED <<initialized, platformExit, startupLatch, listenerVars,
                   implicitExit, postVars, numWindows, idleFlags, platformExitLatch,
                   toolkitVars, nested, quit, threadState, latch, fxCalls, events>>

\* QuantumToolkit.exit up to Application.terminate, which closes the windows.
\* toolkitExit is set, so what checkIdle would post or notify has no effect.
CloseWindows ==
    /\ fx.pc = "exit"
    /\ numWindows' = 0
    /\ IF numWindows > 0
       THEN IdleFlags(0, pendingRunnables, nested)
       ELSE UNCHANGED idleFlags
    /\ fx' = [fx EXCEPT !.pc = "finishTerminating"]
    /\ UNCHANGED <<flagVars, postVars, toolkitVars, stackVars, threadState, latch,
                   fxCalls, events>>

\* The innermost native loop is told to quit, then the application is gone.
FinishTerminating ==
    /\ fx.pc = "finishTerminating"
    /\ quit' = quit \cup {nested}
    /\ application' = FALSE
    /\ fx' = [fx EXCEPT !.pc = "dispose"]
    /\ UNCHANGED <<flagVars, postVars, numWindows, idleFlags, toolkitRunning,
                   fxUserThread, handlers, nested, threadState, latch, fxCalls,
                   events>>

Dispose ==
    /\ fx.pc = "dispose"
    /\ toolkitRunning' = FALSE
    /\ fx' = [fx EXCEPT !.pc = "exited"]
    /\ UNCHANGED <<flagVars, postVars, numWindows, idleFlags, fxUserThread,
                   application, stackVars, threadState, latch, fxCalls, events>>

\* Toolkit.exit() is over; the waiting tkExit of another thread goes on, or
\* the tkExit of this one.
Exited ==
    /\ fx.pc = "exited"
    /\ fxUserThread' = FALSE
    /\ IF fx.cont = "finish"
       THEN /\ latch' = latch \cup {Top(handlers).by}
            /\ fx' = Finishing
            /\ UNCHANGED <<handlers, platformExitLatch>>
       ELSE /\ platformExitLatch' = TRUE
            /\ Resume(fx.cont)
            /\ UNCHANGED latch
    /\ UNCHANGED <<platformVars, listenerVars, implicitExit, postVars, numWindows,
                   idleFlags, toolkitRunning, application, nested, quit,
                   threadState, fxCalls, events>>

-----------------------------------------------------------------------------
FxCall == FxRunLaterCall \/ FxExitCall \/ FxSetImplicitExitCall
          \/ EnterNestedEventLoop \/ ExitNestedEventLoop
          \/ \E n \in 0 .. MaxWindows : ChangedTopLevelWindows(n)

\* What the FX thread does by itself, whatever the application wants.
FxContinue == RunToolkit \/ RunDeferred \/ LoopReturns \/ BodyReturns \/ Finish
              \/ FxNotify \/ FxTkExit \/ CloseWindows \/ FinishTerminating
              \/ Dispose \/ Exited

Next == \/ FxCall \/ NativeEvent \/ FxContinue
        \/ \E t \in Threads : BeginCall(t) \/ ContinueCall(t)

Spec == Init /\ [][Next]_vars

\* Every thread is scheduled, and a handler's body returns: it may stay in a
\* nested loop, but it does not compute for ever.
Fairness == WF_vars(FxContinue) /\ \A t \in Threads : WF_vars(ContinueCall(t))

FairSpec == Spec /\ Fairness

-----------------------------------------------------------------------------
(* Properties *)

InTransit == {t \in Threads : pc[t] \in {"waitForStart", "checkExit", "defer", "invokeLater"}}

FlagTypes ==
    /\ initialized \in BOOLEAN /\ platformExit \in BOOLEAN /\ toolkitExit \in BOOLEAN
    /\ startupLatch \in BOOLEAN /\ listenersRegistered \in BOOLEAN
    /\ implicitExit \in BOOLEAN /\ platformExitLatch \in BOOLEAN
    /\ firstWindowShown \in BOOLEAN /\ lastWindowClosed \in BOOLEAN
    /\ reallyIdle \in BOOLEAN /\ toolkitRunning \in BOOLEAN
    /\ fxUserThread \in BOOLEAN /\ application \in BOOLEAN
    /\ finishListeners \subseteq Threads
    /\ runLaterLock \in Threads \cup {NoThread}
    /\ numWindows \in 0 .. MaxWindows

FxPlaces ==
    [pc : {"notStarted", "runToolkit", "loop", "body", "finish", "notify", "tkExit", "exit",
           "finishTerminating", "dispose", "exited", "ended"},
     cont : {"none", "body", "pop", "finish"},
     why : {"none", "idle", "call"}]

FxTypes ==
    /\ queue \in Seq(Deferred)
    /\ handlers \in Seq(Deferred \cup {Event, Startup})
    /\ nested \in 0 .. MaxNested
    /\ quit \subseteq 0 .. nested
    /\ fx \in FxPlaces

ThreadTypes ==
    /\ pc \in [Threads -> {"ready", "startup", "launchLatch", "waitForStart", "checkExit", "defer",
                           "invokeLater", "waitCheck", "await", "notify", "tkExit",
                           "scheduleExit", "checkIdle", "add", "isEmpty", "setRegistered",
                           "removed"}]
    /\ item \in [Threads -> Deferred]
    /\ isEmpty \in [Threads -> BOOLEAN]
    /\ latch \subseteq Threads
    /\ failed \subseteq Threads

TypeOK == FlagTypes /\ FxTypes /\ ThreadTypes /\ pendingRunnables \in Nat

\* pendingRunnables counts what it says until the toolkit exits: the runnables
\* on their way to the queue, those in the queue, and those that run.
Running == Cardinality({i \in 1 .. Len(handlers) : handlers[i] \in Deferred})
           - (IF fx.cont = "pop" THEN 1 ELSE 0)

PendingAccounted ==
    ~toolkitExit => pendingRunnables = Cardinality(InTransit) + Len(queue) + Running

\* The runtime finds itself idle, at the second look, only when nothing that a
\* thread asked it to run remains: no runLater that has begun is on its way,
\* in the queue or running, the runnable aside whose end takes the look.  What
\* was asked for between the two looks is so never cut off by an implicit exit.
FoundIdle == fx'.why = "idle" /\ fx.why # "idle"

NothingPending ==
    /\ InTransit = {}
    /\ queue = << >>
    /\ \A i \in 1 .. Len(handlers) :
          handlers[i] \in Deferred => i = Len(handlers) /\ fx'.cont = "pop"

ImplicitExitDropsNothing == [][FoundIdle => NothingPending]_vars

\* However many threads ask for it, and while the FX thread finds itself idle,
\* Toolkit.exit() is run once: it always finds an Application to terminate.
TerminatesOnce == fx.pc \in {"exit", "finishTerminating"} => application

\* Toolkit.exit(), once begun or scheduled, is run to its end and reported.
ExitBegun == fx.pc = "exit" \/ \E t \in Threads : item[t].kind = "exit"

ExitCompletes == ExitBegun ~> platformExitLatch

\* With implicit exit the runtime shuts down once the last window is gone for
\* good and nobody listens or sits in a nested loop: no idle check is lost.
Deserted == /\ firstWindowShown
            /\ numWindows = 0
            /\ implicitExit
            /\ ~listenersRegistered
            /\ nested = 0

ImplicitExitHappens == <>[]Deserted => <>toolkitExit

\* A thread in runAndWait goes on, unless the toolkit exits or the runnable
\* stays in a nested loop.
RunAndWaitReturns ==
    \A t \in Threads :
        pc[t] = "await" ~>
            \/ pc[t] # "await"
            \/ toolkitExit
            \/ \E i \in 1 .. Len(handlers) : handlers[i] = Runnable("wait", t)

-----------------------------------------------------------------------------
\* What comments of the source say and the code does not always do.

\* "Terminate the JavaFX application thread" (Platform.exit).
ExitEndsFxThread == platformExitLatch ~> fx.pc = "ended"

\* "Calling Platform.runLater *is* thread-safe even when the toolkit is
\* shutting down" (QuantumToolkit.defer): no caller meets a null Application.
RunLaterIsThreadSafe == failed = {}
=============================================================================
