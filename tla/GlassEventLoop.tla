--------------------------- MODULE GlassEventLoop ---------------------------
(***************************************************************************)
(* The Glass event thread, its nested event loops and the dispatcher       *)
(* thread that feeds deferred runnables to the native system one by one.   *)
(*                                                                         *)
(*   com/sun/glass/ui/InvokeLaterDispatcher.java   the dispatcher thread   *)
(*   com/sun/glass/ui/EventLoop.java               loop objects, stack     *)
(*   com/sun/glass/ui/Application.java             nested loop counter     *)
(*   com/sun/glass/ui/gtk/GtkApplication.java      the platform's glue     *)
(*   native-glass/gtk/GlassApplication.cpp         gtk_main, idle sources  *)
(*   com/sun/javafx/tk/quantum/QuantumToolkit.java eventLoopMap            *)
(*                                                                         *)
(* The call stack of the event thread alternates native loops and the      *)
(* handlers that run in them:                                              *)
(*                                                                         *)
(*   main loop, handlers[1], mainLoops[1], handlers[2], mainLoops[2], ...  *)
(*                                                                         *)
(* so a handler is on top when handlers is the longer of the two, and a    *)
(* native loop is on top when they are equally long.  A handler is a       *)
(* runnable of the application, a native event, the body of another        *)
(* thread's invokeAndWait, or the runnable that EventLoop.enter() posts    *)
(* when it returns into a loop that is already LEAVING; that last one is   *)
(* named by the loop that posted it.                                       *)
(***************************************************************************)
EXTENDS Naturals, Sequences

CONSTANTS Runnables,    \* what the application passes to invokeLater
          Loops,        \* EventLoop objects; QuantumToolkit uses each once
          Events,       \* native events that may be delivered
          Callers,      \* threads that call invokeAndWait, once each
          NoLoop        \* null

ASSUME DisjointAssumption ==
    /\ Runnables \cap Loops = {}
    /\ Events \cap (Runnables \cup Loops) = {}
    /\ Callers \cap (Runnables \cup Loops \cup Events) = {}
    /\ NoLoop \notin Loops \cup Runnables

Posted   == Runnables \cup Loops        \* what invokeLater is called with
Futures  == Posted \cup Callers         \* what the native queue holds
Handlers == Futures \cup Events         \* what runs on the event thread

VARIABLES
    \* InvokeLaterDispatcher
    deque,                  \* runnables not yet given to the native system
    nestedEventLoopEntered,
    leavingNestedEventLoop,
    done,                   \* Futures whose done field is set
    pc,                     \* where the dispatcher thread is
    r,                      \* the runnable it holds
    \* EventLoop, Application, GtkApplication, QuantumToolkit
    state,                  \* state of every EventLoop
    stack,                  \* EventLoop.stack, innermost last
    nestedEventLoopCounter,
    eventLoopExitEnterPassValue,
    eventLoopMap,           \* loops that exitNestedEventLoop can still find
    created,                \* loops that have been created
    \* the native system
    idle,                   \* submitted Futures, oldest first
    mainLoops,              \* nested gtk_main calls, innermost last
    quit,                   \* nested gtk_main calls told to quit
    \* the call stack of the event thread, and what it has seen
    handlers,
    delivered,              \* native events delivered so far
    waiting,                \* threads blocked in invokeAndWait
    called,                 \* threads that have called invokeAndWait
    posted,                 \* history: arguments of invokeLater, oldest first
    ran                     \* history: those that have started, oldest first

dispatcherVars == <<deque, nestedEventLoopEntered, leavingNestedEventLoop, pc, r>>
loopVars == <<state, stack, nestedEventLoopCounter,
              eventLoopExitEnterPassValue, eventLoopMap, created>>
nativeVars == <<mainLoops, quit>>
callerVars == <<waiting, called>>
vars == <<dispatcherVars, done, loopVars, nativeVars, idle, handlers,
          delivered, callerVars, posted, ran>>

States == {"IDLE", "ACTIVE", "LEAVING"}

Init ==
    /\ deque = << >>
    /\ nestedEventLoopEntered = FALSE
    /\ leavingNestedEventLoop = FALSE
    /\ done = {}
    /\ pc = "takeFirst"
    /\ r = NoLoop
    /\ state = [l \in Loops |-> "IDLE"]
    /\ stack = << >>
    /\ nestedEventLoopCounter = 0
    /\ eventLoopExitEnterPassValue = NoLoop
    /\ eventLoopMap = {}
    /\ created = {}
    /\ idle = << >>
    /\ mainLoops = << >>
    /\ quit = {}
    /\ handlers = << >>
    /\ delivered = {}
    /\ waiting = {}
    /\ called = {}
    /\ posted = << >>
    /\ ran = << >>

-----------------------------------------------------------------------------
(* Helpers *)

Top(s) == s[Len(s)]
Pop(s) == [i \in 1 .. Len(s) - 1 |-> s[i]]
Elements(s) == {s[i] : i \in 1 .. Len(s)}

\* A handler is running, as opposed to blocked below a native loop.
HandlerOnTop == Len(handlers) > Len(mainLoops)

\* The loop on top of the call stack has been told to quit.
Quitting == mainLoops # << >> /\ Top(mainLoops) \in quit

\* The application code that can enter and leave loops: it runs on the event
\* thread (checkEventThread, checkFxUserThread) and is not blocked in a loop.
AppHandlerOnTop_anyThread == handlers # << >> /\ Top(handlers) \notin Loops
AppHandlerOnTop == HandlerOnTop /\ Top(handlers) \notin Loops

\* The innermost of the loops in s has been asked to leave.
IsLeaving(s) == s # << >> /\ state[Top(s)] = "LEAVING"

(* What the event thread tells the dispatcher.  Definitions whose name has a
   suffix are plausible slips in the definition that follows them; they show
   that the properties below depend on it. *)

NotifyEntering_dropped == UNCHANGED nestedEventLoopEntered
NotifyEnteringNestedEventLoop == nestedEventLoopEntered' = TRUE

NotifyLeavingNestedEventLoop == leavingNestedEventLoop' = TRUE

NotifyLeft_dropped == UNCHANGED leavingNestedEventLoop
NotifyLeftNestedEventLoop == leavingNestedEventLoop' = FALSE

-----------------------------------------------------------------------------
(* The dispatcher thread: InvokeLaterDispatcher.run() *)

TakeFirst ==
    /\ pc = "takeFirst"
    /\ deque # << >>
    /\ r' = Head(deque)
    /\ deque' = Tail(deque)
    /\ pc' = "check"
    /\ UNCHANGED <<nestedEventLoopEntered, leavingNestedEventLoop, done, loopVars,
                   nativeVars, idle, handlers, delivered, callerVars, posted, ran>>

AddFirst_last(t) == Append(deque, t)
AddFirst(t) == <<t>> \o deque

\* While a loop is being left the runnable goes back to the head of the deque.
PutBack ==
    /\ pc = "check"
    /\ leavingNestedEventLoop
    /\ deque' = AddFirst(r)
    /\ r' = NoLoop
    /\ pc' = "waitLeft"
    /\ UNCHANGED <<nestedEventLoopEntered, leavingNestedEventLoop, done, loopVars,
                   nativeVars, idle, handlers, delivered, callerVars, posted, ran>>

\* The volatile read that decides and the submission are two steps.
MayPass ==
    /\ pc = "check"
    /\ ~leavingNestedEventLoop
    /\ pc' = "submit"
    /\ UNCHANGED <<deque, nestedEventLoopEntered, leavingNestedEventLoop, r, done,
                   loopVars, nativeVars, idle, handlers, delivered, callerVars,
                   posted, ran>>

Submit ==
    /\ pc = "submit"
    /\ idle' = Append(idle, r)
    /\ pc' = "await"
    /\ UNCHANGED <<deque, nestedEventLoopEntered, leavingNestedEventLoop, r, done,
                   loopVars, nativeVars, handlers, delivered, callerVars, posted, ran>>

WakeUp_doneOnly == r \in done
WakeUp == r \in done \/ nestedEventLoopEntered

\* LOCK.wait() until the Future is done or a nested loop has been entered.
Awaited ==
    /\ pc = "await"
    /\ WakeUp
    /\ nestedEventLoopEntered' = FALSE
    /\ r' = NoLoop
    /\ pc' = "takeFirst"
    /\ UNCHANGED <<deque, leavingNestedEventLoop, done, loopVars, nativeVars, idle,
                   handlers, delivered, callerVars, posted, ran>>

WaitedLeft ==
    /\ pc = "waitLeft"
    /\ ~leavingNestedEventLoop
    /\ pc' = "takeFirst"
    /\ UNCHANGED <<deque, nestedEventLoopEntered, leavingNestedEventLoop, r, done,
                   loopVars, nativeVars, idle, handlers, delivered, callerVars,
                   posted, ran>>

Dispatcher == TakeFirst \/ PutBack \/ MayPass \/ Submit \/ Awaited \/ WaitedLeft

-----------------------------------------------------------------------------
(* Calls of other threads *)

\* Application.invokeLater, from any thread.
InvokeLater(t) ==
    /\ t \in Runnables \ Elements(posted)
    /\ deque' = Append(deque, t)
    /\ posted' = Append(posted, t)
    /\ UNCHANGED <<nestedEventLoopEntered, leavingNestedEventLoop, pc, r, done,
                   loopVars, nativeVars, idle, handlers, delivered, callerVars, ran>>

\* Application.invokeAndWait, from a thread that is not the event thread: the
\* Future goes to the native system without passing through the deque.
InvokeAndWait(c) ==
    /\ c \notin called
    /\ called' = called \cup {c}
    /\ waiting' = waiting \cup {c}
    /\ idle' = Append(idle, c)
    /\ UNCHANGED <<dispatcherVars, done, loopVars, nativeVars, handlers, delivered,
                   posted, ran>>

InvokeAndWaitReturns(c) ==
    /\ c \in waiting
    /\ c \in done
    /\ waiting' = waiting \ {c}
    /\ UNCHANGED <<dispatcherVars, done, loopVars, nativeVars, idle, handlers,
                   delivered, called, posted, ran>>

-----------------------------------------------------------------------------
(* The event thread in a native loop *)

\* The native loop runs the oldest submitted Future.  It may do so even after
\* it was told to quit, and return only when it gets to look at its flag.
RunIdle ==
    /\ ~HandlerOnTop
    /\ idle # << >>
    /\ handlers' = Append(handlers, Head(idle))
    /\ idle' = Tail(idle)
    /\ ran' = IF Head(idle) \in Posted THEN Append(ran, Head(idle)) ELSE ran
    /\ UNCHANGED <<dispatcherVars, done, loopVars, nativeVars, delivered, callerVars,
                   posted>>

\* A native event reaches the application.
NativeEvent(e) ==
    /\ ~HandlerOnTop
    /\ ~Quitting
    /\ e \notin delivered
    /\ delivered' = delivered \cup {e}
    /\ handlers' = Append(handlers, e)
    /\ UNCHANGED <<dispatcherVars, done, loopVars, nativeVars, idle, callerVars,
                   posted, ran>>

\* The end of EventLoop.enter(), after the pop: a loop that was asked to leave
\* while it was not innermost is told so again, by a runnable named l.
LeaveNextLoop_forgotten(l) == UNCHANGED <<deque, posted>>
LeaveNextLoop(l) ==
    IF IsLeaving(stack')
    THEN deque' = Append(deque, l) /\ posted' = Append(posted, l)
    ELSE UNCHANGED <<deque, posted>>

\* gtk_main returns, and with it GtkApplication._enterNestedEventLoop,
\* Application.enterNestedEventLoop and EventLoop.enter.
ReturnFromLoop(l) ==
    /\ ~HandlerOnTop
    /\ Quitting
    /\ l = Top(mainLoops)
    /\ mainLoops' = Pop(mainLoops)
    /\ quit' = quit \ {l}
    /\ eventLoopExitEnterPassValue' = NoLoop
    /\ NotifyLeftNestedEventLoop
    /\ nestedEventLoopCounter' = nestedEventLoopCounter - 1
    /\ state' = [state EXCEPT ![l] = "IDLE"]
    /\ stack' = Pop(stack)
    /\ LeaveNextLoop(l)
    /\ UNCHANGED <<nestedEventLoopEntered, pc, r, done, eventLoopMap, created, idle,
                   handlers, delivered, callerVars, ran>>

-----------------------------------------------------------------------------
(* The event thread in a handler *)

\* Application.leaveNestedEventLoop(l) and GtkApplication._leaveNestedEventLoop:
\* gtk_main_quit tells the innermost native loop to quit, whichever it is.
LeaveNestedEventLoop(l) ==
    /\ nestedEventLoopCounter > 0
    /\ NotifyLeavingNestedEventLoop
    /\ eventLoopExitEnterPassValue' = l
    /\ quit' = quit \cup {Top(mainLoops)}

NoLeave == UNCHANGED <<leavingNestedEventLoop, eventLoopExitEnterPassValue, quit>>

\* QuantumToolkit.enterNestedEventLoop down to gtk_main.
EnterNestedEventLoop(l) ==
    /\ AppHandlerOnTop
    /\ l \notin created
    /\ created' = created \cup {l}
    /\ eventLoopMap' = eventLoopMap \cup {l}
    /\ state' = [state EXCEPT ![l] = "ACTIVE"]
    /\ stack' = Append(stack, l)
    /\ nestedEventLoopCounter' = nestedEventLoopCounter + 1
    /\ NotifyEnteringNestedEventLoop
    /\ mainLoops' = Append(mainLoops, l)
    /\ UNCHANGED <<deque, leavingNestedEventLoop, pc, r, done,
                   eventLoopExitEnterPassValue, quit, idle, handlers, delivered,
                   callerVars, posted, ran>>

RemoveKey_kept(l) == UNCHANGED eventLoopMap
RemoveKey(l) == eventLoopMap' = eventLoopMap \ {l}

\* QuantumToolkit.exitNestedEventLoop and EventLoop.leave.
ExitNestedEventLoop(l) ==
    /\ AppHandlerOnTop
    /\ l \in eventLoopMap
    /\ RemoveKey(l)
    /\ state[l] = "ACTIVE"
    /\ state' = [state EXCEPT ![l] = "LEAVING"]
    /\ IF Top(stack) = l THEN LeaveNestedEventLoop(l) ELSE NoLeave
    /\ UNCHANGED <<deque, nestedEventLoopEntered, pc, r, done, stack,
                   nestedEventLoopCounter, created, mainLoops, idle, handlers,
                   delivered, callerVars, posted, ran>>

\* Future.run() sets done in a finally block; a native event has no Future.
HandlerReturns_notDone == handlers' = Pop(handlers) /\ UNCHANGED done
HandlerReturns ==
    /\ handlers' = Pop(handlers)
    /\ done' = IF Top(handlers) \in Futures THEN done \cup {Top(handlers)} ELSE done

AppHandlerReturns ==
    /\ AppHandlerOnTop
    /\ HandlerReturns
    /\ UNCHANGED <<dispatcherVars, loopVars, nativeVars, idle, delivered, callerVars,
                   posted, ran>>

\* The runnable that EventLoop.enter() posted looks at the stack again: another
\* loop may have been entered in the meantime.
StillLeaving_unchecked == stack # << >>
StillLeaving == IsLeaving(stack)

LeaveOuterLoop ==
    /\ HandlerOnTop
    /\ Top(handlers) \in Loops
    /\ IF StillLeaving
       THEN LeaveNestedEventLoop(Top(stack))
       ELSE NoLeave
    /\ HandlerReturns
    /\ UNCHANGED <<deque, nestedEventLoopEntered, pc, r, state, stack,
                   nestedEventLoopCounter, eventLoopMap, created, mainLoops, idle,
                   delivered, callerVars, posted, ran>>

-----------------------------------------------------------------------------
EventThread ==
    \/ RunIdle
    \/ \E e \in Events : NativeEvent(e)
    \/ \E l \in Loops : ReturnFromLoop(l) \/ EnterNestedEventLoop(l)
                        \/ ExitNestedEventLoop(l)
    \/ AppHandlerReturns
    \/ LeaveOuterLoop

OtherThreads ==
    \/ \E t \in Runnables : InvokeLater(t)
    \/ \E c \in Callers : InvokeAndWait(c) \/ InvokeAndWaitReturns(c)

Next == Dispatcher \/ EventThread \/ OtherThreads

Spec == Init /\ [][Next]_vars

(***************************************************************************)
(* The dispatcher thread runs whenever it is not waiting.  The event       *)
(* thread serves its loop: an idle source that is ready is run, a native   *)
(* loop that was told to quit returns, and handlers do not block for ever  *)
(* other than in a nested loop.  Nobody is forced to post, to deliver an   *)
(* event, to enter a loop or to leave one.                                 *)
(***************************************************************************)
Fairness ==
    /\ WF_vars(Dispatcher)
    /\ WF_vars(RunIdle)
    /\ WF_vars(\E l \in Loops : ReturnFromLoop(l))
    /\ WF_vars(AppHandlerReturns)
    /\ WF_vars(LeaveOuterLoop)
    /\ \A c \in Callers : WF_vars(InvokeAndWaitReturns(c))

FairSpec == Spec /\ Fairness

-----------------------------------------------------------------------------
(* Properties *)

TypeOK ==
    /\ deque \in Seq(Posted)
    /\ nestedEventLoopEntered \in BOOLEAN
    /\ leavingNestedEventLoop \in BOOLEAN
    /\ done \subseteq Futures
    /\ pc \in {"takeFirst", "check", "submit", "await", "waitLeft"}
    /\ IF pc \in {"takeFirst", "waitLeft"} THEN r = NoLoop ELSE r \in Posted
    /\ state \in [Loops -> States]
    /\ stack \in Seq(Loops)
    /\ nestedEventLoopCounter \in Nat
    /\ eventLoopExitEnterPassValue \in Loops \cup {NoLoop}
    /\ eventLoopMap \subseteq Loops
    /\ created \subseteq Loops
    /\ idle \in Seq(Futures)
    /\ mainLoops \in Seq(Loops)
    /\ quit \subseteq Loops
    /\ handlers \in Seq(Handlers)
    /\ Len(handlers) \in {Len(mainLoops), Len(mainLoops) + 1}
    /\ delivered \subseteq Events
    /\ waiting \subseteq called
    /\ called \subseteq Callers
    /\ posted \in Seq(Posted)
    /\ ran \in Seq(Posted)

\* EventLoop.leave() and Application.leaveNestedEventLoop() never throw their
\* IllegalStateException when called through QuantumToolkit: the map holds
\* exactly the ACTIVE loops, the loops on EventLoop.stack are exactly those
\* that are not IDLE, and the counter is the depth of the stack.
LeaveNeverThrows ==
    /\ eventLoopMap = {l \in Loops : state[l] = "ACTIVE"}
    /\ Elements(stack) = {l \in Loops : state[l] # "IDLE"}
    /\ nestedEventLoopCounter = Len(stack)

\* Two of the three assertions after Application.enterNestedEventLoop() in
\* EventLoop.enter(): a native loop that returns belongs to the loop on top of
\* EventLoop.stack, and somebody asked that loop to leave.
EnterAssertions ==
    ~HandlerOnTop /\ Quitting =>
        /\ stack # << >>
        /\ Top(stack) = Top(mainLoops)
        /\ state[Top(stack)] = "LEAVING"

\* The dispatcher does not sleep on a runnable that cannot finish: if the
\* runnable it waits for is blocked in a nested loop, then it has been told
\* that a nested loop was entered and serves that loop.
Blocked(h) == \E i \in 1 .. Len(mainLoops) : i <= Len(handlers) /\ handlers[i] = h

DispatcherServesInnerLoops ==
    pc = "await" /\ Blocked(r) => nestedEventLoopEntered

\* The dispatcher holds runnables back only as long as some native loop has
\* still to return: leavingNestedEventLoop never outlives the loops being left.
HeldBackForALoop == leavingNestedEventLoop => \E l \in quit : l \in Elements(mainLoops)

\* A loop that was asked to leave while it was not innermost is not forgotten:
\* once it is innermost, either the native loop has been told to quit or the
\* runnable that will tell it is on its way to the event thread.
LeaveIsPending(l) ==
    \/ l \in Elements(deque) \cup Elements(idle)
    \/ r = l /\ pc \in {"check", "submit"}
    \/ HandlerOnTop /\ Top(handlers) = l

LeavingLoopNotForgotten ==
    IsLeaving(stack) =>
        Top(stack) \in quit \/ \E l \in Loops : LeaveIsPending(l)

\* The promise of Application.invokeLater: posted runnables start exactly once
\* and in the order of the calls, whatever is put back and whichever loop
\* they run in; and what has not started is still somewhere on its way.
Unstarted == SubSeq(posted, Len(ran) + 1, Len(posted))

Queue == INSTANCE InvokeLaterQueue WITH Tasks <- Posted, queue <- Unstarted, ran <- ran

OnItsWay(t) == \/ t \in Elements(deque) \cup Elements(idle)
               \/ r = t /\ pc \in {"check", "submit"}

InvokeLaterInOrder ==
    Queue!Spec /\ [](\A i \in 1 .. Len(Unstarted) : OnItsWay(Unstarted[i]))

\* A loop that was asked to leave returns, unless the application keeps
\* another loop running inside it.
ActiveAbove(l) ==
    \E i, j \in 1 .. Len(stack) : i < j /\ stack[i] = l /\ state[stack[j]] = "ACTIVE"

LeavingLoopReturns ==
    \A l \in Loops : state[l] = "LEAVING" ~> (state[l] = "IDLE" \/ ActiveAbove(l))

\* A runnable given to invokeLater runs.  The exception is an innermost loop
\* that was entered after an outer one had been told to quit.
Overtaken == leavingNestedEventLoop /\ ~Quitting

RunnablesRunUnlessOvertaken ==
    \A t \in Runnables : t \in Elements(posted) ~> (t \in Elements(ran) \/ Overtaken)

\* A thread blocked in invokeAndWait goes on, unless its own runnable stays in
\* a nested loop.
InvokeAndWaitReturnsUnlessNested ==
    \A c \in Callers : c \in waiting ~> (c \notin waiting \/ Blocked(c))

-----------------------------------------------------------------------------
\* What comments of the source say and the code does not always do.

\* "Schedule the given runnable to run on the native event loop thread some
\* time in the future" (Application.invokeLater).
RunnablesRun ==
    \A t \in Runnables : t \in Elements(posted) ~> t \in Elements(ran)

\* "A runnable that calls the Application.leaveNestedEventLoop() method must
\* be the last runnable executed in the current inner event loop"
\* (InvokeLaterDispatcher).
LastRunnableOfInnerLoop == [][ran' # ran => ~Quitting]_vars
=============================================================================
