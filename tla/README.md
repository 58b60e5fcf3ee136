# OpenJFX 8: threads of the JavaFX runtime, in TLA+

This directory holds TLA+ models of the parts of OpenJFX in which threads meet:
the event loop, the life cycle of the platform, the pulse and render
pipeline, and the native media stack, from the element that reads a connection
through the two buffer elements to the player. TLC checks them on small
instances; TLAPS proves the safety properties of all of them, and that the
event loop implements the queue it promises, for every instance. `PROJECT.json` lists
the runs, the source lines behind every definition, the hazards and the findings.

Paths below are relative to `src/modules/graphics/src/main/java/`, unless they
start with `modules/`; those of the media stack to
`src/modules/media/src/main/native/`.

## The system

OpenJFX is a GUI toolkit. Its layers, from below: Prism and Decora (painting),
Glass (native windows and events), Quantum (the toolkit that joins them), the
scene graph with CSS and layout, properties and collections (`modules/base`),
and on top controls, FXML, media and the web view. Three threads carry it:

* the **FX application thread**, which runs the native event loop, all
  application handlers, pulses, and nested event loops (modal dialogs, drag and
  drop);
* the **render thread** (`QuantumRenderer`), which paints one job at a time;
* on GTK the **InvokeLaterDispatcher** thread, which feeds deferred runnables to
  the native queue one by one;

and beside them any application thread, which may call `Platform.runLater`,
`Platform.exit` and the like at any time, and the pulse timer.

Playing media adds threads of its own, all native: the streaming thread of the
source element (`javasource`), the streaming thread of the buffer element
behind it (`progressbuffer`, or `hlsprogressbuffer` for HTTP live streaming),
the thread of the GLib main loop that handles the messages of the pipeline's bus, and the
thread from which the application plays, pauses, seeks and disposes.

### Inventory

| Component | State | Operations | What makes it correct |
|---|---|---|---|
| Glass event loop (`com/sun/glass/ui/`) | deque, `nestedEventLoopEntered`, `leavingNestedEventLoop`; `EventLoop.stack` and states; the loop counter; native queue | `invokeLater`, `invokeAndWait`, enter and leave nested loops | runnables start once and in order; loops left in any order return; the dispatcher does not sleep on a blocked runnable |
| Platform lifecycle (`com/sun/javafx/application/PlatformImpl.java`) | `initialized`, `platformExit`, `toolkitExit`, `pendingRunnables`, window count, idle flags, finish listeners | `startup`, `runLater`, `runAndWait`, `setImplicitExit`, listeners, `exit`, `tkExit`, `checkIdle` | the toolkit is terminated once; the runtime ends when deserted and not before; waiting callers are released |
| Pulse and render pipeline (`com/sun/javafx/tk/quantum/`) | pulse flags, dirty scenes, completion latch, painting flags, render lock, job queue | post a pulse, pulse, synchronize, renderAll, repaint, paint, done, exit | one pulse at a time; a change reaches the screen; nobody waits for a frame that cannot finish |
| Source element (`gstreamer/plugins/javasource/javasource.c`) | `srcresult`, `pending_event`, `position`, `update`; the state of its task | one iteration of the loop, seek, start and stop | every block is pushed once, at its offset; a seek that fails changes nothing |
| Progressive buffer (`gstreamer/plugins/progressbuffer/progressbuffer.c`, `posix/filecache.c`) | cache file with read and write position, `cache_read_offset`, `sink_segment`, `pending_src_event`, `srcresult`, EOS flags, `instant_seek` | chain, serialized events, loop of the reader, seek, stop | the elements behind get the stream in order, then EOS; nobody sleeps with work to do; a seek ends |
| HLS buffer (`gstreamer/plugins/progressbuffer/hlsprogressbuffer.c`) | ring of caches, `cache_write_ready`, read and write index, `srcresult`, `is_eos`, `is_flushing` | segment, chain, EOS, loop of the reader, flush start and stop, stop | no cache is overwritten unread; all segments are played, then EOS; seeks end |
| Native media player (`jfxmedia/platform/gstreamer/GstAudioPlaybackPipeline.cpp`) | player state and pending state, stall flag, rate, buffer flags; the content shared with the bus callback | play, pause, stop, finish, seek, rate, dispose; messages of the bus | the state follows what was asked for; a stall ends; nothing is freed twice or in use |
| Launcher and preloader (`LauncherImpl`) | latches and flags of launcher thread | init, start, stop, preloader notifications | stop follows start, errors end the launch; *planned* |
| Task, Service (`javafx/concurrent`) | state, run flag, pending update | call, cancel, restart, update | terminal states are final, cancel wins or loses cleanly; *planned* |
| Bindings, collections, event dispatch (`modules/base`) | listener arrays, change builder | add and remove during notification, nested changes | a report describes the difference; no listener is skipped; *planned* |
| Layout (`Parent`) | layout flags per node | requestLayout, layout | a dirty node is reached from the root; *planned* |
| Animation timing | receivers, tick arithmetic | add and remove during a pulse | no receiver is skipped; *planned* |
| Prism resource pool | used, managed resources | prepare, record, free, age | the limit is kept; *planned* |
| CSS, controls, FXML, the Java side of media, web, Swing/SWT, packager, other ports | | | not modelled, see "Not modelled" |

Components meet as follows. `PlatformImpl.runLater` and the pulse timer post
through `Application.invokeLater`, hence through the dispatcher. A pulse copies
the scenes to the render graph under the render lock and hands jobs to the
render thread; this thread answers by counting down a latch, by posting pulses
(vsync hint) and by `Platform.runLater` (repaint again). `Toolkit.exit` waits
for the latch, takes the render lock and quits the native loop. In the media stack the source
pushes blocks and events into the buffer and learns from the result of the
push whether to go on; a seek travels the other way, through the buffer
to the source, and is answered by flush events. Buffer and pipeline post
messages on the bus; the player answers them by changing the state of the pipeline.

The hard behaviours are interleavings of these threads, state that is checked
by one thread and changed by another, nested loops left in another order than
they were entered, and exit at an inconvenient moment; in the media stack
flushes that overtake the data they are to discard, connections that are cut off, servers that
cannot seek, and messages that report a state which has passed. Crash recovery
and message loss do not occur: nothing is persisted, and threads share memory.

## Modules

### `GlassEventLoop` (with `InvokeLaterQueue`, `MCGlassEventLoop`)

The state has the names of the fields of `InvokeLaterDispatcher`, `EventLoop`,
`Application`, `GtkApplication` and `QuantumToolkit`. The call stack of the
event thread is the pair `handlers`, `mainLoops`, which alternate. `idle` is the
native queue and `quit` the `gtk_main` calls that were told to quit; GTK itself is
external and taken from how `GlassApplication.cpp` uses it: idle sources run in
the order of submission, `gtk_main_quit` reaches the innermost `gtk_main`, which may run
some more sources before it returns. The dispatcher's `run()` is
six actions, one per access to shared state: `TakeFirst`, `MayPass` or
`PutBack` (the unlocked read of the flag), `Submit`, `Awaited`, `WaitedLeft`.
`EnterNestedEventLoop` is the whole way from `QuantumToolkit` to
`gtk_main`, `ReturnFromLoop` the whole way back, the finally block of
`EventLoop.enter()` included; `LeaveOuterLoop` is the runnable that it posts.

`InvokeLaterQueue` is the abstract specification: a FIFO queue. The property
`InvokeLaterInOrder` is the refinement. The abstract queue is mapped, by the history variables
`posted` and `ran`, to what was posted and has not started; the property also says that each of
these runnables is on its way, that is in the native queue, in the dispatcher's hand or in the deque.

### `PlatformLifecycle` (with `MCPlatformLifecycle`)

The static fields of `PlatformImpl`, the Toolkit and Glass flags it depends on,
and one program counter per thread. Calls of other threads take one step per
access to state that somebody else may change: `runLater` is `BeginRunLater`,
`WaitForStart`, `CheckExit`, `Defer`, `InvokeLater`. On the FX thread `CheckIdle` is
one step (it is in a synchronized block and all it reads of other threads is the
counter), followed by `FxNotify`, `FxTkExit`, `CloseWindows`,
`FinishTerminating`, `Dispose`, `Exited`. Glass is taken by its contract,
`InvokeLaterQueue`. When a nested loop returns after exit, `enterNestedEventLoop` throws into the
handler, whose finally block still releases a thread in `runAndWait` (`LoopReturns`). A finish listener does as it likes, so it is left out: where listeners are
registered, `Notify` does nothing more. Interruption of waiting threads and the
merged Swing event thread are left out.

### `RenderPipeline` (with `MCRenderPipeline`)

The pulse flags of `QuantumToolkit`, `PaintCollector`'s dirty scenes and latch,
per scene the flags of `GlassScene` and of its painter, and the two ghosts
`unpainted` (something was copied to the render graph and no painter has run for it since) and
`exposed` (a repaint of everything is due, be it because the window system asked or because a
paint failed). A pulse is `PulseBegins`, a
`ScenePulse` per scene, `RenderAll`, a `Repaint` per scene and `PulseEnds`. A
paint job is `TakeJob`, `Lock`, `RenderEverything`, `DoPaint`, `SetPainting`,
`Unlock`, `Done`, `NotifyRenderingFinished`, `CountDown`, with the failures
`DeviceNotReady` and `PresentFails`. The render lock is
implicit: the painter holds it from `Lock` to `Unlock`, and the steps of the FX
thread that need it are guarded by `LockFree`.
Two merges are harmless. `CountDown` reads the field `allWorkCompletedLatch` and counts down in one step
(`PaintCollector.java` 311): a job that is between the two has cleared its painting flag before, so a latch created
there has another job for that scene and does not need this one. `RenderAll` computes `needsHint` at once, where the code clears it first and
sets it later (365, 428): a render thread that looks in between posts no vsync hint, and the pulse timer posts the pulse.
Drawing is abstracted to which flags it reads and clears; occlusion culling that finds nothing
to draw, views of size zero, and minimized windows are left out, and so are
re-attaching a scene, `stageVisible` (it marks a scene dirty as an expose does), `liveRepaintRenderJob`, `UploadingPainter`,
platforms without window manager and the benchmarking switches. Constant
`Features` selects what may happen in a run.

### `JavaSource`

The source element, used by both buffers. One iteration of `java_source_loop`
is `SourceBegin` (what to push, from the pending event and from what the
connection answers), the delivery, which is an action of the buffer that the block
or event reaches, and `SourceEnd`. `SourcePushed` is the code
behind the push, the jump to the EOS event included. `SourceSeekBegins` and
`SourceSeeks` are `java_source_perform_seek` before and from the stream
lock on, which the task holds during an iteration (`SourceLockFree`).

### `ProgressBuffer` (with `MCProgressBuffer`)

A stream of `Size` blocks, the cache file with a block for a byte, and the
fields of the element. Source and reader access the fields under one mutex, so each
critical section is an action: `Chain`, `SinkSegment`, `SinkEos` and the refusals for the
source's thread; `ReaderWaits`, `ReaderTakesEvent`, `ReaderReads`,
`ReaderPushes`, `ReaderStores` and so on for `progress_buffer_loop`;
`SeekBegins` to `SeekFinishes` for `progress_buffer_perform_push_seek`;
`StopBegins` and `StopEnds`. The second half of a seek (`progressbuffer.c` 746-762) runs
without the mutex, and each of its accesses is a step of its own: `instant_seek` is read again, and if a segment
event of the source has set it meanwhile the seek is over without having gone anywhere (`SeekIsOvertaken`); otherwise it
goes upstream (`SeekGoesUpstream`), the source answers and runs again (`SeekReturnsFromSource`), and after
a failure the read position is set (`SeekFallsBack`) and the segment queued (`SeekAnnounces`) while the source
may already be writing. Two calls of `progress_buffer_set_pending_event` at the very same time, which
could release one event twice, are beyond this granularity. A condition signal wakes a waiting reader and is lost
otherwise; no wakeup is spurious. The cache file grows with what is written (`NewFile`, `Write`) and
keeps old blocks behind the write position after a rewind, as a file does. The elements behind are
`down`: the offset they expect and whether they got EOS. A buffer in `out` carries, as history,
whether its blocks were `intact`, those of its offset. A seek beyond what has
arrived may or may not be instant, since that depends on the measured bandwidth. `Features`
allows connections that end early or fail (`truncate`), elements behind that
have had enough or fail (`reject`), a stop, and servers without ranges (`noRange`).

`races` is a history variable. It names the interleavings after which a property below no
longer holds: `eventDropped` (sink EOS discards a pending event),
`flushOverwritten` (the reader stores OK over the FLUSHING of a seek),
`itemDropped` (a block or segment did not reach the buffer, and the source has
gone on) and `seekLost` (a failed seek announces a place at which the cache is not, because it
is before the cached range or because the source replaced the cache meanwhile).

### `HLSProgressBuffer` (with `MCHLSProgressBuffer`)

`Segments` media segments of `Blocks` blocks through a ring of `NumCached` files.
The handler of a segment event gives the lock up several times: it is
`SinkSegment`, `SegmentRestarts` (the accesses without lock), `SegmentAdvances`,
`SegmentWaits` (the FULL message, and the wait that does not look again) and
`SegmentWakes`. `LoadNextSegment` is what Java answers to the question for the size of the next segment, and
`SourceSized` what the source makes of it. -1 is the end of the playlist, a file that cannot be opened (which the playlist
has passed over then), or one of unknown length; each makes the source send EOS, so that a segment that cannot be loaded
ends the media with the rest of the playlist unplayed. `NoEarlyEos` says this: EOS is behind all that was loaded, and
short of the end of the playlist only in that case. (A file of unknown length behind a discontinuity answers 1
instead; it is not modelled.) An empty segment is reported and takes no cache (`SegmentRestarts`). A seek is `SeekBegins`
(FLUSH_START passes), `SeekFlushes`, `SeekPauses`, `SeekFinishes`. The
races here are `flushMissed` and `wakeupLost` (a flush, or the last free
cache, while the FULL message is sent), `staleAdvance` (a flush between the critical
sections of the handler), `truncated` (a segment is cut off), `emptied` (a segment was empty,
so that the blocks are not consecutive), `eosRepeated` (a seek to the end after the end). A seek
always succeeds: Java answers -1 (`HLSConnectionHolder.java` 850) only for a time behind the last segment, and
the player clamps the time to the duration.

### `PlaybackPipeline` (with `MCPlaybackPipeline`)

The player's fields, the state of the GStreamer pipeline (external: what it has, what it was
asked for, whether the change is under way), the bus as a queue of messages,
and what the buffer last reported. `todo[t]` is what a thread has still to do in
its call: a piece is one critical section of `m_StateLock` or one call that changes the
pipeline, so `Pause` is `pause`, `pausing`, `internalPause`, `setPaused` and on failure
`undo`. `BusCallback` handles one message, with `UpdatePlayerState` for
changes of state. Of the errors, those of `HandleMediaError` are passed on to Java and change nothing here: a failed read,
the error that follows it (`m_bIgnoreError` decides only whether Java hears of that one too), data that cannot be
decoded, a missing codec. `HandleError` is the rest, which tears the pipeline down. What the callback calls goes on `todo["main"]`, and it holds `m_DisposeLock` until
`BusCallbackReturns`. Disposal is `DisposeBegins` to `DisposeFrees`, the
destructor `PipelineDeleted`; `MainReleases` and `MainFrees` are the main loop
dropping its reference to the watch. The buffers are taken by what they report
(`BufferRunsDry`, `BufferFills`, `BufferDrains`, `BufferEnds`), so this module
composes with the other two through the bus only. After `ConnectionLost` the source pauses its task and the
buffer has nothing to report any more, until a seek opens the stream again; a media segment of HLS that
cannot be loaded looks like `BufferEnds` here. One thread of the application makes the calls, one at a time: calls of the
native player from several Java threads are not modelled. `dispose` may come at any time, before Ready too.

## Runs

All runs switch the deadlock check off: a system in which nobody calls is idle, and a
state without steps is a finished run of the bounded environment.

| Run | Instance | Shows |
|---|---|---|
| `glass_event_loop` | 2 runnables, 3 loops, 1 event, 1 invokeAndWait; 217 000 states | loop bookkeeping (`LeaveNeverThrows`, `EnterAssertions`), dispatcher (`DispatcherServesInnerLoops`, `HeldBackForALoop`, `LeavingLoopNotForgotten`), order (`InvokeLaterInOrder`), liveness (`LeavingLoopReturns`, `RunnablesRunUnlessOvertaken`, `InvokeAndWaitReturnsUnlessNested`) |
| `platform_safety` | 2 threads, 2 calls each and 2 on the FX thread; 1.9 million states | `PendingAccounted`, `TerminatesOnce` |
| `platform_liveness` | 1 thread, 3 calls, every kind of call; 309 000 states | `ImplicitExitDropsNothing` (nothing that was posted between the two looks of idle detection is cut off), `ExitCompletes`, `ImplicitExitHappens`, `RunAndWaitReturns` |
| `render_safety` | 2 scenes, no failures; 1.1 million states | `OnePulse`, `LatchCanReachZero`, `PaintingMeansJob`, `NoFrameLost` |
| `render_liveness` | 1 scene, every feature, 1 failure; 186 000 states | `ChangesAreSynchronized`, `FramesArePainted`, `ExitGetsThrough` |
| `progress_buffer` | 3 blocks, reads of 2, a message every 2nd block, 2 seeks, every feature; 277 000 states | `CacheHoldsStream` (the file), `NoLostWakeup`, `InOrder`, `NoEarlyEos`, `SeekEnds`, `EndOfStream` |
| `hls_buffer` | 3 segments of 2 blocks, ring of 2, 1 seek, every feature; 573 000 states | `RingInStep` (who owns which cache), `InOrder`, `NoEarlyEos`, `SeekEnds`, `StreamEnds` |
| `player` | every request, 2 calls, 1 stall, every fault, progressive and HLS; 521 000 states | `ContentLifetime`, `StallIsOvercome` |

Bounds. Three loops are the fewest in which a loop is left from the
middle of the stack while a third is entered before the posted leave runs; two runnables are
the fewest that can be swapped. Two threads and the FX thread are
the pairs that race in `PlatformImpl`; a third caller meets the same atomic flags. Two scenes are
needed for a latch above one and for a scene that changes another. With one scene
the frames of one scene still overlap, which is what the liveness
properties are about. Three blocks make a read of two leave one over, a position message
both due and not due, and a seek forward, backward and beyond the data; a second seek meets
what the first one left behind. (Three seeks matter as well: only then is
the file rewound below blocks of an earlier download. The proof below found that; earlier forms of
`TypeOK` and `InOrder` were wrong there, and were restated. They are proved for any number.) Three segments do not fit a ring of two, so the source waits
for a cache; with four segments and a ring of three the invariants hold as well (2.1 million states, by hand).
Two calls are the fewest that can contradict each other; with three calls
`ContentLifetime` and `TypeOK` were checked by hand (5.8 million states); `StallIsOvercome` is checked with two. `MaxBus` bounds what buffer and failing elements add to the bus, not the reports
of changes of state.

### Disagreements between comments and code

Four runs state what a comment says and end with a counterexample:

* `platform_runlater`: `runLater` racing exit can meet a null Application.
* `progress_eos`: the reader queues EOS behind the last block; the EOS event of the source,
  handled while the reader pushes that block, discards it. The end of the media
  is not reported.
* `progress_seek`: a seek that the server cannot serve flushes the block that is
  being pushed. The source counts it as delivered, and the cache holds
  the rest of the stream at wrong offsets.
* `player_pause`: `Pause` looks at the player's state, which lags behind the
  pipeline. Play and pause in quick succession leave the player playing.

Six more configurations are kept for statements that were refuted earlier; they are
not among the runs of `PROJECT.json`, and each ends with a counterexample when TLC is
called with it (`tlc -config render_exit.cfg MCRenderPipeline`):

* `glass_last_runnable` (`LastRunnableOfInnerLoop`): the runnable that leaves a loop is not always
  the last one run in it. `nestedEventLoopEntered` is set by a loop that a
  native event enters while the dispatcher is not waiting, and makes it submit two
  Futures later.
* `glass_starvation` (`RunnablesRun`): a handler leaves a loop and enters another before it
  returns. `leavingNestedEventLoop` stays set while the second runs, and
  posted runnables are held back for as long as that lasts. In the same
  situation the value that the first leave passes is consumed by the second loop, so the
  assertion `ret == this` of `EventLoop.enter()` fails as well.
* `platform_nested_exit` (`ExitEndsFxThread`): exit from a nested loop quits only that loop.
* `render_exit` (`RendererIdleOnExit`): `Toolkit.exit` may stop waiting while a paint job is queued.
* `render_skipped` (`RepaintNotSkipped`): a repaint ordered while a finished painter has not yet
  cleared its painting flag is dropped.
* `render_downgraded` (`RepaintNotDowngraded`): a repaint of everything, requested between the painter's read
  of `entireSceneDirty` and its reset, is lost.

The passing liveness properties carry the matching exceptions by name
(`Overtaken`, `Blocked`). `NoFrameLost` and `FramesArePainted` speak of synchronized changes, whose
order with painting the latch and the lock guarantee; exposes, and frames whose
paint failed, are the subject of `RepaintNotSkipped` and may be lost. The properties of the
two buffers name the races they except; without its exception each is
violated, which is how the races were found.

Other things the models show, which no property states:

* `progressbuffer`: an EOS that arrives between `reset_eos` and the flush of the source makes
  the new segment be refused, and the reader waits with `instant_seek` FALSE.
  `unexpected` stays set after an instant seek in skip mode, and ends the
  download. A stream cut off after the reader has drained the cache ends
  without EOS; `EndOfStream` therefore speaks of data unread. The branch marked "This must never happen"
  (line 564) is reached after a refused segment and a failed seek.
* A seek overtaken by a segment event of the source (`SeekIsOvertaken`) is lost without a sign: it returns TRUE.
* `hlsprogressbuffer`: a cut-off segment never reaches its `cache_size`, so the
  reader stays in that cache. After the flush of a stop the write index is -1; if the reader then
  stores ERROR over FLUSHING, `hls_progress_buffer_chain` (line 321) writes a late block to `cache[-1]`.
  `Write` leaves the ring alone in that case.
* The player: `SetRate` stores the new rate before it looks whether the old one was zero, so the
  branch that resumes playing is dead. `m_PlayerPendingState` survives the call that
  set it when no change of state follows. Finishing while a stall is
  pending ends in Stalled.

### Fairness

Every thread is weakly fair in the steps it takes by itself: the JVM schedules
it, a native loop serves its queue and returns after `gtk_main_quit`, and a
handler's own code terminates (it may stay in a nested loop for ever). The pulse timer
fires until exit stops it. Nobody is forced to call, to
post, to deliver an event, to enter or leave a loop, to change a scene, or to fail.
In the buffers source, reader and seeking thread are weakly fair: a push and a
`READ_NEXT_BLOCK` return. In the player calls, callbacks and changes of state complete
(weak fairness of `App`, `Main`, `PipelineSettles`), and while the connection holds the download of a finite stream goes on:
`BufferFills` and `BufferEnds` are strongly fair, because they post on the
bounded bus and are enabled again each time the callback has taken a message. They are not
enabled once the connection is lost, and `StallIsOvercome` excepts that: nothing in the code opens it again
by itself, so the player stays Stalled, and the application has only the error event to go by.

### Mutants

Every property of a passing run has a mutant: a definition with a suffix
(`WakeUp_doneOnly`) stands before the definition it would replace (`WakeUp`) and
contains a plausible slip; with it TLC finds the property violated.

## Proofs

`GlassEventLoopProofs` proves, for any sets `Runnables`, `Loops`, `Events` and
`Callers` that do not overlap (`DisjointAssumption`), finite or not:
`TypeCorrect`, `LeavingIsLegal`, `AssertionsHold`, `InnerLoopsServed`,
`HoldingBackEnds` and `NoLeaveForgotten`, which are the invariants of
`glass_event_loop`.

They follow from one inductive invariant, `IInv`. Besides the properties
themselves it says

* `StackInv`: `EventLoop.stack` and the native loops are the same sequence,
  without repetition; only LEAVING loops have been told to quit. Without it
  `gtk_main_quit`, which reaches whatever loop is innermost, could hit an ACTIVE
  one, and `EnterAssertions` would not be preserved.
* `PostedInv`: a runnable named by a loop has been posted only when that loop is over; hence each is
  posted at most once.
* `OnePlaceInv`: what was posted is in the deque, in the dispatcher's hand, or
  submitted, and never in two of these. Without it `Awaited` could take
  a runnable out of sight of `LeavingLoopNotForgotten`, and a runnable
  just submitted could be blocked in a loop already, against
  `DispatcherServesInnerLoops`.

The proof has one lemma per part (`TypeStep`, `LoopPartStep`,
`NotForgottenStep`, `OnePlaceStep`, `ServesStep`) with one step per action, frame lemmas for
the actions that leave a part's variables alone, and lemmas on sequences. `IInv` was checked with TLC before.

`PlaybackPipelineProofs` proves `ContentIsFreedOnce` (`Spec => []ContentLifetime`) and
`TypeCorrect`, for any set of requests and faults and any bounds, from
`RequestsAssumption` alone. `ContentLifetime` is not inductive; `DInv` adds

* `Flags`: what `m_bIsDisposeInProgress` and `m_bIsDisposed` say of where Dispose is, and that no
  message is being handled once the first is set. Only the two passes through
  `m_DisposeLock` make this true, which is why Dispose enters the lock before it stops the pipeline.
* `Owner`: after `g_source_destroy` exactly one of three is to free the content: the
  main loop that still dispatches, the main loop that dropped the last
  reference, or Dispose.

Calls and messages that do not touch the content are dispatched by one lemma (`Untouched`);
`TypeCorrect` has one lemma per group of actions and lemmas on the lists of
pieces (`ThenTyped`, `ReturnsTyped`) and on the bus (`BusTyped`). `TypeOK` of this module
is proved instead of being a property of the run `player`; it was checked with TLC by hand.

`InvokeLaterProofs` proves the refinement, `InvokeLaterKeepsItsPromise` (`Spec => InvokeLaterInOrder`),
under the same assumption: every step of the event loop is a step of `InvokeLaterQueue` or a stutter. It rests on `IInv`
above and on `OrderInv` (`OrderKept`): what has started is a prefix of `posted`, and native queue,
dispatcher's hand and deque are the rest, in this order. The deque part needs `PutBack` at the
front; the native part has to let the runnables of `invokeAndWait`, which
nobody posted, stand anywhere between.

`PlatformLifecycleProofs` proves `PendingIsExact`, `ExitRunsOnce`, `IdleExitDropsNothing` and `TypeCorrect` for any finite
set of threads (the assumption is there because the counter counts them) and any bounds. The inductive invariant adds

* `StackInv`: what is on the call stack of the FX thread, and where a handler in its finally
  block returns to. Without it a decrement could not be matched with the runnable it belongs to.
* `StartInv`: a runnable on its way implies that the toolkit was started, and only
  `Toolkit.exit` takes it down.
* `ExitInv`: whoever is to run `Toolkit.exit` is a single one: a thread about to post it, the
  queue, or the FX thread. It is what `toolkitExit.getAndSet` buys, and `TerminatesOnce` follows.
* `PendingInv`: the counter is exact until `toolkitExit` is set, and never too low afterwards
  (runnables refused during exit are not counted off); hence it is never negative.

`IdleExitDropsNothing` is an action property. Where `CheckIdle` decides, it has read a counter of zero; exactness then
says that nothing is in transit, queued or running, but for the runnable whose end lowered the counter.

`RenderPipelineProofs` proves `OneJobForEachScene`, `OnePulseAtATime`, `RenderingCanComplete`, `NoFrameIsLost`
and `TypeCorrect` for any finite set of scenes. The inductive invariant has

* `JobInv`: a painting flag is set exactly while its scene has a job, queued or at the renderer, and
  never two. Flag and queue are changed by different threads.
* `TokenInv`, `PosterInv`: the one pulse is about to be posted, posted or running; the renderer's vsync hint and the
  timer cannot both hold it.
* `LatchInv`: the latch counts no more than the scenes in `Due`, those whose repaint is to be ordered, is queued
  or is running. It needs `AttachedInv`, since a scene that lost its stage would be counted and not repainted.
* `FrameInv`: what was copied to the render graph waits for a repaint, a queued job, or a
  job that has not drawn yet; a job between drawing and its return has left nothing behind.

`ProgressBufferProofs` proves `StreamStaysInOrder`, `CacheIsFaithful`, `WakeupsAreNotLost`, `EosIsNotEarly` and
`TypeCorrect` for streams, reads and thresholds of any length and any number of seeks. The inductive invariant has

* `SourceInv`, `LockInv`: what the source is pushing, who holds the stream lock, and why a reader stands still.
* `CacheInv`: source, segment and file agree on where the next block goes. `CacheHoldsStream` alone
  does not say where the source is, so nothing would be known of the block it writes.
* `ReportedInv`: a segment that was cut short was reported to its end, without which a shortened `stop` could make
  the reader miss its signal.
* `OrderInv`: where the reader goes on is where the elements behind are, at each stage of a push,
  or a segment event is pending that will tell them; a seek between `SeekFallsBack` and `SeekAnnounces` is exempt, as it has
  moved the reader and told nobody yet. While a seek holds the reader's stream lock no EOS is pending, so that what it
  announces replaces nothing but a segment.

`HLSProgressBufferProofs` proves `RingStaysInStep`, `StreamStaysInOrder`, `EosIsNotEarly` and `TypeCorrect` for rings of any size,
playlists and segments of any length, and any number of seeks. The inductive invariant has

* `RingInv`: there is a number n such that exactly the n caches from the read index on
  are not ready, the next one is to be written (`Ring`), they hold the last n
  segments that were opened (a segment that could not be loaded is not one) completely, the last one as far as it was delivered (`Holds`), and the elements behind are
  where the reader is (`ReaderAt`). A step of the writer makes it n + 1, the release of a cache n - 1, a
  seek 0. `PlaylistInv` adds that the source goes to EOS only behind a failed load or the last segment. `RankAdvances` and `LastRank` are the arithmetic of the ring.
* `FitInv`: no cache ever holds more than a segment, so that the reader meets `cache_size` exactly.
* `FlushInv`: what each stage of a seek or stop has brought to a halt; the ring is
  empty before the source is told to seek.
* `EosInv`: after the end nothing is read until the segment handler starts the reader again,
  and then from an empty ring.

Every inductive invariant was checked with TLC before it was proved, with one or two more seeks, calls
or caches than the runs have where that was possible.

Model-checked only: the liveness properties of all components, because fairness is out of the prover's reach, and
the four violated statements. No invariant of a passing run is without a theorem.

## Not modelled

* Third-party code: WebKit, JavaScriptCore, SQLite, libxml, libxslt, ICU, GStreamer, GLib and
  libjpeg are in the repository and are nearly all of its C and C++ lines.
  OpenJFX calls them; their correctness is not OpenJFX's. Where a model needs
  GStreamer or GLib (pads, tasks, bus, main loop, conditions) it takes them from how the code
  uses them, and the map says so.
* First-party native code without shared state: shader and effect kernels (Decora, Prism
  ES2, D3D, software pipeline), font glue, decoders, window system glue. These are computations on
  pixels and samples or thin JNI wrappers.
* Media: pull mode of `progressbuffer` (the scheduling query is not
  answered, so no pipeline activates it), live HLS playlists and changes of variant, the
  construction of pipelines with its failure exits (`GstAudioPlaybackPipeline.cpp` 145-157, where the shared content is deleted or
  left over; the model starts with a pipeline that `Init()` has set up) and the dynamic pads, `CheckQueueSize` of the audio and video pipeline,
  volume, balance, spectrum, equalizer, track and duration events; the AVFoundation player.
  One hazard is outside for that reason: the error branch of `BusCallback` sets the
  pipeline to NULL with `m_DisposeLock` held, which a pad-added handler may be waiting for.
* `PlatformImpl`: themes, accessibility, conditional features. `RenderPipeline`: live resize,
  `UploadingPainter`, benchmarking switches.
* CSS, controls, FXML and packager are sequential computations on data or I/O; Swing and SWT
  interoperability needs the event threads of AWT and SWT, which are not in the repository.

## Plan

1. Done: `GlassEventLoop`, its refinement of `InvokeLaterQueue`, its proofs;
   `PlatformLifecycle`; `RenderPipeline`; `JavaSource`, `ProgressBuffer`, `HLSProgressBuffer`;
   `PlaybackPipeline` and its proofs.
2. Done: proofs of the safety properties of all these modules, and of the refinement. Left: action properties that
   prepare the liveness arguments (what a step may not undo), such as that a leaving loop stays leaving until it
   returns and that a seek only moves forward.
3. `Launcher` (`LauncherImpl`, lines 691-938), composed with
   `PlatformLifecycle` through the finish listener: stop is called once, after start; exit in
   init, preloader errors.
4. `WorkerTask`: `Task`, `Service` and `ScheduledService` over the contract
   of `runLater`; cancel against completion, restart, coalesced updates.
5. `LayoutTree` (`Parent`); `ExpressionHelper`, `BidirectionalBinding`, `ListChangeBuilder`,
   `CompositeEventHandler`: changes during notification, checked against reference
   definitions.
6. `ResourcePool`, animation timing, image loading; `UploadingPainter` as a second painter of
   `RenderPipeline`.
