--------------------------- MODULE RenderPipeline ---------------------------
(***************************************************************************)
(* Pulses, dirty scenes and the render thread of the Quantum toolkit.      *)
(*                                                                         *)
(*   com/sun/javafx/tk/quantum/QuantumToolkit.java   postPulse, pulse      *)
(*   com/sun/javafx/tk/quantum/PaintCollector.java   dirtyScenes, latch    *)
(*   com/sun/javafx/tk/quantum/GlassScene.java       sceneChanged, flags   *)
(*   com/sun/javafx/tk/quantum/ViewScene.java        repaint, dispose      *)
(*   com/sun/javafx/tk/quantum/PresentingPainter.java, ViewPainter.java    *)
(*   com/sun/javafx/tk/quantum/QuantumRenderer.java  the job queue         *)
(*   com/sun/javafx/tk/RenderJob.java                run, listener.done    *)
(*   javafx/scene/Scene.java                         ScenePulseListener    *)
(*                                                                         *)
(* Four actors: the pulse timer posts pulses; the FX thread changes        *)
(* scenes, copies them to the render graph in a pulse and orders repaints; *)
(* the render thread paints one job after the other; and the runnables     *)
(* that it posts back run on the FX thread.  The FX thread holds the       *)
(* render lock only while it copies, disposes or terminates, each of which *)
(* is one step here; the painter holds it over several steps.              *)
(***************************************************************************)
EXTENDS Naturals, Sequences, FiniteSets

CONSTANTS Scenes,
          NoScene,
          Multithreaded,    \* -Dquantum.multithreaded, true by default
          Features,         \* what may happen, see AllFeatures
          MaxFailures       \* bound: paints that fail for want of a device

AllFeatures == {"expose", "dispose", "animation", "vsync", "exit"}

ASSUME RenderAssumption ==
    /\ NoScene \notin Scenes
    /\ IsFiniteSet(Scenes)
    /\ Multithreaded \in BOOLEAN
    /\ Features \subseteq AllFeatures
    /\ MaxFailures \in Nat

VARIABLES
    \* QuantumToolkit
    toolkitRunning, animationRunnable, animationRunning, nextPulseRequested,
    pulseRunning,
    application,            \* Application.GetApplication() is not null
    \* PaintCollector
    dirtyScenes, hasDirty, needsHint,
    latch,                  \* count of allWorkCompletedLatch
    \* the scenes
    life,                   \* attached to a stage, detached, or disposed
    changed,                \* the scene graph differs from the render graph
    unpainted,              \* history: copied to the render graph, not painted
    painting, entireSceneDirty, freshBackBuffer,
    exposed,                \* history: a repaint of everything is due, also
                            \* because a painter that ran could not paint
    \* the FX thread
    fx, todo,
    posted,                 \* runnables waiting for it: pulses and repaints
    \* the threads that post pulses
    post,
    \* the render thread
    jobs, rpc, job, everything, failures

pulseVars == <<animationRunnable, animationRunning, nextPulseRequested>>
toolkitVars == <<toolkitRunning, application>>
collectorVars == <<dirtyScenes, hasDirty, needsHint>>
graphVars == <<life, changed, unpainted>>
painterVars == <<entireSceneDirty, freshBackBuffer, exposed>>
fxVars == <<fx, todo>>
qrVars == <<rpc, job, everything, failures>>
vars == <<pulseVars, pulseRunning, toolkitVars, collectorVars, latch, graphVars,
          painting, painterVars, fxVars, posted, post, jobs, qrVars>>

Pulse == NoScene                    \* in posted: the pulse runnable
Posters == {"timer", "renderer"}

Init ==
    /\ toolkitRunning = TRUE /\ application = TRUE
    /\ animationRunnable = FALSE /\ animationRunning = FALSE
    /\ nextPulseRequested = TRUE /\ pulseRunning = FALSE
    /\ dirtyScenes = {} /\ hasDirty = FALSE /\ needsHint = FALSE
    /\ latch = 0
    /\ life = [s \in Scenes |-> "attached"]
    /\ changed = [s \in Scenes |-> TRUE]
    /\ unpainted = [s \in Scenes |-> FALSE]
    /\ painting = [s \in Scenes |-> FALSE]
    /\ entireSceneDirty = [s \in Scenes |-> TRUE]
    /\ freshBackBuffer = [s \in Scenes |-> TRUE]
    /\ exposed = [s \in Scenes |-> TRUE]
    /\ fx = "idle" /\ todo = {}
    /\ posted = << >>
    /\ post = [p \in Posters |-> "idle"]
    /\ jobs = << >> /\ rpc = "idle" /\ job = NoScene /\ everything = FALSE
    /\ failures = 0

Elements(s) == {s[i] : i \in 1 .. Len(s)}

-----------------------------------------------------------------------------
(* postPulse(), called by the pulse timer and by vsyncHint() *)

PulseWanted == /\ toolkitRunning
               /\ animationRunning \/ nextPulseRequested \/ hasDirty

\* The timer fires; exit() stops it.
PulseTimer ==
    /\ post["timer"] = "idle"
    /\ fx \in {"idle", "pulse", "repaint"}
    /\ PulseWanted
    /\ post' = [post EXCEPT !["timer"] = "set"]
    /\ UNCHANGED <<pulseVars, pulseRunning, toolkitVars, collectorVars, latch,
                   graphVars, painting, painterVars, fxVars, posted, jobs, qrVars>>

MayPost_always == TRUE
MayPost == ~pulseRunning

\* !setPulseRunning(): a getAndSet, then the runnable is posted.
SetPulseRunning(p) ==
    /\ post[p] = "set"
    /\ pulseRunning' = TRUE
    /\ post' = [post EXCEPT ![p] = IF MayPost THEN "invokeLater" ELSE "idle"]
    /\ UNCHANGED <<pulseVars, toolkitVars, collectorVars, latch, graphVars,
                   painting, painterVars, fxVars, posted, jobs, qrVars>>

\* Without an Application, invokeLater() throws and nothing is posted.
PostPulse(p) ==
    /\ post[p] = "invokeLater"
    /\ post' = [post EXCEPT ![p] = "idle"]
    /\ posted' = IF application THEN Append(posted, Pulse) ELSE posted
    /\ UNCHANGED <<pulseVars, pulseRunning, toolkitVars, collectorVars, latch,
                   graphVars, painting, painterVars, fxVars, jobs, qrVars>>

-----------------------------------------------------------------------------
(* The FX thread between pulses *)

\* PaintCollector.addDirtyScene and removeDirtyScene.
AddDirtyScene(s) ==
    /\ dirtyScenes' = dirtyScenes \cup {s}
    /\ hasDirty' = (hasDirty \/ s \notin dirtyScenes)

\* Definitions whose name has a suffix are plausible slips in the definition
\* that follows them; they show that the properties depend on it.
RemoveDirtyScene_kept(s) == UNCHANGED <<dirtyScenes, hasDirty>>
RemoveDirtyScene_stale(s) == dirtyScenes' = dirtyScenes \ {s} /\ UNCHANGED hasDirty
RemoveDirtyScene(s) ==
    /\ dirtyScenes' = dirtyScenes \ {s}
    /\ hasDirty' = (dirtyScenes' # {})

\* GlassScene.sceneChanged
SceneChanged(s) == IF life[s] = "attached" THEN AddDirtyScene(s) ELSE RemoveDirtyScene(s)

\* Nodes or properties of the scenes in D change: the first change since a
\* scene was synchronized asks for a pulse.
RequestNextPulse_dropped(D) == UNCHANGED nextPulseRequested
RequestNextPulse(D) ==
    nextPulseRequested' = (nextPulseRequested \/ \E s \in D : ~changed[s])

SceneModified(s) ==
    /\ fx = "idle"
    /\ life[s] = "attached"
    /\ RequestNextPulse({s})
    /\ changed' = [changed EXCEPT ![s] = TRUE]
    /\ UNCHANGED <<animationRunnable, animationRunning, pulseRunning, toolkitVars,
                   collectorVars, latch, life, unpainted, painting, painterVars,
                   fxVars, posted, post, jobs, qrVars>>

\* entireSceneNeedsRepaint() on the FX thread.
EntireSceneNeedsRepaint(s) ==
    /\ entireSceneDirty' = [entireSceneDirty EXCEPT ![s] = TRUE]
    /\ exposed' = [exposed EXCEPT ![s] = life[s] = "attached"]
    /\ SceneChanged(s)

\* The window system asks for a repaint of the view.
ViewRepaint(s) ==
    /\ fx = "idle"
    /\ "expose" \in Features
    /\ life[s] = "attached"
    /\ EntireSceneNeedsRepaint(s)
    /\ UNCHANGED <<pulseVars, pulseRunning, toolkitVars, needsHint, latch, graphVars,
                   painting, freshBackBuffer, fxVars, posted, post, jobs, qrVars>>

\* The runnable that entireSceneNeedsRepaint() posts from the render thread.
RepaintRunnable ==
    /\ fx = "idle"
    /\ posted # << >>
    /\ Head(posted) # Pulse
    /\ EntireSceneNeedsRepaint(Head(posted))
    /\ posted' = Tail(posted)
    /\ UNCHANGED <<pulseVars, pulseRunning, toolkitVars, needsHint, latch, graphVars,
                   painting, freshBackBuffer, fxVars, post, jobs, qrVars>>

\* setStage(null); later ViewScene.dispose, which waits for the render lock.
DetachScene(s) ==
    /\ fx = "idle"
    /\ "dispose" \in Features
    /\ life[s] = "attached"
    /\ life' = [life EXCEPT ![s] = "detached"]
    /\ RemoveDirtyScene(s)
    /\ exposed' = [exposed EXCEPT ![s] = FALSE]
    /\ unpainted' = [unpainted EXCEPT ![s] = FALSE]
    /\ UNCHANGED <<pulseVars, pulseRunning, toolkitVars, needsHint, latch, changed,
                   painting, entireSceneDirty, freshBackBuffer, fxVars,
                   posted, post, jobs, qrVars>>

\* ViewPainter.renderLock is not held by the painter.
LockFree_early == rpc \notin {"read", "paint"}
LockFree == rpc \notin {"read", "paint", "setPainting", "unlock"}

DisposeScene(s) ==
    /\ fx = "idle"
    /\ life[s] = "detached"
    /\ LockFree
    /\ life' = [life EXCEPT ![s] = "disposed"]
    /\ UNCHANGED <<pulseVars, pulseRunning, toolkitVars, collectorVars, latch,
                   changed, unpainted, painting, painterVars, fxVars, posted, post,
                   jobs, qrVars>>

SetAnimationRunnable(b) ==
    /\ fx = "idle"
    /\ "animation" \in Features
    /\ animationRunnable' = b
    /\ animationRunning' = (b \/ animationRunning)
    /\ UNCHANGED <<nextPulseRequested, pulseRunning, toolkitVars, collectorVars,
                   latch, graphVars, painting, painterVars, fxVars, posted, post,
                   jobs, qrVars>>

-----------------------------------------------------------------------------
(* A pulse: pulseFromQueue() *)

\* nextPulseRequested is reset before the animation runnable and the scenes'
\* pulse listeners run and change scenes.
PulseBegins(D) ==
    /\ fx = "idle"
    /\ posted # << >>
    /\ Head(posted) = Pulse
    /\ posted' = Tail(posted)
    /\ D # {} => animationRunnable
    /\ animationRunning' = animationRunnable
    /\ changed' = [s \in Scenes |-> changed[s] \/ s \in D]
    /\ nextPulseRequested' = \E s \in D : ~changed[s]
    /\ fx' = "pulse"
    /\ todo' = {s \in Scenes : life[s] # "disposed"}
    /\ UNCHANGED <<animationRunnable, pulseRunning, toolkitVars, collectorVars, latch,
                   life, unpainted, painting, painterVars, post, jobs, qrVars>>

\* ScenePulseListener.pulse: CSS and layout may change any scene, the others
\* included.  A scene with changes waits for the frame being rendered and for
\* the render lock, copies its changes to the render graph and is dirty.
ScenePulse(s, D) ==
    /\ fx = "pulse"
    /\ s \in todo
    /\ todo' = todo \ {s}
    /\ RequestNextPulse(D)
    /\ IF changed[s] \/ s \in D
       THEN /\ latch = 0
            /\ LockFree
            /\ changed' = [d \in Scenes |-> d # s /\ (changed[d] \/ d \in D)]
            /\ unpainted' = [unpainted EXCEPT ![s] = life[s] = "attached"]
            /\ SceneChanged(s)
       ELSE /\ changed' = [d \in Scenes |-> changed[d] \/ d \in D]
            /\ UNCHANGED <<unpainted, dirtyScenes, hasDirty>>
    /\ UNCHANGED <<animationRunnable, animationRunning, pulseRunning, toolkitVars,
                   needsHint, latch, life, painting, painterVars, fx, posted, post,
                   jobs, qrVars>>

\* PaintCollector.renderAll: a latch for the dirty scenes, then their repaints.
\* The old latch is not waited for.
RenderAll ==
    /\ fx = "pulse"
    /\ todo = {}
    /\ fx' = "repaint"
    /\ IF hasDirty
       THEN /\ hasDirty' = FALSE
            /\ needsHint' = TRUE
            /\ latch' = Cardinality(dirtyScenes)
            /\ todo' = dirtyScenes
       ELSE UNCHANGED <<hasDirty, needsHint, latch, todo>>
    /\ UNCHANGED <<pulseVars, pulseRunning, toolkitVars, dirtyScenes, graphVars,
                   painting, painterVars, posted, post, jobs, qrVars>>

\* ViewScene.repaint: a scene that has no view any more, or whose job has not
\* finished, gets no new job.
MayRepaint_twice(s) == life[s] # "disposed"
MayRepaint(s) == life[s] # "disposed" /\ ~painting[s]

Repaint(s) ==
    /\ fx = "repaint"
    /\ s \in todo
    /\ todo' = todo \ {s}
    /\ IF MayRepaint(s)
       THEN /\ painting' = [painting EXCEPT ![s] = TRUE]
            /\ jobs' = Append(jobs, s)
       ELSE UNCHANGED <<painting, jobs>>
    /\ UNCHANGED <<pulseVars, pulseRunning, toolkitVars, collectorVars, latch,
                   graphVars, painterVars, fx, posted, post, qrVars>>

PulseEnds ==
    /\ fx = "repaint"
    /\ todo = {}
    /\ ~Multithreaded => latch = 0
    /\ dirtyScenes' = {}
    /\ pulseRunning' = FALSE
    /\ fx' = "idle"
    /\ UNCHANGED <<pulseVars, toolkitVars, hasDirty, needsHint, latch, graphVars,
                   painting, painterVars, todo, posted, post, jobs, qrVars>>

-----------------------------------------------------------------------------
(* QuantumToolkit.exit() *)

\* The pulse timer is stopped, then the last frame is waited for.
Exit ==
    /\ fx = "idle"
    /\ "exit" \in Features
    /\ fx' = "exit"
    /\ UNCHANGED <<pulseVars, pulseRunning, toolkitVars, collectorVars, latch,
                   graphVars, painting, painterVars, todo, posted, post, jobs, qrVars>>

WaitForRenderingToComplete ==
    /\ fx = "exit"
    /\ latch = 0
    /\ fx' = "terminate"
    /\ UNCHANGED <<pulseVars, pulseRunning, toolkitVars, collectorVars, latch,
                   graphVars, painting, painterVars, todo, posted, post, jobs, qrVars>>

\* Application.terminate() under the render lock, which closes the windows, and
\* dispose(): jobs that are queued still run after the renderer's shutdown().
Terminate ==
    /\ fx = "terminate"
    /\ LockFree
    /\ application' = FALSE
    /\ toolkitRunning' = FALSE
    /\ life' = [s \in Scenes |-> "disposed"]
    /\ fx' = "exited"
    /\ UNCHANGED <<pulseVars, pulseRunning, collectorVars, latch, changed, unpainted,
                   painting, painterVars, todo, posted, post, jobs, qrVars>>

-----------------------------------------------------------------------------
(* The render thread *)

TakeJob ==
    /\ rpc = "idle"
    /\ jobs # << >>
    /\ job' = Head(jobs)
    /\ jobs' = Tail(jobs)
    /\ rpc' = "lock"
    /\ UNCHANGED <<pulseVars, pulseRunning, toolkitVars, collectorVars, latch,
                   graphVars, painting, painterVars, fxVars, posted, post,
                   everything, failures>>

\* PresentingPainter.run takes the lock and checks that it can draw.
Lock ==
    /\ rpc = "lock"
    /\ rpc' = IF life[job] = "attached" THEN "read" ELSE "setPainting"
    /\ UNCHANGED <<pulseVars, pulseRunning, toolkitVars, collectorVars, latch,
                   graphVars, painting, painterVars, fxVars, posted, post, jobs,
                   job, everything, failures>>

\* entireSceneNeedsRepaint() on the render thread: Platform.runLater, which
\* does nothing any more once the toolkit is gone.
RunLaterRepaint(s) == posted' = IF toolkitRunning THEN Append(posted, s) ELSE posted

\* The device is not ready: try again later.
DeviceNotReady ==
    /\ rpc = "read"
    /\ failures < MaxFailures
    /\ failures' = failures + 1
    /\ RunLaterRepaint(job)
    /\ unpainted' = [unpainted EXCEPT ![job] = FALSE]
    /\ exposed' = [exposed EXCEPT ![job] = TRUE]
    /\ rpc' = "setPainting"
    /\ UNCHANGED <<pulseVars, pulseRunning, toolkitVars, collectorVars, latch, life,
                   changed, painting, entireSceneDirty, freshBackBuffer, fxVars,
                   post, jobs, job, everything>>

\* ViewPainter.paintImpl decides what to paint...
RenderEverything ==
    /\ rpc = "read"
    /\ everything' = (freshBackBuffer[job] \/ entireSceneDirty[job])
    /\ rpc' = "paint"
    /\ UNCHANGED <<pulseVars, pulseRunning, toolkitVars, collectorVars, latch,
                   graphVars, painting, painterVars, fxVars, posted, post, jobs, job,
                   failures>>

\* ... and doPaint paints, having cleared the flag.
DoPaint ==
    /\ rpc = "paint"
    /\ entireSceneDirty' = [entireSceneDirty EXCEPT ![job] = FALSE]
    /\ freshBackBuffer' = [freshBackBuffer EXCEPT ![job] = FALSE]
    /\ unpainted' = [unpainted EXCEPT ![job] = FALSE]
    /\ exposed' = [exposed EXCEPT ![job] = @ /\ ~everything]
    /\ everything' = FALSE
    /\ rpc' = "setPainting"
    /\ UNCHANGED <<pulseVars, pulseRunning, toolkitVars, collectorVars, latch, life,
                   changed, painting, fxVars, posted, post, jobs, job, failures>>

\* prepare() or present() fails: the back buffer is gone.
PresentFails ==
    /\ rpc = "paint"
    /\ failures < MaxFailures
    /\ failures' = failures + 1
    /\ entireSceneDirty' = [entireSceneDirty EXCEPT ![job] = FALSE]
    /\ freshBackBuffer' = [freshBackBuffer EXCEPT ![job] = TRUE]
    /\ RunLaterRepaint(job)
    /\ unpainted' = [unpainted EXCEPT ![job] = FALSE]
    /\ exposed' = [exposed EXCEPT ![job] = TRUE]
    /\ everything' = FALSE
    /\ rpc' = "setPainting"
    /\ UNCHANGED <<pulseVars, pulseRunning, toolkitVars, collectorVars, latch, life,
                   changed, painting, fxVars, post, jobs, job>>

\* The end of PresentingPainter.run: the flag is cleared under the lock.
SetPainting ==
    /\ rpc = "setPainting"
    /\ painting' = [painting EXCEPT ![job] = FALSE]
    /\ rpc' = "unlock"
    /\ UNCHANGED <<pulseVars, pulseRunning, toolkitVars, collectorVars, latch,
                   graphVars, painterVars, fxVars, posted, post, jobs, job,
                   everything, failures>>

Unlock ==
    /\ rpc = "unlock"
    /\ rpc' = "done"
    /\ UNCHANGED <<pulseVars, pulseRunning, toolkitVars, collectorVars, latch,
                   graphVars, painting, painterVars, fxVars, posted, post, jobs, job,
                   everything, failures>>

\* PaintCollector.done: the last job of a frame may post a pulse, and needs
\* the Application; without it the exception leaves the latch alone.
LastJob == latch = 1

Done ==
    /\ rpc = "done"
    /\ IF LastJob /\ needsHint /\ "vsync" \in Features /\ PulseWanted
       THEN post' = [post EXCEPT !["renderer"] = "set"]
       ELSE UNCHANGED post
    /\ rpc' = IF LastJob THEN "finished" ELSE "countDown"
    /\ UNCHANGED <<pulseVars, pulseRunning, toolkitVars, collectorVars, latch,
                   graphVars, painting, painterVars, fxVars, posted, jobs, job,
                   everything, failures>>

NotifyRenderingFinished ==
    /\ rpc = "finished"
    /\ post["renderer"] = "idle"
    /\ IF application
       THEN rpc' = "countDown" /\ UNCHANGED job
       ELSE rpc' = "idle" /\ job' = NoScene
    /\ UNCHANGED <<pulseVars, pulseRunning, toolkitVars, collectorVars, latch,
                   graphVars, painting, painterVars, fxVars, posted, post, jobs,
                   everything, failures>>

CountDown ==
    /\ rpc = "countDown"
    /\ latch' = IF latch > 0 THEN latch - 1 ELSE 0
    /\ rpc' = "idle"
    /\ job' = NoScene
    /\ UNCHANGED <<pulseVars, pulseRunning, toolkitVars, collectorVars, graphVars,
                   painting, painterVars, fxVars, posted, post, jobs, everything,
                   failures>>

-----------------------------------------------------------------------------
FxHandler == \/ \E s \in Scenes : SceneModified(s) \/ ViewRepaint(s) \/ DetachScene(s)
                                  \/ DisposeScene(s)
             \/ \E b \in BOOLEAN : SetAnimationRunnable(b)
             \/ Exit

FxContinue == \/ RepaintRunnable \/ RenderAll \/ PulseEnds
              \/ \E D \in SUBSET Scenes : PulseBegins(D)
              \/ \E s \in Scenes : Repaint(s) \/ \E D \in SUBSET Scenes : ScenePulse(s, D)
              \/ WaitForRenderingToComplete \/ Terminate

Renderer == TakeJob \/ Lock \/ DeviceNotReady \/ RenderEverything \/ DoPaint
            \/ PresentFails \/ SetPainting \/ Unlock \/ Done
            \/ NotifyRenderingFinished \/ CountDown

PostingPulse(p) == SetPulseRunning(p) \/ PostPulse(p)

Next == FxHandler \/ FxContinue \/ Renderer \/ PulseTimer
        \/ \E p \in Posters : PostingPulse(p)

Spec == Init /\ [][Next]_vars

\* The threads are scheduled, and the pulse timer keeps firing until exit.
Fairness == /\ WF_vars(FxContinue) /\ WF_vars(Renderer) /\ WF_vars(PulseTimer)
            /\ \A p \in Posters : WF_vars(PostingPulse(p))

FairSpec == Spec /\ Fairness

-----------------------------------------------------------------------------
(* Properties *)

Exiting == fx \in {"exit", "terminate", "exited"}

ToolkitTypes ==
    /\ toolkitRunning \in BOOLEAN /\ application \in BOOLEAN
    /\ animationRunnable \in BOOLEAN /\ animationRunning \in BOOLEAN
    /\ nextPulseRequested \in BOOLEAN /\ pulseRunning \in BOOLEAN
    /\ fx \in {"idle", "pulse", "repaint", "exit", "terminate", "exited"}
    /\ posted \in Seq(Scenes \cup {Pulse})
    /\ post \in [Posters -> {"idle", "set", "invokeLater"}]

CollectorTypes ==
    /\ dirtyScenes \subseteq Scenes
    /\ hasDirty \in BOOLEAN /\ needsHint \in BOOLEAN
    /\ hasDirty => dirtyScenes # {}
    /\ todo \subseteq Scenes
    /\ latch \in 0 .. Cardinality(Scenes)

SceneTypes ==
    /\ life \in [Scenes -> {"attached", "detached", "disposed"}]
    /\ changed \in [Scenes -> BOOLEAN] /\ unpainted \in [Scenes -> BOOLEAN]
    /\ painting \in [Scenes -> BOOLEAN] /\ exposed \in [Scenes -> BOOLEAN]
    /\ entireSceneDirty \in [Scenes -> BOOLEAN]
    /\ freshBackBuffer \in [Scenes -> BOOLEAN]

RendererTypes ==
    /\ jobs \in Seq(Scenes)
    /\ rpc \in {"idle", "lock", "read", "paint", "setPainting", "unlock", "done",
                "finished", "countDown"}
    /\ job \in Scenes \cup {NoScene}
    /\ everything \in BOOLEAN
    /\ failures \in 0 .. MaxFailures

TypeOK == ToolkitTypes /\ CollectorTypes /\ SceneTypes /\ RendererTypes

\* There is at most one pulse, about to be posted, waiting or running, and
\* while the application lives pulseRunning says whether there is one: no
\* pulse is doubled by the two posters, and none is lost for ever.
Pulses == Cardinality({p \in Posters : post[p] = "invokeLater"})
          + Cardinality({i \in 1 .. Len(posted) : posted[i] = Pulse})
          + (IF fx \in {"pulse", "repaint"} THEN 1 ELSE 0)

OnePulse == application => Pulses = IF pulseRunning THEN 1 ELSE 0

\* Who waits for rendering to complete is not left waiting: at least as many
\* jobs as the latch counts are still to be done, although a scene that is
\* being painted, or has no view any more, is counted without a new job.
Undone == Len(jobs) + (IF rpc = "idle" THEN 0 ELSE 1)

LatchCanReachZero == fx # "repaint" => latch <= Undone \/ ~application

\* A scene's job is queued or painting exactly when its painting flag is set.
\* So a scene never has two jobs in the queue.
Painter(s) == job = s /\ rpc \in {"lock", "read", "paint", "setPainting"}

PaintingMeansJob ==
    \A s \in Scenes :
        Cardinality({i \in 1 .. Len(jobs) : jobs[i] = s}) + (IF Painter(s) THEN 1 ELSE 0)
            = IF painting[s] THEN 1 ELSE 0

\* What was copied to the render graph gets a painter: the scene is dirty, or
\* a job that has not begun to draw is on its way.  No frame is lost when a
\* repaint is skipped because the scene is being painted.
WillDraw(s) ==
    \/ s \in dirtyScenes
    \/ s \in Elements(jobs)
    \/ job = s /\ rpc \in {"lock", "read", "paint"}

NoFrameLost ==
    \A s \in Scenes : unpainted[s] /\ life[s] = "attached" /\ ~Exiting => WillDraw(s)

\* A change to a scene that stays attached reaches the render graph: a pulse
\* is requested, posted and run, and ScenePulseListener synchronizes the scene.
ChangesAreSynchronized ==
    \A s \in Scenes : changed[s] ~> (~changed[s] \/ life[s] # "attached" \/ Exiting)

\* A painter runs for every frame that was copied to the render graph: the
\* scene stays dirty, or its job is queued, until PresentingPainter gets to it.
\* A paint that fails is owed as a repaint of everything (exposed) from then on.
FramesArePainted ==
    \A s \in Scenes : unpainted[s] ~> (~unpainted[s] \/ life[s] # "attached" \/ Exiting)

\* Toolkit.exit() gets past the wait for the last frame and past the lock.
ExitGetsThrough == fx = "exit" ~> fx = "exited"

-----------------------------------------------------------------------------
\* What comments of the source say and the code does not always do.

\* "We need to wait for the last frame to finish so that the renderer is not
\* running while we are shutting down glass" (QuantumToolkit.exit).
RendererIdleOnExit == fx = "terminate" => jobs = << >> /\ rpc = "idle"

\* addDirtyScene will "ensure it gets processed on the next call to renderAll"
\* (PaintCollector): a repaint of everything that is due gets a painter, or
\* is on its way to the FX thread.
RepaintNotSkipped ==
    \A s \in Scenes :
        exposed[s] /\ ~Exiting => WillDraw(s) \/ s \in Elements(posted) \/ changed[s]

\* "Write from FX thread, read from render thread" (GlassScene.
\* entireSceneDirty): a repaint of everything that the FX thread asked for
\* is not downgraded to one of the dirty regions.
RepaintNotDowngraded ==
    \A s \in Scenes :
        exposed[s] /\ ~Exiting =>
            \/ entireSceneDirty[s] \/ freshBackBuffer[s]
            \/ job = s /\ rpc = "paint" /\ everything
=============================================================================
