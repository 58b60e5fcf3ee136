------------------------ MODULE RenderPipelineProofs ------------------------
(***************************************************************************)
(* The safety properties of RenderPipeline for every finite set of scenes, *)
(* every combination of features and any number of failing paints: one     *)
(* pulse at a time, one job for each scene that is being painted, a latch  *)
(* that the jobs on their way can count down, and no lost frame.           *)
(***************************************************************************)
EXTENDS RenderPipeline, FiniteSetTheorems, SequenceTheorems, TLAPS

-----------------------------------------------------------------------------
(* The parts of the inductive invariant *)

\* PaintCollector.hasDirty is what it is meant to be, except that renderAll
\* resets it before PulseEnds clears the set.
HasDirtyInv == hasDirty <=> fx # "repaint" /\ dirtyScenes # {}

TypeInv == TypeOK /\ HasDirtyInv

\* A scene has at most one job, in the queue or in the renderer's hands, and
\* has one while its painting flag is set.
Distinct(s) == \A i, j \in 1 .. Len(s) : s[i] = s[j] => i = j

JobInv ==
    /\ rpc = "idle" <=> job = NoScene
    /\ Distinct(jobs)
    /\ \A s \in Scenes : painting[s] <=> s \in Elements(jobs) \/ Painter(s)
    /\ \A s \in Scenes : ~(s \in Elements(jobs) /\ Painter(s))

\* The renderer posts a pulse only from Done, and its job does not go on
\* before that is over.
PosterInv == post["renderer"] # "idle" => rpc = "finished"

\* The one pulse is in one of three places.
ToBePosted == post["timer"] = "invokeLater" \/ post["renderer"] = "invokeLater"
Posted == Pulse \in Elements(posted)
InPulse == fx \in {"pulse", "repaint"}
OncePulse(q) == \A i, j \in 1 .. Len(q) : q[i] = Pulse /\ q[j] = Pulse => i = j

TokenInv ==
    application =>
        /\ pulseRunning <=> ToBePosted \/ Posted \/ InPulse
        /\ ~(post["timer"] = "invokeLater" /\ post["renderer"] = "invokeLater")
        /\ ~(ToBePosted /\ (Posted \/ InPulse))
        /\ ~(Posted /\ InPulse)
        /\ OncePulse(posted)

\* The scenes that will still count the latch down: those whose repaint is to
\* be ordered by this pulse, those with a queued job, and the renderer's.
Due == (IF fx = "repaint" THEN todo ELSE {}) \cup Elements(jobs)
          \cup (IF rpc = "idle" THEN {} ELSE {job})

LatchInv == application => latch <= Cardinality(Due)

\* A dirty scene has a stage, and a pulse orders repaints of dirty scenes.
AttachedInv ==
    /\ application \/ Exiting
    /\ application => \A s \in dirtyScenes : life[s] = "attached"
    /\ fx = "repaint" => todo \subseteq dirtyScenes

\* A frame waits for the repaint that this pulse orders, or for its job; a
\* job that is past drawing has left nothing behind.
Drawing(s) == job = s /\ rpc \in {"lock", "read", "paint"}

ToRepaint == IF fx = "repaint" THEN todo ELSE dirtyScenes

FrameInv ==
    \A s \in Scenes : unpainted[s] /\ life[s] = "attached" /\ ~Exiting =>
        /\ s \in ToRepaint \/ s \in Elements(jobs) \/ Drawing(s)
        /\ ~(job = s /\ rpc = "setPainting")

IInv == TypeInv /\ JobInv /\ PosterInv /\ TokenInv /\ AttachedInv /\ LatchInv
           /\ FrameInv

USE DEF pulseVars, toolkitVars, collectorVars, graphVars, painterVars, fxVars, qrVars

-----------------------------------------------------------------------------
(* Types *)

LEMMA InitTypeInv == Init => TypeInv
<1> SUFFICES ASSUME Init PROVE TypeInv
  OBVIOUS
<1>1. latch \in 0 .. Cardinality(Scenes) /\ failures \in 0 .. MaxFailures
  BY RenderAssumption, FS_CardinalityType DEF Init
<1>2. posted \in Seq(Scenes \cup {Pulse}) /\ jobs \in Seq(Scenes)
  BY DEF Init
<1>3. post \in [Posters -> {"idle", "set", "invokeLater"}]
  BY DEF Init
<1>4. /\ life \in [Scenes -> {"attached", "detached", "disposed"}]
      /\ changed \in [Scenes -> BOOLEAN] /\ unpainted \in [Scenes -> BOOLEAN]
      /\ painting \in [Scenes -> BOOLEAN] /\ exposed \in [Scenes -> BOOLEAN]
      /\ entireSceneDirty \in [Scenes -> BOOLEAN]
      /\ freshBackBuffer \in [Scenes -> BOOLEAN]
  BY DEF Init
<1>5. dirtyScenes \subseteq Scenes /\ todo \subseteq Scenes /\ HasDirtyInv
  BY DEF Init, HasDirtyInv
<1>6. QED
  BY <1>1, <1>2, <1>3, <1>4, <1>5 DEF Init, TypeInv, TypeOK, ToolkitTypes, CollectorTypes, SceneTypes, RendererTypes

USE DEF TypeInv, TypeOK

(* addDirtyScene and removeDirtyScene keep hasDirty in step with the set. *)
LEMMA DirtySceneTypes ==
    ASSUME TypeInv, fx # "repaint", fx' # "repaint", NEW s \in Scenes,
           AddDirtyScene(s) \/ RemoveDirtyScene(s)
    PROVE  /\ dirtyScenes' \subseteq Scenes
           /\ hasDirty' \in BOOLEAN
           /\ HasDirtyInv'
BY DEF CollectorTypes, HasDirtyInv, AddDirtyScene, RemoveDirtyScene

(* A step that leaves the variables of a part alone keeps their types. *)
LEMMA TypeFrame ==
    /\ ToolkitTypes
       /\ UNCHANGED <<toolkitVars, pulseVars, pulseRunning, fx, posted, post>> => ToolkitTypes'
    /\ CollectorTypes /\ HasDirtyInv
       /\ UNCHANGED <<collectorVars, fx, todo, latch>> => CollectorTypes' /\ HasDirtyInv'
    /\ SceneTypes /\ UNCHANGED <<graphVars, painting, painterVars>> => SceneTypes'
    /\ RendererTypes /\ UNCHANGED <<jobs, qrVars>> => RendererTypes'
BY DEF ToolkitTypes, CollectorTypes, HasDirtyInv, SceneTypes, RendererTypes, Pulse

(* The pulse timer, and the threads that post pulses. *)
LEMMA PostersType ==
    ASSUME TypeInv, PulseTimer \/ \E p \in Posters : PostingPulse(p)
    PROVE  TypeInv'
<1>1. CASE PulseTimer
  <2>1. ToolkitTypes'
    BY <1>1 DEF PulseTimer, ToolkitTypes, Posters, Pulse
  <2>2. CollectorTypes' /\ HasDirtyInv' /\ SceneTypes' /\ RendererTypes'
    BY <1>1, TypeFrame DEF PulseTimer
  <2>3. QED
    BY <2>1, <2>2
<1>2. ASSUME NEW p \in Posters, SetPulseRunning(p)
      PROVE  TypeInv'
  <2>1. ToolkitTypes'
    BY <1>2 DEF SetPulseRunning, ToolkitTypes, Posters, Pulse, MayPost
  <2>2. CollectorTypes' /\ HasDirtyInv' /\ SceneTypes' /\ RendererTypes'
    BY <1>2, TypeFrame DEF SetPulseRunning
  <2>3. QED
    BY <2>1, <2>2
<1>3. ASSUME NEW p \in Posters, PostPulse(p)
      PROVE  TypeInv'
  <2>1. ToolkitTypes'
    BY <1>3, AppendProperties DEF PostPulse, ToolkitTypes, Posters, Pulse
  <2>2. CollectorTypes' /\ HasDirtyInv' /\ SceneTypes' /\ RendererTypes'
    BY <1>3, TypeFrame DEF PostPulse
  <2>3. QED
    BY <2>1, <2>2
<1>4. QED
  BY <1>1, <1>2, <1>3 DEF PostingPulse

(* What the FX thread does between pulses. *)
LEMMA FxHandlerType ==
    ASSUME TypeInv, FxHandler
    PROVE  TypeInv'
<1>1. ASSUME NEW s \in Scenes, SceneModified(s)
      PROVE  TypeInv'
  <2>1. ToolkitTypes'
    BY <1>1 DEF SceneModified, ToolkitTypes, Posters, Pulse, RequestNextPulse, SceneTypes
  <2>2. SceneTypes'
    BY <1>1 DEF SceneModified, SceneTypes
  <2>3. CollectorTypes' /\ HasDirtyInv' /\ RendererTypes'
    BY <1>1, TypeFrame DEF SceneModified
  <2>4. QED
    BY <2>1, <2>2, <2>3
<1>2. ASSUME NEW s \in Scenes, ViewRepaint(s)
      PROVE  TypeInv'
  <2>1. CollectorTypes' /\ HasDirtyInv'
    <3>1. dirtyScenes' \subseteq Scenes /\ hasDirty' \in BOOLEAN /\ HasDirtyInv'
      BY <1>2, DirtySceneTypes DEF ViewRepaint, EntireSceneNeedsRepaint, SceneChanged
    <3>2. QED
      BY <1>2, <3>1 DEF ViewRepaint, CollectorTypes, HasDirtyInv
  <2>2. SceneTypes'
    BY <1>2 DEF ViewRepaint, SceneTypes, EntireSceneNeedsRepaint
  <2>3. ToolkitTypes' /\ RendererTypes'
    BY <1>2, TypeFrame DEF ViewRepaint
  <2>4. QED
    BY <2>1, <2>2, <2>3
<1>3. ASSUME NEW s \in Scenes, DetachScene(s)
      PROVE  TypeInv'
  <2>1. CollectorTypes' /\ HasDirtyInv'
    <3>1. dirtyScenes' \subseteq Scenes /\ hasDirty' \in BOOLEAN /\ HasDirtyInv'
      BY <1>3, DirtySceneTypes DEF DetachScene
    <3>2. QED
      BY <1>3, <3>1 DEF DetachScene, CollectorTypes, HasDirtyInv
  <2>2. SceneTypes'
    BY <1>3 DEF DetachScene, SceneTypes
  <2>3. ToolkitTypes' /\ RendererTypes'
    BY <1>3, TypeFrame DEF DetachScene
  <2>4. QED
    BY <2>1, <2>2, <2>3
<1>4. ASSUME NEW s \in Scenes, DisposeScene(s)
      PROVE  TypeInv'
  <2>1. SceneTypes'
    BY <1>4 DEF DisposeScene, SceneTypes
  <2>2. ToolkitTypes' /\ CollectorTypes' /\ HasDirtyInv' /\ RendererTypes'
    BY <1>4, TypeFrame DEF DisposeScene
  <2>3. QED
    BY <2>1, <2>2
<1>5. ASSUME NEW b \in BOOLEAN, SetAnimationRunnable(b)
      PROVE  TypeInv'
  <2>1. ToolkitTypes'
    BY <1>5 DEF SetAnimationRunnable, ToolkitTypes, Posters, Pulse
  <2>2. CollectorTypes' /\ HasDirtyInv' /\ SceneTypes' /\ RendererTypes'
    BY <1>5, TypeFrame DEF SetAnimationRunnable
  <2>3. QED
    BY <2>1, <2>2
<1>6. CASE Exit
  <2>1. ToolkitTypes'
    BY <1>6 DEF Exit, ToolkitTypes, Posters, Pulse
  <2>2. CollectorTypes' /\ HasDirtyInv'
    BY <1>6 DEF Exit, CollectorTypes, HasDirtyInv
  <2>3. SceneTypes' /\ RendererTypes'
    BY <1>6, TypeFrame DEF Exit
  <2>4. QED
    BY <2>1, <2>2, <2>3
<1>7. QED
  BY <1>1, <1>2, <1>3, <1>4, <1>5, <1>6 DEF FxHandler

(* A pulse, the runnables of the render thread, and exit. *)
LEMMA FxContinueType ==
    ASSUME TypeInv, FxContinue
    PROVE  TypeInv'
<1>1. CASE RepaintRunnable
  <2>1. ToolkitTypes'
    BY <1>1, HeadTailProperties DEF RepaintRunnable, ToolkitTypes, Posters, Pulse
  <2>2. CollectorTypes' /\ HasDirtyInv'
    <3>1. Head(posted) \in Scenes
      BY <1>1, HeadTailProperties DEF RepaintRunnable, ToolkitTypes, Pulse
    <3>2. dirtyScenes' \subseteq Scenes /\ hasDirty' \in BOOLEAN /\ HasDirtyInv'
      BY <1>1, <3>1, DirtySceneTypes DEF RepaintRunnable, EntireSceneNeedsRepaint, SceneChanged
    <3>3. QED
      BY <1>1, <3>2 DEF RepaintRunnable, CollectorTypes, HasDirtyInv
  <2>3. SceneTypes'
    BY <1>1, HeadTailProperties DEF RepaintRunnable, SceneTypes, EntireSceneNeedsRepaint
  <2>4. RendererTypes'
    BY <1>1, TypeFrame DEF RepaintRunnable
  <2>5. QED
    BY <2>1, <2>2, <2>3, <2>4
<1>2. CASE RenderAll
  <2>1. ToolkitTypes'
    BY <1>2 DEF RenderAll, ToolkitTypes, Posters, Pulse
  <2>2. CollectorTypes' /\ HasDirtyInv'
    <3>1. /\ Cardinality(dirtyScenes) \in Nat
          /\ Cardinality(Scenes) \in Nat
          /\ Cardinality(dirtyScenes) <= Cardinality(Scenes)
      BY RenderAssumption, FS_Subset, FS_CardinalityType DEF CollectorTypes
    <3>2. latch' \in 0 .. Cardinality(Scenes)
      BY <1>2, <3>1 DEF RenderAll, CollectorTypes
    <3>3. QED
      BY <1>2, <3>2 DEF RenderAll, CollectorTypes, HasDirtyInv
  <2>3. SceneTypes' /\ RendererTypes'
    BY <1>2, TypeFrame DEF RenderAll
  <2>4. QED
    BY <2>1, <2>2, <2>3
<1>3. CASE PulseEnds
  <2>1. ToolkitTypes'
    BY <1>3 DEF PulseEnds, ToolkitTypes, Posters, Pulse
  <2>2. CollectorTypes' /\ HasDirtyInv'
    BY <1>3 DEF PulseEnds, CollectorTypes, HasDirtyInv
  <2>3. SceneTypes' /\ RendererTypes'
    BY <1>3, TypeFrame DEF PulseEnds
  <2>4. QED
    BY <2>1, <2>2, <2>3
<1>4. ASSUME NEW D \in SUBSET Scenes, PulseBegins(D)
      PROVE  TypeInv'
  <2>1. ToolkitTypes'
    BY <1>4, HeadTailProperties DEF PulseBegins, ToolkitTypes, Posters, Pulse
  <2>2. CollectorTypes' /\ HasDirtyInv'
    BY <1>4 DEF PulseBegins, CollectorTypes, HasDirtyInv
  <2>3. SceneTypes'
    BY <1>4 DEF PulseBegins, SceneTypes
  <2>4. RendererTypes'
    BY <1>4, TypeFrame DEF PulseBegins
  <2>5. QED
    BY <2>1, <2>2, <2>3, <2>4
<1>5. ASSUME NEW s \in Scenes, Repaint(s)
      PROVE  TypeInv'
  <2>1. CollectorTypes' /\ HasDirtyInv'
    BY <1>5 DEF Repaint, CollectorTypes, HasDirtyInv
  <2>2. SceneTypes'
    BY <1>5 DEF Repaint, SceneTypes, MayRepaint
  <2>3. RendererTypes'
    BY <1>5, AppendProperties DEF Repaint, RendererTypes, MayRepaint
  <2>4. ToolkitTypes'
    BY <1>5, TypeFrame DEF Repaint
  <2>5. QED
    BY <2>1, <2>2, <2>3, <2>4
<1>6. ASSUME NEW s \in Scenes, NEW D \in SUBSET Scenes, ScenePulse(s, D)
      PROVE  TypeInv'
  <2>1. ToolkitTypes'
    BY <1>6 DEF ScenePulse, ToolkitTypes, Posters, Pulse, RequestNextPulse
  <2>2. CollectorTypes' /\ HasDirtyInv'
    <3>1. CASE changed[s] \/ s \in D
      <4>1. dirtyScenes' \subseteq Scenes /\ hasDirty' \in BOOLEAN /\ HasDirtyInv'
        BY <1>6, <3>1, DirtySceneTypes DEF ScenePulse, SceneChanged
      <4>2. QED
        BY <1>6, <4>1 DEF ScenePulse, CollectorTypes, HasDirtyInv
    <3>2. CASE ~(changed[s] \/ s \in D)
      BY <1>6, <3>2 DEF ScenePulse, CollectorTypes, HasDirtyInv
    <3>3. QED
      BY <3>1, <3>2
  <2>3. SceneTypes'
    <3>1. changed' \in [Scenes -> BOOLEAN]
      BY <1>6 DEF ScenePulse, SceneTypes
    <3>2. unpainted' \in [Scenes -> BOOLEAN]
      BY <1>6 DEF ScenePulse, SceneTypes
    <3>3. UNCHANGED <<life, painting, exposed, entireSceneDirty, freshBackBuffer>>
      BY <1>6 DEF ScenePulse
    <3>4. QED
      BY <3>1, <3>2, <3>3 DEF SceneTypes
  <2>4. RendererTypes'
    BY <1>6, TypeFrame DEF ScenePulse
  <2>5. QED
    BY <2>1, <2>2, <2>3, <2>4
<1>7. CASE WaitForRenderingToComplete
  <2>1. ToolkitTypes'
    BY <1>7 DEF WaitForRenderingToComplete, ToolkitTypes, Posters, Pulse
  <2>2. CollectorTypes' /\ HasDirtyInv'
    BY <1>7 DEF WaitForRenderingToComplete, CollectorTypes, HasDirtyInv
  <2>3. SceneTypes' /\ RendererTypes'
    BY <1>7, TypeFrame DEF WaitForRenderingToComplete
  <2>4. QED
    BY <2>1, <2>2, <2>3
<1>8. CASE Terminate
  <2>1. ToolkitTypes'
    BY <1>8 DEF Terminate, ToolkitTypes, Posters, Pulse
  <2>2. CollectorTypes' /\ HasDirtyInv'
    BY <1>8 DEF Terminate, CollectorTypes, HasDirtyInv
  <2>3. SceneTypes'
    BY <1>8 DEF Terminate, SceneTypes
  <2>4. RendererTypes'
    BY <1>8, TypeFrame DEF Terminate
  <2>5. QED
    BY <2>1, <2>2, <2>3, <2>4
<1>9. QED
  BY <1>1, <1>2, <1>3, <1>4, <1>5, <1>6, <1>7, <1>8 DEF FxContinue

(* The render thread. *)
LEMMA RendererType ==
    ASSUME TypeInv, Renderer
    PROVE  TypeInv'
<1>1. CASE TakeJob
  <2>1. RendererTypes'
    BY <1>1, HeadTailProperties DEF TakeJob, RendererTypes
  <2>2. ToolkitTypes' /\ CollectorTypes' /\ HasDirtyInv' /\ SceneTypes'
    BY <1>1, TypeFrame DEF TakeJob
  <2>3. QED
    BY <2>1, <2>2
<1>2. CASE Lock
  <2>1. RendererTypes'
    BY <1>2 DEF Lock, RendererTypes
  <2>2. ToolkitTypes' /\ CollectorTypes' /\ HasDirtyInv' /\ SceneTypes'
    BY <1>2, TypeFrame DEF Lock
  <2>3. QED
    BY <2>1, <2>2
<1>3. CASE DeviceNotReady
  <2>1. ToolkitTypes'
    BY <1>3, AppendProperties DEF DeviceNotReady, ToolkitTypes, Posters, Pulse, RendererTypes, RunLaterRepaint
  <2>2. SceneTypes'
    BY <1>3 DEF DeviceNotReady, SceneTypes
  <2>3. RendererTypes'
    BY <1>3, RenderAssumption DEF DeviceNotReady, RendererTypes
  <2>4. CollectorTypes' /\ HasDirtyInv'
    BY <1>3, TypeFrame DEF DeviceNotReady
  <2>5. QED
    BY <2>1, <2>2, <2>3, <2>4
<1>4. CASE RenderEverything
  <2>1. RendererTypes'
    BY <1>4 DEF RenderEverything, RendererTypes, SceneTypes
  <2>2. ToolkitTypes' /\ CollectorTypes' /\ HasDirtyInv' /\ SceneTypes'
    BY <1>4, TypeFrame DEF RenderEverything
  <2>3. QED
    BY <2>1, <2>2
<1>5. CASE DoPaint
  <2>1. SceneTypes'
    BY <1>5 DEF DoPaint, SceneTypes
  <2>2. RendererTypes'
    BY <1>5 DEF DoPaint, RendererTypes
  <2>3. ToolkitTypes' /\ CollectorTypes' /\ HasDirtyInv'
    BY <1>5, TypeFrame DEF DoPaint
  <2>4. QED
    BY <2>1, <2>2, <2>3
<1>6. CASE PresentFails
  <2>1. ToolkitTypes'
    BY <1>6, AppendProperties DEF PresentFails, ToolkitTypes, Posters, Pulse, RendererTypes, RunLaterRepaint
  <2>2. SceneTypes'
    BY <1>6 DEF PresentFails, SceneTypes
  <2>3. RendererTypes'
    <3>1. failures' \in 0 .. MaxFailures
      BY <1>6, RenderAssumption DEF PresentFails, RendererTypes
    <3>2. QED
      BY <1>6, <3>1 DEF PresentFails, RendererTypes
  <2>4. CollectorTypes' /\ HasDirtyInv'
    BY <1>6, TypeFrame DEF PresentFails
  <2>5. QED
    BY <2>1, <2>2, <2>3, <2>4
<1>7. CASE SetPainting
  <2>1. SceneTypes'
    BY <1>7 DEF SetPainting, SceneTypes
  <2>2. RendererTypes'
    BY <1>7 DEF SetPainting, RendererTypes
  <2>3. ToolkitTypes' /\ CollectorTypes' /\ HasDirtyInv'
    BY <1>7, TypeFrame DEF SetPainting
  <2>4. QED
    BY <2>1, <2>2, <2>3
<1>8. CASE Unlock
  <2>1. RendererTypes'
    BY <1>8 DEF Unlock, RendererTypes
  <2>2. ToolkitTypes' /\ CollectorTypes' /\ HasDirtyInv' /\ SceneTypes'
    BY <1>8, TypeFrame DEF Unlock
  <2>3. QED
    BY <2>1, <2>2
<1>9. CASE Done
  <2>1. ToolkitTypes'
    BY <1>9 DEF Done, ToolkitTypes, Posters, Pulse
  <2>2. RendererTypes'
    BY <1>9 DEF Done, RendererTypes
  <2>3. CollectorTypes' /\ HasDirtyInv' /\ SceneTypes'
    BY <1>9, TypeFrame DEF Done
  <2>4. QED
    BY <2>1, <2>2, <2>3
<1>10. CASE NotifyRenderingFinished
  <2>1. RendererTypes'
    BY <1>10 DEF NotifyRenderingFinished, RendererTypes
  <2>2. ToolkitTypes' /\ CollectorTypes' /\ HasDirtyInv' /\ SceneTypes'
    BY <1>10, TypeFrame DEF NotifyRenderingFinished
  <2>3. QED
    BY <2>1, <2>2
<1>11. CASE CountDown
  <2>1. CollectorTypes' /\ HasDirtyInv'
    BY <1>11, RenderAssumption, FS_CardinalityType DEF CountDown, CollectorTypes, HasDirtyInv
  <2>2. RendererTypes'
    BY <1>11 DEF CountDown, RendererTypes
  <2>3. ToolkitTypes' /\ SceneTypes'
    BY <1>11, TypeFrame DEF CountDown
  <2>4. QED
    BY <2>1, <2>2, <2>3
<1>12. QED
  BY <1>1, <1>2, <1>3, <1>4, <1>5, <1>6, <1>7, <1>8, <1>9, <1>10, <1>11 DEF Renderer

LEMMA TypeStep == TypeInv /\ [Next]_vars => TypeInv'
<1> SUFFICES ASSUME TypeInv, [Next]_vars PROVE TypeInv'
  OBVIOUS
<1>1. CASE UNCHANGED vars
  BY <1>1, TypeFrame DEF vars
<1>2. QED
  BY <1>1, PostersType, FxHandlerType, FxContinueType, RendererType DEF Next

(* The program's state is always of its type: in particular the latch never  *)
(* counts more than the scenes there are, and hasDirty is never set while    *)
(* PaintCollector has no dirty scene.                                        *)
THEOREM TypeCorrect == Spec => []TypeOK
<1>1. Init => TypeInv
  BY InitTypeInv
<1>2. TypeInv /\ [Next]_vars => TypeInv'
  BY TypeStep
<1>3. TypeInv => TypeOK
  OBVIOUS
<1> HIDE DEF TypeInv, TypeOK
<1>4. QED
  BY <1>1, <1>2, <1>3, PTL DEF Spec

-----------------------------------------------------------------------------
(* Sequences as sets of elements *)

LEMMA ElementsEmpty == Elements(<< >>) = {} /\ Distinct(<< >>)
BY DEF Elements, Distinct

LEMMA ElementsAppend ==
    ASSUME NEW S, NEW q \in Seq(S), NEW x \in S
    PROVE  /\ Elements(Append(q, x)) = Elements(q) \cup {x}
           /\ Distinct(q) /\ x \notin Elements(q) => Distinct(Append(q, x))
<1>1. /\ Len(q) \in Nat
      /\ Len(Append(q, x)) = Len(q) + 1
      /\ \A i \in 1 .. Len(q) : Append(q, x)[i] = q[i]
      /\ Append(q, x)[Len(q) + 1] = x
  BY AppendProperties, LenProperties
<1>2. Elements(Append(q, x)) = Elements(q) \cup {x}
  BY <1>1 DEF Elements
<1>3. ASSUME Distinct(q), x \notin Elements(q)
      PROVE  Distinct(Append(q, x))
  BY <1>1, <1>3 DEF Elements, Distinct
<1>4. QED
  BY <1>2, <1>3

LEMMA ElementsTail ==
    ASSUME NEW S, NEW q \in Seq(S), q # << >>
    PROVE  /\ Elements(q) = {Head(q)} \cup Elements(Tail(q))
           /\ Distinct(q) => Distinct(Tail(q)) /\ Head(q) \notin Elements(Tail(q))
<1>1. /\ Len(q) \in Nat \ {0}
      /\ Len(Tail(q)) = Len(q) - 1
      /\ \A i \in 1 .. Len(q) - 1 : Tail(q)[i] = q[i + 1]
      /\ Head(q) = q[1]
  BY HeadTailProperties, LenProperties, EmptySeq
<1>2. Elements(q) = {Head(q)} \cup Elements(Tail(q))
  <2>1. ASSUME NEW i \in 1 .. Len(q)
        PROVE  q[i] \in {Head(q)} \cup Elements(Tail(q))
    <3>1. CASE i = 1
      BY <1>1, <3>1
    <3>2. CASE i # 1
      BY <1>1, <3>2, i - 1 \in 1 .. Len(q) - 1, Tail(q)[i - 1] = q[i] DEF Elements
    <3>3. QED
      BY <3>1, <3>2
  <2>2. ASSUME NEW i \in 1 .. Len(Tail(q))
        PROVE  Tail(q)[i] \in Elements(q)
    BY <1>1, i + 1 \in 1 .. Len(q), Tail(q)[i] = q[i + 1] DEF Elements
  <2>3. Head(q) \in Elements(q)
    BY <1>1 DEF Elements
  <2>4. QED
    BY <2>1, <2>2, <2>3 DEF Elements
<1>3. ASSUME Distinct(q)
      PROVE  Distinct(Tail(q)) /\ Head(q) \notin Elements(Tail(q))
  <2>1. Distinct(Tail(q))
    BY <1>1, <1>3 DEF Distinct
  <2>2. Head(q) \notin Elements(Tail(q))
    BY <1>1, <1>3 DEF Elements, Distinct
  <2>3. QED
    BY <2>1, <2>2
<1>4. QED
  BY <1>2, <1>3

LEMMA ElementsCount ==
    ASSUME NEW S, NEW q \in Seq(S)
    PROVE  IsFiniteSet(Elements(q)) /\ Cardinality(Elements(q)) <= Len(q)
<1>1. Len(q) \in Nat /\ q \in [1 .. Len(q) -> S]
  BY LenProperties
<1>2. q \in Surjection(1 .. Len(q), Elements(q))
  <2>1. q \in [1 .. Len(q) -> Elements(q)]
    BY <1>1 DEF Elements
  <2>2. \A e \in Elements(q) : \E i \in 1 .. Len(q) : q[i] = e
    BY DEF Elements
  <2>3. QED
    BY <2>1, <2>2 DEF Surjection
<1>3. IsFiniteSet(1 .. Len(q)) /\ Cardinality(1 .. Len(q)) = Len(q)
  <2>1. 1 \in Int /\ Len(q) \in Int
    BY <1>1
  <2>2. /\ IsFiniteSet(1 .. Len(q))
        /\ Cardinality(1 .. Len(q)) = IF 1 > Len(q) THEN 0 ELSE Len(q) - 1 + 1
    BY ONLY <2>1, FS_Interval
  <2>3. QED
    BY <1>1, <2>2
<1>4. QED
  BY <1>2, <1>3, FS_Surjection

-----------------------------------------------------------------------------
(* Jobs *)

(* Only Repaint and the render thread touch the queue, the job in hand and   *)
(* the painting flags.                                                       *)
LEMMA QueueFrame ==
    ASSUME PulseTimer \/ (\E p \in Posters : PostingPulse(p)) \/ FxHandler \/ FxContinue
    PROVE  UNCHANGED <<jobs, painting, qrVars>> \/ \E s \in Scenes : Repaint(s)
<1>1. CASE PulseTimer
  BY <1>1 DEF PulseTimer
<1>2. ASSUME NEW p \in Posters, PostingPulse(p)
      PROVE  UNCHANGED <<jobs, painting, qrVars>>
  BY <1>2 DEF PostingPulse, SetPulseRunning, PostPulse
<1>3. CASE FxHandler
  BY <1>3 DEF FxHandler, SceneModified, ViewRepaint, DetachScene, DisposeScene,
              SetAnimationRunnable, Exit
<1>4. CASE FxContinue
  BY <1>4 DEF FxContinue, RepaintRunnable, RenderAll, PulseEnds, PulseBegins, ScenePulse,
              WaitForRenderingToComplete, Terminate
<1>5. QED
  BY <1>1, <1>2, <1>3, <1>4

LEMMA InitJobInv == Init => JobInv
BY ElementsEmpty DEF Init, JobInv, Painter

LEMMA JobStep ==
    ASSUME TypeInv, JobInv, Next
    PROVE  JobInv'
<1>1. ASSUME NEW s \in Scenes, Repaint(s)
      PROVE  JobInv'
  <2>1. CASE MayRepaint(s)
    <3>1. s \notin Elements(jobs) /\ ~Painter(s)
      BY <2>1 DEF JobInv, MayRepaint
    <3>2. Elements(jobs') = Elements(jobs) \cup {s} /\ Distinct(jobs')
      <4>1. jobs' = Append(jobs, s) /\ jobs \in Seq(Scenes) /\ Distinct(jobs)
        BY <1>1, <2>1 DEF Repaint, JobInv, RendererTypes
      <4>2. QED
        BY <3>1, <4>1, ElementsAppend
    <3>3. UNCHANGED <<rpc, job>> /\ painting' = [painting EXCEPT ![s] = TRUE]
      BY <1>1, <2>1 DEF Repaint
    <3>4. \A t \in Scenes : Painter(t)' <=> Painter(t)
      BY <3>3 DEF Painter
    <3>5. ASSUME NEW t \in Scenes
          PROVE  /\ painting'[t] <=> t \in Elements(jobs') \/ Painter(t)'
                 /\ ~(t \in Elements(jobs') /\ Painter(t)')
      BY <3>1, <3>2, <3>3, <3>4 DEF JobInv, SceneTypes
    <3>6. QED
      BY <3>2, <3>3, <3>5 DEF JobInv
  <2>2. CASE ~MayRepaint(s)
    BY <1>1, <2>2 DEF Repaint, JobInv, Painter
  <2>3. QED
    BY <2>1, <2>2
<1>2. CASE TakeJob
  <2>1. /\ Elements(jobs) = {job'} \cup Elements(jobs')
        /\ Distinct(jobs') /\ job' \notin Elements(jobs')
        /\ job' \in Scenes
    BY <1>2, ElementsTail, HeadTailProperties DEF TakeJob, JobInv, RendererTypes
  <2>2. rpc = "idle" /\ rpc' = "lock" /\ UNCHANGED painting
    BY <1>2 DEF TakeJob
  <2>3. QED
    BY <2>1, <2>2, RenderAssumption DEF JobInv, Painter
<1>3. CASE SetPainting
  <2>1. /\ rpc = "setPainting" /\ rpc' = "unlock" /\ UNCHANGED <<job, jobs>>
        /\ painting' = [painting EXCEPT ![job] = FALSE]
    BY <1>3 DEF SetPainting
  <2>2. job \in Scenes /\ job \notin Elements(jobs)
    BY <2>1 DEF JobInv, Painter, RendererTypes
  <2>3. QED
    BY <2>1, <2>2 DEF JobInv, Painter, SceneTypes
<1>4. CASE Lock
  BY <1>4 DEF Lock, JobInv, Painter, RendererTypes
<1>5. CASE DeviceNotReady
  BY <1>5 DEF DeviceNotReady, JobInv, Painter, RendererTypes
<1>6. CASE RenderEverything
  BY <1>6 DEF RenderEverything, JobInv, Painter, RendererTypes
<1>7. CASE DoPaint
  BY <1>7 DEF DoPaint, JobInv, Painter, RendererTypes
<1>8. CASE PresentFails
  BY <1>8 DEF PresentFails, JobInv, Painter, RendererTypes
<1>9. CASE Unlock
  BY <1>9 DEF Unlock, JobInv, Painter, RendererTypes
<1>10. CASE Done
  BY <1>10 DEF Done, JobInv, Painter, RendererTypes
<1>11. CASE NotifyRenderingFinished
  BY <1>11 DEF NotifyRenderingFinished, JobInv, Painter, RendererTypes
<1>12. CASE CountDown
  BY <1>12 DEF CountDown, JobInv, Painter, RendererTypes
<1>13. ASSUME UNCHANGED <<jobs, painting, qrVars>>
       PROVE  JobInv'
  BY <1>13 DEF JobInv, Painter
<1>14. QED
  BY <1>1, <1>2, <1>3, <1>4, <1>5, <1>6, <1>7, <1>8, <1>9, <1>10, <1>11, <1>12, <1>13,
     QueueFrame DEF Next, Renderer

(* What the flags and the queue say gives the count of jobs. *)
LEMMA JobCount == TypeInv /\ JobInv => PaintingMeansJob
<1> SUFFICES ASSUME TypeInv, JobInv, NEW s \in Scenes
             PROVE  Cardinality({i \in 1 .. Len(jobs) : jobs[i] = s})
                       + (IF Painter(s) THEN 1 ELSE 0) = IF painting[s] THEN 1 ELSE 0
  BY DEF PaintingMeansJob
<1> DEFINE I == {i \in 1 .. Len(jobs) : jobs[i] = s}
<1>1. CASE s \in Elements(jobs)
  <2>1. PICK i \in 1 .. Len(jobs) : jobs[i] = s
    BY <1>1 DEF Elements
  <2>2. I = {i}
    BY <2>1 DEF JobInv, Distinct
  <2>3. Cardinality(I) = 1
    BY <2>2, FS_Singleton
  <2>4. painting[s] /\ ~Painter(s)
    BY <1>1 DEF JobInv
  <2>5. QED
    BY <2>3, <2>4
<1>2. CASE s \notin Elements(jobs)
  <2>1. I = {}
    BY <1>2 DEF Elements
  <2>2. Cardinality(I) = 0
    BY <2>1, FS_EmptySet
  <2>3. painting[s] <=> Painter(s)
    BY <1>2 DEF JobInv
  <2>4. QED
    BY <2>2, <2>3
<1>3. QED
  BY <1>1, <1>2

(* For every set of scenes, a scene's painting flag is set exactly while it  *)
(* has a job in the queue or in the painter's hands, and it never has two:   *)
(* ViewScene.repaint and PresentingPainter.run agree, although one runs on   *)
(* the FX thread and the other on the render thread.                         *)
THEOREM OneJobForEachScene == Spec => []PaintingMeansJob
<1>1. Init => TypeInv /\ JobInv
  BY InitTypeInv, InitJobInv
<1>2. TypeInv /\ JobInv /\ [Next]_vars => TypeInv' /\ JobInv'
  <2>1. ASSUME JobInv, UNCHANGED vars
        PROVE  JobInv'
    BY <2>1 DEF vars, JobInv, Painter
  <2>2. QED
    BY <2>1, TypeStep, JobStep
<1>3. TypeInv /\ JobInv => PaintingMeansJob
  BY JobCount
<1> HIDE DEF TypeInv
<1>4. QED
  BY <1>1, <1>2, <1>3, PTL DEF Spec

-----------------------------------------------------------------------------
(* Pulses *)

LEMMA OnceAppend ==
    ASSUME NEW S, NEW q \in Seq(S), NEW x \in S, OncePulse(q),
           x # Pulse \/ Pulse \notin Elements(q)
    PROVE  OncePulse(Append(q, x))
<1>1. /\ Len(q) \in Nat
      /\ Len(Append(q, x)) = Len(q) + 1
      /\ \A i \in 1 .. Len(q) : Append(q, x)[i] = q[i]
      /\ Append(q, x)[Len(q) + 1] = x
  BY AppendProperties, LenProperties
<1>2. QED
  BY <1>1 DEF OncePulse, Elements

LEMMA OnceTail ==
    ASSUME NEW S, NEW q \in Seq(S), q # << >>, OncePulse(q)
    PROVE  OncePulse(Tail(q)) /\ (Head(q) = Pulse => Pulse \notin Elements(Tail(q)))
<1>1. /\ Len(q) \in Nat \ {0}
      /\ Len(Tail(q)) = Len(q) - 1
      /\ \A i \in 1 .. Len(q) - 1 : Tail(q)[i] = q[i + 1]
      /\ Head(q) = q[1]
  BY HeadTailProperties, LenProperties, EmptySeq
<1>2. QED
  BY <1>1 DEF OncePulse, Elements

LEMMA InitPulseInv == Init => PosterInv /\ TokenInv
BY ElementsEmpty DEF Init, PosterInv, TokenInv, ToBePosted, Posted, InPulse, OncePulse, Posters

(* vsyncHint() is called by the last job of a frame, which waits until its   *)
(* pulse is posted.                                                          *)
LEMMA PosterStep ==
    ASSUME TypeInv, PosterInv, Next
    PROVE  PosterInv'
<1>1. CASE PulseTimer
  BY <1>1 DEF PulseTimer, PosterInv, ToolkitTypes, Posters
<1>2. ASSUME NEW p \in Posters, PostingPulse(p)
      PROVE  PosterInv'
  BY <1>2 DEF PostingPulse, SetPulseRunning, PostPulse, PosterInv, ToolkitTypes, Posters
<1>3. CASE FxHandler
  BY <1>3 DEF FxHandler, SceneModified, ViewRepaint, DetachScene, DisposeScene,
              SetAnimationRunnable, Exit, PosterInv
<1>4. CASE FxContinue
  BY <1>4 DEF FxContinue, RepaintRunnable, RenderAll, PulseEnds, PulseBegins, ScenePulse,
              Repaint, WaitForRenderingToComplete, Terminate, PosterInv
<1>5. CASE Renderer
  <2>1. CASE Done
    BY <2>1 DEF Done, PosterInv
  <2>2. CASE NotifyRenderingFinished
    BY <2>2 DEF NotifyRenderingFinished, PosterInv
  <2>3. CASE TakeJob \/ Lock \/ RenderEverything \/ SetPainting \/ Unlock \/ CountDown
    BY <2>3 DEF TakeJob, Lock, RenderEverything, SetPainting, Unlock, CountDown, PosterInv
  <2>4. CASE DeviceNotReady \/ DoPaint \/ PresentFails
    BY <2>4 DEF DeviceNotReady, DoPaint, PresentFails, PosterInv
  <2>5. QED
    BY <1>5, <2>1, <2>2, <2>3, <2>4 DEF Renderer
<1>6. QED
  BY <1>1, <1>2, <1>3, <1>4, <1>5 DEF Next

(* What does not post, take, run or end a pulse, nor end the application,    *)
(* leaves it where it is.                                                    *)
LEMMA TokenFrame ==
    ASSUME TokenInv, UNCHANGED <<application, pulseRunning, post, posted>>,
           InPulse' <=> InPulse
    PROVE  TokenInv'
BY DEF TokenInv, ToBePosted, Posted

LEMMA TokenStep ==
    ASSUME TypeInv, JobInv, PosterInv, TokenInv, Next
    PROVE  TokenInv'
<1>1. CASE PulseTimer
  BY <1>1 DEF PulseTimer, TokenInv, ToBePosted, Posted, InPulse, ToolkitTypes, Posters
<1>2. ASSUME NEW p \in Posters, SetPulseRunning(p)
      PROVE  TokenInv'
  BY <1>2 DEF SetPulseRunning, MayPost, TokenInv, ToBePosted, Posted, InPulse, ToolkitTypes, Posters
<1>3. ASSUME NEW p \in Posters, PostPulse(p)
      PROVE  TokenInv'
  <2> SUFFICES ASSUME application' PROVE TokenInv'
    BY DEF TokenInv
  <2>1. application /\ posted' = Append(posted, Pulse) /\ UNCHANGED <<fx, pulseRunning>>
    BY <1>3 DEF PostPulse
  <2>2. ToBePosted /\ ~ToBePosted'
    BY <1>3, <2>1 DEF PostPulse, TokenInv, ToBePosted, ToolkitTypes, Posters
  <2>3. Elements(posted') = Elements(posted) \cup {Pulse}
    BY <2>1, ElementsAppend DEF ToolkitTypes
  <2>4. OncePulse(posted')
    BY <2>1, <2>2, OnceAppend DEF ToolkitTypes, TokenInv, Posted
  <2>5. QED
    BY <2>1, <2>2, <2>3, <2>4 DEF TokenInv, Posted, InPulse, ToBePosted
<1>4. CASE FxHandler
  <2>1. UNCHANGED <<application, pulseRunning, post, posted>> /\ (InPulse' <=> InPulse)
    BY <1>4 DEF FxHandler, SceneModified, ViewRepaint, DetachScene, DisposeScene,
                SetAnimationRunnable, Exit, InPulse
  <2>2. QED
    BY <2>1, TokenFrame
<1>5. CASE RepaintRunnable
  <2>1. posted # << >> /\ Head(posted) # Pulse /\ posted' = Tail(posted)
    BY <1>5 DEF RepaintRunnable
  <2>2. UNCHANGED <<application, pulseRunning, post, fx>>
    BY <1>5 DEF RepaintRunnable
  <2>3. Posted' <=> Posted
    BY <2>1, ElementsTail DEF Posted, ToolkitTypes
  <2>4. application => OncePulse(posted')
    BY <2>1, OnceTail DEF TokenInv, ToolkitTypes
  <2>5. QED
    BY <2>2, <2>3, <2>4 DEF TokenInv, ToBePosted, InPulse
<1>6. ASSUME NEW D \in SUBSET Scenes, PulseBegins(D)
      PROVE  TokenInv'
  <2>1. posted # << >> /\ Head(posted) = Pulse /\ posted' = Tail(posted)
    BY <1>6 DEF PulseBegins
  <2>2. UNCHANGED <<application, pulseRunning, post>> /\ fx = "idle" /\ fx' = "pulse"
    BY <1>6 DEF PulseBegins
  <2>3. Posted
    BY <2>1, ElementsTail DEF Posted, ToolkitTypes
  <2>4. application => OncePulse(posted') /\ ~Posted'
    BY <2>1, OnceTail DEF TokenInv, ToolkitTypes, Posted
  <2>5. QED
    BY <2>2, <2>3, <2>4 DEF TokenInv, ToBePosted, InPulse
<1>7. CASE PulseEnds
  BY <1>7 DEF PulseEnds, TokenInv, ToBePosted, Posted, InPulse
<1>8. CASE Terminate
  BY <1>8 DEF Terminate, TokenInv
<1>9. CASE RenderAll \/ WaitForRenderingToComplete
           \/ \E s \in Scenes : Repaint(s) \/ \E D \in SUBSET Scenes : ScenePulse(s, D)
  <2>1. UNCHANGED <<application, pulseRunning, post, posted>> /\ (InPulse' <=> InPulse)
    BY <1>9 DEF Repaint, ScenePulse, RenderAll, WaitForRenderingToComplete, InPulse
  <2>2. QED
    BY <2>1, TokenFrame
<1>10. CASE DeviceNotReady \/ PresentFails
  <2>1. job \in Scenes /\ job # Pulse
    BY <1>10, RenderAssumption DEF DeviceNotReady, PresentFails, JobInv, RendererTypes, Pulse
  <2>2. /\ posted' = posted \/ posted' = Append(posted, job)
        /\ UNCHANGED <<application, pulseRunning, post, fx>>
    BY <1>10 DEF DeviceNotReady, PresentFails, RunLaterRepaint
  <2>3. CASE posted' = posted
    BY <2>2, <2>3, TokenFrame DEF InPulse
  <2>4. CASE posted' = Append(posted, job)
    <3>1. Elements(posted') = Elements(posted) \cup {job}
      BY <2>1, <2>4, ElementsAppend DEF ToolkitTypes
    <3>2. application => OncePulse(posted')
      BY <2>1, <2>4, OnceAppend DEF TokenInv, ToolkitTypes
    <3>3. QED
      BY <2>1, <2>2, <3>1, <3>2 DEF TokenInv, Posted, ToBePosted, InPulse
  <2>5. QED
    BY <2>2, <2>3, <2>4
<1>11. CASE Done
  <2>1. post["renderer"] = "idle"
    BY <1>11 DEF Done, PosterInv
  <2>2. ToBePosted' <=> ToBePosted
    BY <1>11, <2>1 DEF Done, ToBePosted, ToolkitTypes, Posters
  <2>3. post'["renderer"] # "invokeLater"
    BY <1>11, <2>1 DEF Done, ToolkitTypes, Posters
  <2>4. UNCHANGED <<application, pulseRunning, posted, fx>>
    BY <1>11 DEF Done
  <2>5. QED
    BY <2>2, <2>3, <2>4 DEF TokenInv, Posted, InPulse
<1>12. CASE TakeJob \/ Lock \/ RenderEverything \/ DoPaint \/ SetPainting \/ Unlock
            \/ NotifyRenderingFinished \/ CountDown
  <2>1. UNCHANGED <<application, pulseRunning, post, posted, fx>>
    BY <1>12 DEF TakeJob, Lock, RenderEverything, DoPaint, SetPainting, Unlock,
                 NotifyRenderingFinished, CountDown
  <2>2. QED
    BY <2>1, TokenFrame DEF InPulse
<1>13. QED
  <2>1. CASE \E p \in Posters : PostingPulse(p)
    BY <2>1, <1>2, <1>3 DEF PostingPulse
  <2>2. CASE FxContinue
    BY <2>2, <1>5, <1>6, <1>7, <1>8, <1>9 DEF FxContinue
  <2>3. CASE Renderer
    BY <2>3, <1>10, <1>11, <1>12 DEF Renderer
  <2>4. QED
    BY <1>1, <1>4, <2>1, <2>2, <2>3 DEF Next

(* The three places of the pulse give its count. *)
LEMMA PulseCount == TypeInv /\ TokenInv => OnePulse
<1> SUFFICES ASSUME TypeInv, TokenInv, application
             PROVE  Pulses = IF pulseRunning THEN 1 ELSE 0
  BY DEF OnePulse
<1> DEFINE P == {p \in Posters : post[p] = "invokeLater"}
           I == {i \in 1 .. Len(posted) : posted[i] = Pulse}
<1>1. Cardinality(P) = IF ToBePosted THEN 1 ELSE 0
  <2>1. CASE post["timer"] = "invokeLater"
    <3>1. P = {"timer"}
      BY <2>1 DEF TokenInv, Posters
    <3>2. QED
      BY <2>1, <3>1, FS_Singleton DEF ToBePosted
  <2>2. CASE post["renderer"] = "invokeLater"
    <3>1. P = {"renderer"}
      BY <2>2 DEF TokenInv, Posters
    <3>2. QED
      BY <2>2, <3>1, FS_Singleton DEF ToBePosted
  <2>3. CASE ~ToBePosted
    <3>1. P = {}
      BY <2>3 DEF ToBePosted, Posters
    <3>2. QED
      BY <2>3, <3>1, FS_EmptySet
  <2>4. QED
    BY <2>1, <2>2, <2>3 DEF ToBePosted
<1>2. Cardinality(I) = IF Posted THEN 1 ELSE 0
  <2>1. CASE Posted
    <3>1. PICK i \in 1 .. Len(posted) : posted[i] = Pulse
      BY <2>1 DEF Posted, Elements
    <3>2. I = {i}
      BY <3>1 DEF TokenInv, OncePulse
    <3>3. QED
      BY <2>1, <3>2, FS_Singleton
  <2>2. CASE ~Posted
    <3>1. I = {}
      BY <2>2 DEF Posted, Elements
    <3>2. QED
      BY <2>2, <3>1, FS_EmptySet
  <2>3. QED
    BY <2>1, <2>2
<1>3. Pulses = Cardinality(P) + Cardinality(I) + (IF InPulse THEN 1 ELSE 0)
  BY DEF Pulses, InPulse
<1> HIDE DEF P, I
<1>4. /\ pulseRunning <=> ToBePosted \/ Posted \/ InPulse
      /\ ~(ToBePosted /\ (Posted \/ InPulse))
      /\ ~(Posted /\ InPulse)
  BY DEF TokenInv
<1>5. QED
  BY <1>1, <1>2, <1>3, <1>4

(* For every set of scenes: the pulse timer and the render thread's vsync    *)
(* hint never have two pulses under way, and pulseRunning is set exactly     *)
(* while there is one, so that no pulse is refused for ever.                 *)
THEOREM OnePulseAtATime == Spec => []OnePulse
<1> DEFINE Inv == TypeInv /\ JobInv /\ PosterInv /\ TokenInv
<1>1. Init => Inv
  BY InitTypeInv, InitJobInv, InitPulseInv
<1>2. Inv /\ [Next]_vars => Inv'
  <2>1. ASSUME Inv, UNCHANGED vars
        PROVE  JobInv' /\ PosterInv' /\ TokenInv'
    BY <2>1, TokenFrame DEF vars, JobInv, Painter, PosterInv, InPulse
  <2>2. QED
    BY <2>1, TypeStep, JobStep, PosterStep, TokenStep
<1>3. Inv => OnePulse
  BY PulseCount
<1> HIDE DEF Inv
<1>4. QED
  BY <1>1, <1>2, <1>3, PTL DEF Spec

-----------------------------------------------------------------------------
(* The latch *)

LEMMA InitAttachedInv == Init => AttachedInv
BY DEF Init, AttachedInv, Exiting

LEMMA AttachedStep ==
    ASSUME TypeInv, AttachedInv, Next
    PROVE  AttachedInv'
<1> USE DEF AttachedInv, SceneTypes, Exiting
<1>1. CASE Renderer
  BY <1>1 DEF Renderer, TakeJob, Lock, DeviceNotReady, RenderEverything, DoPaint,
              PresentFails, SetPainting, Unlock, Done, NotifyRenderingFinished, CountDown
<1>2. CASE PulseTimer \/ \E p \in Posters : PostingPulse(p)
  BY <1>2 DEF PulseTimer, PostingPulse, SetPulseRunning, PostPulse
<1>3. ASSUME NEW s \in Scenes, SceneModified(s) \/ DisposeScene(s)
      PROVE  AttachedInv'
  BY <1>3 DEF SceneModified, DisposeScene, CollectorTypes
<1>4. ASSUME NEW s \in Scenes, ViewRepaint(s)
      PROVE  AttachedInv'
  BY <1>4 DEF ViewRepaint, EntireSceneNeedsRepaint, SceneChanged, AddDirtyScene
<1>5. ASSUME NEW s \in Scenes, DetachScene(s)
      PROVE  AttachedInv'
  BY <1>5 DEF DetachScene, RemoveDirtyScene
<1>6. CASE Exit \/ \E b \in BOOLEAN : SetAnimationRunnable(b)
  BY <1>6 DEF Exit, SetAnimationRunnable
<1>7. CASE RepaintRunnable
  BY <1>7 DEF RepaintRunnable, EntireSceneNeedsRepaint, SceneChanged, AddDirtyScene,
              RemoveDirtyScene
<1>8. CASE RenderAll \/ PulseEnds \/ WaitForRenderingToComplete \/ Terminate
  BY <1>8 DEF RenderAll, PulseEnds, WaitForRenderingToComplete, Terminate
<1>9. ASSUME NEW D \in SUBSET Scenes, PulseBegins(D)
      PROVE  AttachedInv'
  BY <1>9 DEF PulseBegins
<1>10. ASSUME NEW s \in Scenes, Repaint(s)
       PROVE  AttachedInv'
  BY <1>10 DEF Repaint
<1>11. ASSUME NEW s \in Scenes, NEW D \in SUBSET Scenes, ScenePulse(s, D)
       PROVE  AttachedInv'
  BY <1>11 DEF ScenePulse, SceneChanged, AddDirtyScene, RemoveDirtyScene
<1>12. QED
  <2>1. CASE FxHandler
    BY <2>1, <1>3, <1>4, <1>5, <1>6 DEF FxHandler
  <2>2. CASE FxContinue
    BY <2>2, <1>7, <1>8, <1>9, <1>10, <1>11 DEF FxContinue
  <2>3. QED
    BY <1>1, <1>2, <2>1, <2>2 DEF Next

LEMMA InitLatchInv == Init => LatchInv
<1> SUFFICES ASSUME Init PROVE latch <= Cardinality(Due)
  BY DEF LatchInv
<1>1. Due = {}
  BY ElementsEmpty DEF Init, Due
<1>2. QED
  BY <1>1, FS_EmptySet DEF Init

LEMMA DueIsFinite ==
    ASSUME NEW T \in SUBSET (Scenes \cup {NoScene})
    PROVE  IsFiniteSet(T) /\ Cardinality(T) \in Nat
<1>1. IsFiniteSet(Scenes \cup {NoScene})
  BY RenderAssumption, FS_AddElement
<1>2. IsFiniteSet(T)
  BY <1>1, FS_Subset
<1>3. QED
  BY <1>2, FS_CardinalityType

LEMMA DueTypes ==
    /\ TypeInv => Due \in SUBSET (Scenes \cup {NoScene}) /\ latch \in Nat
    /\ TypeInv' => Due' \in SUBSET (Scenes \cup {NoScene})
<1>1. \A q \in Seq(Scenes) : Elements(q) \subseteq Scenes
  BY LenProperties DEF Elements
<1>2. QED
  BY <1>1, RenderAssumption, FS_CardinalityType DEF Due, CollectorTypes, RendererTypes

(* Most steps leave alone what is due, or pass it on: the repaint that a     *)
(* pulse orders becomes a job, or is left to the job that the scene has, and *)
(* a job leaves the queue into the renderer's hands.                         *)
LEMMA DueKept ==
    ASSUME TypeInv, JobInv, AttachedInv, Next, application',
           ~(RenderAll /\ hasDirty), ~CountDown
    PROVE  Due' = Due /\ latch' = latch
<1>1. CASE Renderer
  <2>1. CASE TakeJob
    <3>1. Elements(jobs) = {job'} \cup Elements(jobs')
      BY <2>1, ElementsTail DEF TakeJob, RendererTypes
    <3>2. QED
      BY <2>1, <3>1 DEF TakeJob, Due
  <2>2. CASE NotifyRenderingFinished
    BY <2>2 DEF NotifyRenderingFinished, Due
  <2>3. CASE Lock \/ RenderEverything \/ SetPainting \/ Unlock \/ Done
    BY <2>3 DEF Lock, RenderEverything, SetPainting, Unlock, Done, Due
  <2>4. CASE DeviceNotReady \/ DoPaint \/ PresentFails
    BY <2>4 DEF DeviceNotReady, DoPaint, PresentFails, Due
  <2>5. QED
    BY <1>1, <2>1, <2>2, <2>3, <2>4 DEF Renderer
<1>2. CASE PulseTimer \/ \E p \in Posters : PostingPulse(p)
  BY <1>2 DEF PulseTimer, PostingPulse, SetPulseRunning, PostPulse, Due
<1>3. CASE FxHandler
  BY <1>3 DEF FxHandler, SceneModified, ViewRepaint, DetachScene, DisposeScene,
              SetAnimationRunnable, Exit, Due
<1>4. ASSUME NEW s \in Scenes, Repaint(s)
      PROVE  Due' = Due /\ latch' = latch
  <2>1. /\ s \in todo /\ todo' = todo \ {s} /\ fx = "repaint"
        /\ UNCHANGED <<latch, fx, rpc, job, application>>
    BY <1>4 DEF Repaint
  <2>2. CASE MayRepaint(s)
    <3>1. jobs' = Append(jobs, s) /\ jobs \in Seq(Scenes)
      BY <1>4, <2>2 DEF Repaint, RendererTypes
    <3>2. Elements(jobs') = Elements(jobs) \cup {s}
      BY <3>1, ElementsAppend
    <3>3. QED
      BY <2>1, <3>2 DEF Due
  <2>3. CASE ~MayRepaint(s)
    <3>1. jobs' = jobs
      BY <1>4, <2>3 DEF Repaint
    <3>2. life[s] = "attached"
      BY <2>1 DEF AttachedInv
    <3>3. s \in Elements(jobs) \/ Painter(s)
      BY <2>3, <3>2 DEF MayRepaint, JobInv
    <3>4. s \in Elements(jobs) \/ (job = s /\ rpc # "idle")
      BY <3>3 DEF Painter
    <3>5. QED
      BY <2>1, <3>1, <3>4 DEF Due
  <2>4. QED
    BY <2>2, <2>3
<1>5. CASE PulseEnds \/ RenderAll \/ WaitForRenderingToComplete \/ Terminate \/ RepaintRunnable
  BY <1>5 DEF PulseEnds, RenderAll, WaitForRenderingToComplete, Terminate, RepaintRunnable, Due
<1>6. CASE \/ \E D \in SUBSET Scenes : PulseBegins(D)
           \/ \E s \in Scenes, D \in SUBSET Scenes : ScenePulse(s, D)
  BY <1>6 DEF PulseBegins, ScenePulse, Due
<1>7. QED
  <2>1. CASE FxContinue
    BY <2>1, <1>4, <1>5, <1>6 DEF FxContinue
  <2>2. QED
    BY <1>1, <1>2, <1>3, <2>1 DEF Next

LEMMA LatchStep ==
    ASSUME TypeInv, JobInv, AttachedInv, LatchInv, Next
    PROVE  LatchInv'
<1> SUFFICES ASSUME application' PROVE latch' <= Cardinality(Due')
  BY DEF LatchInv
<1>1. TypeInv'
  BY TypeStep
<1>2. application
  <2>1. ~Terminate
    BY DEF Terminate
  <2>2. CASE FxHandler
    BY <2>2 DEF FxHandler, SceneModified, ViewRepaint, DetachScene, DisposeScene,
                SetAnimationRunnable, Exit
  <2>3. CASE FxContinue
    BY <2>1, <2>3 DEF FxContinue, RepaintRunnable, RenderAll, PulseEnds, PulseBegins,
                Repaint, ScenePulse, WaitForRenderingToComplete
  <2>4. CASE Renderer
    BY <2>4 DEF Renderer, TakeJob, Lock, DeviceNotReady, RenderEverything, DoPaint,
                PresentFails, SetPainting, Unlock, Done, NotifyRenderingFinished, CountDown
  <2>5. CASE PulseTimer \/ \E p \in Posters : PostingPulse(p)
    BY <2>5 DEF PulseTimer, PostingPulse, SetPulseRunning, PostPulse
  <2>6. QED
    BY <2>2, <2>3, <2>4, <2>5 DEF Next
<1>3. CASE RenderAll /\ hasDirty
  <2>1. dirtyScenes \subseteq Due' /\ latch' = Cardinality(dirtyScenes)
    BY <1>3 DEF RenderAll, Due
  <2>2. IsFiniteSet(Due')
    BY <1>1, DueTypes, DueIsFinite
  <2>3. QED
    BY <2>1, <2>2, FS_Subset
<1>4. CASE CountDown
  <2>1. /\ latch' = IF latch > 0 THEN latch - 1 ELSE 0
        /\ Due \ {job} \subseteq Due'
    BY <1>4 DEF CountDown, Due
  <2>2. IsFiniteSet(Due) /\ Cardinality(Due) \in Nat /\ latch \in Nat
    BY DueTypes, DueIsFinite
  <2>3. IsFiniteSet(Due') /\ Cardinality(Due') \in Nat
    BY <1>1, DueTypes, DueIsFinite
  <2>4. /\ Cardinality(Due \ {job}) \in Nat
        /\ Cardinality(Due \ {job}) >= Cardinality(Due) - 1
    <3>1. /\ IsFiniteSet(Due \ {job})
          /\ Cardinality(Due \ {job}) = IF job \in Due THEN Cardinality(Due) - 1
                                       ELSE Cardinality(Due)
      BY <2>2, FS_RemoveElement
    <3>2. Cardinality(Due \ {job}) \in Nat
      BY <3>1, FS_CardinalityType
    <3>3. QED
      BY <2>2, <3>1, <3>2
  <2>5. Cardinality(Due \ {job}) <= Cardinality(Due')
    BY <2>1, <2>3, FS_Subset
  <2>6. QED
    BY <1>2, <2>1, <2>2, <2>3, <2>4, <2>5 DEF LatchInv
<1>5. CASE ~(RenderAll /\ hasDirty) /\ ~CountDown
  BY <1>2, <1>5, DueKept DEF LatchInv
<1>6. QED
  BY <1>3, <1>4, <1>5

(* No more is due than there are jobs, once the repaints are ordered. *)
LEMMA DueCount == TypeInv /\ LatchInv => LatchCanReachZero
<1> SUFFICES ASSUME TypeInv, LatchInv, fx # "repaint", application
             PROVE  latch <= Undone
  BY DEF LatchCanReachZero
<1>1. /\ IsFiniteSet(Elements(jobs))
      /\ Cardinality(Elements(jobs)) <= Len(jobs)
      /\ Cardinality(Elements(jobs)) \in Nat
      /\ Len(jobs) \in Nat
  BY ElementsCount, FS_CardinalityType, LenProperties DEF RendererTypes
<1>2. latch \in Nat /\ latch <= Cardinality(Due)
  BY DueTypes DEF LatchInv
<1>3. CASE rpc = "idle"
  <2>1. Due = Elements(jobs)
    BY <1>3 DEF Due
  <2>2. QED
    BY <1>1, <1>2, <1>3, <2>1 DEF Undone
<1>4. CASE rpc # "idle"
  <2>1. Due = Elements(jobs) \cup {job}
    BY <1>4 DEF Due
  <2>2. Cardinality(Due) <= Cardinality(Elements(jobs)) + 1
    BY <1>1, <2>1, FS_AddElement
  <2>3. Cardinality(Due) \in Nat
    BY DueTypes, DueIsFinite
  <2>4. QED
    BY <1>1, <1>2, <1>4, <2>2, <2>3 DEF Undone
<1>5. QED
  BY <1>3, <1>4

-----------------------------------------------------------------------------
(* Frames *)

LEMMA InitFrameInv == Init => FrameInv
BY DEF Init, FrameInv

(* A frame stays covered where no scene loses its place among the repaints,  *)
(* the queue is left alone, and so is the render thread.                     *)
LEMMA FrameFrame ==
    ASSUME FrameInv, UNCHANGED <<unpainted, jobs, job, rpc>>,
           \A s \in Scenes : life'[s] = "attached" => life[s] = "attached",
           Exiting => Exiting',
           \A s \in Scenes : life'[s] = "attached" /\ ~Exiting' /\ s \in ToRepaint
                               => s \in ToRepaint'
    PROVE  FrameInv'
BY DEF FrameInv, Drawing

(* The FX thread between pulses: a dirty scene is forgotten only when it is  *)
(* detached.                                                                 *)
LEMMA FrameHandler ==
    ASSUME TypeInv, FrameInv, FxHandler
    PROVE  FrameInv'
<1> USE DEF ToRepaint, Exiting
<1>1. ASSUME NEW s \in Scenes, SceneModified(s)
      PROVE  FrameInv'
  BY <1>1, FrameFrame DEF SceneModified
<1>2. ASSUME NEW s \in Scenes, ViewRepaint(s)
      PROVE  FrameInv'
  BY <1>2, FrameFrame DEF ViewRepaint, EntireSceneNeedsRepaint, SceneChanged, AddDirtyScene
<1>3. ASSUME NEW s \in Scenes, DetachScene(s)
      PROVE  FrameInv'
  <2>1. /\ UNCHANGED <<jobs, job, rpc, fx>> /\ fx = "idle"
        /\ life' = [life EXCEPT ![s] = "detached"]
        /\ unpainted' = [unpainted EXCEPT ![s] = FALSE]
        /\ dirtyScenes' = dirtyScenes \ {s}
    BY <1>3 DEF DetachScene, RemoveDirtyScene
  <2>2. QED
    BY <2>1 DEF FrameInv, Drawing, SceneTypes
<1>4. ASSUME NEW s \in Scenes, DisposeScene(s)
      PROVE  FrameInv'
  BY <1>4, FrameFrame DEF DisposeScene, SceneTypes
<1>5. CASE Exit \/ \E b \in BOOLEAN : SetAnimationRunnable(b)
  BY <1>5, FrameFrame DEF Exit, SetAnimationRunnable
<1>6. QED
  BY <1>1, <1>2, <1>3, <1>4, <1>5 DEF FxHandler

(* A pulse: a scene is copied under the render lock, when no painter is past *)
(* drawing, and a repaint is left out only if the scene's job is still to    *)
(* draw it.                                                                  *)
LEMMA FrameContinue ==
    ASSUME TypeInv, JobInv, AttachedInv, FrameInv, FxContinue
    PROVE  FrameInv'
<1> USE DEF ToRepaint, Exiting
<1>1. CASE RepaintRunnable
  <2>1. /\ fx = "idle" /\ UNCHANGED <<fx, life, unpainted, jobs, job, rpc>>
        /\ SceneChanged(Head(posted))
    BY <1>1 DEF RepaintRunnable, EntireSceneNeedsRepaint
  <2>2. \A s \in Scenes : life[s] = "attached" /\ s \in dirtyScenes => s \in dirtyScenes'
    BY <2>1 DEF SceneChanged, AddDirtyScene, RemoveDirtyScene
  <2>3. QED
    BY <2>1, <2>2, FrameFrame
<1>2. CASE RenderAll
  <2>1. /\ fx = "pulse" /\ fx' = "repaint" /\ UNCHANGED <<life, unpainted, jobs, job, rpc>>
        /\ dirtyScenes # {} => todo' = dirtyScenes
    BY <1>2 DEF RenderAll, HasDirtyInv
  <2>2. QED
    BY <2>1, FrameFrame
<1>3. CASE PulseEnds
  BY <1>3, FrameFrame DEF PulseEnds
<1>4. ASSUME NEW D \in SUBSET Scenes, PulseBegins(D)
      PROVE  FrameInv'
  BY <1>4, FrameFrame DEF PulseBegins
<1>5. ASSUME NEW s \in Scenes, Repaint(s)
      PROVE  FrameInv'
  <2>1. /\ s \in todo /\ todo' = todo \ {s} /\ fx = "repaint"
        /\ UNCHANGED <<fx, rpc, job, life, unpainted>>
    BY <1>5 DEF Repaint
  <2>2. CASE MayRepaint(s)
    <3>1. jobs' = Append(jobs, s) /\ jobs \in Seq(Scenes)
      BY <1>5, <2>2 DEF Repaint, RendererTypes
    <3>2. Elements(jobs') = Elements(jobs) \cup {s}
      BY <3>1, ElementsAppend
    <3>3. QED
      BY <2>1, <3>2 DEF FrameInv, Drawing
  <2>3. CASE ~MayRepaint(s)
    <3>1. jobs' = jobs
      BY <1>5, <2>3 DEF Repaint
    <3>2. life[s] = "attached"
      BY <2>1 DEF AttachedInv
    <3>3. s \in Elements(jobs) \/ Painter(s)
      BY <2>3, <3>2 DEF MayRepaint, JobInv
    <3>4. unpainted[s] => s \in Elements(jobs) \/ Drawing(s)
      BY <2>1, <3>2, <3>3 DEF Painter, Drawing, FrameInv
    <3>5. QED
      BY <2>1, <3>1, <3>4 DEF FrameInv, Drawing
  <2>4. QED
    BY <2>2, <2>3
<1>6. ASSUME NEW s \in Scenes, NEW D \in SUBSET Scenes, ScenePulse(s, D)
      PROVE  FrameInv'
  <2>1. fx = "pulse" /\ UNCHANGED <<fx, life, jobs, job, rpc>>
    BY <1>6 DEF ScenePulse
  <2>2. CASE changed[s] \/ s \in D
    <3>1. /\ unpainted' = [unpainted EXCEPT ![s] = life[s] = "attached"]
          /\ rpc # "setPainting"
          /\ SceneChanged(s)
      BY <1>6, <2>2 DEF ScenePulse, LockFree
    <3>2. \A t \in Scenes : life[t] = "attached" /\ (t \in dirtyScenes \/ t = s)
                              => t \in dirtyScenes'
      BY <3>1 DEF SceneChanged, AddDirtyScene, RemoveDirtyScene
    <3>3. QED
      BY <2>1, <3>1, <3>2 DEF FrameInv, Drawing, SceneTypes
  <2>3. CASE ~(changed[s] \/ s \in D)
    BY <1>6, <2>1, <2>3, FrameFrame DEF ScenePulse
  <2>4. QED
    BY <2>2, <2>3
<1>7. CASE WaitForRenderingToComplete \/ Terminate
  BY <1>7 DEF WaitForRenderingToComplete, Terminate, FrameInv
<1>8. QED
  BY <1>1, <1>2, <1>3, <1>4, <1>5, <1>6, <1>7 DEF FxContinue

(* The render thread: past drawing, a job has left nothing behind. *)
LEMMA FrameRenderer ==
    ASSUME TypeInv, JobInv, FrameInv, Renderer
    PROVE  FrameInv'
<1>1. UNCHANGED <<life, fx, todo, dirtyScenes>>
  BY DEF Renderer, TakeJob, Lock, DeviceNotReady, RenderEverything, DoPaint, PresentFails,
         SetPainting, Unlock, Done, NotifyRenderingFinished, CountDown
<1>2. CASE TakeJob
  <2>1. Elements(jobs) = {job'} \cup Elements(jobs')
    BY <1>2, ElementsTail DEF TakeJob, RendererTypes
  <2>2. QED
    BY <1>1, <1>2, <2>1 DEF TakeJob, FrameInv, Drawing, ToRepaint, Exiting
<1>3. CASE Lock
  BY <1>3 DEF Lock, FrameInv, Drawing, ToRepaint, Exiting
<1>4. CASE DeviceNotReady \/ DoPaint \/ PresentFails
  <2>1. /\ unpainted' = [unpainted EXCEPT ![job] = FALSE]
        /\ rpc' = "setPainting" /\ UNCHANGED <<job, jobs>>
    BY <1>4 DEF DeviceNotReady, DoPaint, PresentFails
  <2>2. QED
    BY <1>1, <2>1 DEF FrameInv, Drawing, ToRepaint, Exiting, SceneTypes
<1>5. CASE RenderEverything
  BY <1>5 DEF RenderEverything, FrameInv, Drawing, ToRepaint, Exiting
<1>6. CASE SetPainting \/ Unlock \/ Done \/ NotifyRenderingFinished \/ CountDown
  <2>1. /\ rpc \notin {"lock", "read", "paint"}
        /\ rpc' \notin {"lock", "read", "paint", "setPainting"}
        /\ UNCHANGED <<unpainted, jobs>>
    BY <1>6 DEF SetPainting, Unlock, Done, NotifyRenderingFinished, CountDown
  <2>2. QED
    BY <1>1, <2>1 DEF FrameInv, Drawing, ToRepaint, Exiting
<1>7. QED
  BY <1>2, <1>3, <1>4, <1>5, <1>6 DEF Renderer

LEMMA FrameStep ==
    ASSUME TypeInv, JobInv, AttachedInv, FrameInv, Next
    PROVE  FrameInv'
<1>1. CASE PulseTimer \/ \E p \in Posters : PostingPulse(p)
  <2>1. UNCHANGED <<unpainted, jobs, job, rpc, life, fx, todo, dirtyScenes>>
    BY <1>1 DEF PulseTimer, PostingPulse, SetPulseRunning, PostPulse
  <2>2. QED
    BY <2>1, FrameFrame DEF ToRepaint, Exiting
<1>2. QED
  BY <1>1, FrameHandler, FrameContinue, FrameRenderer DEF Next

LEMMA FrameCovered == AttachedInv /\ FrameInv => NoFrameLost
BY DEF AttachedInv, FrameInv, NoFrameLost, WillDraw, Drawing, ToRepaint

-----------------------------------------------------------------------------
(* The whole *)

LEMMA Inductive ==
    /\ Init => IInv
    /\ IInv /\ [Next]_vars => IInv'
<1>1. Init => IInv
  BY InitTypeInv, InitJobInv, InitPulseInv, InitAttachedInv, InitLatchInv, InitFrameInv DEF IInv
<1>2. ASSUME IInv, Next
      PROVE  IInv'
  BY <1>2, TypeStep, JobStep, PosterStep, TokenStep, AttachedStep, LatchStep, FrameStep DEF IInv
<1>3. ASSUME IInv, UNCHANGED vars
      PROVE  IInv'
  <2>1. TypeInv'
    BY <1>3, TypeStep DEF IInv
  <2>2. JobInv' /\ PosterInv'
    BY <1>3 DEF IInv, vars, JobInv, Painter, PosterInv
  <2>3. TokenInv' /\ FrameInv'
    BY <1>3, TokenFrame, FrameFrame DEF IInv, vars, InPulse, ToRepaint, Exiting
  <2>4. AttachedInv' /\ LatchInv'
    BY <1>3 DEF IInv, vars, AttachedInv, LatchInv, Due, Exiting
  <2>5. QED
    BY <2>1, <2>2, <2>3, <2>4 DEF IInv
<1>4. QED
  BY <1>1, <1>2, <1>3

(* For every set of scenes: whoever waits for rendering to complete can be   *)
(* let go, since at least as many jobs as the latch counts are still to be   *)
(* done.  The latch of renderAll counts scenes that get no job of their own  *)
(* because they have one already, and the latch of an earlier frame may      *)
(* still be counting: no scene of the new count is without a job all the     *)
(* same.                                                                     *)
THEOREM RenderingCanComplete == Spec => []LatchCanReachZero
<1>1. IInv => LatchCanReachZero
  BY DueCount DEF IInv
<1>2. QED
  BY <1>1, Inductive, PTL DEF Spec

(* For every set of scenes, and whatever paints fail: what ScenePulse copied *)
(* to the render graph of a scene that stays attached is never without a     *)
(* painter to come, although ViewScene.repaint orders no job while the       *)
(* scene is being painted.                                                   *)
THEOREM NoFrameIsLost == Spec => []NoFrameLost
<1>1. IInv => NoFrameLost
  BY FrameCovered DEF IInv
<1>2. QED
  BY <1>1, Inductive, PTL DEF Spec
=============================================================================
