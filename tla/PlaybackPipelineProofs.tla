----------------------- MODULE PlaybackPipelineProofs -----------------------
(***************************************************************************)
(* The end of the content that BusCallback and Dispose share, for every    *)
(* sequence of requests, every stream and every fault: it is freed once,   *)
(* and by the thread that uses it last.                                    *)
(***************************************************************************)
EXTENDS PlaybackPipeline, SequenceTheorems, TLAPS

(* What the threads' positions and the fields of the content say of each     *)
(* other.  After "destroy" exactly one of three is to free the content: the  *)
(* main loop that still holds a reference ("destroyed"), the main loop that  *)
(* dropped the last one ("freeing"), or Dispose itself ("free").             *)
Types ==
    /\ content \in Contents
    /\ main \in {"idle", "dispatched", "handling", "returned", "freeing"}
    /\ disposal \in {"no", "begin", "stop", "destroy", "free", "delete", "done"}

Flags ==
    /\ content.disposing <=> disposal \notin {"no", "begin"}
    /\ content.disposed <=> disposal \in {"free", "delete", "done"}
    /\ content.watch = "attached" <=> ~content.disposed
    /\ content.disposing => main # "handling"

Owner ==
    /\ content.watch = "attached" =>
          content.frees = 0 /\ ~content.freeMe /\ main # "freeing"
    /\ content.watch = "destroyed" =>
          content.frees = 0 /\ ~content.freeMe /\ disposal # "free"
             /\ main \in {"dispatched", "returned"}
    /\ content.watch = "notified" =>
          /\ main \in {"idle", "freeing"}
          /\ content.frees = IF main = "freeing" \/ disposal = "free" THEN 0 ELSE 1
          /\ main = "freeing" => disposal # "free"

DInv == Types /\ Flags /\ Owner

USE DEF DInv, Types, Flags, Owner, Contents

(* Most of the player does not touch the content. *)
LEMMA Untouched ==
    ASSUME DInv, UNCHANGED <<main, content, disposal>>
    PROVE  DInv'
OBVIOUS

(* The owner and the flags give what is wanted of the content. *)
LEMMA OwnerFrees == DInv => ContentLifetime
BY DEF ContentLifetime

(* The steps of the main loop around a callback keep the invariant. *)
LEMMA MainKeeps ==
    ASSUME DInv,
           MainDispatches \/ BusCallback \/ BusCallbackReturns \/ MainReleases \/ MainFrees
    PROVE  DInv'
<1>1. CASE MainDispatches
  BY <1>1 DEF MainDispatches, disposeVars
<1>2. CASE BusCallback
  BY <1>2 DEF BusCallback, disposeVars, Ignored
<1>3. CASE BusCallbackReturns
  BY <1>3 DEF BusCallbackReturns, disposeVars
<1>4. CASE MainReleases
  BY <1>4 DEF MainReleases, DestroyNotify
<1>5. CASE MainFrees
  BY <1>5 DEF MainFrees, Freed
<1>6. QED
  BY <1>1, <1>2, <1>3, <1>4, <1>5

(* The steps of Dispose, and of the destructor that calls it, keep it. *)
LEMMA DisposeKeeps ==
    ASSUME DInv,
           DisposeBegins \/ DisposeStops \/ DisposeDestroys \/ DisposeFrees \/ PipelineDeleted
    PROVE  DInv'
<1>1. CASE DisposeBegins
  BY <1>1 DEF DisposeBegins, DisposeLockFree
<1>2. CASE DisposeStops
  BY <1>2 DEF DisposeStops
<1>3. CASE DisposeDestroys
  BY <1>3 DEF DisposeDestroys, DisposeLockFree, DestroyNotify
<1>4. CASE DisposeFrees
  BY <1>4 DEF DisposeFrees, Freed
<1>5. CASE PipelineDeleted
  BY <1>5 DEF PipelineDeleted
<1>6. QED
  BY <1>1, <1>2, <1>3, <1>4, <1>5

(* No piece of a call touches the content. *)
LEMMA StepsLeaveContent ==
    ASSUME NEW t \in Threads, Steps(t)
    PROVE  UNCHANGED <<main, content, disposal>>
BY DEF Steps, Play, SetPlaying, Stop, Stopping, Finish, Pause, Pausing, InternalPause,
       SetPaused, Undo, Seek, SeekPipeline, SeekResumes, Restart, SetRateZero, RateIsZero, SetRate, RateFlush,
       threadVars, disposeVars

(* The pipeline, the connection and the buffer. *)
Environment ==
    \/ PipelineSettles \/ PipelineEnds \/ PipelineFails \/ PipelineComplains
    \/ ConnectionLost \/ Buffer

(* None of them does either. *)
LEMMA PipelineLeavesContent ==
    ASSUME Environment
    PROVE  UNCHANGED <<main, content, disposal>>
BY DEF Environment, PipelineSettles, PipelineEnds, PipelineFails, PipelineComplains,
       ConnectionLost, Buffer, BufferRunsDry, BufferFills,
       BufferDrains, BufferEnds, Reports, threadVars, disposeVars

(* A call of the application begins. *)
LEMMA CallKeeps ==
    ASSUME DInv, NEW r \in Requests, AppCalls(r)
    PROVE  DInv'
BY DEF AppCalls

(* Every step keeps the invariant. *)
LEMMA NextKeeps == DInv /\ [Next]_vars => DInv'
<1> SUFFICES ASSUME DInv, [Next]_vars
             PROVE  DInv'
  OBVIOUS
<1>1. CASE App
  BY <1>1, DisposeKeeps, StepsLeaveContent, Untouched DEF App, Threads
<1>2. CASE Main
  BY <1>2, MainKeeps, StepsLeaveContent, Untouched DEF Main, Threads
<1>3. CASE Environment
  BY <1>3, PipelineLeavesContent, Untouched
<1>4. CASE \E r \in Requests : AppCalls(r)
  BY <1>4, CallKeeps
<1>5. CASE UNCHANGED vars
  BY <1>5, Untouched DEF vars, threadVars, disposeVars
<1>6. QED
  BY <1>1, <1>2, <1>3, <1>4, <1>5 DEF Next, Environment

(* Dispose and BusCallbackDestroyNotify never free the content twice, or   *)
(* under the feet of a callback, and never leave it over.                  *)
THEOREM ContentIsFreedOnce == Spec => []ContentLifetime
<1>1. Init => DInv
  BY DEF Init
<1> HIDE DEF DInv
<1>2. QED
  BY <1>1, NextKeeps, OwnerFrees, PTL DEF Spec

-----------------------------------------------------------------------------
(* Types, which are not about the content only. *)

HIDE DEF Contents

(* A thread whose call goes on has a list of items to do. *)
LEMMA ThenTyped ==
    ASSUME todo \in [Threads -> Seq(Items)], NEW t \in Threads, todo[t] # <<>>,
           NEW items \in Seq(Items), Then(t, items)
    PROVE  todo' \in [Threads -> Seq(Items)]
<1>1. Tail(todo[t]) \in Seq(Items)
  BY HeadTailProperties
<1>2. items \o Tail(todo[t]) \in Seq(Items)
  BY <1>1, ConcatProperties
<1>3. QED
  BY <1>2 DEF Then

(* And so it has when it returns past the error handling. *)
LEMMA ReturnsTyped ==
    ASSUME todo \in [Threads -> Seq(Items)], NEW t \in Threads, todo[t] # <<>>, Returns(t)
    PROVE  todo' \in [Threads -> Seq(Items)]
<1> DEFINE rest == Tail(todo[t])
<1>1. rest \in Seq(Items)
  BY HeadTailProperties
<1>2. rest # <<>> => Tail(rest) \in Seq(Items)
  BY <1>1, HeadTailProperties
<1>3. QED
  BY <1>1, <1>2 DEF Returns

(* What a piece of a call puts before the rest. *)
LEMMA ItemLists ==
    /\ <<>> \in Seq(Items)
    /\ \A i \in Items : <<i>> \in Seq(Items)
    /\ \A i, j \in Items : <<i, j>> \in Seq(Items)
BY DEF Items

(* The pipeline is asked for a state, or flushed. *)
LEMMA GstTyped ==
    ASSUME gst \in GstStates
    PROVE  /\ SetState("PLAYING") \in GstStates
           /\ SetState("PAUSED") \in GstStates
           /\ Flushed => gst' \in GstStates
BY DEF GstStates, SetState, Flushed

(* What may be posted on the bus. *)
LEMMA MessagesTyped ==
    /\ \A e \in BOOLEAN : Buffering(e) \in Messages
    /\ \A type \in {"none", "eos", "error", "mediaError", "underrun", "stall", "resume", "full",
                    "notFull", "hlsEos"} : Message(type) \in Messages
    /\ \A old \in {"NULL", "READY", "PAUSED", "PLAYING"}, new \in {"NULL", "PAUSED", "PLAYING"} :
          StateChanged(old, new) \in Messages
    /\ \A m \in Messages : m.type = "buffering" => m.eos \in BOOLEAN
BY DEF Messages, Buffering, Message, StateChanged

(* A message is posted, or taken off. *)
LEMMA BusTyped ==
    ASSUME bus \in Seq(Messages)
    PROVE  /\ \A m \in Messages : Append(bus, m) \in Seq(Messages) /\ bus \o <<m>> \in Seq(Messages)
           /\ \A m, n \in Messages : bus \o <<m>> \o <<n>> \in Seq(Messages)
           /\ <<>> \in Seq(Messages)
           /\ bus # <<>> => Head(bus) \in Messages /\ Tail(bus) \in Seq(Messages)
<1>1. \A m \in Messages : <<m>> \in Seq(Messages)
  OBVIOUS
<1>2. \A m \in Messages : bus \o <<m>> \in Seq(Messages)
  BY <1>1, ConcatProperties
<1>3. \A m, n \in Messages : bus \o <<m>> \o <<n>> \in Seq(Messages)
  BY <1>1, <1>2, ConcatProperties
<1>4. QED
  BY <1>2, <1>3, AppendProperties, HeadTailProperties

(* A flush may announce that the buffer fills again. *)
LEMMA FlushedBus ==
    ASSUME bus \in Seq(Messages), Flushed
    PROVE  bus' \in Seq(Messages)
<1>1. Append(bus, Buffering(FALSE)) \in Seq(Messages)
  BY BusTyped, MessagesTyped
<1>2. QED
  BY <1>1 DEF Flushed

(* Every piece of a call keeps the types. *)
LEMMA StepsTyped ==
    ASSUME TypeOK, NEW t \in Threads, Steps(t)
    PROVE  TypeOK'
<1> USE DEF playerVars, rateVars, bufferVars, netVars, disposeVars, requestVars, threadVars
<1>1. CASE Play(t)
  <2>1. todo' \in [Threads -> Seq(Items)]
    BY <1>1, ItemLists, ThenTyped DEF TypeOK, Items, Play, Do
  <2>2. QED
    BY <1>1, <2>1 DEF TypeOK, Play, Do
<1>2. CASE SetPlaying(t)
  <2>1. todo' \in [Threads -> Seq(Items)]
    BY <1>2, ItemLists, ThenTyped DEF TypeOK, Items, SetPlaying, Do, SetState
  <2>2. gst' \in GstStates
    BY <1>2, GstTyped DEF TypeOK, SetPlaying
  <2>3. resumePlay' \in BOOLEAN
    BY <1>2 DEF TypeOK, SetPlaying
  <2>4. QED
    BY <1>2, <2>1, <2>2, <2>3 DEF TypeOK, SetPlaying
<1>3. CASE Stop(t)
  <2>1. todo' \in [Threads -> Seq(Items)]
    BY <1>3, ItemLists, ThenTyped DEF TypeOK, Items, Stop, Do
  <2>2. resumePlay' \in BOOLEAN
    BY <1>3 DEF TypeOK, Stop
  <2>3. UNCHANGED <<playerVars, rateZero, bufferVars, gst, bus, netVars, threadVars>>
    BY <1>3 DEF Stop
  <2>4. QED
    BY <2>1, <2>2, <2>3 DEF TypeOK
<1>4. CASE Finish(t)
  <2>1. todo' \in [Threads -> Seq(Items)]
    BY <1>4, ItemLists, ThenTyped DEF TypeOK, Items, Finish, Do
  <2>2. QED
    BY <1>4, <2>1 DEF TypeOK, Finish, Do
<1>5. CASE Pause(t)
  <2>1. todo' \in [Threads -> Seq(Items)]
    BY <1>5, ItemLists, ThenTyped DEF TypeOK, Items, Pause, Do
  <2>2. QED
    BY <1>5, <2>1 DEF TypeOK, Pause, Do
<1>6. CASE InternalPause(t)
  <2>1. todo' \in [Threads -> Seq(Items)]
    BY <1>6, ItemLists, ThenTyped, ReturnsTyped DEF TypeOK, Items, InternalPause, Do
  <2>2. /\ UNCHANGED <<state, pendingState, stallOnPause, rateVars, bufferVars, gst, netVars,
                      bus, threadVars>>
        /\ seekInvoked' \in BOOLEAN
    BY <1>6 DEF InternalPause
  <2>3. QED
    BY <2>1, <2>2 DEF TypeOK
<1>7. CASE SetPaused(t)
  <2>1. todo' \in [Threads -> Seq(Items)]
    BY <1>7, ItemLists, ThenTyped, ReturnsTyped DEF TypeOK, Items, SetPaused, Do, SetState
  <2>2. gst' \in GstStates
    BY <1>7, GstTyped DEF TypeOK, SetPaused
  <2>3. resumePlay' \in BOOLEAN
    BY <1>7 DEF TypeOK, SetPaused
  <2>4. QED
    BY <1>7, <2>1, <2>2, <2>3 DEF TypeOK, SetPaused
<1>8. CASE Undo(t)
  <2>1. todo' \in [Threads -> Seq(Items)]
    BY <1>8, ItemLists DEF TypeOK, Items, Undo, Do
  <2>2. QED
    BY <1>8, <2>1 DEF TypeOK, Undo, Do
<1>9. CASE Seek(t)
  <2>1. todo' \in [Threads -> Seq(Items)]
    BY <1>9, ItemLists, ThenTyped DEF TypeOK, Items, Seek, Do
  <2>2. QED
    BY <1>9, <2>1 DEF TypeOK, Seek, Do
<1>10. CASE SeekPipeline(t)
  <2>1. todo' \in [Threads -> Seq(Items)]
    BY <1>10, ItemLists, ThenTyped DEF TypeOK, Items, SeekPipeline, Do, Flushed
  <2>2. gst' \in GstStates
    BY <1>10, GstTyped DEF TypeOK, SeekPipeline, Flushed
  <2>3. net' \in NetStates
    BY <1>10 DEF TypeOK, SeekPipeline, Flushed, NetStates
  <2>4. bus' \in Seq(Messages)
    BY <1>10, FlushedBus DEF TypeOK, SeekPipeline
  <2>5. QED
    BY <1>10, <2>1, <2>2, <2>3, <2>4 DEF TypeOK, SeekPipeline
<1>11. CASE SeekResumes(t)
  <2>1. todo' \in [Threads -> Seq(Items)]
    BY <1>11, ItemLists, ThenTyped DEF TypeOK, Items, SeekResumes, Do
  <2>2. QED
    BY <1>11, <2>1 DEF TypeOK, SeekResumes, Do
<1>12. CASE Restart(t)
  <2>1. todo' \in [Threads -> Seq(Items)]
    BY <1>12, ItemLists, ThenTyped DEF TypeOK, Items, Restart, Do, SetState
  <2>2. gst' \in GstStates
    BY <1>12, GstTyped DEF TypeOK, Restart
  <2>3. QED
    BY <1>12, <2>1, <2>2 DEF TypeOK, Restart
<1>13. CASE SetRateZero(t)
  <2>1. todo' \in [Threads -> Seq(Items)]
    BY <1>13, ItemLists, ThenTyped DEF TypeOK, Items, SetRateZero, Do
  <2>2. QED
    BY <1>13, <2>1 DEF TypeOK, SetRateZero, Do
<1>14. CASE RateIsZero(t)
  <2>1. todo' \in [Threads -> Seq(Items)]
    BY <1>14, ItemLists, ThenTyped DEF TypeOK, Items, RateIsZero, Do
  <2>2. QED
    BY <1>14, <2>1 DEF TypeOK, RateIsZero, Do
<1>15. CASE SetRate(t)
  <2>1. todo' \in [Threads -> Seq(Items)]
    BY <1>15, ItemLists, ThenTyped DEF TypeOK, Items, SetRate, Do
  <2>2. QED
    BY <1>15, <2>1 DEF TypeOK, SetRate, Do
<1>16. CASE RateFlush(t)
  <2>1. todo' \in [Threads -> Seq(Items)]
    <3>1. todo \in [Threads -> Seq(Items)] /\ todo[t] # <<>>
      BY <1>16 DEF TypeOK, RateFlush, Do
    <3>2. <<>> \in Seq(Items) /\ <<"play">> \in Seq(Items)
      BY ItemLists DEF Items
    <3>3. \E items \in Seq(Items) : Then(t, items)
      BY <1>16, <3>2 DEF RateFlush
    <3>4. QED
      BY <3>1, <3>3, ThenTyped
  <2>2. gst' \in GstStates
    BY <1>16, GstTyped DEF TypeOK, RateFlush, Flushed
  <2>3. net' \in NetStates
    BY <1>16 DEF TypeOK, RateFlush, Flushed, NetStates
  <2>4. bus' \in Seq(Messages)
    BY <1>16, FlushedBus DEF TypeOK, RateFlush
  <2>5. QED
    BY <1>16, <2>1, <2>2, <2>3, <2>4 DEF TypeOK, RateFlush
<1>17. CASE Pausing(t)
  <2>1. todo' \in [Threads -> Seq(Items)]
    BY <1>17, ItemLists, ThenTyped DEF TypeOK, Items, Pausing, Do
  <2>2. QED
    BY <1>17, <2>1 DEF TypeOK, Pausing, PlayerStates
<1>18. CASE Stopping(t)
  <2>1. todo' \in [Threads -> Seq(Items)]
    BY <1>18, ItemLists, ThenTyped DEF TypeOK, Items, Stopping, Do
  <2>2. QED
    BY <1>18, <2>1 DEF TypeOK, Stopping
<1>19. QED
  BY <1>1, <1>2, <1>3, <1>4, <1>5, <1>6, <1>7, <1>8, <1>9, <1>10, <1>11, <1>12, <1>13, <1>14,
     <1>15, <1>16, <1>17, <1>18 DEF Steps

(* So does the handling of a message. *)
LEMMA BusCallbackTyped ==
    ASSUME TypeOK, BusCallback
    PROVE  TypeOK'
<1> USE DEF playerVars, rateVars, bufferVars, netVars, disposeVars, requestVars, threadVars
<1>0. /\ UNCHANGED <<rateZero, netVars, disposeVars>>
      /\ main' \in {"returned", "handling"}
      /\ message' \in Messages
  BY MessagesTyped DEF BusCallback
<1>1. CASE UNCHANGED <<playerVars, gst, resumePlay, todo, bufferVars, bus>>
  BY <1>0, <1>1 DEF TypeOK
<1>2. CASE HandleState(message)
  <2>1. NewPlayerState(message.old, message.new) \in PlayerStates
    BY DEF TypeOK, NewPlayerState, PausedWhilePlaying, PlayerStates
  <2>2. gst' \in GstStates
    BY <1>2, GstTyped DEF HandleState, UpdatePlayerState, TypeOK
  <2>3. /\ state' \in PlayerStates
        /\ pendingState' \in {"Unknown", "Paused", "Stopped"}
    BY <1>2, <2>1 DEF HandleState, UpdatePlayerState, TypeOK
  <2>4. stallOnPause' \in BOOLEAN /\ seekInvoked' \in BOOLEAN /\ resumePlay' \in BOOLEAN
    BY <1>2 DEF HandleState, UpdatePlayerState, TypeOK
  <2>5. UNCHANGED <<bufferVars, bus, todo>>
    BY <1>2 DEF HandleState
  <2>6. QED
    BY <1>0, <2>2, <2>3, <2>4, <2>5 DEF TypeOK
<1>3. CASE HandleEos(message)
  BY <1>0, <1>3 DEF HandleEos, TypeOK, PlayerStates
<1>4. CASE HandleError(message)
  <2>1. gst' \in GstStates
    BY <1>4 DEF HandleError, TypeOK, GstStates
  <2>2. QED
    BY <1>0, <1>4, <2>1, BusTyped DEF HandleError, TypeOK, PlayerStates
<1>5. CASE HandleBuffering(message)
  <2>1. todo' \in [Threads -> Seq(Items)]
    <3>1. <<>> \in Seq(Items) /\ Resumes \in Seq(Items)
      BY ItemLists DEF Items, Resumes
    <3>2. \E items \in Seq(Items) : MainDoes(items)
      BY <1>5, <3>1 DEF HandleBuffering
    <3>3. QED
      BY <3>2 DEF MainDoes, TypeOK
  <2>2. /\ UNCHANGED <<playerVars, gst, resumePlay, full, bus>>
        /\ buffered' = TRUE
    BY <1>5 DEF HandleBuffering
  <2>3. progressEOS' \in BOOLEAN
    BY <1>5, MessagesTyped DEF HandleBuffering, TypeOK
  <2>4. QED
    BY <1>0, <2>1, <2>2, <2>3 DEF TypeOK
<1>6. CASE HandleStall(message)
  <2>1. todo' \in [Threads -> Seq(Items)]
    BY <1>6, ItemLists DEF HandleStall, MainDoes, TypeOK, Items, Threads
  <2>2. /\ UNCHANGED <<state, pendingState, seekInvoked, gst, resumePlay, bufferVars, bus>>
        /\ stallOnPause' \in BOOLEAN
    BY <1>6 DEF HandleStall, TypeOK
  <2>3. QED
    BY <1>0, <2>1, <2>2 DEF TypeOK
<1>7. CASE HandleHLS(message)
  <2>1. todo' \in [Threads -> Seq(Items)]
    BY <1>7, ItemLists DEF HandleHLS, MainDoes, Resumes, TypeOK, Items, Threads
  <2>2. /\ UNCHANGED <<playerVars, gst, resumePlay, buffered, bus>>
        /\ full' \in BOOLEAN /\ progressEOS' \in BOOLEAN
    BY <1>7 DEF HandleHLS, TypeOK
  <2>3. QED
    BY <1>0, <2>1, <2>2 DEF TypeOK
<1>8. QED
  BY <1>1, <1>2, <1>3, <1>4, <1>5, <1>6, <1>7 DEF BusCallback, HandleMediaError

(* So do the pipeline and the buffer, which only post. *)
LEMMA PipelineTyped ==
    ASSUME TypeOK, Environment
    PROVE  TypeOK'
<1> USE DEF playerVars, rateVars, bufferVars, netVars, disposeVars, requestVars, threadVars
<1>1. CASE PipelineSettles
  <2>1. gst' \in GstStates
    BY <1>1 DEF PipelineSettles, TypeOK, GstStates
  <2>2. gst.state \in {"NULL", "READY", "PAUSED", "PLAYING"}
        /\ gst.target \in {"NULL", "PAUSED", "PLAYING"}
    BY DEF TypeOK, GstStates
  <2>3. \A old \in {"NULL", "READY", "PAUSED", "PLAYING"} :
           /\ bus \o <<StateChanged(old, gst.target)>> \o <<>> \in Seq(Messages)
           /\ bus \o <<StateChanged(old, gst.target)>> \o <<Message("eos")>> \in Seq(Messages)
    BY <2>2, BusTyped, MessagesTyped, ConcatProperties DEF TypeOK
  <2>4. bus' \in Seq(Messages)
    BY <1>1, <2>2, <2>3 DEF PipelineSettles
  <2>5. UNCHANGED <<playerVars, rateVars, bufferVars, netVars, todo, threadVars>>
    BY <1>1 DEF PipelineSettles
  <2>6. QED
    BY <2>1, <2>4, <2>5 DEF TypeOK
<1>2. CASE PipelineEnds \/ PipelineFails \/ PipelineComplains
  <2>1. gst' \in GstStates
    BY <1>2 DEF PipelineEnds, PipelineFails, PipelineComplains, TypeOK, GstStates
  <2>2. bus' \in Seq(Messages)
    BY <1>2, BusTyped, MessagesTyped DEF PipelineEnds, PipelineFails, PipelineComplains, TypeOK
  <2>3. UNCHANGED <<playerVars, rateVars, bufferVars, netVars, todo, threadVars>>
    BY <1>2 DEF PipelineEnds, PipelineFails, PipelineComplains
  <2>4. QED
    BY <2>1, <2>2, <2>3 DEF TypeOK
<1>3. CASE Buffer
  <2>1. bus' \in Seq(Messages)
    BY <1>3, BusTyped, MessagesTyped
       DEF Buffer, BufferRunsDry, BufferFills, BufferDrains, BufferEnds, Reports, TypeOK
  <2>2. net' \in NetStates
    BY <1>3 DEF Buffer, BufferRunsDry, BufferFills, BufferDrains, BufferEnds, Reports, NetStates
  <2>3. UNCHANGED <<playerVars, rateVars, bufferVars, gst, hls, todo, threadVars>>
    BY <1>3 DEF Buffer, BufferRunsDry, BufferFills, BufferDrains, BufferEnds, Reports
  <2>4. QED
    BY <2>1, <2>2, <2>3 DEF TypeOK
<1>4. CASE ConnectionLost
  BY <1>4 DEF ConnectionLost, TypeOK, NetStates
<1>5. QED
  BY <1>1, <1>2, <1>3, <1>4 DEF Environment

(* So do the steps of the main loop around a callback. *)
LEMMA MainTyped ==
    ASSUME TypeOK, MainDispatches \/ BusCallbackReturns \/ MainReleases \/ MainFrees
    PROVE  TypeOK'
<1> USE DEF playerVars, rateVars, bufferVars, netVars, disposeVars, requestVars, threadVars
<1>1. CASE MainDispatches
  <2>1. bus' \in Seq(Messages) /\ message' \in Messages
    BY <1>1, BusTyped DEF MainDispatches, TypeOK
  <2>2. QED
    BY <1>1, <2>1 DEF MainDispatches, TypeOK
<1>2. CASE BusCallbackReturns
  BY <1>2 DEF BusCallbackReturns, TypeOK
<1>3. CASE MainReleases
  <2>1. content' \in Contents
    BY <1>3 DEF MainReleases, DestroyNotify, TypeOK, Contents
  <2>2. /\ main' \in {"idle", "freeing"}
        /\ UNCHANGED <<playerVars, rateVars, bufferVars, gst, bus, netVars, todo, message,
                       disposal>>
    BY <1>3 DEF MainReleases
  <2>3. QED
    BY <2>1, <2>2 DEF TypeOK
<1>4. CASE MainFrees
  <2>1. content' \in Contents
    BY <1>4 DEF MainFrees, Freed, TypeOK, Contents
  <2>2. QED
    BY <1>4, <2>1 DEF MainFrees, TypeOK
<1>5. QED
  BY <1>1, <1>2, <1>3, <1>4

(* And so do the steps of Dispose. *)
LEMMA DisposeTyped ==
    ASSUME TypeOK,
           DisposeBegins \/ DisposeStops \/ DisposeDestroys \/ DisposeFrees \/ PipelineDeleted
    PROVE  TypeOK'
<1> USE DEF playerVars, rateVars, bufferVars, netVars, disposeVars, requestVars, threadVars
<1>1. CASE DisposeBegins
  <2>1. content' \in Contents
    BY <1>1 DEF DisposeBegins, TypeOK, Contents
  <2>2. QED
    BY <1>1, <2>1 DEF DisposeBegins, TypeOK
<1>2. CASE DisposeStops
  <2>1. gst' \in GstStates
    BY <1>2 DEF DisposeStops, TypeOK, GstStates
  <2>2. QED
    BY <1>2, <2>1, BusTyped DEF DisposeStops, TypeOK
<1>3. CASE DisposeDestroys
  <2>1. content' \in Contents
    BY <1>3 DEF DisposeDestroys, DestroyNotify, TypeOK, Contents
  <2>2. /\ disposal' \in {"free", "delete"}
        /\ UNCHANGED <<playerVars, rateVars, bufferVars, gst, bus, netVars, todo, main,
                       message>>
    BY <1>3 DEF DisposeDestroys
  <2>3. QED
    BY <2>1, <2>2 DEF TypeOK
<1>4. CASE DisposeFrees
  <2>1. content' \in Contents
    BY <1>4 DEF DisposeFrees, Freed, TypeOK, Contents
  <2>2. QED
    BY <1>4, <2>1 DEF DisposeFrees, TypeOK
<1>5. CASE PipelineDeleted
  BY <1>5 DEF PipelineDeleted, TypeOK
<1>6. QED
  BY <1>1, <1>2, <1>3, <1>4, <1>5

(* A call of the application puts its items on an empty list. *)
LEMMA CallTyped ==
    ASSUME TypeOK, NEW r \in Requests, AppCalls(r)
    PROVE  TypeOK'
<1> USE DEF playerVars, rateVars, bufferVars, netVars
<1>1. todo' \in [Threads -> Seq(Items)]
  <2>1. CASE r = "dispose"
    BY <2>1 DEF AppCalls, TypeOK
  <2>2. CASE r # "dispose"
    <3>1. r \in Items /\ "seek" \in Items
      BY <2>2, RequestsAssumption DEF Items
    <3>2. <<r>> \in Seq(Items) /\ <<r, "seek">> \in Seq(Items)
      BY <3>1, ItemLists
    <3>3. QED
      BY <2>2, <3>2 DEF AppCalls, TypeOK
  <2>3. QED
    BY <2>1, <2>2
<1>2. /\ disposal' \in {"begin", disposal}
      /\ UNCHANGED <<playerVars, rateVars, bufferVars, gst, bus, netVars, main, message,
                     content>>
  BY DEF AppCalls
<1>3. QED
  BY <1>1, <1>2 DEF TypeOK

(* The player's states, its pipeline, the messages and what every thread has *)
(* still to do keep their types in every step.                               *)
LEMMA NextTyped == TypeOK /\ [Next]_vars => TypeOK'
<1> SUFFICES ASSUME TypeOK, [Next]_vars
             PROVE  TypeOK'
  OBVIOUS
<1>1. CASE App
  BY <1>1, DisposeTyped, StepsTyped DEF App, Threads
<1>2. CASE Main
  BY <1>2, MainTyped, BusCallbackTyped, StepsTyped DEF Main, Threads
<1>3. CASE Environment
  BY <1>3, PipelineTyped
<1>4. CASE \E r \in Requests : AppCalls(r)
  BY <1>4, CallTyped
<1>5. CASE UNCHANGED vars
  BY <1>5 DEF vars, playerVars, rateVars, bufferVars, netVars, threadVars, disposeVars,
              requestVars, TypeOK
<1>6. QED
  BY <1>1, <1>2, <1>3, <1>4, <1>5 DEF Next, Environment

(* No reported change of the pipeline, in any order with the application's  *)
(* calls, takes the player out of its states or a call out of its code.     *)
THEOREM TypeCorrect == Spec => []TypeOK
<1>1. Init => TypeOK
  <2> SUFFICES ASSUME Init
               PROVE  TypeOK
    OBVIOUS
  <2>1. gst \in GstStates
    BY DEF Init, GstStates
  <2>2. content \in Contents
    BY DEF Init, Contents
  <2>3. todo \in [Threads -> Seq(Items)]
    BY ItemLists DEF Init
  <2>4. bus \in Seq(Messages) /\ message \in Messages
    BY MessagesTyped DEF Init
  <2>5. QED
    BY <2>1, <2>2, <2>3, <2>4 DEF Init, TypeOK, PlayerStates, NetStates
<1>2. QED
  BY <1>1, NextTyped, PTL DEF Spec

=============================================================================
