-------------------------- MODULE PlaybackPipeline --------------------------
(***************************************************************************)
(* The player of GstAudioPlaybackPipeline.cpp: it keeps a player state     *)
(* apart from the state of the GStreamer pipeline it drives.  The          *)
(* application's calls start changes of the pipeline; the messages that    *)
(* report them, the end of the stream and the state of the buffer are      *)
(* handled by BusCallback on the thread of the main loop.                  *)
(*                                                                         *)
(* todo[t] is what thread t has still to do in its current call.  An item  *)
(* is a piece of code no lock is held across: one critical section of      *)
(* m_StateLock, or one call of gst_element_set_state or gst_element_seek.  *)
(***************************************************************************)
EXTENDS Integers, Sequences

CONSTANTS
    Requests,       \* what the application may ask for
    MaxRequests,    \* bound on the number of its calls
    MaxStalls,      \* bound on how often the buffer runs dry
    MaxBus,         \* bound on the bus when the buffer or a failing element posts
    Faults          \* which of AllFaults may happen

(* An element fails for good, an element complains and goes on, the         *)
(* connection breaks, a seek is refused.                                    *)
AllFaults == {"error", "mediaError", "lost", "seekFails"}

ASSUME RequestsAssumption ==
    Requests \subseteq {"play", "pause", "stop", "finish", "seek", "rateZero", "rateSet",
                        "dispose"}
ASSUME BoundsAssumption == {MaxRequests, MaxStalls, MaxBus} \subseteq Nat
ASSUME FaultsAssumption == Faults \subseteq AllFaults

VARIABLES
    state,          \* m_PlayerState
    pendingState,   \* m_PlayerPendingState
    stallOnPause,   \* m_StallOnPause
    seekInvoked,    \* m_bSeekInvoked
    rateZero,       \* m_fRate = 0
    resumePlay,     \* m_bResumePlayOnNonzeroRate
    progressEOS,    \* m_bLastProgressValueEOS
    buffered,       \* m_BufferPosition > 0
    full,           \* m_bHLSPBFull
    gst,            \* the pipeline: state, target, busy (a change is under way), failed
    bus,            \* the messages on its bus
    hls,            \* GetHLSModeEnabled
    net,            \* what the buffer element last reported, or "lost"
    stalls,
    todo,           \* what each thread has still to do in its call
    main,           \* where the main loop's thread is with a message
    message,        \* the message it is about to handle
    content,        \* m_pBusCallbackContent, and the watch that refers to it
    disposal,       \* where the application is in disposing of the player
    requests,
    wish            \* history: Play or Pause, if that was the last of Play, Pause, Stop, Finish

playerVars == <<state, pendingState, stallOnPause, seekInvoked>>
rateVars == <<rateZero, resumePlay>>
bufferVars == <<progressEOS, buffered, full>>
netVars == <<hls, net, stalls>>
disposeVars == <<content, disposal>>
requestVars == <<requests, wish>>
threadVars == <<main, message, disposeVars, requestVars>>
vars == <<playerVars, rateVars, bufferVars, gst, bus, netVars, todo, threadVars>>

PlayerStates == {"Unknown", "Ready", "Playing", "Paused", "Stopped", "Stalled", "Finished",
                 "Error"}
Threads == {"app", "main"}
Items == {"play", "setPlaying", "stop", "stopping", "finish", "pause", "pausing",
          "internalPause", "setPaused", "undo", "seek", "flush", "resume", "restart",
          "rateZero", "zeroOn", "zeroOff", "rateSet", "rateFlush"}

GstStates ==
    [state : {"NULL", "READY", "PAUSED", "PLAYING"}, target : {"NULL", "PAUSED", "PLAYING"},
     busy : BOOLEAN, failed : BOOLEAN, ended : BOOLEAN]
Contents ==
    [watch : {"attached", "destroyed", "notified"}, disposing : BOOLEAN, disposed : BOOLEAN,
     freeMe : BOOLEAN, frees : Nat]

StateChanged(old, new) == [type |-> "state", old |-> old, new |-> new]
Buffering(eos) == [type |-> "buffering", eos |-> eos]
Message(type) == [type |-> type]
Messages ==
    [type : {"state"}, old : {"NULL", "READY", "PAUSED", "PLAYING"},
     new : {"NULL", "PAUSED", "PLAYING"}]
    \cup [type : {"buffering"}, eos : BOOLEAN]
    \cup [type : {"none", "eos", "error", "mediaError", "underrun", "stall", "resume", "full",
                  "notFull", "hlsEos"}]
NetStates == {"flowing", "dry", "full", "done", "lost"}

TypeOK ==
    /\ state \in PlayerStates
    /\ pendingState \in {"Unknown", "Paused", "Stopped"}
    /\ stallOnPause \in BOOLEAN /\ seekInvoked \in BOOLEAN
    /\ rateZero \in BOOLEAN /\ resumePlay \in BOOLEAN
    /\ progressEOS \in BOOLEAN /\ buffered \in BOOLEAN /\ full \in BOOLEAN
    /\ hls \in BOOLEAN
    /\ gst \in GstStates
    /\ bus \in Seq(Messages) /\ message \in Messages
    /\ net \in NetStates
    /\ todo \in [Threads -> Seq(Items)]
    /\ main \in {"idle", "dispatched", "handling", "returned", "freeing"}
    /\ content \in Contents
    /\ disposal \in {"no", "begin", "stop", "destroy", "free", "delete", "done"}

Init ==
    /\ state = "Unknown" /\ pendingState = "Unknown"
    /\ stallOnPause = FALSE /\ seekInvoked = FALSE
    /\ rateZero = FALSE /\ resumePlay = FALSE
    /\ progressEOS = FALSE /\ buffered = FALSE /\ full = FALSE
    /\ gst = [state |-> "READY", target |-> "PAUSED", busy |-> TRUE, failed |-> FALSE,
              ended |-> FALSE]
    /\ bus = <<>>
    /\ hls \in BOOLEAN /\ net = "flowing" /\ stalls = 0
    /\ todo = [t \in Threads |-> <<>>]
    /\ main = "idle" /\ message = Message("none")
    /\ content = [watch |-> "attached", disposing |-> FALSE, disposed |-> FALSE,
                  freeMe |-> FALSE, frees |-> 0]
    /\ disposal = "no"
    /\ requests = 0 /\ wish = "none"

-----------------------------------------------------------------------------
(* The GStreamer pipeline.  Its elements post on the bus until it is NULL. *)

Down == gst.state = "NULL" /\ ~gst.busy

(* gst_element_set_state.  Asking for the state it has posts nothing. *)
SetState(s) ==
    [gst EXCEPT !.target = s, !.busy = @ \/ gst.state # s]

(* gst_element_get_state with no time to wait. *)
GstPending == IF gst.busy THEN gst.target ELSE "VOID_PENDING"

(* The change completes.  PLAYING again, after PAUSED was on its way, is  *)
(* reported as the change from PAUSED.  Sinks that were at the end of the *)
(* stream say so again when they are back at PLAYING.                     *)
PipelineSettles ==
    /\ gst.busy
    /\ LET again == gst.target = "PLAYING"
           old == IF again /\ gst.state = "PLAYING" THEN "PAUSED" ELSE gst.state
       IN  bus' = bus \o <<StateChanged(old, gst.target)>>
                      \o (IF again /\ gst.ended THEN <<Message("eos")>> ELSE <<>>)
    /\ gst' = [gst EXCEPT !.state = gst.target, !.busy = FALSE]
    /\ UNCHANGED <<playerVars, rateVars, bufferVars, netVars, todo, threadVars>>

(* The sinks have played the stream to its end. *)
PipelineEnds ==
    /\ gst.state = "PLAYING" /\ ~gst.busy /\ ~gst.ended
    /\ net = "done"
    /\ gst' = [gst EXCEPT !.ended = TRUE]
    /\ bus' = Append(bus, Message("eos"))
    /\ UNCHANGED <<playerVars, rateVars, bufferVars, netVars, todo, threadVars>>

(* An element fails; changes of state fail from now on. *)
PipelineFails ==
    /\ "error" \in Faults
    /\ ~gst.failed /\ ~Down /\ Len(bus) < MaxBus
    /\ gst' = [gst EXCEPT !.failed = TRUE]
    /\ bus' = Append(bus, Message("error"))
    /\ UNCHANGED <<playerVars, rateVars, bufferVars, netVars, todo, threadVars>>

(* An element posts an error that does not stop it: a read that failed, data *)
(* that cannot be decoded, a codec that is missing.                          *)
PipelineComplains ==
    /\ "mediaError" \in Faults
    /\ ~Down /\ Len(bus) < MaxBus
    /\ bus' = Append(bus, Message("mediaError"))
    /\ UNCHANGED <<playerVars, rateVars, bufferVars, gst, netVars, todo, threadVars>>

(* A read fails for the source, which pauses its task without a word: the    *)
(* buffer gets nothing more until a seek makes Java open the stream again.   *)
(* While the ring is full the source does not read.                          *)
ConnectionLost ==
    /\ "lost" \in Faults
    /\ net \in {"flowing", "dry"}
    /\ net' = "lost"
    /\ UNCHANGED <<playerVars, rateVars, bufferVars, gst, bus, hls, stalls, todo, threadVars>>

(* What the buffer element, or the queue behind it, reports. *)
Reports(from, to, m) ==
    /\ net = from
    /\ net' = to
    /\ ~Down /\ Len(bus) < MaxBus
    /\ bus' = Append(bus, m)
    /\ UNCHANGED <<playerVars, rateVars, bufferVars, gst, hls, todo, threadVars>>

BufferRunsDry ==
    /\ stalls < MaxStalls /\ stalls' = stalls + 1
    /\ IF hls THEN /\ gst.state = "PLAYING"
                   /\ \E n \in NetStates \ {"dry"} : Reports(n, n, Message("stall"))
              ELSE \/ Reports("flowing", "dry", Message("underrun"))
                   \/ Reports("lost", "lost", Message("underrun"))

BufferFills ==
    /\ UNCHANGED stalls
    /\ IF hls THEN \/ Reports("flowing", "flowing", Message("resume"))
                   \/ Reports("flowing", "full", Message("full"))
              ELSE \/ Reports("dry", "flowing", Buffering(FALSE))
                   \/ ~buffered /\ Reports("flowing", "flowing", Buffering(FALSE))

BufferDrains ==
    /\ hls /\ gst.state = "PLAYING"
    /\ UNCHANGED stalls
    /\ Reports("full", "flowing", Message("notFull"))

BufferEnds ==
    /\ UNCHANGED stalls
    /\ IF hls THEN Reports("flowing", "done", Message("hlsEos"))
              ELSE \E n \in {"flowing", "dry"} : Reports(n, "done", Buffering(TRUE))

-----------------------------------------------------------------------------
(* The calls.  Do(t, item) is the next piece of thread t's call; it is      *)
(* followed by what it puts before the rest.                                *)

Do(t, item) == todo[t] # <<>> /\ Head(todo[t]) = item
Then(t, items) == todo' = [todo EXCEPT ![t] = items \o Tail(@)]

(* A call that did not fail returns past its caller's error handling. *)
Returns(t) ==
    LET rest == Tail(todo[t])
    IN  todo' = [todo EXCEPT ![t] = IF rest # <<>> /\ Head(rest) = "undo" THEN Tail(rest)
                                    ELSE rest]

PlayIsReady ==
    \/ state \notin {"Finished", "Error", "Playing"}
    \/ state = "Playing" /\ (gst.state = "PAUSED" \/ GstPending = "PAUSED")

Play(t) ==
    /\ Do(t, "play")
    /\ Then(t, IF PlayIsReady THEN <<"setPlaying">> ELSE <<>>)
    /\ UNCHANGED <<playerVars, rateVars, bufferVars, gst, bus, netVars, threadVars>>

SetPlaying(t) ==
    /\ Do(t, "setPlaying")
    /\ Then(t, <<>>)
    /\ IF rateZero THEN resumePlay' = TRUE /\ UNCHANGED gst
       ELSE UNCHANGED resumePlay /\ gst' = IF gst.failed THEN gst ELSE SetState("PLAYING")
    /\ UNCHANGED <<playerVars, rateZero, bufferVars, bus, netVars, threadVars>>

Stop(t) ==
    /\ Do(t, "stop")
    /\ LET ignored == state \in {"Stopped", "Error"}
       IN  /\ resumePlay' = (resumePlay /\ (ignored \/ ~rateZero))
           /\ Then(t, IF ignored \/ rateZero THEN <<>> ELSE <<"stopping">>)
    /\ UNCHANGED <<playerVars, rateZero, bufferVars, gst, bus, netVars, threadVars>>

Stopping(t) ==
    /\ Do(t, "stopping")
    /\ pendingState' = "Stopped"
    /\ Then(t, <<"internalPause", "undo">>)
    /\ UNCHANGED <<state, stallOnPause, seekInvoked, rateVars, bufferVars, gst, bus, netVars,
                   threadVars>>

Finish(t) ==
    /\ Do(t, "finish")
    /\ Then(t, IF state = "Playing" THEN <<"internalPause">> ELSE <<>>)
    /\ UNCHANGED <<playerVars, rateVars, bufferVars, gst, bus, netVars, threadVars>>

Pause(t) ==
    /\ Do(t, "pause")
    /\ Then(t, IF state \in {"Paused", "Error"} THEN <<>> ELSE <<"pausing">>)
    /\ UNCHANGED <<playerVars, rateVars, bufferVars, gst, bus, netVars, threadVars>>

(* Whether there is anything to pause is looked at again, under the lock. *)
Pausing(t) ==
    /\ Do(t, "pausing")
    /\ IF state \in {"Stopped", "Stalled"}
       THEN /\ state' = "Paused"
            /\ Then(t, <<>>)
            /\ UNCHANGED pendingState
       ELSE /\ pendingState' = "Paused"
            /\ Then(t, <<"internalPause", "undo">>)
            /\ UNCHANGED state
    /\ UNCHANGED <<stallOnPause, seekInvoked, rateVars, bufferVars, gst, bus, netVars,
                   threadVars>>

InternalPause(t) ==
    /\ Do(t, "internalPause")
    /\ LET ready == /\ state # "Finished" \/ seekInvoked \/ pendingState = "Stopped"
                    /\ state # "Error"
       IN  IF ready THEN Then(t, <<"setPaused">>) ELSE Returns(t)
    /\ seekInvoked' = FALSE
    /\ UNCHANGED <<state, pendingState, stallOnPause, rateVars, bufferVars, gst, bus,
                   netVars, threadVars>>

SetPaused(t) ==
    /\ Do(t, "setPaused")
    /\ IF rateZero THEN resumePlay' = FALSE /\ Returns(t) /\ UNCHANGED gst
       ELSE /\ UNCHANGED resumePlay
            /\ IF gst.failed THEN Then(t, <<>>) /\ UNCHANGED gst
               ELSE Returns(t) /\ gst' = SetState("PAUSED")
    /\ UNCHANGED <<playerVars, rateZero, bufferVars, bus, netVars, threadVars>>

(* Stop or Pause failed: Java's stop() does not seek, SetRate(0) gives up. *)
Undo(t) ==
    /\ Do(t, "undo")
    /\ pendingState' = "Unknown"
    /\ todo' = [todo EXCEPT ![t] = <<>>]
    /\ UNCHANGED <<state, stallOnPause, seekInvoked, rateVars, bufferVars, gst, bus,
                   netVars, threadVars>>

Seek(t) ==
    /\ Do(t, "seek")
    /\ seekInvoked' = (seekInvoked \/ state = "Finished")
    /\ Then(t, IF state \in {"Unknown", "Error"} THEN <<>> ELSE <<"flush", "resume">>)
    /\ UNCHANGED <<state, pendingState, stallOnPause, rateVars, bufferVars, gst, bus,
                   netVars, threadVars>>

(* SeekPipeline.  A seek the elements accept flushes the pipeline, which    *)
(* falls back to PAUSED and prerolls on its way to the state it was asked   *)
(* for.  The buffer may have to load another part of the stream; for HLS it *)
(* always does.                                                             *)
Flushed ==
    /\ ~gst.failed /\ ~Down
    /\ gst' = [gst EXCEPT !.state = IF @ = "PLAYING" THEN "PAUSED" ELSE @, !.busy = TRUE,
                          !.ended = FALSE]
    /\ \/ ~hls /\ UNCHANGED <<net, bus>>
       \/ /\ net' = "flowing"
          /\ bus' = IF hls THEN bus ELSE Append(bus, Buffering(FALSE))

SeekFails == gst.failed \/ Down \/ "seekFails" \in Faults

SeekPipeline(t) ==
    /\ Do(t, "flush")
    /\ \/ Flushed /\ Then(t, <<>>)
       \/ SeekFails /\ todo' = [todo EXCEPT ![t] = <<>>] /\ UNCHANGED <<gst, net, bus>>
    /\ UNCHANGED <<playerVars, rateVars, bufferVars, hls, stalls, threadVars>>

SeekResumes(t) ==
    /\ Do(t, "resume")
    /\ Then(t, IF state = "Finished" /\ pendingState # "Stopped" THEN <<"restart">>
               ELSE <<>>)
    /\ UNCHANGED <<playerVars, rateVars, bufferVars, gst, bus, netVars, threadVars>>

Restart(t) ==
    /\ Do(t, "restart")
    /\ Then(t, <<>>)
    /\ gst' = IF gst.failed THEN gst ELSE SetState("PLAYING")
    /\ UNCHANGED <<playerVars, rateVars, bufferVars, bus, netVars, threadVars>>

(* SetRate(0) pauses; the flag remembers whether it has to play again. *)
SetRateZero(t) ==
    /\ Do(t, "rateZero")
    /\ Then(t, IF state = "Error" \/ rateZero THEN <<>>
               ELSE <<"pause", IF gst.state = "PLAYING" \/ state = "Stalled" THEN "zeroOn"
                               ELSE "zeroOff">>)
    /\ UNCHANGED <<playerVars, rateVars, bufferVars, gst, bus, netVars, threadVars>>

RateIsZero(t) ==
    /\ Do(t, "zeroOn") \/ Do(t, "zeroOff")
    /\ Then(t, <<>>)
    /\ rateZero' = TRUE
    /\ resumePlay' = (Head(todo[t]) = "zeroOn")
    /\ UNCHANGED <<playerVars, bufferVars, gst, bus, netVars, threadVars>>

(* SetRate with another rate than the current one. *)
SetRate(t) ==
    /\ Do(t, "rateSet")
    /\ rateZero' = (rateZero /\ state = "Error")
    /\ Then(t, IF state = "Error" THEN <<>> ELSE <<"rateFlush">>)
    /\ UNCHANGED <<playerVars, resumePlay, bufferVars, gst, bus, netVars, threadVars>>

(* rateWasZero is read from m_fRate after the new rate was stored there. *)
RateFlush(t) ==
    /\ Do(t, "rateFlush")
    /\ \/ Flushed /\ Then(t, IF rateZero /\ resumePlay THEN <<"play">> ELSE <<>>)
       \/ SeekFails /\ Then(t, <<>>) /\ UNCHANGED <<gst, net, bus>>
    /\ UNCHANGED <<playerVars, rateVars, bufferVars, hls, stalls, threadVars>>

-----------------------------------------------------------------------------
(* BusCallback.  It holds m_DisposeLock from "handling" until it returns. *)

(* What being paused means to a player that was playing: what was asked for *)
(* last, a stall, or that the stop time was reached.                        *)
PausedWhilePlaying(old) ==
    CASE pendingState \in {"Stopped", "Paused"} -> pendingState
      [] pendingState \notin {"Stopped", "Paused"} /\ stallOnPause -> "Stalled"
      [] OTHER -> IF old = "PLAYING" THEN "Finished" ELSE "Playing"

(* The player state that a change of the pipeline leads to. *)
NewPlayerState(old, new) ==
    LET played == old = "PAUSED" /\ new = "PLAYING"
        again == old = "PAUSED" /\ new = "PAUSED"
        paused == old \in {"PLAYING", "PAUSED"} /\ new = "PAUSED"
    IN  CASE state = "Unknown" /\ old \in {"READY", "PAUSED"} /\ new = "PAUSED" -> "Ready"
          [] state = "Playing" /\ paused -> PausedWhilePlaying(old)
          [] state = "Paused" /\ old = "PAUSED" /\ pendingState = "Stopped" -> "Stopped"
          [] state = "Paused" /\ played /\ pendingState # "Stopped" -> "Playing"
          [] state = "Stopped" /\ again /\ pendingState = "Paused" -> "Paused"
          [] state = "Stalled" /\ again /\ pendingState \in {"Stopped", "Paused"} ->
               pendingState
          [] state = "Finished" /\ paused /\ pendingState = "Stopped" -> "Stopped"
          [] state = "Finished" /\ again /\ pendingState # "Stopped" -> "Paused"
          [] state \in {"Ready", "Stopped", "Stalled", "Finished"} /\ played -> "Playing"
          [] OTHER -> state

(* Mutant: whether the stall has been overcome is not looked at. *)
StallIsOver_never(new) == FALSE

(* SetPlayerState, when the stall it enters has already been overcome. *)
StallIsOver(new) == new = "Stalled" /\ state # "Stalled" /\ (progressEOS \/ full)

UpdatePlayerState(old, new) ==
    LET s == NewPlayerState(old, new)
    IN  /\ state' = s
        /\ pendingState' = IF /\ s # state /\ s = pendingState
                              /\ ~(state = "Finished" /\ s = "Paused")
                           THEN "Unknown" ELSE pendingState
        /\ stallOnPause' = /\ stallOnPause
                           /\ ~(state = "Playing" /\ s \in {"Stopped", "Stalled", "Paused"})
        /\ seekInvoked' = (seekInvoked /\ ~(state = "Finished" /\ s # state))
        /\ gst' = IF StallIsOver(s) /\ ~rateZero /\ ~gst.failed THEN SetState("PLAYING")
                  ELSE gst
        /\ resumePlay' = (resumePlay \/ (StallIsOver(s) /\ rateZero))

(* Which changes of the pipeline's state are looked at. *)
ChangeMatters(m) ==
    \/ m.new # m.old /\ state # "Unknown"
    \/ /\ m.new = "PAUSED" /\ m.old = "PAUSED"
       /\ pendingState \in {"Stopped", "Paused"} \/ stallOnPause
    \/ state = "Unknown" /\ m.new = "PAUSED" /\ m.old \in {"READY", "PAUSED"}

(* A stall that ends when the data suffices: nothing else was asked for. *)
MayResume == state = "Stalled" /\ pendingState \notin {"Paused", "Stopped"}

Resumes == IF MayResume THEN <<"play">> ELSE <<>>

(* What a message does at once; MainDoes is what it leaves to be done. *)
MainDoes(items) == todo' = [todo EXCEPT !["main"] = items]

(* UpdateBufferPosition is called here as well, but has nothing to resume:  *)
(* a stalled player gets no such message without a pending state.           *)
HandleState(m) ==
    /\ m.type = "state"
    /\ IF ChangeMatters(m) THEN UpdatePlayerState(m.old, m.new)
       ELSE UNCHANGED <<playerVars, gst, resumePlay>>
    /\ UNCHANGED <<bufferVars, bus, todo>>

HandleEos(m) ==
    /\ m.type = "eos"
    /\ state' = "Finished"
    /\ progressEOS' = (progressEOS /\ ~(hls /\ state # "Finished"))
    /\ UNCHANGED <<pendingState, stallOnPause, seekInvoked, gst, resumePlay, todo,
                   buffered, full, bus>>

(* Errors that are only passed on to the application: the connection was lost *)
(* (m_bIgnoreError decides whether the error that follows it is passed on as  *)
(* well), the media cannot be decoded, a codec or the type is unknown.        *)
HandleMediaError(m) ==
    /\ m.type = "mediaError"
    /\ UNCHANGED <<playerVars, gst, resumePlay, todo, bufferVars, bus>>

(* After any other the pipeline is torn down, which flushes its bus. *)
HandleError(m) ==
    /\ m.type = "error"
    /\ state' = "Error"
    /\ gst' = [gst EXCEPT !.state = "NULL", !.target = "NULL", !.busy = FALSE]
    /\ bus' = <<>>
    /\ UNCHANGED <<pendingState, stallOnPause, seekInvoked, resumePlay, todo, bufferVars>>

(* UpdateBufferPosition: whether the data suffices depends on the position. *)
HandleBuffering(m) ==
    /\ m.type = "buffering"
    /\ progressEOS' = m.eos
    /\ buffered' = TRUE
    /\ \E enough \in BOOLEAN : MainDoes(IF enough \/ m.eos THEN Resumes ELSE <<>>)
    /\ UNCHANGED <<playerVars, gst, resumePlay, full, bus>>

(* BufferUnderrun and HLSBufferStall. *)
Suspends(m) ==
    /\ gst.state = "PLAYING" /\ ~progressEOS
    /\ \/ /\ m.type = "underrun"
          /\ state \notin {"Stalled", "Ready", "Error", "Finished"}
          /\ buffered /\ GstPending # "PAUSED"
       \/ /\ m.type = "stall"
          /\ state = "Playing"
          /\ ~full /\ GstPending = "VOID_PENDING"

HandleStall(m) ==
    /\ m.type \in {"underrun", "stall"}
    /\ stallOnPause' = (stallOnPause \/ Suspends(m))
    /\ MainDoes(IF Suspends(m) THEN <<"internalPause">> ELSE <<>>)
    /\ UNCHANGED <<state, pendingState, seekInvoked, gst, resumePlay, bufferVars, bus>>

(* HLSBufferResume, and the flag that the ring is full. *)
HandleHLS(m) ==
    /\ m.type \in {"resume", "hlsEos", "full", "notFull"}
    /\ full' = (m.type = "full" \/ (full /\ m.type # "notFull"))
    /\ progressEOS' = (progressEOS \/ m.type = "hlsEos")
    /\ LET playing == /\ progressEOS' /\ state = "Playing"
                      /\ pendingState \notin {"Paused", "Stopped"}
       IN  MainDoes(IF m.type # "notFull" /\ playing THEN <<"play">>
                    ELSE IF m.type # "notFull" THEN Resumes ELSE <<>>)
    /\ UNCHANGED <<playerVars, gst, resumePlay, buffered, bus>>

Ignored == content.disposed \/ content.disposing

(* The main loop holds a reference to the content while it dispatches. *)
MainDispatches ==
    /\ main = "idle" /\ content.watch = "attached" /\ bus # <<>>
    /\ message' = Head(bus)
    /\ bus' = Tail(bus)
    /\ main' = "dispatched"
    /\ UNCHANGED <<playerVars, rateVars, bufferVars, gst, netVars, todo, disposeVars,
                   requestVars>>

BusCallback ==
    /\ main = "dispatched"
    /\ IF Ignored THEN main' = "returned" /\ UNCHANGED <<playerVars, gst, resumePlay, todo,
                                                         bufferVars, bus>>
       ELSE /\ main' = "handling"
            /\ \/ HandleState(message) \/ HandleEos(message)
               \/ HandleMediaError(message) \/ HandleError(message)
               \/ HandleBuffering(message) \/ HandleStall(message) \/ HandleHLS(message)
    /\ message' = Message("none")
    /\ UNCHANGED <<rateZero, netVars, disposeVars, requestVars>>

BusCallbackReturns ==
    /\ main = "handling" /\ todo["main"] = <<>>
    /\ main' = "returned"
    /\ UNCHANGED <<playerVars, rateVars, bufferVars, gst, bus, netVars, todo, message,
                   disposeVars, requestVars>>

-----------------------------------------------------------------------------
(* The end of the content that callback and pipeline share. *)

(* Mutant: Dispose does not take the lock. *)
DisposeLockFree_ignored == TRUE

DisposeLockFree == main # "handling"

(* BusCallbackDestroyNotify, under m_DisposeLock: who frees? *)
DestroyNotify(c) == [c EXCEPT !.watch = "notified", !.freeMe = @ \/ ~c.disposed]

Freed(c) == [c EXCEPT !.frees = @ + 1]

(* The main loop drops its reference, the last one if the watch is gone. *)
MainReleases ==
    /\ main = "returned"
    /\ IF content.watch = "destroyed"
       THEN /\ main' = IF content.disposed THEN "freeing" ELSE "idle"
            /\ content' = DestroyNotify(content)
       ELSE main' = "idle" /\ UNCHANGED content
    /\ UNCHANGED <<playerVars, rateVars, bufferVars, gst, bus, netVars, todo, message,
                   disposal, requestVars>>

MainFrees ==
    /\ main = "freeing"
    /\ main' = "idle"
    /\ content' = Freed(content)
    /\ UNCHANGED <<playerVars, rateVars, bufferVars, gst, bus, netVars, todo, message,
                   disposal, requestVars>>

DisposeBegins ==
    /\ disposal = "begin" /\ disposal' = "stop"
    /\ DisposeLockFree
    /\ content' = [content EXCEPT !.disposing = TRUE]
    /\ UNCHANGED <<playerVars, rateVars, bufferVars, gst, bus, netVars, todo, main,
                   message, requestVars>>

DisposeStops ==
    /\ disposal = "stop" /\ disposal' = "destroy"
    /\ gst' = [gst EXCEPT !.state = "NULL", !.target = "NULL", !.busy = FALSE]
    /\ bus' = <<>>
    /\ UNCHANGED <<playerVars, rateVars, bufferVars, netVars, todo, main, message,
                   content, requestVars>>

(* g_source_destroy calls back at once when nothing is being dispatched. *)
DisposeDestroys ==
    /\ disposal = "destroy"
    /\ DisposeLockFree
    /\ LET c == IF main = "idle" THEN DestroyNotify(content)
                ELSE [content EXCEPT !.watch = "destroyed"]
       IN  /\ content' = [c EXCEPT !.disposed = TRUE]
           /\ disposal' = IF c.freeMe THEN "free" ELSE "delete"
    /\ UNCHANGED <<playerVars, rateVars, bufferVars, gst, bus, netVars, todo, main,
                   message, requestVars>>

DisposeFrees ==
    /\ disposal = "free" /\ disposal' = "delete"
    /\ content' = Freed(content)
    /\ UNCHANGED <<playerVars, rateVars, bufferVars, gst, bus, netVars, todo, main,
                   message, requestVars>>

(* ~CMedia deletes the pipeline it has disposed of. *)
PipelineDeleted ==
    /\ disposal = "delete" /\ disposal' = "done"
    /\ UNCHANGED <<playerVars, rateVars, bufferVars, gst, bus, netVars, todo, main,
                   message, content, requestVars>>

-----------------------------------------------------------------------------
(* The application.  NativeMediaPlayer.stop seeks to the start time, its    *)
(* seek does nothing while stopped, and nothing but dispose is called       *)
(* before Ready.                                                            *)

AppCalls(r) ==
    /\ todo["app"] = <<>> /\ disposal = "no"
    /\ requests < MaxRequests
    /\ requests' = requests + 1
    /\ state # "Unknown" \/ r = "dispose"
    /\ r = "seek" => state # "Stopped"
    /\ IF r = "dispose" THEN disposal' = "begin" /\ UNCHANGED todo
       ELSE /\ todo' = [todo EXCEPT !["app"] = IF r = "stop" THEN <<r, "seek">> ELSE <<r>>]
            /\ UNCHANGED disposal
    /\ wish' = CASE r \in {"play", "pause"} -> r
                 [] r \in {"stop", "finish"} -> "none"
                 [] OTHER -> wish
    /\ UNCHANGED <<playerVars, rateVars, bufferVars, gst, bus, netVars, main, message,
                   content>>

-----------------------------------------------------------------------------

Steps(t) ==
    \/ Play(t) \/ SetPlaying(t) \/ Stop(t) \/ Stopping(t) \/ Finish(t) \/ Pause(t)
    \/ Pausing(t) \/ InternalPause(t)
    \/ SetPaused(t) \/ Undo(t) \/ Seek(t) \/ SeekPipeline(t) \/ SeekResumes(t) \/ Restart(t)
    \/ SetRateZero(t) \/ RateIsZero(t) \/ SetRate(t) \/ RateFlush(t)

App ==
    \/ Steps("app") \/ DisposeBegins \/ DisposeStops \/ DisposeDestroys \/ DisposeFrees
    \/ PipelineDeleted

Main ==
    \/ MainDispatches \/ BusCallback \/ Steps("main") \/ BusCallbackReturns
    \/ MainReleases \/ MainFrees

Buffer == BufferRunsDry \/ BufferFills \/ BufferDrains \/ BufferEnds

Next ==
    \/ App \/ Main \/ PipelineSettles \/ PipelineEnds \/ PipelineFails \/ PipelineComplains
    \/ ConnectionLost \/ Buffer
    \/ \E r \in Requests : AppCalls(r)

Spec == Init /\ [][Next]_vars

(* Calls and callbacks come to their end, a change of state completes, and  *)
(* the download of a finite stream makes progress while its connection      *)
(* holds: once it is lost BufferFills and BufferEnds are not enabled.       *)
FairSpec ==
    /\ Spec
    /\ WF_vars(App) /\ WF_vars(Main) /\ WF_vars(PipelineSettles)
    /\ SF_vars(BufferFills) /\ SF_vars(BufferEnds)

-----------------------------------------------------------------------------

(* BusCallbackDestroyNotify and Dispose agree on who frees the content: it  *)
(* is freed at most once, never while a thread is inside or about to enter  *)
(* it, and it is not left over when both are done.  The pipeline itself is  *)
(* deleted when no callback is using it.                                    *)
ContentLifetime ==
    /\ content.frees <= 1
    /\ content.frees = 1 => main = "idle" /\ disposal \in {"delete", "done"}
    /\ disposal = "done" => main # "handling"
    /\ disposal \in {"delete", "done"} /\ main = "idle" => content.frees = 1

(* UpdateBufferPosition, HLSBufferResume and SetPlayerState: a player that  *)
(* stalls while it is wanted to play does not stay so, although the report  *)
(* that the data is there may come before it notices that it has stalled.   *)
(* Errors of the elements on the way do not change that; only a connection  *)
(* that is lost does, since nothing in the code opens it again by itself.   *)
StallIsOvercome ==
    state = "Stalled" /\ wish = "play"
       ~> state # "Stalled" \/ wish # "play" \/ disposal # "no" \/ net = "lost"

(* MediaPlayer.pause says "Once the player is actually paused the status    *)
(* will be set to PAUSED": a player that was told to pause, and then left   *)
(* alone, is not found playing for ever (GstAudioPlaybackPipeline.Pause).   *)
PauseTakesEffect ==
    wish = "pause" ~> wish # "pause" \/ state \in {"Ready", "Paused", "Finished"}

=============================================================================
