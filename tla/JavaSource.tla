----------------------------- MODULE JavaSource -----------------------------
(***************************************************************************)
(* The source element of a media pipeline (javasource.c).  Its streaming   *)
(* thread reads blocks from a Java ConnectionHolder and pushes them, with  *)
(* the events that frame them, into the buffer element behind it.          *)
(*                                                                         *)
(* A push is a call: SourceBegin decides what is pushed, the buffer's      *)
(* module delivers it and says with SourcePushed what the call returned,   *)
(* SourceEnd is the end of the iteration.  The thread holds the pad's      *)
(* stream lock from SourceBegin to SourceEnd; seeks wait for it.           *)
(***************************************************************************)
EXTENDS Integers

VARIABLES
    jsResult,       \* srcresult
    jsPending,      \* pending_event
    jsPosition,     \* position: of the next byte, or block of the segment
    jsPc,           \* where the streaming thread is
    jsOut,          \* what is being pushed
    jsUpdate,       \* update: no seek so far, the next segment is an update
    jsReturn,       \* the local variable result
    padFlushing     \* the pads between source and buffer are flushing

jsVars == <<jsResult, jsPending, jsPosition, jsUpdate, jsPc, jsOut, jsReturn, padFlushing>>

Flow == {"OK", "EOS", "FLUSHING", "ERROR"}

Nothing == [type |-> "nothing"]

JsTypeOK ==
    /\ jsResult \in Flow
    /\ jsPending \in {"STREAM_START", "SEGMENT", "EOS", "UNKNOWN"}
    /\ jsPosition \in Nat
    /\ jsUpdate \in BOOLEAN
    /\ jsPc \in {"loop", "push", "end", "paused"}
    /\ jsOut.type \in {"nothing", "stream-start", "segment", "buffer", "eos"}
    /\ jsReturn \in Flow
    /\ padFlushing \in BOOLEAN

(* READY_TO_PAUSED, and the activation that starts the task. *)
JsInit(hls) ==
    /\ jsResult = "OK"
    /\ jsPending = "STREAM_START"
    /\ jsPosition = 0
    /\ jsUpdate = ~hls
    /\ jsPc = "loop"
    /\ jsOut = Nothing
    /\ jsReturn = "OK"
    /\ padFlushing = FALSE

-----------------------------------------------------------------------------

(* The stream lock is free: no iteration of the task is under way. *)
SourceLockFree == jsPc \in {"loop", "paused"}

(* The loop finds that it was told to stop, and pauses its task. *)
SourceHalts ==
    /\ jsPc = "loop"
    /\ jsResult # "OK"
    /\ jsPc' = "paused"
    /\ UNCHANGED <<jsResult, jsPending, jsPosition, jsUpdate, jsOut, jsReturn, padFlushing>>

(* The loop decides to push out; it may have changed the pending event. *)
SourceBegin(out, pending) ==
    /\ jsPc = "loop"
    /\ jsResult = "OK"
    /\ jsPc' = "push"
    /\ jsOut' = out
    /\ jsPending' = pending
    /\ UNCHANGED <<jsResult, jsPosition, jsUpdate, jsReturn, padFlushing>>

(* An iteration that pushes nothing and ends with the given result. *)
SourceGivesUp(result) ==
    /\ jsPc = "loop"
    /\ jsResult = "OK"
    /\ jsPc' = "end"
    /\ jsReturn' = result
    /\ UNCHANGED <<jsResult, jsPending, jsPosition, jsUpdate, jsOut, padFlushing>>

PendingAfter(out) ==
    CASE out.type = "stream-start" -> "SEGMENT"
      [] out.type = "segment" -> "UNKNOWN"
      [] OTHER -> jsPending

(* The push returned r (for an event, OK stands for TRUE).  A buffer that is *)
(* answered by EOS is followed by the EOS event at once.                     *)
SourcePushed(r) ==
    /\ jsPosition' = IF jsOut.type = "buffer" /\ jsPending # "SEGMENT"
                     THEN jsPosition + 1 ELSE jsPosition
    /\ IF jsOut.type = "buffer" /\ r = "EOS"
       THEN /\ jsPending' = "EOS"
            /\ jsOut' = [type |-> "eos"]
            /\ UNCHANGED <<jsPc, jsReturn>>
       ELSE /\ jsPending' = PendingAfter(jsOut)
            /\ jsOut' = Nothing
            /\ jsPc' = "end"
            /\ jsReturn' = CASE jsOut.type = "buffer" -> r
                             [] jsOut.type = "eos" -> "EOS"
                             [] OTHER -> IF r = "OK" THEN "OK" ELSE "FLUSHING"
    /\ UNCHANGED <<jsResult, jsUpdate, padFlushing>>

(* A request to stop that came meanwhile is not overwritten by an OK. *)
ResultAfter(r) == IF jsResult = "OK" \/ r # "OK" THEN r ELSE jsResult

SourceEnd ==
    /\ jsPc = "end"
    /\ jsResult' = ResultAfter(jsReturn)
    /\ jsPc' = IF ResultAfter(jsReturn) = "OK" THEN "loop" ELSE "paused"
    /\ jsReturn' = "OK"
    /\ UNCHANGED <<jsPending, jsPosition, jsUpdate, jsOut, padFlushing>>

-----------------------------------------------------------------------------

(* perform_seek up to the stream lock. *)
SourceSeekBegins(flush) ==
    /\ padFlushing' = (padFlushing \/ flush)
    /\ jsResult' = "FLUSHING"
    /\ UNCHANGED <<jsPending, jsPosition, jsUpdate, jsPc, jsOut, jsReturn>>

(* perform_seek from the stream lock on.  The Java seek may fail: then      *)
(* nothing is pending and the task goes on where it was.                    *)
SourceSeeks(position, ok) ==
    /\ SourceLockFree
    /\ IF ok
       THEN /\ jsPending' = "SEGMENT"
            /\ jsPosition' = position
            /\ jsUpdate' = FALSE
       ELSE UNCHANGED <<jsPending, jsPosition, jsUpdate>>
    /\ jsResult' = "OK"
    /\ padFlushing' = FALSE
    /\ jsPc' = "loop"
    /\ UNCHANGED <<jsOut, jsReturn>>

(* PAUSED_TO_READY: the pads are deactivated and the task is told to stop. *)
SourceStops ==
    /\ jsResult' = "FLUSHING"
    /\ padFlushing' = TRUE
    /\ UNCHANGED <<jsPending, jsPosition, jsUpdate, jsPc, jsOut, jsReturn>>

=============================================================================
