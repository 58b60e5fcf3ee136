--------------------------- MODULE ProgressBuffer ---------------------------
(***************************************************************************)
(* Progressive download: JavaSource pushes a stream of Size blocks into    *)
(* the element of progressbuffer.c, which keeps them in a file and pushes  *)
(* them on from a task of its own, the reader.  A third thread seeks.      *)
(*                                                                         *)
(* The element's fields are accessed under its mutex, so each step below   *)
(* is a critical section; what a step leaves behind is what the other      *)
(* threads can meet.  The exception is the second half of a seek, where    *)
(* each access to a field that others may change is a step of its own.     *)
(* The reader holds the source pad's stream lock except at "top" and       *)
(* "paused".  Blocks stand for bytes: block i is the one that belongs at   *)
(* offset i of the stream.                                                 *)
(***************************************************************************)
EXTENDS JavaSource, FiniteSets

CONSTANTS
    Size,           \* length of the stream
    BufferSize,     \* DEFAULT_BUFFER_SIZE of the cache, in blocks
    Threshold,      \* a position message is due after more than so many blocks
    MaxSeeks,       \* bound on the number of seeks
    Features        \* which of "truncate", "reject", "stop", "noRange" may happen

ASSUME SizeAssumption == Size \in Nat \ {0}
ASSUME BufferSizeAssumption == BufferSize \in Nat \ {0}
ASSUME ThresholdAssumption == Threshold \in Nat
ASSUME MaxSeeksAssumption == MaxSeeks \in Nat
ASSUME FeaturesAssumption == Features \subseteq {"truncate", "reject", "stop", "noRange"}

VARIABLES
    file,           \* content of the cache's file: a block for each position
    readPosition,   \* read_position and write_position of the cache
    writePosition,
    cacheReadOffset,\* cache_read_offset: what file position 0 stands for
    segment,        \* sink_segment: start, position, stop
    reported,       \* last_update: the position of the last position message
    pending,        \* pending_src_event
    srcresult,
    eos,            \* eos_status.eos
    unexpected,
    instantSeek,    \* instant_seek
    reader,         \* where the reader is
    skip,           \* its local variable skip
    out,            \* what it is pushing, and the result; with a buffer, as
                    \* history, whether it was read from an intact cache
    seeker,         \* where the thread that seeks is
    seek,           \* the position it seeks to
    seeks,          \* how many seeks there have been
    downFlushing,   \* the pads behind the buffer are flushing
    down,           \* what they got: offset expected next, EOS or not
    races           \* history: which of the races below have happened

cacheVars == <<file, readPosition, writePosition, cacheReadOffset>>
sinkVars == <<segment, reported, eos, unexpected>>
readerVars == <<reader, skip, out>>
seekVars == <<seeker, seek, seeks>>
vars == <<jsVars, cacheVars, sinkVars, pending, srcresult, instantSeek, readerVars,
          seekVars, downFlushing, down, races>>

NoEvent == [type |-> "none"]
EosEvent == [type |-> "eos"]
SegmentEvent(start) == [type |-> "segment", start |-> start]

CacheTypes ==
    /\ file \in [DOMAIN file -> 0 .. Size - 1]
    /\ 0 .. writePosition - 1 \subseteq DOMAIN file
    /\ readPosition \in Nat
    /\ writePosition \in Nat
    /\ cacheReadOffset \in 0 .. Size

SinkTypes ==
    /\ segment \in [start : 0 .. Size, position : 0 .. Size, stop : 0 .. Size]
    /\ reported \in 0 .. Size
    /\ eos \in BOOLEAN
    /\ unexpected \in BOOLEAN
    /\ instantSeek \in BOOLEAN

ReaderTypes ==
    /\ pending \in {NoEvent, EosEvent} \cup [type : {"segment"}, start : 0 .. Size]
    /\ srcresult \in Flow
    /\ reader \in {"none", "top", "awake", "waiting", "event", "push", "store", "paused", "gone"}
    /\ skip \in BOOLEAN
    /\ downFlushing \in BOOLEAN
    /\ down \in [next : Nat \cup {-1}, eos : BOOLEAN]

SeekTypes ==
    /\ seeker \in {"idle", "begun", "locking", "source", "sourceLocking", "failed",
                   "announce", "finish", "stopping", "stopped"}
    /\ seek \in 0 .. Size - 1
    /\ seeks \in 0 .. MaxSeeks
    /\ races \subseteq {"eventDropped", "flushOverwritten", "itemDropped", "seekLost"}

TypeOK == JsTypeOK /\ CacheTypes /\ SinkTypes /\ ReaderTypes /\ SeekTypes

(* create_cache *)
NewFile == [i \in {} |-> 0]

Init ==
    /\ JsInit(FALSE)
    /\ file = NewFile
    /\ readPosition = 0
    /\ writePosition = 0
    /\ cacheReadOffset = 0
    /\ segment = [start |-> 0, position |-> 0, stop |-> Size]
    /\ reported = 0
    /\ pending = NoEvent
    /\ srcresult = "OK"
    /\ eos = FALSE
    /\ unexpected = FALSE
    /\ instantSeek = FALSE
    /\ reader = "none"
    /\ skip = FALSE
    /\ out = NoEvent
    /\ seeker = "idle"
    /\ seek = 0
    /\ seeks = 0
    /\ downFlushing = FALSE
    /\ down = [next |-> -1, eos |-> FALSE]
    /\ races = {}

-----------------------------------------------------------------------------
(* What the source pushes, and the element's sink pad. *)

(* java_source_loop decides.  ReadNextBlock answers EOS_CODE at the end of  *)
(* the stream; a connection may be cut before, or fail (OTHER_ERROR_CODE).  *)
SourceNext ==
    /\ \/ /\ jsPending = "STREAM_START"
          /\ SourceBegin([type |-> "stream-start"], jsPending)
       \/ /\ jsPending = "SEGMENT"
          /\ SourceBegin(SegmentEvent(jsPosition), jsPending)
       \/ /\ jsPending = "EOS"
          /\ SourceBegin(EosEvent, jsPending)
       \/ /\ jsPending = "UNKNOWN"
          /\ jsPosition < Size
          /\ SourceBegin([type |-> "buffer", offset |-> jsPosition], jsPending)
       \/ /\ jsPending = "UNKNOWN"
          /\ jsPosition = Size \/ "truncate" \in Features
          /\ SourceBegin(EosEvent, "EOS")
       \/ /\ jsPending = "UNKNOWN"
          /\ "truncate" \in Features
          /\ SourceGivesUp("FLUSHING")
    /\ UNCHANGED <<cacheVars, sinkVars, pending, srcresult, instantSeek, readerVars,
                   seekVars, downFlushing, down, races>>

(* g_cond_signal(add_cond): lost unless the reader is waiting. *)
Signal == reader' = IF reader = "waiting" THEN "awake" ELSE reader

(* Mutant: a message too late. *)
MessageDue_late(position, mandatory) == mandatory \/ position - reported > Threshold + 1

(* send_position_message: the message is mandatory or due. *)
MessageDue(position, mandatory) == mandatory \/ position - reported > Threshold

PositionMessage(position, mandatory) ==
    reported' = IF MessageDue(position, mandatory) THEN position ELSE reported

(* History: the source has gone on from something that never got here. *)
ItemDropped == IF jsOut.type \in {"buffer", "segment"} THEN {"itemDropped"} ELSE {}

(* The push does not get past the flushing pads. *)
PushFlushed ==
    /\ jsPc = "push"
    /\ padFlushing
    /\ SourcePushed("FLUSHING")
    /\ races' = races \cup ItemDropped
    /\ UNCHANGED <<cacheVars, sinkVars, pending, srcresult, instantSeek, readerVars,
                   seekVars, downFlushing, down>>

PushReaches(type) == jsPc = "push" /\ ~padFlushing /\ jsOut.type = type

(* progress_buffer_chain when data is not welcome any more. *)
ChainRefuses ==
    /\ PushReaches("buffer")
    /\ eos \/ unexpected
    /\ SourcePushed("EOS")
    /\ UNCHANGED <<cacheVars, sinkVars, pending, srcresult, instantSeek, readerVars,
                   seekVars, downFlushing, down, races>>

(* Mutant: a block is left out. *)
Write_gap(block) ==
    [i \in DOMAIN file \cup {writePosition + 1} |->
        IF i = writePosition + 1 THEN block ELSE file[i]]

(* write() at the position of the cache's write handle. *)
Write(block) ==
    [i \in DOMAIN file \cup {writePosition} |-> IF i = writePosition THEN block ELSE file[i]]

(* progress_buffer_chain with progress_buffer_enqueue_item; the first block *)
(* also makes the source pad, whose activation starts the reader.           *)
Chain ==
    /\ PushReaches("buffer")
    /\ ~eos /\ ~unexpected
    /\ segment' = [segment EXCEPT !.position = jsOut.offset + 1]
    /\ IF segment.stop < jsOut.offset + 1
       THEN /\ SourcePushed("ERROR")
            /\ UNCHANGED <<cacheVars, reported, srcresult, reader>>
       ELSE /\ SourcePushed("OK")
            /\ file' = Write(jsOut.offset)
            /\ writePosition' = writePosition + 1
            /\ PositionMessage(jsOut.offset + 1, FALSE)
            /\ IF reader = "none"
               THEN srcresult' = "OK" /\ reader' = "top"
               ELSE /\ IF MessageDue(jsOut.offset + 1, FALSE) THEN Signal ELSE UNCHANGED reader
                    /\ UNCHANGED srcresult
            /\ UNCHANGED <<readPosition, cacheReadOffset>>
    /\ UNCHANGED <<eos, unexpected, pending, instantSeek, skip, out, seekVars,
                   downFlushing, down, races>>

(* progress_buffer_sink_event after the end of the stream. *)
SinkEventRefused ==
    /\ jsOut.type # "buffer" /\ PushReaches(jsOut.type)
    /\ eos
    /\ SourcePushed("ERROR")
    /\ races' = races \cup ItemDropped
    /\ UNCHANGED <<cacheVars, sinkVars, pending, srcresult, instantSeek, readerVars,
                   seekVars, downFlushing, down>>

(* Any other serialized event is swallowed: stream-start, caps. *)
SinkEventIgnored ==
    /\ PushReaches("stream-start")
    /\ ~eos
    /\ SourcePushed("OK")
    /\ UNCHANGED <<cacheVars, sinkVars, pending, srcresult, instantSeek, readerVars,
                   seekVars, downFlushing, down, races>>

(* Mutant: cache_read_offset is not moved. *)
OffsetAfter_kept(start) == cacheReadOffset

OffsetAfter(start) == IF jsUpdate THEN cacheReadOffset ELSE start

(* A segment that is an update gets a new cache, another one rewinds it. *)
SinkSegment ==
    /\ PushReaches("segment")
    /\ ~eos
    /\ SourcePushed("OK")
    /\ unexpected' = FALSE
    /\ file' = IF jsUpdate THEN NewFile ELSE file
    /\ writePosition' = 0
    /\ readPosition' = 0
    /\ cacheReadOffset' = OffsetAfter(jsOut.start)
    /\ segment' = [start |-> jsOut.start, position |-> jsOut.start, stop |-> Size]
    /\ pending' = jsOut
    /\ instantSeek' = TRUE
    /\ PositionMessage(jsOut.start, TRUE)
    /\ Signal
    /\ races' = races \ {"itemDropped"}
    /\ UNCHANGED <<eos, srcresult, skip, out, seekVars, downFlushing, down>>

(* The end of the stream.  A pending event is discarded. *)
SinkEos ==
    /\ PushReaches("eos")
    /\ ~eos
    /\ SourcePushed("OK")
    /\ eos' = TRUE
    /\ segment' = [segment EXCEPT !.stop = IF segment.position < @ THEN segment.position ELSE @]
    /\ pending' = NoEvent
    /\ PositionMessage(segment.position, TRUE)
    /\ Signal
    /\ races' = races \cup (IF pending # NoEvent THEN {"eventDropped"} ELSE {})
    /\ UNCHANGED <<cacheVars, unexpected, srcresult, instantSeek, skip, out, seekVars,
                   downFlushing, down>>

SourceGoesOn ==
    /\ SourceHalts \/ SourceEnd
    /\ UNCHANGED <<cacheVars, sinkVars, pending, srcresult, instantSeek, readerVars,
                   seekVars, downFlushing, down, races>>

-----------------------------------------------------------------------------
(* progress_buffer_loop *)

Available == readPosition < writePosition
NothingToDo == pending = NoEvent /\ (~Available \/ ~instantSeek)

(* A thread that seeks holds the stream lock of the source pad. *)
SeekerHoldsLock == seeker \in {"source", "sourceLocking", "failed", "announce", "finish"}

(* An iteration starts, or the wait is over. *)
ReaderLooks == (reader = "top" /\ ~SeekerHoldsLock) \/ reader = "awake"

(* skip is a local variable: an iteration starts with FALSE. *)
Skipping == skip /\ reader # "top"

ReaderWaits ==
    /\ ReaderLooks
    /\ srcresult = "OK" /\ NothingToDo
    /\ reader' = "waiting"
    /\ skip' = Skipping
    /\ UNCHANGED <<jsVars, cacheVars, sinkVars, pending, srcresult, instantSeek, out,
                   seekVars, downFlushing, down, races>>

(* Told to stop.  In skip mode no more data is expected either. *)
ReaderStops ==
    /\ ReaderLooks
    /\ srcresult # "OK"
    /\ unexpected' = (unexpected \/ Skipping)
    /\ reader' = IF Skipping THEN "top" ELSE "paused"
    /\ skip' = FALSE
    /\ UNCHANGED <<jsVars, cacheVars, segment, reported, eos, pending, srcresult,
                   instantSeek, out, seekVars, downFlushing, down, races>>

ReaderTakesEvent ==
    /\ ReaderLooks
    /\ srcresult = "OK"
    /\ pending # NoEvent
    /\ out' = pending
    /\ pending' = NoEvent
    /\ srcresult' = IF pending = EosEvent THEN "EOS" ELSE "OK"
    /\ reader' = "event"
    /\ skip' = FALSE
    /\ UNCHANGED <<jsVars, cacheVars, sinkVars, instantSeek, seekVars, downFlushing,
                   down, races>>

ReaderPushesEvent ==
    /\ reader = "event"
    /\ down' = CASE downFlushing -> down
                  [] ~downFlushing /\ out = EosEvent -> [down EXCEPT !.eos = TRUE]
                  [] OTHER -> [down EXCEPT !.next = out.start]
    /\ reader' = IF out = EosEvent THEN "paused" ELSE "top"
    /\ out' = NoEvent
    /\ UNCHANGED <<jsVars, cacheVars, sinkVars, pending, srcresult, instantSeek, skip,
                   seekVars, downFlushing, races>>

ReadLength ==
    IF writePosition - readPosition < BufferSize
    THEN writePosition - readPosition ELSE BufferSize

(* Mutant: the end of what has arrived is taken for the end. *)
ReachesStop_arrived(position) == position + cacheReadOffset = segment.position

(* Mutant: off by one. *)
ReachesStop_beyond(position) == position + cacheReadOffset > segment.stop

ReachesStop(position) == position + cacheReadOffset = segment.stop

(* The read that reaches the end of the segment queues EOS behind itself. *)
ReaderReads ==
    /\ ReaderLooks
    /\ srcresult = "OK"
    /\ pending = NoEvent
    /\ Available /\ instantSeek
    /\ readPosition' = readPosition + ReadLength
    /\ pending' = IF ReachesStop(readPosition') THEN EosEvent ELSE NoEvent
    /\ out' = IF Skipping THEN NoEvent
              ELSE [type |-> "buffer", offset |-> readPosition + cacheReadOffset,
                    length |-> ReadLength, content |-> file[readPosition],
                    intact |-> "itemDropped" \notin races]
    /\ reader' = IF Skipping THEN "awake" ELSE "push"
    /\ skip' = Skipping
    /\ UNCHANGED <<jsVars, file, writePosition, cacheReadOffset, sinkVars, srcresult,
                   instantSeek, seekVars, downFlushing, down, races>>

(* The push is over: the elements behind may have had enough, or failed.    *)
(* EOS sends the reader on in skip mode without storing the result.         *)
ReaderPushes ==
    /\ reader = "push"
    /\ \E result \in Flow :
          /\ result = "FLUSHING" <=> downFlushing
          /\ result \in {"EOS", "ERROR"} => "reject" \in Features
          /\ down' = IF result = "OK" THEN [down EXCEPT !.next = out.offset + out.length]
                     ELSE down
          /\ out' = IF result = "EOS" THEN NoEvent ELSE [type |-> "result", result |-> result]
          /\ reader' = IF result = "EOS" THEN "awake" ELSE "store"
          /\ skip' = (result = "EOS")
    /\ UNCHANGED <<jsVars, cacheVars, sinkVars, pending, srcresult, instantSeek, seekVars,
                   downFlushing, races>>

(* The result is stored whatever srcresult has become meanwhile. *)
ReaderStores ==
    /\ reader = "store"
    /\ srcresult' = out.result
    /\ races' = IF srcresult = "FLUSHING" /\ out.result = "OK"
                THEN races \cup {"flushOverwritten"} ELSE races
    /\ reader' = IF out.result = "OK" THEN "top" ELSE "paused"
    /\ out' = NoEvent
    /\ UNCHANGED <<jsVars, cacheVars, sinkVars, pending, instantSeek, skip, seekVars,
                   downFlushing, down>>

-----------------------------------------------------------------------------
(* progress_buffer_perform_push_seek, by a thread of its own.  The pipeline *)
(* only sends flushing seeks.                                               *)

SeekBegins ==
    /\ seeker = "idle"
    /\ seeks < MaxSeeks
    /\ reader # "none"
    /\ seeker' = "begun"
    /\ seek' \in 0 .. Size - 1
    /\ seeks' = seeks + 1
    /\ downFlushing' = TRUE
    /\ UNCHANGED <<jsVars, cacheVars, sinkVars, pending, srcresult, instantSeek,
                   readerVars, down, races>>

(* Mutant: no signal. *)
SeekSignals_silent ==
    /\ seeker = "begun"
    /\ srcresult' = "FLUSHING"
    /\ seeker' = "locking"
    /\ UNCHANGED <<jsVars, cacheVars, sinkVars, pending, instantSeek, readerVars, seek,
                   seeks, downFlushing, down, races>>

(* Signal the task to stop if it's waiting. *)
SeekSignals ==
    /\ seeker = "begun"
    /\ srcresult' = "FLUSHING"
    /\ Signal
    /\ seeker' = "locking"
    /\ UNCHANGED <<jsVars, cacheVars, sinkVars, pending, instantSeek, skip, out, seek,
                   seeks, downFlushing, down, races>>

StreamLockFree == reader \in {"none", "top", "paused"}

(* Mutant: the cache stays where it was. *)
SetReadPosition_forgotten(position) == UNCHANGED readPosition

(* cache_set_read_position: lseek refuses a position before the file. *)
SetReadPosition(position) ==
    readPosition' = IF position >= 0 THEN position ELSE readPosition

(* The seek is instant within the data, and within what the bandwidth of    *)
(* the connection makes arrive in the time of the tolerance.                *)
SeekLocks ==
    /\ seeker = "locking"
    /\ StreamLockFree
    /\ srcresult' = "OK"
    /\ \E instant \in BOOLEAN :
          /\ instant => seek >= segment.start
          /\ ~instant => seek < segment.start \/ seek > segment.position
          /\ instantSeek' = instant
          /\ IF instant
             THEN /\ SetReadPosition(seek - cacheReadOffset)
                  /\ pending' = SegmentEvent(seek)
                  /\ seeker' = "finish"
                  /\ UNCHANGED eos
             ELSE /\ eos' = FALSE
                  /\ pending' = NoEvent
                  /\ seeker' = "source"
                  /\ UNCHANGED readPosition
    /\ UNCHANGED <<jsVars, file, writePosition, cacheReadOffset, segment, reported,
                   unexpected, readerVars, seek, seeks, downFlushing, down, races>>

(* instant_seek is read again, without the mutex.  A segment of the source  *)
(* that came meanwhile has set it: then the seek is over.                   *)
SeekIsOvertaken ==
    /\ seeker = "source"
    /\ instantSeek
    /\ seeker' = "finish"
    /\ UNCHANGED <<jsVars, cacheVars, sinkVars, pending, srcresult, instantSeek, readerVars,
                   seek, seeks, downFlushing, down, races>>

(* Otherwise the seek goes upstream ... *)
SeekGoesUpstream ==
    /\ seeker = "source"
    /\ ~instantSeek
    /\ SourceSeekBegins(TRUE)
    /\ seeker' = "sourceLocking"
    /\ UNCHANGED <<cacheVars, sinkVars, pending, srcresult, instantSeek, readerVars,
                   seek, seeks, downFlushing, down, races>>

(* ... where it may fail.  Either way the source runs again, *)
SeekReturnsFromSource ==
    /\ seeker = "sourceLocking"
    /\ \E ok \in BOOLEAN :
          /\ ~ok => "noRange" \in Features
          /\ SourceSeeks(seek, ok)
          /\ seeker' = IF ok THEN "finish" ELSE "failed"
    /\ UNCHANGED <<cacheVars, sinkVars, pending, srcresult, instantSeek, readerVars, seek,
                   seeks, downFlushing, down, races>>

(* while the thread that seeks, without the mutex, makes do with the cache. *)
SeekFallsBack ==
    /\ seeker = "failed"
    /\ instantSeek' = TRUE
    /\ SetReadPosition(seek - cacheReadOffset)
    /\ seeker' = "announce"
    /\ UNCHANGED <<jsVars, file, writePosition, cacheReadOffset, sinkVars, pending, srcresult,
                   readerVars, seek, seeks, downFlushing, down, races>>

(* History: the event may announce what the cache is not, or no longer, at. *)
SeekAnnounces ==
    /\ seeker = "announce"
    /\ pending' = SegmentEvent(seek)
    /\ races' = IF readPosition + cacheReadOffset # seek THEN races \cup {"seekLost"} ELSE races
    /\ seeker' = "finish"
    /\ UNCHANGED <<jsVars, cacheVars, sinkVars, srcresult, instantSeek, readerVars, seek,
                   seeks, downFlushing, down>>

(* FLUSH_STOP, and the task is started again. *)
SeekFinishes ==
    /\ seeker = "finish"
    /\ downFlushing' = FALSE
    /\ down' = [next |-> -1, eos |-> FALSE]
    /\ reader' = "top"
    /\ seeker' = "idle"
    /\ UNCHANGED <<jsVars, cacheVars, sinkVars, pending, srcresult, instantSeek, skip, out,
                   seek, seeks, races>>

(* PAUSED_TO_READY: progress_buffer_activatepush_src(FALSE) tells the task  *)
(* to stop and joins it, then progress_buffer_change_state goes on.         *)
StopBegins ==
    /\ seeker = "idle"
    /\ "stop" \in Features
    /\ srcresult' = "FLUSHING"
    /\ Signal
    /\ downFlushing' = TRUE
    /\ seeker' = "stopping"
    /\ UNCHANGED <<jsVars, cacheVars, sinkVars, pending, instantSeek, skip, out, seek,
                   seeks, down, races>>

StopEnds ==
    /\ seeker = "stopping"
    /\ StreamLockFree
    /\ reader' = "gone"
    /\ pending' = NoEvent
    /\ reported' = 0
    /\ segment' = [start |-> 0, position |-> 0, stop |-> Size]
    /\ SourceStops
    /\ seeker' = "stopped"
    /\ UNCHANGED <<cacheVars, eos, unexpected, srcresult, instantSeek, skip, out, seek,
                   seeks, downFlushing, down, races>>

-----------------------------------------------------------------------------

Source ==
    \/ SourceNext \/ PushFlushed \/ ChainRefuses \/ Chain \/ SinkEventRefused
    \/ SinkEventIgnored \/ SinkSegment \/ SinkEos \/ SourceGoesOn

Reader ==
    \/ ReaderWaits \/ ReaderStops \/ ReaderTakesEvent \/ ReaderPushesEvent
    \/ ReaderReads \/ ReaderPushes \/ ReaderStores

Seeker ==
    \/ SeekSignals \/ SeekLocks \/ SeekIsOvertaken \/ SeekGoesUpstream
    \/ SeekReturnsFromSource \/ SeekFallsBack \/ SeekAnnounces \/ SeekFinishes \/ StopEnds

Next == Source \/ Reader \/ Seeker \/ SeekBegins \/ StopBegins

Spec == Init /\ [][Next]_vars

(* Threads that can run do run; whether anyone seeks or stops is open. *)
FairSpec == Spec /\ WF_vars(Source) /\ WF_vars(Reader) /\ WF_vars(Seeker)

-----------------------------------------------------------------------------

(* The file holds the part of the stream it is said to hold: block i of the *)
(* cache is what belongs at cache_read_offset + i (cache_write_buffer, and  *)
(* the rewinds of a new segment), unless a block was lost to a failed seek. *)
CacheHoldsStream ==
    "itemDropped" \notin races =>
       /\ \A i \in 0 .. writePosition - 1 : file[i] = cacheReadOffset + i
       /\ seeker # "stopped" => segment.position = cacheReadOffset + writePosition

(* g_cond_signal loses no wakeup: a reader asleep on add_cond has nothing   *)
(* to do, or only less data than a position message is worth.  What comes   *)
(* after the stop of the segment is refused, not stored.                    *)
Arrived == IF segment.position < segment.stop THEN segment.position ELSE segment.stop

NoLostWakeup ==
    reader = "waiting" =>
       /\ srcresult = "OK" /\ pending = NoEvent
       /\ Available /\ instantSeek => ~eos /\ Arrived - reported <= Threshold

(* progress_buffer_loop: the elements behind get the stream in order, a new *)
(* segment before the first buffer at another place, and at each place what *)
(* belongs there.  Sink EOS may discard the segment event, a failed seek    *)
(* may announce what the cache lacks.                                       *)
InOrder ==
    reader = "push" =>
       /\ ~downFlushing /\ races \cap {"eventDropped", "seekLost"} = {}
             => out.offset = down.next
       /\ out.intact => out.content = out.offset

(* progress_buffer_loop: EOS is queued only when all was read. *)
NoEarlyEos ==
    pending = EosEvent => readPosition + cacheReadOffset = segment.stop

(* A seek, and a stop, comes to its end: the wait for the stream lock ends  *)
(* because the reader was told to pause.  Known exception: the reader       *)
(* stores OK over the FLUSHING it was sent (hlsprogressbuffer.c does not).  *)
SeekEnds ==
    seeker \notin {"idle", "stopped"}
       ~> seeker \in {"idle", "stopped"} \/ "flushOverwritten" \in races

(* Once the source has ended while data was unread, the elements behind are *)
(* told so: the reader works off the data and then pushes EOS.              *)
EndOfStream ==
    eos /\ Available /\ instantSeek /\ seeker = "idle"
       ~> \/ down.eos \/ seeker # "idle" \/ srcresult = "ERROR"
          \/ "itemDropped" \in races

(* MediaPlayer.getOnEndOfMedia promises a call at the end of the media: so  *)
(* the EOS of a stream that came through undisturbed reaches the elements   *)
(* behind the buffer.                                                       *)
EosIsDelivered == eos ~> down.eos

(* ConnectionHolder.seek lets a seek fail where the server knows no ranges, *)
(* "and let progressbuffer to download all data": so the file still holds   *)
(* every block at its place.                                                *)
FailedSeekKeepsStream ==
    \A i \in 0 .. writePosition - 1 : file[i] = cacheReadOffset + i

=============================================================================
