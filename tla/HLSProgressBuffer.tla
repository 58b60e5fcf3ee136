-------------------------- MODULE HLSProgressBuffer --------------------------
(***************************************************************************)
(* HTTP live streaming: JavaSource loads one media segment after the other *)
(* and pushes its blocks into the element of hlsprogressbuffer.c, a ring   *)
(* of NumCached files.  The element's task, the reader, pushes them on.  A *)
(* third thread seeks: the seek passes the element, and reaches it as the  *)
(* flush events of the source.                                             *)
(*                                                                         *)
(* A block is a pair of segment and number.  The source thread is in the   *)
(* handler of a segment event where writer is not "none"; the handler      *)
(* gives the element's lock up several times, the others hold it once.     *)
(* The stream is not live.                                                 *)
(***************************************************************************)
EXTENDS JavaSource, Sequences

CONSTANTS
    Segments,       \* number of segments of the playlist
    Blocks,         \* number of blocks of a segment
    NumCached,      \* NUM_OF_CACHED_SEGMENTS
    MaxSeeks,       \* bound on the number of seeks
    Features        \* which of AllFeatures may happen

(* A segment is cut off, cannot be loaded, has no content; the elements      *)
(* behind reject a block; the player is stopped.                             *)
AllFeatures == {"truncate", "unloadable", "empty", "reject", "stop"}

ASSUME SegmentsAssumption == Segments \in Nat \ {0}
ASSUME BlocksAssumption == Blocks \in Nat \ {0}
ASSUME NumCachedAssumption == NumCached \in Nat \ {0}
ASSUME MaxSeeksAssumption == MaxSeeks \in Nat
ASSUME FeaturesAssumption == Features \subseteq AllFeatures

Caches == 0 .. NumCached - 1

VARIABLES
    playlist,       \* the connection holder: next segment, next block of the one open,
                    \* whether the last one could not be loaded
    content,        \* of each cache: the blocks written so far
    readPosition,   \* of each cache
    cacheSize,      \* cache_size
    writeReady,     \* cache_write_ready
    writeIndex,     \* cache_write_index
    readIndex,      \* cache_read_index
    isFlushing,     \* is_flushing
    isEos,          \* is_eos
    srcresult,
    writer,         \* where the source thread is in the segment handler
    reader,         \* where the reader is
    task,           \* the state of its task
    out,            \* what it is pushing, and the result
    seeker,         \* where the thread that seeks is
    seek,           \* the segment it seeks, or Segments for the end
    seeks,          \* how many seeks there have been
    downFlushing,   \* the pads behind the buffer are flushing
    down,           \* what they got: the block expected next, EOS or not
    races           \* history: which of the races below have happened

ringVars == <<content, readPosition, cacheSize, writeReady, writeIndex, readIndex>>
readerVars == <<reader, task, out>>
seekVars == <<seeker, seek, seeks>>
flagVars == <<isFlushing, isEos, srcresult>>
vars == <<jsVars, playlist, ringVars, flagVars, writer, readerVars, seekVars,
          downFlushing, down, races>>

Positions == [segment : 0 .. Segments, block : 0 .. Blocks]
Playlists == [segment : 0 .. Segments, block : 0 .. Blocks, failed : BOOLEAN]
NoOut == [type |-> "none"]

RingTypes ==
    /\ playlist \in Playlists
    /\ content \in [Caches -> Seq(Positions)]
    /\ readPosition \in [Caches -> 0 .. Blocks]
    /\ cacheSize \in [Caches -> {0, Blocks}]
    /\ writeReady \in [Caches -> BOOLEAN]
    /\ writeIndex \in -1 .. NumCached - 1
    /\ readIndex \in Caches

FlagTypes ==
    /\ isFlushing \in BOOLEAN
    /\ isEos \in BOOLEAN
    /\ srcresult \in Flow
    /\ downFlushing \in BOOLEAN
    /\ down \in [next : Positions, eos : BOOLEAN]

ThreadTypes ==
    /\ writer \in {"none", "sizing", "checked", "ready", "full", "waiting", "woken"}
    /\ reader \in {"top", "waiting", "awake", "push", "store"}
    /\ task \in {"started", "paused"}

SeekTypes ==
    /\ seeker \in {"idle", "flushing", "pausing", "locking", "stopping", "joining", "stopped"}
    /\ seek \in 0 .. Segments
    /\ seeks \in 0 .. MaxSeeks
    /\ races \subseteq {"flushMissed", "staleAdvance", "truncated", "emptied",
                    "eosRepeated", "wakeupLost"}

TypeOK == JsTypeOK /\ RingTypes /\ FlagTypes /\ ThreadTypes /\ SeekTypes

(* No block can be read; segment is the next one of the playlist. *)
NothingOpen(segment, failed) == [segment |-> segment, block |-> Blocks, failed |-> failed]

InEach(value) == [i \in Caches |-> value]

Init ==
    /\ JsInit(TRUE)
    /\ playlist = NothingOpen(0, FALSE)
    /\ content = InEach(<< >>)
    /\ readPosition = InEach(0)
    /\ cacheSize = InEach(0)
    /\ writeReady = InEach(TRUE)
    /\ writeIndex = -1
    /\ readIndex = 0
    /\ isFlushing = FALSE
    /\ isEos = FALSE
    /\ srcresult = "OK"
    /\ writer = "none"
    /\ reader = "top"
    /\ task = "started"
    /\ out = NoOut
    /\ seeker = "idle"
    /\ seek = 0
    /\ seeks = 0
    /\ downFlushing = FALSE
    /\ down = [next |-> [segment |-> 0, block |-> 0], eos |-> FALSE]
    /\ races = {}

-----------------------------------------------------------------------------
(* java_source_loop in HLS mode *)

(* The next segment is asked for; a segment that is cut off ends early.     *)
(* READ_NEXT_BLOCK may also fail, which pauses the source for good.         *)
SourceNext ==
    /\ \/ /\ jsPending = "STREAM_START"
          /\ SourceBegin([type |-> "stream-start"], jsPending)
          /\ UNCHANGED <<playlist, writer, races>>
       \/ /\ jsPending = "EOS"
          /\ SourceBegin([type |-> "eos"], jsPending)
          /\ UNCHANGED <<playlist, writer, races>>
       \/ /\ jsPending = "UNKNOWN"
          /\ playlist.block < Blocks
          /\ SourceBegin([type |-> "buffer", segment |-> playlist.segment - 1,
                          block |-> playlist.block], jsPending)
          /\ playlist' = [playlist EXCEPT !.block = @ + 1]
          /\ UNCHANGED <<writer, races>>
       \/ /\ \/ jsPending = "SEGMENT"
             \/ jsPending = "UNKNOWN" /\ (playlist.block = Blocks \/ "truncate" \in Features)
          /\ SourceBegin([type |-> "segment"], "SEGMENT")
          /\ writer' = "sizing"
          /\ races' = IF jsPending = "UNKNOWN" /\ playlist.block < Blocks
                      THEN races \cup {"truncated"} ELSE races
          /\ UNCHANGED playlist
       \/ /\ jsPending = "UNKNOWN"
          /\ "truncate" \in Features
          /\ SourceGivesUp("FLUSHING")
          /\ races' = races \cup {"truncated"}
          /\ UNCHANGED <<playlist, writer>>
    /\ UNCHANGED <<ringVars, flagVars, readerVars, seekVars, downFlushing, down>>

(* loadNextSegment: the next file of the playlist is opened and its length  *)
(* asked for.  It may be empty; -1 stands for the end of the playlist, for  *)
(* a file that cannot be opened, which has been passed over then, and for   *)
(* one of unknown length.                                                   *)
LoadNextSegment(size) ==
    LET next == playlist.segment + 1
    IN  \/ /\ playlist.segment = Segments
           /\ size = -1
           /\ UNCHANGED <<playlist, races>>
        \/ /\ playlist.segment < Segments
           /\ \/ /\ size = Blocks
                 /\ playlist' = [segment |-> next, block |-> 0, failed |-> FALSE]
                 /\ UNCHANGED races
              \/ /\ size = 0 /\ "empty" \in Features
                 /\ playlist' = NothingOpen(next, FALSE)
                 /\ races' = races \cup {"emptied"}
              \/ /\ size = -1 /\ "unloadable" \in Features
                 /\ playlist' = NothingOpen(next, TRUE)
                 /\ UNCHANGED races

(* GET_STREAM_SIZE has returned.  A seek that came meanwhile makes the      *)
(* source forget it; -1 makes it send EOS.                                  *)
SourceSized ==
    /\ writer = "sizing"
    /\ writer' = "none"
    /\ \E size \in {-1, 0, Blocks} :
          /\ LoadNextSegment(size)
          /\ CASE jsResult = "FLUSHING" ->
                    /\ jsPc' = "end"
                    /\ jsOut' = Nothing
                    /\ UNCHANGED jsPending
               [] jsResult # "FLUSHING" /\ size = -1 ->
                    /\ jsPending' = "EOS"
                    /\ jsOut' = [type |-> "eos"]
                    /\ UNCHANGED jsPc
               [] OTHER ->
                    UNCHANGED <<jsPc, jsOut, jsPending>>
    /\ UNCHANGED <<jsResult, jsPosition, jsUpdate, jsReturn, padFlushing, ringVars, flagVars,
                   readerVars, seekVars, downFlushing, down>>

SourceGoesOn ==
    /\ SourceHalts \/ SourceEnd
    /\ UNCHANGED <<playlist, ringVars, flagVars, writer, readerVars, seekVars, downFlushing,
                   down, races>>

-----------------------------------------------------------------------------
(* The sink pad *)

(* Mutants: nobody is woken. *)
SignalAdd_dropped == UNCHANGED reader
SignalDel_dropped == UNCHANGED writer

(* g_cond_signal(add_cond), g_cond_signal(del_cond): lost if nobody waits. *)
SignalAdd == reader' = IF reader = "waiting" THEN "awake" ELSE reader
SignalDel == writer' = IF writer = "waiting" THEN "woken" ELSE writer

AtPush == jsPc = "push" /\ writer = "none"

PushFlushed ==
    /\ AtPush
    /\ padFlushing
    /\ SourcePushed("FLUSHING")
    /\ UNCHANGED <<playlist, ringVars, flagVars, writer, readerVars, seekVars, downFlushing,
                   down, races>>

PushReaches(type) == AtPush /\ ~padFlushing /\ jsOut.type = type

EventPassesThrough ==
    /\ PushReaches("stream-start")
    /\ SourcePushed(IF downFlushing THEN "FLUSHING" ELSE "OK")
    /\ UNCHANGED <<playlist, ringVars, flagVars, writer, readerVars, seekVars, downFlushing,
                   down, races>>

(* cache_write_buffer into the cache at the write index.  After a flush     *)
(* there is none; the reader may have stored an error over the FLUSHING     *)
(* that says so, and the code then writes to what lies before the ring.     *)
Write(block) ==
    [i \in Caches |-> IF i = writeIndex THEN Append(content[i], block) ELSE content[i]]

(* hls_progress_buffer_chain *)
Chain ==
    /\ PushReaches("buffer")
    /\ IF isFlushing \/ isEos
       THEN SourcePushed("FLUSHING") /\ UNCHANGED <<content, reader>>
       ELSE /\ SourcePushed("OK")
            /\ IF srcresult # "FLUSHING"
               THEN /\ content' = Write([segment |-> jsOut.segment, block |-> jsOut.block])
                    /\ SignalAdd
               ELSE UNCHANGED <<content, reader>>
    /\ UNCHANGED <<playlist, readPosition, cacheSize, writeReady, writeIndex, readIndex,
                   flagVars, writer, task, out, seekVars, downFlushing, down, races>>

SinkEos ==
    /\ PushReaches("eos")
    /\ SourcePushed("OK")
    /\ isEos' = TRUE
    /\ SignalAdd
    /\ races' = IF isEos THEN races \cup {"eosRepeated"} ELSE races
    /\ UNCHANGED <<playlist, ringVars, isFlushing, srcresult, writer, task, out, seekVars,
                   downFlushing, down>>

(* A segment that comes while nothing is read is ignored. *)
SinkSegment ==
    /\ PushReaches("segment")
    /\ IF srcresult # "OK"
       THEN SourcePushed("OK") /\ UNCHANGED writer
       ELSE writer' = "checked" /\ UNCHANGED jsVars
    /\ UNCHANGED <<playlist, ringVars, flagVars, readerVars, seekVars, downFlushing, down,
                   races>>

(* Without the lock: after an end of stream the reader is started again,    *)
(* whether or not the segment has anything in it.  An empty one is reported *)
(* and takes no cache; the source goes on to the next.                      *)
EmptySegment == playlist.block = Blocks

SegmentRestarts ==
    /\ writer = "checked"
    /\ IF EmptySegment THEN writer' = "none" /\ SourcePushed("OK")
                       ELSE writer' = "ready" /\ UNCHANGED jsVars
    /\ isEos' = FALSE
    /\ srcresult' = IF isEos THEN "OK" ELSE srcresult
    /\ task' = IF isEos THEN "started" ELSE task
    /\ UNCHANGED <<playlist, ringVars, isFlushing, reader, out, seekVars, downFlushing, down,
                   races>>

NextIndex(i) == (i + 1) % NumCached

(* The cache at index i is made ready for the segment. *)
Prepare(i) ==
    /\ cacheSize' = [cacheSize EXCEPT ![i] = Blocks]
    /\ writeReady' = [writeReady EXCEPT ![i] = FALSE]
    /\ content' = [content EXCEPT ![i] = << >>]
    /\ readPosition' = [readPosition EXCEPT ![i] = 0]
    /\ writer' = "none"
    /\ SourcePushed("OK")

(* Mutant: never waits. *)
MayWrite_always(i) == TRUE

MayWrite(i) == srcresult # "OK" \/ writeReady[i]

SegmentAdvances ==
    /\ writer = "ready"
    /\ writeIndex' = NextIndex(writeIndex)
    /\ IF MayWrite(NextIndex(writeIndex))
       THEN Prepare(NextIndex(writeIndex))
       ELSE /\ writer' = "full"
            /\ UNCHANGED <<jsVars, cacheSize, writeReady, content, readPosition>>
    /\ UNCHANGED <<playlist, readIndex, flagVars, readerVars, seekVars, downFlushing, down,
                   races>>

(* The message that the ring is full is sent without the lock; then the     *)
(* thread waits, without another look at the cache or at srcresult.         *)
SegmentWaits ==
    /\ writer = "full"
    /\ writer' = "waiting"
    /\ UNCHANGED <<jsVars, playlist, ringVars, flagVars, readerVars, seekVars, downFlushing,
                   down, races>>

SegmentWakes ==
    /\ writer = "woken"
    /\ CASE srcresult # "OK" ->
              /\ writer' = "none"
              /\ SourcePushed("OK")
              /\ UNCHANGED <<cacheSize, writeReady, content, readPosition>>
         [] srcresult = "OK" /\ writeReady[writeIndex] ->
              Prepare(writeIndex)
         [] OTHER ->
              /\ writer' = "full"
              /\ UNCHANGED <<jsVars, cacheSize, writeReady, content, readPosition>>
    /\ UNCHANGED <<playlist, writeIndex, readIndex, flagVars, readerVars, seekVars,
                   downFlushing, down, races>>

-----------------------------------------------------------------------------
(* hls_progress_buffer_loop *)

Available == readPosition[readIndex] < Len(content[readIndex])
ReaderLooks == (reader = "top" /\ task = "started") \/ reader = "awake"

(* The end of an iteration: a flush pauses the task itself. *)
Leave(result) ==
    /\ reader' = "top"
    /\ task' = IF result # "OK" /\ ~isFlushing THEN "paused" ELSE task

(* Mutant: the end of the stream before the end of the data. *)
AtEnd_eager == isEos

AtEnd == ~Available /\ isEos

ReaderWaits ==
    /\ ReaderLooks
    /\ srcresult = "OK" /\ ~Available /\ ~isEos
    /\ reader' = "waiting"
    /\ UNCHANGED <<jsVars, playlist, ringVars, flagVars, writer, task, out, seekVars,
                   downFlushing, down, races>>

ReaderEnds ==
    /\ ReaderLooks
    /\ srcresult = "OK" /\ AtEnd
    /\ down' = IF downFlushing THEN down ELSE [down EXCEPT !.eos = TRUE]
    /\ srcresult' = "FLUSHING"
    /\ Leave("FLUSHING")
    /\ UNCHANGED <<jsVars, playlist, ringVars, isFlushing, isEos, writer, out, seekVars,
                   downFlushing, races>>

ReaderStops ==
    /\ ReaderLooks
    /\ srcresult # "OK"
    /\ Leave(srcresult)
    /\ UNCHANGED <<jsVars, playlist, ringVars, flagVars, writer, out, seekVars,
                   downFlushing, down, races>>

(* Mutant: the cache is given back after its first block. *)
SegmentRead_early(position) == TRUE

SegmentRead(position) == position = cacheSize[readIndex]

(* The cache that was read to its end is given back to the writer. *)
ReaderReads ==
    /\ ReaderLooks
    /\ srcresult = "OK" /\ Available
    /\ LET position == readPosition[readIndex] + 1
       IN  /\ out' = [type |-> "buffer", block |-> content[readIndex][position]]
           /\ readPosition' = [readPosition EXCEPT ![readIndex] = position]
           /\ IF SegmentRead(position)
              THEN /\ writeReady' = [writeReady EXCEPT ![readIndex] = TRUE]
                   /\ readIndex' = NextIndex(readIndex)
                   /\ SignalDel
                   /\ races' = IF writer = "full" /\ \A i \in Caches \ {readIndex} : writeReady[i]
                               THEN races \cup {"wakeupLost"} ELSE races
              ELSE UNCHANGED <<writeReady, readIndex, writer, races>>
    /\ reader' = "push"
    /\ UNCHANGED <<jsVars, playlist, content, cacheSize, writeIndex, flagVars, task, seekVars,
                   downFlushing, down>>

BlockAfter(b) ==
    IF b.block + 1 < Blocks THEN [b EXCEPT !.block = @ + 1]
    ELSE [segment |-> b.segment + 1, block |-> 0]

ReaderPushes ==
    /\ reader = "push"
    /\ \E result \in {"OK", "FLUSHING", "ERROR"} :
          /\ result = "FLUSHING" <=> downFlushing
          /\ result = "ERROR" => "reject" \in Features
          /\ down' = IF result = "OK" THEN [down EXCEPT !.next = BlockAfter(out.block)] ELSE down
          /\ out' = [type |-> "result", result |-> result]
    /\ reader' = "store"
    /\ UNCHANGED <<jsVars, playlist, ringVars, flagVars, writer, task, seekVars, downFlushing,
                   races>>

(* A request to stop that came meanwhile is not overwritten by an OK. *)
Stored(result) == IF srcresult = "OK" \/ result # "OK" THEN result ELSE srcresult

ReaderStores ==
    /\ reader = "store"
    /\ srcresult' = Stored(out.result)
    /\ Leave(Stored(out.result))
    /\ out' = NoOut
    /\ UNCHANGED <<jsVars, playlist, ringVars, isFlushing, isEos, writer, seekVars,
                   downFlushing, down, races>>

-----------------------------------------------------------------------------
(* The seek, as java_source_perform_seek makes it reach the element *)

(* FLUSH_START passes. *)
SeekBegins ==
    /\ seeker = "idle"
    /\ seeks < MaxSeeks
    /\ jsPending # "STREAM_START"
    /\ seeker' = "flushing"
    /\ seek' \in 0 .. Segments
    /\ seeks' = seeks + 1
    /\ padFlushing' = TRUE
    /\ isFlushing' = TRUE
    /\ downFlushing' = TRUE
    /\ UNCHANGED <<jsResult, jsPending, jsPosition, jsUpdate, jsPc, jsOut, jsReturn, playlist,
                   ringVars, isEos, srcresult, writer, readerVars, down, races>>

(* hls_progress_buffer_flush_data: everybody is woken, the ring is emptied. *)
FlushData ==
    /\ srcresult' = "FLUSHING"
    /\ SignalAdd
    /\ SignalDel
    /\ content' = InEach(<< >>)
    /\ readPosition' = InEach(0)
    /\ cacheSize' = InEach(0)
    /\ writeReady' = InEach(TRUE)
    /\ writeIndex' = -1
    /\ readIndex' = 0
    /\ races' = races \cup (IF writer = "full" THEN {"flushMissed"} ELSE {})
                      \cup (IF writer \in {"checked", "ready"} THEN {"staleAdvance"} ELSE {})

SeekFlushes ==
    /\ seeker = "flushing"
    /\ FlushData
    /\ task' = "paused"
    /\ seeker' = "pausing"
    /\ UNCHANGED <<jsVars, playlist, isFlushing, isEos, out, seek, seeks, downFlushing, down>>

(* gst_pad_pause_task has waited for the reader; then the source is told. *)
SeekPauses ==
    /\ seeker = "pausing"
    /\ reader = "top"
    /\ SourceSeekBegins(FALSE)
    /\ seeker' = "locking"
    /\ UNCHANGED <<playlist, ringVars, flagVars, writer, readerVars, seek, seeks, downFlushing,
                   down, races>>

(* Mutant: the segment after the one sought. *)
SegmentAt_next(position) == position + 1

(* Playlist.seek: the end of the media leaves the playlist where it is. *)
SegmentAt(position) == IF position < Segments THEN position ELSE playlist.segment

(* The Java seek and FLUSH_STOP, with the stream lock of the source. *)
SeekFinishes ==
    /\ seeker = "locking"
    /\ SourceSeeks(0, TRUE)
    /\ playlist' = NothingOpen(SegmentAt(seek), FALSE)
    /\ downFlushing' = FALSE
    /\ down' = [next |-> [segment |-> SegmentAt(seek), block |-> 0], eos |-> FALSE]
    /\ isFlushing' = FALSE
    /\ srcresult' = "OK"
    /\ task' = IF isEos THEN task ELSE "started"
    /\ seeker' = "idle"
    /\ UNCHANGED <<ringVars, isEos, writer, reader, out, seek, seeks, races>>

(* PAUSED_TO_READY: hls_progress_buffer_change_state flushes, then the pads *)
(* are deactivated, which joins both tasks.                                 *)
StopBegins ==
    /\ seeker = "idle"
    /\ "stop" \in Features
    /\ FlushData
    /\ seeker' = "stopping"
    /\ UNCHANGED <<jsVars, playlist, isFlushing, isEos, task, out, seek, seeks, downFlushing,
                   down>>

StopDeactivates ==
    /\ seeker = "stopping"
    /\ srcresult' = "FLUSHING"
    /\ SignalAdd
    /\ SignalDel
    /\ task' = "paused"
    /\ SourceStops
    /\ downFlushing' = TRUE
    /\ races' = races \cup (IF writer = "full" THEN {"flushMissed"} ELSE {})
    /\ seeker' = "joining"
    /\ UNCHANGED <<playlist, ringVars, isFlushing, isEos, out, seek, seeks, down>>

StopEnds ==
    /\ seeker = "joining"
    /\ reader = "top"
    /\ SourceLockFree
    /\ seeker' = "stopped"
    /\ UNCHANGED <<jsVars, playlist, ringVars, flagVars, writer, readerVars, seek, seeks,
                   downFlushing, down, races>>

-----------------------------------------------------------------------------

Source ==
    \/ SourceNext \/ SourceSized \/ SourceGoesOn \/ PushFlushed \/ EventPassesThrough
    \/ Chain \/ SinkEos \/ SinkSegment \/ SegmentRestarts \/ SegmentAdvances
    \/ SegmentWaits \/ SegmentWakes

Reader ==
    \/ ReaderWaits \/ ReaderEnds \/ ReaderStops \/ ReaderReads \/ ReaderPushes
    \/ ReaderStores

Seeker ==
    \/ SeekFlushes \/ SeekPauses \/ SeekFinishes \/ StopDeactivates \/ StopEnds

Next == Source \/ Reader \/ Seeker \/ SeekBegins \/ StopBegins

Spec == Init /\ [][Next]_vars

(* Threads that can run do run; whether anyone seeks or stops is open. *)
FairSpec == Spec /\ WF_vars(Source) /\ WF_vars(Reader) /\ WF_vars(Seeker)

-----------------------------------------------------------------------------

(* hls_progress_buffer_sink_event and loop hand the caches back and forth:  *)
(* those not ready for writing are the ones from the read index to the      *)
(* write index, so that no segment is overwritten before it was read.       *)
Distance == IF writeIndex = -1 THEN 0 ELSE ((writeIndex - readIndex) % NumCached) + 1

RingInStep ==
    /\ "staleAdvance" \notin races
    /\ srcresult = "OK"
    /\ writer \notin {"full", "waiting", "woken"}
    =>
       \/ \A i \in Caches : writeReady[i]
       \/ \A i \in Caches :
             ~writeReady[i] <=> (i - readIndex) % NumCached < Distance

(* hls_progress_buffer_loop pushes every block once and in order, from the  *)
(* segment that was sought; where no segment was cut off or empty.          *)
Incomplete == {"staleAdvance", "truncated", "emptied"}

InOrder ==
    reader = "push" /\ ~downFlushing /\ races \cap Incomplete = {} =>
       out.block = down.next

(* hls_progress_buffer_loop pushes EOS behind everything that was loaded:    *)
(* behind the last block of the last segment or, if a segment could not be   *)
(* loaded, behind the last block of the segment before it.                   *)
LastSegment == IF playlist.failed THEN playlist.segment - 1 ELSE Segments

NoEarlyEos ==
    down.eos /\ races \cap Incomplete = {} =>
       down.next = [segment |-> LastSegment, block |-> 0]

(* A seek, and a stop, comes to its end, although the source thread may be  *)
(* waiting for a free cache.  Known exceptions: the flush comes between the *)
(* message that the ring is full and the wait, or between the two looks of  *)
(* the segment handler, which then starts the reader again.                 *)
SeekEnds ==
    seeker \notin {"idle", "stopped"}
       ~> seeker \in {"idle", "stopped"} \/ races \cap {"flushMissed", "staleAdvance"} # {}

(* Left alone, a stream is played to its end, empty segments and segments   *)
(* that cannot be loaded included: the writer gets its caches back, the     *)
(* reader its data, the elements behind their EOS.  Known exceptions:       *)
(* segments that are cut off, a flush between the two looks of the segment  *)
(* handler, a seek to the end after the end, and a ring that is read empty  *)
(* between the message that it is full and the wait.                        *)
StreamEnds ==
    seeker = "idle" ~> \/ down.eos \/ seeker # "idle" \/ srcresult = "ERROR"
                       \/ races \ {"emptied"} # {}

=============================================================================
