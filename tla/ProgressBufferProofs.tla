------------------------ MODULE ProgressBufferProofs ------------------------
(***************************************************************************)
(* Proofs about ProgressBuffer, for streams of any length, buffers of any  *)
(* size, any threshold and any number of seeks.                            *)
(***************************************************************************)
EXTENDS ProgressBuffer, TLAPS

-----------------------------------------------------------------------------
(* The inductive invariant *)

Segment == [type : {"segment"}, start : 0 .. Size]

OutTypes ==
    /\ jsPosition \in 0 .. Size
    /\ jsOut.type = "segment" => jsOut \in Segment
    /\ jsOut.type = "buffer" => jsOut.offset \in 0 .. Size - 1
    /\ reader = "event" => out = EosEvent \/ out \in Segment
    /\ reader = "push" => /\ out.offset \in Nat /\ out.length \in Nat
                          /\ out.content \in 0 .. Size - 1 /\ out.intact \in BOOLEAN
    /\ reader = "store" => out.result \in Flow

TypeInv == TypeOK /\ OutTypes

\* What the source pushes is what it is about to do.
SourceInv ==
    /\ jsPc # "push" => jsOut = Nothing
    /\ jsOut.type = "buffer" => jsOut.offset = jsPosition /\ jsPending = "UNKNOWN"
    /\ jsOut.type = "segment" => jsOut.start = jsPosition /\ jsPending = "SEGMENT"
    /\ jsOut.type = "eos" => jsPending = "EOS"
    /\ jsOut.type = "stream-start" => jsPending = "STREAM_START"
    /\ jsUpdate => /\ cacheReadOffset = 0
                   /\ jsPending \in {"STREAM_START", "SEGMENT"} => jsPosition = 0

\* Who holds the stream lock, and why the reader does not go on.
LockInv ==
    /\ SeekerHoldsLock => reader \in {"top", "paused"}
    /\ reader = "paused" => srcresult # "OK" \/ SeekerHoldsLock
    /\ reader = "event" /\ out = EosEvent => srcresult # "OK"
    /\ reader = "none" => seeker = "stopping" \/ (seeker = "idle" /\ srcresult = "OK")
    /\ reader = "gone" <=> seeker = "stopped"
    /\ seeker = "stopped" => padFlushing
    /\ downFlushing <=> seeker # "idle"

\* The source, the segment and the file agree on where they are.
CacheInv ==
    /\ CacheHoldsStream
    /\ seeker # "stopped" => segment.start = cacheReadOffset
    /\ "itemDropped" \notin races =>
          /\ jsPending = "UNKNOWN" /\ seeker # "stopped" => jsPosition = segment.position
          /\ segment.stop < Size => jsPending \in {"EOS", "SEGMENT"}

\* A segment that was cut short has been reported to its end.
ReportedInv == segment.stop < Size => segment.stop <= reported

\* Where the reader goes on in the stream, and whether anybody was told.
Place == readPosition + cacheReadOffset
Told == pending.type # "segment"
Undisturbed == races \cap {"eventDropped", "seekLost"} = {}
Going == /\ ~downFlushing /\ instantSeek /\ srcresult = "OK"
         /\ \/ reader \in {"none", "top"}
            \/ reader \in {"awake", "waiting"} /\ ~skip

OrderInv ==
    /\ SeekerHoldsLock => pending.type # "eos"
    /\ seeker # "announce" =>
          /\ "seekLost" \notin races /\ ~Told => pending.start = Place
          /\ SeekerHoldsLock /\ instantSeek /\ "eventDropped" \notin races => ~Told
    /\ Undisturbed /\ Told =>
          /\ reader = "event" /\ out.type = "segment" => out.start = Place
          /\ reader = "push" => out.offset + out.length = Place
          /\ reader = "store" /\ out.result = "OK" => down.next = Place
          /\ Going => down.next = Place

IInv ==
    /\ TypeInv
    /\ SourceInv
    /\ LockInv
    /\ CacheInv
    /\ ReportedInv
    /\ NoLostWakeup
    /\ NoEarlyEos
    /\ OrderInv
    /\ InOrder

-----------------------------------------------------------------------------
(* Records *)

\* The three kinds of events that wait for the reader.
LEMMA PendingFacts ==
    ASSUME ReaderTypes
    PROVE  /\ pending = NoEvent \/ pending = EosEvent \/ pending \in Segment
           /\ pending.type \in {"none", "eos", "segment"}
           /\ pending.type = "none" <=> pending = NoEvent
           /\ pending.type = "eos" <=> pending = EosEvent
           /\ pending.type = "segment" <=> pending \in Segment
           /\ pending \in Segment => pending.start \in 0 .. Size
  BY DEF ReaderTypes, NoEvent, EosEvent, Segment

LEMMA SegmentFacts ==
    ASSUME NEW start \in 0 .. Size
    PROVE  /\ SegmentEvent(start) \in Segment
           /\ SegmentEvent(start).type = "segment"
           /\ SegmentEvent(start).start = start
  BY DEF SegmentEvent, Segment

\* What a push that is over leaves of the source's state.
LEMMA PushedFacts ==
    ASSUME JsTypeOK, OutTypes, SourceInv, jsPc = "push", NEW res \in Flow, SourcePushed(res)
    PROVE  /\ JsTypeOK' /\ jsPosition' \in 0 .. Size
           /\ jsOut' = Nothing \/ (jsOut' = EosEvent /\ jsPending' = "EOS")
           /\ jsPc' # "push" => jsOut' = Nothing
           /\ jsUpdate' = jsUpdate /\ padFlushing' = padFlushing
           /\ jsOut.type = "buffer" =>
                 /\ jsPosition' = jsPosition + 1
                 /\ jsPending' = IF res = "EOS" THEN "EOS" ELSE "UNKNOWN"
           /\ jsOut.type # "buffer" => jsPosition' = jsPosition
           /\ jsOut.type = "segment" => jsPending' = "UNKNOWN"
           /\ jsOut.type = "stream-start" => jsPending' = "SEGMENT"
           /\ jsOut.type \in {"eos", "nothing"} => jsPending' = jsPending
  <1>1. jsOut.type \in {"nothing", "stream-start", "segment", "buffer", "eos"} /\ jsPosition \in 0 .. Size
    BY DEF JsTypeOK, OutTypes
  <1>2. Nothing.type = "nothing" /\ EosEvent.type = "eos" /\ EosEvent = [type |-> "eos"]
    BY DEF Nothing, EosEvent
  <1>3. CASE jsOut.type = "buffer"
    <2>1. /\ jsOut.offset = jsPosition /\ jsPending = "UNKNOWN" /\ jsPosition \in 0 .. Size - 1
      BY <1>3 DEF SourceInv, OutTypes
    <2>2. jsPosition' = jsPosition + 1 /\ jsUpdate' = jsUpdate /\ padFlushing' = padFlushing
          /\ jsResult' = jsResult
      BY <1>3, <2>1 DEF SourcePushed
    <2>3. CASE res = "EOS"
      <3>1. jsPending' = "EOS" /\ jsOut' = EosEvent /\ jsPc' = jsPc /\ jsReturn' = jsReturn
        BY <1>2, <1>3, <2>3 DEF SourcePushed
      <3> QED BY <1>2, <1>3, <2>1, <2>2, <2>3, <3>1, SizeAssumption DEF JsTypeOK
    <2>4. CASE res # "EOS"
      <3>1. jsPending' = "UNKNOWN" /\ jsOut' = Nothing /\ jsPc' = "end" /\ jsReturn' = res
        BY <1>3, <2>1, <2>4 DEF SourcePushed, PendingAfter
      <3> QED BY <1>2, <1>3, <2>1, <2>2, <2>4, <3>1, SizeAssumption DEF JsTypeOK
    <2> QED BY <2>3, <2>4
  <1>4. CASE jsOut.type # "buffer"
    <2>1. /\ jsPosition' = jsPosition /\ jsUpdate' = jsUpdate /\ padFlushing' = padFlushing
          /\ jsResult' = jsResult /\ jsOut' = Nothing /\ jsPc' = "end"
          /\ jsPending' = PendingAfter(jsOut)
      BY <1>4 DEF SourcePushed
    <2>2. jsReturn' \in Flow
      BY <1>4 DEF SourcePushed, Flow
    <2>3. /\ jsOut.type = "segment" => jsPending' = "UNKNOWN"
          /\ jsOut.type = "stream-start" => jsPending' = "SEGMENT"
          /\ jsOut.type \in {"eos", "nothing"} => jsPending' = jsPending
      BY <2>1 DEF PendingAfter
    <2>4. JsTypeOK'
      BY <1>1, <1>2, <1>4, <2>1, <2>2, <2>3 DEF JsTypeOK
    <2> QED BY <1>1, <1>4, <2>1, <2>3, <2>4
  <1> QED BY <1>3, <1>4

-----------------------------------------------------------------------------
(* Steps of the source that do not reach the buffer *)

JsTypes ==
    /\ JsTypeOK
    /\ jsPosition \in 0 .. Size
    /\ jsOut.type = "segment" => jsOut \in Segment
    /\ jsOut.type = "buffer" => jsOut.offset \in 0 .. Size - 1

Quiet ==
    \/ SourceNext \/ PushFlushed \/ ChainRefuses \/ SinkEventRefused
    \/ SinkEventIgnored \/ SourceGoesOn

\* They leave the element alone; a block or a segment that is lost is recorded.
LEMMA QuietFrame ==
    ASSUME Quiet
    PROVE  /\ UNCHANGED <<cacheVars, sinkVars, pending, srcresult, instantSeek, readerVars,
                          seekVars, downFlushing, down, padFlushing, jsUpdate>>
           /\ races' = races \/ races' = races \cup {"itemDropped"}
  <1>1. CASE SourceNext
    BY <1>1 DEF SourceNext, SourceBegin, SourceGivesUp
  <1>2. CASE PushFlushed
    BY <1>2 DEF PushFlushed, SourcePushed, ItemDropped
  <1>3. CASE ChainRefuses
    BY <1>3 DEF ChainRefuses, SourcePushed
  <1>4. CASE SinkEventRefused
    BY <1>4 DEF SinkEventRefused, SourcePushed, ItemDropped
  <1>5. CASE SinkEventIgnored
    BY <1>5 DEF SinkEventIgnored, SourcePushed
  <1>6. CASE SourceGoesOn
    BY <1>6 DEF SourceGoesOn, SourceHalts, SourceEnd
  <1> QED BY <1>1, <1>2, <1>3, <1>4, <1>5, <1>6 DEF Quiet

\* What the source does next agrees with what it has pushed.
QuietGoal ==
    /\ JsTypes' /\ SourceInv'
    /\ "itemDropped" \notin races' =>
          /\ jsPending' = "UNKNOWN" => jsPending = "UNKNOWN" /\ jsPosition' = jsPosition
          /\ jsPending \in {"EOS", "SEGMENT"} => jsPending' \in {"EOS", "SEGMENT"}

LEMMA QuietPush ==
    ASSUME TypeInv, SourceInv, jsPc = "push", cacheReadOffset' = cacheReadOffset,
           NEW res \in Flow, SourcePushed(res),
           "itemDropped" \notin races' => jsOut.type # "segment"
                                          /\ (jsOut.type = "buffer" => res = "EOS")
    PROVE  QuietGoal
  <1>1. JsTypeOK /\ OutTypes
    BY DEF TypeInv, TypeOK
  <1> DEFINE Facts ==
           /\ JsTypeOK' /\ jsPosition' \in 0 .. Size
           /\ jsOut' = Nothing \/ (jsOut' = EosEvent /\ jsPending' = "EOS")
           /\ jsPc' # "push" => jsOut' = Nothing
           /\ jsUpdate' = jsUpdate /\ padFlushing' = padFlushing
           /\ jsOut.type = "buffer" =>
                 /\ jsPosition' = jsPosition + 1
                 /\ jsPending' = IF res = "EOS" THEN "EOS" ELSE "UNKNOWN"
           /\ jsOut.type # "buffer" => jsPosition' = jsPosition
           /\ jsOut.type = "segment" => jsPending' = "UNKNOWN"
           /\ jsOut.type = "stream-start" => jsPending' = "SEGMENT"
           /\ jsOut.type \in {"eos", "nothing"} => jsPending' = jsPending
  <1>2. Facts
    BY <1>1, PushedFacts
  <1>3. jsOut.type \in {"nothing", "stream-start", "segment", "buffer", "eos"}
    BY <1>1 DEF JsTypeOK
  <1>4. jsOut'.type \in {"nothing", "eos"} /\ (jsOut'.type = "eos" => jsPending' = "EOS")
    BY <1>2 DEF Nothing, EosEvent
  <1>5. JsTypes'
    BY <1>2, <1>4 DEF JsTypes
  <1>6. SourceInv'
    <2>1. ASSUME jsUpdate', jsPending' \in {"STREAM_START", "SEGMENT"} PROVE jsPosition' = 0
      <3>1. CASE jsOut.type = "buffer"
        BY <1>2, <2>1, <3>1
      <3>2. CASE jsOut.type # "buffer"
        BY <1>2, <1>3, <2>1, <3>2 DEF SourceInv
      <3> QED BY <3>1, <3>2
    <2> QED BY <1>2, <1>4, <2>1 DEF SourceInv
  <1>7. ASSUME "itemDropped" \notin races'
        PROVE  /\ jsPending' = "UNKNOWN" => jsPending = "UNKNOWN" /\ jsPosition' = jsPosition
               /\ jsPending \in {"EOS", "SEGMENT"} => jsPending' \in {"EOS", "SEGMENT"}
    BY <1>2, <1>3, <1>7 DEF SourceInv
  <1> QED BY <1>5, <1>6, <1>7 DEF QuietGoal

LEMMA QuietStep == ASSUME TypeInv, SourceInv, Quiet PROVE QuietGoal
  <1>0. /\ JsTypeOK /\ OutTypes /\ JsTypes
        /\ UNCHANGED <<cacheReadOffset, padFlushing, jsUpdate>>
    BY QuietFrame DEF TypeInv, TypeOK, OutTypes, JsTypes, cacheVars
  <1>f. {"OK", "EOS", "FLUSHING", "ERROR"} \subseteq Flow
    BY DEF Flow
  <1>1. CASE SourceNext
    <2>1. \/ /\ jsPending = "STREAM_START" /\ jsOut' = [type |-> "stream-start"]
             /\ jsPending' = jsPending
          \/ /\ jsPending = "SEGMENT" /\ jsOut' = SegmentEvent(jsPosition)
             /\ jsPending' = jsPending
          \/ /\ jsPending = "EOS" /\ jsOut' = EosEvent /\ jsPending' = jsPending
          \/ /\ jsPending = "UNKNOWN" /\ jsPosition < Size /\ jsPending' = jsPending
             /\ jsOut' = [type |-> "buffer", offset |-> jsPosition]
          \/ /\ jsPending = "UNKNOWN" /\ jsOut' = EosEvent /\ jsPending' = "EOS"
          \/ /\ jsPending' = jsPending /\ jsOut' = jsOut
      BY <1>1 DEF SourceNext, SourceBegin, SourceGivesUp
    <2>2. /\ jsPc' = "push" \/ (jsOut' = jsOut /\ jsPc = "loop")
          /\ jsPosition' = jsPosition /\ jsResult' = jsResult
          /\ jsPc' \in {"push", "end"} /\ jsReturn' \in Flow
      BY <1>0, <1>1, <1>f DEF SourceNext, SourceBegin, SourceGivesUp, JsTypeOK
    <2>3. \/ jsOut' = jsOut /\ jsPending' = jsPending
          \/ jsOut'.type = "stream-start" /\ jsPending = "STREAM_START" /\ jsPending' = jsPending
          \/ /\ jsOut'.type = "segment" /\ jsPending = "SEGMENT" /\ jsPending' = jsPending
             /\ jsOut' \in Segment /\ jsOut'.start = jsPosition
          \/ jsOut'.type = "eos" /\ jsPending \in {"EOS", "UNKNOWN"} /\ jsPending' = "EOS"
          \/ /\ jsOut'.type = "buffer" /\ jsPending = "UNKNOWN" /\ jsPending' = jsPending
             /\ jsOut'.offset = jsPosition /\ jsOut'.offset \in 0 .. Size - 1
      <3>1. jsPosition \in 0 .. Size
        BY <1>0 DEF OutTypes
      <3>2. /\ SegmentEvent(jsPosition) \in Segment
            /\ SegmentEvent(jsPosition).type = "segment"
            /\ SegmentEvent(jsPosition).start = jsPosition
        BY <3>1, SegmentFacts
      <3>3. EosEvent.type = "eos"
        BY DEF EosEvent
      <3>4. jsPosition < Size => jsPosition \in 0 .. Size - 1
        BY <3>1, SizeAssumption
      <3> QED BY <2>1, <3>2, <3>3, <3>4
    <2>4. JsTypes'
      BY <1>0, <2>2, <2>3 DEF JsTypes, JsTypeOK
    <2>5. SourceInv'
      BY <1>0, <2>2, <2>3 DEF SourceInv
    <2> QED BY <2>2, <2>3, <2>4, <2>5 DEF QuietGoal
  <1>2. CASE PushFlushed
    <2>1. "itemDropped" \notin races' => jsOut.type \notin {"segment", "buffer"}
      BY <1>2 DEF PushFlushed, ItemDropped
    <2> QED BY <1>0, <1>2, <1>f, <2>1, QuietPush DEF PushFlushed
  <1>3. CASE ChainRefuses
    <2>1. jsOut.type = "buffer" /\ jsPc = "push" /\ SourcePushed("EOS")
      BY <1>3 DEF ChainRefuses, PushReaches
    <2> QED BY <1>0, <1>f, <2>1, QuietPush
  <1>4. CASE SinkEventRefused
    <2>1. /\ jsOut.type # "buffer" /\ jsPc = "push" /\ SourcePushed("ERROR")
          /\ "itemDropped" \notin races' => jsOut.type # "segment"
      BY <1>4 DEF SinkEventRefused, PushReaches, ItemDropped
    <2> QED BY <1>0, <1>f, <2>1, QuietPush
  <1>5. CASE SinkEventIgnored
    <2>1. jsOut.type = "stream-start" /\ jsPc = "push" /\ SourcePushed("OK")
      BY <1>5 DEF SinkEventIgnored, PushReaches
    <2> QED BY <1>0, <1>f, <2>1, QuietPush
  <1>6. CASE SourceGoesOn
    <2>1. /\ UNCHANGED <<jsPosition, jsPending, jsOut>> /\ jsPc # "push" /\ jsPc' # "push"
          /\ jsResult' \in Flow /\ jsReturn' \in Flow /\ jsPc' \in {"loop", "paused"}
      BY <1>0, <1>6 DEF SourceGoesOn, SourceHalts, SourceEnd, ResultAfter, JsTypeOK, Flow
    <2>2. JsTypes'
      BY <1>0, <2>1 DEF JsTypes, JsTypeOK
    <2>3. SourceInv'
      BY <1>0, <2>1 DEF SourceInv
    <2> QED BY <2>1, <2>2, <2>3 DEF QuietGoal
  <1> QED BY <1>1, <1>2, <1>3, <1>4, <1>5, <1>6 DEF Quiet

ReaderOut ==
    /\ reader = "event" => out = EosEvent \/ out \in Segment
    /\ reader = "push" => /\ out.offset \in Nat /\ out.length \in Nat
                          /\ out.content \in 0 .. Size - 1 /\ out.intact \in BOOLEAN
    /\ reader = "store" => out.result \in Flow

\* The type invariant by component.
LEMMA TypeParts ==
    TypeInv <=> JsTypes /\ CacheTypes /\ SinkTypes /\ ReaderTypes /\ SeekTypes /\ ReaderOut
  BY DEF TypeInv, TypeOK, OutTypes, JsTypes, ReaderOut

LEMMA TypePartsNext ==
    ASSUME JsTypes', CacheTypes', SinkTypes', ReaderTypes', SeekTypes', ReaderOut'
    PROVE  TypeInv'
  BY DEF TypeInv, TypeOK, OutTypes, JsTypes, ReaderOut

\* A step of the source that does not reach the buffer preserves the invariant.
LEMMA QuietInv == ASSUME IInv, Quiet PROVE IInv'
  <1>0. /\ UNCHANGED <<cacheVars, sinkVars, pending, srcresult, instantSeek, readerVars,
                       seekVars, downFlushing, down, padFlushing, jsUpdate>>
        /\ races' = races \/ races' = races \cup {"itemDropped"}
    BY QuietFrame
  <1> USE DEF cacheVars, sinkVars, readerVars, seekVars
  <1>1. QuietGoal
    BY QuietStep DEF IInv
  <1>2. TypeInv'
    <2>1. JsTypes /\ CacheTypes /\ SinkTypes /\ ReaderTypes /\ SeekTypes /\ ReaderOut
      BY TypeParts DEF IInv
    <2>2. CacheTypes' /\ SinkTypes'
      BY <1>0, <2>1 DEF CacheTypes, SinkTypes
    <2>3. ReaderTypes' /\ ReaderOut'
      BY <1>0, <2>1 DEF ReaderTypes, ReaderOut
    <2>4. SeekTypes'
      BY <1>0, <2>1 DEF SeekTypes
    <2> QED BY <1>1, <2>2, <2>3, <2>4, TypePartsNext DEF QuietGoal
  <1>3. LockInv'
    BY <1>0 DEF IInv, LockInv, SeekerHoldsLock
  <1>4. CacheInv'
    <2>1. "itemDropped" \notin races' => "itemDropped" \notin races
      BY <1>0
    <2>2. CacheHoldsStream'
      BY <1>0, <2>1 DEF IInv, CacheInv, CacheHoldsStream
    <2>3. ASSUME "itemDropped" \notin races'
          PROVE  /\ jsPending' = "UNKNOWN" /\ seeker # "stopped" => jsPosition' = segment.position
                 /\ segment.stop < Size => jsPending' \in {"EOS", "SEGMENT"}
      BY <1>1, <2>1, <2>3 DEF IInv, CacheInv, QuietGoal
    <2> QED BY <1>0, <2>2, <2>3 DEF IInv, CacheInv
  <1>5. ReportedInv' /\ NoEarlyEos'
    BY <1>0 DEF IInv, ReportedInv, NoEarlyEos, EosEvent
  <1>6. NoLostWakeup'
    BY <1>0 DEF IInv, NoLostWakeup, Available, Arrived
  <1>7. /\ "eventDropped" \in races' <=> "eventDropped" \in races
        /\ "seekLost" \in races' <=> "seekLost" \in races
        /\ Undisturbed' <=> Undisturbed
    BY <1>0 DEF Undisturbed
  <1>8. OrderInv'
    BY <1>0, <1>7 DEF IInv, OrderInv, Told, Place, Going, SeekerHoldsLock
  <1>9. InOrder'
    BY <1>0, <1>7 DEF IInv, InOrder, Undisturbed
  <1> QED BY <1>1, <1>2, <1>3, <1>4, <1>5, <1>6, <1>8, <1>9 DEF IInv, QuietGoal

-----------------------------------------------------------------------------
(* What reaches the buffer *)

\* progress_buffer_chain stores a block, or refuses one after the stop.
LEMMA ChainInv == ASSUME IInv, Chain PROVE IInv'
  <1> USE DEF sinkVars, cacheVars, seekVars
  <1>0. JsTypes /\ CacheTypes /\ SinkTypes /\ ReaderTypes /\ SeekTypes /\ ReaderOut
    BY TypeParts DEF IInv
  <1>1. /\ jsPc = "push" /\ jsOut.type = "buffer" /\ ~padFlushing /\ ~eos /\ ~unexpected
        /\ segment' = [segment EXCEPT !.position = jsOut.offset + 1]
        /\ UNCHANGED <<eos, unexpected, pending, instantSeek, skip, out, seeker, seek, seeks,
                       downFlushing, down, races, readPosition, cacheReadOffset>>
    BY DEF Chain, PushReaches
  <1>2. /\ jsOut.offset = jsPosition /\ jsPending = "UNKNOWN"
        /\ jsOut.offset \in 0 .. Size - 1 /\ jsOut.offset + 1 \in 0 .. Size
    BY <1>0, <1>1, SizeAssumption DEF IInv, SourceInv, JsTypes
  <1>3. /\ segment'.start = segment.start /\ segment'.stop = segment.stop
        /\ segment'.position = jsOut.offset + 1
        /\ segment' \in [start : 0 .. Size, position : 0 .. Size, stop : 0 .. Size]
        /\ segment.stop \in 0 .. Size /\ segment.start \in 0 .. Size
        /\ segment.position \in 0 .. Size
    BY <1>0, <1>1, <1>2 DEF SinkTypes
  <1>4. PICK res \in {"OK", "ERROR"} : SourcePushed(res)
    BY DEF Chain
  <1>5. /\ JsTypes' /\ jsPosition' = jsPosition + 1 /\ jsPending' = "UNKNOWN"
        /\ jsOut' = Nothing /\ jsUpdate' = jsUpdate /\ padFlushing' = padFlushing
    <2>1. res \in Flow /\ res # "EOS" /\ JsTypeOK /\ OutTypes /\ SourceInv
      BY <1>4 DEF Flow, IInv, TypeInv, TypeOK
    <2>2. /\ JsTypeOK' /\ jsPosition' \in 0 .. Size
          /\ jsOut' = Nothing \/ (jsOut' = EosEvent /\ jsPending' = "EOS")
          /\ jsUpdate' = jsUpdate /\ padFlushing' = padFlushing
          /\ jsPosition' = jsPosition + 1 /\ jsPending' = "UNKNOWN"
      BY <1>1, <1>4, <2>1, PushedFacts
    <2>3. jsOut' = Nothing /\ Nothing.type = "nothing"
      BY <2>2 DEF Nothing
    <2> QED BY <2>2, <2>3 DEF JsTypes
  <1>6. SourceInv'
    <2>1. jsOut'.type = "nothing"
      BY <1>5 DEF Nothing
    <2>2. cacheReadOffset' = cacheReadOffset
      BY <1>1
    <2> QED BY <1>5, <2>1, <2>2 DEF IInv, SourceInv
  <1>s. seeker # "stopped" /\ reader # "gone"
    BY <1>1 DEF IInv, LockInv
  <1>7. CASE segment.stop < jsOut.offset + 1
    <2>1. UNCHANGED <<file, writePosition, readPosition, cacheReadOffset, reported, srcresult,
                      reader>>
      BY <1>7 DEF Chain
    <2>2. segment.stop < Size /\ segment.stop <= reported /\ reported \in 0 .. Size
      <3>1. segment.stop < Size
        BY <1>2, <1>3, <1>7, SizeAssumption
      <3> QED BY <1>0, <3>1 DEF IInv, ReportedInv, SinkTypes
    <2>3. "itemDropped" \in races
      BY <1>2, <2>2 DEF IInv, CacheInv
    <2>4. TypeInv'
      <3>1. CacheTypes'
        BY <1>0, <2>1 DEF CacheTypes
      <3>2. SinkTypes'
        BY <1>0, <1>1, <1>3, <2>1 DEF SinkTypes
      <3>3. ReaderTypes' /\ SeekTypes' /\ ReaderOut'
        BY <1>0, <1>1, <2>1 DEF ReaderTypes, SeekTypes, ReaderOut
      <3> QED BY <1>5, <3>1, <3>2, <3>3, TypePartsNext
    <2>5. LockInv'
      BY <1>1, <1>5, <2>1 DEF IInv, LockInv, SeekerHoldsLock
    <2>6. CacheInv'
      BY <1>1, <1>3, <2>1, <2>3 DEF IInv, CacheInv, CacheHoldsStream
    <2>7. ReportedInv'
      BY <1>3, <2>1 DEF IInv, ReportedInv
    <2>8. NoLostWakeup'
      <3>1. Arrived' \in Int /\ Arrived' <= segment.stop
        BY <1>2, <1>3 DEF Arrived
      <3>2. Arrived' - reported <= Threshold
        <4>1. segment.stop \in Int /\ reported \in Int /\ segment.stop <= reported
          BY <1>3, <2>2
        <4>2. \A a, b, c \in Int : a <= b /\ b <= c => a - c <= Threshold
          BY ThresholdAssumption
        <4> QED BY <3>1, <4>1, <4>2
      <3>3. Available' <=> Available
        BY <2>1 DEF Available
      <3> QED BY <1>1, <2>1, <3>2, <3>3 DEF IInv, NoLostWakeup
    <2>9. NoEarlyEos'
      BY <1>1, <1>3, <2>1 DEF IInv, NoEarlyEos, EosEvent
    <2>10. OrderInv'
      BY <1>1, <2>1 DEF IInv, OrderInv, Told, Place, Going, SeekerHoldsLock, Undisturbed
    <2>11. InOrder'
      BY <1>1, <2>1 DEF IInv, InOrder
    <2> QED BY <1>6, <2>4, <2>5, <2>6, <2>7, <2>8, <2>9, <2>10, <2>11 DEF IInv
  <1>8. CASE ~(segment.stop < jsOut.offset + 1)
    <2>1. /\ file' = Write(jsOut.offset) /\ writePosition' = writePosition + 1
          /\ reported' = IF MessageDue(jsOut.offset + 1, FALSE) THEN jsOut.offset + 1 ELSE reported
          /\ IF reader = "none" THEN srcresult' = "OK" /\ reader' = "top"
             ELSE /\ IF MessageDue(jsOut.offset + 1, FALSE) THEN Signal ELSE UNCHANGED reader
                  /\ UNCHANGED srcresult
      BY <1>8 DEF Chain, PositionMessage
    <2>2. /\ reported \in 0 .. Size /\ reported' \in 0 .. Size /\ reported <= reported'
          /\ jsOut.offset + 1 - reported' <= Threshold
      <3>1. reported \in 0 .. Size
        BY <1>0 DEF SinkTypes
      <3> QED BY <1>2, <2>1, <3>1, ThresholdAssumption DEF MessageDue
    <2>3. /\ file' = [i \in DOMAIN file \cup {writePosition} |->
                         IF i = writePosition THEN jsOut.offset ELSE file[i]]
          /\ DOMAIN file' = DOMAIN file \cup {writePosition}
          /\ file'[writePosition] = jsOut.offset
          /\ \A i \in DOMAIN file : i # writePosition => file'[i] = file[i]
      BY <2>1 DEF Write
    <2>4. CacheTypes'
      <3>1. /\ writePosition \in Nat /\ 0 .. writePosition - 1 \subseteq DOMAIN file
            /\ \A i \in DOMAIN file : file[i] \in 0 .. Size - 1
        BY <1>0 DEF CacheTypes
      <3>2. 0 .. writePosition' - 1 \subseteq DOMAIN file'
        BY <2>1, <2>3, <3>1
      <3>3. file' \in [DOMAIN file' -> 0 .. Size - 1]
        <4>1. \A i \in DOMAIN file' : file'[i] \in 0 .. Size - 1
          BY <1>2, <2>3, <3>1
        <4>2. file' = [i \in DOMAIN file' |-> file'[i]]
          BY <2>3
        <4> QED BY <4>1, <4>2
      <3>4. writePosition' \in Nat /\ readPosition' = readPosition /\ cacheReadOffset' = cacheReadOffset
        BY <1>1, <2>1, <3>1
      <3> QED BY <1>0, <3>2, <3>3, <3>4 DEF CacheTypes
    <2>5. /\ reader' \in {"none", "top", "awake", "waiting", "event", "push", "store", "paused"}
          /\ srcresult' \in Flow
          /\ reader' \in {"top", "awake"} \/ reader' = reader
          /\ reader' # reader => (reader = "none" /\ reader' = "top")
                                 \/ (reader = "waiting" /\ reader' = "awake")
          /\ reader # "none" => srcresult' = srcresult
          /\ reader = "none" => srcresult' = "OK" /\ reader' = "top"
          /\ reader' = "waiting" => reader = "waiting" /\ ~MessageDue(jsOut.offset + 1, FALSE)
      BY <1>0, <1>s, <2>1 DEF Signal, ReaderTypes, Flow
    <2>6. TypeInv'
      <3>2. SinkTypes'
        BY <1>0, <1>1, <1>3, <2>2 DEF SinkTypes
      <3>3. ReaderTypes' /\ SeekTypes'
        BY <1>0, <1>1, <2>5 DEF ReaderTypes, SeekTypes
      <3>4. ReaderOut'
        BY <1>0, <1>1, <2>5 DEF ReaderOut
      <3> QED BY <1>5, <2>4, <3>2, <3>3, <3>4, TypePartsNext
    <2>7. LockInv'
      BY <1>1, <1>5, <1>s, <2>5 DEF IInv, LockInv, SeekerHoldsLock
    <2>8. CacheInv'
      <3>1. ASSUME "itemDropped" \notin races
            PROVE  /\ jsOut.offset = segment.position
                   /\ segment.position = cacheReadOffset + writePosition
                   /\ segment.stop = Size
                   /\ \A i \in 0 .. writePosition - 1 : file[i] = cacheReadOffset + i
        <4>1. ~(segment.stop < Size)
          BY <1>2, <3>1 DEF IInv, CacheInv
        <4>2. segment.stop \in 0 .. Size
          BY <1>3
        <4>3. segment.stop = Size
          BY <4>1, <4>2, SizeAssumption
        <4> QED BY <1>2, <1>s, <3>1, <4>3 DEF IInv, CacheInv, CacheHoldsStream
      <3>2. /\ writePosition \in Nat /\ cacheReadOffset \in Nat
            /\ 0 .. writePosition - 1 \subseteq DOMAIN file
        BY <1>0 DEF CacheTypes
      <3>3. CacheHoldsStream'
        <4> SUFFICES ASSUME "itemDropped" \notin races
                     PROVE  /\ \A i \in 0 .. writePosition' - 1 : file'[i] = cacheReadOffset + i
                            /\ segment'.position = cacheReadOffset + writePosition'
          BY <1>1 DEF CacheHoldsStream
        <4>1. segment'.position = cacheReadOffset + writePosition'
          BY <1>3, <2>1, <3>1, <3>2
        <4>2. ASSUME NEW i \in 0 .. writePosition' - 1 PROVE file'[i] = cacheReadOffset + i
          <5>1. i = writePosition \/ i \in 0 .. writePosition - 1
            BY <2>1, <3>2
          <5>2. CASE i = writePosition
            BY <2>3, <3>1, <5>2
          <5>3. CASE i \in 0 .. writePosition - 1
            <6>1. i # writePosition /\ i \in DOMAIN file
              BY <3>2, <5>3
            <6> QED BY <2>3, <3>1, <5>3, <6>1
          <5> QED BY <5>1, <5>2, <5>3
        <4> QED BY <4>1, <4>2
      <3>4. seeker' # "stopped" => segment'.start = cacheReadOffset'
        BY <1>1, <1>3 DEF IInv, CacheInv
      <3>5. "itemDropped" \notin races' =>
              /\ jsPending' = "UNKNOWN" /\ seeker' # "stopped" => jsPosition' = segment'.position
              /\ segment'.stop < Size => jsPending' \in {"EOS", "SEGMENT"}
        BY <1>1, <1>2, <1>3, <1>5, <3>1, SizeAssumption
      <3> QED BY <3>3, <3>4, <3>5 DEF CacheInv
    <2>9. ReportedInv'
      BY <1>3, <2>2 DEF IInv, ReportedInv
    <2>10. NoLostWakeup'
      <3>1. Arrived' = jsOut.offset + 1
        BY <1>2, <1>3, <1>8 DEF Arrived
      <3>2. Arrived' - reported' <= Threshold
        <4>1. Arrived' \in Int /\ reported' \in Int /\ Arrived' = jsOut.offset + 1
          BY <1>2, <2>2, <3>1
        <4>2. jsOut.offset + 1 - reported' <= Threshold
          BY <2>2
        <4> QED BY <4>1, <4>2, <1>2, ThresholdAssumption
      <3>4. ~eos'
        BY <1>1
      <3>3. reader' = "waiting" => srcresult' = "OK" /\ pending' = NoEvent
        BY <1>1, <2>5 DEF IInv, NoLostWakeup, NoEvent
      <3> QED BY <3>2, <3>3, <3>4, Zenon DEF NoLostWakeup, NoEvent
    <2>11. NoEarlyEos'
      BY <1>1, <1>3 DEF IInv, NoEarlyEos, EosEvent
    <2>12. OrderInv'
      <3>1. Going' => Going
        <4> SUFFICES ASSUME Going' PROVE Going
          OBVIOUS
        <4>1. /\ ~downFlushing /\ instantSeek /\ srcresult' = "OK" /\ seeker = "idle"
          BY <1>1 DEF Going, IInv, LockInv
        <4>2. CASE reader = "none"
          BY <4>1, <4>2 DEF Going, IInv, LockInv
        <4>3. CASE reader # "none"
          BY <1>1, <2>5, <4>1, <4>3 DEF Going
        <4> QED BY <4>2, <4>3
      <3> QED BY <1>1, <2>5, <3>1 DEF IInv, OrderInv, Told, Place, SeekerHoldsLock, Undisturbed
    <2>13. InOrder'
      BY <1>1, <2>5 DEF IInv, InOrder
    <2> QED BY <1>6, <2>6, <2>7, <2>8, <2>9, <2>10, <2>11, <2>12, <2>13 DEF IInv
  <1> QED BY <1>7, <1>8

\* What an event pushed to the buffer leaves of the source's state.
LEMMA EventFacts ==
    ASSUME IInv, jsPc = "push", jsOut.type \in {"segment", "eos"}, SourcePushed("OK")
    PROVE  /\ JsTypes' /\ jsPosition' = jsPosition /\ jsOut' = Nothing /\ jsOut'.type = "nothing"
           /\ jsUpdate' = jsUpdate /\ padFlushing' = padFlushing
           /\ jsOut.type = "segment" => jsPending' = "UNKNOWN"
           /\ jsOut.type = "eos" => jsPending' = jsPending
  <1>1. "OK" \in Flow /\ JsTypeOK /\ OutTypes /\ SourceInv
    BY DEF Flow, IInv, TypeInv, TypeOK
  <1>2. /\ JsTypeOK' /\ jsPosition' \in 0 .. Size
        /\ jsUpdate' = jsUpdate /\ padFlushing' = padFlushing
        /\ jsPosition' = jsPosition
        /\ jsOut.type = "segment" => jsPending' = "UNKNOWN"
        /\ jsOut.type = "eos" => jsPending' = jsPending
    BY <1>1, PushedFacts
  <1>3. jsOut' = Nothing /\ jsOut'.type = "nothing"
    BY DEF SourcePushed, Nothing
  <1> QED BY <1>2, <1>3 DEF JsTypes

\* A signal moves a waiting reader only.
LEMMA SignalFacts ==
    ASSUME Signal
    PROVE  /\ reader' # "waiting"
           /\ reader' = reader \/ (reader = "waiting" /\ reader' = "awake")
  BY DEF Signal

\* A segment event empties the cache and announces itself to the reader.
LEMMA SinkSegmentInv == ASSUME IInv, SinkSegment PROVE IInv'
  <1> USE DEF seekVars
  <1>0. JsTypes /\ CacheTypes /\ SinkTypes /\ ReaderTypes /\ SeekTypes /\ ReaderOut
    BY TypeParts DEF IInv
  <1>1. /\ jsPc = "push" /\ jsOut.type = "segment" /\ ~padFlushing /\ ~eos /\ SourcePushed("OK")
        /\ unexpected' = FALSE /\ writePosition' = 0 /\ readPosition' = 0
        /\ file' = (IF jsUpdate THEN NewFile ELSE file)
        /\ cacheReadOffset' = (IF jsUpdate THEN cacheReadOffset ELSE jsOut.start)
        /\ segment' = [start |-> jsOut.start, position |-> jsOut.start, stop |-> Size]
        /\ pending' = jsOut /\ instantSeek' = TRUE /\ reported' = jsOut.start
        /\ Signal /\ races' = races \ {"itemDropped"}
        /\ UNCHANGED <<eos, srcresult, skip, out, seeker, seek, seeks, downFlushing, down>>
    BY DEF SinkSegment, PushReaches, OffsetAfter, PositionMessage, MessageDue
  <1>2. /\ jsOut \in Segment /\ jsOut.start \in 0 .. Size
        /\ jsOut.start = jsPosition /\ jsPending = "SEGMENT"
    BY <1>0, <1>1 DEF IInv, SourceInv, JsTypes, Segment
  <1>3. /\ JsTypes' /\ jsPosition' = jsPosition /\ jsOut' = Nothing /\ jsOut'.type = "nothing"
        /\ jsUpdate' = jsUpdate /\ padFlushing' = padFlushing /\ jsPending' = "UNKNOWN"
    BY <1>1, EventFacts
  <1>4. cacheReadOffset' = jsOut.start /\ (jsUpdate => jsOut.start = 0)
    BY <1>1, <1>2 DEF IInv, SourceInv
  <1>5. SourceInv'
    BY <1>1, <1>3, <1>4 DEF SourceInv
  <1>6. /\ segment'.start = jsOut.start /\ segment'.position = jsOut.start /\ segment'.stop = Size
        /\ segment' \in [start : 0 .. Size, position : 0 .. Size, stop : 0 .. Size]
    BY <1>1, <1>2, SizeAssumption
  <1>7. /\ reader' # "waiting"
        /\ reader' = reader \/ (reader = "waiting" /\ reader' = "awake")
    BY <1>1, SignalFacts
  <1>s. seeker # "stopped"
    BY <1>1 DEF IInv, LockInv
  <1>8. TypeInv'
    <2>1. CacheTypes'
      <3>1. file' \in [DOMAIN file' -> 0 .. Size - 1]
        BY <1>0, <1>1 DEF CacheTypes, NewFile
      <3>2. 0 .. writePosition' - 1 = {}
        BY <1>1
      <3> QED BY <1>1, <1>2, <1>4, <3>1, <3>2 DEF CacheTypes
    <2>2. SinkTypes'
      BY <1>0, <1>1, <1>2, <1>6 DEF SinkTypes
    <2>3. ReaderTypes'
      BY <1>0, <1>1, <1>2, <1>7 DEF ReaderTypes, Segment
    <2>4. SeekTypes' /\ ReaderOut'
      BY <1>0, <1>1, <1>7 DEF SeekTypes, ReaderOut
    <2> QED BY <1>3, <2>1, <2>2, <2>3, <2>4, TypePartsNext
  <1>9. LockInv'
    BY <1>1, <1>3, <1>7 DEF IInv, LockInv, SeekerHoldsLock
  <1>10. CacheInv'
    <2>1. 0 .. writePosition' - 1 = {} /\ cacheReadOffset' + writePosition' = cacheReadOffset'
      BY <1>1, <1>2, <1>4
    <2>2. CacheHoldsStream'
      BY <1>4, <1>6, <2>1 DEF CacheHoldsStream
    <2> QED BY <1>2, <1>3, <1>4, <1>6, <2>2, SizeAssumption DEF CacheInv
  <1>11. ReportedInv' /\ NoLostWakeup'
    BY <1>6, <1>7, SizeAssumption DEF ReportedInv, NoLostWakeup
  <1>12. NoEarlyEos'
    <2>1. pending' # EosEvent
      BY <1>1 DEF EosEvent
    <2> QED BY <2>1 DEF NoEarlyEos, EosEvent
  <1>13. OrderInv'
    <2>1. ~Told' /\ pending'.start = Place' /\ pending'.type # "eos"
      BY <1>1, <1>2, <1>4 DEF Told, Place
    <2> QED BY <2>1 DEF OrderInv
  <1>14. InOrder'
    BY <1>1, <1>7 DEF IInv, InOrder
  <1> QED BY <1>5, <1>8, <1>9, <1>10, <1>11, <1>12, <1>13, <1>14 DEF IInv

\* The end of the stream cuts the segment and discards what is pending.
LEMMA SinkEosInv == ASSUME IInv, SinkEos PROVE IInv'
  <1> USE DEF seekVars, cacheVars
  <1>0. JsTypes /\ CacheTypes /\ SinkTypes /\ ReaderTypes /\ SeekTypes /\ ReaderOut
    BY TypeParts DEF IInv
  <1> DEFINE cut == IF segment.position < segment.stop THEN segment.position ELSE segment.stop
  <1>1. /\ jsPc = "push" /\ jsOut.type = "eos" /\ ~padFlushing /\ ~eos /\ SourcePushed("OK")
        /\ eos' = TRUE /\ segment' = [segment EXCEPT !.stop = cut]
        /\ pending' = NoEvent /\ reported' = segment.position /\ Signal
        /\ races' = races \cup (IF pending # NoEvent THEN {"eventDropped"} ELSE {})
        /\ UNCHANGED <<file, readPosition, writePosition, cacheReadOffset, unexpected, srcresult,
                       instantSeek, skip, out, seeker, seek, seeks, downFlushing, down>>
    BY DEF SinkEos, PushReaches, PositionMessage, MessageDue
  <1>2. /\ JsTypes' /\ jsPosition' = jsPosition /\ jsOut' = Nothing /\ jsOut'.type = "nothing"
        /\ jsUpdate' = jsUpdate /\ padFlushing' = padFlushing /\ jsPending' = jsPending
        /\ jsPending = "EOS"
    BY <1>1, EventFacts DEF IInv, SourceInv
  <1>3. /\ segment'.start = segment.start /\ segment'.position = segment.position
        /\ segment'.stop = cut
        /\ segment' \in [start : 0 .. Size, position : 0 .. Size, stop : 0 .. Size]
        /\ cut <= segment.position /\ segment.position \in 0 .. Size
    BY <1>0, <1>1 DEF SinkTypes
  <1> HIDE DEF cut
  <1>4. /\ reader' # "waiting"
        /\ reader' = reader \/ (reader = "waiting" /\ reader' = "awake")
    BY <1>1, SignalFacts
  <1>5. SourceInv'
    BY <1>1, <1>2 DEF IInv, SourceInv
  <1>6. TypeInv'
    <2>1. CacheTypes' /\ SinkTypes'
      BY <1>0, <1>1, <1>3 DEF CacheTypes, SinkTypes
    <2>2. ReaderTypes'
      BY <1>0, <1>1, <1>4 DEF ReaderTypes
    <2>3. SeekTypes' /\ ReaderOut'
      BY <1>0, <1>1, <1>4 DEF SeekTypes, ReaderOut
    <2> QED BY <1>2, <2>1, <2>2, <2>3, TypePartsNext
  <1>7. LockInv'
    BY <1>1, <1>2, <1>4 DEF IInv, LockInv, SeekerHoldsLock
  <1>8. CacheInv'
    <2>1. "itemDropped" \in races' <=> "itemDropped" \in races
      BY <1>1
    <2>2. CacheHoldsStream'
      BY <1>1, <1>3, <2>1 DEF IInv, CacheInv, CacheHoldsStream
    <2> QED BY <1>1, <1>2, <1>3, <2>2 DEF IInv, CacheInv
  <1>9. ReportedInv' /\ NoLostWakeup'
    BY <1>1, <1>3, <1>4 DEF ReportedInv, NoLostWakeup
  <1>10. pending' # EosEvent /\ pending'.type = "none"
    BY <1>1 DEF NoEvent, EosEvent
  <1>11. NoEarlyEos'
    BY <1>10 DEF NoEarlyEos, EosEvent
  <1>12. ASSUME "eventDropped" \notin races'
         PROVE  /\ pending = NoEvent /\ Told /\ races' = races
    BY <1>1, <1>12 DEF Told, NoEvent
  <1>13. OrderInv'
    <2>1. Told' /\ Place' = Place /\ (SeekerHoldsLock' <=> SeekerHoldsLock)
      BY <1>1, <1>10 DEF Told, Place, SeekerHoldsLock
    <2>2. ASSUME seeker # "announce", SeekerHoldsLock, instantSeek, "eventDropped" \notin races'
          PROVE  FALSE
      BY <1>12, <2>2 DEF IInv, OrderInv
    <2>3. ASSUME Undisturbed'
          PROVE  /\ reader' = "event" /\ out'.type = "segment" => out'.start = Place'
                 /\ reader' = "push" => out'.offset + out'.length = Place'
                 /\ reader' = "store" /\ out'.result = "OK" => down'.next = Place'
                 /\ Going' => down'.next = Place'
      <3>1. "eventDropped" \notin races'
        BY <2>3 DEF Undisturbed
      <3>2. Undisturbed /\ Told
        BY <1>12, <2>3, <3>1 DEF Undisturbed
      <3>3. Going' => Going
        BY <1>1, <1>4 DEF Going
      <3> QED BY <1>1, <1>4, <2>1, <3>2, <3>3 DEF IInv, OrderInv
    <2> QED BY <1>1, <1>10, <2>1, <2>2, <2>3 DEF OrderInv
  <1>14. InOrder'
    BY <1>1, <1>4 DEF IInv, InOrder
  <1> QED BY <1>5, <1>6, <1>7, <1>8, <1>9, <1>11, <1>13, <1>14 DEF IInv

-----------------------------------------------------------------------------
(* The reader *)

\* What the reader never touches.
LEMMA ReaderFrame ==
    ASSUME IInv,
           UNCHANGED <<jsVars, file, writePosition, cacheReadOffset, segment, reported, eos,
                       instantSeek, seekVars, downFlushing>>,
           races' = races \/ races' = races \cup {"flushOverwritten"},
           readPosition' \in Nat, unexpected' \in BOOLEAN
    PROVE  /\ JsTypes' /\ CacheTypes' /\ SinkTypes' /\ SeekTypes'
           /\ SourceInv' /\ CacheInv' /\ ReportedInv'
  <1> USE DEF jsVars, seekVars
  <1>0. JsTypes /\ CacheTypes /\ SinkTypes /\ SeekTypes
    BY TypeParts DEF IInv
  <1>1. JsTypes' /\ CacheTypes' /\ SinkTypes' /\ SeekTypes'
    <2>1. JsTypes'
      BY <1>0 DEF JsTypes, JsTypeOK
    <2>2. CacheTypes' /\ SinkTypes'
      BY <1>0 DEF CacheTypes, SinkTypes
    <2> QED BY <1>0, <2>1, <2>2 DEF SeekTypes
  <1>2. SourceInv' /\ ReportedInv'
    BY DEF IInv, SourceInv, ReportedInv
  <1>3. "itemDropped" \in races' <=> "itemDropped" \in races
    OBVIOUS
  <1>4. CacheInv'
    BY <1>3 DEF IInv, CacheInv, CacheHoldsStream
  <1> QED BY <1>1, <1>2, <1>4

LEMMA ReaderWaitsInv == ASSUME IInv, ReaderWaits PROVE IInv'
  <1> USE DEF cacheVars, sinkVars, seekVars
  <1>0. CacheTypes /\ SinkTypes /\ ReaderTypes /\ ReaderOut
    BY TypeParts DEF IInv
  <1>1. /\ ReaderLooks /\ srcresult = "OK" /\ NothingToDo
        /\ reader' = "waiting" /\ skip' = (skip /\ reader # "top")
        /\ UNCHANGED <<jsVars, cacheVars, sinkVars, pending, srcresult, instantSeek, out,
                       seekVars, downFlushing, down, races>>
    BY DEF ReaderWaits, Skipping
  <1>2. /\ JsTypes' /\ CacheTypes' /\ SinkTypes' /\ SeekTypes'
        /\ SourceInv' /\ CacheInv' /\ ReportedInv'
    BY <1>0, <1>1, ReaderFrame DEF CacheTypes, SinkTypes
  <1>3. ReaderTypes' /\ ReaderOut'
    BY <1>0, <1>1 DEF ReaderTypes, ReaderOut
  <1>4. reader \in {"top", "awake"} /\ ~SeekerHoldsLock /\ seeker # "stopped"
    BY <1>1 DEF ReaderLooks, IInv, LockInv
  <1>5. LockInv'
    BY <1>1, <1>4 DEF IInv, LockInv, SeekerHoldsLock, jsVars
  <1>6. NoLostWakeup'
    BY <1>1 DEF NoLostWakeup, NothingToDo, Available, Arrived, NoEvent
  <1>7. NoEarlyEos' /\ InOrder'
    BY <1>1 DEF IInv, NoEarlyEos, EosEvent, InOrder
  <1>8. OrderInv'
    <2>1. Going' => Going
      BY <1>0, <1>1, <1>4 DEF Going, ReaderTypes
    <2> QED BY <1>1, <1>4, <2>1 DEF IInv, OrderInv, Told, Place, Undisturbed, SeekerHoldsLock
  <1> QED BY <1>2, <1>3, <1>5, <1>6, <1>7, <1>8, TypePartsNext DEF IInv

LEMMA ReaderStopsInv == ASSUME IInv, ReaderStops PROVE IInv'
  <1> USE DEF cacheVars, seekVars
  <1>0. CacheTypes /\ SinkTypes /\ ReaderTypes /\ ReaderOut
    BY TypeParts DEF IInv
  <1>1. /\ ReaderLooks /\ srcresult # "OK"
        /\ unexpected' = (unexpected \/ Skipping)
        /\ reader' \in {"top", "paused"} /\ skip' = FALSE
        /\ UNCHANGED <<jsVars, cacheVars, segment, reported, eos, pending, srcresult,
                       instantSeek, out, seekVars, downFlushing, down, races>>
    BY DEF ReaderStops
  <1>2. /\ JsTypes' /\ CacheTypes' /\ SinkTypes' /\ SeekTypes'
        /\ SourceInv' /\ CacheInv' /\ ReportedInv'
    <2>1. unexpected' \in BOOLEAN /\ readPosition' \in Nat
      BY <1>0, <1>1 DEF CacheTypes, SinkTypes
    <2> QED BY <1>1, <2>1, ReaderFrame
  <1>3. ReaderTypes' /\ ReaderOut'
    BY <1>0, <1>1 DEF ReaderTypes, ReaderOut
  <1>4. reader \in {"top", "awake"} /\ ~SeekerHoldsLock /\ seeker # "stopped"
    BY <1>1 DEF ReaderLooks, IInv, LockInv
  <1>5. LockInv'
    BY <1>1, <1>4 DEF IInv, LockInv, SeekerHoldsLock, jsVars
  <1>6. NoLostWakeup'
    BY <1>1 DEF NoLostWakeup
  <1>7. NoEarlyEos' /\ InOrder'
    BY <1>1 DEF IInv, NoEarlyEos, EosEvent, InOrder
  <1>8. OrderInv'
    <2>1. ~Going'
      BY <1>1 DEF Going
    <2> QED BY <1>1, <1>4, <2>1 DEF IInv, OrderInv, Told, Place, Undisturbed, SeekerHoldsLock
  <1> QED BY <1>2, <1>3, <1>5, <1>6, <1>7, <1>8, TypePartsNext DEF IInv

LEMMA ReaderTakesEventInv == ASSUME IInv, ReaderTakesEvent PROVE IInv'
  <1> USE DEF cacheVars, sinkVars, seekVars
  <1>0. CacheTypes /\ SinkTypes /\ ReaderTypes /\ ReaderOut
    BY TypeParts DEF IInv
  <1>1. /\ ReaderLooks /\ srcresult = "OK" /\ pending # NoEvent
        /\ out' = pending /\ pending' = NoEvent
        /\ srcresult' = (IF pending = EosEvent THEN "EOS" ELSE "OK")
        /\ reader' = "event" /\ skip' = FALSE
        /\ UNCHANGED <<jsVars, cacheVars, sinkVars, instantSeek, seekVars, downFlushing,
                       down, races>>
    BY DEF ReaderTakesEvent
  <1>2. /\ JsTypes' /\ CacheTypes' /\ SinkTypes' /\ SeekTypes'
        /\ SourceInv' /\ CacheInv' /\ ReportedInv'
    BY <1>0, <1>1, ReaderFrame DEF CacheTypes, SinkTypes
  <1>3. /\ pending = EosEvent \/ pending \in Segment
        /\ pending.type = "segment" <=> pending \in Segment
        /\ pending.type = "eos" <=> pending = EosEvent
    BY <1>0, <1>1, PendingFacts
  <1>4. ReaderTypes' /\ ReaderOut'
    BY <1>0, <1>1, <1>3 DEF ReaderTypes, ReaderOut, Flow
  <1>5. reader \in {"top", "awake"} /\ ~SeekerHoldsLock /\ seeker # "stopped"
    BY <1>1 DEF ReaderLooks, IInv, LockInv
  <1>6. LockInv'
    BY <1>1, <1>5 DEF IInv, LockInv, SeekerHoldsLock, jsVars, EosEvent
  <1>7. NoLostWakeup' /\ InOrder'
    BY <1>1 DEF NoLostWakeup, InOrder
  <1>8. pending'.type = "none" /\ pending' # EosEvent
    BY <1>1 DEF NoEvent, EosEvent
  <1>9. NoEarlyEos'
    BY <1>8 DEF NoEarlyEos, EosEvent
  <1>10. OrderInv'
    <2>1. Told' /\ ~Going' /\ Place' = Place /\ ~SeekerHoldsLock'
      BY <1>1, <1>5, <1>8 DEF Told, Going, Place, SeekerHoldsLock
    <2>2. ASSUME Undisturbed', out'.type = "segment" PROVE out'.start = Place
      BY <1>1, <1>5, <2>2 DEF IInv, OrderInv, Told, Undisturbed, SeekerHoldsLock, Place
    <2> QED BY <1>1, <2>1, <2>2 DEF OrderInv
  <1> QED BY <1>2, <1>4, <1>6, <1>7, <1>9, <1>10, TypePartsNext DEF IInv

LEMMA ReaderPushesEventInv == ASSUME IInv, ReaderPushesEvent PROVE IInv'
  <1> USE DEF cacheVars, sinkVars, seekVars
  <1>0. CacheTypes /\ SinkTypes /\ ReaderTypes /\ ReaderOut
    BY TypeParts DEF IInv
  <1>1. /\ reader = "event"
        /\ down' = CASE downFlushing -> down
                  [] ~downFlushing /\ out = EosEvent -> [down EXCEPT !.eos = TRUE]
                  [] OTHER -> [down EXCEPT !.next = out.start]
        /\ reader' = IF out = EosEvent THEN "paused" ELSE "top"
        /\ UNCHANGED <<jsVars, cacheVars, sinkVars, pending, srcresult, instantSeek, skip,
                   seekVars, downFlushing, races>>
    BY DEF ReaderPushesEvent
  <1>2. /\ JsTypes' /\ CacheTypes' /\ SinkTypes' /\ SeekTypes'
        /\ SourceInv' /\ CacheInv' /\ ReportedInv'
    BY <1>0, <1>1, ReaderFrame DEF CacheTypes, SinkTypes
  <1>3. /\ out = EosEvent \/ out \in Segment
        /\ out \in Segment => out # EosEvent /\ out.type = "segment" /\ out.start \in Nat
    <2>1. out = EosEvent \/ out \in Segment
      BY <1>0, <1>1 DEF ReaderOut
    <2>2. out \in Segment => out.type = "segment" /\ out.start \in 0 .. Size
      BY DEF Segment
    <2>3. EosEvent.type = "eos"
      BY DEF EosEvent
    <2> QED BY <2>1, <2>2, <2>3, SizeAssumption
  <1>4. /\ down' \in [next : Nat \cup {-1}, eos : BOOLEAN]
        /\ out \in Segment /\ ~downFlushing => down'.next = out.start
    <2>1. down \in [next : Nat \cup {-1}, eos : BOOLEAN]
      BY <1>0 DEF ReaderTypes
    <2>2. CASE downFlushing
      BY <1>1, <2>1, <2>2
    <2>3. CASE ~downFlushing /\ out = EosEvent
      <3>1. down' = [down EXCEPT !.eos = TRUE]
        BY <1>1, <2>3
      <3> QED BY <1>3, <2>1, <2>3, <3>1
    <2>4. CASE ~downFlushing /\ out \in Segment
      <3>1. down' = [down EXCEPT !.next = out.start]
        BY <1>1, <1>3, <2>4
      <3> QED BY <1>3, <2>1, <2>4, <3>1
    <2> QED BY <1>3, <2>2, <2>3, <2>4
  <1>5. ReaderTypes' /\ ReaderOut'
    BY <1>0, <1>1, <1>4 DEF ReaderTypes, ReaderOut
  <1>6. LockInv'
    BY <1>1, <1>3 DEF IInv, LockInv, SeekerHoldsLock, jsVars
  <1>7. NoLostWakeup' /\ NoEarlyEos' /\ InOrder'
    BY <1>1 DEF IInv, NoLostWakeup, NoEarlyEos, EosEvent, InOrder
  <1>8. OrderInv'
    <2>1. (Told' <=> Told) /\ Place' = Place /\ ~SeekerHoldsLock /\ ~SeekerHoldsLock'
          /\ (Undisturbed' <=> Undisturbed)
      BY <1>1 DEF Told, Place, SeekerHoldsLock, Undisturbed, IInv, LockInv
    <2>2. ASSUME Undisturbed, Told, Going' PROVE down'.next = Place
      <3>1. out \in Segment /\ ~downFlushing
        BY <1>1, <1>3, <2>2 DEF Going, IInv, LockInv
      <3> QED BY <1>1, <1>3, <1>4, <2>2, <3>1 DEF IInv, OrderInv
    <2> QED BY <1>1, <2>1, <2>2 DEF IInv, OrderInv
  <1> QED BY <1>2, <1>5, <1>6, <1>7, <1>8, TypePartsNext DEF IInv

\* The read that makes a buffer of what is in the file.
LEMMA ReaderReadsInv == ASSUME IInv, ReaderReads PROVE IInv'
  <1> USE DEF cacheVars, sinkVars, seekVars
  <1>0. CacheTypes /\ SinkTypes /\ ReaderTypes /\ ReaderOut
    BY TypeParts DEF IInv
  <1>1. /\ ReaderLooks /\ srcresult = "OK" /\ pending = NoEvent /\ Available /\ instantSeek
        /\ readPosition' = readPosition + ReadLength
        /\ pending' = IF readPosition' + cacheReadOffset = segment.stop THEN EosEvent ELSE NoEvent
        /\ skip' = (skip /\ reader # "top")
        /\ UNCHANGED <<jsVars, file, writePosition, cacheReadOffset, sinkVars, srcresult,
                       instantSeek, seekVars, downFlushing, down, races>>
    BY DEF ReaderReads, ReachesStop, Skipping
  <1>2. /\ readPosition \in Nat /\ writePosition \in Nat /\ cacheReadOffset \in Nat
        /\ readPosition \in 0 .. writePosition - 1 /\ readPosition \in DOMAIN file
        /\ file[readPosition] \in 0 .. Size - 1
        /\ ReadLength \in Nat /\ readPosition' \in Nat
    <2>1. /\ readPosition \in Nat /\ writePosition \in Nat /\ cacheReadOffset \in Nat
          /\ readPosition \in 0 .. writePosition - 1
      BY <1>0, <1>1 DEF CacheTypes, Available
    <2>2. ReadLength \in Nat
      BY <2>1, BufferSizeAssumption DEF ReadLength
    <2>3. readPosition \in DOMAIN file /\ file[readPosition] \in 0 .. Size - 1
      BY <1>0, <2>1 DEF CacheTypes
    <2> QED BY <1>1, <2>1, <2>2, <2>3
  <1>3. /\ JsTypes' /\ CacheTypes' /\ SinkTypes' /\ SeekTypes'
        /\ SourceInv' /\ CacheInv' /\ ReportedInv'
    <2>1. unexpected' \in BOOLEAN
      BY <1>0, <1>1 DEF SinkTypes
    <2> QED BY <1>1, <1>2, <2>1, ReaderFrame
  <1>4. reader \in {"top", "awake"} /\ ~SeekerHoldsLock /\ seeker # "stopped"
    BY <1>1 DEF ReaderLooks, IInv, LockInv
  <1>5. Told' /\ Told /\ pending' \in {NoEvent, EosEvent}
    BY <1>1 DEF Told, NoEvent, EosEvent
  <1>6. NoEarlyEos'
    BY <1>1 DEF NoEarlyEos, NoEvent, EosEvent
  <1>7. CASE Skipping
    <2>1. reader' = "awake" /\ skip' = TRUE
      BY <1>1, <1>7 DEF ReaderReads, Skipping
    <2>2. ReaderTypes' /\ ReaderOut'
      BY <1>0, <1>1, <1>5, <2>1 DEF ReaderTypes, ReaderOut
    <2>3. LockInv'
      BY <1>1, <1>4, <2>1 DEF IInv, LockInv, SeekerHoldsLock, jsVars
    <2>4. NoLostWakeup' /\ InOrder'
      BY <2>1 DEF NoLostWakeup, InOrder
    <2>5. OrderInv'
      <3>1. ~Going' /\ ~SeekerHoldsLock'
        BY <1>1, <1>4, <2>1 DEF Going, SeekerHoldsLock
      <3> QED BY <1>5, <2>1, <3>1 DEF OrderInv
    <2> QED BY <1>3, <1>6, <2>2, <2>3, <2>4, <2>5, TypePartsNext DEF IInv
  <1>8. CASE ~Skipping
    <2>1. /\ reader' = "push" /\ skip' = FALSE
          /\ out' = [type |-> "buffer", offset |-> readPosition + cacheReadOffset,
                     length |-> ReadLength, content |-> file[readPosition],
                     intact |-> "itemDropped" \notin races]
      BY <1>0, <1>1, <1>8 DEF ReaderReads, Skipping, ReaderTypes
    <2>2. /\ out'.offset = readPosition + cacheReadOffset /\ out'.length = ReadLength
          /\ out'.content = file[readPosition]
          /\ out'.intact = ("itemDropped" \notin races)
      BY <2>1
    <2>3. ReaderOut'
      <3>1. out'.offset \in Nat /\ out'.length \in Nat /\ out'.content \in 0 .. Size - 1
        BY <1>2, <2>2
      <3>2. out'.intact \in BOOLEAN
        BY <2>2
      <3> QED BY <2>1, <3>1, <3>2 DEF ReaderOut
    <2>4. ReaderTypes'
      BY <1>0, <1>1, <1>5, <2>1 DEF ReaderTypes
    <2>5. LockInv'
      BY <1>1, <1>4, <2>1 DEF IInv, LockInv, SeekerHoldsLock, jsVars
    <2>6. NoLostWakeup'
      BY <2>1 DEF NoLostWakeup
    <2>7. InOrder'
      <3>1. ASSUME out'.intact PROVE out'.content = out'.offset
        <4>1. "itemDropped" \notin races
          BY <2>2, <3>1
        <4>2. file[readPosition] = cacheReadOffset + readPosition
          BY <1>2, <4>1 DEF IInv, CacheInv, CacheHoldsStream
        <4> QED BY <1>2, <2>2, <4>2
      <3>2. ASSUME ~downFlushing, Undisturbed PROVE out'.offset = down.next
        <4>1. Going
          BY <1>0, <1>1, <1>4, <1>8, <3>2 DEF Going, Skipping, ReaderTypes
        <4> QED BY <1>5, <2>2, <3>2, <4>1 DEF IInv, OrderInv, Place
      <3> QED BY <1>1, <3>1, <3>2 DEF InOrder, Undisturbed
    <2>8. OrderInv'
      <3>1. ~Going' /\ ~SeekerHoldsLock'
        BY <1>1, <1>4, <2>1 DEF Going, SeekerHoldsLock
      <3>2. out'.offset + out'.length = Place'
        BY <1>1, <1>2, <2>2 DEF Place
      <3> QED BY <1>5, <2>1, <3>1, <3>2 DEF OrderInv
    <2> QED BY <1>3, <1>6, <2>3, <2>4, <2>5, <2>6, <2>7, <2>8, TypePartsNext DEF IInv
  <1> QED BY <1>7, <1>8

LEMMA ReaderPushesInv == ASSUME IInv, ReaderPushes PROVE IInv'
  <1> USE DEF cacheVars, sinkVars, seekVars
  <1>0. CacheTypes /\ SinkTypes /\ ReaderTypes /\ ReaderOut
    BY TypeParts DEF IInv
  <1>1. PICK result \in Flow :
          /\ result = "FLUSHING" <=> downFlushing
          /\ down' = IF result = "OK" THEN [down EXCEPT !.next = out.offset + out.length]
                     ELSE down
          /\ out' = IF result = "EOS" THEN NoEvent ELSE [type |-> "result", result |-> result]
          /\ reader' = IF result = "EOS" THEN "awake" ELSE "store"
          /\ skip' = (result = "EOS")
    BY DEF ReaderPushes
  <1>2. /\ reader = "push"
        /\ UNCHANGED <<jsVars, cacheVars, sinkVars, pending, srcresult, instantSeek, seekVars,
                       downFlushing, races>>
    BY DEF ReaderPushes
  <1>3. /\ JsTypes' /\ CacheTypes' /\ SinkTypes' /\ SeekTypes'
        /\ SourceInv' /\ CacheInv' /\ ReportedInv'
    BY <1>0, <1>2, ReaderFrame DEF CacheTypes, SinkTypes
  <1>4. reader' # "waiting" /\ reader' # "push" /\ reader' \in {"awake", "store"}
    BY <1>1
  <1>5. /\ down' \in [next : Nat \cup {-1}, eos : BOOLEAN]
        /\ result = "OK" => down'.next = out.offset + out.length
    <2>1. /\ down \in [next : Nat \cup {-1}, eos : BOOLEAN]
          /\ out.offset + out.length \in Nat
      BY <1>0, <1>2 DEF ReaderTypes, ReaderOut
    <2> QED BY <1>1, <2>1
  <1>6. ReaderTypes'
    BY <1>0, <1>1, <1>2, <1>4, <1>5 DEF ReaderTypes
  <1>7. reader' = "store" => out'.result = result
    BY <1>1
  <1>8. ReaderOut'
    BY <1>1, <1>4, <1>7 DEF ReaderOut
  <1>9. LockInv'
    BY <1>2, <1>4 DEF IInv, LockInv, SeekerHoldsLock, jsVars
  <1>10. NoLostWakeup' /\ InOrder' /\ NoEarlyEos'
    BY <1>2, <1>4 DEF IInv, NoLostWakeup, InOrder, NoEarlyEos, EosEvent
  <1>11. OrderInv'
    <2>1. (Told' <=> Told) /\ Place' = Place /\ ~SeekerHoldsLock /\ ~SeekerHoldsLock'
          /\ (Undisturbed' <=> Undisturbed)
      BY <1>2 DEF Told, Place, SeekerHoldsLock, Undisturbed, IInv, LockInv
    <2>2. ~Going'
      BY <1>1 DEF Going
    <2>3. ASSUME Undisturbed, Told, reader' = "store", out'.result = "OK"
          PROVE  down'.next = Place
      BY <1>2, <1>5, <1>7, <2>3 DEF IInv, OrderInv
    <2> QED BY <1>2, <1>4, <2>1, <2>2, <2>3 DEF IInv, OrderInv
  <1> QED BY <1>3, <1>6, <1>8, <1>9, <1>10, <1>11, TypePartsNext DEF IInv

LEMMA ReaderStoresInv == ASSUME IInv, ReaderStores PROVE IInv'
  <1> USE DEF cacheVars, sinkVars, seekVars
  <1>0. CacheTypes /\ SinkTypes /\ ReaderTypes /\ ReaderOut
    BY TypeParts DEF IInv
  <1>1. /\ reader = "store" /\ srcresult' = out.result /\ out.result \in Flow
        /\ races' = races \/ races' = races \cup {"flushOverwritten"}
        /\ reader' = IF out.result = "OK" THEN "top" ELSE "paused"
        /\ UNCHANGED <<jsVars, cacheVars, sinkVars, pending, instantSeek, skip, seekVars,
                       downFlushing, down>>
    BY <1>0 DEF ReaderStores, ReaderOut
  <1>2. /\ JsTypes' /\ CacheTypes' /\ SinkTypes' /\ SeekTypes'
        /\ SourceInv' /\ CacheInv' /\ ReportedInv'
    <2>1. readPosition' \in Nat /\ unexpected' \in BOOLEAN
      BY <1>0, <1>1 DEF CacheTypes, SinkTypes
    <2> QED BY <1>1, <2>1, ReaderFrame
  <1>3. ReaderTypes' /\ ReaderOut'
    BY <1>0, <1>1 DEF ReaderTypes, ReaderOut
  <1>4. ~SeekerHoldsLock /\ seeker # "stopped"
    BY <1>1 DEF IInv, LockInv
  <1>5. LockInv'
    BY <1>1, <1>4 DEF IInv, LockInv, SeekerHoldsLock, jsVars
  <1>6. NoLostWakeup' /\ InOrder' /\ NoEarlyEos'
    BY <1>1 DEF IInv, NoLostWakeup, InOrder, NoEarlyEos, EosEvent
  <1>7. OrderInv'
    <2>1. (Told' <=> Told) /\ Place' = Place /\ ~SeekerHoldsLock'
          /\ (Undisturbed' <=> Undisturbed) /\ ("seekLost" \in races' <=> "seekLost" \in races)
      BY <1>1, <1>4 DEF Told, Place, SeekerHoldsLock, Undisturbed
    <2>2. ASSUME Undisturbed, Told, Going' PROVE down'.next = Place
      BY <1>1, <2>2 DEF Going, IInv, OrderInv
    <2> QED BY <1>1, <2>1, <2>2 DEF IInv, OrderInv
  <1> QED BY <1>2, <1>3, <1>5, <1>6, <1>7, TypePartsNext DEF IInv

-----------------------------------------------------------------------------
(* Seeks, and the stop *)

\* What a step of the thread that seeks leaves alone.
LEMMA SeekerFrame ==
    ASSUME IInv,
           UNCHANGED <<jsPending, jsPosition, jsUpdate, jsOut, jsReturn, file, writePosition,
                       cacheReadOffset, segment, reported, unexpected>>,
           jsPc' = jsPc \/ (jsPc # "push" /\ jsPc' = "loop"),
           jsResult' \in Flow, padFlushing' \in BOOLEAN,
           readPosition' \in Nat, eos' \in BOOLEAN, instantSeek' \in BOOLEAN,
           races' = races \/ races' = races \cup {"seekLost"},
           seek' \in 0 .. Size - 1, seeks' \in 0 .. MaxSeeks,
           seeker # "stopped",
           seeker' \in {"idle", "begun", "locking", "source", "sourceLocking", "failed",
                        "announce", "finish", "stopping"}
    PROVE  /\ JsTypes' /\ CacheTypes' /\ SinkTypes' /\ SeekTypes'
           /\ SourceInv' /\ CacheInv' /\ ReportedInv'
  <1>0. JsTypes /\ CacheTypes /\ SinkTypes /\ SeekTypes
    BY TypeParts DEF IInv
  <1>1. JsTypes'
    BY <1>0 DEF JsTypes, JsTypeOK
  <1>2. CacheTypes' /\ SinkTypes'
    BY <1>0 DEF CacheTypes, SinkTypes
  <1>3. SeekTypes'
    BY <1>0 DEF SeekTypes
  <1>4. SourceInv' /\ ReportedInv'
    BY DEF IInv, SourceInv, ReportedInv
  <1>5. "itemDropped" \in races' <=> "itemDropped" \in races
    OBVIOUS
  <1>6. CacheInv'
    BY <1>5 DEF IInv, CacheInv, CacheHoldsStream
  <1> QED BY <1>1, <1>2, <1>3, <1>4, <1>6

LEMMA SeekBeginsInv == ASSUME IInv, SeekBegins PROVE IInv'
  <1> USE DEF cacheVars, sinkVars, readerVars
  <1>0. JsTypes /\ CacheTypes /\ SinkTypes /\ ReaderTypes /\ SeekTypes /\ ReaderOut
    BY TypeParts DEF IInv
  <1>1. /\ seeker = "idle" /\ seeks < MaxSeeks /\ reader # "none"
        /\ seeker' = "begun" /\ seek' \in 0 .. Size - 1 /\ seeks' = seeks + 1
        /\ downFlushing' = TRUE
        /\ UNCHANGED <<jsVars, cacheVars, sinkVars, pending, srcresult, instantSeek,
                       readerVars, down, races>>
    BY DEF SeekBegins
  <1>2. /\ JsTypes' /\ CacheTypes' /\ SinkTypes' /\ SeekTypes'
        /\ SourceInv' /\ CacheInv' /\ ReportedInv'
    <2>1. seeks' \in 0 .. MaxSeeks
      BY <1>0, <1>1, MaxSeeksAssumption DEF SeekTypes
    <2>2. /\ jsResult' \in Flow /\ padFlushing' \in BOOLEAN /\ readPosition' \in Nat
          /\ eos' \in BOOLEAN /\ instantSeek' \in BOOLEAN
      BY <1>0, <1>1 DEF JsTypes, JsTypeOK, jsVars, CacheTypes, SinkTypes
    <2> QED BY <1>1, <2>1, <2>2, SeekerFrame DEF jsVars
  <1>3. ReaderTypes' /\ ReaderOut'
    BY <1>0, <1>1 DEF ReaderTypes, ReaderOut
  <1>4. LockInv'
    BY <1>1 DEF IInv, LockInv, SeekerHoldsLock, jsVars
  <1>5. NoLostWakeup'
    BY <1>1 DEF IInv, NoLostWakeup, Available, Arrived, NoEvent
  <1>6. NoEarlyEos' /\ InOrder'
    BY <1>1 DEF IInv, NoEarlyEos, EosEvent, InOrder
  <1>7. OrderInv'
    <2>1. ~Going' /\ ~SeekerHoldsLock'
      BY <1>1 DEF Going, SeekerHoldsLock
    <2> QED BY <1>1, <2>1 DEF IInv, OrderInv, Told, Place, Undisturbed
  <1> QED BY <1>2, <1>3, <1>4, <1>5, <1>6, <1>7, TypePartsNext DEF IInv

\* Both a seek and a stop tell the reader to pause and wake it up.
LEMMA TellReader ==
    ASSUME IInv, Signal, srcresult' = "FLUSHING", downFlushing' = TRUE,
           seeker \in {"idle", "begun"},
           seeker' \in {"locking", "stopping"},
           reader = "none" => seeker' = "stopping",
           UNCHANGED <<jsVars, cacheVars, sinkVars, pending, instantSeek, skip, out, seek,
                       seeks, down, races>>
    PROVE  IInv'
  <1> USE DEF cacheVars, sinkVars
  <1>0. JsTypes /\ CacheTypes /\ SinkTypes /\ ReaderTypes /\ SeekTypes /\ ReaderOut
    BY TypeParts DEF IInv
  <1>1. /\ JsTypes' /\ CacheTypes' /\ SinkTypes' /\ SeekTypes'
        /\ SourceInv' /\ CacheInv' /\ ReportedInv'
    <2>1. seek' \in 0 .. Size - 1 /\ seeks' \in 0 .. MaxSeeks
      BY <1>0 DEF SeekTypes
    <2>2. /\ jsResult' \in Flow /\ padFlushing' \in BOOLEAN /\ readPosition' \in Nat
          /\ eos' \in BOOLEAN /\ instantSeek' \in BOOLEAN
      BY <1>0 DEF JsTypes, JsTypeOK, jsVars, CacheTypes, SinkTypes
    <2> QED BY <2>1, <2>2, SeekerFrame DEF jsVars
  <1>2. reader' # "waiting" /\ (reader' = reader \/ (reader = "waiting" /\ reader' = "awake"))
    BY SignalFacts
  <1>3. ReaderTypes' /\ ReaderOut'
    BY <1>0, <1>2 DEF ReaderTypes, ReaderOut, Flow
  <1>4. LockInv'
    BY <1>2 DEF IInv, LockInv, SeekerHoldsLock, jsVars
  <1>5. NoLostWakeup'
    BY <1>2 DEF NoLostWakeup
  <1>6. NoEarlyEos' /\ InOrder'
    BY <1>2 DEF IInv, NoEarlyEos, EosEvent, InOrder
  <1>7. OrderInv'
    <2>1. ~Going' /\ ~SeekerHoldsLock'
      BY DEF Going, SeekerHoldsLock
    <2> QED BY <1>2, <2>1 DEF IInv, OrderInv, Told, Place, Undisturbed
  <1> QED BY <1>1, <1>3, <1>4, <1>5, <1>6, <1>7, TypePartsNext DEF IInv

LEMMA SeekSignalsInv == ASSUME IInv, SeekSignals PROVE IInv'
  <1>1. reader # "none" /\ downFlushing
    BY DEF SeekSignals, IInv, LockInv
  <1>2. downFlushing' = TRUE
    BY <1>1, TypeParts DEF SeekSignals, IInv, ReaderTypes
  <1> QED BY <1>1, <1>2, TellReader DEF SeekSignals

LEMMA StopBeginsInv == ASSUME IInv, StopBegins PROVE IInv'
  BY TellReader DEF StopBegins

\* The seek has the stream lock: it is done at once, or goes to the source.
LEMMA SeekLocksInv == ASSUME IInv, SeekLocks PROVE IInv'
  <1> USE DEF cacheVars, sinkVars, readerVars
  <1>0. JsTypes /\ CacheTypes /\ SinkTypes /\ ReaderTypes /\ SeekTypes /\ ReaderOut
    BY TypeParts DEF IInv
  <1>1. /\ seeker = "locking" /\ StreamLockFree /\ srcresult' = "OK"
        /\ UNCHANGED <<jsVars, file, writePosition, cacheReadOffset, segment, reported,
                       unexpected, readerVars, seek, seeks, downFlushing, down, races>>
    BY DEF SeekLocks
  <1>2. /\ seek \in Nat /\ seek \in 0 .. Size /\ cacheReadOffset \in Nat /\ readPosition \in Nat
        /\ segment.start = cacheReadOffset
    BY <1>0, <1>1, SizeAssumption DEF SeekTypes, CacheTypes, IInv, CacheInv
  <1>3. \/ /\ instantSeek' = TRUE /\ pending' = SegmentEvent(seek) /\ seeker' = "finish"
           /\ eos' = eos /\ readPosition' = seek - cacheReadOffset /\ readPosition' \in Nat
        \/ /\ instantSeek' = FALSE /\ pending' = NoEvent /\ seeker' = "source"
           /\ eos' = FALSE /\ readPosition' = readPosition
    <2>1. PICK instant \in BOOLEAN :
             /\ instant => seek >= segment.start
             /\ instantSeek' = instant
             /\ IF instant
                THEN /\ SetReadPosition(seek - cacheReadOffset)
                     /\ pending' = SegmentEvent(seek)
                     /\ seeker' = "finish"
                     /\ UNCHANGED eos
                ELSE /\ eos' = FALSE
                     /\ pending' = NoEvent
                     /\ seeker' = "source"
                     /\ UNCHANGED readPosition
      BY DEF SeekLocks
    <2>2. CASE instant = TRUE
      <3>1. SetReadPosition(seek - cacheReadOffset) /\ seek >= cacheReadOffset
        BY <1>2, <2>1, <2>2
      <3>2. readPosition' = seek - cacheReadOffset /\ readPosition' \in Nat
        BY <1>2, <3>1 DEF SetReadPosition
      <3> QED BY <2>1, <2>2, <3>2
    <2>3. CASE instant = FALSE
      BY <2>1, <2>3
    <2> QED BY <2>1, <2>2, <2>3
  <1>4. /\ JsTypes' /\ CacheTypes' /\ SinkTypes' /\ SeekTypes'
        /\ SourceInv' /\ CacheInv' /\ ReportedInv'
    <2>1. seek' \in 0 .. Size - 1 /\ seeks' \in 0 .. MaxSeeks
      BY <1>0, <1>1 DEF SeekTypes
    <2>2. jsResult' \in Flow /\ padFlushing' \in BOOLEAN
      BY <1>0, <1>1 DEF JsTypes, JsTypeOK, jsVars
    <2>3. readPosition' \in Nat /\ eos' \in BOOLEAN /\ instantSeek' \in BOOLEAN
      BY <1>0, <1>2, <1>3 DEF SinkTypes
    <2>4. seeker' \in {"source", "finish"}
      BY <1>3
    <2> QED BY <1>1, <2>1, <2>2, <2>3, <2>4, SeekerFrame DEF jsVars
  <1>5. /\ pending' = NoEvent \/ pending' = SegmentEvent(seek)
        /\ NoEvent.type = "none" /\ EosEvent.type = "eos"
        /\ SegmentEvent(seek) \in Segment
        /\ SegmentEvent(seek).type = "segment" /\ SegmentEvent(seek).start = seek
    BY <1>2, <1>3, SegmentFacts DEF NoEvent, EosEvent
  <1>6. reader \in {"top", "paused"} /\ reader' = reader
    BY <1>1 DEF StreamLockFree, IInv, LockInv
  <1>7. ReaderTypes' /\ ReaderOut'
    <2>1. pending' \in {NoEvent, EosEvent} \cup [type : {"segment"}, start : 0 .. Size]
      BY <1>5 DEF Segment
    <2> QED BY <1>0, <1>1, <1>6, <2>1 DEF ReaderTypes, ReaderOut, Flow
  <1>8. LockInv'
    <2>1. seeker' \in {"source", "finish"}
      BY <1>3
    <2> QED BY <1>1, <1>6, <2>1 DEF IInv, LockInv, SeekerHoldsLock, jsVars
  <1>9. NoLostWakeup' /\ InOrder'
    BY <1>6 DEF NoLostWakeup, InOrder
  <1>10. NoEarlyEos'
    <2>1. pending' # EosEvent
      BY <1>5
    <2> QED BY <2>1 DEF NoEarlyEos, EosEvent
  <1>11. OrderInv'
    <2>1. ~Going'
      BY <1>1 DEF Going, IInv, LockInv
    <2>2. ~Told' => pending'.start = Place'
      <3>1. ASSUME ~Told'
            PROVE  pending'.start = seek /\ readPosition' = seek - cacheReadOffset
        BY <1>3, <1>5, <3>1 DEF Told
      <3>2. cacheReadOffset' = cacheReadOffset
        BY <1>1
      <3> QED BY <1>2, <3>1, <3>2 DEF Place
    <2>3. instantSeek' => ~Told'
      BY <1>3, <1>5 DEF Told
    <2>4. pending'.type # "eos"
      BY <1>5
    <2> QED BY <1>6, <2>1, <2>2, <2>3, <2>4 DEF OrderInv
  <1> QED BY <1>4, <1>7, <1>8, <1>9, <1>10, <1>11, TypePartsNext DEF IInv

\* A step that leaves all but the source and the place of the seeker alone.
LEMMA SeekerMoves ==
    ASSUME IInv, seeker \in {"source", "sourceLocking"},
           seeker' \in {"sourceLocking", "failed", "finish"},
           UNCHANGED <<jsPending, jsPosition, jsUpdate, jsOut, jsReturn>>,
           jsPc' = jsPc \/ (jsPc # "push" /\ jsPc' = "loop"),
           jsResult' \in Flow, padFlushing' \in BOOLEAN,
           UNCHANGED <<cacheVars, sinkVars, pending, srcresult, instantSeek, readerVars,
                       seek, seeks, downFlushing, down, races>>
    PROVE  IInv'
  <1> USE DEF cacheVars, sinkVars, readerVars
  <1>0. JsTypes /\ CacheTypes /\ SinkTypes /\ ReaderTypes /\ SeekTypes /\ ReaderOut
    BY TypeParts DEF IInv
  <1>2. /\ JsTypes' /\ CacheTypes' /\ SinkTypes' /\ SeekTypes'
        /\ SourceInv' /\ CacheInv' /\ ReportedInv'
    <2>1. seek' \in 0 .. Size - 1 /\ seeks' \in 0 .. MaxSeeks
      BY <1>0 DEF SeekTypes
    <2>2. readPosition' \in Nat /\ eos' \in BOOLEAN /\ instantSeek' \in BOOLEAN
      BY <1>0 DEF CacheTypes, SinkTypes
    <2> QED BY <2>1, <2>2, SeekerFrame
  <1>3. ReaderTypes' /\ ReaderOut'
    BY <1>0 DEF ReaderTypes, ReaderOut
  <1>4. reader \in {"top", "paused"}
    BY DEF IInv, LockInv, SeekerHoldsLock
  <1>5. LockInv'
    BY <1>4 DEF IInv, LockInv, SeekerHoldsLock
  <1>6. NoLostWakeup' /\ NoEarlyEos' /\ InOrder'
    BY <1>4 DEF IInv, NoLostWakeup, NoEarlyEos, EosEvent, InOrder
  <1>7. OrderInv'
    <2>1. ~Going'
      BY DEF Going, IInv, LockInv
    <2> QED BY <1>4, <2>1 DEF IInv, OrderInv, Told, Place, Undisturbed, SeekerHoldsLock
  <1> QED BY <1>2, <1>3, <1>5, <1>6, <1>7, TypePartsNext DEF IInv

LEMMA SeekIsOvertakenInv == ASSUME IInv, SeekIsOvertaken PROVE IInv'
  <1>1. JsTypes
    BY TypeParts DEF IInv
  <1>2. jsResult' \in Flow /\ padFlushing' \in BOOLEAN
    BY <1>1 DEF SeekIsOvertaken, JsTypes, JsTypeOK, jsVars
  <1> QED BY <1>2, SeekerMoves DEF SeekIsOvertaken, jsVars

LEMMA SeekGoesUpstreamInv == ASSUME IInv, SeekGoesUpstream PROVE IInv'
  <1>1. JsTypes
    BY TypeParts DEF IInv
  <1>2. jsResult' \in Flow /\ padFlushing' \in BOOLEAN
    BY <1>1 DEF SeekGoesUpstream, SourceSeekBegins, JsTypes, JsTypeOK, Flow
  <1> QED BY <1>2, SeekerMoves DEF SeekGoesUpstream, SourceSeekBegins

\* The source goes on, at the new place or where it was.
LEMMA SeekReturnsInv == ASSUME IInv, SeekReturnsFromSource PROVE IInv'
  <1> USE DEF cacheVars, sinkVars, readerVars
  <1>0. JsTypes /\ CacheTypes /\ SinkTypes /\ ReaderTypes /\ SeekTypes /\ ReaderOut
    BY TypeParts DEF IInv
  <1>1. /\ seeker = "sourceLocking"
        /\ UNCHANGED <<cacheVars, sinkVars, pending, srcresult, instantSeek, readerVars,
                       seek, seeks, downFlushing, down, races>>
    BY DEF SeekReturnsFromSource
  <1>2. /\ jsPc # "push" /\ jsPc' = "loop" /\ jsResult' = "OK" /\ padFlushing' = FALSE
        /\ jsOut' = jsOut /\ jsReturn' = jsReturn /\ jsOut = Nothing
    BY DEF SeekReturnsFromSource, SourceSeeks, SourceLockFree, IInv, SourceInv
  <1>3. PICK ok \in BOOLEAN : SourceSeeks(seek, ok) /\ seeker' = IF ok THEN "finish" ELSE "failed"
    BY DEF SeekReturnsFromSource
  <1>4. CASE ok = FALSE
    <2>1. UNCHANGED <<jsPending, jsPosition, jsUpdate>> /\ seeker' = "failed"
      BY <1>3, <1>4 DEF SourceSeeks
    <2>2. jsResult' \in Flow /\ padFlushing' \in BOOLEAN
      BY <1>2 DEF Flow
    <2> QED BY <1>1, <1>2, <2>1, <2>2, SeekerMoves
  <1>5. CASE ok = TRUE
    <2>1. jsPending' = "SEGMENT" /\ jsPosition' = seek /\ jsUpdate' = FALSE /\ seeker' = "finish"
      BY <1>3, <1>5 DEF SourceSeeks
    <2>2. jsOut'.type = "nothing" /\ seek \in 0 .. Size
      BY <1>0, <1>2, SizeAssumption DEF Nothing, SeekTypes
    <2>3. JsTypes'
      <3>1. jsPosition' \in 0 .. Size /\ jsPosition' \in Nat
        BY <2>1, <2>2, SizeAssumption
      <3>2. jsPending' \in {"STREAM_START", "SEGMENT", "EOS", "UNKNOWN"} /\ jsUpdate' \in BOOLEAN
        BY <2>1
      <3>3. jsResult' \in Flow /\ padFlushing' \in BOOLEAN /\ jsReturn' \in Flow
        BY <1>0, <1>2 DEF JsTypes, JsTypeOK, Flow
      <3> QED BY <1>2, <2>2, <3>1, <3>2, <3>3 DEF JsTypes, JsTypeOK
    <2>4. CacheTypes' /\ SinkTypes' /\ SeekTypes'
      BY <1>0, <1>1, <2>1 DEF CacheTypes, SinkTypes, SeekTypes
    <2>5. ReaderTypes' /\ ReaderOut'
      BY <1>0, <1>1 DEF ReaderTypes, ReaderOut
    <2>6. SourceInv' /\ ReportedInv'
      BY <1>1, <1>2, <2>1, <2>2 DEF IInv, SourceInv, ReportedInv
    <2>7. CacheInv'
      BY <1>1, <2>1 DEF IInv, CacheInv, CacheHoldsStream
    <2>8. reader \in {"top", "paused"} /\ reader' = reader
      BY <1>1 DEF IInv, LockInv, SeekerHoldsLock
    <2>9. LockInv'
      BY <1>1, <2>1, <2>8 DEF IInv, LockInv, SeekerHoldsLock
    <2>10. NoLostWakeup' /\ NoEarlyEos' /\ InOrder'
      BY <1>1, <2>8 DEF IInv, NoLostWakeup, NoEarlyEos, EosEvent, InOrder
    <2>11. OrderInv'
      <3>1. ~Going'
        BY <1>1 DEF Going, IInv, LockInv
      <3> QED BY <1>1, <2>1, <2>8, <3>1 DEF IInv, OrderInv, Told, Place, Undisturbed, SeekerHoldsLock
    <2> QED BY <2>3, <2>4, <2>5, <2>6, <2>7, <2>9, <2>10, <2>11, TypePartsNext DEF IInv
  <1> QED BY <1>3, <1>4, <1>5

\* Without the mutex: the read position is moved within the cache, ...
LEMMA SeekFallsBackInv == ASSUME IInv, SeekFallsBack PROVE IInv'
  <1> USE DEF sinkVars, readerVars
  <1>0. JsTypes /\ CacheTypes /\ SinkTypes /\ ReaderTypes /\ SeekTypes /\ ReaderOut
    BY TypeParts DEF IInv
  <1>1. /\ seeker = "failed" /\ seeker' = "announce" /\ instantSeek' = TRUE
        /\ UNCHANGED <<jsVars, file, writePosition, cacheReadOffset, sinkVars, pending, srcresult,
                       readerVars, seek, seeks, downFlushing, down, races>>
    BY DEF SeekFallsBack
  <1>2. readPosition' \in Nat
    <2>1. seek \in Nat /\ cacheReadOffset \in Nat /\ readPosition \in Nat
      BY <1>0, SizeAssumption DEF SeekTypes, CacheTypes
    <2> QED BY <2>1 DEF SeekFallsBack, SetReadPosition
  <1>3. /\ JsTypes' /\ CacheTypes' /\ SinkTypes' /\ SeekTypes'
        /\ SourceInv' /\ CacheInv' /\ ReportedInv'
    <2>1. seek' \in 0 .. Size - 1 /\ seeks' \in 0 .. MaxSeeks
      BY <1>0, <1>1 DEF SeekTypes
    <2>2. jsResult' \in Flow /\ padFlushing' \in BOOLEAN /\ eos' \in BOOLEAN /\ instantSeek' \in BOOLEAN
      BY <1>0, <1>1 DEF JsTypes, JsTypeOK, jsVars, SinkTypes
    <2> QED BY <1>1, <1>2, <2>1, <2>2, SeekerFrame DEF jsVars
  <1>4. ReaderTypes' /\ ReaderOut'
    BY <1>0, <1>1 DEF ReaderTypes, ReaderOut
  <1>5. reader \in {"top", "paused"} /\ reader' = reader
    BY <1>1 DEF IInv, LockInv, SeekerHoldsLock
  <1>6. LockInv'
    BY <1>1, <1>5 DEF IInv, LockInv, SeekerHoldsLock, jsVars
  <1>7. NoLostWakeup' /\ InOrder'
    BY <1>5 DEF NoLostWakeup, InOrder
  <1>8. pending'.type # "eos" /\ pending' # EosEvent
    BY <1>1 DEF IInv, OrderInv, SeekerHoldsLock, EosEvent
  <1>9. NoEarlyEos'
    BY <1>8 DEF NoEarlyEos, EosEvent
  <1>10. OrderInv'
    <2>1. ~Going'
      BY <1>1 DEF Going, IInv, LockInv
    <2> QED BY <1>1, <1>5, <1>8, <2>1 DEF OrderInv
  <1> QED BY <1>3, <1>4, <1>6, <1>7, <1>9, <1>10, TypePartsNext DEF IInv

\* ... and the new place is announced, unless it got lost.
LEMMA SeekAnnouncesInv == ASSUME IInv, SeekAnnounces PROVE IInv'
  <1> USE DEF cacheVars, sinkVars, readerVars
  <1>0. JsTypes /\ CacheTypes /\ SinkTypes /\ ReaderTypes /\ SeekTypes /\ ReaderOut
    BY TypeParts DEF IInv
  <1>1. /\ seeker = "announce" /\ seeker' = "finish" /\ pending' = SegmentEvent(seek)
        /\ UNCHANGED <<jsVars, cacheVars, sinkVars, srcresult, instantSeek, readerVars, seek,
                       seeks, downFlushing, down>>
    BY DEF SeekAnnounces
  <1>2. /\ races' = races \/ races' = races \cup {"seekLost"}
        /\ "seekLost" \notin races' => Place = seek
    BY DEF SeekAnnounces, Place
  <1>3. /\ JsTypes' /\ CacheTypes' /\ SinkTypes' /\ SeekTypes'
        /\ SourceInv' /\ CacheInv' /\ ReportedInv'
    <2>1. seek' \in 0 .. Size - 1 /\ seeks' \in 0 .. MaxSeeks
      BY <1>0, <1>1 DEF SeekTypes
    <2>2. /\ jsResult' \in Flow /\ padFlushing' \in BOOLEAN /\ readPosition' \in Nat
          /\ eos' \in BOOLEAN /\ instantSeek' \in BOOLEAN
      BY <1>0, <1>1 DEF JsTypes, JsTypeOK, jsVars, CacheTypes, SinkTypes
    <2> QED BY <1>1, <1>2, <2>1, <2>2, SeekerFrame DEF jsVars
  <1>4. /\ pending' \in Segment /\ pending'.type = "segment" /\ pending'.start = seek
        /\ pending' # EosEvent
    <2>1. seek \in 0 .. Size
      BY <1>0, SizeAssumption DEF SeekTypes
    <2> QED BY <1>1, <2>1, SegmentFacts DEF EosEvent
  <1>5. ReaderTypes' /\ ReaderOut'
    <2>1. pending' \in {NoEvent, EosEvent} \cup [type : {"segment"}, start : 0 .. Size]
      BY <1>4 DEF Segment
    <2> QED BY <1>0, <1>1, <2>1 DEF ReaderTypes, ReaderOut
  <1>6. reader \in {"top", "paused"} /\ reader' = reader
    BY <1>1 DEF IInv, LockInv, SeekerHoldsLock
  <1>7. LockInv'
    BY <1>1, <1>6 DEF IInv, LockInv, SeekerHoldsLock, jsVars
  <1>8. NoLostWakeup' /\ NoEarlyEos' /\ InOrder'
    BY <1>4, <1>6 DEF NoLostWakeup, InOrder, NoEarlyEos, EosEvent
  <1>9. OrderInv'
    <2>1. ~Told'
      BY <1>4 DEF Told
    <2>2. "seekLost" \notin races' => pending'.start = Place'
      BY <1>1, <1>2, <1>4 DEF Place
    <2> QED BY <1>4, <2>1, <2>2 DEF OrderInv
  <1> QED BY <1>3, <1>5, <1>7, <1>8, <1>9, TypePartsNext DEF IInv

LEMMA SeekFinishesInv == ASSUME IInv, SeekFinishes PROVE IInv'
  <1> USE DEF cacheVars, sinkVars
  <1>0. JsTypes /\ CacheTypes /\ SinkTypes /\ ReaderTypes /\ SeekTypes /\ ReaderOut
    BY TypeParts DEF IInv
  <1>1. /\ seeker = "finish" /\ seeker' = "idle" /\ reader' = "top"
        /\ downFlushing' = FALSE /\ down' = [next |-> -1, eos |-> FALSE]
        /\ UNCHANGED <<jsVars, cacheVars, sinkVars, pending, srcresult, instantSeek, skip, out,
                       seek, seeks, races>>
    BY DEF SeekFinishes
  <1>2. /\ JsTypes' /\ CacheTypes' /\ SinkTypes' /\ SeekTypes'
        /\ SourceInv' /\ CacheInv' /\ ReportedInv'
    <2>1. seek' \in 0 .. Size - 1 /\ seeks' \in 0 .. MaxSeeks
      BY <1>0, <1>1 DEF SeekTypes
    <2>2. /\ jsResult' \in Flow /\ padFlushing' \in BOOLEAN /\ readPosition' \in Nat
          /\ eos' \in BOOLEAN /\ instantSeek' \in BOOLEAN
      BY <1>0, <1>1 DEF JsTypes, JsTypeOK, jsVars, CacheTypes, SinkTypes
    <2> QED BY <1>1, <2>1, <2>2, SeekerFrame DEF jsVars
  <1>3. ReaderTypes' /\ ReaderOut'
    <2>1. down' \in [next : Nat \cup {-1}, eos : BOOLEAN]
      BY <1>1
    <2> QED BY <1>0, <1>1, <2>1 DEF ReaderTypes, ReaderOut
  <1>4. LockInv'
    BY <1>1 DEF LockInv, SeekerHoldsLock
  <1>5. NoLostWakeup' /\ NoEarlyEos' /\ InOrder'
    BY <1>1 DEF IInv, NoLostWakeup, NoEarlyEos, EosEvent, InOrder
  <1>6. OrderInv'
    <2>1. ASSUME Undisturbed', Told' PROVE ~Going'
      BY <1>1, <2>1 DEF IInv, OrderInv, SeekerHoldsLock, Undisturbed, Told, Going
    <2>2. ~SeekerHoldsLock'
      BY <1>1 DEF SeekerHoldsLock
    <2> QED BY <1>1, <2>1, <2>2 DEF IInv, OrderInv, Told, Place
  <1> QED BY <1>2, <1>3, <1>4, <1>5, <1>6, TypePartsNext DEF IInv

LEMMA StopEndsInv == ASSUME IInv, StopEnds PROVE IInv'
  <1> USE DEF cacheVars
  <1>0. JsTypes /\ CacheTypes /\ SinkTypes /\ ReaderTypes /\ SeekTypes /\ ReaderOut
    BY TypeParts DEF IInv
  <1>1. /\ seeker = "stopping" /\ seeker' = "stopped" /\ reader' = "gone" /\ pending' = NoEvent
        /\ reported' = 0 /\ segment' = [start |-> 0, position |-> 0, stop |-> Size]
        /\ jsResult' = "FLUSHING" /\ padFlushing' = TRUE
        /\ UNCHANGED <<jsPending, jsPosition, jsUpdate, jsPc, jsOut, jsReturn>>
        /\ UNCHANGED <<cacheVars, eos, unexpected, srcresult, instantSeek, skip, out, seek,
                       seeks, downFlushing, down, races>>
    BY DEF StopEnds, SourceStops
  <1>2. JsTypes'
    BY <1>0, <1>1 DEF JsTypes, JsTypeOK, Flow
  <1>3. CacheTypes' /\ SeekTypes'
    BY <1>0, <1>1 DEF CacheTypes, SeekTypes
  <1>4. SinkTypes'
    <2>1. /\ segment' \in [start : 0 .. Size, position : 0 .. Size, stop : 0 .. Size]
          /\ reported' \in 0 .. Size
      BY <1>1, SizeAssumption
    <2> QED BY <1>0, <1>1, <2>1 DEF SinkTypes
  <1>5. ReaderTypes' /\ ReaderOut'
    BY <1>0, <1>1 DEF ReaderTypes, ReaderOut
  <1>6. SourceInv'
    BY <1>1 DEF IInv, SourceInv
  <1>7. CacheInv' /\ ReportedInv'
    <2>1. segment'.stop = Size /\ ~ (Size < Size)
      BY <1>1, SizeAssumption
    <2> QED BY <1>1, <2>1 DEF IInv, CacheInv, CacheHoldsStream, ReportedInv
  <1>8. LockInv'
    BY <1>1 DEF IInv, LockInv, SeekerHoldsLock
  <1>9. NoLostWakeup' /\ NoEarlyEos' /\ InOrder'
    BY <1>1 DEF NoLostWakeup, NoEarlyEos, NoEvent, EosEvent, InOrder
  <1>10. OrderInv'
    <2>1. Told' /\ ~Going' /\ ~SeekerHoldsLock'
      BY <1>1 DEF Told, NoEvent, Going, SeekerHoldsLock
    <2> QED BY <1>1, <2>1 DEF OrderInv
  <1> QED BY <1>2, <1>3, <1>4, <1>5, <1>6, <1>7, <1>8, <1>9, <1>10, TypePartsNext DEF IInv

-----------------------------------------------------------------------------
(* The invariant *)

LEMMA InitIInv == ASSUME Init PROVE IInv
  <1> USE DEF Init, JsInit
  <1>1. Nothing.type = "nothing" /\ NoEvent.type = "none" /\ NoEvent # EosEvent
    BY DEF Nothing, NoEvent, EosEvent
  <1>2. /\ segment.start = 0 /\ segment.position = 0 /\ segment.stop = Size
        /\ segment \in [start : 0 .. Size, position : 0 .. Size, stop : 0 .. Size]
    BY SizeAssumption
  <1>3. TypeInv
    <2>1. JsTypes
      <3>1. jsPosition \in 0 .. Size /\ jsPosition \in Nat /\ jsUpdate \in BOOLEAN
        BY SizeAssumption
      <3>2. JsTypeOK
        BY <1>1, <3>1 DEF JsTypeOK, Flow
      <3> QED BY <1>1, <3>1, <3>2 DEF JsTypes
    <2>2. CacheTypes
      <3>1. file \in [DOMAIN file -> 0 .. Size - 1] /\ 0 .. writePosition - 1 = {}
        BY DEF NewFile
      <3> QED BY <3>1, SizeAssumption DEF CacheTypes
    <2>3. SinkTypes
      BY <1>2, SizeAssumption DEF SinkTypes
    <2>4. ReaderTypes /\ ReaderOut
      BY DEF ReaderTypes, ReaderOut, Flow
    <2>5. SeekTypes
      BY SizeAssumption, MaxSeeksAssumption DEF SeekTypes
    <2> QED BY <2>1, <2>2, <2>3, <2>4, <2>5, TypeParts
  <1>4. SourceInv
    BY <1>1 DEF SourceInv
  <1>5. LockInv
    BY DEF LockInv, SeekerHoldsLock
  <1>6. CacheInv /\ ReportedInv
    BY <1>2, SizeAssumption DEF CacheInv, CacheHoldsStream, ReportedInv
  <1>7. NoLostWakeup /\ NoEarlyEos /\ InOrder
    BY <1>1 DEF NoLostWakeup, NoEarlyEos, InOrder
  <1>8. OrderInv
    <2>1. Told /\ ~Going /\ ~SeekerHoldsLock
      BY <1>1 DEF Told, Going, SeekerHoldsLock
    <2> QED BY <2>1 DEF OrderInv
  <1> QED BY <1>3, <1>4, <1>5, <1>6, <1>7, <1>8 DEF IInv

LEMMA NextIInv == ASSUME IInv, [Next]_vars PROVE IInv'
  <1>1. CASE Quiet
    BY <1>1, QuietInv
  <1>2. CASE Chain \/ SinkSegment \/ SinkEos
    BY <1>2, ChainInv, SinkSegmentInv, SinkEosInv
  <1>3. CASE Reader
    BY <1>3, ReaderWaitsInv, ReaderStopsInv, ReaderTakesEventInv, ReaderPushesEventInv,
       ReaderReadsInv, ReaderPushesInv, ReaderStoresInv DEF Reader
  <1>4. CASE Seeker
    BY <1>4, SeekSignalsInv, SeekLocksInv, SeekIsOvertakenInv, SeekGoesUpstreamInv,
       SeekReturnsInv, SeekFallsBackInv, SeekAnnouncesInv, SeekFinishesInv, StopEndsInv
       DEF Seeker
  <1>5. CASE SeekBegins \/ StopBegins
    BY <1>5, SeekBeginsInv, StopBeginsInv
  <1>6. CASE UNCHANGED vars
    <2> USE <1>6 DEF vars, jsVars, cacheVars, sinkVars, readerVars, seekVars
    <2>1. JsTypes /\ CacheTypes /\ SinkTypes /\ ReaderTypes /\ SeekTypes /\ ReaderOut
      BY TypeParts DEF IInv
    <2>2. JsTypes' /\ CacheTypes' /\ SinkTypes' /\ SeekTypes'
      BY <2>1 DEF JsTypes, JsTypeOK, CacheTypes, SinkTypes, SeekTypes
    <2>3. ReaderTypes' /\ ReaderOut'
      BY <2>1 DEF ReaderTypes, ReaderOut
    <2>4. SourceInv' /\ LockInv' /\ CacheInv' /\ ReportedInv'
      BY DEF IInv, SourceInv, LockInv, SeekerHoldsLock, CacheInv, CacheHoldsStream, ReportedInv
    <2>5. NoLostWakeup' /\ NoEarlyEos' /\ InOrder'
      BY DEF IInv, NoLostWakeup, Available, Arrived, NoEarlyEos, EosEvent, InOrder
    <2>6. OrderInv'
      BY DEF IInv, OrderInv, Told, Place, Undisturbed, Going, SeekerHoldsLock
    <2> QED BY <2>2, <2>3, <2>4, <2>5, <2>6, TypePartsNext DEF IInv
  <1> QED BY <1>1, <1>2, <1>3, <1>4, <1>5, <1>6 DEF Next, Source, Quiet

LEMMA Invariance == Spec => []IInv
  <1>1. Init => IInv
    BY InitIInv
  <1>2. IInv /\ [Next]_vars => IInv'
    BY NextIInv
  <1> QED BY <1>1, <1>2, PTL DEF Spec

-----------------------------------------------------------------------------
(* Theorems *)

\* The fields of the element and of the cache keep their types: positions stay
\* within the stream, and the file has a block at every position below the one
\* of its write handle.
THEOREM TypeCorrect == Spec => []TypeOK
  <1>1. IInv => TypeOK
    BY DEF IInv, TypeInv
  <1> QED BY <1>1, Invariance, PTL

\* Through any number of seeks, truncated downloads and rewinds, position i of
\* the file holds the block that belongs at cache_read_offset + i of the stream,
\* unless the source has gone on from a block or segment that never arrived.
THEOREM CacheIsFaithful == Spec => []CacheHoldsStream
  <1>1. IInv => CacheHoldsStream
    BY DEF IInv, CacheInv
  <1> QED BY <1>1, Invariance, PTL

\* Whatever the threshold of position messages, a reader asleep on add_cond has
\* not missed a signal that was meant for it (progress_buffer_enqueue_item only
\* signals with a message).
THEOREM WakeupsAreNotLost == Spec => []NoLostWakeup
  <1>1. IInv => NoLostWakeup
    BY DEF IInv
  <1> QED BY <1>1, Invariance, PTL

\* However the source, the reader and a seek interleave, the elements behind the
\* buffer get the data in order, behind the segment event that announces it, and
\* each buffer holds what belongs at its offset.
THEOREM StreamStaysInOrder == Spec => []InOrder
  <1>1. IInv => InOrder
    BY DEF IInv
  <1> QED BY <1>1, Invariance, PTL

\* progress_buffer_loop queues EOS only behind the last block of the segment, and
\* neither new data nor a seek leaves an EOS pending that has become wrong.
THEOREM EosIsNotEarly == Spec => []NoEarlyEos
  <1>1. IInv => NoEarlyEos
    BY DEF IInv
  <1> QED BY <1>1, Invariance, PTL

=============================================================================
