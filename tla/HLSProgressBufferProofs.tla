----------------------- MODULE HLSProgressBufferProofs -----------------------
(***************************************************************************)
(* Proofs about HLSProgressBuffer, for playlists and segments of any       *)
(* length, rings of any size and any number of seeks.                      *)
(***************************************************************************)
EXTENDS HLSProgressBuffer, SequenceTheorems, TLAPS

-----------------------------------------------------------------------------
(* The inductive invariant *)

\* The blocks of the stream, in which every block has a number.
Stream == [segment : 0 .. Segments - 1, block : 0 .. Blocks - 1]

OutTypes ==
    /\ content \in [Caches -> Seq(Stream)]
    /\ playlist.block < Blocks => playlist.segment > 0
    /\ jsOut.type = "buffer" => [segment |-> jsOut.segment, block |-> jsOut.block] \in Stream
    /\ reader = "push" => out.block \in Stream
    /\ reader = "store" => out.result \in Flow

TypeInv == TypeOK /\ OutTypes

\* Where the source thread is, and what it is about to push.
SourceInv ==
    /\ jsPc # "push" => jsOut = Nothing
    /\ jsOut.type = "stream-start" => jsPending = "STREAM_START"
    /\ jsOut.type = "segment" => jsPending = "SEGMENT"
    /\ jsOut.type = "buffer" => /\ jsPending = "UNKNOWN" /\ playlist.segment = jsOut.segment + 1
                                /\ playlist.block = jsOut.block + 1
    /\ jsOut.type = "eos" => jsPending = "EOS"
    /\ writer # "none" => jsPc = "push" /\ jsOut.type = "segment"
    /\ writer = "sizing" /\ jsResult = "FLUSHING" => seeker \in {"locking", "joining", "stopped"}

\* The segment handler has been given a segment that has no cache yet.
Loaded == jsOut.type = "segment" /\ writer # "sizing"

\* How many blocks of the open segment have been delivered.
Sent == IF jsOut.type = "buffer" THEN playlist.block - 1 ELSE playlist.block

InStep == "staleAdvance" \notin races
Whole == InStep /\ "truncated" \notin races /\ "emptied" \notin races

Empty == /\ writeIndex = -1 /\ readIndex = 0
         /\ \A i \in Caches : writeReady[i] /\ content[i] = << >> /\ readPosition[i] = 0

\* What a seek or a stop that is under way has already brought to a halt.
FlushInv ==
    /\ seeker = "idle" => ~padFlushing /\ ~isFlushing /\ ~downFlushing
    /\ seeker \in {"flushing", "pausing", "locking"} => padFlushing /\ downFlushing
    /\ seeker \in {"joining", "stopped"} => padFlushing /\ downFlushing
    /\ InStep =>
          /\ seeker \in {"pausing", "locking"} => Empty /\ task = "paused"
          /\ seeker = "locking" => reader = "top"
          /\ seeker \notin {"idle", "flushing"} =>
                srcresult # "OK" /\ writer \notin {"checked", "ready"}

\* A cache never holds more than a segment when it may be read.
FitInv ==
    /\ srcresult = "OK" \/ writer = "checked" \/ seeker \in {"pausing", "locking"} =>
          \A i \in Caches : Len(content[i]) <= Blocks
    /\ srcresult = "OK" /\ jsPending = "UNKNOWN" /\ ~padFlushing /\ writeIndex \in Caches =>
          Len(content[writeIndex]) <= Sent

\* The caches from the read index on, n of them, are not ready for writing;
\* the next one is the one to write.
Rank(i) == IF i >= readIndex THEN i - readIndex ELSE i - readIndex + NumCached
Ahead(n) == IF readIndex + n >= NumCached THEN readIndex + n - NumCached ELSE readIndex + n

WriterAtCache == writer \in {"full", "waiting", "woken"}

Ring(n) ==
    /\ \A i \in Caches : writeReady[i] <=> Rank(i) >= n
    /\ (IF WriterAtCache THEN writeIndex ELSE NextIndex(writeIndex)) = Ahead(n)
    /\ writeIndex \in Caches \/ (n = 0 /\ ~WriterAtCache)
    /\ \A i \in Caches :
          IF writeReady[i]
          THEN readPosition[i] = Len(content[i]) /\ Len(content[i]) \in {0, Blocks}
          ELSE cacheSize[i] = Blocks /\ readPosition[i] < Blocks
    /\ jsPending = "UNKNOWN" /\ ~padFlushing /\ Sent < Blocks =>
          writeIndex \in Caches /\ (writeReady[writeIndex] => Len(content[writeIndex]) = Blocks)

\* The n caches hold the segments up to the open one, and the reader is in the
\* first of them.  A segment that could not be loaded is none of them.
Opened == IF Loaded \/ playlist.failed THEN playlist.segment - 1 ELSE playlist.segment
Filled == IF Loaded THEN Blocks ELSE Sent
First(n) == Opened - n

Place(n) == [segment |-> First(n), block |-> IF n = 0 THEN 0 ELSE readPosition[readIndex]]

Holds(n) ==
    \A i \in Caches : Rank(i) < n =>
       /\ Len(content[i]) = IF Rank(i) < n - 1 THEN Blocks ELSE Filled
       /\ i # readIndex => readPosition[i] = 0
       /\ \A j \in 1 .. Len(content[i]) :
             content[i][j] = [segment |-> First(n) + Rank(i), block |-> j - 1]

ReaderAt(n) ==
    /\ reader \in {"top", "waiting", "awake"} => down.next = Place(n)
    /\ reader = "push" => BlockAfter(out.block) = Place(n)
    /\ reader = "store" /\ out.result = "OK" => down.next = Place(n)

PlaylistInv ==
    /\ jsPending # "UNKNOWN" /\ ~Loaded => playlist.block = Blocks
    /\ Loaded => playlist.block = 0
    /\ playlist.failed => jsPending = "EOS"
    /\ jsPending = "EOS" => playlist.failed \/ playlist.segment = Segments

RingInv ==
    InStep /\ srcresult = "OK" =>
       \E n \in 0 .. NumCached :
          /\ Ring(n)
          /\ Whole /\ seeker = "idle" => Holds(n) /\ ReaderAt(n) /\ PlaylistInv

\* After the end only a seek makes the reader go on.
EosInv ==
    /\ writer = "ready" \/ WriterAtCache => ~isEos
    /\ InStep =>
          /\ isEos /\ (writer = "checked" \/ (jsPending # "EOS" /\ srcresult = "OK")) =>
                srcresult = "OK" /\ task = "paused" /\ reader = "top" /\ Empty
          /\ down.eos => srcresult # "OK" /\ reader = "top" /\ jsPending = "EOS"

IInv ==
    /\ TypeInv
    /\ SourceInv
    /\ FlushInv
    /\ FitInv
    /\ RingInv
    /\ EosInv
    /\ InOrder
    /\ NoEarlyEos

-----------------------------------------------------------------------------
(* The ring *)

\* The index after the last is the first.
LEMMA NextIndexFacts ==
    ASSUME NEW i \in -1 .. NumCached - 1
    PROVE  /\ NextIndex(i) = IF i = NumCached - 1 THEN 0 ELSE i + 1
           /\ NextIndex(i) \in Caches
  BY NumCachedAssumption DEF NextIndex, Caches

\* Rank counts the caches from the read index on, Ahead is its inverse.
LEMMA RankFacts ==
    ASSUME readIndex \in Caches
    PROVE  /\ \A i \in Caches : Rank(i) \in 0 .. NumCached - 1 /\ (Rank(i) = 0 <=> i = readIndex)
           /\ \A i, k \in Caches : Rank(i) = Rank(k) => i = k
           /\ \A n \in 0 .. NumCached :
                 /\ Ahead(n) \in Caches
                 /\ n < NumCached => Rank(Ahead(n)) = n
                 /\ n = NumCached => Ahead(n) = readIndex
  BY NumCachedAssumption DEF Caches, Rank, Ahead

\* The reader goes on to the next cache: all ranks decrease.
LEMMA RankAdvances ==
    ASSUME readIndex \in Caches, readIndex' = NextIndex(readIndex)
    PROVE  /\ readIndex' \in Caches
           /\ \A i \in Caches : Rank(i)' = IF i = readIndex THEN NumCached - 1 ELSE Rank(i) - 1
           /\ \A n \in 1 .. NumCached : Ahead(n - 1)' = Ahead(n)
  <1>1. /\ readIndex' = (IF readIndex = NumCached - 1 THEN 0 ELSE readIndex + 1)
        /\ readIndex' \in Caches
    BY NumCachedAssumption, NextIndexFacts DEF Caches
  <1> QED BY <1>1, NumCachedAssumption DEF Caches, Rank, Ahead

\* The cache that precedes the next one to write.
LEMMA LastRank ==
    ASSUME readIndex \in Caches, NEW n \in 0 .. NumCached, NEW w \in Caches,
           NextIndex(w) = Ahead(n)
    PROVE  /\ n > 0 => Rank(w) = n - 1
           /\ n = 0 => Rank(w) = NumCached - 1
  <1>1. NextIndex(w) = IF w = NumCached - 1 THEN 0 ELSE w + 1
    BY NumCachedAssumption, NextIndexFacts DEF Caches
  <1> QED BY <1>1, NumCachedAssumption DEF Caches, Rank, Ahead

\* A ring that is described by a count of caches is in step.
LEMMA RingIsInStep ==
    ASSUME RingTypes, NEW n \in 0 .. NumCached, Ring(n), ~WriterAtCache
    PROVE  \/ \A i \in Caches : writeReady[i]
           \/ \A i \in Caches : ~writeReady[i] <=> (i - readIndex) % NumCached < Distance
  <1>1. readIndex \in Caches /\ writeIndex \in -1 .. NumCached - 1
    BY DEF RingTypes
  <1>2. /\ \A i \in Caches : writeReady[i] <=> Rank(i) >= n
        /\ NextIndex(writeIndex) = Ahead(n)
        /\ writeIndex \in Caches \/ n = 0
    BY DEF Ring
  <1>3. \A i \in Caches : (i - readIndex) % NumCached = Rank(i) /\ Rank(i) \in 0 .. NumCached - 1
    <2>1. \A i, k \in 0 .. NumCached - 1 : (i - k) % NumCached = IF i >= k THEN i - k ELSE i - k + NumCached
      BY NumCachedAssumption
    <2> QED BY <1>1, <2>1, NumCachedAssumption DEF Rank, Caches
  <1>4. CASE n = 0
    BY <1>2, <1>3, <1>4
  <1>5. CASE n > 0
    <2>1. writeIndex \in Caches /\ writeIndex # -1
      BY <1>2, <1>5, NumCachedAssumption DEF Caches
    <2>2. Rank(writeIndex) = n - 1
      BY <1>1, <1>2, <1>5, <2>1, LastRank
    <2>3. Distance = n
      BY <1>3, <2>1, <2>2 DEF Distance
    <2> QED BY <1>2, <1>3, <2>3
  <1> QED BY <1>4, <1>5

-----------------------------------------------------------------------------
(* What steps leave alone *)

LEMMA TypeParts ==
    TypeInv <=> /\ JsTypeOK /\ RingTypes /\ FlagTypes /\ ThreadTypes /\ SeekTypes
                /\ OutTypes
  BY DEF TypeInv, TypeOK

LEMMA TypePartsNext ==
    ASSUME JsTypeOK', RingTypes', FlagTypes', ThreadTypes', SeekTypes', OutTypes'
    PROVE  TypeInv'
  BY DEF TypeInv, TypeOK

\* The end of a push, in this element.
LEMMA PushedFacts ==
    ASSUME JsTypeOK, SourceInv, jsPc = "push", NEW res \in {"OK", "FLUSHING"}, SourcePushed(res)
    PROVE  /\ JsTypeOK' /\ jsOut' = Nothing /\ jsOut'.type = "nothing" /\ jsPc' = "end"
           /\ UNCHANGED <<jsResult, jsUpdate, padFlushing>>
           /\ jsPending' = CASE jsOut.type = "stream-start" -> "SEGMENT"
                             [] jsOut.type = "segment" -> "UNKNOWN"
                             [] OTHER -> jsPending
           /\ jsPending' = "EOS" <=> jsPending = "EOS"
  <1>1. Nothing.type = "nothing"
    BY DEF Nothing
  <1>2. /\ jsOut' = Nothing /\ jsPc' = "end" /\ UNCHANGED <<jsResult, jsUpdate, padFlushing>>
        /\ jsPending' = PendingAfter(jsOut)
    BY DEF SourcePushed
  <1>3. jsPosition' \in Nat
    BY DEF SourcePushed, JsTypeOK
  <1>4. jsReturn' \in Flow
    BY DEF SourcePushed, Flow
  <1>5. /\ jsPending' = (CASE jsOut.type = "stream-start" -> "SEGMENT"
                           [] jsOut.type = "segment" -> "UNKNOWN"
                           [] OTHER -> jsPending)
        /\ jsPending' \in {"STREAM_START", "SEGMENT", "EOS", "UNKNOWN"}
        /\ jsPending' = "EOS" <=> jsPending = "EOS"
    BY <1>2 DEF PendingAfter, SourceInv, JsTypeOK
  <1>6. JsTypeOK'
    BY <1>1, <1>2, <1>3, <1>4, <1>5 DEF JsTypeOK
  <1> QED BY <1>1, <1>2, <1>5, <1>6

LEMMA EmptyFrame == ASSUME UNCHANGED ringVars PROVE Empty' <=> Empty
  BY DEF ringVars, Empty

LEMMA RingFrame ==
    ASSUME NEW n, UNCHANGED ringVars, WriterAtCache' <=> WriterAtCache,
           jsPending' = "UNKNOWN" /\ ~padFlushing' /\ Sent' < Blocks =>
              jsPending = "UNKNOWN" /\ ~padFlushing /\ Sent < Blocks,
           Ring(n)
    PROVE  Ring(n)'
  BY DEF ringVars, Ring, Rank, Ahead, NextIndex

LEMMA HoldsFrame ==
    ASSUME NEW n, UNCHANGED ringVars, Opened' = Opened, Filled' = Filled
    PROVE  /\ Place(n)' = Place(n)
           /\ Holds(n) => Holds(n)'
  <1>1. First(n)' = First(n)
    BY DEF First
  <1> QED BY <1>1 DEF ringVars, Place, Holds, Rank

\* A step that leaves the ring and what the reader has pushed alone.
LEMMA RingInvFrame ==
    ASSUME RingInv, UNCHANGED <<ringVars, out, down>>,
           InStep' /\ srcresult' = "OK" => InStep /\ srcresult = "OK",
           Whole' /\ seeker' = "idle" => Whole /\ seeker = "idle",
           reader' = reader \/ {reader, reader'} \subseteq {"top", "waiting", "awake"},
           WriterAtCache' <=> WriterAtCache,
           jsPending' = "UNKNOWN" /\ ~padFlushing' /\ Sent' < Blocks =>
              jsPending = "UNKNOWN" /\ ~padFlushing /\ Sent < Blocks,
           Whole /\ seeker = "idle" /\ srcresult' = "OK" /\ Whole' /\ seeker' = "idle" /\ PlaylistInv =>
              PlaylistInv' /\ Opened' = Opened /\ Filled' = Filled
    PROVE  RingInv'
  <1> SUFFICES ASSUME InStep', srcresult' = "OK"
               PROVE  \E n \in 0 .. NumCached :
                         /\ Ring(n)'
                         /\ Whole' /\ seeker' = "idle" => Holds(n)' /\ ReaderAt(n)' /\ PlaylistInv'
    BY DEF RingInv
  <1>1. PICK n \in 0 .. NumCached :
           /\ Ring(n)
           /\ Whole /\ seeker = "idle" => Holds(n) /\ ReaderAt(n) /\ PlaylistInv
    BY DEF RingInv
  <1>2. Ring(n)'
    BY <1>1, RingFrame
  <1>3. ASSUME Whole', seeker' = "idle" PROVE Holds(n)' /\ ReaderAt(n)' /\ PlaylistInv'
    <2>1. Holds(n) /\ ReaderAt(n) /\ PlaylistInv
      BY <1>1, <1>3
    <2>2. PlaylistInv' /\ Opened' = Opened /\ Filled' = Filled
      BY <1>3, <2>1
    <2>3. Place(n)' = Place(n) /\ Holds(n)'
      BY <2>1, <2>2, HoldsFrame
    <2>4. ReaderAt(n)'
      BY <2>1, <2>3 DEF ReaderAt
    <2> QED BY <2>2, <2>3, <2>4
  <1> QED BY <1>2, <1>3

\* A step of the source thread that concerns neither the ring nor the reader.
LEMMA SourceFrame ==
    ASSUME IInv, SourceInv',
           JsTypeOK', writer' \in {"none", "sizing", "checked", "full", "waiting"}, playlist' \in Playlists,
           playlist'.block < Blocks => playlist'.segment > 0,
           jsOut'.type = "buffer" =>
              [segment |-> jsOut'.segment, block |-> jsOut'.block] \in Stream,
           UNCHANGED <<ringVars, isFlushing, srcresult, isEos, downFlushing, down, readerVars,
                       seekVars, padFlushing>>,
           races' = races \/ races' = races \cup {"truncated"} \/ races' = races \cup {"emptied"},
           writer' = "checked" => srcresult = "OK" /\ jsPending # "EOS",
           WriterAtCache' => WriterAtCache,
           srcresult = "OK" => (WriterAtCache' <=> WriterAtCache),
           jsPending' # "EOS" => jsPending # "EOS",
           jsPending = "EOS" => playlist'.segment = playlist.segment /\ playlist'.failed = playlist.failed,
           srcresult = "OK" /\ jsPending' = "UNKNOWN" /\ ~padFlushing =>
              jsPending = "UNKNOWN" /\ Sent <= Sent',
           srcresult = "OK" /\ Whole' /\ seeker = "idle" /\ PlaylistInv =>
              PlaylistInv' /\ Opened' = Opened /\ Filled' = Filled
    PROVE  IInv'
  <1> USE DEF readerVars, seekVars
  <1>0. JsTypeOK /\ RingTypes /\ FlagTypes /\ ThreadTypes /\ SeekTypes /\ OutTypes
    BY TypeParts DEF IInv
  <1>1. TypeInv'
    <2>1. RingTypes'
      BY <1>0 DEF RingTypes, ringVars
    <2>2. FlagTypes'
      BY <1>0 DEF FlagTypes
    <2>3. ThreadTypes'
      BY <1>0 DEF ThreadTypes
    <2>4. SeekTypes'
      BY <1>0 DEF SeekTypes
    <2>5. OutTypes'
      BY <1>0 DEF OutTypes, ringVars
    <2> QED BY <2>1, <2>2, <2>3, <2>4, <2>5, TypePartsNext
  <1>2. (InStep' <=> InStep) /\ (Whole' => Whole) /\ (Empty' <=> Empty)
    BY EmptyFrame DEF InStep, Whole
  <1>3. FlushInv'
    BY <1>2 DEF IInv, FlushInv
  <1>9. Sent \in Int /\ Sent' \in Int
    <2>1. playlist.block \in Int /\ playlist'.block \in Int
      BY <1>0, BlocksAssumption DEF RingTypes, Playlists
    <2> QED BY <2>1 DEF Sent
  <1>4. FitInv'
    <2>1. \A i \in Caches : content'[i] = content[i]
      BY DEF ringVars
    <2>2. ASSUME srcresult = "OK" \/ writer' = "checked" \/ seeker \in {"pausing", "locking"}
          PROVE  \A i \in Caches : Len(content'[i]) <= Blocks
      BY <2>1, <2>2 DEF IInv, FitInv
    <2>3. ASSUME srcresult = "OK", jsPending' = "UNKNOWN", ~padFlushing, writeIndex \in Caches
          PROVE  Len(content'[writeIndex]) <= Sent'
      <3>1. jsPending = "UNKNOWN" /\ Sent <= Sent'
        BY <2>3
      <3>2. Len(content[writeIndex]) <= Sent
        BY <2>3, <3>1 DEF IInv, FitInv
      <3>3. Sent \in Int /\ Sent' \in Int /\ Len(content[writeIndex]) \in Int
        <4>2. content[writeIndex] \in Seq(Positions)
          BY <1>0, <2>3 DEF RingTypes
        <4> QED BY <1>9, <4>2
      <3> QED BY <2>1, <2>3, <3>1, <3>2, <3>3
    <2>4. writeIndex' = writeIndex
      BY DEF ringVars
    <2> QED BY <2>2, <2>3, <2>4 DEF FitInv
  <1>5. RingInv'
    <2>1. RingInv
      BY DEF IInv
    <2>2. /\ InStep' /\ srcresult' = "OK" => InStep /\ srcresult = "OK"
          /\ Whole' /\ seeker' = "idle" => Whole /\ seeker = "idle"
      BY <1>2
    <2>3. CASE srcresult = "OK"
      <3>1. jsPending' = "UNKNOWN" /\ ~padFlushing' /\ Sent' < Blocks =>
               jsPending = "UNKNOWN" /\ ~padFlushing /\ Sent < Blocks
        BY <1>9, <2>3, BlocksAssumption
      <3> QED BY <2>1, <2>2, <2>3, <3>1, RingInvFrame
    <2>4. CASE srcresult # "OK"
      BY <2>4 DEF RingInv
    <2> QED BY <2>3, <2>4
  <1>6. EosInv'
    BY <1>2 DEF IInv, EosInv, WriterAtCache
  <1>7. InOrder'
    BY DEF IInv, InOrder, Incomplete
  <1>8. NoEarlyEos'
    <2>1. down.eos /\ InStep => jsPending = "EOS"
      BY DEF IInv, EosInv
    <2>2. jsPending = "EOS" => LastSegment' = LastSegment
      BY DEF LastSegment
    <2> QED BY <1>2, <2>1, <2>2 DEF IInv, NoEarlyEos, Incomplete, Whole, InStep
  <1> QED BY <1>1, <1>3, <1>4, <1>5, <1>6, <1>7, <1>8 DEF IInv

-----------------------------------------------------------------------------
(* The steps of the source thread before and after its pushes *)

\* At the top of the loop nothing is being pushed.
LEMMA AtLoop ==
    ASSUME IInv, jsPc # "push"
    PROVE  /\ writer = "none" /\ jsOut = Nothing /\ jsOut.type = "nothing"
           /\ ~Loaded /\ Sent = playlist.block /\ Filled = playlist.block
  BY DEF IInv, SourceInv, Nothing, Loaded, Sent, Filled

\* The loop begins to push something that is no segment event in the handler.
LEMMA BeginFacts ==
    ASSUME IInv, NEW o, NEW p, SourceBegin(o, p),
           o.type \in {"stream-start", "segment", "buffer", "eos"},
           p \in {"STREAM_START", "SEGMENT", "EOS", "UNKNOWN"}
    PROVE  /\ JsTypeOK' /\ jsPc' = "push" /\ jsOut' = o /\ jsPending' = p /\ jsResult' = "OK"
           /\ padFlushing' = padFlushing
  <1>1. JsTypeOK
    BY TypeParts DEF IInv
  <1> QED BY <1>1 DEF SourceBegin, JsTypeOK

LEMMA SourceNextIInv == ASSUME IInv, SourceNext PROVE IInv'
  <1>0. JsTypeOK /\ RingTypes /\ FlagTypes /\ ThreadTypes /\ SeekTypes /\ OutTypes /\ SourceInv
    BY TypeParts DEF IInv
  <1>1. jsPc = "loop" /\ jsPc # "push" /\ jsResult = "OK"
    BY DEF SourceNext, SourceBegin, SourceGivesUp
  <1>2. /\ writer = "none" /\ jsOut = Nothing /\ jsOut.type = "nothing"
        /\ ~Loaded /\ Sent = playlist.block /\ Filled = playlist.block
    BY <1>1, AtLoop
  <1>3. playlist \in Playlists /\ playlist.block \in 0 .. Blocks /\ playlist.segment \in 0 .. Segments
    BY <1>0 DEF RingTypes, Playlists
  <1>4. UNCHANGED <<ringVars, isFlushing, srcresult, isEos, downFlushing, down, readerVars, seekVars>>
    BY DEF SourceNext, flagVars
  <1>5. ASSUME NEW t \in {"stream-start", "eos"}, SourceBegin([type |-> t], jsPending),
               t = "eos" => jsPending = "EOS", t = "stream-start" => jsPending = "STREAM_START",
               UNCHANGED <<playlist, writer, races>>
        PROVE  IInv'
    <2>1. /\ JsTypeOK' /\ jsPc' = "push" /\ jsOut' = [type |-> t] /\ jsPending' = jsPending
          /\ padFlushing' = padFlushing /\ jsOut'.type = t
      BY <1>0, <1>5, BeginFacts DEF JsTypeOK
    <2>2. ~Loaded' /\ Sent' = Sent /\ Opened' = Opened /\ Filled' = Filled
      BY <1>2, <1>5, <2>1 DEF Loaded, Sent, Opened, Filled
    <2>3. SourceInv'
      BY <1>2, <1>5, <2>1 DEF SourceInv
    <2>4. PlaylistInv => PlaylistInv'
      BY <1>2, <1>5, <2>1, <2>2 DEF PlaylistInv
    <2>5. WriterAtCache' <=> WriterAtCache
      BY <1>5 DEF WriterAtCache
    <2>6. writer' = "none" /\ Sent <= Sent'
      BY <1>2, <1>3, <1>5, <2>2, BlocksAssumption
    <2>7. playlist' \in Playlists /\ (playlist'.block < Blocks => playlist'.segment > 0)
      BY <1>0, <1>3, <1>5 DEF OutTypes
    <2> QED BY <1>4, <1>5, <2>1, <2>2, <2>3, <2>4, <2>5, <2>6, <2>7, SourceFrame
  <1>6. ASSUME jsPending = "UNKNOWN", playlist.block < Blocks,
               SourceBegin([type |-> "buffer", segment |-> playlist.segment - 1,
                            block |-> playlist.block], jsPending),
               playlist' = [playlist EXCEPT !.block = @ + 1],
               UNCHANGED <<writer, races>>
        PROVE  IInv'
    <2>1. /\ JsTypeOK' /\ jsPc' = "push" /\ jsPending' = jsPending
          /\ jsOut' = [type |-> "buffer", segment |-> playlist.segment - 1, block |-> playlist.block]
          /\ padFlushing' = padFlushing
      BY <1>0, <1>6, BeginFacts DEF JsTypeOK
    <2>2. jsOut'.type = "buffer" /\ jsOut'.segment = playlist.segment - 1 /\ jsOut'.block = playlist.block
      BY <2>1
    <2>3. /\ playlist'.segment = playlist.segment /\ playlist'.block = playlist.block + 1
          /\ playlist'.failed = playlist.failed
      BY <1>3, <1>6 DEF Playlists
    <2>4. playlist' \in Playlists
      BY <1>3, <1>6, <2>3, BlocksAssumption DEF Playlists
    <2>5. playlist.segment > 0
      BY <1>0, <1>6 DEF OutTypes
    <2>6. ~Loaded' /\ Sent' = Sent /\ Opened' = Opened /\ Filled' = Filled
      <3>1. ~Loaded' /\ Sent' = playlist'.block - 1
        BY <2>2 DEF Loaded, Sent
      <3>2. playlist'.block - 1 = playlist.block
        BY <1>3, <2>3, BlocksAssumption
      <3> QED BY <1>2, <2>3, <3>1, <3>2 DEF Opened, Filled
    <2>7. SourceInv'
      <3>1. playlist'.segment = jsOut'.segment + 1 /\ playlist'.block = jsOut'.block + 1
        BY <1>3, <2>2, <2>3, SegmentsAssumption
      <3> QED BY <1>2, <1>6, <2>1, <2>2, <3>1 DEF SourceInv
    <2>8. PlaylistInv => PlaylistInv'
      BY <1>6, <2>1, <2>3, <2>6 DEF PlaylistInv
    <2>9. WriterAtCache' <=> WriterAtCache
      BY <1>6 DEF WriterAtCache
    <2>10. writer' = "none" /\ Sent <= Sent'
      BY <1>2, <1>3, <1>6, <2>6, BlocksAssumption
    <2>11. [segment |-> jsOut'.segment, block |-> jsOut'.block] \in Stream
      BY <1>3, <1>6, <2>2, <2>5, SegmentsAssumption, BlocksAssumption DEF Stream
    <2>12. playlist'.block < Blocks => playlist'.segment > 0
      BY <2>3, <2>5
    <2> QED BY <1>4, <1>6, <2>1, <2>3, <2>4, <2>6, <2>7, <2>8, <2>9, <2>10, <2>11, <2>12, SourceFrame
  <1>7. ASSUME jsPending = "SEGMENT"
                  \/ (jsPending = "UNKNOWN" /\ (playlist.block = Blocks \/ "truncate" \in Features)),
               SourceBegin([type |-> "segment"], "SEGMENT"),
               writer' = "sizing",
               races' = IF jsPending = "UNKNOWN" /\ playlist.block < Blocks
                        THEN races \cup {"truncated"} ELSE races,
               UNCHANGED playlist
        PROVE  IInv'
    <2>1. /\ JsTypeOK' /\ jsPc' = "push" /\ jsOut' = [type |-> "segment"] /\ jsPending' = "SEGMENT"
          /\ padFlushing' = padFlushing /\ jsOut'.type = "segment" /\ jsResult' = "OK"
      BY <1>7, BeginFacts
    <2>2. ~Loaded' /\ Sent' = Sent /\ Opened' = Opened /\ Filled' = Filled
      BY <1>2, <1>7, <2>1 DEF Loaded, Sent, Opened, Filled
    <2>3. SourceInv'
      BY <1>2, <1>7, <2>1 DEF SourceInv
    <2>4. PlaylistInv /\ Whole' => PlaylistInv'
      <3>1. ASSUME PlaylistInv, Whole' PROVE playlist.block = Blocks
        <4>1. CASE jsPending = "SEGMENT"
          BY <1>2, <3>1, <4>1 DEF PlaylistInv
        <4>2. CASE jsPending = "UNKNOWN"
          <5>1. ~(playlist.block < Blocks)
            BY <1>7, <3>1, <4>2 DEF Whole, InStep
          <5> QED BY <1>3, <5>1, BlocksAssumption
        <4> QED BY <1>7, <4>1, <4>2
      <3> QED BY <1>7, <2>1, <2>2, <3>1 DEF PlaylistInv
    <2>5. WriterAtCache' <=> WriterAtCache
      BY <1>2, <1>7 DEF WriterAtCache
    <2>6. playlist' \in Playlists /\ (playlist'.block < Blocks => playlist'.segment > 0)
      BY <1>0, <1>3, <1>7 DEF OutTypes
    <2>7. jsPending # "EOS" /\ (races' = races \/ races' = races \cup {"truncated"})
      BY <1>7
    <2> QED BY <1>4, <1>7, <2>1, <2>2, <2>3, <2>4, <2>5, <2>6, <2>7, SourceFrame
  <1>8. ASSUME jsPending = "UNKNOWN", SourceGivesUp("FLUSHING"),
               races' = races \cup {"truncated"}, UNCHANGED <<playlist, writer>>
        PROVE  IInv'
    <2>1. /\ jsPc' = "end"
          /\ UNCHANGED <<jsResult, jsPending, jsPosition, jsUpdate, jsOut, padFlushing>>
          /\ jsReturn' = "FLUSHING"
      BY <1>8 DEF SourceGivesUp
    <2>2. JsTypeOK'
      BY <1>0, <2>1 DEF JsTypeOK, Flow
    <2>3. SourceInv'
      BY <1>2, <1>8, <2>1 DEF SourceInv
    <2>4. ~Whole' /\ Sent' = Sent
      BY <1>8, <2>1 DEF Whole, Sent
    <2>5. WriterAtCache' <=> WriterAtCache
      BY <1>8 DEF WriterAtCache
    <2>6. playlist' \in Playlists /\ (playlist'.block < Blocks => playlist'.segment > 0)
      BY <1>0, <1>3, <1>8 DEF OutTypes
    <2>7. writer' = "none" /\ Sent <= Sent' /\ jsOut'.type = "nothing"
      BY <1>2, <1>3, <1>8, <2>1, <2>4, BlocksAssumption
    <2> QED BY <1>4, <1>8, <2>1, <2>2, <2>3, <2>4, <2>5, <2>6, <2>7, SourceFrame
  <1> QED BY <1>5, <1>6, <1>7, <1>8 DEF SourceNext

LEMMA SourceSizedIInv == ASSUME IInv, SourceSized PROVE IInv'
  <1>0. JsTypeOK /\ RingTypes /\ FlagTypes /\ ThreadTypes /\ SeekTypes /\ OutTypes /\ SourceInv
    BY TypeParts DEF IInv
  <1>1. writer = "sizing" /\ writer' = "none" /\ UNCHANGED <<jsResult, padFlushing>>
    BY DEF SourceSized
  <1>2. /\ jsPc = "push" /\ jsOut.type = "segment" /\ jsPending = "SEGMENT" /\ ~Loaded
        /\ Sent = playlist.block /\ Filled = playlist.block
        /\ Opened = IF playlist.failed THEN playlist.segment - 1 ELSE playlist.segment
    BY <1>0, <1>1 DEF SourceInv, Loaded, Sent, Opened, Filled
  <1>3. playlist \in Playlists /\ playlist.block \in 0 .. Blocks /\ playlist.segment \in 0 .. Segments
    BY <1>0 DEF RingTypes, Playlists
  <1>4. UNCHANGED <<ringVars, isFlushing, srcresult, isEos, downFlushing, down, readerVars, seekVars>>
    BY DEF SourceSized, flagVars
  <1>5. PICK size \in {-1, 0, Blocks} :
           /\ LoadNextSegment(size)
           /\ CASE jsResult = "FLUSHING" ->
                     /\ jsPc' = "end"
                     /\ jsOut' = Nothing
                     /\ UNCHANGED jsPending
                [] jsResult # "FLUSHING" /\ size = -1 ->
                     /\ jsPending' = "EOS"
                     /\ jsOut' = [type |-> "eos"]
                     /\ UNCHANGED jsPc
                [] OTHER ->
                     UNCHANGED <<jsPc, jsOut, jsPending>>
    BY DEF SourceSized
  <1>6. WriterAtCache' <=> WriterAtCache
    BY <1>1 DEF WriterAtCache
  <1>7. /\ playlist' \in Playlists /\ (playlist'.block < Blocks => playlist'.segment > 0)
        /\ races' = races \/ races' = races \cup {"truncated"} \/ races' = races \cup {"emptied"}
        /\ \/ size = -1 /\ playlist' = playlist /\ playlist.segment = Segments
           \/ /\ size = -1 /\ playlist' = NothingOpen(playlist.segment + 1, TRUE)
              /\ playlist'.segment = playlist.segment + 1 /\ playlist'.block = Blocks /\ playlist'.failed
           \/ size # -1 /\ ~Whole'
           \/ /\ size # -1
              /\ playlist'.segment = playlist.segment + 1 /\ playlist'.block = 0 /\ ~playlist'.failed
    <2>1. CASE playlist.segment = Segments /\ size = -1 /\ UNCHANGED <<playlist, races>>
      BY <1>0, <1>3, <2>1 DEF OutTypes
    <2>2. ASSUME playlist.segment < Segments
          PROVE  /\ playlist.segment + 1 \in 0 .. Segments /\ playlist.segment + 1 > 0
                 /\ 0 # -1 /\ Blocks # -1
      BY <1>3, <2>2, SegmentsAssumption, BlocksAssumption
    <2>3. CASE /\ playlist.segment < Segments /\ size = Blocks /\ UNCHANGED races
               /\ playlist' = [segment |-> playlist.segment + 1, block |-> 0, failed |-> FALSE]
      BY <2>2, <2>3, BlocksAssumption DEF Playlists
    <2>4. CASE /\ playlist.segment < Segments /\ size = 0 /\ races' = races \cup {"emptied"}
               /\ playlist' = NothingOpen(playlist.segment + 1, FALSE)
      BY <2>2, <2>4, BlocksAssumption DEF Playlists, NothingOpen, Whole
    <2>5. CASE /\ playlist.segment < Segments /\ size = -1 /\ UNCHANGED races
               /\ playlist' = NothingOpen(playlist.segment + 1, TRUE)
      BY <2>2, <2>5, BlocksAssumption DEF Playlists, NothingOpen
    <2> QED BY <1>5, <2>1, <2>3, <2>4, <2>5 DEF LoadNextSegment
  <1>8. CASE jsResult = "FLUSHING"
    <2>1. jsPc' = "end" /\ jsOut' = Nothing /\ UNCHANGED <<jsPending, jsResult, jsPosition, jsUpdate, jsReturn, padFlushing>>
      BY <1>5, <1>8 DEF SourceSized
    <2>2. jsOut'.type = "nothing"
      BY <2>1 DEF Nothing
    <2>3. JsTypeOK'
      BY <1>0, <2>1, <2>2 DEF JsTypeOK
    <2>4. SourceInv'
      BY <1>1, <2>1, <2>2 DEF SourceInv
    <2>5. seeker # "idle"
      BY <1>0, <1>1, <1>8 DEF SourceInv
    <2> QED BY <1>1, <1>2, <1>4, <1>6, <1>7, <2>1, <2>2, <2>3, <2>4, <2>5, SourceFrame
  <1>9. CASE jsResult # "FLUSHING" /\ size = -1
    <2>1. /\ jsPending' = "EOS" /\ jsOut' = [type |-> "eos"]
          /\ UNCHANGED <<jsPc, jsResult, jsPosition, jsUpdate, jsReturn, padFlushing>>
      BY <1>5, <1>9 DEF SourceSized
    <2>2. jsOut'.type = "eos"
      BY <2>1
    <2>3. JsTypeOK'
      BY <1>0, <2>1, <2>2 DEF JsTypeOK
    <2>4. SourceInv'
      BY <1>1, <1>2, <2>1, <2>2 DEF SourceInv
    <2>5. ASSUME PlaylistInv PROVE PlaylistInv' /\ Opened' = Opened /\ Filled' = Filled
      <3>1. playlist.block = Blocks /\ ~playlist.failed
        BY <1>2, <2>5 DEF PlaylistInv
      <3>2. ~Loaded' /\ Filled' = playlist'.block
            /\ Opened' = (IF playlist'.failed THEN playlist'.segment - 1 ELSE playlist'.segment)
        BY <1>1, <2>2 DEF Loaded, Filled, Sent, Opened
      <3>3. CASE playlist' = playlist /\ playlist.segment = Segments
        BY <1>2, <2>1, <3>1, <3>2, <3>3 DEF PlaylistInv
      <3>4. CASE playlist'.segment = playlist.segment + 1 /\ playlist'.block = Blocks /\ playlist'.failed
        <4>1. playlist'.segment - 1 = playlist.segment
          BY <1>3, <3>4, SegmentsAssumption
        <4> QED BY <1>2, <2>1, <3>1, <3>2, <3>4, <4>1 DEF PlaylistInv
      <3> QED BY <1>7, <1>9, <3>3, <3>4
    <2> QED BY <1>1, <1>2, <1>4, <1>6, <1>7, <2>1, <2>2, <2>3, <2>4, <2>5, SourceFrame
  <1>10. CASE jsResult # "FLUSHING" /\ size # -1
    <2>1. UNCHANGED <<jsPending, jsOut, jsPc, jsResult, jsPosition, jsUpdate, jsReturn, padFlushing>>
      BY <1>5, <1>10 DEF SourceSized
    <2>2. JsTypeOK'
      BY <1>0, <2>1 DEF JsTypeOK
    <2>3. SourceInv'
      BY <1>1, <1>2, <2>1 DEF SourceInv
    <2>4. Loaded'
      BY <1>1, <1>2, <2>1 DEF Loaded
    <2>5. ASSUME PlaylistInv, Whole' PROVE PlaylistInv' /\ Opened' = Opened /\ Filled' = Filled
      <3>1. playlist.block = Blocks /\ ~playlist.failed
        BY <1>2, <2>5 DEF PlaylistInv
      <3>2. playlist'.segment = playlist.segment + 1 /\ playlist'.block = 0 /\ ~playlist'.failed
        BY <1>7, <1>10, <2>5
      <3>3. playlist'.segment - 1 = playlist.segment
        BY <1>3, <3>2, SegmentsAssumption
      <3>4. Opened' = Opened /\ Filled' = Filled
        BY <1>2, <2>4, <3>1, <3>3 DEF Opened, Filled
      <3> QED BY <1>2, <2>1, <2>4, <3>2, <3>4 DEF PlaylistInv
    <2> QED BY <1>1, <1>2, <1>4, <1>6, <1>7, <2>1, <2>2, <2>3, <2>5, SourceFrame
  <1> QED BY <1>8, <1>9, <1>10

LEMMA SourceGoesOnIInv == ASSUME IInv, SourceGoesOn PROVE IInv'
  <1>0. JsTypeOK /\ RingTypes /\ FlagTypes /\ ThreadTypes /\ SeekTypes /\ OutTypes /\ SourceInv
    BY TypeParts DEF IInv
  <1>1. /\ jsPc # "push" /\ jsPc' # "push"
        /\ UNCHANGED <<jsPending, jsPosition, jsUpdate, jsOut, padFlushing, playlist, writer, races>>
    BY DEF SourceGoesOn, SourceHalts, SourceEnd
  <1>2. /\ writer = "none" /\ jsOut = Nothing /\ jsOut.type = "nothing"
        /\ Sent = playlist.block
    BY <1>1, AtLoop
  <1>3. UNCHANGED <<ringVars, isFlushing, srcresult, isEos, downFlushing, down, readerVars, seekVars>>
    BY DEF SourceGoesOn, flagVars
  <1>4. JsTypeOK'
    <2>1. jsResult' \in Flow /\ jsReturn' \in Flow /\ jsPc' \in {"loop", "push", "end", "paused"}
      BY <1>0 DEF SourceGoesOn, SourceHalts, SourceEnd, ResultAfter, JsTypeOK, Flow
    <2> QED BY <1>0, <1>1, <2>1 DEF JsTypeOK
  <1>5. SourceInv'
    BY <1>1, <1>2 DEF SourceInv
  <1>6. /\ Loaded' = Loaded /\ Sent' = Sent /\ Opened' = Opened /\ Filled' = Filled
        /\ WriterAtCache' = WriterAtCache /\ (PlaylistInv => PlaylistInv')
    BY <1>1 DEF Loaded, Sent, Opened, Filled, WriterAtCache, PlaylistInv
  <1>7. playlist' \in Playlists /\ (playlist'.block < Blocks => playlist'.segment > 0)
    BY <1>0, <1>1 DEF OutTypes, RingTypes
  <1>8. Sent <= Sent'
    BY <1>0, <1>2, <1>6, BlocksAssumption DEF RingTypes, Playlists
  <1> QED BY <1>1, <1>2, <1>3, <1>4, <1>5, <1>6, <1>7, <1>8, SourceFrame

\* A push that ends and leaves the element alone.
LEMMA PushEnds ==
    ASSUME IInv, jsPc = "push", writer = "none", NEW res \in {"OK", "FLUSHING"}, SourcePushed(res),
           UNCHANGED <<playlist, ringVars, flagVars, writer, readerVars, seekVars, downFlushing, down, races>>,
           padFlushing \/ srcresult # "OK" \/ jsOut.type = "stream-start"
    PROVE  IInv'
  <1>0. JsTypeOK /\ RingTypes /\ FlagTypes /\ ThreadTypes /\ SeekTypes /\ OutTypes /\ SourceInv
    BY TypeParts DEF IInv
  <1>1. /\ JsTypeOK' /\ jsOut' = Nothing /\ jsOut'.type = "nothing" /\ jsPc' = "end"
        /\ UNCHANGED <<jsResult, jsUpdate, padFlushing>>
        /\ jsPending' = CASE jsOut.type = "stream-start" -> "SEGMENT"
                             [] jsOut.type = "segment" -> "UNKNOWN"
                             [] OTHER -> jsPending
        /\ jsPending' = "EOS" <=> jsPending = "EOS"
    BY <1>0, PushedFacts
  <1>2. UNCHANGED <<ringVars, isFlushing, srcresult, isEos, downFlushing, down, readerVars, seekVars>>
    BY DEF flagVars
  <1>3. SourceInv'
    BY <1>1 DEF SourceInv
  <1>4. WriterAtCache' = WriterAtCache
    BY DEF WriterAtCache
  <1>5. playlist' \in Playlists /\ (playlist'.block < Blocks => playlist'.segment > 0)
    BY <1>0 DEF OutTypes, RingTypes
  <1>6. CASE padFlushing \/ srcresult # "OK"
    <2>1. ~(srcresult = "OK" /\ seeker = "idle")
      BY <1>6 DEF IInv, FlushInv
    <2> QED BY <1>1, <1>2, <1>3, <1>4, <1>5, <1>6, <2>1, SourceFrame
  <1>7. CASE jsOut.type = "stream-start"
    <2>1. jsPending = "STREAM_START" /\ jsPending' = "SEGMENT"
      BY <1>0, <1>1, <1>7 DEF SourceInv
    <2>2. ~Loaded /\ ~Loaded' /\ Opened' = Opened /\ Filled' = Filled
      BY <1>1, <1>7 DEF Loaded, Opened, Filled, Sent
    <2>3. PlaylistInv => PlaylistInv'
      BY <2>1, <2>2 DEF PlaylistInv
    <2> QED BY <1>1, <1>2, <1>3, <1>4, <1>5, <2>1, <2>2, <2>3, SourceFrame
  <1> QED BY <1>6, <1>7

LEMMA PushFlushedIInv == ASSUME IInv, PushFlushed PROVE IInv'
  BY PushEnds DEF PushFlushed, AtPush

LEMMA EventPassesThroughIInv == ASSUME IInv, EventPassesThrough PROVE IInv'
  <1>1. PICK res \in {"OK", "FLUSHING"} : SourcePushed(res)
    BY DEF EventPassesThrough
  <1>2. /\ jsPc = "push" /\ writer = "none" /\ jsOut.type = "stream-start"
        /\ UNCHANGED <<playlist, ringVars, flagVars, writer, readerVars, seekVars, downFlushing, down, races>>
    BY DEF EventPassesThrough, PushReaches, AtPush
  <1> QED BY <1>1, <1>2, PushEnds

\* A step inside the segment handler that leaves the element alone.
LEMMA HandlerGoesOn ==
    ASSUME IInv, jsOut.type = "segment", jsPc = "push",
           writer # "sizing", writer' \in {"checked", "full", "waiting"}, WriterAtCache' <=> WriterAtCache,
           writer' = "checked" => srcresult = "OK",
           UNCHANGED <<jsVars, playlist, ringVars, flagVars, readerVars, seekVars, downFlushing, down, races>>
    PROVE  IInv'
  <1>0. JsTypeOK /\ RingTypes /\ FlagTypes /\ ThreadTypes /\ SeekTypes /\ OutTypes /\ SourceInv
    BY TypeParts DEF IInv
  <1>1. UNCHANGED <<jsResult, jsPending, jsPosition, jsUpdate, jsPc, jsOut, jsReturn, padFlushing>>
    BY DEF jsVars
  <1>2. UNCHANGED <<ringVars, isFlushing, srcresult, isEos, downFlushing, down, readerVars, seekVars>>
    BY DEF flagVars
  <1>3. jsPending = "SEGMENT"
    BY <1>0 DEF SourceInv
  <1>4. JsTypeOK'
    BY <1>0, <1>1 DEF JsTypeOK
  <1>5. SourceInv'
    BY <1>1, <1>3 DEF SourceInv
  <1>6. Loaded' = Loaded /\ Opened' = Opened /\ Filled' = Filled
    BY <1>1 DEF Loaded, Sent, Opened, Filled
  <1>7. PlaylistInv => PlaylistInv'
    BY <1>1, <1>6 DEF PlaylistInv
  <1>8. playlist' \in Playlists /\ (playlist'.block < Blocks => playlist'.segment > 0)
    BY <1>0 DEF OutTypes, RingTypes
  <1> QED BY <1>1, <1>2, <1>3, <1>4, <1>5, <1>6, <1>7, <1>8, SourceFrame

LEMMA SinkSegmentIInv == ASSUME IInv, SinkSegment PROVE IInv'
  <1>1. jsPc = "push" /\ writer = "none" /\ jsOut.type = "segment"
    BY DEF SinkSegment, PushReaches, AtPush
  <1>2. CASE srcresult # "OK"
    BY <1>1, <1>2, PushEnds DEF SinkSegment
  <1>3. CASE srcresult = "OK"
    <2>1. writer' = "checked" /\ UNCHANGED jsVars
      BY <1>3 DEF SinkSegment
    <2>2. WriterAtCache' <=> WriterAtCache
      BY <1>1, <2>1 DEF WriterAtCache
    <2> QED BY <1>1, <1>3, <2>1, <2>2, HandlerGoesOn DEF SinkSegment
  <1> QED BY <1>2, <1>3

LEMMA SegmentWaitsIInv == ASSUME IInv, SegmentWaits PROVE IInv'
  <1>1. writer = "full" /\ writer' = "waiting"
    BY DEF SegmentWaits
  <1>2. jsPc = "push" /\ jsOut.type = "segment"
    BY <1>1 DEF IInv, SourceInv
  <1>3. WriterAtCache' <=> WriterAtCache
    BY <1>1 DEF WriterAtCache
  <1> QED BY <1>1, <1>2, <1>3, HandlerGoesOn DEF SegmentWaits

-----------------------------------------------------------------------------
(* The pushes that reach the element *)

\* A signal to the reader moves it only from the wait.
LEMMA SignalAddFacts ==
    ASSUME SignalAdd, ThreadTypes
    PROVE  /\ reader' \in {"top", "waiting", "awake", "push", "store"}
           /\ reader' = reader \/ {reader, reader'} \subseteq {"top", "waiting", "awake"}
           /\ reader' = "top" <=> reader = "top"
           /\ reader' = "push" <=> reader = "push"
           /\ reader' = "store" <=> reader = "store"
  BY DEF SignalAdd, ThreadTypes

\* While a block is pushed the segment has not been delivered to its end.
LEMMA BlockLeft ==
    ASSUME IInv, jsOut.type = "buffer"
    PROVE  Sent = playlist.block - 1 /\ Sent < Blocks
  <1>1. playlist.block \in 0 .. Blocks
    BY TypeParts DEF IInv, RingTypes, Playlists
  <1>2. Sent = playlist.block - 1
    BY DEF Sent
  <1> QED BY <1>1, <1>2, BlocksAssumption

\* The block is written to the cache that the reader reads last.
LEMMA WrittenCache ==
    ASSUME IInv, PushReaches("buffer"), InStep, srcresult = "OK", NEW n \in 0 .. NumCached, Ring(n)
    PROVE  /\ writeIndex \in Caches /\ ~writeReady[writeIndex]
           /\ n > 0 /\ Rank(writeIndex) = n - 1
  <1>0. JsTypeOK /\ RingTypes /\ FlagTypes /\ ThreadTypes /\ SeekTypes /\ OutTypes /\ SourceInv
    BY TypeParts DEF IInv
  <1>1. jsPc = "push" /\ writer = "none" /\ ~padFlushing /\ jsOut.type = "buffer" /\ jsPending = "UNKNOWN"
    BY <1>0 DEF PushReaches, AtPush, SourceInv
  <1>2. writeIndex \in Caches /\ (writeReady[writeIndex] => Len(content[writeIndex]) = Blocks)
    BY <1>1, BlockLeft DEF Ring
  <1>3. ~WriterAtCache
    BY <1>1 DEF WriterAtCache
  <1>4. Len(content[writeIndex]) <= Sent /\ Sent = playlist.block - 1
    BY <1>1, <1>2 DEF IInv, FitInv, Sent
  <1>5. ~writeReady[writeIndex]
    <2>1. playlist.block \in 0 .. Blocks
      BY <1>0 DEF RingTypes, Playlists
    <2> QED BY <1>2, <1>4, <2>1, BlocksAssumption
  <1>6. readIndex \in Caches
    BY <1>0 DEF RingTypes
  <1>7. Rank(writeIndex) \in 0 .. NumCached - 1 /\ Rank(writeIndex) < n
    <2>1. Rank(writeIndex) \in 0 .. NumCached - 1
      BY <1>2, <1>6, RankFacts
    <2>2. ~(Rank(writeIndex) >= n)
      BY <1>2, <1>5 DEF Ring
    <2> QED BY <2>1, <2>2, NumCachedAssumption
  <1>8. n > 0
    BY <1>7, NumCachedAssumption
  <1>9. NextIndex(writeIndex) = Ahead(n)
    BY <1>3 DEF Ring
  <1> QED BY <1>2, <1>5, <1>6, <1>8, <1>9, LastRank

\* A buffer that is refused, or dropped because the element is flushing.
LEMMA ChainRefuses ==
    ASSUME IInv, Chain, isFlushing \/ isEos \/ srcresult = "FLUSHING"
    PROVE  IInv'
  <1>0. JsTypeOK /\ RingTypes /\ FlagTypes /\ ThreadTypes /\ SeekTypes /\ OutTypes /\ SourceInv
    BY TypeParts DEF IInv
  <1>1. jsPc = "push" /\ writer = "none" /\ ~padFlushing /\ jsOut.type = "buffer" /\ jsPending = "UNKNOWN"
    BY <1>0 DEF Chain, PushReaches, AtPush, SourceInv
  <1>2. PICK res \in {"OK", "FLUSHING"} : SourcePushed(res)
    BY DEF Chain
  <1>3. /\ JsTypeOK' /\ jsOut' = Nothing /\ jsOut'.type = "nothing" /\ jsPc' = "end"
        /\ UNCHANGED <<jsResult, jsUpdate, padFlushing>> /\ jsPending' = "UNKNOWN"
    BY <1>0, <1>1, <1>2, PushedFacts
  <1>4. UNCHANGED <<ringVars, isFlushing, srcresult, isEos, downFlushing, down, readerVars, seekVars,
                    playlist, writer, races>>
    BY DEF Chain, flagVars, ringVars, readerVars
  <1>5. SourceInv'
    BY <1>1, <1>3, <1>4 DEF SourceInv
  <1>6. WriterAtCache' = WriterAtCache
    BY <1>4 DEF WriterAtCache
  <1>7. playlist' \in Playlists /\ (playlist'.block < Blocks => playlist'.segment > 0)
    BY <1>0, <1>4 DEF OutTypes, RingTypes
  <1>8. Sent <= Sent'
    <2>1. playlist.block \in 0 .. Blocks
      BY <1>0 DEF RingTypes, Playlists
    <2>2. Sent = playlist.block - 1 /\ Sent' = playlist.block
      BY <1>1, <1>3, <1>4 DEF Sent
    <2> QED BY <2>1, <2>2, BlocksAssumption
  <1>9. ~(srcresult = "OK" /\ Whole /\ seeker = "idle")
    <2> SUFFICES ASSUME srcresult = "OK", InStep, seeker = "idle" PROVE FALSE
      BY DEF Whole
    <2>1. ~isFlushing /\ isEos
      BY DEF IInv, FlushInv
    <2>2. Empty
      BY <1>1, <2>1 DEF IInv, EosInv
    <2>3. PICK n \in 0 .. NumCached : Ring(n)
      BY DEF IInv, RingInv
    <2>4. writeIndex \in Caches
      BY <1>1, <2>3, BlockLeft DEF Ring
    <2> QED BY <2>2, <2>4, NumCachedAssumption DEF Empty, Caches
  <1>10. Whole' => Whole
    BY <1>4 DEF Whole, InStep
  <1> QED BY <1>1, <1>3, <1>4, <1>5, <1>6, <1>7, <1>8, <1>9, <1>10, SourceFrame

\* A buffer that is written.
LEMMA ChainStores ==
    ASSUME IInv, Chain, ~isFlushing, ~isEos, srcresult # "FLUSHING"
    PROVE  IInv'
  <1>0. JsTypeOK /\ RingTypes /\ FlagTypes /\ ThreadTypes /\ SeekTypes /\ OutTypes /\ SourceInv
    BY TypeParts DEF IInv
  <1> DEFINE b == [segment |-> jsOut.segment, block |-> jsOut.block]
  <1>1. /\ jsPc = "push" /\ writer = "none" /\ ~padFlushing /\ jsOut.type = "buffer" /\ jsPending = "UNKNOWN"
        /\ playlist.segment = jsOut.segment + 1 /\ playlist.block = jsOut.block + 1 /\ b \in Stream
    BY <1>0 DEF Chain, PushReaches, AtPush, SourceInv, OutTypes
  <1>2. content' = Write(b) /\ SignalAdd /\ SourcePushed("OK")
    BY DEF Chain
  <1>3. /\ JsTypeOK' /\ jsOut' = Nothing /\ jsOut'.type = "nothing" /\ jsPc' = "end"
        /\ UNCHANGED <<jsResult, jsUpdate, padFlushing>> /\ jsPending' = "UNKNOWN"
    BY <1>0, <1>1, <1>2, PushedFacts
  <1>4. UNCHANGED <<readPosition, cacheSize, writeReady, writeIndex, readIndex, isFlushing, srcresult,
                    isEos, downFlushing, down, task, out, seeker, seek, seeks, playlist, writer, races>>
    BY DEF Chain, flagVars, seekVars
  <1>5. /\ reader' \in {"top", "waiting", "awake", "push", "store"}
        /\ reader' = reader \/ {reader, reader'} \subseteq {"top", "waiting", "awake"}
        /\ reader' = "top" <=> reader = "top"
        /\ reader' = "push" <=> reader = "push"
        /\ reader' = "store" <=> reader = "store"
    BY <1>0, <1>2, SignalAddFacts
  <1>6. SourceInv'
    BY <1>1, <1>3, <1>4 DEF SourceInv
  <1>7. content \in [Caches -> Seq(Stream)]
    BY <1>0 DEF OutTypes
  <1>8. \A i \in Caches : content'[i] = IF i = writeIndex THEN Append(content[i], b) ELSE content[i]
    BY <1>2 DEF Write
  <1>9. /\ playlist.block \in 0 .. Blocks /\ playlist.segment \in 0 .. Segments
        /\ jsOut.segment \in 0 .. Segments - 1 /\ jsOut.block \in 0 .. Blocks - 1
    <2>1. b.segment \in 0 .. Segments - 1 /\ b.block \in 0 .. Blocks - 1
      BY <1>1 DEF Stream
    <2> QED BY <1>0, <2>1 DEF RingTypes, Playlists
  <1>10. Sent = jsOut.block /\ Sent' = jsOut.block + 1
    <2>1. Sent = playlist.block - 1 /\ Sent' = playlist.block
      BY <1>1, <1>3, <1>4 DEF Sent
    <2> QED BY <1>1, <1>9, <2>1, BlocksAssumption
  <1>11. TypeInv'
    <2>1. content' \in [Caches -> Seq(Stream)]
      <3>1. \A i \in Caches : Append(content[i], b) \in Seq(Stream)
        BY <1>1, <1>7
      <3> QED BY <1>2, <1>7, <3>1 DEF Write
    <2>2. content' \in [Caches -> Seq(Positions)]
      <3>1. Stream \subseteq Positions
        BY SegmentsAssumption, BlocksAssumption DEF Stream, Positions
      <3>2. Seq(Stream) \subseteq Seq(Positions)
        BY <3>1
      <3> QED BY <2>1, <3>2
    <2>3. RingTypes'
      BY <1>0, <1>4, <2>2 DEF RingTypes
    <2>4. FlagTypes'
      BY <1>0, <1>4 DEF FlagTypes
    <2>5. ThreadTypes'
      BY <1>0, <1>4, <1>5 DEF ThreadTypes
    <2>6. SeekTypes'
      BY <1>0, <1>4 DEF SeekTypes
    <2>7. OutTypes'
      BY <1>0, <1>3, <1>4, <1>5, <2>1 DEF OutTypes
    <2> QED BY <1>3, <2>3, <2>4, <2>5, <2>6, <2>7, TypePartsNext
  <1>12. seeker \notin {"flushing", "pausing", "locking", "joining", "stopped"}
    BY <1>1 DEF IInv, FlushInv
  <1>13. FlushInv'
    <2>1. seeker = "idle" => ~padFlushing' /\ ~isFlushing' /\ ~downFlushing'
      BY <1>3, <1>4 DEF IInv, FlushInv
    <2>2. InStep' => (seeker \notin {"idle", "flushing"} => srcresult # "OK")
      BY <1>4 DEF IInv, FlushInv, InStep
    <2> QED BY <1>1, <1>4, <1>12, <2>1, <2>2 DEF FlushInv
  <1>14. FitInv'
    <2>1. ASSUME srcresult = "OK", writeIndex \in Caches
          PROVE  Len(content'[writeIndex]) <= Sent'
      <3>1. Len(content[writeIndex]) <= Sent
        BY <1>1, <2>1 DEF IInv, FitInv
      <3>2. content[writeIndex] \in Seq(Stream)
        BY <1>7, <2>1
      <3>3. Len(content'[writeIndex]) = Len(content[writeIndex]) + 1
        <4>1. content'[writeIndex] = Append(content[writeIndex], b)
          BY <1>8, <2>1
        <4> HIDE DEF b
        <4> QED BY <1>1, <3>2, <4>1
      <3>4. Len(content[writeIndex]) \in Nat
        BY <3>2
      <3> QED BY <1>9, <1>10, <3>1, <3>3, <3>4, BlocksAssumption
    <2>2. ASSUME srcresult = "OK", NEW i \in Caches PROVE Len(content'[i]) <= Blocks
      <3>1. CASE i = writeIndex
        <4>1. Len(content'[i]) <= Sent' /\ Len(content'[i]) \in Nat
          <5>1. Len(content'[i]) <= Sent'
            BY <2>1, <2>2, <3>1
          <5>2. content'[i] = Append(content[i], b) /\ content[i] \in Seq(Stream)
            BY <1>7, <1>8, <3>1
          <5> HIDE DEF b
          <5> QED BY <1>1, <5>1, <5>2
        <4> QED BY <1>9, <1>10, <4>1, BlocksAssumption
      <3>2. CASE i # writeIndex
        BY <1>8, <2>2, <3>2 DEF IInv, FitInv
      <3> QED BY <3>1, <3>2
    <2> QED BY <1>1, <1>4, <1>12, <2>1, <2>2 DEF FitInv
  <1>15. RingInv'
    <2> SUFFICES ASSUME InStep', srcresult' = "OK"
                 PROVE  \E n \in 0 .. NumCached :
                         /\ Ring(n)'
                         /\ Whole' /\ seeker' = "idle" => Holds(n)' /\ ReaderAt(n)' /\ PlaylistInv'
      BY DEF RingInv
    <2>1. InStep /\ srcresult = "OK" /\ (Whole' <=> Whole)
      BY <1>4 DEF InStep, Whole
    <2>2. PICK n \in 0 .. NumCached :
           /\ Ring(n)
           /\ Whole /\ seeker = "idle" => Holds(n) /\ ReaderAt(n) /\ PlaylistInv
      BY <2>1 DEF IInv, RingInv
    <2>3. writeIndex \in Caches /\ ~writeReady[writeIndex] /\ n > 0 /\ Rank(writeIndex) = n - 1
      BY <2>1, <2>2, WrittenCache DEF Chain
    <2>4. \A i \in Caches : i # writeIndex => content'[i] = content[i]
      BY <1>8
    <2>5. (\A i \in Caches : Rank(i)' = Rank(i)) /\ Ahead(n)' = Ahead(n) /\ WriterAtCache' = WriterAtCache
      BY <1>4 DEF Rank, Ahead, WriterAtCache
    <2>6. Ring(n)'
      <3>1. \A i \in Caches : writeReady'[i] <=> Rank(i)' >= n
        BY <1>4, <2>2, <2>5 DEF Ring
      <3>2. (IF WriterAtCache' THEN writeIndex' ELSE NextIndex(writeIndex')) = Ahead(n)'
        BY <1>4, <2>2, <2>5 DEF Ring
      <3>3. \A i \in Caches :
              IF writeReady'[i]
              THEN readPosition'[i] = Len(content'[i]) /\ Len(content'[i]) \in {0, Blocks}
              ELSE cacheSize'[i] = Blocks /\ readPosition'[i] < Blocks
        BY <1>4, <2>2, <2>3, <2>4 DEF Ring
      <3> QED BY <1>4, <2>3, <3>1, <3>2, <3>3 DEF Ring, NextIndex
    <2>7. ASSUME Whole, seeker = "idle" PROVE Holds(n)' /\ ReaderAt(n)' /\ PlaylistInv'
      <3>1. Holds(n) /\ ReaderAt(n) /\ PlaylistInv
        BY <2>2, <2>7
      <3>2. ~Loaded /\ ~Loaded' /\ Opened = playlist.segment /\ Opened' = Opened
        <4>1. ~playlist.failed
          BY <1>1, <3>1 DEF PlaylistInv
        <4> QED BY <1>1, <1>3, <1>4, <4>1 DEF Loaded, Opened
      <3>3. Filled = jsOut.block /\ Filled' = jsOut.block + 1
        BY <1>10, <3>2 DEF Filled
      <3>4. First(n)' = First(n) /\ First(n) + Rank(writeIndex) = jsOut.segment
        <4>1. First(n) = playlist.segment - n /\ First(n)' = First(n)
          BY <3>2 DEF First
        <4> QED BY <1>1, <1>9, <2>3, <4>1, SegmentsAssumption, NumCachedAssumption
      <3>5. readIndex \in Caches
        BY <1>0 DEF RingTypes
      <3>6. ASSUME NEW i \in Caches, Rank(i)' < n
            PROVE  /\ Len(content'[i]) = IF Rank(i)' < n - 1 THEN Blocks ELSE Filled'
                   /\ i # readIndex' => readPosition'[i] = 0
                   /\ \A j \in 1 .. Len(content'[i]) :
                         content'[i][j] = [segment |-> First(n)' + Rank(i)', block |-> j - 1]
        <4>1. /\ Len(content[i]) = IF Rank(i) < n - 1 THEN Blocks ELSE Filled
              /\ i # readIndex => readPosition[i] = 0
              /\ \A j \in 1 .. Len(content[i]) :
                   content[i][j] = [segment |-> First(n) + Rank(i), block |-> j - 1]
          BY <2>5, <3>1, <3>6 DEF Holds
        <4>2. CASE i = writeIndex
          <5>1. Rank(i) = n - 1 /\ ~(Rank(i) < n - 1) /\ Rank(i)' = Rank(i)
            BY <2>3, <2>5, <4>2, NumCachedAssumption
          <5>2. Len(content[i]) = jsOut.block /\ content[i] \in Seq(Stream)
            BY <1>7, <3>3, <4>1, <5>1
          <5>3. content'[i] = Append(content[i], b)
            BY <1>8, <4>2
          <5>4. Len(content'[i]) = jsOut.block + 1
            BY <1>1, <5>2, <5>3
          <5>5. ASSUME NEW j \in 1 .. Len(content'[i])
                PROVE  content'[i][j] = [segment |-> First(n)' + Rank(i)', block |-> j - 1]
            <6>1. CASE j = jsOut.block + 1
              <7>1. content'[i][j] = b
                BY <1>1, <5>2, <5>3, <6>1
              <7>2. j - 1 = jsOut.block
                BY <1>9, <6>1, BlocksAssumption
              <7> QED BY <3>4, <4>2, <5>1, <7>1, <7>2
            <6>2. CASE j # jsOut.block + 1
              <7>1. j \in 1 .. Len(content[i])
                BY <1>9, <5>2, <5>4, <5>5, <6>2, BlocksAssumption
              <7>2. content'[i][j] = content[i][j]
                BY <1>1, <5>2, <5>3, <7>1
              <7> QED BY <3>4, <4>1, <5>1, <7>1, <7>2
            <6> QED BY <6>1, <6>2
          <5> QED BY <1>4, <3>3, <4>1, <5>1, <5>4, <5>5
        <4>3. CASE i # writeIndex
          <5>1. Rank(i) # n - 1 /\ Rank(i) \in 0 .. NumCached - 1 /\ Rank(i)' = Rank(i)
            BY <2>3, <2>5, <3>5, <4>3, RankFacts
          <5>2. Rank(i) < n - 1
            BY <3>6, <5>1, NumCachedAssumption
          <5> QED BY <1>4, <2>4, <3>4, <4>1, <4>3, <5>1, <5>2
        <4> QED BY <4>2, <4>3
      <3>7. Holds(n)'
        BY <3>6 DEF Holds
      <3>8. Place(n)' = Place(n)
        BY <1>4, <3>4 DEF Place
      <3>9. ReaderAt(n)'
        BY <1>4, <1>5, <3>1, <3>8 DEF ReaderAt
      <3>10. PlaylistInv'
        BY <1>1, <1>3, <1>4, <3>1, <3>2 DEF PlaylistInv
      <3> QED BY <3>7, <3>9, <3>10
    <2> QED BY <1>4, <2>1, <2>6, <2>7
  <1>16. EosInv'
    <2>1. down'.eos /\ InStep' => FALSE
      BY <1>1, <1>4 DEF IInv, EosInv, InStep
    <2> QED BY <1>4, <2>1 DEF EosInv
  <1>17. InOrder'
    BY <1>4, <1>5 DEF IInv, InOrder, Incomplete
  <1>18. NoEarlyEos'
    BY <1>4 DEF IInv, NoEarlyEos, LastSegment, Incomplete
  <1> QED BY <1>6, <1>11, <1>13, <1>14, <1>15, <1>16, <1>17, <1>18 DEF IInv

LEMMA ChainIInv == ASSUME IInv, Chain PROVE IInv'
  BY ChainRefuses, ChainStores

LEMMA SinkEosIInv == ASSUME IInv, SinkEos PROVE IInv'
  <1>0. JsTypeOK /\ RingTypes /\ FlagTypes /\ ThreadTypes /\ SeekTypes /\ OutTypes /\ SourceInv
    BY TypeParts DEF IInv
  <1>1. jsPc = "push" /\ writer = "none" /\ ~padFlushing /\ jsOut.type = "eos" /\ jsPending = "EOS"
    BY <1>0 DEF SinkEos, PushReaches, AtPush, SourceInv
  <1>2. isEos' = TRUE /\ SignalAdd /\ SourcePushed("OK")
    BY DEF SinkEos
  <1>3. /\ JsTypeOK' /\ jsOut' = Nothing /\ jsOut'.type = "nothing" /\ jsPc' = "end"
        /\ UNCHANGED <<jsResult, jsUpdate, padFlushing>> /\ jsPending' = "EOS"
    BY <1>0, <1>1, <1>2, PushedFacts
  <1>4. UNCHANGED <<ringVars, isFlushing, srcresult, downFlushing, down, task, out, seeker, seek, seeks,
                    playlist, writer>>
    BY DEF SinkEos, seekVars
  <1>5. races' = races \/ races' = races \cup {"eosRepeated"}
    BY DEF SinkEos
  <1>6. /\ reader' \in {"top", "waiting", "awake", "push", "store"}
        /\ reader' = reader \/ {reader, reader'} \subseteq {"top", "waiting", "awake"}
        /\ reader' = "top" <=> reader = "top"
        /\ reader' = "push" <=> reader = "push"
        /\ reader' = "store" <=> reader = "store"
    BY <1>0, <1>2, SignalAddFacts
  <1>7. (InStep' <=> InStep) /\ (Whole' <=> Whole) /\ (Empty' <=> Empty)
    BY <1>4, <1>5, EmptyFrame DEF InStep, Whole
  <1>8. SourceInv'
    BY <1>1, <1>3, <1>4 DEF SourceInv
  <1>9. TypeInv'
    <2>1. RingTypes'
      BY <1>0, <1>4 DEF RingTypes, ringVars
    <2>2. FlagTypes'
      BY <1>0, <1>2, <1>4 DEF FlagTypes
    <2>3. ThreadTypes'
      BY <1>0, <1>4, <1>6 DEF ThreadTypes
    <2>4. SeekTypes'
      BY <1>0, <1>4, <1>5 DEF SeekTypes
    <2>5. OutTypes'
      BY <1>0, <1>3, <1>4, <1>6 DEF OutTypes, ringVars
    <2> QED BY <1>3, <2>1, <2>2, <2>3, <2>4, <2>5, TypePartsNext
  <1>10. FlushInv'
    BY <1>3, <1>4, <1>6, <1>7 DEF IInv, FlushInv
  <1>11. FitInv'
    BY <1>3, <1>4 DEF IInv, FitInv, ringVars
  <1>12. RingInv'
    <2>1. WriterAtCache' <=> WriterAtCache
      BY <1>4 DEF WriterAtCache
    <2>2. ~Loaded /\ ~Loaded' /\ Opened' = Opened /\ Filled' = Filled
      BY <1>1, <1>3, <1>4 DEF Loaded, Opened, Filled, Sent
    <2>3. PlaylistInv => PlaylistInv'
      BY <1>1, <1>3, <1>4, <2>2 DEF PlaylistInv
    <2>4. RingInv
      BY DEF IInv
    <2> QED BY <1>3, <1>4, <1>6, <1>7, <2>1, <2>2, <2>3, <2>4, RingInvFrame
  <1>13. EosInv'
    <2>1. writer' # "ready" /\ ~WriterAtCache' /\ writer' # "checked"
      BY <1>1, <1>4 DEF WriterAtCache
    <2>2. down'.eos /\ InStep' => srcresult' # "OK" /\ reader' = "top"
      BY <1>4, <1>6, <1>7 DEF IInv, EosInv
    <2> QED BY <1>3, <2>1, <2>2 DEF EosInv
  <1>14. InOrder'
    BY <1>4, <1>5, <1>6 DEF IInv, InOrder, Incomplete
  <1>15. NoEarlyEos'
    BY <1>4, <1>5 DEF IInv, NoEarlyEos, LastSegment, Incomplete
  <1> QED BY <1>8, <1>9, <1>10, <1>11, <1>12, <1>13, <1>14, <1>15 DEF IInv

-----------------------------------------------------------------------------
(* The handler of the segment event *)

LEMMA SegmentRestartsIInv == ASSUME IInv, SegmentRestarts PROVE IInv'
  <1>0. JsTypeOK /\ RingTypes /\ FlagTypes /\ ThreadTypes /\ SeekTypes /\ OutTypes /\ SourceInv
    BY TypeParts DEF IInv
  <1>1. writer = "checked" /\ writer' \in {"ready", "none"} /\ isEos' = FALSE
    BY DEF SegmentRestarts
  <1>2. /\ srcresult' = IF isEos THEN "OK" ELSE srcresult
        /\ task' = IF isEos THEN "started" ELSE task
    BY DEF SegmentRestarts
  <1>3. UNCHANGED <<ringVars, isFlushing, downFlushing, down, reader, out, seeker, seek, seeks,
                    playlist, races>>
    BY DEF SegmentRestarts, seekVars
  <1>4. jsPc = "push" /\ jsOut.type = "segment" /\ jsPending = "SEGMENT" /\ Loaded
    BY <1>0, <1>1 DEF SourceInv, Loaded
  <1>15. /\ JsTypeOK' /\ padFlushing' = padFlushing
         /\ \/ /\ writer' = "ready" /\ UNCHANGED <<jsResult, jsPending, jsPc, jsOut>>
            \/ /\ writer' = "none" /\ playlist.block = Blocks /\ jsResult' = jsResult
               /\ jsOut' = Nothing /\ jsOut'.type = "nothing" /\ jsPc' = "end" /\ jsPending' = "UNKNOWN"
    <2>1. CASE EmptySegment
      <3>1. writer' = "none" /\ SourcePushed("OK") /\ playlist.block = Blocks
        BY <2>1 DEF SegmentRestarts, EmptySegment
      <3> QED BY <1>0, <1>4, <3>1, PushedFacts
    <2>2. CASE ~EmptySegment
      <3>1. writer' = "ready" /\ UNCHANGED <<jsResult, jsPending, jsPosition, jsUpdate, jsPc, jsOut, jsReturn, padFlushing>>
        BY <2>2 DEF SegmentRestarts, jsVars
      <3> QED BY <1>0, <3>1 DEF JsTypeOK
    <2> QED BY <2>1, <2>2
  <1>5. (InStep' <=> InStep) /\ (Whole' <=> Whole) /\ (Empty' <=> Empty)
    BY <1>3, EmptyFrame DEF InStep, Whole
  <1>6. InStep => srcresult' = srcresult
    BY <1>1, <1>2 DEF IInv, EosInv
  <1>7. SourceInv'
    BY <1>3, <1>4, <1>15 DEF SourceInv
  <1>8. TypeInv'
    <2>2. RingTypes'
      BY <1>0, <1>3 DEF RingTypes, ringVars
    <2>3. FlagTypes'
      <3>1. srcresult' \in Flow
        BY <1>0, <1>2 DEF FlagTypes, Flow
      <3> QED BY <1>0, <1>1, <1>3, <3>1 DEF FlagTypes
    <2>4. ThreadTypes'
      BY <1>0, <1>1, <1>2, <1>3 DEF ThreadTypes
    <2>5. SeekTypes'
      BY <1>0, <1>3 DEF SeekTypes
    <2>6. OutTypes'
      BY <1>0, <1>3, <1>4, <1>15 DEF OutTypes, ringVars
    <2> QED BY <1>15, <2>2, <2>3, <2>4, <2>5, <2>6, TypePartsNext
  <1>9. FlushInv'
    <2>1. InStep => seeker \in {"idle", "flushing"}
      BY <1>1 DEF IInv, FlushInv
    <2>2. InStep' => seeker' \in {"idle", "flushing"}
      BY <1>3, <1>5, <2>1
    <2> QED BY <1>3, <1>15, <2>2 DEF IInv, FlushInv
  <1>10. FitInv'
    <2>1. \A i \in Caches : Len(content[i]) <= Blocks
      BY <1>1 DEF IInv, FitInv
    <2>2. content' = content
      BY <1>3 DEF ringVars
    <2>3. writeIndex' = writeIndex
      BY <1>3 DEF ringVars
    <2>4. jsPending' = "UNKNOWN" => Sent' = Blocks
      BY <1>3, <1>4, <1>15 DEF Sent
    <2> QED BY <2>1, <2>2, <2>3, <2>4 DEF FitInv
  <1>11. RingInv'
    <2>1. WriterAtCache' <=> WriterAtCache
      BY <1>1 DEF WriterAtCache
    <2>2. ~(jsPending' = "UNKNOWN" /\ Sent' < Blocks)
      <3>1. jsPending' = "UNKNOWN" => Sent' = Blocks
        BY <1>3, <1>4, <1>15 DEF Sent
      <3> QED BY <3>1, BlocksAssumption
    <2>3. ASSUME PlaylistInv PROVE PlaylistInv' /\ Opened' = Opened /\ Filled' = Filled
      <3>1. writer' = "ready" /\ UNCHANGED <<jsPending, jsOut>>
        BY <1>4, <1>15, <2>3, BlocksAssumption DEF PlaylistInv
      <3>2. Loaded' = Loaded /\ Opened' = Opened /\ Filled' = Filled
        BY <1>1, <1>3, <3>1 DEF Loaded, Opened, Filled, Sent
      <3> QED BY <1>3, <2>3, <3>1, <3>2 DEF PlaylistInv
    <2>4. RingInv
      BY DEF IInv
    <2> QED BY <1>3, <1>5, <1>6, <2>1, <2>2, <2>3, <2>4, RingInvFrame
  <1>12. EosInv'
    <2>1. ~(down'.eos /\ InStep')
      BY <1>3, <1>4, <1>5 DEF IInv, EosInv
    <2> QED BY <1>1, <2>1 DEF EosInv
  <1>13. InOrder'
    BY <1>3 DEF IInv, InOrder, Incomplete
  <1>14. NoEarlyEos'
    BY <1>3 DEF IInv, NoEarlyEos, LastSegment, Incomplete
  <1> QED BY <1>7, <1>8, <1>9, <1>10, <1>11, <1>12, <1>13, <1>14 DEF IInv

\* The cache after the last one that is not ready.
LEMMA AheadNext ==
    ASSUME readIndex \in Caches, NEW n \in 0 .. NumCached - 1
    PROVE  NextIndex(Ahead(n)) = Ahead(n + 1)
  <1>1. Ahead(n) \in Caches
    BY NumCachedAssumption DEF Caches, Ahead
  <1>2. NextIndex(Ahead(n)) = IF Ahead(n) = NumCached - 1 THEN 0 ELSE Ahead(n) + 1
    BY <1>1, NumCachedAssumption, NextIndexFacts DEF Caches
  <1> QED BY <1>2, NumCachedAssumption DEF Caches, Ahead

\* The cache at index i becomes the last of those that are not ready.
LEMMA PrepareIInv ==
    ASSUME IInv, writer \in {"ready", "woken"}, NEW i \in -1 .. NumCached - 1, writeIndex' = i, Prepare(i),
           writer = "woken" => srcresult = "OK",
           srcresult = "OK" => writeReady[i],
           \A n \in 0 .. NumCached : InStep /\ srcresult = "OK" /\ Ring(n) => i = Ahead(n),
           UNCHANGED <<playlist, readIndex, flagVars, readerVars, seekVars, downFlushing, down, races>>
    PROVE  IInv'
  <1>0. JsTypeOK /\ RingTypes /\ FlagTypes /\ ThreadTypes /\ SeekTypes /\ OutTypes /\ SourceInv
    BY TypeParts DEF IInv
  <1>1. jsPc = "push" /\ jsOut.type = "segment" /\ jsPending = "SEGMENT" /\ writer' = "none" /\ Loaded
    BY <1>0 DEF SourceInv, Prepare, Loaded
  <1>2. /\ JsTypeOK' /\ jsOut' = Nothing /\ jsOut'.type = "nothing" /\ jsPc' = "end"
        /\ UNCHANGED <<jsResult, jsUpdate, padFlushing>> /\ jsPending' = "UNKNOWN"
    <2>1. SourcePushed("OK")
      BY DEF Prepare
    <2> QED BY <1>0, <1>1, <2>1, PushedFacts
  <1>3. UNCHANGED <<playlist, readIndex, isFlushing, isEos, srcresult, reader, task, out, seeker, seek,
                    seeks, downFlushing, down, races>>
    BY DEF flagVars, readerVars, seekVars
  <1>4. /\ content' = [content EXCEPT ![i] = << >>]
        /\ readPosition' = [readPosition EXCEPT ![i] = 0]
        /\ cacheSize' = [cacheSize EXCEPT ![i] = Blocks]
        /\ writeReady' = [writeReady EXCEPT ![i] = FALSE]
    BY DEF Prepare
  <1>5. /\ content \in [Caches -> Seq(Positions)] /\ content \in [Caches -> Seq(Stream)]
        /\ readPosition \in [Caches -> 0 .. Blocks] /\ cacheSize \in [Caches -> {0, Blocks}]
        /\ writeReady \in [Caches -> BOOLEAN] /\ readIndex \in Caches
    BY <1>0 DEF RingTypes, OutTypes
  <1>6. \A k \in Caches :
           IF k = i THEN /\ content'[k] = << >> /\ Len(content'[k]) = 0 /\ readPosition'[k] = 0
                         /\ cacheSize'[k] = Blocks /\ ~writeReady'[k]
           ELSE /\ content'[k] = content[k] /\ readPosition'[k] = readPosition[k]
                /\ cacheSize'[k] = cacheSize[k] /\ writeReady'[k] = writeReady[k]
    BY <1>4, <1>5
  <1>7. TypeInv'
    <2>1. content' \in [Caches -> Seq(Positions)] /\ content' \in [Caches -> Seq(Stream)]
      <3>1. << >> \in Seq(Positions) /\ << >> \in Seq(Stream)
        OBVIOUS
      <3>2. content' \in [Caches -> Seq(Positions)]
        BY <1>4, <1>5, <3>1, Zenon
      <3>3. content' \in [Caches -> Seq(Stream)]
        BY <1>4, <1>5, <3>1, Zenon
      <3> QED BY <3>2, <3>3
    <2>2. readPosition' \in [Caches -> 0 .. Blocks] /\ cacheSize' \in [Caches -> {0, Blocks}]
      <3>1. 0 \in 0 .. Blocks
        BY BlocksAssumption
      <3>2. readPosition' \in [Caches -> 0 .. Blocks]
        BY <1>4, <1>5, <3>1, Zenon
      <3>3. cacheSize' \in [Caches -> {0, Blocks}]
        BY <1>4, <1>5, Zenon
      <3> QED BY <3>2, <3>3
    <2>3. writeReady' \in [Caches -> BOOLEAN]
      BY <1>4, <1>5
    <2>4. RingTypes'
      BY <1>0, <1>3, <2>1, <2>2, <2>3 DEF RingTypes
    <2>5. FlagTypes'
      BY <1>0, <1>3 DEF FlagTypes
    <2>6. ThreadTypes'
      BY <1>0, <1>1, <1>3 DEF ThreadTypes
    <2>7. SeekTypes'
      BY <1>0, <1>3 DEF SeekTypes
    <2>8. OutTypes'
      BY <1>0, <1>2, <1>3, <2>1 DEF OutTypes
    <2> QED BY <1>2, <2>4, <2>5, <2>6, <2>7, <2>8, TypePartsNext
  <1>8. SourceInv'
    BY <1>1, <1>2 DEF SourceInv
  <1>9. (InStep' <=> InStep) /\ (Whole' <=> Whole)
    BY <1>3 DEF InStep, Whole
  <1>10. FlushInv'
    <2>1. InStep => seeker \in {"idle", "flushing"}
      BY DEF IInv, FlushInv
    <2>2. InStep' => seeker' \in {"idle", "flushing"}
      BY <1>3, <1>9, <2>1
    <2> QED BY <1>2, <1>3, <2>2 DEF IInv, FlushInv
  <1>11. FitInv'
    <2>1. ASSUME srcresult = "OK" \/ seeker \in {"pausing", "locking"}, NEW k \in Caches
          PROVE  Len(content'[k]) <= Blocks
      <3>1. Len(content[k]) <= Blocks
        BY <2>1 DEF IInv, FitInv
      <3> QED BY <1>6, <2>1, <3>1, BlocksAssumption
    <2>2. ASSUME i \in Caches PROVE Len(content'[i]) <= Sent'
      <3>1. Len(content'[i]) = 0
        BY <1>6, <2>2
      <3>2. Sent' = playlist.block
        BY <1>2, <1>3 DEF Sent
      <3>3. playlist.block \in 0 .. Blocks
        BY <1>0 DEF RingTypes, Playlists
      <3> QED BY <3>1, <3>2, <3>3, BlocksAssumption
    <2> QED BY <1>1, <1>3, <2>1, <2>2 DEF FitInv
  <1>12. RingInv'
    <2> SUFFICES ASSUME InStep', srcresult' = "OK"
                 PROVE  \E n \in 0 .. NumCached :
                         /\ Ring(n)'
                         /\ Whole' /\ seeker' = "idle" => Holds(n)' /\ ReaderAt(n)' /\ PlaylistInv'
      BY DEF RingInv
    <2>1. InStep /\ srcresult = "OK" /\ writeReady[i]
      BY <1>3, <1>9
    <2>2. PICK n \in 0 .. NumCached :
           /\ Ring(n)
           /\ Whole /\ seeker = "idle" => Holds(n) /\ ReaderAt(n) /\ PlaylistInv
      BY <2>1 DEF IInv, RingInv
    <2>3. i = Ahead(n) /\ i \in Caches
      <3>1. i = Ahead(n)
        BY <2>1, <2>2
      <3> QED BY <1>5, <3>1, RankFacts
    <2>4. n \in 0 .. NumCached - 1 /\ n + 1 \in 0 .. NumCached /\ Rank(i) = n
      <3>1. Rank(i) >= n /\ Rank(i) \in 0 .. NumCached - 1
        BY <1>5, <2>1, <2>2, <2>3, RankFacts DEF Ring
      <3>2. n \in 0 .. NumCached - 1 /\ n + 1 \in 0 .. NumCached /\ n < NumCached
        BY <3>1, NumCachedAssumption
      <3>3. Rank(Ahead(n)) = n
        BY <1>5, <2>2, <3>2, RankFacts
      <3> QED BY <2>3, <3>2, <3>3
    <2>5. \A k \in Caches : /\ Rank(k)' = Rank(k) /\ Rank(k) \in 0 .. NumCached - 1
                            /\ Rank(k) = n <=> k = i
                            /\ Rank(k) = 0 <=> k = readIndex
      <3>1. \A k \in Caches : Rank(k)' = Rank(k)
        BY <1>3 DEF Rank
      <3> QED BY <1>5, <2>3, <2>4, <3>1, RankFacts
    <2>6. NextIndex(i) = Ahead(n + 1)'
      <3>1. Ahead(n + 1)' = Ahead(n + 1)
        BY <1>3 DEF Ahead
      <3> QED BY <1>5, <2>3, <2>4, <3>1, AheadNext
    <2>7. Ring(n + 1)'
      <3>1. \A k \in Caches : writeReady'[k] <=> Rank(k)' >= n + 1
        <4>1. \A k \in Caches : writeReady[k] <=> Rank(k) >= n
          BY <2>2 DEF Ring
        <4> TAKE k \in Caches
        <4>2. CASE k = i
          <5>1. Rank(k)' = n /\ ~(n >= n + 1)
            BY <2>4, <2>5, <4>2, NumCachedAssumption
          <5> QED BY <1>6, <4>2, <5>1
        <4>3. CASE k # i
          <5>1. Rank(k)' >= n + 1 <=> Rank(k) >= n
            BY <2>4, <2>5, <4>3, NumCachedAssumption
          <5> QED BY <1>6, <4>1, <4>3, <5>1
        <4> QED BY <4>2, <4>3
      <3>2. ~WriterAtCache'
        BY <1>1 DEF WriterAtCache
      <3>3. \A k \in Caches :
              IF writeReady'[k]
              THEN readPosition'[k] = Len(content'[k]) /\ Len(content'[k]) \in {0, Blocks}
              ELSE cacheSize'[k] = Blocks /\ readPosition'[k] < Blocks
        BY <1>6, <2>2, BlocksAssumption DEF Ring
      <3>4. ~writeReady'[i]
        BY <1>6, <2>3
      <3> QED BY <2>3, <2>6, <3>1, <3>2, <3>3, <3>4 DEF Ring, NextIndex
    <2>8. ASSUME Whole, seeker = "idle" PROVE Holds(n + 1)' /\ ReaderAt(n + 1)' /\ PlaylistInv'
      <3>1. Holds(n) /\ ReaderAt(n) /\ PlaylistInv
        BY <2>2, <2>8
      <3>2. ~Loaded' /\ Opened = playlist.segment - 1 /\ Opened' = playlist.segment /\ Filled = Blocks
        <4>1. ~playlist.failed
          BY <1>1, <3>1 DEF PlaylistInv
        <4> QED BY <1>1, <1>2, <1>3, <4>1 DEF Loaded, Opened, Filled
      <3>3. playlist.block = 0 /\ Filled' = 0
        BY <1>1, <1>2, <1>3, <3>1, <3>2 DEF PlaylistInv, Filled, Sent
      <3>4. First(n + 1)' = First(n)
        <4>1. First(n + 1)' = playlist.segment - (n + 1) /\ First(n) = playlist.segment - 1 - n
          BY <3>2 DEF First
        <4>2. playlist.segment \in Int
          BY <1>0, SegmentsAssumption DEF RingTypes, Playlists
        <4> QED BY <2>4, <4>1, <4>2, NumCachedAssumption
      <3>5. ASSUME NEW k \in Caches, Rank(k)' < n + 1
            PROVE  /\ Len(content'[k]) = IF Rank(k)' < (n + 1) - 1 THEN Blocks ELSE Filled'
                   /\ k # readIndex' => readPosition'[k] = 0
                   /\ \A j \in 1 .. Len(content'[k]) :
                         content'[k][j] = [segment |-> First(n + 1)' + Rank(k)', block |-> j - 1]
        <4>1. CASE k = i
          <5>1. ~(Rank(k)' < (n + 1) - 1)
            BY <2>4, <2>5, <4>1, NumCachedAssumption
          <5>2. Len(content'[k]) = 0 /\ readPosition'[k] = 0
            BY <1>6, <4>1
          <5> QED BY <3>3, <5>1, <5>2
        <4>2. CASE k # i
          <5>1. Rank(k)' = Rank(k) /\ Rank(k) < n /\ Rank(k)' < (n + 1) - 1
            BY <2>4, <2>5, <3>5, <4>2, NumCachedAssumption
          <5>2. /\ Len(content[k]) = Blocks
                /\ k # readIndex => readPosition[k] = 0
                /\ \A j \in 1 .. Len(content[k]) :
                     content[k][j] = [segment |-> First(n) + Rank(k), block |-> j - 1]
            BY <3>1, <3>2, <5>1 DEF Holds
          <5> QED BY <1>3, <1>6, <3>4, <4>2, <5>1, <5>2
        <4> QED BY <4>1, <4>2
      <3>6. Holds(n + 1)'
        BY <3>5 DEF Holds
      <3>7. Place(n + 1)' = Place(n)
        <4>1. n + 1 # 0
          BY <2>4, NumCachedAssumption
        <4>2. readPosition'[readIndex] = IF n = 0 THEN 0 ELSE readPosition[readIndex]
          BY <1>5, <1>6, <2>5
        <4> QED BY <1>3, <3>4, <4>1, <4>2 DEF Place
      <3>8. ReaderAt(n + 1)'
        BY <1>3, <3>1, <3>7 DEF ReaderAt
      <3>9. PlaylistInv'
        BY <1>1, <1>2, <1>3, <3>1, <3>2 DEF PlaylistInv
      <3> QED BY <3>6, <3>8, <3>9
    <2> QED BY <1>3, <1>9, <2>4, <2>7, <2>8
  <1>13. EosInv'
    <2>1. ~isEos
      BY DEF IInv, EosInv, WriterAtCache
    <2>2. ~(down'.eos /\ InStep')
      BY <1>1, <1>3, <1>9 DEF IInv, EosInv
    <2> QED BY <1>3, <2>1, <2>2 DEF EosInv
  <1>14. InOrder'
    BY <1>3 DEF IInv, InOrder, Incomplete
  <1>15. NoEarlyEos'
    BY <1>3 DEF IInv, NoEarlyEos, LastSegment, Incomplete
  <1> QED BY <1>7, <1>8, <1>10, <1>11, <1>12, <1>13, <1>14, <1>15 DEF IInv

\* The next cache is not free: the ring is full.
LEMMA SegmentFull ==
    ASSUME IInv, SegmentAdvances, ~MayWrite(NextIndex(writeIndex))
    PROVE  IInv'
  <1>0. JsTypeOK /\ RingTypes /\ FlagTypes /\ ThreadTypes /\ SeekTypes /\ OutTypes /\ SourceInv
    BY TypeParts DEF IInv
  <1>1. /\ writer = "ready" /\ writer' = "full" /\ writeIndex' = NextIndex(writeIndex)
        /\ srcresult = "OK"
    BY DEF SegmentAdvances, MayWrite
  <1>2. /\ UNCHANGED <<jsResult, jsPending, jsPosition, jsUpdate, jsPc, jsOut, jsReturn, padFlushing>>
        /\ UNCHANGED <<cacheSize, writeReady, content, readPosition, playlist, readIndex, isFlushing,
                       isEos, srcresult, reader, task, out, seeker, seek, seeks, downFlushing, down,
                       races>>
    BY DEF SegmentAdvances, jsVars, flagVars, readerVars, seekVars
  <1>3. jsPc = "push" /\ jsOut.type = "segment" /\ jsPending = "SEGMENT"
    BY <1>0, <1>1 DEF SourceInv
  <1>4. writeIndex' \in Caches /\ ~WriterAtCache /\ WriterAtCache'
    <2>1. writeIndex \in -1 .. NumCached - 1
      BY <1>0 DEF RingTypes
    <2> QED BY <1>1, <2>1, NextIndexFacts DEF WriterAtCache
  <1>5. (InStep' <=> InStep) /\ (Whole' <=> Whole)
    BY <1>2 DEF InStep, Whole
  <1>6. SourceInv'
    BY <1>1, <1>2, <1>3 DEF SourceInv
  <1>7. TypeInv'
    <2>1. JsTypeOK'
      BY <1>0, <1>2 DEF JsTypeOK
    <2>2. RingTypes'
      <3>1. writeIndex' \in -1 .. NumCached - 1
        BY <1>4, NumCachedAssumption DEF Caches
      <3> QED BY <1>0, <1>2, <3>1 DEF RingTypes
    <2>3. FlagTypes'
      BY <1>0, <1>2 DEF FlagTypes
    <2>4. ThreadTypes'
      BY <1>0, <1>1, <1>2 DEF ThreadTypes
    <2>5. SeekTypes'
      BY <1>0, <1>2 DEF SeekTypes
    <2>6. OutTypes'
      BY <1>0, <1>2 DEF OutTypes
    <2> QED BY <2>1, <2>2, <2>3, <2>4, <2>5, <2>6, TypePartsNext
  <1>8. FlushInv'
    <2>1. InStep => seeker \in {"idle", "flushing"}
      BY <1>1 DEF IInv, FlushInv
    <2>2. InStep' => seeker' \in {"idle", "flushing"}
      BY <1>2, <1>5, <2>1
    <2> QED BY <1>2, <2>2 DEF IInv, FlushInv
  <1>9. FitInv'
    BY <1>1, <1>2, <1>3 DEF IInv, FitInv
  <1>10. RingInv'
    <2> SUFFICES ASSUME InStep', srcresult' = "OK"
                 PROVE  \E n \in 0 .. NumCached :
                         /\ Ring(n)'
                         /\ Whole' /\ seeker' = "idle" => Holds(n)' /\ ReaderAt(n)' /\ PlaylistInv'
      BY DEF RingInv
    <2>1. PICK n \in 0 .. NumCached :
           /\ Ring(n)
           /\ Whole /\ seeker = "idle" => Holds(n) /\ ReaderAt(n) /\ PlaylistInv
      BY <1>1, <1>5 DEF IInv, RingInv
    <2>2. Ahead(n)' = Ahead(n) /\ \A i \in Caches : Rank(i)' = Rank(i)
      BY <1>2 DEF Ahead, Rank
    <2>3. Ring(n)'
      <3>1. \A i \in Caches : writeReady'[i] <=> Rank(i)' >= n
        BY <1>2, <2>1, <2>2 DEF Ring
      <3>2. writeIndex' = Ahead(n)'
        BY <1>1, <1>4, <2>1, <2>2 DEF Ring
      <3>3. \A i \in Caches :
              IF writeReady'[i]
              THEN readPosition'[i] = Len(content'[i]) /\ Len(content'[i]) \in {0, Blocks}
              ELSE cacheSize'[i] = Blocks /\ readPosition'[i] < Blocks
        BY <1>2, <2>1 DEF Ring
      <3>4. jsPending' # "UNKNOWN"
        BY <1>2, <1>3
      <3> QED BY <1>4, <3>1, <3>2, <3>3, <3>4 DEF Ring
    <2>4. ASSUME Whole, seeker = "idle" PROVE Holds(n)' /\ ReaderAt(n)' /\ PlaylistInv'
      <3>1. Holds(n) /\ ReaderAt(n) /\ PlaylistInv
        BY <2>1, <2>4
      <3>2. Loaded' = Loaded /\ Opened' = Opened /\ Filled' = Filled /\ First(n)' = First(n)
        BY <1>1, <1>2 DEF Loaded, Opened, Filled, Sent, First
      <3>3. Holds(n)'
        BY <1>2, <2>2, <3>1, <3>2 DEF Holds
      <3>4. Place(n)' = Place(n)
        BY <1>2, <3>2 DEF Place
      <3>5. ReaderAt(n)'
        BY <1>2, <3>1, <3>4 DEF ReaderAt
      <3>6. PlaylistInv'
        BY <1>2, <3>1, <3>2 DEF PlaylistInv
      <3> QED BY <3>3, <3>5, <3>6
    <2> QED BY <1>2, <1>5, <2>3, <2>4
  <1>11. EosInv'
    <2>1. ~isEos
      BY <1>1 DEF IInv, EosInv
    <2>2. down'.eos /\ InStep' => srcresult' # "OK" /\ reader' = "top" /\ jsPending' = "EOS"
      BY <1>2, <1>5 DEF IInv, EosInv
    <2> QED BY <1>2, <2>1, <2>2 DEF EosInv
  <1>12. InOrder'
    BY <1>2 DEF IInv, InOrder, Incomplete
  <1>13. NoEarlyEos'
    BY <1>2 DEF IInv, NoEarlyEos, LastSegment, Incomplete
  <1> QED BY <1>6, <1>7, <1>8, <1>9, <1>10, <1>11, <1>12, <1>13 DEF IInv

LEMMA SegmentAdvancesIInv == ASSUME IInv, SegmentAdvances PROVE IInv'
  <1>1. CASE MayWrite(NextIndex(writeIndex))
    <2> DEFINE i == NextIndex(writeIndex)
    <2>1. writer = "ready" /\ writeIndex' = i /\ Prepare(i)
      BY <1>1 DEF SegmentAdvances
    <2>2. UNCHANGED <<playlist, readIndex, flagVars, readerVars, seekVars, downFlushing, down, races>>
      BY DEF SegmentAdvances
    <2>3. RingTypes
      BY TypeParts DEF IInv
    <2>4. i \in -1 .. NumCached - 1
      <3>1. i \in Caches
        BY <2>3, NextIndexFacts DEF RingTypes
      <3> QED BY <3>1, NumCachedAssumption DEF Caches
    <2>5. srcresult = "OK" => writeReady[i]
      BY <1>1 DEF MayWrite
    <2>6. \A n \in 0 .. NumCached : Ring(n) => i = Ahead(n)
      BY <2>1 DEF Ring, WriterAtCache
    <2> HIDE DEF i
    <2> QED BY <2>1, <2>2, <2>4, <2>5, <2>6, PrepareIInv
  <1>2. CASE ~MayWrite(NextIndex(writeIndex))
    BY <1>2, SegmentFull
  <1> QED BY <1>1, <1>2

LEMMA SegmentWakesIInv == ASSUME IInv, SegmentWakes PROVE IInv'
  <1>0. JsTypeOK /\ RingTypes /\ FlagTypes /\ ThreadTypes /\ SeekTypes /\ OutTypes /\ SourceInv
    BY TypeParts DEF IInv
  <1>1. writer = "woken" /\ WriterAtCache
    BY DEF SegmentWakes, WriterAtCache
  <1>2. jsPc = "push" /\ jsOut.type = "segment"
    BY <1>0, <1>1 DEF SourceInv
  <1>3. UNCHANGED <<playlist, writeIndex, readIndex, flagVars, readerVars, seekVars, downFlushing, down,
                    races>>
    BY DEF SegmentWakes
  <1>4. CASE srcresult # "OK"
    <2>1. /\ writer' = "none" /\ SourcePushed("OK")
          /\ UNCHANGED <<cacheSize, writeReady, content, readPosition>>
      BY <1>4 DEF SegmentWakes
    <2>2. /\ JsTypeOK' /\ jsOut' = Nothing /\ jsOut'.type = "nothing" /\ jsPc' = "end"
          /\ UNCHANGED <<jsResult, jsUpdate, padFlushing>> /\ jsPending' = "UNKNOWN"
      BY <1>0, <1>2, <2>1, PushedFacts
    <2>3. UNCHANGED <<ringVars, isFlushing, srcresult, isEos, downFlushing, down, readerVars, seekVars>>
      BY <1>3, <2>1 DEF flagVars, ringVars
    <2>4. SourceInv'
      BY <2>1, <2>2 DEF SourceInv
    <2>5. jsPending # "EOS" /\ ~WriterAtCache'
      BY <1>0, <1>2, <2>1 DEF SourceInv, WriterAtCache
    <2>6. playlist' \in Playlists /\ (playlist'.block < Blocks => playlist'.segment > 0)
      BY <1>0, <1>3 DEF OutTypes, RingTypes
    <2> QED BY <1>3, <1>4, <2>1, <2>2, <2>3, <2>4, <2>5, <2>6, SourceFrame
  <1>5. CASE srcresult = "OK" /\ writeReady[writeIndex]
    <2>1. Prepare(writeIndex) /\ writeIndex' = writeIndex
      BY <1>3, <1>5 DEF SegmentWakes
    <2>2. writeIndex \in -1 .. NumCached - 1
      BY <1>0 DEF RingTypes
    <2>3. \A n \in 0 .. NumCached : Ring(n) => writeIndex = Ahead(n)
      BY <1>1 DEF Ring
    <2> QED BY <1>1, <1>3, <1>5, <2>1, <2>2, <2>3, PrepareIInv
  <1>6. CASE srcresult = "OK" /\ ~writeReady[writeIndex]
    <2>1. writer' = "full" /\ UNCHANGED <<jsVars, cacheSize, writeReady, content, readPosition>>
      BY <1>6 DEF SegmentWakes
    <2>2. UNCHANGED ringVars
      BY <1>3, <2>1 DEF ringVars
    <2>3. WriterAtCache'
      BY <2>1 DEF WriterAtCache
    <2> QED BY <1>1, <1>2, <1>3, <2>1, <2>2, <2>3, HandlerGoesOn
  <1> QED BY <1>4, <1>5, <1>6

-----------------------------------------------------------------------------
(* The reader *)

\* A reader that looks at the ring has not been stopped at the end.
LEMMA LooksFacts ==
    ASSUME IInv, ReaderLooks, srcresult = "OK"
    PROVE  /\ reader \in {"top", "awake"}
           /\ InStep => seeker \in {"idle", "flushing"} /\ ~down.eos
           /\ InStep /\ isEos => writer # "checked" /\ jsPending = "EOS"
  <1>1. reader = "awake" \/ (reader = "top" /\ task # "paused")
    BY DEF ReaderLooks
  <1> QED BY <1>1 DEF IInv, FlushInv, EosInv

\* A step of the reader that takes nothing from the ring.
LEMMA ReaderFrame ==
    ASSUME IInv,
           UNCHANGED <<jsVars, playlist, ringVars, isFlushing, isEos, writer, seekVars, downFlushing, races>>,
           FlagTypes', OutTypes', reader' \in {"top", "waiting", "awake", "push", "store"},
           task' \in {task, "paused"},
           srcresult' = "OK" => srcresult = "OK",
           InStep /\ seeker = "locking" => reader' = "top",
           srcresult' = "OK" =>
              \A n \in 0 .. NumCached : Place(n)' = Place(n) /\ ReaderAt(n) => ReaderAt(n)',
           EosInv', InOrder', NoEarlyEos'
    PROVE  IInv'
  <1>0. JsTypeOK /\ RingTypes /\ FlagTypes /\ ThreadTypes /\ SeekTypes /\ OutTypes /\ SourceInv
    BY TypeParts DEF IInv
  <1>1. /\ UNCHANGED <<jsResult, jsPending, jsPosition, jsUpdate, jsPc, jsOut, jsReturn, padFlushing>>
        /\ UNCHANGED <<seeker, seek, seeks>>
    BY DEF jsVars, seekVars
  <1>2. (InStep' <=> InStep) /\ (Whole' <=> Whole) /\ (Empty' <=> Empty)
    BY EmptyFrame DEF InStep, Whole
  <1>3. TypeInv'
    <2>1. JsTypeOK'
      BY <1>0, <1>1 DEF JsTypeOK
    <2>2. RingTypes'
      BY <1>0 DEF RingTypes, ringVars
    <2>3. ThreadTypes'
      BY <1>0 DEF ThreadTypes
    <2>4. SeekTypes'
      BY <1>0, <1>1 DEF SeekTypes
    <2> QED BY <2>1, <2>2, <2>3, <2>4, TypePartsNext
  <1>4. SourceInv'
    BY <1>0, <1>1 DEF SourceInv
  <1>5. FlushInv'
    BY <1>1, <1>2 DEF IInv, FlushInv
  <1>6. FitInv'
    <2>1. Sent' = Sent
      BY <1>1 DEF Sent
    <2>2. content' = content /\ writeIndex' = writeIndex
      BY DEF ringVars
    <2> QED BY <1>1, <2>1, <2>2 DEF IInv, FitInv
  <1>7. RingInv'
    <2> SUFFICES ASSUME InStep', srcresult' = "OK"
                 PROVE  \E n \in 0 .. NumCached :
                         /\ Ring(n)'
                         /\ Whole' /\ seeker' = "idle" => Holds(n)' /\ ReaderAt(n)' /\ PlaylistInv'
      BY DEF RingInv
    <2>1. PICK n \in 0 .. NumCached :
           /\ Ring(n)
           /\ Whole /\ seeker = "idle" => Holds(n) /\ ReaderAt(n) /\ PlaylistInv
      BY <1>2 DEF IInv, RingInv
    <2>2. Ring(n)'
      <3>1. (WriterAtCache' <=> WriterAtCache) /\ Sent' = Sent
        BY <1>1 DEF WriterAtCache, Sent
      <3> QED BY <1>1, <2>1, <3>1, RingFrame
    <2>3. Loaded' = Loaded /\ Opened' = Opened /\ Filled' = Filled
      BY <1>1 DEF Loaded, Opened, Filled, Sent
    <2>4. Place(n)' = Place(n) /\ (Holds(n) => Holds(n)')
      BY <2>3, HoldsFrame
    <2>5. PlaylistInv => PlaylistInv'
      BY <1>1, <2>3 DEF PlaylistInv
    <2> QED BY <1>1, <1>2, <2>1, <2>2, <2>4, <2>5
  <1> QED BY <1>3, <1>4, <1>5, <1>6, <1>7 DEF IInv

LEMMA ReaderWaitsIInv == ASSUME IInv, ReaderWaits PROVE IInv'
  <1>0. FlagTypes /\ OutTypes
    BY TypeParts DEF IInv
  <1>1. ReaderLooks /\ srcresult = "OK" /\ ~isEos /\ reader' = "waiting"
    BY DEF ReaderWaits
  <1>2. /\ UNCHANGED <<jsVars, playlist, ringVars, isFlushing, isEos, writer, seekVars, downFlushing, races>>
        /\ UNCHANGED <<srcresult, task, out, down>>
    BY DEF ReaderWaits, flagVars
  <1>3. reader \in {"top", "awake"} /\ (InStep => seeker \in {"idle", "flushing"} /\ ~down.eos)
    BY <1>1, LooksFacts
  <1>4. FlagTypes'
    BY <1>0, <1>2 DEF FlagTypes
  <1>5. OutTypes'
    BY <1>0, <1>1, <1>2 DEF OutTypes, ringVars, jsVars
  <1>6. \A n \in 0 .. NumCached : Place(n)' = Place(n) /\ ReaderAt(n) => ReaderAt(n)'
    BY <1>1, <1>2, <1>3 DEF ReaderAt
  <1>7. EosInv'
    BY <1>1, <1>2, <1>3 DEF EosInv, InStep
  <1>8. InOrder' /\ NoEarlyEos'
    BY <1>1, <1>2 DEF IInv, InOrder, NoEarlyEos, LastSegment, Incomplete
  <1> QED BY <1>1, <1>2, <1>3, <1>4, <1>5, <1>6, <1>7, <1>8, ReaderFrame

LEMMA ReaderStopsIInv == ASSUME IInv, ReaderStops PROVE IInv'
  <1>0. FlagTypes /\ OutTypes
    BY TypeParts DEF IInv
  <1>1. srcresult # "OK" /\ reader' = "top" /\ task' \in {task, "paused"}
    BY DEF ReaderStops, Leave
  <1>2. /\ UNCHANGED <<jsVars, playlist, ringVars, isFlushing, isEos, writer, seekVars, downFlushing, races>>
        /\ UNCHANGED <<srcresult, out, down>>
    BY DEF ReaderStops, flagVars
  <1>3. FlagTypes'
    BY <1>0, <1>2 DEF FlagTypes
  <1>4. OutTypes'
    BY <1>0, <1>1, <1>2 DEF OutTypes, ringVars, jsVars
  <1>5. EosInv'
    <2>1. (writer' = "ready" \/ WriterAtCache') => ~isEos'
      BY <1>2 DEF IInv, EosInv, WriterAtCache
    <2>2. InStep => ~(isEos /\ writer = "checked")
      BY <1>1 DEF IInv, EosInv
    <2>3. InStep /\ down.eos => jsPending' = "EOS"
      BY <1>2 DEF IInv, EosInv, jsVars
    <2> QED BY <1>1, <1>2, <2>1, <2>2, <2>3 DEF EosInv, InStep
  <1>6. InOrder' /\ NoEarlyEos'
    BY <1>1, <1>2 DEF IInv, InOrder, NoEarlyEos, LastSegment, Incomplete
  <1> QED BY <1>1, <1>2, <1>3, <1>4, <1>5, <1>6, ReaderFrame

\* At the end of the stream the reader has pushed everything.
LEMMA EndReached ==
    ASSUME IInv, ReaderLooks, srcresult = "OK", AtEnd, Whole, ~downFlushing
    PROVE  down.next = [segment |-> LastSegment, block |-> 0]
  <1>0. RingTypes /\ FlagTypes /\ OutTypes /\ SourceInv
    BY TypeParts DEF IInv
  <1>1. InStep /\ isEos /\ ~Available
    BY DEF AtEnd, Whole
  <1>2. reader \in {"top", "awake"} /\ seeker = "idle" /\ jsPending = "EOS"
    <2>1. reader \in {"top", "awake"} /\ seeker \in {"idle", "flushing"} /\ jsPending = "EOS"
      BY <1>1, LooksFacts
    <2> QED BY <2>1 DEF IInv, FlushInv
  <1>3. PICK n \in 0 .. NumCached : Ring(n) /\ Holds(n) /\ ReaderAt(n) /\ PlaylistInv
    BY <1>1, <1>2 DEF IInv, RingInv
  <1>4. down.next = Place(n)
    BY <1>2, <1>3 DEF ReaderAt
  <1>5. jsOut.type # "segment" /\ jsOut.type # "buffer"
    BY <1>0, <1>2 DEF SourceInv
  <1>6. ~Loaded /\ Opened = LastSegment /\ Filled = Blocks
    BY <1>2, <1>3, <1>5 DEF Loaded, Opened, Filled, Sent, PlaylistInv, LastSegment
  <1>7. readIndex \in Caches /\ Rank(readIndex) = 0
    BY <1>0, RankFacts DEF RingTypes
  <1>8. n = 0
    <2> SUFFICES ASSUME n # 0 PROVE FALSE
      OBVIOUS
    <2>1. n > 0 /\ ~(0 >= n) /\ Rank(readIndex) < n
      BY <1>7, NumCachedAssumption
    <2>2. ~writeReady[readIndex]
      BY <1>3, <1>7, <2>1 DEF Ring
    <2>3. readPosition[readIndex] < Blocks
      BY <1>3, <1>7, <2>2 DEF Ring
    <2>4. Len(content[readIndex]) = Blocks
      BY <1>3, <1>6, <1>7, <2>1 DEF Holds
    <2> QED BY <1>1, <2>3, <2>4 DEF Available
  <1>9. Place(n) = [segment |-> LastSegment, block |-> 0]
    <2>1. LastSegment \in Int
      BY <1>0, SegmentsAssumption DEF RingTypes, Playlists, LastSegment
    <2>2. First(n) = LastSegment
      BY <1>6, <1>8, <2>1 DEF First
    <2> QED BY <1>8, <2>2 DEF Place
  <1> QED BY <1>4, <1>9

LEMMA ReaderEndsIInv == ASSUME IInv, ReaderEnds PROVE IInv'
  <1>0. FlagTypes /\ OutTypes
    BY TypeParts DEF IInv
  <1>1. /\ ReaderLooks /\ srcresult = "OK" /\ AtEnd /\ isEos
        /\ srcresult' = "FLUSHING" /\ reader' = "top" /\ task' \in {task, "paused"}
    BY DEF ReaderEnds, Leave, AtEnd
  <1>2. /\ UNCHANGED <<jsVars, playlist, ringVars, isFlushing, isEos, writer, seekVars, downFlushing, races>>
        /\ UNCHANGED out
    BY DEF ReaderEnds
  <1>3. down' = IF downFlushing THEN down ELSE [down EXCEPT !.eos = TRUE]
    BY DEF ReaderEnds
  <1>4. down' \in [next : Positions, eos : BOOLEAN] /\ down'.next = down.next /\ (downFlushing => down' = down)
    BY <1>0, <1>3 DEF FlagTypes
  <1>5. InStep => writer # "checked"
    BY <1>1, LooksFacts
  <1>6. FlagTypes'
    BY <1>0, <1>1, <1>2, <1>4 DEF FlagTypes, Flow
  <1>7. OutTypes'
    BY <1>0, <1>1, <1>2 DEF OutTypes, ringVars, jsVars
  <1>8. EosInv'
    <2>1. (writer' = "ready" \/ WriterAtCache') => ~isEos'
      BY <1>2 DEF IInv, EosInv, WriterAtCache
    <2>2. InStep => jsPending = "EOS"
      BY <1>1, LooksFacts
    <2> QED BY <1>1, <1>2, <1>5, <2>1, <2>2 DEF EosInv, InStep, jsVars
  <1>9. InOrder'
    BY <1>1 DEF InOrder, Incomplete
  <1>10. NoEarlyEos'
    <2> SUFFICES ASSUME down'.eos, Whole PROVE down'.next = [segment |-> LastSegment, block |-> 0]
      BY <1>2 DEF NoEarlyEos, LastSegment, Incomplete, Whole, InStep
    <2>1. CASE downFlushing
      BY <1>4, <2>1 DEF IInv, NoEarlyEos, LastSegment, Incomplete, Whole, InStep
    <2>2. CASE ~downFlushing
      BY <1>1, <1>4, <2>2, EndReached
    <2> QED BY <2>1, <2>2
  <1> QED BY <1>1, <1>2, <1>6, <1>7, <1>8, <1>9, <1>10, ReaderFrame

LEMMA ReaderPushesIInv == ASSUME IInv, ReaderPushes PROVE IInv'
  <1>0. FlagTypes /\ OutTypes
    BY TypeParts DEF IInv
  <1>1. reader = "push" /\ reader' = "store"
    BY DEF ReaderPushes
  <1>2. PICK result \in {"OK", "FLUSHING", "ERROR"} :
           /\ down' = IF result = "OK" THEN [down EXCEPT !.next = BlockAfter(out.block)] ELSE down
           /\ out' = [type |-> "result", result |-> result]
    BY DEF ReaderPushes
  <1>3. /\ UNCHANGED <<jsVars, playlist, ringVars, isFlushing, isEos, writer, seekVars, downFlushing, races>>
        /\ UNCHANGED <<srcresult, task>>
    BY DEF ReaderPushes, flagVars
  <1>4. out'.result = result
    BY <1>2
  <1>5. BlockAfter(out.block) \in Positions
    <2>1. out.block \in Stream
      BY <1>0, <1>1 DEF OutTypes
    <2> DEFINE b == out.block
    <2>2. b \in [segment : 0 .. Segments - 1, block : 0 .. Blocks - 1]
      BY <2>1 DEF Stream
    <2> HIDE DEF b
    <2>3. [b EXCEPT !.block = b.block + 1] = [segment |-> b.segment, block |-> b.block + 1]
      BY <2>2
    <2>4. BlockAfter(b) \in Positions
      <3>1. b.segment \in 0 .. Segments - 1 /\ b.block \in 0 .. Blocks - 1
        BY <2>2
      <3>2. CASE b.block + 1 < Blocks
        BY <2>3, <3>1, <3>2, SegmentsAssumption, BlocksAssumption DEF BlockAfter, Positions
      <3>3. CASE ~(b.block + 1 < Blocks)
        BY <3>1, <3>3, SegmentsAssumption, BlocksAssumption DEF BlockAfter, Positions
      <3> QED BY <3>2, <3>3
    <2> QED BY <2>4 DEF b
  <1>6. /\ down' \in [next : Positions, eos : BOOLEAN] /\ down'.eos = down.eos
        /\ result = "OK" => down'.next = BlockAfter(out.block)
    <2>1. down \in [next : Positions, eos : BOOLEAN]
      BY <1>0 DEF FlagTypes
    <2> QED BY <1>2, <1>5, <2>1
  <1>7. InStep => seeker # "locking" /\ ~down.eos
    BY <1>1 DEF IInv, FlushInv, EosInv
  <1>8. FlagTypes'
    BY <1>0, <1>3, <1>6 DEF FlagTypes
  <1>9. OutTypes'
    <2>1. out'.result \in Flow
      BY <1>4 DEF Flow
    <2> QED BY <1>0, <1>1, <1>3, <2>1 DEF OutTypes, ringVars, jsVars
  <1>10. \A n \in 0 .. NumCached : Place(n)' = Place(n) /\ ReaderAt(n) => ReaderAt(n)'
    BY <1>1, <1>4, <1>6 DEF ReaderAt
  <1>11. EosInv'
    <2>1. (writer' = "ready" \/ WriterAtCache') => ~isEos'
      BY <1>3 DEF IInv, EosInv, WriterAtCache
    <2>2. InStep => ~(isEos /\ (writer = "checked" \/ (jsPending # "EOS" /\ srcresult = "OK")))
      BY <1>1 DEF IInv, EosInv
    <2> QED BY <1>3, <1>6, <1>7, <2>1, <2>2 DEF EosInv, InStep, jsVars
  <1>12. InOrder'
    BY <1>1 DEF InOrder, Incomplete
  <1>13. NoEarlyEos'
    BY <1>3, <1>6, <1>7 DEF NoEarlyEos, LastSegment, Incomplete, InStep
  <1> QED BY <1>1, <1>3, <1>7, <1>8, <1>9, <1>10, <1>11, <1>12, <1>13, ReaderFrame

LEMMA ReaderStoresIInv == ASSUME IInv, ReaderStores PROVE IInv'
  <1>0. FlagTypes /\ OutTypes
    BY TypeParts DEF IInv
  <1>1. reader = "store" /\ reader' = "top" /\ task' \in {task, "paused"} /\ srcresult' = Stored(out.result)
    BY DEF ReaderStores, Leave
  <1>2. /\ UNCHANGED <<jsVars, playlist, ringVars, isFlushing, isEos, writer, seekVars, downFlushing, races>>
        /\ UNCHANGED down
    BY DEF ReaderStores
  <1>3. srcresult' \in Flow /\ (srcresult' = "OK" => srcresult = "OK" /\ out.result = "OK")
    BY <1>0, <1>1 DEF Stored, OutTypes, FlagTypes
  <1>4. FlagTypes'
    BY <1>0, <1>2, <1>3 DEF FlagTypes
  <1>5. OutTypes'
    BY <1>0, <1>1, <1>2 DEF OutTypes, ringVars, jsVars
  <1>6. srcresult' = "OK" => \A n \in 0 .. NumCached : Place(n)' = Place(n) /\ ReaderAt(n) => ReaderAt(n)'
    BY <1>1, <1>2, <1>3 DEF ReaderAt
  <1>7. EosInv'
    <2>1. (writer' = "ready" \/ WriterAtCache') => ~isEos'
      BY <1>2 DEF IInv, EosInv, WriterAtCache
    <2>2. InStep => /\ ~(isEos /\ (writer = "checked" \/ (jsPending # "EOS" /\ srcresult = "OK")))
                    /\ ~down.eos
      BY <1>1 DEF IInv, EosInv
    <2> QED BY <1>2, <1>3, <2>1, <2>2 DEF EosInv, InStep, jsVars
  <1>8. InOrder'
    BY <1>1 DEF InOrder, Incomplete
  <1>9. NoEarlyEos'
    BY <1>2 DEF IInv, NoEarlyEos, LastSegment, Incomplete
  <1> QED BY <1>1, <1>2, <1>3, <1>4, <1>5, <1>6, <1>7, <1>8, <1>9, ReaderFrame

\* A signal to the writer moves it only from the wait.
LEMMA SignalDelFacts ==
    ASSUME SignalDel, ThreadTypes
    PROVE  /\ writer' \in {"none", "sizing", "checked", "ready", "full", "waiting", "woken"}
           /\ writer' = writer \/ (writer = "waiting" /\ writer' = "woken")
           /\ WriterAtCache' <=> WriterAtCache
  BY DEF SignalDel, ThreadTypes, WriterAtCache

\* What the reader takes lies in the first of the caches that are not ready.
LEMMA TakenCache ==
    ASSUME IInv, srcresult = "OK", Available, NEW n \in 0 .. NumCached, Ring(n)
    PROVE  /\ n > 0 /\ ~writeReady[readIndex] /\ cacheSize[readIndex] = Blocks
           /\ readPosition[readIndex] \in 0 .. Blocks - 1
           /\ Len(content[readIndex]) \in 1 .. Blocks
           /\ readPosition[readIndex] + 1 \in 1 .. Len(content[readIndex])
           /\ writeIndex \in Caches
  <1>0. RingTypes
    BY TypeParts DEF IInv
  <1>1. readIndex \in Caches /\ Rank(readIndex) = 0
    BY <1>0, RankFacts DEF RingTypes
  <1>2. readPosition[readIndex] \in 0 .. Blocks /\ Len(content[readIndex]) \in Nat
    BY <1>0, <1>1 DEF RingTypes
  <1>3. readPosition[readIndex] < Len(content[readIndex])
    BY DEF Available
  <1>4. Len(content[readIndex]) <= Blocks
    BY <1>1 DEF IInv, FitInv
  <1>5. ~writeReady[readIndex]
    BY <1>1, <1>2, <1>3, BlocksAssumption DEF Ring
  <1>6. n > 0
    BY <1>1, <1>5, NumCachedAssumption DEF Ring
  <1>7. cacheSize[readIndex] = Blocks
    BY <1>1, <1>5 DEF Ring
  <1>8. writeIndex \in Caches
    BY <1>6, NumCachedAssumption DEF Ring
  <1> QED BY <1>2, <1>3, <1>4, <1>5, <1>6, <1>7, <1>8, BlocksAssumption

\* The block that is taken is the one at the place of the reader.
LEMMA TakenBlock ==
    ASSUME IInv, srcresult = "OK", Available, NEW n \in 0 .. NumCached, Ring(n), Holds(n)
    PROVE  content[readIndex][readPosition[readIndex] + 1] = Place(n)
  <1>0. RingTypes
    BY TypeParts DEF IInv
  <1>1. readIndex \in Caches /\ Rank(readIndex) = 0
    BY <1>0, RankFacts DEF RingTypes
  <1>2. /\ n > 0 /\ readPosition[readIndex] \in 0 .. Blocks - 1
        /\ readPosition[readIndex] + 1 \in 1 .. Len(content[readIndex])
    BY TakenCache
  <1>3. Rank(readIndex) < n
    BY <1>1, <1>2
  <1>4. content[readIndex][readPosition[readIndex] + 1] =
           [segment |-> First(n) + 0, block |-> (readPosition[readIndex] + 1) - 1]
    BY <1>1, <1>2, <1>3 DEF Holds
  <1>5. (readPosition[readIndex] + 1) - 1 = readPosition[readIndex]
    BY <1>2, BlocksAssumption
  <1>6. First(n) + 0 = First(n)
    <2>1. playlist.segment \in Int
      BY <1>0, SegmentsAssumption DEF RingTypes, Playlists
    <2>2. Opened \in Int
      BY <2>1 DEF Opened
    <2> QED BY <2>2, NumCachedAssumption DEF First
  <1>7. n # 0
    BY <1>2, NumCachedAssumption
  <1> QED BY <1>4, <1>5, <1>6, <1>7 DEF Place

\* The reader goes on within its cache.
LEMMA ReadOn ==
    ASSUME IInv, srcresult = "OK", Available, NEW n \in 0 .. NumCached, Ring(n),
           readPosition[readIndex] + 1 # cacheSize[readIndex],
           readPosition' = [readPosition EXCEPT ![readIndex] = readPosition[readIndex] + 1],
           UNCHANGED <<content, cacheSize, writeReady, writeIndex, readIndex, writer, jsVars, playlist>>
    PROVE  /\ Ring(n)'
           /\ Holds(n) => Holds(n)'
           /\ Holds(n) => BlockAfter(Place(n)) = Place(n)'
  <1>0. RingTypes
    BY TypeParts DEF IInv
  <1>1. /\ n > 0 /\ ~writeReady[readIndex] /\ cacheSize[readIndex] = Blocks /\ n # 0
        /\ readPosition[readIndex] \in 0 .. Blocks - 1 /\ writeIndex \in Caches
    BY TakenCache, NumCachedAssumption
  <1>2. readIndex \in Caches /\ readPosition \in [Caches -> 0 .. Blocks]
    BY <1>0 DEF RingTypes
  <1>3. \A i \in Caches : readPosition'[i] = IF i = readIndex THEN readPosition[readIndex] + 1
                                             ELSE readPosition[i]
    BY <1>2
  <1>4. readPosition[readIndex] + 1 < Blocks
    BY <1>1, BlocksAssumption
  <1>5. (\A i \in Caches : Rank(i)' = Rank(i)) /\ Ahead(n)' = Ahead(n) /\ (WriterAtCache' <=> WriterAtCache)
    BY DEF Rank, Ahead, WriterAtCache
  <1>6. Ring(n)'
    <2>1. \A i \in Caches : writeReady'[i] <=> Rank(i)' >= n
      BY <1>5 DEF Ring
    <2>2. (IF WriterAtCache' THEN writeIndex' ELSE NextIndex(writeIndex')) = Ahead(n)'
      BY <1>5 DEF Ring
    <2>3. \A i \in Caches :
            IF writeReady'[i]
            THEN readPosition'[i] = Len(content'[i]) /\ Len(content'[i]) \in {0, Blocks}
            ELSE cacheSize'[i] = Blocks /\ readPosition'[i] < Blocks
      BY <1>1, <1>3, <1>4 DEF Ring
    <2>4. jsPending' = "UNKNOWN" /\ ~padFlushing' /\ Sent' < Blocks =>
            writeIndex' \in Caches /\ (writeReady'[writeIndex'] => Len(content'[writeIndex']) = Blocks)
      <3>1. Sent' = Sent
        BY DEF Sent, jsVars
      <3> QED BY <3>1 DEF Ring, jsVars
    <2> QED BY <1>1, <2>1, <2>2, <2>3, <2>4 DEF Ring, NextIndex
  <1>7. Opened' = Opened /\ Filled' = Filled /\ First(n)' = First(n)
    BY DEF Opened, Filled, Sent, Loaded, First, jsVars
  <1>8. Holds(n) => Holds(n)'
    BY <1>3, <1>5, <1>7 DEF Holds
  <1>9. BlockAfter(Place(n)) = Place(n)'
    <2>1. Place(n) = [segment |-> First(n), block |-> readPosition[readIndex]]
      BY <1>1 DEF Place
    <2>2. Place(n)' = [segment |-> First(n), block |-> readPosition[readIndex] + 1]
      BY <1>1, <1>2, <1>3, <1>7 DEF Place
    <2> QED BY <1>4, <2>1, <2>2 DEF BlockAfter
  <1> QED BY <1>6, <1>8, <1>9

\* The reader gives its cache back and goes on to the next.
LEMMA ReadOver ==
    ASSUME IInv, srcresult = "OK", Available, NEW n \in 0 .. NumCached, Ring(n),
           readPosition[readIndex] + 1 = cacheSize[readIndex],
           readPosition' = [readPosition EXCEPT ![readIndex] = readPosition[readIndex] + 1],
           writeReady' = [writeReady EXCEPT ![readIndex] = TRUE],
           readIndex' = NextIndex(readIndex), WriterAtCache' <=> WriterAtCache,
           writer' = "sizing" <=> writer = "sizing",
           UNCHANGED <<content, cacheSize, writeIndex, jsVars, playlist>>
    PROVE  /\ n - 1 \in 0 .. NumCached
           /\ Ring(n - 1)'
           /\ Holds(n) => Holds(n - 1)'
           /\ Holds(n) => BlockAfter(Place(n)) = Place(n - 1)'
  <1>0. RingTypes
    BY TypeParts DEF IInv
  <1>1. /\ n > 0 /\ ~writeReady[readIndex] /\ cacheSize[readIndex] = Blocks /\ n # 0
        /\ readPosition[readIndex] \in 0 .. Blocks - 1 /\ writeIndex \in Caches
        /\ Len(content[readIndex]) \in 1 .. Blocks
        /\ readPosition[readIndex] + 1 \in 1 .. Len(content[readIndex])
    BY TakenCache, NumCachedAssumption
  <1>2. /\ readIndex \in Caches /\ readPosition \in [Caches -> 0 .. Blocks]
        /\ writeReady \in [Caches -> BOOLEAN]
    BY <1>0 DEF RingTypes
  <1>3. /\ \A i \in Caches : readPosition'[i] = IF i = readIndex THEN Blocks ELSE readPosition[i]
        /\ Len(content[readIndex]) = Blocks /\ readPosition[readIndex] + 1 = Blocks
    <2>1. readPosition[readIndex] + 1 = Blocks
      BY <1>1
    <2>2. Len(content[readIndex]) = Blocks
      BY <1>1, <2>1, BlocksAssumption
    <2>3. readPosition' = [readPosition EXCEPT ![readIndex] = Blocks]
      BY <2>1
    <2> QED BY <1>2, <2>1, <2>2, <2>3
  <1>4. \A i \in Caches : writeReady'[i] <=> (i = readIndex \/ writeReady[i])
    BY <1>2
  <1>5. n - 1 \in 0 .. NumCached /\ n \in 1 .. NumCached
    BY <1>1, NumCachedAssumption
  <1>6. /\ readIndex' \in Caches
        /\ \A i \in Caches : Rank(i)' = IF i = readIndex THEN NumCached - 1 ELSE Rank(i) - 1
        /\ Ahead(n - 1)' = Ahead(n)
    BY <1>2, <1>5, RankAdvances
  <1>7. \A i \in Caches : Rank(i) \in 0 .. NumCached - 1 /\ (Rank(i) = 0 <=> i = readIndex)
    BY <1>2, RankFacts
  <1>8. Ring(n - 1)'
    <2>1. \A i \in Caches : writeReady'[i] <=> Rank(i)' >= n - 1
      <3>1. \A i \in Caches : writeReady[i] <=> Rank(i) >= n
        BY DEF Ring
      <3> TAKE i \in Caches
      <3>2. CASE i = readIndex
        <4>1. Rank(i)' >= n - 1
          BY <1>5, <1>6, <3>2, NumCachedAssumption
        <4> QED BY <1>4, <3>2, <4>1
      <3>3. CASE i # readIndex
        <4>1. Rank(i)' >= n - 1 <=> Rank(i) >= n
          BY <1>5, <1>6, <1>7, <3>3, NumCachedAssumption
        <4> QED BY <1>4, <3>1, <3>3, <4>1
      <3> QED BY <3>2, <3>3
    <2>2. (IF WriterAtCache' THEN writeIndex' ELSE NextIndex(writeIndex')) = Ahead(n - 1)'
      BY <1>6 DEF Ring
    <2>3. \A i \in Caches :
            IF writeReady'[i]
            THEN readPosition'[i] = Len(content'[i]) /\ Len(content'[i]) \in {0, Blocks}
            ELSE cacheSize'[i] = Blocks /\ readPosition'[i] < Blocks
      BY <1>3, <1>4 DEF Ring
    <2>4. jsPending' = "UNKNOWN" /\ ~padFlushing' /\ Sent' < Blocks =>
            writeIndex' \in Caches /\ (writeReady'[writeIndex'] => Len(content'[writeIndex']) = Blocks)
      <3>1. Sent' = Sent
        BY DEF Sent, jsVars
      <3> QED BY <1>1, <1>3, <1>4, <3>1 DEF Ring, jsVars
    <2> QED BY <1>1, <2>1, <2>2, <2>3, <2>4 DEF Ring, NextIndex
  <1>9. Loaded' = Loaded /\ Opened' = Opened /\ Filled' = Filled
    BY DEF Opened, Filled, Sent, Loaded, jsVars
  <1>10. First(n - 1)' = First(n) + 1 /\ First(n) \in Int
    <2>1. playlist.segment \in Int
      BY <1>0, SegmentsAssumption DEF RingTypes, Playlists
    <2>2. Opened \in Int
      BY <2>1 DEF Opened
    <2>3. First(n - 1)' = Opened - (n - 1) /\ First(n) = Opened - n
      BY <1>9 DEF First
    <2> QED BY <1>5, <2>2, <2>3, NumCachedAssumption
  <1>11. ASSUME Holds(n) PROVE Holds(n - 1)'
    <2> SUFFICES ASSUME NEW i \in Caches, Rank(i)' < n - 1
                 PROVE  /\ Len(content'[i]) = IF Rank(i)' < (n - 1) - 1 THEN Blocks ELSE Filled'
                        /\ i # readIndex' => readPosition'[i] = 0
                        /\ \A j \in 1 .. Len(content'[i]) :
                              content'[i][j] = [segment |-> First(n - 1)' + Rank(i)', block |-> j - 1]
      BY DEF Holds
    <2>1. i # readIndex
      BY <1>5, <1>6, NumCachedAssumption
    <2>2. /\ Rank(i)' = Rank(i) - 1 /\ Rank(i) < n
          /\ Rank(i) < n - 1 <=> Rank(i)' < (n - 1) - 1
          /\ First(n - 1)' + Rank(i)' = First(n) + Rank(i)
      BY <1>5, <1>6, <1>7, <1>10, <2>1, NumCachedAssumption
    <2>3. /\ Len(content[i]) = IF Rank(i) < n - 1 THEN Blocks ELSE Filled
          /\ readPosition[i] = 0
          /\ \A j \in 1 .. Len(content[i]) :
                content[i][j] = [segment |-> First(n) + Rank(i), block |-> j - 1]
      BY <1>11, <2>1, <2>2 DEF Holds
    <2> QED BY <1>3, <1>9, <2>1, <2>2, <2>3
  <1>12. ASSUME Holds(n) PROVE BlockAfter(Place(n)) = Place(n - 1)'
    <2>1. Place(n) = [segment |-> First(n), block |-> readPosition[readIndex]]
      BY <1>1 DEF Place
    <2>2. ~(readPosition[readIndex] + 1 < Blocks)
      BY <1>3, BlocksAssumption
    <2>3. BlockAfter(Place(n)) = [segment |-> First(n) + 1, block |-> 0]
      BY <2>1, <2>2 DEF BlockAfter
    <2>4. n - 1 # 0 => readPosition'[readIndex'] = 0
      <3> SUFFICES ASSUME n - 1 # 0 PROVE readPosition'[readIndex'] = 0
        OBVIOUS
      <3>0. PICK r \in Caches : r = readIndex'
        BY <1>6
      <3>1. Rank(r)' = 0
        <4>1. Rank(r)' = IF r >= readIndex' THEN r - readIndex' ELSE r - readIndex' + NumCached
          BY DEF Rank
        <4> QED BY <3>0, <4>1, NumCachedAssumption DEF Caches
      <3>2. r # readIndex
        BY <1>2, <1>5, <1>6, <3>1, NumCachedAssumption
      <3>3. Rank(r) < n
        <4>1. Rank(r)' = Rank(r) - 1 /\ Rank(r) \in 0 .. NumCached - 1
          BY <1>6, <1>7, <3>2
        <4> QED BY <1>5, <3>1, <4>1, NumCachedAssumption
      <3>4. readPosition[r] = 0
        BY <1>12, <3>2, <3>3 DEF Holds
      <3> QED BY <1>3, <3>0, <3>2, <3>4
    <2> QED BY <1>10, <2>3, <2>4 DEF Place
  <1> QED BY <1>5, <1>8, <1>11, <1>12

LEMMA ReaderReadsIInv == ASSUME IInv, ReaderReads PROVE IInv'
  <1>0. JsTypeOK /\ RingTypes /\ FlagTypes /\ ThreadTypes /\ SeekTypes /\ OutTypes /\ SourceInv
    BY TypeParts DEF IInv
  <1> DEFINE p == readPosition[readIndex] + 1
  <1>1. /\ ReaderLooks /\ srcresult = "OK" /\ Available /\ reader' = "push"
        /\ out' = [type |-> "buffer", block |-> content[readIndex][p]]
        /\ readPosition' = [readPosition EXCEPT ![readIndex] = p]
    BY DEF ReaderReads
  <1>2. /\ UNCHANGED <<jsVars, playlist, content, cacheSize, writeIndex, isFlushing, isEos, srcresult,
                       task, seeker, seek, seeks, downFlushing, down>>
        /\ UNCHANGED <<jsResult, jsPending, jsPosition, jsUpdate, jsPc, jsOut, jsReturn, padFlushing>>
    BY DEF ReaderReads, flagVars, seekVars, jsVars
  <1>3. \/ /\ p = cacheSize[readIndex] /\ writeReady' = [writeReady EXCEPT ![readIndex] = TRUE]
           /\ readIndex' = NextIndex(readIndex) /\ SignalDel
           /\ races' = races \/ races' = races \cup {"wakeupLost"}
        \/ p # cacheSize[readIndex] /\ UNCHANGED <<writeReady, readIndex, writer, races>>
    BY DEF ReaderReads, SegmentRead
  <1>4. /\ writer' \in {"none", "sizing", "checked", "ready", "full", "waiting", "woken"}
        /\ writer' = writer \/ (writer = "waiting" /\ writer' = "woken")
        /\ WriterAtCache' <=> WriterAtCache
    <2>1. CASE SignalDel
      BY <1>0, <2>1, SignalDelFacts
    <2>2. CASE writer' = writer
      BY <1>0, <2>2 DEF ThreadTypes, WriterAtCache
    <2> QED BY <1>3, <2>1, <2>2
  <1>5. races' = races \/ races' = races \cup {"wakeupLost"}
    BY <1>3
  <1>6. (InStep' <=> InStep) /\ (Whole' <=> Whole)
    BY <1>5 DEF InStep, Whole
  <1>7. /\ reader \in {"top", "awake"}
        /\ InStep => seeker \in {"idle", "flushing"} /\ ~down.eos
        /\ InStep /\ isEos => writer # "checked" /\ jsPending = "EOS"
    BY <1>1, LooksFacts
  <1>8. readIndex \in Caches /\ content[readIndex] \in Seq(Stream) /\ readPosition[readIndex] \in 0 .. Blocks
    BY <1>0 DEF RingTypes, OutTypes
  <1>9. p \in 1 .. Len(content[readIndex]) /\ p \in 0 .. Blocks
    <2>1. readPosition[readIndex] < Len(content[readIndex]) /\ Len(content[readIndex]) \in Nat
      BY <1>1, <1>8 DEF Available
    <2>2. Len(content[readIndex]) <= Blocks
      BY <1>1, <1>8 DEF IInv, FitInv
    <2> QED BY <1>8, <2>1, <2>2, BlocksAssumption
  <1>10. out'.block = content[readIndex][p] /\ content[readIndex][p] \in Stream
    <2>1. out'.block = content[readIndex][p]
      BY <1>1
    <2> HIDE DEF p
    <2> QED BY <1>8, <1>9, <2>1
  <1> HIDE DEF p
  <1>11. TypeInv'
    <2>1. JsTypeOK'
      BY <1>0, <1>2 DEF JsTypeOK
    <2>2. RingTypes'
      <3>1. readPosition' \in [Caches -> 0 .. Blocks]
        BY <1>0, <1>1, <1>9 DEF RingTypes
      <3>2. writeReady' \in [Caches -> BOOLEAN]
        BY <1>0, <1>3 DEF RingTypes
      <3>3. readIndex' \in Caches
        <4>1. \A i \in Caches : NextIndex(i) \in Caches
          BY NextIndexFacts, NumCachedAssumption DEF Caches
        <4> QED BY <1>3, <1>8, <4>1
      <3> QED BY <1>0, <1>2, <3>1, <3>2, <3>3 DEF RingTypes
    <2>3. FlagTypes'
      BY <1>0, <1>2 DEF FlagTypes
    <2>4. ThreadTypes'
      BY <1>0, <1>1, <1>2, <1>4 DEF ThreadTypes
    <2>5. SeekTypes'
      BY <1>0, <1>2, <1>5 DEF SeekTypes
    <2>6. OutTypes'
      BY <1>0, <1>1, <1>2, <1>10 DEF OutTypes
    <2> QED BY <2>1, <2>2, <2>3, <2>4, <2>5, <2>6, TypePartsNext
  <1>12. SourceInv'
    <2>1. (writer' = "none" <=> writer = "none") /\ (writer' = "sizing" <=> writer = "sizing")
      BY <1>4
    <2> QED BY <1>0, <1>2, <2>1 DEF SourceInv
  <1>13. FlushInv'
    <2>1. InStep' => seeker' \in {"idle", "flushing"}
      BY <1>2, <1>6, <1>7
    <2> QED BY <1>2, <2>1 DEF IInv, FlushInv
  <1>14. FitInv'
    <2>1. Sent' = Sent
      BY <1>2 DEF Sent
    <2> QED BY <1>1, <1>2, <2>1 DEF IInv, FitInv
  <1>15. RingInv'
    <2> SUFFICES ASSUME InStep', srcresult' = "OK"
                 PROVE  \E n \in 0 .. NumCached :
                         /\ Ring(n)'
                         /\ Whole' /\ seeker' = "idle" => Holds(n)' /\ ReaderAt(n)' /\ PlaylistInv'
      BY DEF RingInv
    <2>1. PICK n \in 0 .. NumCached :
           /\ Ring(n)
           /\ Whole /\ seeker = "idle" => Holds(n) /\ ReaderAt(n) /\ PlaylistInv
      BY <1>1, <1>6 DEF IInv, RingInv
    <2>2. PICK m \in 0 .. NumCached :
             Ring(m)' /\ (Holds(n) => Holds(m)') /\ (Holds(n) => BlockAfter(Place(n)) = Place(m)')
      <3>1. CASE p = cacheSize[readIndex]
        <4>1. /\ readPosition[readIndex] + 1 = cacheSize[readIndex]
              /\ readPosition' = [readPosition EXCEPT ![readIndex] = readPosition[readIndex] + 1]
          BY <1>1, <3>1 DEF p
        <4>2. writeReady' = [writeReady EXCEPT ![readIndex] = TRUE] /\ readIndex' = NextIndex(readIndex)
          BY <1>3, <3>1
        <4>3. writer' = "sizing" <=> writer = "sizing"
          BY <1>4
        <4>4. /\ n - 1 \in 0 .. NumCached
              /\ Ring(n - 1)' /\ (Holds(n) => Holds(n - 1)')
              /\ (Holds(n) => BlockAfter(Place(n)) = Place(n - 1)')
          BY <1>1, <1>2, <1>4, <2>1, <4>1, <4>2, <4>3, ReadOver
        <4> QED BY <4>4
      <3>2. CASE p # cacheSize[readIndex]
        <4>1. /\ readPosition[readIndex] + 1 # cacheSize[readIndex]
              /\ readPosition' = [readPosition EXCEPT ![readIndex] = readPosition[readIndex] + 1]
          BY <1>1, <3>2 DEF p
        <4>2. UNCHANGED <<writeReady, readIndex, writer>>
          BY <1>3, <3>2
        <4>3. /\ Ring(n)' /\ (Holds(n) => Holds(n)')
              /\ (Holds(n) => BlockAfter(Place(n)) = Place(n)')
          BY <1>1, <1>2, <2>1, <4>1, <4>2, ReadOn
        <4> QED BY <4>3
      <3> QED BY <3>1, <3>2
    <2>3. ASSUME Whole, seeker = "idle" PROVE Holds(m)' /\ ReaderAt(m)' /\ PlaylistInv'
      <3>1. Holds(n) /\ ReaderAt(n) /\ PlaylistInv
        BY <2>1, <2>3
      <3>2. content[readIndex][p] = Place(n)
        BY <1>1, <2>1, <3>1, TakenBlock DEF p
      <3>3. ReaderAt(m)'
        BY <1>1, <1>10, <2>2, <3>1, <3>2 DEF ReaderAt
      <3>4. Loaded' = Loaded
        BY <1>2, <1>4 DEF Loaded
      <3>5. PlaylistInv'
        BY <1>2, <3>1, <3>4 DEF PlaylistInv
      <3> QED BY <2>2, <3>1, <3>3, <3>5
    <2> QED BY <1>2, <1>6, <2>2, <2>3
  <1>16. EosInv'
    <2>1. (writer' = "ready" \/ WriterAtCache') => ~isEos'
      BY <1>2, <1>4 DEF IInv, EosInv
    <2>2. InStep' => ~(isEos' /\ (writer' = "checked" \/ (jsPending' # "EOS" /\ srcresult' = "OK")))
      BY <1>2, <1>4, <1>6, <1>7
    <2>3. InStep' => ~down'.eos
      BY <1>2, <1>6, <1>7
    <2> QED BY <2>1, <2>2, <2>3 DEF EosInv
  <1>17. InOrder'
    <2> SUFFICES ASSUME ~downFlushing, Whole PROVE out'.block = down.next
      BY <1>2, <1>6 DEF InOrder, Incomplete, Whole, InStep
    <2>1. InStep /\ seeker = "idle"
      BY <1>7 DEF IInv, FlushInv, Whole
    <2>2. PICK n \in 0 .. NumCached : Ring(n) /\ Holds(n) /\ ReaderAt(n)
      BY <1>1, <2>1 DEF IInv, RingInv
    <2>3. content[readIndex][p] = Place(n)
      BY <1>1, <2>2, TakenBlock DEF p
    <2>4. down.next = Place(n)
      BY <1>7, <2>2 DEF ReaderAt
    <2> QED BY <1>10, <2>3, <2>4
  <1>18. NoEarlyEos'
    BY <1>2, <1>5 DEF IInv, NoEarlyEos, LastSegment, Incomplete
  <1> QED BY <1>11, <1>12, <1>13, <1>14, <1>15, <1>16, <1>17, <1>18 DEF IInv

-----------------------------------------------------------------------------
(* The thread that seeks and stops *)

\* A step of that thread that leaves the element's ring and reader alone.
LEMMA SeekerFrame ==
    ASSUME IInv, JsTypeOK', FlagTypes', SeekTypes', SourceInv', FlushInv',
           UNCHANGED <<jsPending, jsOut, playlist, ringVars, isEos, srcresult, writer, readerVars, down, races>>,
           seeker' # "idle",
           seeker' \in {"pausing", "locking"} => seeker \in {"pausing", "locking"},
           padFlushing => padFlushing', downFlushing => downFlushing'
    PROVE  IInv'
  <1>0. JsTypeOK /\ RingTypes /\ FlagTypes /\ ThreadTypes /\ SeekTypes /\ OutTypes /\ SourceInv
    BY TypeParts DEF IInv
  <1>1. UNCHANGED <<reader, task, out>>
    BY DEF readerVars
  <1>2. (InStep' <=> InStep) /\ (Whole' <=> Whole) /\ (Empty' <=> Empty)
    BY EmptyFrame DEF InStep, Whole
  <1>3. TypeInv'
    <2>1. RingTypes'
      BY <1>0 DEF RingTypes, ringVars
    <2>2. ThreadTypes'
      BY <1>0, <1>1 DEF ThreadTypes
    <2>3. OutTypes'
      BY <1>0, <1>1 DEF OutTypes, ringVars
    <2> QED BY <2>1, <2>2, <2>3, TypePartsNext
  <1>4. FitInv'
    <2>1. Sent' = Sent
      BY DEF Sent
    <2>2. content' = content /\ writeIndex' = writeIndex
      BY DEF ringVars
    <2> QED BY <2>1, <2>2 DEF IInv, FitInv
  <1>5. RingInv'
    <2>1. (WriterAtCache' <=> WriterAtCache) /\ Sent' = Sent /\ RingInv
      BY DEF IInv, WriterAtCache, Sent
    <2> QED BY <1>1, <1>2, <2>1, RingInvFrame
  <1>6. EosInv'
    BY <1>1, <1>2 DEF IInv, EosInv, WriterAtCache
  <1>7. InOrder'
    BY <1>1 DEF IInv, InOrder, Incomplete
  <1>8. NoEarlyEos'
    BY DEF IInv, NoEarlyEos, LastSegment, Incomplete
  <1> QED BY <1>3, <1>4, <1>5, <1>6, <1>7, <1>8 DEF IInv

LEMMA SeekBeginsIInv == ASSUME IInv, SeekBegins PROVE IInv'
  <1>0. JsTypeOK /\ FlagTypes /\ SeekTypes /\ SourceInv
    BY TypeParts DEF IInv
  <1>1. /\ seeker = "idle" /\ seeker' = "flushing" /\ seeks < MaxSeeks /\ seeks' = seeks + 1
        /\ seek' \in 0 .. Segments /\ padFlushing' = TRUE /\ isFlushing' = TRUE /\ downFlushing' = TRUE
    BY DEF SeekBegins
  <1>2. UNCHANGED <<jsResult, jsPending, jsPosition, jsUpdate, jsPc, jsOut, jsReturn, playlist, ringVars,
                    isEos, srcresult, writer, readerVars, down, races>>
    BY DEF SeekBegins
  <1>3. JsTypeOK'
    BY <1>0, <1>1, <1>2 DEF JsTypeOK
  <1>4. FlagTypes'
    BY <1>0, <1>1, <1>2 DEF FlagTypes
  <1>5. SeekTypes'
    <2>1. seeks' \in 0 .. MaxSeeks
      BY <1>0, <1>1, MaxSeeksAssumption DEF SeekTypes
    <2> QED BY <1>0, <1>1, <1>2, <2>1 DEF SeekTypes
  <1>6. SourceInv'
    BY <1>0, <1>1, <1>2 DEF SourceInv
  <1>7. FlushInv'
    BY <1>1 DEF FlushInv
  <1> QED BY <1>1, <1>2, <1>3, <1>4, <1>5, <1>6, <1>7, SeekerFrame

LEMMA SeekPausesIInv == ASSUME IInv, SeekPauses PROVE IInv'
  <1>0. JsTypeOK /\ FlagTypes /\ SeekTypes /\ SourceInv
    BY TypeParts DEF IInv
  <1>1. /\ seeker = "pausing" /\ seeker' = "locking" /\ reader = "top" /\ jsResult' = "FLUSHING"
        /\ padFlushing' = (padFlushing \/ FALSE)
    BY DEF SeekPauses, SourceSeekBegins
  <1>2. UNCHANGED <<jsPending, jsPosition, jsUpdate, jsPc, jsOut, jsReturn, playlist, ringVars, isFlushing,
                    isEos, srcresult, writer, readerVars, seek, seeks, downFlushing, down, races>>
    BY DEF SeekPauses, SourceSeekBegins, flagVars
  <1>3. padFlushing' = padFlushing
    BY <1>0, <1>1 DEF JsTypeOK
  <1>4. JsTypeOK'
    BY <1>0, <1>1, <1>2, <1>3 DEF JsTypeOK, Flow
  <1>5. FlagTypes'
    BY <1>0, <1>2 DEF FlagTypes
  <1>6. SeekTypes'
    BY <1>0, <1>1, <1>2 DEF SeekTypes
  <1>7. SourceInv'
    BY <1>0, <1>1, <1>2 DEF SourceInv
  <1>8. FlushInv'
    <2>1. (InStep' <=> InStep) /\ (Empty' <=> Empty) /\ task' = task /\ reader' = reader
      BY <1>2, EmptyFrame DEF InStep, readerVars
    <2> QED BY <1>1, <1>2, <1>3, <2>1 DEF IInv, FlushInv
  <1> QED BY <1>1, <1>2, <1>3, <1>4, <1>5, <1>6, <1>7, <1>8, SeekerFrame

LEMMA StopEndsIInv == ASSUME IInv, StopEnds PROVE IInv'
  <1>0. JsTypeOK /\ FlagTypes /\ SeekTypes /\ SourceInv
    BY TypeParts DEF IInv
  <1>1. seeker = "joining" /\ seeker' = "stopped"
    BY DEF StopEnds
  <1>2. UNCHANGED <<jsResult, jsPending, jsPosition, jsUpdate, jsPc, jsOut, jsReturn, padFlushing, playlist,
                    ringVars, isFlushing, isEos, srcresult, writer, readerVars, seek, seeks, downFlushing,
                    down, races>>
    BY DEF StopEnds, flagVars, jsVars
  <1>3. JsTypeOK'
    BY <1>0, <1>2 DEF JsTypeOK
  <1>4. FlagTypes'
    BY <1>0, <1>2 DEF FlagTypes
  <1>5. SeekTypes'
    BY <1>0, <1>1, <1>2 DEF SeekTypes
  <1>6. SourceInv'
    BY <1>0, <1>1, <1>2 DEF SourceInv
  <1>7. FlushInv'
    BY <1>1, <1>2 DEF IInv, FlushInv, InStep
  <1> QED BY <1>1, <1>2, <1>3, <1>4, <1>5, <1>6, <1>7, SeekerFrame

\* Both signals of a flush.
LEMMA SignalFacts ==
    ASSUME SignalAdd, SignalDel, ThreadTypes
    PROVE  /\ reader' \in {"top", "waiting", "awake", "push", "store"}
           /\ reader' = "top" <=> reader = "top"
           /\ reader' = "push" <=> reader = "push"
           /\ reader' = "store" <=> reader = "store"
           /\ writer' \in {"none", "sizing", "checked", "ready", "full", "waiting", "woken"}
           /\ \A s \in {"none", "sizing", "checked", "ready"} : writer' = s <=> writer = s
           /\ WriterAtCache' <=> WriterAtCache
  BY DEF SignalAdd, SignalDel, ThreadTypes, WriterAtCache

\* The flush of the ring, by a seek or by a stop.
LEMMA FlushDataIInv ==
    ASSUME IInv, FlushData,
           \/ seeker = "flushing" /\ seeker' = "pausing" /\ task' = "paused"
           \/ seeker = "idle" /\ seeker' = "stopping" /\ task' = task,
           UNCHANGED <<jsVars, playlist, isFlushing, isEos, out, seek, seeks, downFlushing, down>>
    PROVE  IInv'
  <1>0. JsTypeOK /\ RingTypes /\ FlagTypes /\ ThreadTypes /\ SeekTypes /\ OutTypes /\ SourceInv
    BY TypeParts DEF IInv
  <1>1. UNCHANGED <<jsResult, jsPending, jsPosition, jsUpdate, jsPc, jsOut, jsReturn, padFlushing>>
    BY DEF jsVars
  <1>2. srcresult' = "FLUSHING" /\ SignalAdd /\ SignalDel /\ writeIndex' = -1 /\ readIndex' = 0
    BY DEF FlushData
  <1>3. /\ content' = [i \in Caches |-> << >>] /\ readPosition' = [i \in Caches |-> 0]
        /\ cacheSize' = [i \in Caches |-> 0] /\ writeReady' = [i \in Caches |-> TRUE]
    BY DEF FlushData, InEach
  <1>4. /\ races \subseteq races' /\ races' \subseteq races \cup {"flushMissed", "staleAdvance"}
        /\ writer \in {"checked", "ready"} => "staleAdvance" \in races'
    BY DEF FlushData
  <1>5. /\ reader' \in {"top", "waiting", "awake", "push", "store"}
        /\ reader' = "top" <=> reader = "top"
        /\ reader' = "push" <=> reader = "push"
        /\ reader' = "store" <=> reader = "store"
        /\ writer' \in {"none", "sizing", "checked", "ready", "full", "waiting", "woken"}
        /\ \A s \in {"none", "sizing", "checked", "ready"} : writer' = s <=> writer = s
        /\ WriterAtCache' <=> WriterAtCache
    BY <1>0, <1>2, SignalFacts
  <1>6. \A i \in Caches : /\ writeReady'[i] /\ content'[i] = << >> /\ Len(content'[i]) = 0
                          /\ readPosition'[i] = 0
    BY <1>3
  <1>7. Empty'
    BY <1>2, <1>6 DEF Empty
  <1>8. /\ InStep' => InStep
        /\ InStep' => writer' \notin {"checked", "ready"}
    BY <1>4, <1>5 DEF InStep
  <1>9. TypeInv'
    <2>1. JsTypeOK'
      BY <1>0, <1>1 DEF JsTypeOK
    <2>2. content' \in [Caches -> Seq(Positions)] /\ content' \in [Caches -> Seq(Stream)]
      BY <1>3
    <2>3. RingTypes'
      <3>1. readPosition' \in [Caches -> 0 .. Blocks] /\ cacheSize' \in [Caches -> {0, Blocks}]
        BY <1>3, BlocksAssumption
      <3>2. writeReady' \in [Caches -> BOOLEAN]
        BY <1>3
      <3>3. writeIndex' \in -1 .. NumCached - 1 /\ readIndex' \in Caches
        BY <1>2, NumCachedAssumption DEF Caches
      <3> QED BY <1>0, <2>2, <3>1, <3>2, <3>3 DEF RingTypes
    <2>4. FlagTypes'
      BY <1>0, <1>2 DEF FlagTypes, Flow
    <2>5. ThreadTypes'
      <3>1. task' \in {"started", "paused"}
        BY <1>0 DEF ThreadTypes
      <3> QED BY <1>5, <3>1 DEF ThreadTypes
    <2>6. SeekTypes'
      <3>1. races' \subseteq {"flushMissed", "staleAdvance", "truncated", "emptied", "eosRepeated", "wakeupLost"}
        BY <1>0, <1>4 DEF SeekTypes
      <3> QED BY <1>0, <3>1 DEF SeekTypes
    <2>7. OutTypes'
      BY <1>0, <1>1, <1>5, <2>2 DEF OutTypes
    <2> QED BY <2>1, <2>3, <2>4, <2>5, <2>6, <2>7, TypePartsNext
  <1>10. SourceInv'
    BY <1>0, <1>1, <1>5 DEF SourceInv
  <1>11. FlushInv'
    <2>1. seeker' = "pausing" => padFlushing' /\ downFlushing' /\ task' = "paused"
      BY <1>1 DEF IInv, FlushInv
    <2> QED BY <1>2, <1>7, <1>8, <2>1 DEF FlushInv
  <1>12. FitInv'
    <2>1. \A i \in Caches : Len(content'[i]) <= Blocks
      BY <1>6, BlocksAssumption
    <2> QED BY <1>2, <2>1 DEF FitInv
  <1>13. RingInv'
    BY <1>2 DEF RingInv
  <1>14. EosInv'
    <2>1. (writer' = "ready" \/ WriterAtCache') => ~isEos'
      BY <1>5 DEF IInv, EosInv
    <2>2. InStep' /\ down'.eos => reader' = "top" /\ jsPending' = "EOS"
      BY <1>1, <1>5, <1>8 DEF IInv, EosInv
    <2> QED BY <1>2, <1>8, <2>1, <2>2 DEF EosInv
  <1>15. InOrder'
    <2>1. races' \cap Incomplete = {} => races \cap Incomplete = {}
      BY <1>4
    <2> QED BY <1>5, <2>1 DEF IInv, InOrder
  <1>16. NoEarlyEos'
    <2>1. races' \cap Incomplete = {} => races \cap Incomplete = {}
      BY <1>4
    <2> QED BY <2>1 DEF IInv, NoEarlyEos, LastSegment
  <1> QED BY <1>9, <1>10, <1>11, <1>12, <1>13, <1>14, <1>15, <1>16 DEF IInv

LEMMA SeekFlushesIInv == ASSUME IInv, SeekFlushes PROVE IInv'
  BY FlushDataIInv DEF SeekFlushes

LEMMA StopBeginsIInv == ASSUME IInv, StopBegins PROVE IInv'
  BY FlushDataIInv DEF StopBegins

LEMMA StopDeactivatesIInv == ASSUME IInv, StopDeactivates PROVE IInv'
  <1>0. JsTypeOK /\ RingTypes /\ FlagTypes /\ ThreadTypes /\ SeekTypes /\ OutTypes /\ SourceInv
    BY TypeParts DEF IInv
  <1>1. /\ seeker = "stopping" /\ seeker' = "joining" /\ srcresult' = "FLUSHING" /\ SignalAdd /\ SignalDel
        /\ task' = "paused" /\ jsResult' = "FLUSHING" /\ padFlushing' = TRUE /\ downFlushing' = TRUE
    BY DEF StopDeactivates, SourceStops
  <1>2. UNCHANGED <<jsPending, jsPosition, jsUpdate, jsPc, jsOut, jsReturn, playlist, ringVars, isFlushing,
                    isEos, out, seek, seeks, down>>
    BY DEF StopDeactivates, SourceStops
  <1>3. races' = races \/ races' = races \cup {"flushMissed"}
    BY DEF StopDeactivates
  <1>4. /\ reader' \in {"top", "waiting", "awake", "push", "store"}
        /\ reader' = "top" <=> reader = "top"
        /\ reader' = "push" <=> reader = "push"
        /\ reader' = "store" <=> reader = "store"
        /\ writer' \in {"none", "sizing", "checked", "ready", "full", "waiting", "woken"}
        /\ \A s \in {"none", "sizing", "checked", "ready"} : writer' = s <=> writer = s
        /\ WriterAtCache' <=> WriterAtCache
    BY <1>0, <1>1, SignalFacts
  <1>5. (InStep' <=> InStep) /\ (Whole' <=> Whole)
    BY <1>3 DEF InStep, Whole
  <1>6. InStep => writer' \notin {"checked", "ready"}
    BY <1>1, <1>4 DEF IInv, FlushInv
  <1>7. TypeInv'
    <2>1. JsTypeOK'
      BY <1>0, <1>1, <1>2 DEF JsTypeOK, Flow
    <2>2. RingTypes'
      BY <1>0, <1>2 DEF RingTypes, ringVars
    <2>3. FlagTypes'
      BY <1>0, <1>1, <1>2 DEF FlagTypes, Flow
    <2>4. ThreadTypes'
      BY <1>1, <1>4 DEF ThreadTypes
    <2>5. SeekTypes'
      BY <1>0, <1>1, <1>2, <1>3 DEF SeekTypes
    <2>6. OutTypes'
      BY <1>0, <1>2, <1>4 DEF OutTypes, ringVars
    <2> QED BY <2>1, <2>2, <2>3, <2>4, <2>5, <2>6, TypePartsNext
  <1>8. SourceInv'
    BY <1>0, <1>1, <1>2, <1>4 DEF SourceInv
  <1>9. FlushInv'
    BY <1>1, <1>5, <1>6 DEF FlushInv
  <1>10. FitInv'
    <2>1. content' = content
      BY <1>2 DEF ringVars
    <2>2. writer' = "checked" => writer = "checked"
      BY <1>4
    <2> QED BY <1>1, <2>1, <2>2 DEF IInv, FitInv
  <1>11. RingInv'
    BY <1>1 DEF RingInv
  <1>12. EosInv'
    <2>1. (writer' = "ready" \/ WriterAtCache') => ~isEos'
      BY <1>2, <1>4 DEF IInv, EosInv
    <2>2. InStep' /\ down'.eos => reader' = "top" /\ jsPending' = "EOS"
      BY <1>2, <1>4, <1>5 DEF IInv, EosInv
    <2> QED BY <1>1, <1>5, <1>6, <2>1, <2>2 DEF EosInv
  <1>13. InOrder'
    BY <1>1 DEF InOrder, Incomplete
  <1>14. NoEarlyEos'
    BY <1>2, <1>3 DEF IInv, NoEarlyEos, LastSegment, Incomplete
  <1> QED BY <1>7, <1>8, <1>9, <1>10, <1>11, <1>12, <1>13, <1>14 DEF IInv

LEMMA SeekFinishesIInv == ASSUME IInv, SeekFinishes PROVE IInv'
  <1>0. JsTypeOK /\ RingTypes /\ FlagTypes /\ ThreadTypes /\ SeekTypes /\ OutTypes /\ SourceInv
    BY TypeParts DEF IInv
  <1> DEFINE s == SegmentAt(seek)
  <1>1. /\ seeker = "locking" /\ seeker' = "idle" /\ jsPc # "push" /\ jsPc' = "loop"
        /\ jsPending' = "SEGMENT" /\ jsPosition' = 0 /\ jsUpdate' = FALSE /\ jsResult' = "OK"
        /\ padFlushing' = FALSE /\ downFlushing' = FALSE /\ isFlushing' = FALSE /\ srcresult' = "OK"
    BY DEF SeekFinishes, SourceSeeks, SourceLockFree
  <1>2. /\ playlist' = [segment |-> s, block |-> Blocks, failed |-> FALSE]
        /\ down' = [next |-> [segment |-> s, block |-> 0], eos |-> FALSE]
        /\ task' = IF isEos THEN task ELSE "started"
    BY DEF SeekFinishes, NothingOpen
  <1>3. UNCHANGED <<jsOut, jsReturn, ringVars, isEos, writer, reader, out, seek, seeks, races>>
    BY DEF SeekFinishes, SourceSeeks
  <1>4. writer = "none" /\ jsOut = Nothing /\ jsOut.type = "nothing"
    BY <1>1, AtLoop
  <1>5. s \in 0 .. Segments
    BY <1>0 DEF SegmentAt, SeekTypes, RingTypes, Playlists
  <1> HIDE DEF s
  <1>6. /\ playlist'.segment = s /\ playlist'.block = Blocks /\ ~playlist'.failed
        /\ down'.next = [segment |-> s, block |-> 0] /\ down'.eos = FALSE
    BY <1>2
  <1>7. InStep => Empty /\ task = "paused" /\ reader = "top"
    BY <1>1 DEF IInv, FlushInv
  <1>8. (InStep' <=> InStep) /\ (Whole' <=> Whole) /\ (Empty' <=> Empty)
    BY <1>3, EmptyFrame DEF InStep, Whole
  <1>9. TypeInv'
    <2>1. JsTypeOK'
      BY <1>0, <1>1, <1>3 DEF JsTypeOK, Flow
    <2>2. RingTypes'
      <3>1. playlist' \in Playlists
        BY <1>2, <1>5, BlocksAssumption DEF Playlists
      <3> QED BY <1>0, <1>3, <3>1 DEF RingTypes, ringVars
    <2>3. FlagTypes'
      <3>1. down' \in [next : Positions, eos : BOOLEAN]
        BY <1>2, <1>5, BlocksAssumption DEF Positions
      <3> QED BY <1>0, <1>1, <1>3, <3>1 DEF FlagTypes, Flow
    <2>4. ThreadTypes'
      BY <1>0, <1>2, <1>3 DEF ThreadTypes
    <2>5. SeekTypes'
      BY <1>0, <1>1, <1>3 DEF SeekTypes
    <2>6. OutTypes'
      <3>1. ~(playlist'.block < Blocks)
        BY <1>6, BlocksAssumption
      <3> QED BY <1>0, <1>3, <3>1 DEF OutTypes, ringVars
    <2> QED BY <2>1, <2>2, <2>3, <2>4, <2>5, <2>6, TypePartsNext
  <1>10. SourceInv'
    BY <1>1, <1>3, <1>4 DEF SourceInv
  <1>11. FlushInv'
    BY <1>1 DEF FlushInv
  <1>12. FitInv'
    <2>1. content' = content
      BY <1>3 DEF ringVars
    <2>2. \A i \in Caches : Len(content[i]) <= Blocks
      BY <1>1 DEF IInv, FitInv
    <2> QED BY <1>1, <2>1, <2>2 DEF FitInv
  <1>13. RingInv'
    <2> SUFFICES ASSUME InStep
                 PROVE  Ring(0)' /\ Holds(0)' /\ ReaderAt(0)' /\ PlaylistInv'
      <3>1. 0 \in 0 .. NumCached
        BY NumCachedAssumption
      <3> QED BY <1>8, <3>1 DEF RingInv
    <2>1. /\ Empty' /\ reader' = "top" /\ writeIndex' = -1 /\ readIndex' = 0
          /\ \A i \in Caches : writeReady'[i] /\ content'[i] = << >> /\ readPosition'[i] = 0
      BY <1>3, <1>7, <1>8 DEF Empty
    <2>2. \A i \in Caches : Rank(i)' \in 0 .. NumCached - 1
      BY <2>1, NumCachedAssumption DEF Rank, Caches
    <2>3. ~WriterAtCache' /\ ~Loaded'
      BY <1>3, <1>4 DEF WriterAtCache, Loaded
    <2>4. Ring(0)'
      <3>1. \A i \in Caches : writeReady'[i] <=> Rank(i)' >= 0
        BY <2>1, <2>2, NumCachedAssumption
      <3>2. NextIndex(-1) = Ahead(0)'
        <4>1. NextIndex(-1) = 0
          BY NumCachedAssumption DEF NextIndex
        <4> QED BY <2>1, <4>1, NumCachedAssumption DEF Ahead
      <3>3. \A i \in Caches :
              IF writeReady'[i]
              THEN readPosition'[i] = Len(content'[i]) /\ Len(content'[i]) \in {0, Blocks}
              ELSE cacheSize'[i] = Blocks /\ readPosition'[i] < Blocks
        BY <2>1
      <3> QED BY <1>1, <2>1, <2>3, <3>1, <3>2, <3>3 DEF Ring, NextIndex
    <2>5. Holds(0)'
      BY <2>2, NumCachedAssumption DEF Holds
    <2>6. ReaderAt(0)'
      <3>1. First(0)' = s
        <4>1. Opened' = s
          BY <1>6, <2>3 DEF Opened
        <4> QED BY <1>5, <4>1, SegmentsAssumption DEF First
      <3> QED BY <1>6, <2>1, <3>1 DEF ReaderAt, Place
    <2>7. PlaylistInv'
      BY <1>1, <1>6, <2>3 DEF PlaylistInv
    <2> QED BY <2>4, <2>5, <2>6, <2>7
  <1>14. EosInv'
    <2>1. writer' # "ready" /\ ~WriterAtCache'
      BY <1>3, <1>4 DEF WriterAtCache
    <2>2. InStep' /\ isEos' => srcresult' = "OK" /\ task' = "paused" /\ reader' = "top" /\ Empty'
      BY <1>1, <1>2, <1>3, <1>7, <1>8
    <2> QED BY <1>6, <2>1, <2>2 DEF EosInv
  <1>15. InOrder'
    BY <1>3, <1>7 DEF InOrder, Incomplete, InStep
  <1>16. NoEarlyEos'
    BY <1>6 DEF NoEarlyEos, LastSegment, Incomplete
  <1> QED BY <1>9, <1>10, <1>11, <1>12, <1>13, <1>14, <1>15, <1>16 DEF IInv

-----------------------------------------------------------------------------
(* The theorems *)

LEMMA InitIInv == ASSUME Init PROVE IInv
  <1> USE DEF Init, JsInit, NothingOpen
  <1>0. Nothing.type = "nothing"
    BY DEF Nothing
  <1>1. \A i \in Caches : /\ writeReady[i] /\ content[i] = << >> /\ Len(content[i]) = 0
                          /\ readPosition[i] = 0
    BY DEF InEach
  <1>2. playlist.segment = 0 /\ playlist.block = Blocks /\ ~playlist.failed
    OBVIOUS
  <1>3. /\ down.next = [segment |-> 0, block |-> 0] /\ down.eos = FALSE
        /\ down \in [next : Positions, eos : BOOLEAN] /\ playlist \in Playlists
    BY SegmentsAssumption, BlocksAssumption DEF Positions, Playlists
  <1>4. TypeInv
    <2>1. JsTypeOK
      BY <1>0 DEF JsTypeOK, Flow
    <2>2. content \in [Caches -> Seq(Positions)] /\ content \in [Caches -> Seq(Stream)]
      BY DEF InEach
    <2>3. RingTypes
      <3>1. readPosition \in [Caches -> 0 .. Blocks] /\ cacheSize \in [Caches -> {0, Blocks}]
        BY BlocksAssumption DEF InEach
      <3>2. writeReady \in [Caches -> BOOLEAN]
        BY DEF InEach
      <3>3. writeIndex \in -1 .. NumCached - 1 /\ readIndex \in Caches
        BY NumCachedAssumption DEF Caches
      <3> QED BY <1>3, <2>2, <3>1, <3>2, <3>3 DEF RingTypes
    <2>4. FlagTypes
      BY <1>3 DEF FlagTypes, Flow
    <2>5. ThreadTypes
      BY DEF ThreadTypes
    <2>6. SeekTypes
      BY SegmentsAssumption, MaxSeeksAssumption DEF SeekTypes
    <2>7. OutTypes
      <3>1. ~(playlist.block < Blocks)
        BY <1>2, BlocksAssumption
      <3> QED BY <1>0, <2>2, <3>1 DEF OutTypes
    <2> QED BY <2>1, <2>3, <2>4, <2>5, <2>6, <2>7, TypeParts
  <1>5. SourceInv
    BY <1>0 DEF SourceInv
  <1>6. FlushInv
    BY DEF FlushInv
  <1>7. FitInv
    <2>1. \A i \in Caches : Len(content[i]) <= Blocks
      <3> HIDE DEF Init, JsInit
      <3>1. 0 <= Blocks
        BY BlocksAssumption
      <3> QED BY <1>1, <3>1
    <2>2. jsPending # "UNKNOWN"
      OBVIOUS
    <2> QED BY <2>1, <2>2 DEF FitInv
  <1>8. ~Loaded /\ ~WriterAtCache
    BY <1>0 DEF Loaded, WriterAtCache
  <1>9. RingInv
    <2>1. \A i \in Caches : Rank(i) \in 0 .. NumCached - 1
      BY NumCachedAssumption DEF Rank, Caches
    <2>2. Ring(0)
      <3>1. \A i \in Caches : writeReady[i] <=> Rank(i) >= 0
        <4>1. \A i \in Caches : Rank(i) >= 0
          BY <2>1, NumCachedAssumption
        <4>2. \A i \in Caches : writeReady[i]
          BY <1>1
        <4> QED BY <4>1, <4>2
      <3>2. NextIndex(writeIndex) = Ahead(0)
        <4>1. NextIndex(-1) = 0
          BY NumCachedAssumption DEF NextIndex
        <4> QED BY <4>1, NumCachedAssumption DEF Ahead
      <3> QED BY <1>1, <1>8, <3>1, <3>2 DEF Ring
    <2>3. Holds(0)
      BY <2>1, NumCachedAssumption DEF Holds
    <2>4. ReaderAt(0)
      <3>1. First(0) = 0
        BY <1>2, <1>8 DEF First, Opened
      <3> QED BY <1>3, <3>1 DEF ReaderAt, Place
    <2>5. PlaylistInv
      BY <1>2, <1>8 DEF PlaylistInv
    <2>6. 0 \in 0 .. NumCached
      BY NumCachedAssumption
    <2> QED BY <2>2, <2>3, <2>4, <2>5, <2>6 DEF RingInv
  <1>10. EosInv
    BY <1>3, <1>8 DEF EosInv
  <1>11. InOrder
    BY DEF InOrder, Incomplete
  <1>12. NoEarlyEos
    BY <1>3 DEF NoEarlyEos, LastSegment, Incomplete
  <1> QED BY <1>4, <1>5, <1>6, <1>7, <1>9, <1>10, <1>11, <1>12 DEF IInv

LEMMA StutterIInv == ASSUME IInv, UNCHANGED vars PROVE IInv'
  <1>0. JsTypeOK /\ RingTypes /\ FlagTypes /\ ThreadTypes /\ SeekTypes /\ OutTypes /\ SourceInv
    BY TypeParts DEF IInv
  <1>1. /\ UNCHANGED <<jsResult, jsPending, jsPosition, jsUpdate, jsPc, jsOut, jsReturn, padFlushing>>
        /\ UNCHANGED <<playlist, ringVars, isFlushing, isEos, srcresult, writer, reader, task, out, seeker,
                       seek, seeks, downFlushing, down, races>>
        /\ UNCHANGED <<jsVars, seekVars>>
    BY DEF vars, jsVars, flagVars, readerVars, seekVars
  <1>2. FlagTypes'
    BY <1>0, <1>1 DEF FlagTypes
  <1>3. OutTypes'
    BY <1>0, <1>1 DEF OutTypes, ringVars
  <1>4. reader' \in {"top", "waiting", "awake", "push", "store"}
    BY <1>0, <1>1 DEF ThreadTypes
  <1>5. \A n \in 0 .. NumCached : Place(n)' = Place(n) /\ ReaderAt(n) => ReaderAt(n)'
    BY <1>1 DEF ReaderAt
  <1>6. InStep /\ seeker = "locking" => reader' = "top"
    BY <1>1 DEF IInv, FlushInv
  <1>7. EosInv'
    <2>1. (InStep' <=> InStep) /\ (Empty' <=> Empty)
      BY <1>1, EmptyFrame DEF InStep
    <2> QED BY <1>1, <2>1 DEF IInv, EosInv, WriterAtCache
  <1>8. InOrder' /\ NoEarlyEos'
    BY <1>1 DEF IInv, InOrder, NoEarlyEos, LastSegment, Incomplete
  <1> QED BY <1>1, <1>2, <1>3, <1>4, <1>5, <1>6, <1>7, <1>8, ReaderFrame

LEMMA NextIInv == ASSUME IInv, Next PROVE IInv'
  <1>1. CASE Source
    BY <1>1, SourceNextIInv, SourceSizedIInv, SourceGoesOnIInv, PushFlushedIInv, EventPassesThroughIInv,
       ChainIInv, SinkEosIInv, SinkSegmentIInv, SegmentRestartsIInv, SegmentAdvancesIInv, SegmentWaitsIInv,
       SegmentWakesIInv DEF Source
  <1>2. CASE Reader
    BY <1>2, ReaderWaitsIInv, ReaderEndsIInv, ReaderStopsIInv, ReaderReadsIInv, ReaderPushesIInv,
       ReaderStoresIInv DEF Reader
  <1>3. CASE Seeker
    BY <1>3, SeekFlushesIInv, SeekPausesIInv, SeekFinishesIInv, StopDeactivatesIInv, StopEndsIInv DEF Seeker
  <1>4. CASE SeekBegins
    BY <1>4, SeekBeginsIInv
  <1>5. CASE StopBegins
    BY <1>5, StopBeginsIInv
  <1> QED BY <1>1, <1>2, <1>3, <1>4, <1>5 DEF Next

LEMMA Invariance == Spec => []IInv
  <1>1. Init => IInv
    BY InitIInv
  <1>2. IInv /\ [Next]_vars => IInv'
    BY NextIInv, StutterIInv
  <1> QED BY <1>1, <1>2, PTL DEF Spec

\* All variables keep their types: the indices of hlsprogressbuffer.c stay in
\* the ring, and no read position passes the size of a segment.
THEOREM TypeCorrect == Spec => []TypeOK
  <1>1. IInv => TypeOK
    BY DEF IInv, TypeInv
  <1> QED BY <1>1, Invariance, PTL

\* While data flows, the caches that are not ready for writing are those from
\* the read index to the write index, so that hls_progress_buffer_sink_event
\* overwrites no segment that hls_progress_buffer_loop has not read.
THEOREM RingStaysInStep == Spec => []RingInStep
  <1>1. IInv => RingInStep
    <2> SUFFICES ASSUME IInv, InStep, srcresult = "OK", ~WriterAtCache
                 PROVE  \/ \A i \in Caches : writeReady[i]
                        \/ \A i \in Caches :
                              ~writeReady[i] <=> (i - readIndex) % NumCached < Distance
      BY DEF RingInStep, InStep, WriterAtCache
    <2>1. PICK n \in 0 .. NumCached : Ring(n)
      BY DEF IInv, RingInv
    <2>2. RingTypes
      BY TypeParts DEF IInv
    <2> QED BY <2>1, <2>2, RingIsInStep
  <1> QED BY <1>1, Invariance, PTL

\* hls_progress_buffer_loop pushes the blocks of the playlist one by one and in
\* order, from the segment that was last sought, whatever the ring holds.
THEOREM StreamStaysInOrder == Spec => []InOrder
  <1>1. IInv => InOrder
    BY DEF IInv
  <1> QED BY <1>1, Invariance, PTL

\* hls_progress_buffer_loop sends EOS behind the last block of the playlist or,
\* when loadNextSegment has failed, which the source takes for the end of the
\* stream, behind the last block of the segments before.
THEOREM EosIsNotEarly == Spec => []NoEarlyEos
  <1>1. IInv => NoEarlyEos
    BY DEF IInv
  <1> QED BY <1>1, Invariance, PTL

=============================================================================
