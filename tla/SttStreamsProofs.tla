-------------------------- MODULE SttStreamsProofs --------------------------
(***************************************************************************)
(* What holds of the transcript path of a connection for every number of   *)
(* speakers, streams and results and every channel capacity and window:    *)
(* its types, one running stream per speaker, results published in order   *)
(* and, of a stream that was not closed, in full, and a transcript cache   *)
(* that still holds what a late evidence pack asks for.                    *)
(***************************************************************************)
EXTENDS SttStreams, FiniteSetTheorems, TLAPS

Busy(s) == reader[s] \in {"store", "enqueue"}

(* The chunk a consumer is persisting is of its own stream and is over. *)
InHand == \A s \in Stream :
  Busy(s) => chunk[s] \in Chunk /\ chunk[s].stream = s /\ chunk[s].end <= now

(* Streams are opened in order, with their two goroutines. *)
Started == \A s \in Stream :
  IF s <= opened
    THEN owner[s] \in Speaker /\ ctx[s] # "none" /\ loop[s] # "off" /\ reader[s] # "off"
    ELSE /\ ctx[s] = "none" /\ loop[s] = "off" /\ reader[s] = "off"
         /\ heard[s] = 0 /\ queue[s] = <<>> /\ published[s] = <<>>

(* A connection that ends has closed its streams, and a consumer that has  *)
(* ended has emptied a closed channel.                                     *)
SessionsEnd == conn # "open" => \A p \in Speaker : sess[p] = None
Drained == \A s \in Stream : reader[s] = "done" => queue[s] = <<>> /\ loop[s] = "done"

(* The results of a stream that have left its channel. *)
Taken(s) == Len(published[s]) + (IF Busy(s) THEN 1 ELSE 0)

(* All results of a stream but those dropped by its close: published, in   *)
(* hand, in the channel, in recvLoop's hands, one after the other.         *)
Pushed(s) == Taken(s) + Len(queue[s])
InOrder(s) ==
  /\ \A i \in DOMAIN published[s] : published[s][i] = i
  /\ Busy(s) => chunk[s].id = Len(published[s]) + 1
  /\ \A i \in DOMAIN queue[s] : queue[s][i] = Taken(s) + i
  /\ Pushed(s) <= heard[s]
  /\ loop[s] = "recv" => heard[s] = Pushed(s)
  /\ loop[s] = "done" /\ ctx[s] = "live" => heard[s] = Pushed(s)
  /\ loop[s] = "push" => heard[s] = Pushed(s) + 1

Ordered == ~BusMayFail /\ conn # "closed" => \A s \in Stream : InOrder(s)

(* The cache holds every chunk whose start is not yet Keep ticks ago. *)
Retained == \A c \in stored : c.end <= now /\ (c.start > now - Keep => c \in cache)

SttInv ==
  /\ TypeOK
  /\ InHand
  /\ Started
  /\ OneStreamPerSpeaker
  /\ SessionsEnd
  /\ Drained
  /\ Ordered
  /\ Retained

(* The counts are numbers. *)
LEMMA Counts ==
  ASSUME TypeOK, NEW s \in Stream
  PROVE  /\ published[s] \in Seq(Nat) /\ queue[s] \in Seq(Nat) /\ heard[s] \in Nat
         /\ Len(published[s]) \in Nat /\ Len(queue[s]) \in Nat
         /\ Taken(s) \in {Len(published[s]), Len(published[s]) + 1} /\ Taken(s) \in Nat /\ Pushed(s) \in Nat
         /\ Taken(s) = IF Busy(s) THEN Len(published[s]) + 1 ELSE Len(published[s])
<1>1. published[s] \in Seq(Nat) /\ queue[s] \in Seq(Nat) /\ heard[s] \in Nat
  BY DEF TypeOK
<1>2. PICK m \in Nat, n \in Nat : m = Len(published[s]) /\ n = Len(queue[s])
  <2>1. Len(published[s]) \in Nat /\ Len(queue[s]) \in Nat
    BY <1>1
  <2> QED
    BY <2>1, Zenon
<1>3. Taken(s) = IF Busy(s) THEN m + 1 ELSE m
  <2>1. CASE Busy(s)
    BY <1>2, <2>1 DEF Taken
  <2>2. CASE ~Busy(s)
    BY <1>2, <2>2 DEF Taken
  <2> QED
    BY <2>1, <2>2
<1>4. PICK t \in Nat : t = Taken(s)
  BY <1>3
<1>5. Pushed(s) = t + n
  BY <1>2, <1>4 DEF Pushed
<1>6. Taken(s) \in {m, m + 1} /\ Pushed(s) \in Nat
  BY <1>3, <1>5
<1> QED
  BY <1>1, <1>2, <1>3, <1>4, <1>6

(* The invariant states the properties of the run. *)
LEMMA SttInvMeans == SttInv => TypeOK /\ OneStreamPerSpeaker /\ PublishedInOrder /\ ResultsKept /\ WindowServed
<1> SUFFICES ASSUME SttInv
             PROVE  PublishedInOrder /\ ResultsKept /\ WindowServed
  BY DEF SttInv
<1>0. TypeOK /\ Drained /\ Ordered /\ Retained /\ OneStreamPerSpeaker /\ SessionsEnd
  BY DEF SttInv
<1>1. \A s \in Stream : /\ published[s] \in Seq(Nat) /\ queue[s] \in Seq(Nat)
                        /\ Len(published[s]) \in Nat /\ Len(queue[s]) \in Nat /\ heard[s] \in Nat
  BY <1>0 DEF TypeOK
<1>2. PublishedInOrder
  <2> SUFFICES ASSUME ~BusMayFail, conn # "closed", NEW s \in Stream
               PROVE  Len(published[s]) <= heard[s] /\ \A i \in DOMAIN published[s] : published[s][i] = i
    BY DEF PublishedInOrder
  <2>1. InOrder(s)
    BY <1>0 DEF Ordered
  <2>2. Pushed(s) <= heard[s]
    BY <2>1 DEF InOrder
  <2>3. Len(published[s]) <= heard[s]
    <3>1. PICK m \in Nat, n \in Nat, t \in Nat, h \in Nat :
            m = Len(published[s]) /\ n = Len(queue[s]) /\ t = Taken(s) /\ h = heard[s] /\ m <= t
      BY <1>0, Counts
    <3> QED
      BY <2>2, <3>1 DEF Pushed
  <2> QED
    BY <2>1, <2>3 DEF InOrder
<1>3. ResultsKept
  <2> SUFFICES ASSUME ~BusMayFail, NEW s \in Stream, reader[s] = "done", ctx[s] = "live"
               PROVE  Len(published[s]) = heard[s]
    BY DEF ResultsKept
  <2>1. conn # "closed"
    <3>1. owner[s] \in Speaker /\ sess[owner[s]] = s /\ s # None
      BY <1>0 DEF OneStreamPerSpeaker, Stream, None
    <3> QED
      BY <1>0, <3>1 DEF SessionsEnd
  <2>2. queue[s] = <<>> /\ loop[s] = "done"
    BY <1>0 DEF Drained
  <2>3. InOrder(s)
    BY <1>0, <2>1 DEF Ordered
  <2> QED
    BY <1>1, <2>2, <2>3 DEF InOrder, Pushed, Taken, Busy
<1>4. WindowServed
  <2> SUFFICES ASSUME NEW p \in Speaker, NEW late \in 0 .. (Keep - Pack - 1),
                      NEW c \in stored, c.speaker = p, c.start >= now - late - Pack
               PROVE  c \in cache
    BY DEF WindowServed, GetTranscriptWindow
  <2>1. c \in Chunk /\ now \in Nat
    BY <1>0 DEF TypeOK
  <2>2. c.start \in Nat /\ Keep \in Nat /\ Pack \in Nat
    BY <2>1, DurationsAssumption DEF Chunk
  <2>3. c.start > now - Keep
    BY <2>1, <2>2
  <2> QED
    BY <1>0, <2>3 DEF Retained
<1> QED
  BY <1>2, <1>3, <1>4
-----------------------------------------------------------------------------
(* A connection starts without streams. *)
LEMMA SttInitInv == Init => SttInv
<1> SUFFICES ASSUME Init PROVE SttInv
  OBVIOUS
<1>1. TypeOK
  BY BoundsAssumption, DurationsAssumption DEF Init, TypeOK, None, NoChunk
<1>2. Started
  BY BoundsAssumption DEF Init, Started, Stream, None
<1>3. \A s \in Stream : InOrder(s)
  BY DEF Init, InOrder, Pushed, Taken, Busy, None
<1>4. InHand /\ OneStreamPerSpeaker /\ SessionsEnd /\ Drained /\ Retained
  BY DEF Init, InHand, Busy, OneStreamPerSpeaker, SessionsEnd, Drained, Retained, None
<1> QED
  BY <1>1, <1>2, <1>3, <1>4 DEF SttInv, Ordered
-----------------------------------------------------------------------------
(* The types, by who changes the variables. *)
GatewayType ==
  /\ now \in 0 .. MaxTime /\ conn \in {"open", "closing", "closed"} /\ recognizer \in BOOLEAN
  /\ sess \in [Speaker -> Stream \cup {None}] /\ acc \in [Speaker -> Nat \cup {-1}] /\ opened \in 0 .. MaxStreams
StreamType ==
  /\ owner \in [Stream -> Speaker \cup {"none"}] /\ startedAt \in [Stream -> Nat]
  /\ ctx \in [Stream -> {"none", "live", "cancelled"}] /\ remote \in [Stream -> {"up", "error", "down"}]
LoopType ==
  /\ loop \in [Stream -> {"off", "recv", "push", "done"}] /\ heard \in [Stream -> Nat]
  /\ queue \in [Stream -> Seq(Nat)] /\ \A s \in Stream : Len(queue[s]) <= Capacity
  /\ results \in 0 .. MaxResults
ReaderType ==
  /\ reader \in [Stream -> {"off", "wait", "store", "enqueue", "done"}] /\ since \in [Stream -> Nat]
  /\ chunk \in [Stream -> Chunk \cup {NoChunk}]
StoreType ==
  /\ cache \subseteq Chunk /\ stored \subseteq Chunk
  /\ published \in [Stream \cup {None} -> Seq(Nat)]

(* They are TypeOK. *)
LEMMA TypeParts == TypeOK <=> GatewayType /\ StreamType /\ LoopType /\ ReaderType /\ StoreType
BY DEF TypeOK, GatewayType, StreamType, LoopType, ReaderType, StoreType

(* What a step leaves alone keeps its type. *)
LEMMA TypesLast ==
  ASSUME TypeOK
  PROVE  /\ UNCHANGED <<now, gatewayVars>> => GatewayType'
         /\ UNCHANGED streamVars => StreamType'
         /\ UNCHANGED loopVars => LoopType'
         /\ UNCHANGED readerVars => ReaderType'
         /\ UNCHANGED storeVars => StoreType'
<1>0. GatewayType /\ StreamType /\ LoopType /\ ReaderType /\ StoreType
  BY TypeParts
<1>1. UNCHANGED <<now, gatewayVars>> => GatewayType'
  BY <1>0 DEF GatewayType, gatewayVars
<1>2. UNCHANGED streamVars => StreamType'
  BY <1>0 DEF StreamType, streamVars
<1>3. UNCHANGED loopVars => LoopType'
  BY <1>0 DEF LoopType, loopVars
<1>4. UNCHANGED readerVars => ReaderType'
  BY <1>0 DEF ReaderType, readerVars
<1>5. UNCHANGED storeVars => StoreType'
  BY <1>0 DEF StoreType, storeVars
<1> QED
  BY <1>1, <1>2, <1>3, <1>4, <1>5

(* A final result or the stub's chunk keeps the types of the stores. *)
LEMMA StoringKeepsType ==
  ASSUME StoreType, NEW c \in Chunk, c.stream \in Stream \cup {None}
  PROVE  /\ StoreRecentTranscript(c) => cache' \subseteq Chunk /\ stored' \subseteq Chunk
         /\ Enqueue(c) => published' \in [Stream \cup {None} -> Seq(Nat)]
<1>1. StoreRecentTranscript(c) => cache' \subseteq Chunk /\ stored' \subseteq Chunk
  BY DEF StoreType, StoreRecentTranscript, Trimmed
<1>2. c.id \in Nat
  BY DEF Chunk
<1>3. Enqueue(c) => published' \in [Stream \cup {None} -> Seq(Nat)]
  <2>1. PICK x \in Stream \cup {None}, n \in Nat : x = c.stream /\ n = c.id
    BY <1>2
  <2>2. published \in [Stream \cup {None} -> Seq(Nat)]
    BY DEF StoreType
  <2>3. Append(published[x], n) \in Seq(Nat)
    BY <2>2
  <2>4. [published EXCEPT ![x] = Append(published[x], n)] \in [Stream \cup {None} -> Seq(Nat)]
    BY <2>2, <2>3
  <2> QED
    BY <2>1, <2>2, <2>4 DEF Enqueue
<1> QED
  BY <1>1, <1>3

(* Every step of the connection and of its streams keeps the types. *)
LEMMA TypeStep ==
  ASSUME TypeOK, InHand, Started, Next
  PROVE  TypeOK'
<1>0. GatewayType /\ StreamType /\ LoopType /\ ReaderType /\ StoreType
  BY TypeParts
<1>1. ASSUME NEW p \in Speaker, SendAudioFails(p) \/ OpenFails(p)
      PROVE  TypeOK'
  <2>1. GatewayType'
    BY <1>0, <1>1 DEF SendAudioFails, OpenFails, Dropped, GatewayType
  <2>2. StreamType'
    <3>1. \A s \in Stream \cup {None} : Cancelled(s) \in [Stream -> {"none", "live", "cancelled"}]
      BY <1>0 DEF Cancelled, StreamType
    <3> QED
      BY <1>0, <1>1, <3>1 DEF SendAudioFails, OpenFails, StreamType, GatewayType
  <2>3. UNCHANGED <<loopVars, readerVars, storeVars>>
    BY <1>1 DEF SendAudioFails, OpenFails
  <2> QED
    BY <2>1, <2>2, <2>3, TypesLast, TypeParts DEF TypeOK, GatewayType, StreamType, LoopType, ReaderType, StoreType
<1>2. ASSUME NEW p \in Speaker, OpenStream(p)
      PROVE  TypeOK'
  <2> DEFINE s == opened + 1
  <2>1. s \in Stream /\ s \in 0 .. MaxStreams
    BY <1>0, <1>2, BoundsAssumption DEF OpenStream, GatewayType, Stream
  <2> HIDE DEF s
  <2>2. GatewayType'
    BY <1>0, <1>2, <2>1 DEF OpenStream, GatewayType, s
  <2>3. StreamType' /\ LoopType' /\ ReaderType' /\ StoreType'
    <3>1. \A q \in Stream \cup {None} : Cancelled(q) \in [Stream -> {"none", "live", "cancelled"}]
      BY <1>0 DEF Cancelled, StreamType
    <3>2. StreamType'
      BY <1>0, <1>2, <2>1, <3>1 DEF OpenStream, StreamType, GatewayType, s
    <3>3. LoopType'
      BY <1>0, <1>2, <2>1 DEF OpenStream, LoopType, s
    <3>4. ReaderType'
      BY <1>0, <1>2, <2>1 DEF OpenStream, ReaderType, GatewayType, s
    <3>5. StoreType'
      BY <1>2, TypesLast DEF OpenStream
    <3> QED
      BY <3>2, <3>3, <3>4, <3>5
  <2> QED
    BY <2>2, <2>3 DEF TypeOK, GatewayType, StreamType, LoopType, ReaderType, StoreType
<1>3. ASSUME NEW p \in Speaker, StubChunk(p)
      PROVE  TypeOK'
  <2>1. UNCHANGED <<streamVars, readerVars, loop, heard, queue, now, conn, recognizer, sess, opened>>
    BY <1>3 DEF StubChunk
  <2>2. GatewayType'
    <3>1. acc' = acc \/ acc' = [acc EXCEPT ![p] = now]
      BY <1>3 DEF StubChunk
    <3>2. acc \in [Speaker -> Nat \cup {-1}] /\ now \in Nat
      BY <1>0, BoundsAssumption DEF GatewayType
    <3>3. acc' \in [Speaker -> Nat \cup {-1}]
      BY <3>1, <3>2
    <3> QED
      BY <1>0, <2>1, <3>3 DEF GatewayType
  <2>3. LoopType' /\ StoreType'
    <3>1. CASE UNCHANGED <<results, storeVars>>
      <4>1. UNCHANGED loopVars
        BY <2>1, <3>1 DEF loopVars
      <4> QED
        BY <3>1, <4>1, TypesLast
    <3>2. CASE ~UNCHANGED <<results, storeVars>>
      <4> DEFINE c == [id |-> results + 1, speaker |-> p, stream |-> None, start |-> acc[p], end |-> now]
      <4>1. /\ acc[p] # -1 /\ results < MaxResults /\ results' = results + 1
            /\ StoreRecentTranscript(c) /\ Enqueue(c)
        BY <1>3, <3>2 DEF StubChunk
      <4>2. c \in Chunk /\ c.stream \in Stream \cup {None}
        BY <1>0, <4>1, BoundsAssumption DEF GatewayType, LoopType, Chunk, None
      <4> HIDE DEF c
      <4>3. StoreType'
        BY <1>0, <4>1, <4>2, StoringKeepsType DEF StoreType
      <4>4. LoopType'
        BY <1>0, <2>1, <4>1, BoundsAssumption DEF LoopType
      <4> QED
        BY <4>3, <4>4
    <3> QED
      BY <3>1, <3>2
  <2> QED
    BY <2>1, <2>2, <2>3, TypesLast DEF TypeOK, GatewayType, StreamType, LoopType, ReaderType, StoreType
<1>4. ASSUME ReadFails \/ CancelContext \/ Tick
      PROVE  TypeOK'
  <2>1. GatewayType'
    <3>1. CASE Tick
      BY <1>0, <3>1, BoundsAssumption DEF Tick, GatewayType, gatewayVars
    <3>2. CASE ReadFails
      BY <1>0, <3>2 DEF ReadFails, GatewayType
    <3>3. CASE CancelContext
      BY <1>0, <3>3 DEF CancelContext, GatewayType
    <3> QED
      BY <1>4, <3>1, <3>2, <3>3
  <2>2. StreamType'
    BY <1>0, <1>4 DEF ReadFails, CancelContext, Tick, StreamType, streamVars
  <2>3. UNCHANGED <<loopVars, readerVars, storeVars>>
    BY <1>4 DEF ReadFails, CancelContext, Tick
  <2> QED
    BY <2>1, <2>2, <2>3, TypesLast DEF TypeOK, GatewayType, StreamType, LoopType, ReaderType, StoreType
<1>5. ASSUME NEW s \in Stream, RecvResult(s) \/ RecvLoop(s)
      PROVE  TypeOK'
  <2>1. UNCHANGED <<now, gatewayVars, streamVars, readerVars, storeVars>>
    BY <1>5 DEF RecvResult, RecvLoop, PushResult, DropResult, RecvEnds
  <2>2. LoopType'
    <3>1. CASE RecvResult(s)
      BY <1>0, <3>1, BoundsAssumption DEF RecvResult, LoopType
    <3>2. CASE PushResult(s)
      <4>1. queue[s] \in Seq(Nat) /\ heard[s] \in Nat /\ Len(queue[s]) < Capacity /\ Capacity \in Nat
        BY <1>0, <3>2, DurationsAssumption DEF PushResult, LoopType
      <4>2. Append(queue[s], heard[s]) \in Seq(Nat) /\ Len(Append(queue[s], heard[s])) <= Capacity
        BY <4>1
      <4> QED
        BY <1>0, <3>2, <4>2 DEF PushResult, LoopType
    <3>3. CASE DropResult(s) \/ RecvEnds(s)
      BY <1>0, <3>3 DEF DropResult, RecvEnds, LoopType
    <3> QED
      BY <1>5, <3>1, <3>2, <3>3 DEF RecvLoop
  <2> QED
    BY <2>1, <2>2, TypesLast, TypeParts DEF TypeOK, GatewayType, StreamType, LoopType, ReaderType, StoreType
<1>6. ASSUME NEW s \in Stream, RemoteEnds(s)
      PROVE  TypeOK'
  <2>1. UNCHANGED <<now, gatewayVars, loopVars, readerVars, storeVars>>
    BY <1>6 DEF RemoteEnds
  <2>2. StreamType'
    BY <1>0, <1>6 DEF RemoteEnds, StreamType
  <2> QED
    BY <2>1, <2>2, TypesLast DEF TypeOK, GatewayType, StreamType, LoopType, ReaderType, StoreType
<1>7. ASSUME NEW s \in Stream, TakeResult(s) \/ ConsumerEnds(s)
      PROVE  TypeOK'
  <2>1. UNCHANGED <<now, gatewayVars, streamVars, storeVars, loop, heard, results>>
    BY <1>7 DEF TakeResult, ConsumerEnds, loopVars
  <2>2. LoopType' /\ ReaderType'
    <3>1. CASE ConsumerEnds(s)
      BY <1>0, <3>1, TypesLast DEF ConsumerEnds, ReaderType
    <3>2. CASE TakeResult(s)
      <4>1. /\ queue[s] \in Seq(Nat) /\ queue[s] # <<>> /\ Len(queue[s]) <= Capacity /\ Capacity \in Nat
            /\ now \in Nat /\ since[s] \in Nat
        BY <1>0, <3>2, DurationsAssumption, BoundsAssumption DEF TakeResult, GatewayType, LoopType, ReaderType
      <4>2. Tail(queue[s]) \in Seq(Nat) /\ Head(queue[s]) \in Nat /\ Len(Tail(queue[s])) <= Capacity
        BY <4>1
      <4>3. owner[s] \in Speaker
        BY <3>2 DEF TakeResult, Started
      <4>4. [id |-> Head(queue[s]), speaker |-> owner[s], stream |-> s, start |-> since[s], end |-> now] \in Chunk
        BY <4>1, <4>2, <4>3 DEF Chunk, Stream
      <4>5. LoopType'
        BY <1>0, <2>1, <3>2, <4>2 DEF TakeResult, LoopType
      <4>6. ReaderType'
        BY <1>0, <3>2, <4>1, <4>4 DEF TakeResult, ReaderType
      <4> QED
        BY <4>5, <4>6
    <3> QED
      BY <1>7, <3>1, <3>2
  <2> QED
    BY <2>1, <2>2, TypesLast DEF TypeOK, GatewayType, StreamType, LoopType, ReaderType, StoreType
<1>8. ASSUME NEW s \in Stream, StoreChunk(s) \/ EnqueueChunk(s)
      PROVE  TypeOK'
  <2>1. UNCHANGED <<now, gatewayVars, streamVars, loopVars>>
    BY <1>8 DEF StoreChunk, EnqueueChunk
  <2>2. chunk[s] \in Chunk /\ chunk[s].stream \in Stream \cup {None}
    BY <1>8 DEF StoreChunk, EnqueueChunk, InHand, Busy
  <2>3. StoreType'
    <3>1. CASE StoreChunk(s)
      BY <1>0, <2>2, <3>1, StoringKeepsType DEF StoreChunk, StoreType
    <3>2. CASE EnqueueChunk(s)
      BY <1>0, <2>2, <3>2, StoringKeepsType DEF EnqueueChunk, StoreType
    <3> QED
      BY <1>8, <3>1, <3>2
  <2>4. ReaderType'
    BY <1>0, <1>8 DEF StoreChunk, EnqueueChunk, ReaderType
  <2> QED
    BY <2>1, <2>3, <2>4, TypesLast DEF TypeOK, GatewayType, StreamType, LoopType, ReaderType, StoreType
<1> QED
  BY <1>1, <1>2, <1>3, <1>4, <1>5, <1>6, <1>7, <1>8 DEF Next, ReadLoop, Consumer
-----------------------------------------------------------------------------
StreamsInv == Started /\ OneStreamPerSpeaker /\ SessionsEnd /\ Drained

(* Sessions and contexts: only the read loop changes them, and it cancels  *)
(* the context of every stream it takes out of sttSessions.                *)
LEMMA StreamsStep ==
  ASSUME TypeOK, InHand, StreamsInv, Next
  PROVE  StreamsInv'
<1>0. /\ Started /\ OneStreamPerSpeaker /\ SessionsEnd /\ Drained
      /\ GatewayType /\ StreamType /\ LoopType /\ ReaderType /\ StoreType
      /\ None \notin Stream /\ Stream \subseteq Nat
  BY TypeParts DEF StreamsInv, Stream, None
<1>1. ASSUME NEW p \in Speaker, SendAudioFails(p) \/ OpenFails(p)
      PROVE  StreamsInv'
  <2>1. /\ UNCHANGED <<conn, opened, owner, loop, reader, heard, queue, published>>
        /\ conn = "open" /\ ctx' = Cancelled(sess[p]) /\ sess' = Dropped(p)
    BY <1>1 DEF SendAudioFails, OpenFails, loopVars, readerVars, storeVars
  <2>2. PICK x \in Stream \cup {None} : x = sess[p]
    BY <1>0 DEF GatewayType
  <2>3. /\ \A s \in Stream : ctx'[s] = IF s = x THEN "cancelled" ELSE ctx[s]
        /\ \A q \in Speaker : sess'[q] = IF q = p THEN None ELSE sess[q]
    BY <1>0, <2>1, <2>2 DEF Cancelled, Dropped, StreamType, GatewayType
  <2>4. x # None => ctx[x] = "live" /\ owner[x] = p
    BY <1>0, <2>2 DEF OneStreamPerSpeaker
  <2>5. Started'
    BY <1>0, <2>1, <2>3, <2>4 DEF Started
  <2>6. OneStreamPerSpeaker'
    <3>1. ASSUME NEW s \in Stream, ctx'[s] = "live"
          PROVE  owner'[s] \in Speaker /\ sess'[owner'[s]] = s
      <4>1. s # x /\ ctx[s] = "live" /\ owner'[s] = owner[s]
        BY <2>1, <2>3, <3>1
      <4>2. owner[s] \in Speaker /\ sess[owner[s]] = s
        BY <1>0, <4>1, Zenon DEF OneStreamPerSpeaker
      <4>3. owner[s] # p
        BY <2>2, <4>1, <4>2
      <4> QED
        BY <2>3, <4>1, <4>2, <4>3
    <3>2. ASSUME NEW q \in Speaker, sess'[q] # None
          PROVE  ctx'[sess'[q]] = "live" /\ owner'[sess'[q]] = q
      <4>1. PICK s \in Stream : s = sess[q] /\ s = sess'[q] /\ q # p
        BY <1>0, <2>3, <3>2 DEF GatewayType
      <4>2. ctx[s] = "live" /\ owner[s] = q
        BY <1>0, <4>1 DEF OneStreamPerSpeaker
      <4>3. s # x
        BY <1>0, <2>4, <4>1, <4>2
      <4>4. ctx'[s] = ctx[s] /\ owner'[s] = owner[s]
        BY <2>1, <2>3, <4>3
      <4> QED
        BY <4>1, <4>2, <4>4
    <3> QED
      BY <3>1, <3>2 DEF OneStreamPerSpeaker
  <2>7. SessionsEnd' /\ Drained'
    BY <1>0, <2>1 DEF SessionsEnd, Drained
  <2> QED
    BY <2>5, <2>6, <2>7 DEF StreamsInv
<1>2. ASSUME NEW p \in Speaker, OpenStream(p)
      PROVE  StreamsInv'
  <2>1. PICK n \in Stream : n = opened + 1
    BY <1>0, <1>2, BoundsAssumption DEF OpenStream, GatewayType, Stream
  <2>2. /\ UNCHANGED <<conn, heard, queue, published>> /\ conn = "open" /\ opened' = n
        /\ sess' = [sess EXCEPT ![p] = n] /\ owner' = [owner EXCEPT ![n] = p]
        /\ ctx' = [Cancelled(sess[p]) EXCEPT ![n] = "live"]
        /\ loop' = [loop EXCEPT ![n] = "recv"] /\ reader' = [reader EXCEPT ![n] = "wait"]
    BY <1>2, <2>1 DEF OpenStream, storeVars
  <2>3. PICK x \in Stream \cup {None} : x = sess[p]
    BY <1>0 DEF GatewayType
  <2>4. /\ \A s \in Stream : ctx'[s] = IF s = n THEN "live" ELSE IF s = x THEN "cancelled" ELSE ctx[s]
        /\ \A s \in Stream : owner'[s] = IF s = n THEN p ELSE owner[s]
        /\ \A s \in Stream : loop'[s] = IF s = n THEN "recv" ELSE loop[s]
        /\ \A s \in Stream : reader'[s] = IF s = n THEN "wait" ELSE reader[s]
        /\ \A q \in Speaker : sess'[q] = IF q = p THEN n ELSE sess[q]
    <3>1. \A s \in Stream : ctx'[s] = IF s = n THEN "live" ELSE IF s = x THEN "cancelled" ELSE ctx[s]
      <4>1. ctx \in [Stream -> {"none", "live", "cancelled"}]
        BY <1>0, Zenon DEF StreamType
      <4> QED
        BY <1>0, <2>2, <2>3, <4>1 DEF Cancelled
    <3>2. \A s \in Stream : owner'[s] = IF s = n THEN p ELSE owner[s]
      BY <1>0, <2>2 DEF StreamType
    <3>3. \A s \in Stream : loop'[s] = IF s = n THEN "recv" ELSE loop[s]
      BY <1>0, <2>2 DEF LoopType
    <3>4. \A s \in Stream : reader'[s] = IF s = n THEN "wait" ELSE reader[s]
      BY <1>0, <2>2 DEF ReaderType
    <3>5. \A q \in Speaker : sess'[q] = IF q = p THEN n ELSE sess[q]
      BY <1>0, <2>2 DEF GatewayType
    <3> QED
      BY <3>1, <3>2, <3>3, <3>4, <3>5, Zenon
  <2>5. x # None => ctx[x] = "live" /\ owner[x] = p
    BY <1>0, <2>3 DEF OneStreamPerSpeaker
  <2>6. /\ ctx[n] = "none" /\ \A s \in Stream : s <= n <=> s <= opened \/ s = n
        /\ \A s \in Stream : ctx[s] # "none" => s # n
    BY <1>0, <2>1 DEF Started, GatewayType
  <2>7. Started'
    BY <1>0, <2>2, <2>4, <2>5, <2>6 DEF Started
  <2>8. OneStreamPerSpeaker'
    <3>1. ASSUME NEW s \in Stream, ctx'[s] = "live"
          PROVE  owner'[s] \in Speaker /\ sess'[owner'[s]] = s
      <4>1. CASE s = n
        BY <2>4, <4>1
      <4>2. CASE s # n
        <5>1. s # x /\ ctx[s] = "live" /\ owner'[s] = owner[s]
          BY <2>4, <3>1, <4>2
        <5>2. owner[s] \in Speaker /\ sess[owner[s]] = s
          BY <1>0, <5>1 DEF OneStreamPerSpeaker
        <5> QED
          BY <2>3, <2>4, <5>1, <5>2
      <4> QED
        BY <4>1, <4>2
    <3>2. ASSUME NEW q \in Speaker, sess'[q] # None
          PROVE  ctx'[sess'[q]] = "live" /\ owner'[sess'[q]] = q
      <4>1. CASE q = p
        BY <2>4, <4>1
      <4>2. CASE q # p
        <5>0. sess[q] \in Stream \cup {None} /\ sess'[q] = sess[q]
          <6>1. sess[q] \in Stream \cup {None}
            BY <1>0 DEF GatewayType
          <6> QED
            BY <2>4, <4>2, <6>1
        <5>1. PICK s \in Stream : s = sess[q] /\ s = sess'[q]
          BY <3>2, <5>0
        <5>2. ctx[s] = "live" /\ owner[s] = q
          BY <1>0, <3>2, <5>1 DEF OneStreamPerSpeaker
        <5>3. s # n /\ s # x
          BY <1>0, <2>5, <2>6, <4>2, <5>2
        <5> QED
          BY <2>4, <5>1, <5>2, <5>3
      <4> QED
        BY <4>1, <4>2
    <3> QED
      BY <3>1, <3>2 DEF OneStreamPerSpeaker
  <2>9. SessionsEnd'
    BY <2>2 DEF SessionsEnd
  <2>10. Drained'
    BY <1>0, <2>2, <2>4 DEF Drained
  <2> QED
    BY <2>7, <2>8, <2>9, <2>10 DEF StreamsInv
<1>3. ASSUME NEW p \in Speaker, StubChunk(p)
      PROVE  StreamsInv'
  <2>1. UNCHANGED <<conn, sess, opened, owner, ctx, loop, heard, queue, reader>>
    BY <1>3 DEF StubChunk, streamVars, readerVars
  <2>2. \A s \in Stream : published'[s] = published[s]
    BY <1>0, <1>3 DEF StubChunk, Enqueue, storeVars, StoreType
  <2> QED
    BY <1>0, <2>1, <2>2 DEF StreamsInv, Started, OneStreamPerSpeaker, SessionsEnd, Drained
<1>4. ASSUME ReadFails
      PROVE  StreamsInv'
  <2>0. UNCHANGED <<opened, owner, loop, heard, queue, reader, published>>
    BY <1>4 DEF ReadFails, loopVars, readerVars, storeVars
  <2>1. /\ \A s \in Stream : ctx'[s] = IF \E p \in Speaker : sess[p] = s THEN "cancelled" ELSE ctx[s]
        /\ \A p \in Speaker : sess'[p] = None
    BY <1>4 DEF ReadFails
  <2>2. \A s \in Stream : ctx'[s] # "live"
    <3> SUFFICES ASSUME NEW s \in Stream, ctx'[s] = "live" PROVE FALSE
      OBVIOUS
    <3>1. ~(\E p \in Speaker : sess[p] = s) /\ ctx[s] = "live"
      BY <2>1
    <3> QED
      BY <1>0, <3>1, Zenon DEF OneStreamPerSpeaker
  <2>3. \A s \in Stream : ctx'[s] = "none" <=> ctx[s] = "none"
    <3> SUFFICES ASSUME NEW s \in Stream PROVE ctx'[s] = "none" <=> ctx[s] = "none"
      OBVIOUS
    <3>1. CASE \E p \in Speaker : sess[p] = s
      <4>1. PICK p \in Speaker : sess[p] = s
        BY <3>1
      <4>2. s # None
        BY <1>0 DEF Stream, None
      <4>3. ctx[s] = "live"
        BY <1>0, <4>1, <4>2 DEF OneStreamPerSpeaker
      <4> QED
        BY <2>1, <3>1, <4>3
    <3>2. CASE ~\E p \in Speaker : sess[p] = s
      BY <2>1, <3>2
    <3> QED
      BY <3>1, <3>2
  <2>4. Started'
    BY <1>0, <2>0, <2>3 DEF Started
  <2>6. Drained'
    BY <1>0, <2>0 DEF Drained
  <2>5. OneStreamPerSpeaker' /\ SessionsEnd'
    BY <2>1, <2>2 DEF OneStreamPerSpeaker, SessionsEnd
  <2> QED
    BY <2>4, <2>5, <2>6 DEF StreamsInv
<1>5. ASSUME CancelContext
      PROVE  StreamsInv'
  <2>1. /\ UNCHANGED <<sess, opened, owner, loop, heard, queue, reader, published>> /\ conn = "closing"
        /\ \A s \in Stream : ctx'[s] = IF ctx[s] = "live" THEN "cancelled" ELSE ctx[s]
    BY <1>5 DEF CancelContext, loopVars, readerVars, storeVars
  <2>2. \A p \in Speaker : sess[p] = None
    BY <1>0, <2>1 DEF SessionsEnd
  <2> QED
    BY <1>0, <2>1, <2>2 DEF StreamsInv, Started, OneStreamPerSpeaker, SessionsEnd, Drained
<1>6. ASSUME Tick
      PROVE  StreamsInv'
  BY <1>0, <1>6 DEF Tick, gatewayVars, streamVars, loopVars, readerVars, storeVars,
    StreamsInv, Started, OneStreamPerSpeaker, SessionsEnd, Drained
<1>7. ASSUME NEW s \in Stream, RecvResult(s) \/ RecvLoop(s) \/ RemoteEnds(s)
      PROVE  StreamsInv'
  <2>1. UNCHANGED <<conn, sess, opened, owner, ctx, reader, published>>
    BY <1>7 DEF RecvResult, RecvLoop, PushResult, DropResult, RecvEnds, RemoteEnds, gatewayVars, streamVars,
      readerVars, storeVars
  <2>2. \/ UNCHANGED <<loop, heard, queue>>
        \/ /\ loop[s] \in {"recv", "push"} /\ loop'[s] # "off"
           /\ \A v \in Stream \ {s} : loop'[v] = loop[v] /\ heard'[v] = heard[v] /\ queue'[v] = queue[v]
    BY <1>0, <1>7 DEF RecvResult, RecvLoop, PushResult, DropResult, RecvEnds, RemoteEnds, loopVars, LoopType
  <2>3. Started' /\ Drained'
    <3>1. CASE UNCHANGED <<loop, heard, queue>>
      BY <1>0, <2>1, <3>1 DEF Started, Drained
    <3>2. CASE /\ loop[s] \in {"recv", "push"} /\ loop'[s] # "off"
               /\ \A v \in Stream \ {s} : loop'[v] = loop[v] /\ heard'[v] = heard[v] /\ queue'[v] = queue[v]
      <4>1. s <= opened
        BY <1>0, <3>2 DEF Started
      <4>2. Started'
        BY <1>0, <2>1, <3>2, <4>1 DEF Started
      <4>3. reader[s] # "done"
        BY <1>0, <3>2 DEF Drained
      <4>4. Drained'
        BY <1>0, <2>1, <3>2, <4>3 DEF Drained
      <4> QED
        BY <4>2, <4>4
    <3> QED
      BY <2>2, <3>1, <3>2
  <2> QED
    BY <1>0, <2>1, <2>3 DEF StreamsInv, OneStreamPerSpeaker, SessionsEnd
<1>8. ASSUME NEW s \in Stream, Consumer(s)
      PROVE  StreamsInv'
  <2>1. UNCHANGED <<conn, sess, opened, owner, ctx, loop, heard>>
    BY <1>8 DEF Consumer, TakeResult, StoreChunk, EnqueueChunk, ConsumerEnds, gatewayVars, streamVars, loopVars
  <2>2. /\ reader[s] \in {"wait", "store", "enqueue"} /\ reader'[s] # "off"
        /\ reader'[s] = "done" => queue'[s] = <<>> /\ loop[s] = "done"
        /\ \A v \in Stream \ {s} : reader'[v] = reader[v] /\ queue'[v] = queue[v]
    BY <1>0, <1>8 DEF Consumer, TakeResult, StoreChunk, EnqueueChunk, ConsumerEnds, loopVars, LoopType, ReaderType
  <2>3. \A v \in Stream \ {s} : published'[v] = published[v]
    <3>1. CASE EnqueueChunk(s)
      <4>1. published' = published \/ published' = [published EXCEPT ![chunk[s].stream] = Append(@, chunk[s].id)]
        BY <3>1 DEF EnqueueChunk, Enqueue
      <4>2. chunk[s].stream = s
        BY <3>1 DEF EnqueueChunk, InHand, Busy
      <4> QED
        BY <1>0, <4>1, <4>2 DEF StoreType
    <3>2. CASE ~EnqueueChunk(s)
      BY <1>8, <3>2 DEF Consumer, TakeResult, StoreChunk, ConsumerEnds, storeVars
    <3> QED
      BY <3>1, <3>2
  <2>4. Started' /\ Drained'
    BY <1>0, <2>1, <2>2, <2>3 DEF Started, Drained
  <2> QED
    BY <1>0, <2>1, <2>4 DEF StreamsInv, OneStreamPerSpeaker, SessionsEnd
<1> QED
  BY <1>1, <1>2, <1>3, <1>4, <1>5, <1>6, <1>7, <1>8 DEF Next, ReadLoop
-----------------------------------------------------------------------------
(* A consumer keeps its chunk until both stores have answered. *)
LEMMA HandStep ==
  ASSUME TypeOK, InHand, Started, Next
  PROVE  InHand'
<1>0. GatewayType /\ ReaderType /\ LoopType /\ now \in Nat /\ Stream \subseteq Nat
  BY TypeParts, BoundsAssumption DEF GatewayType, Stream
<1>1. CASE UNCHANGED <<reader, chunk>> /\ now' \in {now, now + 1}
  <2> SUFFICES ASSUME NEW s \in Stream, Busy(s)'
               PROVE  chunk'[s] \in Chunk /\ chunk'[s].stream = s /\ chunk'[s].end <= now'
    BY DEF InHand
  <2>1. chunk'[s] = chunk[s] /\ Busy(s)
    BY <1>1 DEF Busy
  <2>2. chunk[s] \in Chunk /\ chunk[s].stream = s /\ chunk[s].end <= now
    BY <2>1 DEF InHand
  <2>3. PICK n \in Nat : n = chunk[s].end
    BY <2>2 DEF Chunk
  <2>4. n <= now'
    BY <1>0, <1>1, <2>2, <2>3
  <2> QED
    BY <2>1, <2>2, <2>3, <2>4
<1>2. ASSUME NEW p \in Speaker, OpenStream(p)
      PROVE  InHand'
  <2>1. reader' = [reader EXCEPT ![opened + 1] = "wait"] /\ chunk' = chunk /\ now' = now
    BY <1>2 DEF OpenStream
  <2>2. \A s \in Stream : Busy(s)' => Busy(s)
    BY <1>0, <2>1 DEF Busy, ReaderType
  <2> QED
    BY <2>1, <2>2 DEF InHand
<1>3. ASSUME NEW s \in Stream, Consumer(s)
      PROVE  InHand'
  <2>1. /\ now' = now /\ \A v \in Stream \ {s} : reader'[v] = reader[v] /\ chunk'[v] = chunk[v]
    BY <1>0, <1>3 DEF Consumer, TakeResult, StoreChunk, EnqueueChunk, ConsumerEnds, ReaderType
  <2>2. reader'[s] \in {"store", "enqueue"} => chunk'[s] \in Chunk /\ chunk'[s].stream = s /\ chunk'[s].end <= now
    <3>1. CASE TakeResult(s)
      <4>1. queue[s] \in Seq(Nat) /\ queue[s] # <<>> /\ since[s] \in Nat /\ owner[s] \in Speaker
        BY <1>0, <3>1 DEF TakeResult, LoopType, ReaderType, Started
      <4>2. Head(queue[s]) \in Nat
        BY <4>1
      <4>3. chunk'[s] = [id |-> Head(queue[s]), speaker |-> owner[s], stream |-> s, start |-> since[s], end |-> now]
        BY <1>0, <3>1 DEF TakeResult, ReaderType
      <4> QED
        BY <1>0, <4>1, <4>2, <4>3 DEF Chunk
    <3>2. CASE StoreChunk(s)
      BY <3>2 DEF StoreChunk, InHand, Busy
    <3>3. CASE EnqueueChunk(s) \/ ConsumerEnds(s)
      BY <1>0, <3>3 DEF EnqueueChunk, ConsumerEnds, ReaderType
    <3> QED
      BY <1>3, <3>1, <3>2, <3>3 DEF Consumer
  <2> QED
    BY <2>1, <2>2 DEF InHand, Busy
<1>4. ASSUME NEW p \in Speaker, SendAudioFails(p) \/ OpenFails(p) \/ StubChunk(p)
      PROVE  UNCHANGED <<now, reader, chunk>>
  BY <1>4 DEF SendAudioFails, OpenFails, StubChunk, readerVars
<1>5. ASSUME NEW s \in Stream, RecvResult(s) \/ RecvLoop(s) \/ RemoteEnds(s)
      PROVE  UNCHANGED <<now, reader, chunk>>
  BY <1>5 DEF RecvResult, RecvLoop, PushResult, DropResult, RecvEnds, RemoteEnds, readerVars
<1>6. ASSUME Tick \/ ReadFails \/ CancelContext
      PROVE  UNCHANGED <<reader, chunk>> /\ now' \in {now, now + 1}
  BY <1>6 DEF Tick, ReadFails, CancelContext, readerVars
<1> QED
  BY <1>1, <1>2, <1>3, <1>4, <1>5, <1>6 DEF Next, ReadLoop

(* StoreRecentTranscript only drops what is Keep ticks old. *)
LEMMA StoringRetains ==
  ASSUME Retained, stored \subseteq Chunk, now \in Nat, now' = now,
         NEW c \in Chunk, c.end <= now, StoreRecentTranscript(c)
  PROVE  Retained'
<1>1. Keep \in Nat /\ c.end \in Nat /\ \A d \in stored \cup {c} : d.start \in Nat
  BY DurationsAssumption DEF Chunk
<1>2. CASE UNCHANGED <<cache, stored>>
  BY <1>2 DEF Retained
<1>3. CASE cache' = Trimmed(cache \cup {c}, c) /\ stored' = stored \cup {c}
  <2> SUFFICES ASSUME NEW d \in stored', d.start > now - Keep
               PROVE  d \in cache'
    BY <1>3 DEF Retained
  <2>1. d \in cache \cup {c}
    BY <1>3 DEF Retained
  <2>2. d.start > c.end - Keep
    <3>1. PICK n \in Nat, e \in Nat, k \in Nat, x \in Nat : n = now /\ e = c.end /\ k = Keep /\ x = d.start
      BY <1>1, <1>3
    <3>2. e <= n /\ x > n - k
      BY <3>1
    <3> QED
      BY <3>1, <3>2
  <2> QED
    BY <1>3, <2>1, <2>2 DEF Trimmed
<1> QED
  BY <1>2, <1>3 DEF StoreRecentTranscript

(* So every chunk whose start is not yet Keep ticks ago stays cached. *)
LEMMA RetainStep ==
  ASSUME TypeOK, InHand, Retained, Next
  PROVE  Retained'
<1>0. GatewayType /\ LoopType /\ stored \subseteq Chunk /\ now \in Nat /\ Keep \in Nat
  BY TypeParts, BoundsAssumption, DurationsAssumption DEF GatewayType, StoreType
<1>1. ASSUME Tick
      PROVE  Retained'
  <2>1. UNCHANGED <<cache, stored>> /\ now' = now + 1
    BY <1>1 DEF Tick, storeVars
  <2>2. \A c \in stored : c.start \in Nat /\ c.end \in Nat
    BY <1>0 DEF Chunk
  <2> QED
    BY <1>0, <2>1, <2>2 DEF Retained
<1>2. CASE UNCHANGED <<now, cache, stored>>
  BY <1>2 DEF Retained
<1>3. ASSUME NEW p \in Speaker, StubChunk(p), ~UNCHANGED <<now, cache, stored>>
      PROVE  Retained'
  <2> DEFINE c == [id |-> results + 1, speaker |-> p, stream |-> None, start |-> acc[p], end |-> now]
  <2>1. StoreRecentTranscript(c) /\ acc[p] # -1 /\ now' = now
    BY <1>3 DEF StubChunk, storeVars
  <2>2. c \in Chunk /\ c.end = now
    BY <1>0, <2>1, BoundsAssumption DEF Chunk, GatewayType, LoopType, None
  <2> HIDE DEF c
  <2> QED
    BY <1>0, <2>1, <2>2, StoringRetains
<1>4. ASSUME NEW s \in Stream, StoreChunk(s)
      PROVE  Retained'
  <2>1. chunk[s] \in Chunk /\ chunk[s].end <= now /\ now' = now /\ StoreRecentTranscript(chunk[s])
    BY <1>4 DEF StoreChunk, InHand, Busy
  <2> QED
    BY <1>0, <2>1, StoringRetains
<1>5. ASSUME NEW p \in Speaker, SendAudioFails(p) \/ OpenFails(p) \/ OpenStream(p)
      PROVE  UNCHANGED <<now, cache, stored>>
  BY <1>5 DEF SendAudioFails, OpenFails, OpenStream, storeVars
<1>6. ASSUME NEW s \in Stream, RecvResult(s) \/ RecvLoop(s) \/ RemoteEnds(s)
      PROVE  UNCHANGED <<now, cache, stored>>
  BY <1>6 DEF RecvResult, RecvLoop, PushResult, DropResult, RecvEnds, RemoteEnds, storeVars
<1>7. ASSUME NEW s \in Stream, TakeResult(s) \/ EnqueueChunk(s) \/ ConsumerEnds(s)
      PROVE  UNCHANGED <<now, cache, stored>>
  BY <1>7 DEF TakeResult, EnqueueChunk, ConsumerEnds, storeVars
<1>8. ASSUME ReadFails \/ CancelContext
      PROVE  UNCHANGED <<now, cache, stored>>
  BY <1>8 DEF ReadFails, CancelContext, storeVars
<1> QED
  BY <1>1, <1>2, <1>3, <1>4, <1>5, <1>6, <1>7, <1>8 DEF Next, ReadLoop, Consumer
-----------------------------------------------------------------------------
(* What a step leaves of a stream: its numbers only depend on its channel, *)
(* its two goroutines, and what was published for it.                      *)
LEMMA OrderLasts ==
  ASSUME NEW s \in Stream, InOrder(s),
         published'[s] = published[s], queue'[s] = queue[s], heard'[s] = heard[s],
         reader'[s] = reader[s], chunk'[s] = chunk[s],
         loop'[s] = loop[s], ctx'[s] = "live" => ctx[s] = "live"
  PROVE  InOrder(s)'
<1>1. Busy(s)' = Busy(s)
  BY DEF Busy
<1>2. Taken(s)' = Taken(s)
  BY <1>1 DEF Taken
<1>3. Pushed(s)' = Pushed(s)
  BY <1>2 DEF Pushed
<1> QED
  BY <1>1, <1>2, <1>3 DEF InOrder

(* recvLoop numbers its results; what it drops it drops last. *)
LEMMA RecvOrder ==
  ASSUME TypeOK, NEW s \in Stream, InOrder(s), RecvResult(s) \/ RecvLoop(s)
  PROVE  InOrder(s)'
<1>1. /\ published' = published /\ reader' = reader /\ chunk' = chunk /\ ctx' = ctx
  BY DEF RecvResult, RecvLoop, PushResult, DropResult, RecvEnds, streamVars, readerVars, storeVars
<1>2. Busy(s)' = Busy(s)
  BY <1>1 DEF Busy
<1>3. Taken(s)' = Taken(s)
  BY <1>1, <1>2 DEF Taken
<1>4. PICK t \in Nat, n \in Nat, h \in Nat : t = Taken(s) /\ n = Len(queue[s]) /\ h = heard[s]
  BY Counts
<1>5. Pushed(s) = t + n
  BY <1>4 DEF Pushed
<1>6. queue \in [Stream -> Seq(Nat)] /\ heard \in [Stream -> Nat] /\ loop \in [Stream -> {"off", "recv", "push", "done"}]
  BY DEF TypeOK
<1>7. CASE RecvResult(s)
  <2>1. loop[s] = "recv" /\ loop'[s] = "push" /\ queue' = queue /\ heard'[s] = h + 1
    BY <1>4, <1>6, <1>7 DEF RecvResult
  <2>2. h = t + n
    BY <1>4, <1>5, <2>1 DEF InOrder
  <2>3. Pushed(s)' = t + n
    BY <1>3, <1>4, <2>1 DEF Pushed
  <2>4. /\ Pushed(s)' <= heard'[s] /\ heard'[s] = Pushed(s)' + 1
    BY <2>1, <2>2, <2>3
  <2> QED
    BY <1>1, <1>2, <1>3, <2>1, <2>4 DEF InOrder
<1>8. CASE PushResult(s)
  <2>1. loop[s] = "push" /\ loop'[s] = "recv" /\ heard' = heard /\ queue'[s] = Append(queue[s], h)
    BY <1>4, <1>6, <1>8 DEF PushResult
  <2>2. h = t + n + 1
    BY <1>4, <1>5, <2>1 DEF InOrder
  <2>3. /\ Len(queue'[s]) = n + 1 /\ DOMAIN queue'[s] = 1 .. (n + 1)
        /\ \A i \in 1 .. n : queue'[s][i] = queue[s][i]
        /\ queue'[s][n + 1] = h /\ DOMAIN queue[s] = 1 .. n
    BY <1>4, <1>6, <2>1
  <2>4. Pushed(s)' = t + (n + 1)
    BY <1>3, <1>4, <2>3 DEF Pushed
  <2>5. \A i \in DOMAIN queue'[s] : queue'[s][i] = t + i
    <3>1. \A i \in 1 .. n : queue[s][i] = t + i
      BY <1>4, <2>3 DEF InOrder
    <3>2. \A i \in 1 .. (n + 1) : i \in 1 .. n \/ i = n + 1
      OBVIOUS
    <3>3. h = t + (n + 1)
      BY <1>4, <2>2
    <3> QED
      BY <2>3, <3>1, <3>2, <3>3, Zenon
  <2>6. heard'[s] = Pushed(s)' /\ Pushed(s)' <= heard'[s]
    BY <1>4, <2>1, <2>2, <2>4
  <2> QED
    BY <1>1, <1>2, <1>3, <1>4, <2>1, <2>5, <2>6 DEF InOrder
<1>9. CASE DropResult(s) \/ RecvEnds(s)
  <2>1. /\ queue' = queue /\ heard' = heard /\ loop'[s] = "done"
        /\ loop[s] = "recv" \/ (loop[s] = "push" /\ ctx[s] # "live")
    BY <1>6, <1>9 DEF DropResult, RecvEnds
  <2>2. Pushed(s)' = Pushed(s)
    BY <1>3, <2>1 DEF Pushed
  <2> QED
    BY <1>1, <1>2, <1>3, <2>1, <2>2 DEF InOrder
<1> QED
  BY <1>7, <1>8, <1>9 DEF RecvLoop

(* The consumer takes and publishes them one after the other. *)
LEMMA ConsumerOrder ==
  ASSUME TypeOK, InHand, NEW s \in Stream, InOrder(s), Consumer(s), ~BusMayFail, CtxAlive
  PROVE  InOrder(s)'
<1>1. loop' = loop /\ heard' = heard /\ ctx' = ctx
  BY DEF Consumer, TakeResult, StoreChunk, EnqueueChunk, ConsumerEnds, streamVars, loopVars
<1>4. PICK m \in Nat, n \in Nat, h \in Nat : m = Len(published[s]) /\ n = Len(queue[s]) /\ h = heard[s]
  BY Counts
<1>6. /\ queue \in [Stream -> Seq(Nat)] /\ published \in [Stream \cup {None} -> Seq(Nat)]
      /\ reader \in [Stream -> {"off", "wait", "store", "enqueue", "done"}]
      /\ chunk \in [Stream -> Chunk \cup {NoChunk}]
  BY DEF TypeOK
<1>7. CASE TakeResult(s)
  <2>1. /\ reader[s] = "wait" /\ reader'[s] = "store" /\ queue[s] # <<>> /\ queue'[s] = Tail(queue[s])
        /\ chunk'[s].id = Head(queue[s]) /\ published' = published
    BY <1>6, <1>7 DEF TakeResult, storeVars
  <2>2. ~Busy(s) /\ Busy(s)'
    BY <2>1 DEF Busy
  <2>3. Taken(s) = m /\ Taken(s)' = m + 1
    BY <1>4, <2>1, <2>2 DEF Taken
  <2>4. /\ n > 0 /\ Len(queue'[s]) = n - 1 /\ n - 1 \in Nat /\ DOMAIN queue'[s] = 1 .. (n - 1) /\ DOMAIN queue[s] = 1 .. n
        /\ \A i \in 1 .. (n - 1) : queue'[s][i] = queue[s][i + 1]
        /\ Head(queue[s]) = queue[s][1]
    BY <1>4, <1>6, <2>1
  <2>5. \A i \in 1 .. n : queue[s][i] = m + i
    BY <2>3, <2>4 DEF InOrder
  <2>6. chunk'[s].id = m + 1
    BY <2>1, <2>4, <2>5
  <2>7. \A i \in DOMAIN queue'[s] : queue'[s][i] = (m + 1) + i
    <3>1. \A i \in 1 .. (n - 1) : i + 1 \in 1 .. n /\ m + (i + 1) = (m + 1) + i
      BY <2>4
    <3> QED
      BY <2>4, <2>5, <3>1
  <2>8. Pushed(s) = m + n /\ Pushed(s)' = (m + 1) + (n - 1)
    BY <1>4, <2>3, <2>4 DEF Pushed
  <2>9. Pushed(s)' = Pushed(s)
    BY <2>8
  <2> QED
    BY <1>1, <1>4, <2>1, <2>2, <2>3, <2>6, <2>7, <2>9 DEF InOrder
<1>8. CASE StoreChunk(s) \/ ConsumerEnds(s)
  <2>1. published' = published /\ queue' = queue /\ chunk' = chunk /\ Busy(s)' = Busy(s)
    BY <1>6, <1>8 DEF StoreChunk, ConsumerEnds, loopVars, storeVars, Busy
  <2>2. Taken(s)' = Taken(s)
    BY <2>1 DEF Taken
  <2>3. Pushed(s)' = Pushed(s)
    BY <2>1, <2>2 DEF Pushed
  <2> QED
    BY <1>1, <2>1, <2>2, <2>3 DEF InOrder
<1>9. CASE EnqueueChunk(s)
  <2>1. /\ Busy(s) /\ ~Busy(s)' /\ queue' = queue /\ chunk[s].stream = s /\ chunk[s] \in Chunk
        /\ published' = [published EXCEPT ![chunk[s].stream] = Append(@, chunk[s].id)]
    BY <1>6, <1>9 DEF EnqueueChunk, Enqueue, loopVars, InHand, Busy
  <2>2. PICK j \in Nat : j = chunk[s].id /\ j = m + 1
    BY <1>4, <2>1 DEF InOrder, Chunk
  <2>3. published'[s] = Append(published[s], j)
    BY <1>6, <2>1, <2>2
  <2>4. /\ Len(published'[s]) = m + 1 /\ DOMAIN published'[s] = 1 .. (m + 1) /\ DOMAIN published[s] = 1 .. m
        /\ \A i \in 1 .. m : published'[s][i] = published[s][i]
        /\ published'[s][m + 1] = j
    BY <1>4, <1>6, <2>3
  <2>5. Taken(s) = m + 1 /\ Taken(s)' = m + 1
    BY <1>4, <2>1, <2>4 DEF Taken
  <2>6. Pushed(s)' = Pushed(s)
    BY <2>1, <2>5 DEF Pushed
  <2>7. \A i \in DOMAIN published'[s] : published'[s][i] = i
    <3>1. \A i \in 1 .. m : published[s][i] = i
      BY <2>4 DEF InOrder
    <3>2. \A i \in 1 .. (m + 1) : i \in 1 .. m \/ i = m + 1
      OBVIOUS
    <3> QED
      BY <2>2, <2>4, <3>1, <3>2
  <2> QED
    BY <1>1, <2>1, <2>5, <2>6, <2>7 DEF InOrder
<1> QED
  BY <1>7, <1>8, <1>9 DEF Consumer

(* Every step keeps the order of every stream, until the context of the    *)
(* connection is cancelled.                                                *)
LEMMA OrderStep ==
  ASSUME TypeOK, InHand, StreamsInv, Ordered, Next
  PROVE  Ordered'
<1> SUFFICES ASSUME ~BusMayFail, conn' # "closed", NEW v \in Stream
             PROVE  InOrder(v)'
  BY DEF Ordered
<1>0. /\ Started /\ GatewayType /\ StreamType /\ LoopType /\ ReaderType /\ StoreType
      /\ None \notin Stream
  BY TypeParts DEF StreamsInv, Stream, None
<1>1. CtxAlive /\ InOrder(v)
  <2>1. conn' = conn \/ conn \in {"open", "closing"}
    BY DEF Next, ReadLoop, SendAudioFails, OpenFails, OpenStream, StubChunk, Tick, ReadFails, CancelContext,
      RecvResult, RecvLoop, PushResult, DropResult, RecvEnds, RemoteEnds, Consumer, TakeResult, StoreChunk,
      EnqueueChunk, ConsumerEnds, gatewayVars
  <2> QED
    BY <2>1 DEF Ordered, CtxAlive
<1>2. ASSUME NEW p \in Speaker, SendAudioFails(p) \/ OpenFails(p)
      PROVE  InOrder(v)'
  <2>1. UNCHANGED <<published, queue, heard, reader, chunk, loop>> /\ ctx' = Cancelled(sess[p])
    BY <1>2 DEF SendAudioFails, OpenFails, loopVars, readerVars, storeVars
  <2>2. ctx'[v] = "live" => ctx[v] = "live"
    BY <1>0, <2>1 DEF Cancelled, StreamType
  <2> QED
    BY <1>1, <2>1, <2>2, OrderLasts
<1>3. ASSUME NEW p \in Speaker, OpenStream(p)
      PROVE  InOrder(v)'
  <2>1. PICK n \in Stream : n = opened + 1
    BY <1>0, <1>3, BoundsAssumption DEF OpenStream, GatewayType, Stream
  <2>2. /\ UNCHANGED <<published, queue, heard, chunk>>
        /\ ctx' = [Cancelled(sess[p]) EXCEPT ![n] = "live"]
        /\ loop' = [loop EXCEPT ![n] = "recv"] /\ reader' = [reader EXCEPT ![n] = "wait"]
    BY <1>3, <2>1 DEF OpenStream, storeVars
  <2>3. CASE v = n
    <3>1. heard[v] = 0 /\ queue[v] = <<>> /\ published[v] = <<>>
      BY <1>0, <2>1, <2>3 DEF Started, GatewayType
    <3>2. loop'[v] = "recv" /\ reader'[v] = "wait"
      BY <1>0, <2>2, <2>3 DEF LoopType, ReaderType
    <3>3. Taken(v)' = 0
      BY <2>2, <3>1, <3>2 DEF Taken, Busy
    <3>4. Pushed(v)' = 0
      BY <2>2, <3>1, <3>3 DEF Pushed
    <3> QED
      BY <2>2, <3>1, <3>2, <3>3, <3>4 DEF InOrder, Busy
  <2>4. CASE v # n
    <3>1. loop'[v] = loop[v] /\ reader'[v] = reader[v] /\ (ctx'[v] = "live" => ctx[v] = "live")
      BY <1>0, <2>2, <2>4 DEF LoopType, ReaderType, Cancelled, StreamType
    <3> QED
      BY <1>1, <2>2, <3>1, OrderLasts
  <2> QED
    BY <2>3, <2>4
<1>4. ASSUME NEW p \in Speaker, StubChunk(p)
      PROVE  InOrder(v)'
  <2>1. UNCHANGED <<queue, heard, reader, chunk, loop, ctx>>
    BY <1>4 DEF StubChunk, streamVars, readerVars
  <2>2. published'[v] = published[v]
    BY <1>0, <1>4 DEF StubChunk, Enqueue, storeVars, StoreType
  <2> QED
    BY <1>1, <2>1, <2>2, OrderLasts
<1>5. ASSUME ReadFails \/ CancelContext \/ Tick
      PROVE  InOrder(v)'
  <2>1. UNCHANGED <<published, queue, heard, reader, chunk, loop>>
    BY <1>5 DEF ReadFails, CancelContext, Tick, loopVars, readerVars, storeVars
  <2>2. ctx'[v] = "live" => ctx[v] = "live"
    BY <1>5 DEF ReadFails, CancelContext, Tick, streamVars
  <2> QED
    BY <1>1, <2>1, <2>2, OrderLasts
<1>6. ASSUME NEW s \in Stream, RemoteEnds(s)
      PROVE  InOrder(v)'
  BY <1>1, <1>6, OrderLasts DEF RemoteEnds, loopVars, readerVars, storeVars
<1>7. ASSUME NEW s \in Stream, RecvResult(s) \/ RecvLoop(s)
      PROVE  InOrder(v)'
  <2>1. CASE v = s
    <3>1. InOrder(s)
      BY <1>1, <2>1
    <3>2. InOrder(s)'
      BY <1>7, <3>1, RecvOrder
    <3> QED
      BY <2>1, <3>2
  <2>2. CASE v # s
    <3>1. UNCHANGED <<published, reader, chunk, ctx>>
      BY <1>7 DEF RecvResult, RecvLoop, PushResult, DropResult, RecvEnds, streamVars, readerVars, storeVars
    <3>2. queue'[v] = queue[v] /\ heard'[v] = heard[v] /\ loop'[v] = loop[v]
      BY <1>0, <1>7, <2>2 DEF RecvResult, RecvLoop, PushResult, DropResult, RecvEnds, LoopType
    <3> QED
      BY <1>1, <3>1, <3>2, OrderLasts
  <2> QED
    BY <2>1, <2>2
<1>8. ASSUME NEW s \in Stream, Consumer(s)
      PROVE  InOrder(v)'
  <2>1. CASE v = s
    <3>1. InOrder(s)
      BY <1>1, <2>1
    <3>2. InOrder(s)'
      BY <1>1, <1>8, <3>1, ConsumerOrder
    <3> QED
      BY <2>1, <3>2
  <2>2. CASE v # s
    <3>1. UNCHANGED <<loop, heard, ctx>>
      BY <1>8 DEF Consumer, TakeResult, StoreChunk, EnqueueChunk, ConsumerEnds, streamVars, loopVars
    <3>2. queue'[v] = queue[v] /\ reader'[v] = reader[v] /\ chunk'[v] = chunk[v]
      BY <1>0, <1>8, <2>2 DEF Consumer, TakeResult, StoreChunk, EnqueueChunk, ConsumerEnds, loopVars,
        LoopType, ReaderType
    <3>3. published'[v] = published[v]
      <4>1. CASE EnqueueChunk(s)
        <5>1. chunk[s].stream = s
          BY <4>1 DEF EnqueueChunk, InHand, Busy
        <5>2. published' = published \/ published' = [published EXCEPT ![s] = Append(@, chunk[s].id)]
          BY <4>1, <5>1 DEF EnqueueChunk, Enqueue
        <5> QED
          BY <1>0, <2>2, <5>2 DEF StoreType
      <4>2. CASE ~EnqueueChunk(s)
        BY <1>8, <4>2 DEF Consumer, TakeResult, StoreChunk, ConsumerEnds, storeVars
      <4> QED
        BY <4>1, <4>2
    <3> QED
      BY <1>1, <3>1, <3>2, <3>3, OrderLasts
  <2> QED
    BY <2>1, <2>2
<1> QED
  BY <1>2, <1>3, <1>4, <1>5, <1>6, <1>7, <1>8 DEF Next, ReadLoop
-----------------------------------------------------------------------------
(* All parts of the invariant, step by step. *)
LEMMA SttStep == SttInv /\ [Next]_vars => SttInv'
<1>1. ASSUME SttInv, Next
      PROVE  SttInv'
  <2>1. TypeOK /\ InHand /\ StreamsInv /\ Started /\ Ordered /\ Retained
    BY <1>1 DEF SttInv, StreamsInv
  <2>2. TypeOK' /\ InHand' /\ StreamsInv'
    BY <1>1, <2>1, TypeStep, HandStep, StreamsStep
  <2>3. Ordered' /\ Retained'
    BY <1>1, <2>1, OrderStep, RetainStep
  <2> QED
    BY <2>2, <2>3 DEF SttInv, StreamsInv
<1>2. ASSUME SttInv, UNCHANGED vars
      PROVE  SttInv'
  <2>0. UNCHANGED <<now, gatewayVars, streamVars, loopVars, readerVars, storeVars>>
    BY <1>2 DEF vars
  <2>1. /\ UNCHANGED <<now, conn, recognizer, sess, acc, opened, owner, startedAt, ctx, remote>>
        /\ UNCHANGED <<loop, heard, queue, results, reader, since, chunk, cache, stored, published>>
    BY <2>0 DEF gatewayVars, streamVars, loopVars, readerVars, storeVars
  <2>2. TypeOK /\ InHand /\ Started /\ OneStreamPerSpeaker /\ SessionsEnd /\ Drained /\ Ordered /\ Retained
    BY <1>2 DEF SttInv
  <2>3. TypeOK'
    BY <2>0, <2>2, TypesLast, TypeParts DEF TypeOK, GatewayType, StreamType, LoopType, ReaderType, StoreType
  <2>4. InHand' /\ Retained'
    BY <2>1, <2>2 DEF InHand, Busy, Retained
  <2>5. Started' /\ Drained'
    BY <2>1, <2>2 DEF Started, Drained
  <2>6. OneStreamPerSpeaker' /\ SessionsEnd'
    BY <2>1, <2>2 DEF OneStreamPerSpeaker, SessionsEnd
  <2>7. Ordered'
    <3> SUFFICES ASSUME ~BusMayFail, conn' # "closed", NEW s \in Stream
                 PROVE  InOrder(s)'
      BY DEF Ordered
    <3>1. InOrder(s)
      BY <2>1, <2>2 DEF Ordered
    <3> QED
      BY <2>1, <3>1, OrderLasts
  <2> QED
    BY <2>3, <2>4, <2>5, <2>6, <2>7 DEF SttInv
<1> QED
  BY <1>1, <1>2

(* The inductive invariant holds of every execution of a connection.       *)
THEOREM SttCorrect == Spec => []SttInv
BY SttInitInv, SttStep, PTL DEF Spec

(* Streams, goroutines, channel and caches stay within their types; the    *)
(* channel of newStream never holds more than its capacity.                *)
THEOREM SttTypeCorrect == Spec => []TypeOK
BY SttCorrect, SttInvMeans, PTL

(* getOrCreateSTTStream, forwardToSTT and the deferred closes of ServeWS   *)
(* leave a speaker one running stream, and none running unreferenced.      *)
THEOREM OneStreamPerSpeakerCorrect == Spec => []OneStreamPerSpeaker
BY SttCorrect, SttInvMeans, PTL

(* recvLoop, the channel and consumeSTTResults reorder and skip nothing.   *)
THEOREM PublishedInOrderCorrect == Spec => []PublishedInOrder
BY SttCorrect, SttInvMeans, PTL

(* A stream the recognizer ended has all its final results published: the  *)
(* range over Results drains the closed channel.                           *)
THEOREM ResultsKeptCorrect == Spec => []ResultsKept
BY SttCorrect, SttInvMeans, PTL

(* StoreRecentTranscript's trim never drops a chunk that an evidence pack  *)
(* of up to Keep - Pack ago would still read.                              *)
THEOREM WindowServedCorrect == Spec => []WindowServed
BY SttCorrect, SttInvMeans, PTL
-----------------------------------------------------------------------------
(* The gRPC calls that are open at the recognizer at a time. *)
Live == {s \in Stream : ctx[s] = "live"}
LiveWithinSpeakers == IsFiniteSet(Live) /\ Cardinality(Live) <= Cardinality(Speaker)

(* A connection has as many open gRPC calls as it has speakers at most,    *)
(* however often its streams are rotated, refused or broken and however    *)
(* slow their consumers are: the code has no limit of its own, only the    *)
(* close before each open in getOrCreateSTTStream and forwardToSTT.        *)
THEOREM LiveWithinSpeakersHolds ==
  ASSUME IsFiniteSet(Speaker)
  PROVE  Spec => []LiveWithinSpeakers
<1>1. SttInv => LiveWithinSpeakers
  <2> SUFFICES ASSUME SttInv PROVE LiveWithinSpeakers
    OBVIOUS
  <2> DEFINE speaker == [s \in Live |-> owner[s]]
  <2>1. \A s \in Live : owner[s] \in Speaker /\ sess[owner[s]] = s
    BY DEF SttInv, OneStreamPerSpeaker, Live
  <2>2. speaker \in [Live -> Speaker]
    BY <2>1
  <2>3. \A s, t \in Live : speaker[s] = speaker[t] => s = t
    BY <2>1
  <2>4. speaker \in Injection(Live, Speaker)
    BY <2>2, <2>3 DEF Injection, IsInjective
  <2> QED
    BY <2>4, FS_Injection, Zenon DEF LiveWithinSpeakers
<1> QED
  BY <1>1, SttCorrect, PTL
=============================================================================
