----------------------------- MODULE SttStreams -----------------------------
(***************************************************************************)
(* The transcript path of one WebSocket connection.  The read loop of the  *)
(* gateway (internal/gateway) forwards each speaker's audio to a bounded   *)
(* Speech-to-Text stream, which it opens on first use, closes and replaces *)
(* when it grows old and drops when a Send fails.  Every stream has two    *)
(* goroutines: recvLoop (internal/speech) moves final results from the     *)
(* recognizer to a bounded channel, and consumeSTTResults turns each into  *)
(* a transcript_chunk, caches it in the speaker's recent window            *)
(* (internal/redis) and enqueues it for Durable Writer.  Without a         *)
(* recognizer the read loop fabricates the chunks itself.                  *)
(***************************************************************************)
EXTENDS Integers, Sequences, FiniteSets

CONSTANTS
  Speaker,      \* "self", "other"
  MaxAge,       \* maxSTTStreamDuration, in ticks of the clock
  Capacity,     \* of a stream's results channel
  Keep,         \* transcriptRecentWindow: what the cache retains, in ticks
  Pack,         \* WindowDurationSec: what an evidence pack asks for, in ticks
  Flush,        \* transcriptFlushIntervalMs of the stub, in ticks
  SttMayFail,   \* the recognizer may refuse, break or end a stream
  RedisMayFail, \* a Redis call may return an error
  BusMayFail,   \* an Enqueue may return an error
  MaxStreams,   \* bound: streams opened
  MaxResults,   \* bound: final results recognized
  MaxTime       \* bound: ticks of the clock

ASSUME DurationsAssumption ==
  /\ {MaxAge, Capacity, Flush} \subseteq Nat \ {0}
  /\ {Keep, Pack} \subseteq Nat
  /\ Pack <= Keep
ASSUME BoundsAssumption == {MaxStreams, MaxResults, MaxTime} \subseteq Nat

Stream == 1..MaxStreams
None == 0

VARIABLES
  now,        \* wall clock
  conn,       \* ServeWS: open, closing (streams closed), closed (ctx cancelled)
  recognizer, \* h.stt # nil
  sess,       \* sttSessions: each speaker's stream, None when absent
  acc,        \* audioAccumulators: firstTMs, -1 when absent
  opened,     \* streams opened so far
  owner,      \* speaker of each stream
  startedAt,  \* when it was opened
  ctx,        \* its context: live or cancelled (none before it is opened)
  remote,     \* the recognizer's side: up, error (resp.Error sent), down
  loop,       \* recvLoop: recv, push (holds a result), done (channel closed)
  heard,      \* final results recvLoop got; they are numbered in order
  queue,      \* the results channel
  reader,     \* consumeSTTResults: wait, store, enqueue, done
  since,      \* its sinceMs
  chunk,      \* the transcript_chunk it is persisting
  results,    \* final results so far, of all streams
  cache,      \* transcript:recent:*, all speakers
  stored,     \* chunks that were put in the cache
  published   \* results of each stream (None: the stub) that were enqueued, in order

gatewayVars == <<conn, recognizer, sess, acc, opened>>
streamVars == <<owner, startedAt, ctx, remote>>
loopVars == <<loop, heard, queue, results>>
readerVars == <<reader, since, chunk>>
storeVars == <<cache, stored, published>>
vars == <<now, gatewayVars, streamVars, loopVars, readerVars, storeVars>>

(* id: the result it carries, of its stream (None: the stub). *)
Chunk == [id : Nat, speaker : Speaker, stream : Nat, start : Nat, end : Nat]
NoChunk == [id |-> 0, speaker |-> "none", stream |-> None, start |-> 0, end |-> 0]

Init ==
  /\ now = 0
  /\ conn = "open"
  /\ recognizer \in BOOLEAN
  /\ sess = [p \in Speaker |-> None]
  /\ acc = [p \in Speaker |-> -1]
  /\ opened = 0
  /\ owner = [s \in Stream |-> "none"]
  /\ startedAt = [s \in Stream |-> 0]
  /\ ctx = [s \in Stream |-> "none"]
  /\ remote = [s \in Stream |-> "down"]
  /\ loop = [s \in Stream |-> "off"]
  /\ heard = [s \in Stream |-> 0]
  /\ queue = [s \in Stream |-> <<>>]
  /\ reader = [s \in Stream |-> "off"]
  /\ since = [s \in Stream |-> 0]
  /\ chunk = [s \in Stream |-> NoChunk]
  /\ results = 0
  /\ cache = {}
  /\ stored = {}
  /\ published = [s \in Stream \cup {None} |-> <<>>]
-----------------------------------------------------------------------------
(* Storage.  Calls made under the connection's context fail once ServeWS   *)
(* has returned.                                                           *)
CtxAlive == conn # "closed"

(* StoreRecentTranscript: ZADD scored by t_start_ms, then drop what is not *)
(* above t_end_ms - transcriptRecentWindow.                                *)
Bug_TrimAtPack(chunks, c) ==
  {d \in chunks : d.speaker = c.speaker => d.start > c.end - Pack}
Trimmed(chunks, c) ==
  {d \in chunks : d.speaker = c.speaker => d.start > c.end - Keep}
StoreRecentTranscript(c) ==
  \/ /\ CtxAlive
     /\ cache' = Trimmed(cache \cup {c}, c)
     /\ stored' = stored \cup {c}
  \/ /\ RedisMayFail \/ ~CtxAlive
     /\ UNCHANGED <<cache, stored>>

(* A Publish whose context is cancelled may still be sent. *)
Enqueue(c) ==
  \/ published' = [published EXCEPT ![c.stream] = Append(@, c.id)]
  \/ /\ BusMayFail \/ ~CtxAlive
     /\ UNCHANGED published

(* GetTranscriptWindow: by t_start_ms alone. *)
GetTranscriptWindow(p, from) == {c \in cache : c.speaker = p /\ c.start >= from}
-----------------------------------------------------------------------------
(* The read loop. *)

Fresh(p) == sess[p] # None /\ now - startedAt[sess[p]] < MaxAge

Bug_NeverCancels(s) == ctx
Cancelled(s) == IF s = None THEN ctx ELSE [ctx EXCEPT ![s] = "cancelled"]

(* After a failed Send or NewStream the speaker has no session. *)
Dropped(p) == [sess EXCEPT ![p] = None]

(* A Send succeeds while the recognizer's side is not down, and may fail   *)
(* before recvLoop learns of the end.                                      *)
SendFails(s) == remote[s] = "down"

(* forwardToSTT into the session there is.  A Send that succeeds, or a     *)
(* payload that is not base64, changes nothing here.                       *)
SendAudioFails(p) ==
  /\ conn = "open" /\ recognizer
  /\ Fresh(p)
  /\ SendFails(sess[p])
  /\ ctx' = Cancelled(sess[p])
  /\ sess' = Dropped(p)
  /\ UNCHANGED <<now, conn, recognizer, acc, opened, owner, startedAt, remote,
                 loopVars, readerVars, storeVars>>

(* getOrCreateSTTStream when there is no session or it is too old: the old *)
(* stream is closed first, then NewStream succeeds, which starts the two   *)
(* goroutines, or fails.                                                   *)
OpenStream(p) ==
  LET s == opened + 1 IN
  /\ conn = "open" /\ recognizer
  /\ ~Fresh(p)
  /\ opened < MaxStreams
  /\ opened' = s
  /\ sess' = [sess EXCEPT ![p] = s]
  /\ owner' = [owner EXCEPT ![s] = p]
  /\ startedAt' = [startedAt EXCEPT ![s] = now]
  /\ ctx' = [Cancelled(sess[p]) EXCEPT ![s] = "live"]
  /\ remote' = [remote EXCEPT ![s] = "up"]
  /\ loop' = [loop EXCEPT ![s] = "recv"]
  /\ reader' = [reader EXCEPT ![s] = "wait"]
  /\ since' = [since EXCEPT ![s] = now]
  /\ UNCHANGED <<now, conn, recognizer, acc, heard, queue, results, chunk, storeVars>>

OpenFails(p) ==
  /\ SttMayFail
  /\ conn = "open" /\ recognizer
  /\ ~Fresh(p)
  /\ ctx' = Cancelled(sess[p])
  /\ sess' = Dropped(p)
  /\ UNCHANGED <<now, conn, recognizer, acc, opened, owner, startedAt, remote,
                 loopVars, readerVars, storeVars>>

(* The stub: a chunk per Flush of audio, persisted on the read loop. *)
StubChunk(p) ==
  LET c == [id |-> results + 1, speaker |-> p, stream |-> None,
            start |-> acc[p], end |-> now]
  IN
  /\ conn = "open" /\ ~recognizer
  /\ \/ /\ acc[p] = -1
        /\ acc' = [acc EXCEPT ![p] = now]
        /\ UNCHANGED <<results, storeVars>>
     \/ /\ acc[p] # -1 /\ now - acc[p] >= Flush
        /\ results < MaxResults
        /\ results' = results + 1
        /\ acc' = [acc EXCEPT ![p] = now]
        /\ StoreRecentTranscript(c)
        /\ Enqueue(c)
  /\ UNCHANGED <<now, conn, recognizer, sess, opened, streamVars,
                 loop, heard, queue, readerVars>>

(* ServeWS returns: its deferred function closes every session's stream,   *)
(* then net/http cancels the request context.                              *)
ReadFails ==
  /\ conn = "open"
  /\ conn' = "closing"
  /\ ctx' = [s \in Stream |->
               IF \E p \in Speaker : sess[p] = s THEN "cancelled" ELSE ctx[s]]
  /\ sess' = [p \in Speaker |-> None]
  /\ UNCHANGED <<now, recognizer, acc, opened, owner, startedAt, remote,
                 loopVars, readerVars, storeVars>>

CancelContext ==
  /\ conn = "closing"
  /\ conn' = "closed"
  /\ ctx' = [s \in Stream |-> IF ctx[s] = "live" THEN "cancelled" ELSE ctx[s]]
  /\ UNCHANGED <<now, recognizer, sess, acc, opened, owner, startedAt, remote,
                 loopVars, readerVars, storeVars>>
-----------------------------------------------------------------------------
(* recvLoop of stream s. *)

(* Recv returns a final result.  (Interim results are skipped, and a       *)
(* response with several finals is received one by one.)                   *)
RecvResult(s) ==
  /\ loop[s] = "recv" /\ remote[s] = "up"
  /\ results < MaxResults
  /\ results' = results + 1
  /\ heard' = [heard EXCEPT ![s] = @ + 1]
  /\ loop' = [loop EXCEPT ![s] = "push"]
  /\ UNCHANGED <<now, gatewayVars, streamVars, queue, readerVars, storeVars>>

(* select: the channel has room, or the context is done.  When both, Go    *)
(* picks either.                                                           *)
Bug_UnboundedChannel(s) ==
  /\ loop[s] = "push"
  /\ queue' = [queue EXCEPT ![s] = Append(@, heard[s])]
  /\ loop' = [loop EXCEPT ![s] = "recv"]
  /\ UNCHANGED <<now, gatewayVars, streamVars, heard, results, readerVars, storeVars>>
PushResult(s) ==
  /\ loop[s] = "push"
  /\ Len(queue[s]) < Capacity
  /\ queue' = [queue EXCEPT ![s] = Append(@, heard[s])]
  /\ loop' = [loop EXCEPT ![s] = "recv"]
  /\ UNCHANGED <<now, gatewayVars, streamVars, heard, results, readerVars, storeVars>>

DropResult(s) ==
  /\ loop[s] = "push" /\ ctx[s] = "cancelled"
  /\ loop' = [loop EXCEPT ![s] = "done"]
  /\ UNCHANGED <<now, gatewayVars, streamVars, heard, queue, results, readerVars, storeVars>>

(* Recv fails (cancelled, broken or EOF) or returns resp.Error: the        *)
(* deferred close(s.results) runs either way.                              *)
Bug_RecvIgnoresClose(s) ==
  /\ loop[s] = "recv" /\ remote[s] # "up"
  /\ loop' = [loop EXCEPT ![s] = "done"]
  /\ UNCHANGED <<now, gatewayVars, streamVars, heard, queue, results, readerVars, storeVars>>
RecvEnds(s) ==
  /\ loop[s] = "recv"
  /\ ctx[s] = "cancelled" \/ remote[s] # "up"
  /\ loop' = [loop EXCEPT ![s] = "done"]
  /\ UNCHANGED <<now, gatewayVars, streamVars, heard, queue, results, readerVars, storeVars>>

(* The recognizer ends the stream: with an in-band error first, or at once. *)
RemoteEnds(s) ==
  /\ SttMayFail
  /\ \/ remote[s] = "up" /\ remote' = [remote EXCEPT ![s] = "error"]
     \/ remote[s] # "down" /\ remote' = [remote EXCEPT ![s] = "down"]
  /\ UNCHANGED <<now, gatewayVars, owner, startedAt, ctx, loopVars, readerVars, storeVars>>
-----------------------------------------------------------------------------
(* consumeSTTResults of stream s. *)

Bug_LatestOnly(s) ==
  /\ reader[s] = "wait" /\ queue[s] # <<>>
  /\ queue' = [queue EXCEPT ![s] = <<>>]
  /\ chunk' = [chunk EXCEPT ![s] = [id |-> heard[s], speaker |-> owner[s],
                                    stream |-> s, start |-> since[s], end |-> now]]
  /\ since' = [since EXCEPT ![s] = now]
  /\ reader' = [reader EXCEPT ![s] = "store"]
  /\ UNCHANGED <<now, gatewayVars, streamVars, loop, heard, results, storeVars>>
TakeResult(s) ==
  /\ reader[s] = "wait" /\ queue[s] # <<>>
  /\ queue' = [queue EXCEPT ![s] = Tail(@)]
  /\ chunk' = [chunk EXCEPT ![s] = [id |-> Head(queue[s]), speaker |-> owner[s],
                                    stream |-> s, start |-> since[s], end |-> now]]
  /\ since' = [since EXCEPT ![s] = now]
  /\ reader' = [reader EXCEPT ![s] = "store"]
  /\ UNCHANGED <<now, gatewayVars, streamVars, loop, heard, results, storeVars>>

(* persistTranscriptChunk: both calls are best effort. *)
StoreChunk(s) ==
  /\ reader[s] = "store"
  /\ StoreRecentTranscript(chunk[s])
  /\ reader' = [reader EXCEPT ![s] = "enqueue"]
  /\ UNCHANGED <<now, gatewayVars, streamVars, loopVars, since, chunk, published>>

EnqueueChunk(s) ==
  /\ reader[s] = "enqueue"
  /\ Enqueue(chunk[s])
  /\ reader' = [reader EXCEPT ![s] = "wait"]
  /\ chunk' = [chunk EXCEPT ![s] = NoChunk]
  /\ UNCHANGED <<now, gatewayVars, streamVars, loopVars, since, cache, stored>>

(* The range over Results() ends when the channel is closed and empty. *)
Bug_EndsUndrained(s) ==
  /\ reader[s] = "wait" /\ loop[s] = "done"
  /\ reader' = [reader EXCEPT ![s] = "done"]
  /\ UNCHANGED <<now, gatewayVars, streamVars, loopVars, since, chunk, storeVars>>
ConsumerEnds(s) ==
  /\ reader[s] = "wait" /\ queue[s] = <<>> /\ loop[s] = "done"
  /\ reader' = [reader EXCEPT ![s] = "done"]
  /\ UNCHANGED <<now, gatewayVars, streamVars, loopVars, since, chunk, storeVars>>
-----------------------------------------------------------------------------
Tick ==
  /\ now < MaxTime
  /\ now' = now + 1
  /\ UNCHANGED <<gatewayVars, streamVars, loopVars, readerVars, storeVars>>

ReadLoop(p) == SendAudioFails(p) \/ OpenStream(p) \/ OpenFails(p) \/ StubChunk(p)
RecvLoop(s) == PushResult(s) \/ DropResult(s) \/ RecvEnds(s)
Consumer(s) == TakeResult(s) \/ StoreChunk(s) \/ EnqueueChunk(s) \/ ConsumerEnds(s)

Next ==
  \/ Tick \/ ReadFails \/ CancelContext
  \/ \E p \in Speaker : ReadLoop(p)
  \/ \E s \in Stream : RecvResult(s) \/ RecvLoop(s) \/ RemoteEnds(s) \/ Consumer(s)

Spec == Init /\ [][Next]_vars

(* The Go scheduler runs every goroutine that can move; net/http cancels   *)
(* the context of a handler that returned.  Nothing makes audio, results   *)
(* or failures come.                                                       *)
Fairness ==
  /\ WF_vars(CancelContext)
  /\ \A s \in Stream : WF_vars(RecvLoop(s)) /\ WF_vars(Consumer(s))
FairSpec == Spec /\ Fairness
-----------------------------------------------------------------------------
TypeOK ==
  /\ now \in 0..MaxTime
  /\ conn \in {"open", "closing", "closed"}
  /\ recognizer \in BOOLEAN
  /\ sess \in [Speaker -> Stream \cup {None}]
  /\ acc \in [Speaker -> Nat \cup {-1}]
  /\ opened \in 0..MaxStreams
  /\ owner \in [Stream -> Speaker \cup {"none"}]
  /\ startedAt \in [Stream -> Nat]
  /\ ctx \in [Stream -> {"none", "live", "cancelled"}]
  /\ remote \in [Stream -> {"up", "error", "down"}]
  /\ loop \in [Stream -> {"off", "recv", "push", "done"}]
  /\ heard \in [Stream -> Nat]
  /\ queue \in [Stream -> Seq(Nat)] /\ \A s \in Stream : Len(queue[s]) <= Capacity
  /\ reader \in [Stream -> {"off", "wait", "store", "enqueue", "done"}]
  /\ since \in [Stream -> Nat]
  /\ chunk \in [Stream -> Chunk \cup {NoChunk}]
  /\ results \in 0..MaxResults
  /\ cache \subseteq Chunk /\ stored \subseteq Chunk
  /\ published \in [Stream \cup {None} -> Seq(Nat)]

(* A speaker has one running stream, the one in sttSessions, and what is   *)
(* in sttSessions was not closed ("one streaming session per (session_id,  *)
(* speaker)", recognizer.go): neither rotation, a failed Send, a failed    *)
(* NewStream nor the end of the connection leaks a gRPC call or keeps a    *)
(* dead one.                                                               *)
OneStreamPerSpeaker ==
  /\ \A s \in Stream : ctx[s] = "live" => owner[s] \in Speaker /\ sess[owner[s]] = s
  /\ \A p \in Speaker : sess[p] # None => ctx[sess[p]] = "live" /\ owner[sess[p]] = p

(* On a bus that does not fail, what a stream's goroutines publish while   *)
(* the connection lasts is the final results in order and without a gap,   *)
(* however full the channel gets (recvLoop, consumeSTTResults).            *)
PublishedInOrder ==
  ~BusMayFail /\ conn # "closed" =>
    \A s \in Stream :
      /\ Len(published[s]) <= heard[s]
      /\ \A i \in DOMAIN published[s] : published[s][i] = i

(* A stream that the recognizer ended, and the gateway did not close,      *)
(* loses nothing: the consumer drains the channel before it stops.         *)
ResultsKept ==
  ~BusMayFail =>
    \A s \in Stream :
      reader[s] = "done" /\ ctx[s] = "live" => Len(published[s]) = heard[s]

(* The cache keeps a margin beyond the evidence window: a pack built up to *)
(* Keep - Pack after the t_ms of its trigger still finds every chunk that  *)
(* was cached and lies in its window (client.go, transcriptRecentWindow).  *)
WindowServed ==
  \A p \in Speaker, late \in 0..(Keep - Pack - 1) :
    {c \in stored : c.speaker = p /\ c.start >= now - late - Pack}
      \subseteq GetTranscriptWindow(p, now - late - Pack)

(* A stream that was closed, or that the recognizer ended, releases its    *)
(* two goroutines (Close, recvLoop, consumeSTTResults).                    *)
StreamsEnd ==
  \A s \in Stream :
    (ctx[s] = "cancelled" \/ (ctx[s] = "live" /\ remote[s] # "up"))
      ~> (loop[s] = "done" /\ reader[s] = "done")

(* What the evidence pack is promised (realtime.go, "the same-window       *)
(* transcript"; client.go, "so this keeps a 10s safety margin beyond       *)
(* that"): a final result that was cached within the last Pack ticks is in *)
(* the window.  It is not after a silence, because the window is by        *)
(* t_start_ms and a chunk starts where the speaker's previous one ended.   *)
RecentSpeechInWindow ==
  \A c \in stored :
    c.stream # None /\ c.end >= now - Pack => c \in GetTranscriptWindow(c.speaker, now - Pack)
=============================================================================
