-------------------------- MODULE RealtimeFeedback --------------------------
(***************************************************************************)
(* The realtime feedback path of one session: the WebSocket read loop and  *)
(* the periodic ticker goroutine of every connection that carries the      *)
(* session (internal/gateway), the Realtime Worker they both call          *)
(* (internal/realtime) and the Redis keys the worker reads and writes      *)
(* (internal/redis).  One action is one call that touches shared state, so *)
(* the cooldown check and the cooldown write of one pipeline are two       *)
(* steps, with the evidence reads and the LLM call between them.           *)
(*                                                                         *)
(* An operator named Bug_... is a mistake the code could plausibly contain *)
(* in place of the definition after it.  No action uses it: it shows that  *)
(* the properties below would notice.                                      *)
(***************************************************************************)
EXTENDS Integers, Sequences, FiniteSets

CONSTANTS
  Conn,         \* WebSocket connections that carry this session
  Cooldown,     \* feedbackCooldownMs, in ticks of the clock
  LlmTimeout,   \* realtimeLLMTimeout, in ticks
  RecentMax,    \* feedbackRecentMaxCount
  LlmEnabled,   \* h.llm # nil: also starts the ticker goroutines
  RedisMayFail, \* a Redis call may return an error
  BusMayFail,   \* an Enqueue on the event bus may return an error
  MaxTime,      \* bound: ticks of the clock
  MaxMsgs       \* bound: mood_wave_sample messages received

ASSUME CooldownAssumption == Cooldown \in Nat \ {0}
ASSUME LlmTimeoutAssumption == LlmTimeout \in Nat
ASSUME RecentMaxAssumption == RecentMax \in Nat \ {0}
ASSUME FlagsAssumption == {LlmEnabled, RedisMayFail, BusMayFail} \subseteq BOOLEAN
ASSUME BoundsAssumption == MaxTime \in Nat /\ MaxMsgs \in Nat

VARIABLES
  now,           \* wall clock
  conn,          \* state of each connection
  pc,            \* the call each goroutine makes next
  req,           \* what the running pipeline of each goroutine holds
  msgs,          \* mood_wave_sample messages received so far
  latest,        \* session:state latest_mood_sample: its t_ms, -1 when absent
  trigRecent,    \* trigger:recent: the message that carried it, 0 when absent
  cooldownUntil, \* feedback:cooldown: when the key expires
  recent,        \* feedback:recent ZSET: the feedback it holds
  accepted,      \* feedback accepted so far, in order of the cooldown writes
  shown,         \* feedback that reached Chrome
  bus            \* events published on feature-events

redisVars == <<latest, trigRecent, cooldownUntil, recent>>
vars == <<now, conn, pc, req, msgs, redisVars, accepted, shown, bus>>
-----------------------------------------------------------------------------
(* Goroutines: ServeWS itself, and runPeriodicFeedback. *)
Loop(c) == <<c, "loop">>
Ticker(c) == <<c, "ticker">>
Loops == Conn \X {"loop"}
Tickers == Conn \X {"ticker"}
Actor == Loops \cup Tickers

(* open: peer connected.  lost: peer gone, ServeWS has not noticed.        *)
(* closed: ServeWS returned, its context is cancelled and periodicStop is  *)
(* closed.  crashed: the gateway instance died.                            *)
ConnState == {"new", "open", "lost", "closed", "crashed"}

Deciding == {"pack", "llm", "set"}             \* past the check, before the write
Emitting == {"remember", "write", "publish"}   \* the feedback is accepted
PcState == {"off", "idle", "check", "done"} \cup Deciding \cup Emitting

(* t: t_ms of the sample the feedback is about.  msg: the message that     *)
(* carries the trigger, 0 for a periodic check.  base: feedback accepted   *)
(* when the cooldown was checked.  deadline: of the LLM context.           *)
(* fb: index of the feedback once accepted.                                *)
Request == [t : Nat, msg : Nat, base : Nat, deadline : Nat, fb : Nat]
NoReq == [t |-> 0, msg |-> 0, base |-> 0, deadline |-> 0, fb |-> 0]

Feedback == [by : Actor, t : Nat, msg : Nat, base : Nat, at : Nat]

Init ==
  /\ now = 0
  /\ conn = [c \in Conn |-> "new"]
  /\ pc = [a \in Actor |-> "off"]
  /\ req = [a \in Actor |-> NoReq]
  /\ msgs = 0
  /\ latest = -1
  /\ trigRecent = 0
  /\ cooldownUntil = 0
  /\ recent = {}
  /\ accepted = <<>>
  /\ shown = {}
  /\ bus = {}

(* A call made under the connection's request context succeeds only while  *)
(* that context lives, and fails when it does not or the backend fails.    *)
CtxAlive(a) == conn[a[1]] # "closed"
RedisOk(a) == CtxAlive(a)
RedisErr(a) == RedisMayFail \/ ~CtxAlive(a)
BusErr(a) == BusMayFail \/ ~CtxAlive(a)  \* a cancelled Publish may still be sent

(* The pipeline of a ends: the handler returns to its read or select. *)
Finish(a) ==
  /\ pc' = [pc EXCEPT ![a] = "idle"]
  /\ req' = [req EXCEPT ![a] = NoReq]
-----------------------------------------------------------------------------
(* The connection. *)

Connect(c) ==
  /\ conn[c] = "new"
  /\ conn' = [conn EXCEPT ![c] = "open"]
  /\ pc' = [pc EXCEPT ![Loop(c)] = "idle"]
  /\ UNCHANGED <<now, req, msgs, redisVars, accepted, shown, bus>>

Disconnect(c) ==
  /\ conn[c] = "open"
  /\ conn' = [conn EXCEPT ![c] = "lost"]
  /\ UNCHANGED <<now, pc, req, msgs, redisVars, accepted, shown, bus>>

(* The read fails once the loop is back at it: ServeWS returns, which      *)
(* cancels the request context and closes periodicStop.                    *)
ReadFails(c) ==
  /\ conn[c] = "lost"
  /\ pc[Loop(c)] = "idle"
  /\ conn' = [conn EXCEPT ![c] = "closed"]
  /\ pc' = [pc EXCEPT ![Loop(c)] = "done"]
  /\ UNCHANGED <<now, req, msgs, redisVars, accepted, shown, bus>>

Crash(c) ==
  /\ conn[c] \in {"open", "lost", "closed"}
  /\ conn' = [conn EXCEPT ![c] = "crashed"]
  /\ pc' = [pc EXCEPT ![Loop(c)] = "done", ![Ticker(c)] = "done"]
  /\ req' = [req EXCEPT ![Loop(c)] = NoReq, ![Ticker(c)] = NoReq]
  /\ UNCHANGED <<now, msgs, redisVars, accepted, shown, bus>>
-----------------------------------------------------------------------------
(* handleMoodWaveSample up to the Realtime Worker.  The three stores are   *)
(* best effort: each may fail on its own and only logs.  No other          *)
(* goroutine reads what lies between them, so they are one step.           *)
ReceiveSample(c, hasTrigger) ==
  /\ conn[c] \in {"open", "lost"}
  /\ pc[Loop(c)] = "idle"
  /\ msgs < MaxMsgs
  /\ msgs' = msgs + 1
  /\ latest' \in {now} \cup (IF RedisMayFail THEN {latest} ELSE {})
  /\ bus' \in {bus \cup {[kind |-> "sample", id |-> msgs']}}
                \cup (IF BusMayFail THEN {bus} ELSE {})
  /\ LET started == IF LlmEnabled /\ pc[Ticker(c)] = "off"
                    THEN [pc EXCEPT ![Ticker(c)] = "idle"] ELSE pc
     IN  \/ /\ ~hasTrigger
            /\ pc' = started
            /\ UNCHANGED <<trigRecent, req>>
         \/ /\ hasTrigger
            /\ trigRecent' \in {msgs'} \cup (IF RedisMayFail THEN {trigRecent} ELSE {})
            /\ pc' = [started EXCEPT ![Loop(c)] = "check"]
            /\ req' = [req EXCEPT ![Loop(c)].t = now, ![Loop(c)].msg = msgs']
  /\ UNCHANGED <<now, conn, cooldownUntil, recent, accepted, shown>>

(* runPeriodicFeedback's select.  When stop and the tick are both ready Go *)
(* picks either; the check then runs under the cancelled context.          *)
PeriodicTick(c) ==
  /\ pc[Ticker(c)] = "idle"
  /\ pc' = [pc EXCEPT ![Ticker(c)] = "check"]
  /\ UNCHANGED <<now, conn, req, msgs, redisVars, accepted, shown, bus>>

Bug_NoStopCase(c) ==
  /\ pc[Ticker(c)] = "idle"
  /\ conn[c] = "crashed"
  /\ pc' = [pc EXCEPT ![Ticker(c)] = "done"]
  /\ UNCHANGED <<now, conn, req, msgs, redisVars, accepted, shown, bus>>

PeriodicStop(c) ==
  /\ pc[Ticker(c)] = "idle"
  /\ conn[c] = "closed"
  /\ pc' = [pc EXCEPT ![Ticker(c)] = "done"]
  /\ UNCHANGED <<now, conn, req, msgs, redisVars, accepted, shown, bus>>
-----------------------------------------------------------------------------
(* HandleTriggerWithGenerator and HandlePeriodicCheck. *)

Bug_ShortTtl == now + Cooldown - 1
Bug_EarlyExpiry == now + 1 < cooldownUntil

(* SetFeedbackCooldown (re)starts the key's TTL whatever it holds;         *)
(* InFeedbackCooldown asks whether it is still there.                      *)
ExpiresAt == now + Cooldown
InCooldown == now < cooldownUntil

(* InFeedbackCooldown: an error or a live key ends the pipeline. *)
CheckCooldown(a) ==
  /\ pc[a] = "check"
  /\ \/ /\ RedisErr(a)
        /\ Finish(a)
     \/ /\ RedisOk(a)
        /\ InCooldown
        /\ Finish(a)
     \/ /\ RedisOk(a)
        /\ ~InCooldown
        /\ pc' = [pc EXCEPT ![a] = "pack"]
        /\ req' = [req EXCEPT ![a].base = Len(accepted)]
  /\ UNCHANGED <<now, conn, msgs, redisVars, accepted, shown, bus>>

Bug_NoSampleCheck(a) == TRUE

HasSample(a) == a \in Tickers => latest # -1

(* The evidence reads.  Any failed read but that of recent feedback ends   *)
(* the pipeline; so does a periodic check of a session with no sample.     *)
BuildEvidencePack(a) ==
  /\ pc[a] = "pack"
  /\ \/ /\ RedisErr(a)
        /\ Finish(a)
     \/ /\ RedisOk(a)
        /\ ~HasSample(a)
        /\ Finish(a)
     \/ /\ RedisOk(a)
        /\ HasSample(a)
        /\ pc' = [pc EXCEPT ![a] = IF LlmEnabled THEN "llm" ELSE "set"]
        /\ req' = [req EXCEPT ![a].t = IF a \in Tickers THEN latest ELSE @,
                              ![a].deadline = now + LlmTimeout]
  /\ UNCHANGED <<now, conn, msgs, redisVars, accepted, shown, bus>>

(* GenerateFeedback returns a candidate, an error, or times out at the     *)
(* deadline; the rule fallback stands in for the last two, so the pipeline *)
(* goes on in every case.                                                  *)
Generate(a) ==
  /\ pc[a] = "llm"
  /\ pc' = [pc EXCEPT ![a] = "set"]
  /\ UNCHANGED <<now, conn, req, msgs, redisVars, accepted, shown, bus>>

Bug_SetErrorOnlyLogged(a) ==
  /\ pc[a] = "set"
  /\ cooldownUntil' = ExpiresAt
  /\ accepted' \in {Append(accepted, [by |-> a, t |-> req[a].t, msg |-> req[a].msg,
                                      base |-> req[a].base, at |-> now])}
                     \cup (IF RedisErr(a) THEN {accepted} ELSE {})
  /\ pc' = [pc EXCEPT ![a] = "remember"]
  /\ req' = [req EXCEPT ![a].fb = Len(accepted) + 1]
  /\ UNCHANGED <<now, conn, msgs, latest, trigRecent, recent, shown, bus>>

(* SetFeedbackCooldown.  On an error, which Redis may report after it      *)
(* applied the SET, the callers drop the feedback although accepted is     *)
(* true.                                                                   *)
SetCooldown(a) ==
  /\ pc[a] = "set"
  /\ \/ /\ RedisErr(a)
        /\ cooldownUntil' \in {cooldownUntil, ExpiresAt}
        /\ Finish(a)
        /\ UNCHANGED accepted
     \/ /\ RedisOk(a)
        /\ cooldownUntil' = ExpiresAt
        /\ accepted' = Append(accepted, [by |-> a, t |-> req[a].t, msg |-> req[a].msg,
                                         base |-> req[a].base, at |-> now])
        /\ pc' = [pc EXCEPT ![a] = "remember"]
        /\ req' = [req EXCEPT ![a].fb = Len(accepted')]
  /\ UNCHANGED <<now, conn, msgs, latest, trigRecent, recent, shown, bus>>

(* What ZREMRANGEBYRANK leaves: the RecentMax members of highest t_ms,     *)
(* members of equal score in an order the code does not choose.            *)
Trimmed(S) ==
  {R \in SUBSET S :
     /\ Cardinality(R) = IF Cardinality(S) > RecentMax THEN RecentMax ELSE Cardinality(S)
     /\ \A r \in R, s \in S \ R : accepted[r].t >= accepted[s].t}

StoreRecentFeedback(a) ==
  /\ pc[a] = "remember"
  /\ \/ RedisOk(a) /\ recent' \in Trimmed(recent \cup {req[a].fb})
     \/ RedisErr(a) /\ recent' = recent
  /\ pc' = [pc EXCEPT ![a] = "write"]
  /\ UNCHANGED <<now, conn, req, msgs, latest, trigRecent, cooldownUntil, accepted, shown, bus>>

Bug_LoopReturnsToo(a) == "done"
Bug_TickerSkipsEnqueue(a) == IF a \in Tickers THEN "idle" ELSE "publish"

AfterWrite(a) == "publish"
AfterFailedWrite(a) == IF a \in Tickers THEN "done" ELSE "publish"

(* wsjson.Write.  While the peer is only lost the write may still be       *)
(* buffered without an error.  The read loop goes on to publish after a    *)
(* failed write; the ticker goroutine returns.                             *)
WriteFeedback(a) ==
  /\ pc[a] = "write"
  /\ \/ /\ conn[a[1]] \in {"open", "lost"}
        /\ shown' = IF conn[a[1]] = "open" THEN shown \cup {req[a].fb} ELSE shown
        /\ pc' = [pc EXCEPT ![a] = AfterWrite(a)]
        /\ UNCHANGED req
     \/ /\ conn[a[1]] # "open"
        /\ pc' = [pc EXCEPT ![a] = AfterFailedWrite(a)]
        /\ req' = IF AfterFailedWrite(a) = "done" THEN [req EXCEPT ![a] = NoReq] ELSE req
        /\ UNCHANGED shown
  /\ UNCHANGED <<now, conn, msgs, redisVars, accepted, bus>>

(* enqueueTriggerAndFeedback, or the ticker's own Enqueue: an error is     *)
(* only logged.                                                            *)
PublishFeedback(a) ==
  /\ pc[a] = "publish"
  /\ \/ bus' = bus \cup {[kind |-> "feedback", id |-> req[a].fb]}
     \/ BusErr(a) /\ UNCHANGED bus
  /\ Finish(a)
  /\ UNCHANGED <<now, conn, msgs, redisVars, accepted, shown>>

Pipeline(a) ==
  \/ CheckCooldown(a)
  \/ BuildEvidencePack(a)
  \/ Generate(a)
  \/ SetCooldown(a)
  \/ StoreRecentFeedback(a)
  \/ WriteFeedback(a)
  \/ PublishFeedback(a)
-----------------------------------------------------------------------------
(* The LLM context expires at its deadline, so no call outlives it. *)
Tick ==
  /\ now < MaxTime
  /\ \A a \in Actor : pc[a] = "llm" => now < req[a].deadline
  /\ now' = now + 1
  /\ UNCHANGED <<conn, pc, req, msgs, redisVars, accepted, shown, bus>>

Next ==
  \/ \E c \in Conn :
       \/ Connect(c) \/ Disconnect(c) \/ ReadFails(c) \/ Crash(c)
       \/ \E hasTrigger \in BOOLEAN : ReceiveSample(c, hasTrigger)
       \/ PeriodicTick(c) \/ PeriodicStop(c)
  \/ \E a \in Actor : Pipeline(a)
  \/ Tick

Spec == Init /\ [][Next]_vars

(* The Go scheduler runs every goroutine that can take a step, calls       *)
(* return, and select picks a ready case uniformly at random, so a stop    *)
(* that stays ready is eventually picked.                                  *)
Fairness ==
  /\ \A a \in Actor : WF_vars(Pipeline(a))
  /\ \A c \in Conn : WF_vars(ReadFails(c)) /\ SF_vars(PeriodicStop(c))

FairSpec == Spec /\ Fairness
-----------------------------------------------------------------------------
TypeOK ==
  /\ now \in Nat
  /\ conn \in [Conn -> ConnState]
  /\ pc \in [Actor -> PcState]
  /\ req \in [Actor -> Request]
  /\ msgs \in Nat
  /\ latest \in Nat \cup {-1}
  /\ trigRecent \in Nat
  /\ cooldownUntil \in Nat
  /\ recent \subseteq Nat
  /\ accepted \in Seq(Feedback)
  /\ shown \subseteq Nat
  /\ bus \subseteq [kind : {"sample", "feedback"}, id : Nat]

(* Two pipelines that do not overlap -- the later one checked the cooldown *)
(* after the earlier one had written it -- emit feedback at least one      *)
(* cooldown apart, whatever other pipelines run in between them.           *)
SequentialSpacing ==
  \A j \in DOMAIN accepted : \A i \in 1 .. accepted[j].base :
    accepted[j].at >= accepted[i].at + Cooldown

(* One goroutine never emits twice within a cooldown, so a connection can  *)
(* show at most two feedback events per window: one of its read loop and   *)
(* one of its ticker.                                                      *)
GoroutineSpacing ==
  \A i, j \in DOMAIN accepted :
    i < j /\ accepted[i].by = accepted[j].by => accepted[j].at >= accepted[i].at + Cooldown

Published == {e.id : e \in {b \in bus : b.kind = "feedback"}}

(* Feedback whose cooldown write was reported as failed leaves no trace:   *)
(* what Chrome shows, what the next evidence pack recalls and what is      *)
(* published was accepted, and a trigger is published only in that case.   *)
OnlyAcceptedLeavesTrace == shown \cup recent \cup Published \subseteq DOMAIN accepted

(* A goroutine is still handling feedback i. *)
InProgress(i) == LET a == accepted[i].by IN pc[a] \in Emitting /\ req[a].fb = i

(* On a bus that does not fail, feedback accepted for a trigger is         *)
(* published once its handler is done with it, also when the peer was gone *)
(* before the WebSocket write: only the death of the instance loses it.    *)
TriggerFeedbackDurable ==
  ~BusMayFail =>
    \A i \in DOMAIN accepted :
      accepted[i].by \in Loops /\ conn[accepted[i].by[1]] # "crashed"
        => InProgress(i) \/ i \in Published

(* On such a bus, what the presenter was shown is published, unless the    *)
(* instance died or the ticker lost its context between the two.           *)
ShownIsDurable ==
  ~BusMayFail =>
    \A i \in shown :
      \/ InProgress(i) \/ i \in Published
      \/ conn[accepted[i].by[1]] = "crashed"
      \/ accepted[i].by \in Tickers /\ conn[accepted[i].by[1]] = "closed"

(* What the comments of the cooldown promise: feedback is accepted only    *)
(* when the session is outside the window of the last feedback.            *)
AcceptedOutsideCooldown ==
  \A i, j \in DOMAIN accepted : i < j => accepted[j].at >= accepted[i].at + Cooldown

(* The feedback path implements the per-source limiter. *)
Emitted == [i \in 1 .. Len(accepted) |-> [by |-> accepted[i].by, at |-> accepted[i].at]]
Limiter == INSTANCE FeedbackLimiter
             WITH Emitter <- Actor, Period <- Cooldown, emitted <- Emitted
ImplementsLimiter == Limiter!Spec

(* The inductive invariant behind the spacing properties.  The key outlives *)
(* the window of all feedback accepted so far; a pipeline past its check    *)
(* knows of feedback whose window is over, and of all its own feedback; and *)
(* an actor that emits owns an accepted feedback.                           *)
KeyCoversWindows ==
  \A i \in DOMAIN accepted :
    accepted[i].at <= now /\ accepted[i].at + Cooldown <= cooldownUntil

DecidingPastWindows ==
  \A a \in Actor : pc[a] \in Deciding =>
    /\ req[a].base <= Len(accepted)
    /\ \A i \in DOMAIN accepted :
         i <= req[a].base \/ accepted[i].by = a
           => i <= req[a].base /\ accepted[i].at + Cooldown <= now

EmittingOwns ==
  \A a \in Actor : pc[a] \in Emitting =>
    req[a].fb \in DOMAIN accepted /\ accepted[req[a].fb].by = a

BaseIsEarlier == \A j \in DOMAIN accepted : accepted[j].base < j

SpacingInv ==
  /\ TypeOK
  /\ KeyCoversWindows
  /\ DecidingPastWindows
  /\ EmittingOwns
  /\ BaseIsEarlier
  /\ SequentialSpacing
  /\ GoroutineSpacing
  /\ OnlyAcceptedLeavesTrace

(* A lost connection releases both its goroutines: the read loop finishes  *)
(* the pipeline it is in and returns, and the cancelled context and the    *)
(* closed stop channel end the ticker, wherever it was.                    *)
DisconnectReleases ==
  \A c \in Conn :
    conn[c] = "lost" ~> /\ conn[c] \in {"closed", "crashed"}
                        /\ pc[Loop(c)] = "done"
                        /\ pc[Ticker(c)] \in {"off", "done"}
=============================================================================
