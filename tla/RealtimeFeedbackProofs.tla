----------------------- MODULE RealtimeFeedbackProofs -----------------------
(***************************************************************************)
(* For any number of connections, any cooldown and any failures: the types *)
(* of RealtimeFeedback, the spacing of its feedback, that it implements    *)
(* FeedbackLimiter, and that feedback is published on a bus that works.    *)
(***************************************************************************)
EXTENDS RealtimeFeedback, FiniteSetTheorems, TLAPS

USE CooldownAssumption, LlmTimeoutAssumption, RecentMaxAssumption,
    FlagsAssumption, BoundsAssumption

(* An actor is a pair whose first part is a connection: what CtxAlive and  *)
(* WriteFeedback look up exists.                                           *)
LEMMA ActorConn ==
  /\ \A a \in Actor : a[1] \in Conn
  /\ \A c \in Conn : Loop(c) \in Actor /\ Ticker(c) \in Actor
BY DEF Actor, Loops, Tickers, Loop, Ticker

(* Trimming keeps a subset, so feedback:recent never gains a member that   *)
(* was not stored.                                                         *)
LEMMA TrimmedSubset == \A S : \A R \in Trimmed(S) : R \subseteq S
BY DEF Trimmed

(* Filling in fields of one pipeline's request keeps the requests typed. *)
LEMMA RequestUpdate ==
  ASSUME req \in [Actor -> Request], NEW a \in Actor, NEW m \in Nat, NEW n \in Nat
  PROVE  /\ [req EXCEPT ![a].t = m, ![a].msg = n] \in [Actor -> Request]
         /\ [req EXCEPT ![a].t = m, ![a].deadline = n] \in [Actor -> Request]
         /\ [req EXCEPT ![a].base = n] \in [Actor -> Request]
         /\ [req EXCEPT ![a].fb = n] \in [Actor -> Request]
         /\ [req EXCEPT ![a] = NoReq] \in [Actor -> Request]
BY DEF Request, NoReq

(* Every variable keeps its type, whatever fails or interleaves. *)
LEMMA TypeStep == TypeOK /\ [Next]_vars => TypeOK'
<1> SUFFICES ASSUME TypeOK, [Next]_vars PROVE TypeOK'
  OBVIOUS
<1> USE ActorConn DEF TypeOK
<1>c. \A c \in Conn : Loop(c) # Ticker(c)
  BY DEF Loop, Ticker
<1>1. ASSUME NEW c \in Conn, Connect(c) PROVE TypeOK'
  BY <1>1 DEF Connect, ConnState, PcState, redisVars
<1>2. ASSUME NEW c \in Conn, Disconnect(c) PROVE TypeOK'
  BY <1>2 DEF Disconnect, ConnState, redisVars
<1>3. ASSUME NEW c \in Conn, ReadFails(c) PROVE TypeOK'
  BY <1>3 DEF ReadFails, ConnState, PcState, redisVars
<1>4. ASSUME NEW c \in Conn, Crash(c) PROVE TypeOK'
  <2>1. conn' \in [Conn -> ConnState]
    BY <1>4 DEF Crash, ConnState
  <2>2. pc' \in [Actor -> PcState]
    BY <1>4 DEF Crash, PcState
  <2>3. req' \in [Actor -> Request]
    BY <1>4 DEF Crash, NoReq, Request
  <2> QED
    BY <1>4, <2>1, <2>2, <2>3 DEF Crash, redisVars
<1>5. ASSUME NEW c \in Conn, NEW h \in BOOLEAN, ReceiveSample(c, h) PROVE TypeOK'
  <2>0. /\ now \in Nat /\ msgs \in Nat /\ latest \in Nat \cup {-1} /\ trigRecent \in Nat
        /\ bus \subseteq [kind : {"sample", "feedback"}, id : Nat]
    BY Zenon
  <2>1. msgs' \in Nat /\ latest' \in Nat \cup {-1} /\ trigRecent' \in Nat
    <3> HIDE DEF TypeOK
    <3>1. msgs' = msgs + 1 /\ latest' \in {now, latest} /\ trigRecent' \in {msgs', trigRecent}
      BY <1>5 DEF ReceiveSample
    <3> QED
      BY <2>0, <3>1
  <2>2. bus' \subseteq [kind : {"sample", "feedback"}, id : Nat]
    <3> HIDE DEF TypeOK
    <3>1. bus' \subseteq bus \cup {[kind |-> "sample", id |-> msgs']}
      BY <1>5 DEF ReceiveSample
    <3>2. [kind |-> "sample", id |-> msgs'] \in [kind : {"sample", "feedback"}, id : Nat]
      BY <2>1
    <3> QED
      BY <2>0, <3>1, <3>2
  <2>3. pc' \in [Actor -> PcState]
    BY <1>5 DEF ReceiveSample, PcState
  <2>4. req' \in [Actor -> Request]
    <3>1. [req EXCEPT ![Loop(c)].t = now, ![Loop(c)].msg = msgs'] \in [Actor -> Request]
      BY <2>1, RequestUpdate
    <3> QED
      BY <1>5, <3>1 DEF ReceiveSample
  <2> QED
    BY <1>5, <2>1, <2>2, <2>3, <2>4 DEF ReceiveSample
<1>6. ASSUME NEW c \in Conn, PeriodicTick(c) PROVE TypeOK'
  BY <1>6 DEF PeriodicTick, PcState, redisVars
<1>7. ASSUME NEW c \in Conn, PeriodicStop(c) PROVE TypeOK'
  BY <1>7 DEF PeriodicStop, PcState, redisVars
<1>f. ASSUME NEW a \in Actor, Finish(a)
      PROVE  pc' \in [Actor -> PcState] /\ req' \in [Actor -> Request]
  BY <1>f DEF Finish, PcState, NoReq, Request
<1>8. ASSUME NEW a \in Actor, CheckCooldown(a) PROVE TypeOK'
  <2>1. pc' \in [Actor -> PcState] /\ req' \in [Actor -> Request]
    <3>1. CASE Finish(a)
      BY <3>1, <1>f
    <3>2. CASE /\ pc' = [pc EXCEPT ![a] = "pack"]
               /\ req' = [req EXCEPT ![a].base = Len(accepted)]
      <4>1. Len(accepted) \in Nat
        OBVIOUS
      <4>2. [req EXCEPT ![a].base = Len(accepted)] \in [Actor -> Request]
        BY <4>1, RequestUpdate
      <4> QED
        BY <3>2, <4>2 DEF PcState, Deciding
    <3> QED
      BY <1>8, <3>1, <3>2 DEF CheckCooldown
  <2> QED
    BY <1>8, <2>1 DEF CheckCooldown, redisVars
<1>9. ASSUME NEW a \in Actor, BuildEvidencePack(a) PROVE TypeOK'
  <2>1. pc' \in [Actor -> PcState] /\ req' \in [Actor -> Request]
    <3>1. CASE Finish(a)
      BY <3>1, <1>f
    <3>2. CASE /\ HasSample(a)
               /\ pc' = [pc EXCEPT ![a] = IF LlmEnabled THEN "llm" ELSE "set"]
               /\ req' = [req EXCEPT ![a].t = IF a \in Tickers THEN latest ELSE @,
                                     ![a].deadline = now + LlmTimeout]
      <4> DEFINE t == IF a \in Tickers THEN latest ELSE req[a].t
      <4>1. t \in Nat /\ now + LlmTimeout \in Nat
        <5>1. req[a].t \in Nat /\ now \in Nat /\ latest \in Nat \cup {-1}
          BY DEF Request
        <5> QED
          <6> HIDE DEF TypeOK
          <6>1. CASE a \in Tickers
            <7>1. latest # -1
              BY <3>2, <6>1, Zenon DEF HasSample
            <7> QED
              BY <5>1, <6>1, <7>1
          <6>2. CASE a \notin Tickers
            BY <5>1, <6>2
          <6> QED
            BY <6>1, <6>2
      <4>2. [req EXCEPT ![a].t = t, ![a].deadline = now + LlmTimeout] \in [Actor -> Request]
        BY <4>1, RequestUpdate
      <4> QED
        BY <3>2, <4>2 DEF PcState, Deciding
    <3> QED
      BY <1>9, <3>1, <3>2 DEF BuildEvidencePack
  <2> QED
    BY <1>9, <2>1 DEF BuildEvidencePack, redisVars
<1>10. ASSUME NEW a \in Actor, Generate(a) PROVE TypeOK'
  BY <1>10 DEF Generate, PcState, Deciding, redisVars
<1>11. ASSUME NEW a \in Actor, SetCooldown(a) PROVE TypeOK'
  <2>c. cooldownUntil' \in Nat
    <3>1. cooldownUntil' \in {cooldownUntil, now + Cooldown}
      BY <1>11 DEF SetCooldown, ExpiresAt
    <3> QED
      BY <3>1
  <2>1. CASE UNCHANGED accepted /\ Finish(a)
    <3>1. pc' \in [Actor -> PcState] /\ req' \in [Actor -> Request]
      BY <2>1, <1>f, Zenon
    <3> QED
      BY <1>11, <2>1, <3>1, <2>c, Zenon DEF SetCooldown
  <2>2. CASE /\ accepted' = Append(accepted, [by |-> a, t |-> req[a].t, msg |-> req[a].msg,
                                              base |-> req[a].base, at |-> now])
             /\ pc' = [pc EXCEPT ![a] = "remember"]
             /\ req' = [req EXCEPT ![a].fb = Len(accepted')]
    <3>1. accepted' \in Seq(Feedback)
      <4>1. /\ req[a].t \in Nat /\ req[a].msg \in Nat /\ req[a].base \in Nat
            /\ now \in Nat /\ accepted \in Seq(Feedback)
        BY DEF Request
      <4>2. [by |-> a, t |-> req[a].t, msg |-> req[a].msg, base |-> req[a].base, at |-> now]
              \in Feedback
        BY <4>1 DEF Feedback
      <4> HIDE DEF TypeOK
      <4> QED
        BY <2>2, <4>1, <4>2
    <3>2. pc' \in [Actor -> PcState]
      BY <2>2 DEF PcState, Emitting
    <3>3. req' \in [Actor -> Request]
      <4>1. Len(accepted') \in Nat
        BY <3>1
      <4>2. [req EXCEPT ![a].fb = Len(accepted')] \in [Actor -> Request]
        BY <4>1, RequestUpdate
      <4> QED
        BY <2>2, <4>2
    <3> QED
      BY <1>11, <2>c, <3>1, <3>2, <3>3, Zenon DEF SetCooldown
  <2> QED
    BY <1>11, <2>1, <2>2 DEF SetCooldown
<1>12. ASSUME NEW a \in Actor, StoreRecentFeedback(a) PROVE TypeOK'
  <2>1. req[a].fb \in Nat
    BY DEF Request
  <2>2. recent' \subseteq recent \cup {req[a].fb}
    BY <1>12, TrimmedSubset DEF StoreRecentFeedback
  <2> QED
    <3>1. pc' \in [Actor -> PcState]
      BY <1>12 DEF StoreRecentFeedback, PcState, Emitting
    <3> QED
      BY <1>12, <2>1, <2>2, <3>1 DEF StoreRecentFeedback
<1>13. ASSUME NEW a \in Actor, WriteFeedback(a) PROVE TypeOK'
  <2>1. pc' \in [Actor -> PcState]
    BY <1>13 DEF WriteFeedback, AfterWrite, AfterFailedWrite, PcState, Emitting
  <2>2. req' \in [Actor -> Request]
    <3>1. [req EXCEPT ![a] = NoReq] \in [Actor -> Request]
      BY RequestUpdate
    <3>2. req' \in {req, [req EXCEPT ![a] = NoReq]}
      BY <1>13 DEF WriteFeedback
    <3> QED
      BY <3>1, <3>2
  <2>3. shown' \subseteq Nat
    <3>1. req[a].fb \in Nat
      BY DEF Request
    <3>2. shown' \subseteq shown \cup {req[a].fb}
      BY <1>13 DEF WriteFeedback
    <3> QED
      BY <3>1, <3>2
  <2> QED
    BY <1>13, <2>1, <2>2, <2>3 DEF WriteFeedback, redisVars
<1>14. ASSUME NEW a \in Actor, PublishFeedback(a) PROVE TypeOK'
  <2>1. bus' \subseteq [kind : {"sample", "feedback"}, id : Nat]
    BY <1>14 DEF PublishFeedback, Request
  <2> QED
    BY <1>14, <1>f, <2>1 DEF PublishFeedback, redisVars
<1>15. ASSUME Tick PROVE TypeOK'
  BY <1>15 DEF Tick, redisVars
<1>16. CASE UNCHANGED vars
  BY <1>16 DEF vars, redisVars
<1> QED
  BY <1>1, <1>2, <1>3, <1>4, <1>5, <1>6, <1>7, <1>8, <1>9, <1>10, <1>11, <1>12,
     <1>13, <1>14, <1>15, <1>16 DEF Next, Pipeline

(* Type correctness of the whole feedback path. *)
THEOREM TypeCorrect == Spec => []TypeOK
<1>1. Init => TypeOK
  BY DEF Init, TypeOK, PcState, ConnState, NoReq, Request
<1> QED
  BY <1>1, TypeStep, PTL DEF Spec
-----------------------------------------------------------------------------
(* What a step may do to the state the spacing properties read.  Either it *)
(* accepts no feedback ...                                                 *)
Quiet ==
  /\ accepted' = accepted
  /\ now' \in {now, now + 1}
  /\ cooldownUntil' \in {cooldownUntil, now + Cooldown}
  /\ \A a \in Actor : pc'[a] \in Deciding =>
       \/ pc[a] \in Deciding /\ req'[a].base = req[a].base
       \/ ~InCooldown /\ req'[a].base = Len(accepted)
  /\ \A a \in Actor : pc'[a] \in Emitting => pc[a] \in Emitting /\ req'[a].fb = req[a].fb
  /\ \A i \in shown' \cup recent' \cup Published' :
       \/ i \in shown \cup recent \cup Published
       \/ \E a \in Actor : pc[a] \in Emitting /\ i = req[a].fb

(* ... or it is the cooldown write of one pipeline. *)
Accepts(a) ==
  /\ pc[a] = "set"
  /\ accepted' = Append(accepted, [by |-> a, t |-> req[a].t, msg |-> req[a].msg,
                                   base |-> req[a].base, at |-> now])
  /\ cooldownUntil' = now + Cooldown
  /\ pc' = [pc EXCEPT ![a] = "remember"]
  /\ req' = [req EXCEPT ![a].fb = Len(accepted')]
  /\ UNCHANGED <<now, shown, recent, bus>>

(* Every step is of one of the two kinds. *)
LEMMA StepShape ==
  ASSUME TypeOK, [Next]_vars
  PROVE  Quiet \/ \E a \in Actor : Accepts(a)
<1> USE ActorConn DEF TypeOK, Deciding, Emitting
<1>1. ASSUME NEW c \in Conn, Connect(c) PROVE Quiet
  BY <1>1 DEF Connect, Quiet, Published, redisVars
<1>2. ASSUME NEW c \in Conn, Disconnect(c) PROVE Quiet
  BY <1>2 DEF Disconnect, Quiet, Published, redisVars
<1>3. ASSUME NEW c \in Conn, ReadFails(c) PROVE Quiet
  BY <1>3 DEF ReadFails, Quiet, Published, redisVars
<1>4. ASSUME NEW c \in Conn, Crash(c) PROVE Quiet
  BY <1>4 DEF Crash, Quiet, Published, redisVars
<1>5. ASSUME NEW c \in Conn, NEW h \in BOOLEAN, ReceiveSample(c, h) PROVE Quiet
  <2>1. bus' \in {bus, bus \cup {[kind |-> "sample", id |-> msgs']}}
    BY <1>5 DEF ReceiveSample
  <2>2. Published' \subseteq Published
    BY <2>1 DEF Published
  <2>3. UNCHANGED <<now, cooldownUntil, accepted, shown, recent>>
    BY <1>5 DEF ReceiveSample
  <2>4. \A a \in Actor : pc'[a] \in Deciding \cup Emitting => pc'[a] = pc[a] /\ req'[a] = req[a]
    BY <1>5 DEF ReceiveSample
  <2> QED
    BY <2>2, <2>3, <2>4 DEF Quiet
<1>6. ASSUME NEW c \in Conn, PeriodicTick(c) PROVE Quiet
  BY <1>6 DEF PeriodicTick, Quiet, Published, redisVars
<1>7. ASSUME NEW c \in Conn, PeriodicStop(c) PROVE Quiet
  BY <1>7 DEF PeriodicStop, Quiet, Published, redisVars
<1>8. ASSUME NEW a \in Actor, CheckCooldown(a) PROVE Quiet
  <2>1. CASE Finish(a)
    BY <1>8, <2>1 DEF CheckCooldown, Finish, Quiet, Published, redisVars
  <2>2. CASE /\ ~InCooldown
             /\ pc' = [pc EXCEPT ![a] = "pack"]
             /\ req' = [req EXCEPT ![a].base = Len(accepted)]
    <3>1. \A b \in Actor : b # a => pc'[b] = pc[b] /\ req'[b] = req[b]
      BY <2>2
    <3>2. pc'[a] = "pack" /\ req'[a].base = Len(accepted)
      BY <2>2 DEF Request
    <3> QED
      BY <1>8, <2>2, <3>1, <3>2 DEF CheckCooldown, Quiet, Published, redisVars
  <2> QED
    BY <1>8, <2>1, <2>2 DEF CheckCooldown
<1>9. ASSUME NEW a \in Actor, BuildEvidencePack(a) PROVE Quiet
  <2>1. CASE Finish(a)
    BY <1>9, <2>1 DEF BuildEvidencePack, Finish, Quiet, Published, redisVars
  <2>2. CASE /\ pc' = [pc EXCEPT ![a] = IF LlmEnabled THEN "llm" ELSE "set"]
             /\ req' = [req EXCEPT ![a].t = IF a \in Tickers THEN latest ELSE @,
                                   ![a].deadline = now + LlmTimeout]
    <3>1. \A b \in Actor : req'[b].base = req[b].base /\ req'[b].fb = req[b].fb
      BY <2>2 DEF Request
    <3>2. \A b \in Actor : b # a => pc'[b] = pc[b]
      BY <2>2
    <3>3. pc[a] = "pack" /\ pc'[a] \in {"llm", "set"}
      BY <1>9, <2>2 DEF BuildEvidencePack
    <3> QED
      BY <1>9, <3>1, <3>2, <3>3 DEF BuildEvidencePack, Quiet, Published, redisVars
  <2> QED
    BY <1>9, <2>1, <2>2 DEF BuildEvidencePack
<1>10. ASSUME NEW a \in Actor, Generate(a) PROVE Quiet
  BY <1>10 DEF Generate, Quiet, Published, redisVars
<1>11. ASSUME NEW a \in Actor, SetCooldown(a) PROVE Quiet \/ Accepts(a)
  BY <1>11 DEF SetCooldown, ExpiresAt, Finish, Quiet, Accepts, Published
<1>12. ASSUME NEW a \in Actor, StoreRecentFeedback(a) PROVE Quiet
  <2>1. recent' \subseteq recent \cup {req[a].fb}
    BY <1>12, TrimmedSubset DEF StoreRecentFeedback
  <2>2. pc' = [pc EXCEPT ![a] = "write"] /\ pc[a] = "remember"
    BY <1>12 DEF StoreRecentFeedback
  <2>3. UNCHANGED <<now, req, cooldownUntil, accepted, shown, bus>>
    BY <1>12 DEF StoreRecentFeedback
  <2> QED
    BY <2>1, <2>2, <2>3 DEF Quiet, Published
<1>13. ASSUME NEW a \in Actor, WriteFeedback(a) PROVE Quiet
  <2>1. shown' \subseteq shown \cup {req[a].fb} /\ pc[a] = "write"
    BY <1>13 DEF WriteFeedback
  <2>2. \A b \in Actor : b # a => pc'[b] = pc[b] /\ req'[b] = req[b]
    BY <1>13 DEF WriteFeedback
  <2>3. pc'[a] = "done" \/ (pc'[a] = "publish" /\ req'[a] = req[a])
    <3>1. pc'[a] = AfterWrite(a) \/ pc'[a] = AfterFailedWrite(a)
      BY <1>13 DEF WriteFeedback
    <3>2. pc'[a] = "publish" \/ pc'[a] = "done"
      BY <3>1 DEF AfterWrite, AfterFailedWrite
    <3>3. req' = req \/ pc' = [pc EXCEPT ![a] = "done"]
      <4>1. CASE AfterFailedWrite(a) = "done"
        BY <1>13, <4>1 DEF WriteFeedback
      <4>2. CASE AfterFailedWrite(a) # "done"
        BY <1>13, <4>2 DEF WriteFeedback
      <4> QED
        BY <4>1, <4>2
    <3> QED
      BY <3>2, <3>3
  <2>4. UNCHANGED <<now, cooldownUntil, accepted, recent, bus>>
    BY <1>13 DEF WriteFeedback, redisVars
  <2> QED
    BY <2>1, <2>2, <2>3, <2>4 DEF Quiet, Published
<1>14. ASSUME NEW a \in Actor, PublishFeedback(a) PROVE Quiet
  BY <1>14 DEF PublishFeedback, Finish, Quiet, Published, redisVars
<1>15. ASSUME Tick PROVE Quiet
  BY <1>15 DEF Tick, Quiet, Published, redisVars
<1>16. ASSUME UNCHANGED vars PROVE Quiet
  BY <1>16 DEF vars, Quiet, Published, redisVars
<1> QED
  BY <1>1, <1>2, <1>3, <1>4, <1>5, <1>6, <1>7, <1>8, <1>9, <1>10, <1>11, <1>12,
     <1>13, <1>14, <1>15, <1>16 DEF Next, Pipeline

(* The fields of the feedback in a history, and what appending one does. *)
LEMMA HistoryFields ==
  ASSUME NEW h \in Seq(Feedback)
  PROVE  /\ Len(h) \in Nat /\ DOMAIN h = 1 .. Len(h)
         /\ \A i \in DOMAIN h : h[i].at \in Nat /\ h[i].by \in Actor /\ h[i].base \in Nat
<1>1. \A i \in DOMAIN h : h[i] \in Feedback
  OBVIOUS
<1>2. \A f \in Feedback : f.at \in Nat /\ f.by \in Actor /\ f.base \in Nat
  BY DEF Feedback
<1>3. \A i \in DOMAIN h : h[i].at \in Nat /\ h[i].by \in Actor /\ h[i].base \in Nat
  BY <1>1, <1>2, Zenon
<1>4. Len(h) \in Nat /\ DOMAIN h = 1 .. Len(h)
  OBVIOUS
<1> QED
  BY <1>3, <1>4

LEMMA HistoryAppend ==
  ASSUME NEW h \in Seq(Feedback), NEW f \in Feedback
  PROVE  /\ Len(Append(h, f)) = Len(h) + 1
         /\ DOMAIN Append(h, f) = 1 .. (Len(h) + 1)
         /\ \A i \in DOMAIN h : Append(h, f)[i] = h[i]
         /\ Append(h, f)[Len(h) + 1] = f
OBVIOUS

(* The history part of the invariant, without the types. *)
Spacing ==
  /\ KeyCoversWindows
  /\ DecidingPastWindows
  /\ EmittingOwns
  /\ BaseIsEarlier
  /\ SequentialSpacing
  /\ GoroutineSpacing
  /\ OnlyAcceptedLeavesTrace

(* A quiet step keeps it: a pipeline that has just passed the check has    *)
(* seen the key expire, hence the windows of everything accepted so far.   *)
LEMMA QuietKeeps ==
  ASSUME TypeOK, Spacing, Quiet
  PROVE  Spacing'
<1>0. /\ now \in Nat /\ cooldownUntil \in Nat /\ accepted \in Seq(Feedback)
      /\ \A a \in Actor : req[a].base \in Nat
  BY DEF TypeOK, Request
<1>1. accepted' = accepted /\ Len(accepted) \in Nat /\ DOMAIN accepted = 1 .. Len(accepted)
  BY <1>0, HistoryFields, Zenon DEF Quiet
<1>2. \A i \in DOMAIN accepted : accepted[i].at \in Nat /\ accepted[i].by \in Actor
  BY <1>0, HistoryFields, Zenon
<1>a. /\ now' \in {now, now + 1}
      /\ cooldownUntil' \in {cooldownUntil, now + Cooldown}
  BY DEF Quiet
<1>b. \A i \in DOMAIN accepted :
        accepted[i].at <= now /\ accepted[i].at + Cooldown <= cooldownUntil
  BY DEF Spacing, KeyCoversWindows
<1>3. KeyCoversWindows'
  <2> SUFFICES ASSUME NEW i \in DOMAIN accepted
               PROVE  accepted[i].at <= now' /\ accepted[i].at + Cooldown <= cooldownUntil'
    BY <1>1, Zenon DEF KeyCoversWindows
  <2> PICK at \in Nat : at = accepted[i].at
    BY <1>2, Zenon
  <2>1. at <= now /\ at + Cooldown <= cooldownUntil
    BY <1>b
  <2>2. at <= now' /\ at + Cooldown <= cooldownUntil'
    BY <1>0, <1>a, <2>1
  <2> QED
    BY <2>2
<1>4. DecidingPastWindows'
  <2> SUFFICES ASSUME NEW a \in Actor, pc'[a] \in Deciding
               PROVE  /\ req'[a].base <= Len(accepted)
                      /\ \A i \in DOMAIN accepted :
                           i <= req'[a].base \/ accepted[i].by = a
                             => i <= req'[a].base /\ accepted[i].at + Cooldown <= now'
    BY <1>1, Zenon DEF DecidingPastWindows
  <2>1. CASE pc[a] \in Deciding /\ req'[a].base = req[a].base
    <3>1. /\ req[a].base <= Len(accepted)
          /\ \A i \in DOMAIN accepted :
               i <= req[a].base \/ accepted[i].by = a
                 => i <= req[a].base /\ accepted[i].at + Cooldown <= now
      BY <2>1, Zenon DEF Spacing, DecidingPastWindows
    <3>2. \A n \in Nat : n <= now => n <= now'
      BY <1>0, <1>a
    <3>3. \A i \in DOMAIN accepted : accepted[i].at + Cooldown \in Nat
      BY <1>2
    <3> QED
      BY <2>1, <3>1, <3>2, <3>3, Zenon
  <2>2. CASE ~InCooldown /\ req'[a].base = Len(accepted)
    <3> SUFFICES ASSUME NEW i \in DOMAIN accepted
                 PROVE  i <= Len(accepted) /\ accepted[i].at + Cooldown <= now'
      BY <1>1, <2>2
    <3> PICK at \in Nat : at = accepted[i].at
      BY <1>2, Zenon
    <3>1. at + Cooldown <= cooldownUntil /\ ~(now < cooldownUntil)
      BY <1>b, <2>2 DEF InCooldown
    <3>2. at + Cooldown <= now'
      BY <1>0, <1>a, <3>1
    <3> QED
      BY <1>1, <3>2
  <2> QED
    BY <2>1, <2>2, Zenon DEF Quiet
<1>5. EmittingOwns'
  <2>1. EmittingOwns
    BY Zenon DEF Spacing
  <2>2. \A a \in Actor : pc'[a] \in Emitting => pc[a] \in Emitting /\ req'[a].fb = req[a].fb
    BY Zenon DEF Quiet
  <2> QED
    BY <1>1, <2>1, <2>2, Zenon DEF EmittingOwns
<1>6. BaseIsEarlier' /\ SequentialSpacing' /\ GoroutineSpacing'
  BY <1>1 DEF Spacing, BaseIsEarlier, SequentialSpacing, GoroutineSpacing
<1>7. OnlyAcceptedLeavesTrace'
  <2>1. \A a \in Actor : pc[a] \in Emitting => req[a].fb \in DOMAIN accepted
    BY Zenon DEF Spacing, EmittingOwns
  <2>2. \A i \in shown' \cup recent' \cup Published' : i \in DOMAIN accepted
    BY <2>1, Zenon DEF Spacing, OnlyAcceptedLeavesTrace, Quiet
  <2> QED
    BY <1>1, <2>2, Zenon DEF OnlyAcceptedLeavesTrace
<1> QED
  BY <1>3, <1>4, <1>5, <1>6, <1>7, Zenon DEF Spacing

(* A cooldown write keeps it: the windows that DecidingPastWindows says are *)
(* over are those the new feedback has to respect.                         *)
LEMMA AcceptKeeps ==
  ASSUME TypeOK, Spacing, NEW a \in Actor, Accepts(a)
  PROVE  Spacing'
<1>0. /\ now \in Nat /\ cooldownUntil \in Nat /\ accepted \in Seq(Feedback)
      /\ pc \in [Actor -> PcState] /\ req \in [Actor -> Request]
  BY Zenon DEF TypeOK
<1>r. /\ \A b \in Actor : req[b].base \in Nat
      /\ req[a].t \in Nat /\ req[a].msg \in Nat
  BY <1>0 DEF Request
<1> DEFINE n == Len(accepted)
           f == [by |-> a, t |-> req[a].t, msg |-> req[a].msg,
                 base |-> req[a].base, at |-> now]
<1>1. f \in Feedback
  BY <1>0, <1>r DEF Feedback
<1>2. accepted' = Append(accepted, f)
  BY DEF Accepts
<1>3. n \in Nat /\ DOMAIN accepted = 1 .. n /\ DOMAIN accepted' = 1 .. (n + 1)
  BY <1>0, <1>1, <1>2, HistoryFields, HistoryAppend, Zenon
<1>4. /\ \A i \in DOMAIN accepted : accepted'[i] = accepted[i]
      /\ accepted'[n + 1] = f
      /\ Len(accepted') = n + 1
  <2>1. /\ \A i \in DOMAIN accepted : Append(accepted, f)[i] = accepted[i]
        /\ Append(accepted, f)[Len(accepted) + 1] = f
        /\ Len(Append(accepted, f)) = Len(accepted) + 1
    BY <1>0, <1>1, HistoryAppend, Zenon
  <2> QED
    BY <1>2, <2>1
<1>5. \A i \in DOMAIN accepted :
        accepted[i].at \in Nat /\ accepted[i].by \in Actor /\ accepted[i].base \in Nat
  BY <1>0, HistoryFields, Zenon
<1>d. \A b \in Actor : pc[b] \in Deciding =>
        /\ req[b].base <= n
        /\ \A i \in DOMAIN accepted :
             i <= req[b].base \/ accepted[i].by = b
               => i <= req[b].base /\ accepted[i].at + Cooldown <= now
  BY Zenon DEF Spacing, DecidingPastWindows
<1>s. pc[a] \in Deciding
  BY DEF Accepts, Deciding
<1>6. /\ req[a].base \in Nat /\ req[a].base <= n
      /\ \A i \in DOMAIN accepted :
           i <= req[a].base \/ accepted[i].by = a => accepted[i].at + Cooldown <= now
  BY <1>r, <1>d, <1>s, Zenon
<1>8. f.by = a /\ f.at = now /\ f.base = req[a].base
  OBVIOUS
<1>7. now' = now /\ cooldownUntil' = now + Cooldown
  BY DEF Accepts
<1>e. /\ pc' = [pc EXCEPT ![a] = "remember"]
      /\ req' = [req EXCEPT ![a].fb = Len(accepted')]
      /\ shown' = shown /\ recent' = recent /\ bus' = bus
  BY DEF Accepts
<1> HIDE DEF n, f
<1>9. KeyCoversWindows'
  <2> SUFFICES ASSUME NEW i \in DOMAIN accepted'
               PROVE  accepted'[i].at <= now /\ accepted'[i].at + Cooldown <= now + Cooldown
    BY <1>7, Zenon DEF KeyCoversWindows
  <2>1. CASE i = n + 1
    BY <1>0, <1>4, <1>8, <2>1
  <2>2. CASE i # n + 1
    <3>1. i \in DOMAIN accepted
      BY <1>3, <2>2
    <3> PICK at \in Nat : at = accepted[i].at
      BY <1>5, <3>1, Zenon
    <3>2. at <= now /\ accepted'[i].at = at
      BY <1>4, <3>1 DEF Spacing, KeyCoversWindows
    <3> QED
      BY <1>0, <3>2
  <2> QED
    BY <2>1, <2>2
<1>10. \A b \in Actor : b # a => pc'[b] = pc[b] /\ req'[b] = req[b]
  BY <1>0, <1>e
<1>11. pc'[a] = "remember" /\ req'[a].fb = n + 1
  BY <1>0, <1>4, <1>e DEF Request
<1>12. DecidingPastWindows'
  <2> SUFFICES ASSUME NEW b \in Actor, pc'[b] \in Deciding
               PROVE  /\ req'[b].base <= n + 1
                      /\ \A i \in DOMAIN accepted' :
                           i <= req'[b].base \/ accepted'[i].by = b
                             => i <= req'[b].base /\ accepted'[i].at + Cooldown <= now
    BY <1>4, <1>7 DEF DecidingPastWindows
  <2>1. b # a
    BY <1>11 DEF Deciding
  <2>2. pc[b] \in Deciding /\ req'[b] = req[b] /\ req[b].base \in Nat
    BY <1>r, <1>10, <2>1
  <2>3. req[b].base <= n
    BY <1>d, <2>2, Zenon
  <2>4. \A i \in DOMAIN accepted :
          i <= req[b].base \/ accepted[i].by = b
            => i <= req[b].base /\ accepted[i].at + Cooldown <= now
    BY <1>d, <2>2, Zenon
  <2>5. \A i \in DOMAIN accepted' : i \in DOMAIN accepted \/ i = n + 1
    BY <1>3
  <2>6. ~(n + 1 <= req[b].base) /\ accepted'[n + 1].by # b
    BY <1>3, <1>4, <1>8, <2>1, <2>2, <2>3
  <2> QED
    BY <1>3, <1>4, <2>2, <2>3, <2>4, <2>5, <2>6
<1>13. EmittingOwns'
  <2> SUFFICES ASSUME NEW b \in Actor, pc'[b] \in Emitting
               PROVE  req'[b].fb \in DOMAIN accepted' /\ accepted'[req'[b].fb].by = b
    BY Zenon DEF EmittingOwns
  <2>1. CASE b = a
    BY <1>3, <1>4, <1>8, <1>11, <2>1
  <2>2. CASE b # a
    <3>1. req'[b].fb = req[b].fb /\ req[b].fb \in DOMAIN accepted /\ accepted[req[b].fb].by = b
      BY <1>10, <2>2, Zenon DEF Spacing, EmittingOwns
    <3>2. DOMAIN accepted \subseteq DOMAIN accepted'
      BY <1>3
    <3> QED
      BY <1>4, <3>1, <3>2, Zenon
  <2> QED
    BY <2>1, <2>2
<1>b. \A j \in DOMAIN accepted : accepted[j].base < j
  BY Zenon DEF Spacing, BaseIsEarlier
<1>14. BaseIsEarlier'
  <2> SUFFICES ASSUME NEW j \in DOMAIN accepted' PROVE accepted'[j].base < j
    BY Zenon DEF BaseIsEarlier
  <2>1. CASE j = n + 1
    BY <1>3, <1>4, <1>6, <1>8, <2>1
  <2>2. CASE j # n + 1
    <3>1. j \in DOMAIN accepted
      BY <1>3, <2>2
    <3> QED
      BY <1>4, <1>b, <3>1, Zenon
  <2> QED
    BY <2>1, <2>2
<1>15. SequentialSpacing'
  <2> SUFFICES ASSUME NEW j \in DOMAIN accepted', NEW i \in 1 .. accepted'[j].base
               PROVE  accepted'[j].at >= accepted'[i].at + Cooldown
    BY Zenon DEF SequentialSpacing
  <2>1. CASE j \in DOMAIN accepted
    <3>1. i \in 1 .. accepted[j].base /\ accepted[j].base \in Nat /\ accepted[j].base < j
      BY <1>4, <1>5, <1>b, <2>1
    <3>2. i \in DOMAIN accepted
      BY <1>3, <2>1, <3>1
    <3> QED
      <4>1. accepted[j].at >= accepted[i].at + Cooldown
        BY <2>1, <3>1, Zenon DEF Spacing, SequentialSpacing
      <4> QED
        BY <1>4, <2>1, <3>2, <4>1, Zenon
  <2>2. CASE j = n + 1
    <3>1. i \in 1 .. req[a].base /\ i \in DOMAIN accepted
      BY <1>3, <1>4, <1>6, <1>8, <2>2
    <3> QED
      <4>1. accepted[i].at \in Nat /\ accepted[i].at + Cooldown <= now
        BY <1>3, <1>5, <1>6, <3>1
      <4>2. accepted'[i] = accepted[i] /\ accepted'[j].at = now
        BY <1>4, <1>8, <2>2, <3>1
      <4> QED
        BY <4>1, <4>2
  <2> QED
    BY <1>3, <2>1, <2>2
<1>16. GoroutineSpacing'
  <2> SUFFICES ASSUME NEW i \in DOMAIN accepted', NEW j \in DOMAIN accepted', i < j,
                      accepted'[i].by = accepted'[j].by
               PROVE  accepted'[j].at >= accepted'[i].at + Cooldown
    BY Zenon DEF GoroutineSpacing
  <2>1. i \in DOMAIN accepted
    BY <1>3
  <2>2. CASE j \in DOMAIN accepted
    <3>1. accepted[j].at >= accepted[i].at + Cooldown
      BY <1>4, <2>1, <2>2, Zenon DEF Spacing, GoroutineSpacing
    <3> QED
      BY <1>4, <2>1, <2>2, <3>1, Zenon
  <2>3. CASE j = n + 1
    <3>1. accepted[i].by = a /\ accepted'[i] = accepted[i] /\ accepted'[j].at = now
      BY <1>4, <1>8, <2>1, <2>3, Zenon
    <3> PICK at \in Nat : at = accepted[i].at
      BY <1>5, <2>1, Zenon
    <3>2. at + Cooldown <= now
      BY <1>6, <2>1, <3>1, Zenon
    <3> QED
      BY <1>0, <3>1, <3>2
  <2> QED
    BY <1>3, <2>2, <2>3
<1>17. OnlyAcceptedLeavesTrace'
  <2>1. shown' \cup recent' \cup Published' = shown \cup recent \cup Published
    BY <1>e, Zenon DEF Published
  <2>2. shown \cup recent \cup Published \subseteq DOMAIN accepted
    BY Zenon DEF Spacing, OnlyAcceptedLeavesTrace
  <2>3. DOMAIN accepted \subseteq DOMAIN accepted'
    BY <1>3
  <2> QED
    BY <2>1, <2>2, <2>3, Zenon DEF OnlyAcceptedLeavesTrace
<1> QED
  BY <1>9, <1>12, <1>13, <1>14, <1>15, <1>16, <1>17, Zenon DEF Spacing

(* The inductive invariant, for every number of connections, every cooldown *)
(* and every failure of Redis and of the bus.                              *)
THEOREM SpacingCorrect == Spec => []SpacingInv
<1>1. Init => SpacingInv
  <2> SUFFICES ASSUME Init PROVE SpacingInv
    OBVIOUS
  <2>1. TypeOK
    BY DEF Init, TypeOK, PcState, ConnState, NoReq, Request
  <2>2. DOMAIN accepted = {} /\ shown = {} /\ recent = {} /\ Published = {}
    BY DEF Init, Published
  <2>3. \A a \in Actor : pc[a] \notin Deciding /\ pc[a] \notin Emitting
    BY DEF Init, Deciding, Emitting
  <2> QED
    BY <2>1, <2>2, <2>3 DEF SpacingInv, KeyCoversWindows, DecidingPastWindows, EmittingOwns,
       BaseIsEarlier, SequentialSpacing, GoroutineSpacing, OnlyAcceptedLeavesTrace
<1>2. SpacingInv /\ [Next]_vars => SpacingInv'
  BY TypeStep, StepShape, QuietKeeps, AcceptKeeps DEF SpacingInv, Spacing
<1> QED
  BY <1>1, <1>2, PTL DEF Spec

(* Feedback of pipelines that do not overlap is a cooldown apart. *)
THEOREM SequentialSpacingHolds == Spec => []SequentialSpacing
BY SpacingCorrect, PTL DEF SpacingInv

(* One goroutine emits at most once per cooldown. *)
THEOREM GoroutineSpacingHolds == Spec => []GoroutineSpacing
BY SpacingCorrect, PTL DEF SpacingInv

(* Feedback that was not accepted is neither shown, remembered nor published. *)
THEOREM OnlyAcceptedLeavesTraceHolds == Spec => []OnlyAcceptedLeavesTrace
BY SpacingCorrect, PTL DEF SpacingInv

(* The feedback that one connection's two goroutines have accepted within  *)
(* a cooldown from time t.                                                 *)
InWindow(c, t) ==
  {i \in DOMAIN accepted :
     accepted[i].by \in {Loop(c), Ticker(c)} /\ t <= accepted[i].at /\ accepted[i].at < t + Cooldown}

TwoPerWindow == \A c \in Conn, t \in Nat : Cardinality(InWindow(c, t)) <= 2

(* No two of them are of the same goroutine, so there are at most two.     *)
LEMMA SpacingBoundsWindow ==
  ASSUME TypeOK, GoroutineSpacing, NEW c \in Conn, NEW t \in Nat
  PROVE  Cardinality(InWindow(c, t)) <= 2
<1> DEFINE G == {Loop(c), Ticker(c)}
           W == InWindow(c, t)
           by == [i \in W |-> accepted[i].by]
<1>1. accepted \in Seq(Feedback)
  BY Zenon DEF TypeOK
<1>2. IsFiniteSet(G) /\ Cardinality(G) <= 2
  <2>1. IsFiniteSet({Loop(c)}) /\ Cardinality({Loop(c)}) = 1
    BY FS_Singleton, Zenon
  <2>2. G = {Loop(c)} \cup {Ticker(c)}
    OBVIOUS
  <2>3. IsFiniteSet(G) /\ Cardinality(G) \in {1, 2}
    <3> PICK n \in {1} : n = Cardinality({Loop(c)})
      BY <2>1
    <3>1. IsFiniteSet(G) /\ (Cardinality(G) = n \/ Cardinality(G) = n + 1)
      BY <2>1, <2>2, FS_AddElement
    <3> QED
      BY <3>1
  <2> QED
    BY <2>3
<1>3. by \in [W -> G]
  BY DEF InWindow
<1>4. \A i, j \in W : i < j => by[i] # by[j]
  <2> SUFFICES ASSUME NEW i \in W, NEW j \in W, i < j, accepted[i].by = accepted[j].by PROVE FALSE
    BY <1>3
  <2>1. i \in DOMAIN accepted /\ j \in DOMAIN accepted
    BY DEF InWindow
  <2>2. PICK x \in Nat, y \in Nat : x = accepted[i].at /\ y = accepted[j].at
    BY <1>1, <2>1, HistoryFields, Zenon
  <2>3. y >= x + Cooldown
    BY <2>1, <2>2, Zenon DEF GoroutineSpacing
  <2>4. t <= x /\ y < t + Cooldown
    BY <2>2 DEF InWindow
  <2> QED
    BY <2>2, <2>3, <2>4
<1>5. \A i, j \in W : by[i] = by[j] => i = j
  <2>1. \A i \in W : i \in Nat
    BY <1>1, HistoryFields DEF InWindow
  <2>2. \A i, j \in Nat : i < j \/ j < i \/ i = j
    OBVIOUS
  <2> QED
    BY <1>4, <2>1, <2>2, Zenon
<1>6. by \in Injection(W, G)
  BY <1>3, <1>5 DEF Injection, IsInjective
<1>7. IsFiniteSet(W) /\ Cardinality(W) <= Cardinality(G)
  BY <1>2, <1>6, FS_Injection, Zenon
<1>8. PICK m \in Nat, n \in Nat : m = Cardinality(W) /\ n = Cardinality(G)
  BY <1>2, <1>7, FS_CardinalityType, Zenon
<1> QED
  BY <1>2, <1>7, <1>8

(* The cooldown is not a lock, but what slips through is bounded: whatever *)
(* fails and interleaves, a connection accepts at most two feedback events *)
(* in any stretch of one cooldown, one of its read loop and one of its     *)
(* ticker.                                                                 *)
THEOREM TwoPerWindowHolds == Spec => []TwoPerWindow
<1>1. SpacingInv => TwoPerWindow
  BY SpacingBoundsWindow, Zenon DEF SpacingInv, TwoPerWindow
<1> QED
  BY <1>1, SpacingCorrect, PTL

(* What the comments of the cooldown promise is true of every history in   *)
(* which each pipeline checked the key after the one before it wrote it:   *)
(* the overlap of check and write is all that breaks it.                   *)
THEOREM OutsideCooldownWithoutOverlap ==
  Spec => []((\A j \in DOMAIN accepted : accepted[j].base = j - 1) => AcceptedOutsideCooldown)
<1>1. SpacingInv =>
        ((\A j \in DOMAIN accepted : accepted[j].base = j - 1) => AcceptedOutsideCooldown)
  <2> SUFFICES ASSUME SpacingInv, \A j \in DOMAIN accepted : accepted[j].base = j - 1,
                      NEW i \in DOMAIN accepted, NEW j \in DOMAIN accepted, i < j
               PROVE  accepted[j].at >= accepted[i].at + Cooldown
    BY Zenon DEF AcceptedOutsideCooldown
  <2>1. accepted \in Seq(Feedback)
    BY Zenon DEF SpacingInv, TypeOK
  <2>2. i \in Nat /\ j \in Nat /\ 1 <= i
    <3> PICK n \in Nat : n = Len(accepted) /\ DOMAIN accepted = 1 .. n
      BY <2>1, HistoryFields, Zenon
    <3> QED
      OBVIOUS
  <2>3. i \in 1 .. (j - 1)
    BY <2>2
  <2> QED
    BY <2>3, Zenon DEF SpacingInv, SequentialSpacing
<1> QED
  BY <1>1, SpacingCorrect, PTL
-----------------------------------------------------------------------------
(* The cooldown write of a pipeline is the limiter's Emit. *)
LEMMA AcceptIsEmit ==
  ASSUME TypeOK, Spacing, NEW a \in Actor, Accepts(a)
  PROVE  Limiter!Emit(a)
<1> USE DEF TypeOK
<1> DEFINE n == Len(accepted)
           f == [by |-> a, t |-> req[a].t, msg |-> req[a].msg,
                 base |-> req[a].base, at |-> now]
           Mark == [by : Actor, at : Nat]
<1>1. f \in Feedback
  BY DEF Request, Feedback
<1>2. accepted' = Append(accepted, f) /\ now' = now
  BY DEF Accepts
<1>3. n \in Nat /\ DOMAIN accepted = 1 .. n /\ Len(accepted') = n + 1
  BY <1>1, <1>2
<1>4. /\ \A i \in 1 .. n : accepted'[i] = accepted[i] /\ accepted[i] \in Feedback
      /\ accepted'[n + 1] = f
  BY <1>1, <1>2, <1>3
<1>5. Emitted \in Seq(Mark) /\ Len(Emitted) = n
  <2>1. \A i \in 1 .. n : [by |-> accepted[i].by, at |-> accepted[i].at] \in Mark
    BY <1>4 DEF Feedback
  <2> QED
    BY <1>3, <2>1 DEF Emitted
<1>6. \A i \in DOMAIN Emitted : Emitted[i].by = a => Emitted[i].at + Cooldown <= now
  <2>1. \A i \in DOMAIN accepted : accepted[i].by = a => accepted[i].at + Cooldown <= now
    BY DEF Spacing, DecidingPastWindows, Accepts, Deciding
  <2> QED
    BY <1>3, <2>1 DEF Emitted
<1>7. Emitted' = Append(Emitted, [by |-> a, at |-> now])
  <2> DEFINE m == [by |-> a, at |-> now]
  <2>1. Emitted' = [i \in 1 .. (n + 1) |-> [by |-> accepted'[i].by, at |-> accepted'[i].at]]
    BY <1>3 DEF Emitted
  <2>2. Append(Emitted, m) = [i \in 1 .. (n + 1) |-> IF i = n + 1 THEN m ELSE Emitted[i]]
    BY <1>5
  <2>3. \A i \in 1 .. (n + 1) :
          [by |-> accepted'[i].by, at |-> accepted'[i].at] = IF i = n + 1 THEN m ELSE Emitted[i]
    <3> SUFFICES ASSUME NEW i \in 1 .. (n + 1)
                 PROVE  [by |-> accepted'[i].by, at |-> accepted'[i].at]
                          = IF i = n + 1 THEN m ELSE Emitted[i]
      BY Zenon
    <3>1. CASE i = n + 1
      BY <1>4, <3>1
    <3>2. CASE i # n + 1
      <4>1. i \in 1 .. n
        BY <1>3, <3>2
      <4>2. Emitted[i] = [by |-> accepted[i].by, at |-> accepted[i].at]
        BY <4>1 DEF Emitted
      <4> QED
        BY <1>4, <3>2, <4>1, <4>2
    <3> QED
      BY <3>1, <3>2
  <2> QED
    BY <2>1, <2>2, <2>3, Zenon
<1> QED
  BY <1>2, <1>6, <1>7 DEF Limiter!Emit

(* The feedback path, with every interleaving and failure, implements the  *)
(* per-source limiter.                                                     *)
THEOREM Implements == Spec => ImplementsLimiter
<1>1. Init => Limiter!Init
  <2> SUFFICES ASSUME Init PROVE Limiter!Init
    OBVIOUS
  <2>1. now = 0 /\ accepted = <<>>
    BY DEF Init
  <2>2. Emitted = <<>>
    BY <2>1 DEF Emitted
  <2> QED
    BY <2>1, <2>2 DEF Limiter!Init
<1>2. SpacingInv /\ [Next]_vars => [Limiter!Next]_Limiter!limiterVars
  <2> SUFFICES ASSUME SpacingInv, [Next]_vars PROVE [Limiter!Next]_Limiter!limiterVars
    OBVIOUS
  <2>1. TypeOK /\ Spacing
    BY DEF SpacingInv, Spacing
  <2>2. CASE Quiet
    <3>1. Emitted' = Emitted
      BY <2>2 DEF Quiet, Emitted
    <3> QED
      BY <2>2, <3>1 DEF Quiet, Limiter!Next, Limiter!Advance, Limiter!limiterVars
  <2>3. ASSUME NEW a \in Actor, Accepts(a) PROVE Limiter!Next
    <3>1. Limiter!Emit(a)
      BY <2>1, <2>3, AcceptIsEmit
    <3> QED
      BY <3>1 DEF Limiter!Next
  <2> QED
    BY <2>1, <2>2, <2>3, StepShape
<1> QED
  BY <1>1, <1>2, SpacingCorrect, PTL DEF Spec, ImplementsLimiter, Limiter!Spec
-----------------------------------------------------------------------------
(* What the durability of feedback rests on.  The read loop of a connection *)
(* is off before it is accepted and done when its context has ended, so a  *)
(* handler on that loop never runs under a cancelled context; and feedback *)
(* reaches Chrome only at the write, so a ticker that gives up there drops *)
(* feedback that nobody has seen.                                          *)
LoopEndsWithConn ==
  \A c \in Conn :
    /\ conn[c] = "new" => pc[Loop(c)] = "off"
    /\ conn[c] \in {"closed", "crashed"} => pc[Loop(c)] = "done"

ShownByWrite ==
  \A a \in Actor : pc[a] \in {"remember", "write"} => req[a].fb \notin shown

DurableInv ==
  /\ SpacingInv
  /\ LoopEndsWithConn
  /\ ShownByWrite
  /\ TriggerFeedbackDurable
  /\ ShownIsDurable

(* The two goroutines of every connection are distinct from each other and *)
(* from those of other connections.                                        *)
LEMMA ActorsApart ==
  /\ Loops \cap Tickers = {}
  /\ \A c, d \in Conn : /\ Loop(c) # Ticker(d)
                        /\ Loop(c) = Loop(d) => c = d
                        /\ Ticker(c) = Ticker(d) => c = d
  /\ \A a \in Actor : \/ a \in Loops /\ a = Loop(a[1])
                      \/ a \in Tickers /\ a = Ticker(a[1])
BY DEF Actor, Loops, Tickers, Loop, Ticker

(* A connection's loop starts with it and ends with its context. *)
LEMMA LoopStep ==
  ASSUME TypeOK, LoopEndsWithConn, [Next]_vars
  PROVE  LoopEndsWithConn'
<1> USE ActorConn, ActorsApart DEF TypeOK, LoopEndsWithConn
<1>1. ASSUME NEW c \in Conn,
             Connect(c) \/ Disconnect(c) \/ ReadFails(c) \/ PeriodicTick(c) \/ PeriodicStop(c)
      PROVE  LoopEndsWithConn'
  BY <1>1 DEF Connect, Disconnect, ReadFails, PeriodicTick, PeriodicStop
<1>2. ASSUME NEW c \in Conn, Crash(c) PROVE LoopEndsWithConn'
  BY <1>2 DEF Crash
<1>3. ASSUME NEW c \in Conn, NEW h \in BOOLEAN, ReceiveSample(c, h) PROVE LoopEndsWithConn'
  <2>1. conn' = conn /\ conn[c] \in {"open", "lost"}
    BY <1>3 DEF ReceiveSample
  <2>2. \A d \in Conn : d # c => pc'[Loop(d)] = pc[Loop(d)]
    BY <1>3 DEF ReceiveSample
  <2> QED
    BY <2>1, <2>2
<1>4. ASSUME NEW a \in Actor, Pipeline(a) PROVE LoopEndsWithConn'
  <2>1. conn' = conn /\ pc[a] \notin {"off", "done"}
    BY <1>4 DEF Pipeline, CheckCooldown, BuildEvidencePack, Generate, SetCooldown,
                StoreRecentFeedback, WriteFeedback, PublishFeedback
  <2>2. \A b \in Actor : b # a => pc'[b] = pc[b]
    BY <1>4 DEF Pipeline, CheckCooldown, BuildEvidencePack, Generate, SetCooldown,
                StoreRecentFeedback, WriteFeedback, PublishFeedback, Finish
  <2>3. \A c \in Conn : conn[c] \in {"new", "closed", "crashed"} => Loop(c) # a
    BY <2>1
  <2> QED
    BY <2>1, <2>2, <2>3
<1>5. CASE Tick \/ UNCHANGED vars
  BY <1>5 DEF Tick, vars
<1> QED
  BY <1>1, <1>2, <1>3, <1>4, <1>5 DEF Next

(* What a step may do to the handling of accepted feedback: nothing is     *)
(* unpublished, unaccepted or forgotten to have crashed or closed ...      *)
LEMMA StepKeepsTrace ==
  ASSUME TypeOK, [Next]_vars
  PROVE  /\ Published \subseteq Published'
         /\ \A i \in DOMAIN accepted : i \in DOMAIN accepted' /\ accepted'[i] = accepted[i]
         /\ \A c \in Conn : /\ conn[c] = "crashed" => conn'[c] = "crashed"
                            /\ conn[c] = "closed" => conn'[c] \in {"closed", "crashed"}
<1> USE DEF TypeOK
<1>1. bus \subseteq bus'
  <2>1. ASSUME NEW c \in Conn, NEW h \in BOOLEAN, ReceiveSample(c, h) PROVE bus \subseteq bus'
    BY <2>1 DEF ReceiveSample
  <2>2. ASSUME NEW a \in Actor, Pipeline(a) PROVE bus \subseteq bus'
    BY <2>2 DEF Pipeline, CheckCooldown, BuildEvidencePack, Generate, SetCooldown,
                StoreRecentFeedback, WriteFeedback, PublishFeedback
  <2> QED
    BY <2>1, <2>2 DEF Next, Connect, Disconnect, ReadFails, Crash, PeriodicTick, PeriodicStop,
                      Tick, vars
<1>2. Published \subseteq Published'
  BY <1>1 DEF Published
<1>3. \A i \in DOMAIN accepted : i \in DOMAIN accepted' /\ accepted'[i] = accepted[i]
  <2>1. CASE Quiet
    BY <2>1 DEF Quiet
  <2>2. ASSUME NEW a \in Actor, Accepts(a)
        PROVE  \A i \in DOMAIN accepted : i \in DOMAIN accepted' /\ accepted'[i] = accepted[i]
    <3> DEFINE f == [by |-> a, t |-> req[a].t, msg |-> req[a].msg,
                     base |-> req[a].base, at |-> now]
    <3>1. f \in Feedback
      BY DEF Request, Feedback
    <3>2. accepted' = Append(accepted, f)
      BY <2>2 DEF Accepts
    <3> QED
      BY <3>1, <3>2
  <2> QED
    BY <2>1, <2>2, StepShape
<1>4. \A c \in Conn : /\ conn[c] = "crashed" => conn'[c] = "crashed"
                      /\ conn[c] = "closed" => conn'[c] \in {"closed", "crashed"}
  <2>1. conn' = conn \/ \E d \in Conn : Connect(d) \/ Disconnect(d) \/ ReadFails(d) \/ Crash(d)
    BY DEF Next, Pipeline, ReceiveSample, PeriodicTick, PeriodicStop, CheckCooldown,
           BuildEvidencePack, Generate, SetCooldown, StoreRecentFeedback, WriteFeedback,
           PublishFeedback, Tick, vars
  <2> QED
    BY <2>1 DEF Connect, Disconnect, ReadFails, Crash
<1> QED
  BY <1>2, <1>3, <1>4

(* ... only the write shows feedback, and the writer then publishes it ...  *)
LEMMA OnlyWriteShows ==
  ASSUME TypeOK, [Next]_vars
  PROVE  \/ shown' = shown
         \/ \E a \in Actor : /\ pc[a] = "write" /\ pc'[a] = "publish"
                             /\ req' = req /\ accepted' = accepted
                             /\ shown' = shown \cup {req[a].fb}
                             /\ \A b \in Actor : b # a => pc'[b] = pc[b]
<1> USE ActorConn DEF TypeOK
<1>1. ASSUME NEW a \in Actor, WriteFeedback(a), shown' # shown
      PROVE  /\ pc[a] = "write" /\ pc'[a] = "publish"
             /\ req' = req /\ accepted' = accepted
             /\ shown' = shown \cup {req[a].fb}
             /\ \A b \in Actor : b # a => pc'[b] = pc[b]
  BY <1>1 DEF WriteFeedback, AfterWrite
<1> QED
  BY <1>1 DEF Next, Connect, Disconnect, ReadFails, Crash, ReceiveSample, PeriodicTick,
      PeriodicStop, Pipeline, CheckCooldown, BuildEvidencePack, Generate, SetCooldown,
      StoreRecentFeedback, PublishFeedback, Tick, vars

(* ... and, on a bus that does not fail, a pipeline leaves its feedback    *)
(* only published, by the death of its instance, or on a ticker that lost  *)
(* its context or gave up at the write.                                    *)
LEMMA StepHandles ==
  ASSUME TypeOK, LoopEndsWithConn, [Next]_vars, ~BusMayFail,
         NEW a \in Actor, pc[a] \in Emitting
  PROVE  \/ pc'[a] \in Emitting /\ req'[a].fb = req[a].fb
         \/ req[a].fb \in Published'
         \/ conn'[a[1]] = "crashed"
         \/ a \in Tickers /\ conn'[a[1]] = "closed"
         \/ a \in Tickers /\ pc[a] = "write" /\ shown' = shown
<1> DEFINE Goal == \/ pc'[a] \in Emitting /\ req'[a].fb = req[a].fb
                   \/ req[a].fb \in Published'
                   \/ conn'[a[1]] = "crashed"
                   \/ a \in Tickers /\ conn'[a[1]] = "closed"
                   \/ a \in Tickers /\ pc[a] = "write" /\ shown' = shown
<1> USE ActorConn, ActorsApart DEF TypeOK
<1>1. ASSUME NEW c \in Conn,
             Connect(c) \/ Disconnect(c) \/ ReadFails(c) \/ PeriodicTick(c) \/ PeriodicStop(c)
      PROVE  Goal
  <2>1. req' = req
    BY <1>1 DEF Connect, Disconnect, ReadFails, PeriodicTick, PeriodicStop
  <2>2. pc'[a] = pc[a]
    BY <1>1 DEF Connect, Disconnect, ReadFails, PeriodicTick, PeriodicStop,
                LoopEndsWithConn, Emitting
  <2> QED
    BY <2>1, <2>2
<1>2. ASSUME NEW c \in Conn, Crash(c) PROVE Goal
  <2>1. CASE a[1] = c
    BY <1>2, <2>1 DEF Crash
  <2>2. CASE a[1] # c
    <3>1. a # Loop(c) /\ a # Ticker(c)
      BY <2>2 DEF Loop, Ticker
    <3>2. pc'[a] = pc[a] /\ req'[a] = req[a]
      BY <1>2, <3>1 DEF Crash
    <3> QED
      BY <3>2
  <2> QED
    BY <2>1, <2>2
<1>3. ASSUME NEW c \in Conn, NEW h \in BOOLEAN, ReceiveSample(c, h) PROVE Goal
  <2>1. a # Loop(c) /\ (pc[Ticker(c)] = "off" => a # Ticker(c))
    BY <1>3 DEF ReceiveSample, Emitting
  <2>2. pc'[a] = pc[a] /\ req'[a] = req[a]
    BY <1>3, <2>1 DEF ReceiveSample
  <2> QED
    BY <2>2
<1>4. ASSUME NEW b \in Actor, Pipeline(b), b # a PROVE Goal
  <2>1. pc'[a] = pc[a] /\ req'[a] = req[a]
    BY <1>4 DEF Pipeline, CheckCooldown, BuildEvidencePack, Generate, SetCooldown,
                StoreRecentFeedback, WriteFeedback, PublishFeedback, Finish
  <2> QED
    BY <2>1
<1>5. ASSUME Pipeline(a) PROVE Goal
  <2>1. StoreRecentFeedback(a) \/ WriteFeedback(a) \/ PublishFeedback(a)
    BY <1>5 DEF Pipeline, CheckCooldown, BuildEvidencePack, Generate, SetCooldown, Emitting
  <2>2. CASE StoreRecentFeedback(a)
    BY <2>2 DEF StoreRecentFeedback, Emitting
  <2>3. CASE WriteFeedback(a)
    <3>1. pc[a] = "write" /\ pc'[a] \in {"publish", "done"}
      BY <2>3 DEF WriteFeedback, AfterWrite, AfterFailedWrite
    <3>2. CASE pc'[a] = "publish"
      <4>1. req' = req
        <5>1. req' = req \/ pc'[a] = "done"
          BY <2>3 DEF WriteFeedback
        <5> QED
          BY <3>2, <5>1
      <4> QED
        BY <3>2, <4>1 DEF Emitting
    <3>3. CASE pc'[a] = "done"
      <4>1. AfterFailedWrite(a) = "done" /\ shown' = shown
        BY <2>3, <3>3 DEF WriteFeedback, AfterWrite
      <4> QED
        BY <3>1, <4>1 DEF AfterFailedWrite
    <3> QED
      BY <3>1, <3>2, <3>3
  <2>4. CASE PublishFeedback(a)
    <3>1. conn' = conn /\ pc[a] = "publish"
      BY <2>4 DEF PublishFeedback
    <3>2. CASE BusErr(a)
      <4>1. conn[a[1]] = "closed"
        BY <3>2 DEF BusErr, CtxAlive
      <4>2. a # Loop(a[1])
        BY <3>1, <4>1 DEF LoopEndsWithConn
      <4> QED
        BY <3>1, <4>1, <4>2
    <3>3. CASE ~BusErr(a)
      <4>1. [kind |-> "feedback", id |-> req[a].fb] \in bus'
        BY <2>4, <3>3 DEF PublishFeedback
      <4> QED
        BY <4>1 DEF Published
    <3> QED
      BY <3>2, <3>3
  <2> QED
    BY <2>1, <2>2, <2>3, <2>4
<1>6. CASE Tick \/ UNCHANGED vars
  BY <1>6 DEF Tick, vars
<1> QED
  BY <1>1, <1>2, <1>3, <1>4, <1>5, <1>6 DEF Next

(* Feedback is shown only at the write of the pipeline that owns it. *)
LEMMA ShownStep ==
  ASSUME SpacingInv, ShownByWrite, [Next]_vars
  PROVE  ShownByWrite'
<1> USE DEF TypeOK, SpacingInv
<1> SUFFICES ASSUME NEW a \in Actor, pc'[a] \in {"remember", "write"}
             PROVE  req'[a].fb \notin shown'
  BY DEF ShownByWrite
<1>1. CASE Quiet
  <2>1. pc[a] \in Emitting /\ req'[a].fb = req[a].fb
    BY <1>1 DEF Quiet, Emitting
  <2>2. pc[a] \in {"remember", "write"}
    <3>1. SUFFICES ASSUME pc[a] = "publish" PROVE pc'[a] \notin {"remember", "write"}
      BY <2>1 DEF Emitting
    <3>2. ASSUME NEW b \in Actor, Pipeline(b) PROVE pc'[a] \in {"publish", "idle"}
      BY <3>1, <3>2 DEF Pipeline, CheckCooldown, BuildEvidencePack, Generate, SetCooldown,
                        StoreRecentFeedback, WriteFeedback, PublishFeedback, Finish
    <3>3. ASSUME NEW c \in Conn, NEW h \in BOOLEAN, ReceiveSample(c, h)
          PROVE  pc'[a] = "publish"
      <4>1. a # Loop(c) /\ (pc[Ticker(c)] = "off" => a # Ticker(c))
        BY <3>1, <3>3 DEF ReceiveSample
      <4> QED
        BY <3>1, <3>3, <4>1 DEF ReceiveSample
    <3>4. ASSUME NEW c \in Conn,
                 \/ Connect(c) \/ Disconnect(c) \/ ReadFails(c) \/ Crash(c)
                 \/ PeriodicTick(c) \/ PeriodicStop(c)
          PROVE  pc'[a] \in {"publish", "idle", "done"}
      <4> USE ActorConn
      <4>1. CASE Connect(c) \/ ReadFails(c)
        BY <3>1, <4>1 DEF Connect, ReadFails
      <4>2. CASE Disconnect(c) \/ PeriodicTick(c) \/ PeriodicStop(c)
        BY <3>1, <4>2 DEF Disconnect, PeriodicTick, PeriodicStop
      <4>3. CASE Crash(c)
        BY <3>1, <4>3 DEF Crash
      <4> QED
        BY <3>4, <4>1, <4>2, <4>3
    <3>5. CASE Tick \/ UNCHANGED vars
      BY <3>1, <3>5 DEF Tick, vars
    <3> QED
      BY <3>2, <3>3, <3>4, <3>5 DEF Next
  <2>3. req[a].fb \notin shown
    BY <2>2 DEF ShownByWrite
  <2>4. CASE shown' = shown
    BY <2>1, <2>3, <2>4
  <2>5. ASSUME NEW b \in Actor, pc[b] = "write", pc'[b] = "publish",
               shown' = shown \cup {req[b].fb}
        PROVE  req'[a].fb \notin shown'
    <3>1. a # b
      BY <2>5
    <3>2. accepted[req[a].fb].by = a /\ accepted[req[b].fb].by = b
      BY <2>1, <2>5 DEF EmittingOwns, Emitting
    <3>3. req[a].fb # req[b].fb
      BY <3>1, <3>2
    <3> QED
      BY <2>1, <2>3, <2>5, <3>3
  <2> QED
    BY <2>4, <2>5, OnlyWriteShows
<1>2. ASSUME NEW b \in Actor, Accepts(b) PROVE req'[a].fb \notin shown'
  <2>1. CASE a = b
    <3>1. req'[a].fb = Len(accepted')
      BY <1>2, <2>1 DEF Accepts, Request
    <3>2. Len(accepted') = Len(accepted) + 1
      <4>1. Len(accepted) \in Nat
        OBVIOUS
      <4> QED
        BY <1>2, <4>1 DEF Accepts
    <3>3. shown' = shown /\ shown \subseteq 1 .. Len(accepted)
      BY <1>2 DEF Accepts, OnlyAcceptedLeavesTrace
    <3> QED
      BY <3>1, <3>2, <3>3
  <2>2. CASE a # b
    <3>1. pc'[a] = pc[a] /\ req'[a] = req[a] /\ shown' = shown
      BY <1>2, <2>2 DEF Accepts
    <3> QED
      BY <3>1 DEF ShownByWrite
  <2> QED
    BY <2>1, <2>2
<1> QED
  BY <1>1, <1>2, StepShape

(* Both durability properties survive every step. *)
LEMMA DurableStep == DurableInv /\ [Next]_vars => DurableInv'
<1> SUFFICES ASSUME DurableInv, [Next]_vars PROVE DurableInv'
  OBVIOUS
<1> USE DEF DurableInv, SpacingInv
<1>1. SpacingInv'
  BY TypeStep, StepShape, QuietKeeps, AcceptKeeps DEF Spacing
<1>2. LoopEndsWithConn' /\ ShownByWrite'
  BY LoopStep, ShownStep
<1>a. \A i \in DOMAIN accepted : accepted[i].by \in Actor /\ accepted[i].by[1] \in Conn
  <2>1. \A i \in DOMAIN accepted : accepted[i] \in Feedback
    BY DEF TypeOK
  <2> QED
    BY <2>1, ActorConn DEF Feedback
<1>b. ASSUME ~BusMayFail, NEW i \in DOMAIN accepted, InProgress(i)
      PROVE  \/ InProgress(i)'
             \/ i \in Published'
             \/ conn'[accepted[i].by[1]] = "crashed"
             \/ accepted[i].by \in Tickers /\ conn'[accepted[i].by[1]] = "closed"
             \/ accepted[i].by \in Tickers /\ i \notin shown'
  <2> DEFINE a == accepted[i].by
  <2>1. a \in Actor /\ pc[a] \in Emitting /\ req[a].fb = i /\ accepted'[i].by = a
    BY <1>a, <1>b, StepKeepsTrace DEF InProgress
  <2>2. \/ pc'[a] \in Emitting /\ req'[a].fb = req[a].fb
        \/ req[a].fb \in Published'
        \/ conn'[a[1]] = "crashed"
        \/ a \in Tickers /\ conn'[a[1]] = "closed"
        \/ a \in Tickers /\ pc[a] = "write" /\ shown' = shown
    BY <1>b, <2>1, StepHandles
  <2>3. pc[a] = "write" => i \notin shown
    BY <2>1 DEF ShownByWrite
  <2> QED
    BY <2>1, <2>2, <2>3 DEF InProgress
<1>3. TriggerFeedbackDurable'
  <2> SUFFICES ASSUME ~BusMayFail, NEW i \in DOMAIN accepted',
                      accepted'[i].by \in Loops, conn'[accepted'[i].by[1]] # "crashed"
               PROVE  InProgress(i)' \/ i \in Published'
    BY DEF TriggerFeedbackDurable
  <2>1. CASE i \in DOMAIN accepted
    <3>1. accepted'[i] = accepted[i] /\ accepted[i].by[1] \in Conn /\ accepted[i].by \notin Tickers
      BY <1>a, <2>1, StepKeepsTrace, ActorsApart
    <3>2. conn[accepted[i].by[1]] # "crashed"
      BY <3>1, StepKeepsTrace
    <3>3. InProgress(i) \/ i \in Published
      BY <2>1, <3>1, <3>2 DEF TriggerFeedbackDurable
    <3> QED
      BY <1>b, <2>1, <3>1, <3>3, StepKeepsTrace
  <2>2. CASE i \notin DOMAIN accepted
    <3>1. PICK a \in Actor : Accepts(a)
      BY <2>2, StepShape DEF Quiet
    <3> DEFINE f == [by |-> a, t |-> req[a].t, msg |-> req[a].msg,
                     base |-> req[a].base, at |-> now]
    <3>2. f \in Feedback /\ accepted' = Append(accepted, f)
      BY <3>1 DEF Accepts, TypeOK, Request, Feedback
    <3>3. i = Len(accepted') /\ accepted'[i].by = a
      BY <2>2, <3>2 DEF TypeOK
    <3>4. pc'[a] = "remember" /\ req'[a].fb = Len(accepted')
      BY <3>1 DEF Accepts, TypeOK, Request
    <3> QED
      BY <3>3, <3>4 DEF InProgress, Emitting
  <2> QED
    BY <2>1, <2>2
<1>4. ShownIsDurable'
  <2> SUFFICES ASSUME ~BusMayFail, NEW i \in shown'
               PROVE  \/ InProgress(i)' \/ i \in Published'
                      \/ conn'[accepted'[i].by[1]] = "crashed"
                      \/ accepted'[i].by \in Tickers /\ conn'[accepted'[i].by[1]] = "closed"
    BY DEF ShownIsDurable
  <2>1. CASE i \in shown
    <3>1. i \in DOMAIN accepted
      BY <2>1 DEF OnlyAcceptedLeavesTrace
    <3>2. accepted'[i] = accepted[i] /\ accepted[i].by[1] \in Conn
      BY <1>a, <3>1, StepKeepsTrace
    <3>3. \/ InProgress(i) \/ i \in Published
          \/ conn[accepted[i].by[1]] = "crashed"
          \/ accepted[i].by \in Tickers /\ conn[accepted[i].by[1]] = "closed"
      BY <2>1 DEF ShownIsDurable
    <3>4. CASE InProgress(i)
      BY <1>b, <3>1, <3>2, <3>4
    <3> QED
      BY <3>2, <3>3, <3>4, StepKeepsTrace
  <2>2. CASE i \notin shown
    <3>1. PICK a \in Actor : /\ pc[a] = "write" /\ pc'[a] = "publish"
                             /\ req' = req /\ accepted' = accepted
                             /\ shown' = shown \cup {req[a].fb}
      BY <2>2, OnlyWriteShows
    <3>2. i = req[a].fb /\ accepted[i].by = a
      BY <2>2, <3>1 DEF EmittingOwns, Emitting
    <3> QED
      BY <3>1, <3>2 DEF InProgress, Emitting
  <2> QED
    BY <2>1, <2>2
<1> QED
  BY <1>1, <1>2, <1>3, <1>4

(* The invariant of durability, for every number of connections and every  *)
(* failure of Redis, of the peers and of the instances.                    *)
THEOREM DurableCorrect == Spec => []DurableInv
<1>1. Init /\ SpacingInv => DurableInv
  <2> SUFFICES ASSUME Init, SpacingInv PROVE DurableInv
    OBVIOUS
  <2>1. DOMAIN accepted = {} /\ shown = {}
    BY DEF Init
  <2>2. LoopEndsWithConn /\ ShownByWrite
    BY <2>1, ActorConn DEF Init, LoopEndsWithConn, ShownByWrite
  <2> QED
    BY <2>1, <2>2 DEF DurableInv, TriggerFeedbackDurable, ShownIsDurable
<1> QED
  BY <1>1, DurableStep, SpacingCorrect, PTL DEF Spec

(* On a bus that does not fail, feedback accepted for a trigger is         *)
(* published unless its instance dies, also when its peer has gone.        *)
THEOREM TriggerFeedbackDurableHolds == Spec => []TriggerFeedbackDurable
BY DurableCorrect, PTL DEF DurableInv

(* On such a bus, what the presenter was shown is published, unless the    *)
(* instance dies or the ticker loses its context between the two.          *)
THEOREM ShownIsDurableHolds == Spec => []ShownIsDurable
BY DurableCorrect, PTL DEF DurableInv
=============================================================================
