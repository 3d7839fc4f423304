---------------------------- MODULE DeliveryProofs ----------------------------
(***************************************************************************)
(* What holds of Delivery for every set of messages, channels, handlers    *)
(* and jobs, for every order of topics and all limits.  Effect says in     *)
(* four cases what a step can do to the outbox and to the handlers' hands; *)
(* ClaimsAreExclusive follows from it.  Inv adds what the ledger and a     *)
(* handler's place in its program say of the provider (LedgerOK), and that *)
(* a message accepted once, with nothing gone wrong, is either settled or  *)
(* in the one hand that is recording it (AcceptedOnce).                    *)
(***************************************************************************)
EXTENDS Delivery, TLAPS

OutboxRow == [status : OutboxStatus, by : JobIds \cup {NoOne}, due : BOOLEAN]
ConnectorRow == [enabled : BOOLEAN, failures : 0..FailureLimit, open : BOOLEAN]
USE DEF OutboxRow, ConnectorRow

\* The steps at which a handler has a message in its hand.
Working == Step \ {"idle", "claim", "next"}

\* A handler that runs nothing.
LEMMA IdleRow ==
  /\ Idle \in Handler
  /\ Idle.step = "idle" /\ Idle.batch = {} /\ Idle.message = NoOne
BY DeliveryAssumption DEF Idle, Handler, Step

\* What Go, TurnOver and Throw do to one handler, field by field.
LEMMA RowOf ==
  ASSUME NEW r \in Handler
  PROVE  /\ r.job \in JobIds \cup {NoOne}
         /\ r.topic \in 0..Len(Topics)
         /\ r.step \in Step
         /\ r.batch \subseteq Messages
         /\ r.message \in Messages \cup {NoOne}
BY DEF Handler

\* Go changes the step of one handler,
LEMMA GoDoes ==
  ASSUME TypeOK, NEW h \in Handlers, NEW s \in Step, Go(h, s)
  PROVE  /\ handler' \in [Handlers -> Handler]
         /\ handler'[h].step = s
         /\ handler'[h].message = handler[h].message
         /\ handler'[h].batch = handler[h].batch
         /\ handler'[h].job = handler[h].job
         /\ handler'[h].topic = handler[h].topic
         /\ \A k \in Handlers \ {h} : handler'[k] = handler[k]
<1> DEFINE row == [handler[h] EXCEPT !.step = s]
<1>1. handler \in [Handlers -> Handler] /\ handler[h] \in Handler
  BY DEF TypeOK
<1>2. /\ row \in Handler
      /\ row.step = s /\ row.message = handler[h].message /\ row.batch = handler[h].batch
      /\ row.job = handler[h].job /\ row.topic = handler[h].topic
  BY <1>1 DEF Handler
<1>3. handler' = [handler EXCEPT ![h] = row]
  BY DEF Go
<1> HIDE DEF row
<1> QED BY <1>1, <1>2, <1>3

\* TurnOver lets go of its message,
LEMMA TurnOverDoes ==
  ASSUME TypeOK, NEW h \in Handlers, TurnOver(h)
  PROVE  /\ handler' \in [Handlers -> Handler]
         /\ handler'[h].step = "next"
         /\ handler'[h].message = NoOne
         /\ handler'[h].batch = handler[h].batch
         /\ handler'[h].job = handler[h].job
         /\ handler'[h].topic = handler[h].topic
         /\ \A k \in Handlers \ {h} : handler'[k] = handler[k]
<1> DEFINE row == [handler[h] EXCEPT !.step = "next", !.message = NoOne]
<1>1. handler \in [Handlers -> Handler] /\ handler[h] \in Handler
  BY DEF TypeOK
<1>2. /\ row \in Handler
      /\ row.step = "next" /\ row.message = NoOne /\ row.batch = handler[h].batch
      /\ row.job = handler[h].job /\ row.topic = handler[h].topic
  BY <1>1 DEF Handler, Step
<1>3. handler' = [handler EXCEPT ![h] = row]
  BY DEF TurnOver
<1> HIDE DEF row
<1> QED BY <1>1, <1>2, <1>3

\* Throw of everything.
LEMMA ThrowDoes ==
  ASSUME TypeOK, NEW h \in Handlers, Throw(h)
  PROVE  /\ handler' \in [Handlers -> Handler]
         /\ handler'[h] = Idle
         /\ \A k \in Handlers \ {h} : handler'[k] = handler[k]
BY IdleRow DEF TypeOK, Throw

\* SetOutbox writes the row of the handler's message.
LEMMA SetOutboxDoes ==
  ASSUME TypeOK, NEW h \in Handlers, handler[h].message \in Messages,
         NEW s \in OutboxStatus, NEW due \in BOOLEAN, SetOutbox(h, s, due)
  PROVE  /\ outbox' \in [Messages -> OutboxRow]
         /\ outbox'[handler[h].message].status = s
         /\ \A m \in Messages \ {handler[h].message} : outbox'[m] = outbox[m]
BY DEF TypeOK, SetOutbox

\* A handler's memory fits the place it is at.
HandlerOK(h) ==
  /\ handler[h].step \in {"idle", "claim"} => handler[h].batch = {}
  /\ handler[h].step \in Working => handler[h].message \in Messages \ handler[h].batch
  /\ handler[h].step # "idle" => handler[h].job \in JobIds /\ handler[h].topic > 0
HandlersOK == \A h \in Handlers : HandlerOK(h)

\* The tables start empty, the handlers idle.
LEMMA InitTypes == Init => TypeOK /\ HandlersOK
<1> SUFFICES ASSUME Init PROVE TypeOK /\ HandlersOK
  OBVIOUS
<1> USE DeliveryAssumption
<1>1. outbox \in [Messages -> OutboxRow]
  BY DEF Init, OutboxStatus
<1>2. delivery \in [Messages -> DeliveryStatus] /\ doubtful \subseteq Messages
  BY DEF Init, DeliveryStatus
<1>3. connector \in [Channels -> ConnectorRow]
  BY DEF Init
<1>4. handler \in [Handlers -> Handler]
  BY IdleRow DEF Init
<1>5. /\ accepted \in [Messages -> 0..2] /\ crashes \in 0..MaxCrashes
      /\ retried \in [Messages -> 0..MaxRetries]
  BY DEF Init
<1>6. HandlersOK
  BY IdleRow DEF Init, HandlersOK, HandlerOK, Working
<1> QED BY <1>1, <1>2, <1>3, <1>4, <1>5, <1>6 DEF TypeOK

\* A working handler that goes on keeps its message in hand.
LEMMA GoKeeps ==
  ASSUME TypeOK, HandlersOK, NEW h \in Handlers, handler[h].step \in Working,
         NEW s \in Working, Go(h, s)
  PROVE  /\ HandlersOK'
         /\ handler' \in [Handlers -> Handler]
         /\ \A k \in Handlers : InHand(k)' = InHand(k) /\ handler'[k].job = handler[k].job
                                /\ handler'[k].message = handler[k].message
         /\ handler'[h].step = s
         /\ \A k \in Handlers \ {h} : handler'[k] = handler[k]
<1>1. s \in Step
  BY DEF Working
<1> QED BY <1>1, GoDoes DEF HandlersOK, HandlerOK, InHand, Working, Step

\* It lets go of the message: its hand is the batch.
LEMMA TurnOverKeeps ==
  ASSUME TypeOK, HandlersOK, NEW h \in Handlers, handler[h].step \in Working, TurnOver(h)
  PROVE  /\ HandlersOK'
         /\ handler' \in [Handlers -> Handler]
         /\ InHand(h)' = InHand(h) \ {handler[h].message}
         /\ handler'[h].job = handler[h].job
         /\ handler'[h].step = "next"
         /\ \A k \in Handlers \ {h} : handler'[k] = handler[k] /\ InHand(k)' = InHand(k)
BY TurnOverDoes DEF HandlersOK, HandlerOK, InHand, Working, Step

\* It ends: its hand is empty.
LEMMA ThrowKeeps ==
  ASSUME TypeOK, HandlersOK, NEW h \in Handlers, Throw(h)
  PROVE  /\ HandlersOK'
         /\ handler' \in [Handlers -> Handler]
         /\ InHand(h)' = {}
         /\ handler'[h].step = "idle"
         /\ \A k \in Handlers \ {h} : handler'[k] = handler[k] /\ InHand(k)' = InHand(k)
<1>1. handler'[h].step = "idle" /\ handler'[h].batch = {}
  BY ThrowDoes, IdleRow
<1> QED BY <1>1, ThrowDoes DEF HandlersOK, HandlerOK, InHand, Working

\* Claims.
Taken(m, h) == outbox[m].status = "PROCESSING" /\ outbox[m].by = handler[h].job

\* A claim takes rows that were PENDING or FAILED, and no others.
LEMMA ClaimDoes ==
  ASSUME TypeOK, HandlersOK, NEW h \in Handlers, Claim(h)
  PROVE  /\ HandlersOK'
         /\ handler' \in [Handlers -> Handler]
         /\ handler'[h].job = handler[h].job
         /\ handler'[h].step = "next"
         /\ \A k \in Handlers \ {h} : handler'[k] = handler[k] /\ InHand(k)' = InHand(k)
         /\ outbox' \in [Messages -> OutboxRow]
         /\ \A m \in Messages :
              \/ outbox'[m] = outbox[m] /\ m \notin InHand(h)'
              \/ /\ outbox[m].status \in {"PENDING", "FAILED"}
                 /\ Taken(m, h)'
<1> DEFINE rows == Claimable(Topics[handler[h].topic])
<1>1. PICK batch \in SUBSET rows :
        /\ outbox' = [m \in Messages |->
             IF m \in batch
               THEN [status |-> "PROCESSING", by |-> handler[h].job, due |-> TRUE]
               ELSE outbox[m]]
        /\ handler' = [handler EXCEPT ![h] = [handler[h] EXCEPT !.step = "next", !.batch = batch]]
  BY DEF Claim
<1>2. batch \subseteq Messages /\ \A m \in batch : outbox[m].status \in {"PENDING", "FAILED"}
  BY DEF Claimable
<1> DEFINE row == [handler[h] EXCEPT !.step = "next", !.batch = batch]
<1>3. handler \in [Handlers -> Handler] /\ handler[h] \in Handler
  BY DEF TypeOK
<1>4. handler[h].step = "claim" /\ handler[h].job \in JobIds /\ handler[h].topic > 0
  BY DEF Claim, At, HandlersOK, HandlerOK
<1>5. /\ row \in Handler
      /\ row.step = "next" /\ row.batch = batch /\ row.job = handler[h].job
      /\ row.topic = handler[h].topic
  BY <1>2, <1>3 DEF Handler, Step
<1>6. handler'[h] = row /\ \A k \in Handlers \ {h} : handler'[k] = handler[k]
  BY <1>1, <1>3
<1>7. handler' \in [Handlers -> Handler]
  BY <1>1, <1>3, <1>5
<1> HIDE DEF row, rows
<1>8. HandlersOK'
  BY <1>4, <1>5, <1>6 DEF HandlersOK, HandlerOK, Working
<1>9. InHand(h)' = batch /\ \A k \in Handlers \ {h} : InHand(k)' = InHand(k)
  BY <1>5, <1>6 DEF InHand
<1>10. outbox' \in [Messages -> OutboxRow]
  BY <1>1, <1>2, <1>4 DEF TypeOK, OutboxStatus
<1>11. ASSUME NEW m \in Messages
       PROVE  \/ outbox'[m] = outbox[m] /\ m \notin InHand(h)'
              \/ outbox[m].status \in {"PENDING", "FAILED"} /\ Taken(m, h)'
  <2>1. CASE m \in batch
    <3>1. outbox'[m] = [status |-> "PROCESSING", by |-> handler[h].job, due |-> TRUE]
      BY <1>1, <2>1
    <3> QED BY <1>2, <1>5, <1>6, <2>1, <3>1 DEF Taken
  <2>2. CASE m \notin batch
    BY <1>1, <1>9, <2>2
  <2> QED BY <2>1, <2>2
<1> QED BY <1>5, <1>6, <1>7, <1>8, <1>9, <1>10, <1>11

\* A new job has nothing in hand,
LEMMA StartJobDoes ==
  ASSUME TypeOK, HandlersOK, NEW h \in Handlers, NEW job \in JobIds, StartJob(h, job)
  PROVE  /\ HandlersOK'
         /\ handler' \in [Handlers -> Handler]
         /\ InHand(h)' = {}
         /\ handler'[h].step = "claim"
         /\ \A k \in Handlers \ {h} : handler'[k] = handler[k] /\ InHand(k)' = InHand(k)
<1> DEFINE row == [job |-> job, topic |-> 1, step |-> "claim", batch |-> {}, message |-> NoOne]
<1>1. row \in Handler /\ row.job = job /\ row.topic = 1 /\ row.step = "claim" /\ row.batch = {}
  BY DeliveryAssumption DEF Handler, Step
<1>2. handler' = [handler EXCEPT ![h] = row]
  BY DEF StartJob
<1> HIDE DEF row
<1>3. handler'[h] = row /\ \A k \in Handlers \ {h} : handler'[k] = handler[k]
  BY <1>2 DEF TypeOK
<1> QED BY <1>1, <1>2, <1>3 DEF HandlersOK, HandlerOK, InHand, Working, TypeOK

\* taking up a message of the batch keeps it in hand,
LEMMA TakeUpDoes ==
  ASSUME TypeOK, HandlersOK, NEW h \in Handlers, NEW m \in Messages, TakeUp(h, m)
  PROVE  /\ HandlersOK'
         /\ handler' \in [Handlers -> Handler]
         /\ InHand(h)' = InHand(h)
         /\ handler'[h].job = handler[h].job
         /\ handler'[h].step \in {"check", "insert"}
         /\ \A k \in Handlers \ {h} : handler'[k] = handler[k] /\ InHand(k)' = InHand(k)
<1> DEFINE step == IF IsChannel(m) THEN "check" ELSE "insert"
           row == [handler[h] EXCEPT !.message = m, !.batch = handler[h].batch \ {m},
                                     !.step = step]
<1>1. handler \in [Handlers -> Handler] /\ handler[h] \in Handler
  BY DEF TypeOK
<1>2. step \in {"check", "insert"}
  OBVIOUS
<1>3. /\ row \in Handler
      /\ row.message = m /\ row.batch = handler[h].batch \ {m} /\ row.step = step
      /\ row.job = handler[h].job /\ row.topic = handler[h].topic
  BY <1>1, <1>2 DEF Handler, Step
<1>4. handler' = [handler EXCEPT ![h] = row]
  BY DEF TakeUp
<1> HIDE DEF row, step
<1>5. handler'[h] = row /\ \A k \in Handlers \ {h} : handler'[k] = handler[k]
  BY <1>1, <1>4
<1>6. m \in handler[h].batch /\ handler[h].step = "next"
  BY DEF TakeUp, At
<1> QED BY <1>1, <1>2, <1>3, <1>4, <1>5, <1>6 DEF HandlersOK, HandlerOK, InHand, Working

\* and a topic is left with an empty hand.
LEMMA NextTopicDoes ==
  ASSUME TypeOK, HandlersOK, NEW h \in Handlers, NextTopic(h)
  PROVE  /\ HandlersOK'
         /\ handler' \in [Handlers -> Handler]
         /\ InHand(h)' = {}
         /\ handler'[h].step \in {"idle", "claim"}
         /\ \A k \in Handlers \ {h} : handler'[k] = handler[k] /\ InHand(k)' = InHand(k)
<1> DEFINE row == [handler[h] EXCEPT !.topic = handler[h].topic + 1, !.step = "claim"]
<1>1. /\ handler \in [Handlers -> Handler] /\ handler[h] \in Handler
      /\ handler[h].topic \in 0..Len(Topics)
  BY DEF TypeOK, Handler
<1>2. handler[h].step = "next" /\ handler[h].batch = {} /\ handler[h].job \in JobIds
  BY DEF NextTopic, At, HandlersOK, HandlerOK
<1>3. CASE handler[h].topic = Len(Topics)
  <2>1. handler' = [handler EXCEPT ![h] = Idle]
    BY <1>3 DEF NextTopic
  <2>2. handler'[h] = Idle /\ \A k \in Handlers \ {h} : handler'[k] = handler[k]
    BY <1>1, <2>1
  <2> QED BY <1>1, <2>1, <2>2, IdleRow DEF HandlersOK, HandlerOK, InHand, Working
<1>4. CASE handler[h].topic # Len(Topics)
  <2>1. handler' = [handler EXCEPT ![h] = row]
    BY <1>4 DEF NextTopic
  <2>2. Len(Topics) \in Nat
    BY DeliveryAssumption
  <2>3. handler[h].topic + 1 \in 0..Len(Topics) /\ handler[h].topic + 1 > 0
    BY <1>1, <1>4, <2>2
  <2>4. /\ row \in Handler /\ row.topic = handler[h].topic + 1
        /\ row.step = "claim" /\ row.batch = {} /\ row.job = handler[h].job
    BY <1>1, <1>2, <2>3 DEF Handler, Step
  <2> HIDE DEF row
  <2>5. handler'[h] = row /\ \A k \in Handlers \ {h} : handler'[k] = handler[k]
    BY <1>1, <2>1
  <2> QED BY <1>1, <1>2, <2>1, <2>3, <2>4, <2>5 DEF HandlersOK, HandlerOK, InHand, Working
<1> QED BY <1>3, <1>4

\* What a step does to rows and hands.
Keeps ==
  /\ outbox' = outbox /\ retried' = retried
  /\ \A k \in Handlers : /\ InHand(k)' \subseteq InHand(k)
                         /\ InHand(k)' # {} => handler'[k].job = handler[k].job
Settles(h) ==
  /\ Owns(h) /\ handler[h].message \in Messages
  /\ handler[h].step \in {"complete", "completeReplay", "refuse", "release"}
  /\ \A m \in Messages \ {handler[h].message} : outbox'[m] = outbox[m]
  /\ outbox'[handler[h].message].status \in
       IF handler[h].step \in {"complete", "completeReplay"} THEN {"DELIVERED"} ELSE {"FAILED"}
  /\ retried' = retried
  /\ InHand(h)' = InHand(h) \ {handler[h].message} /\ handler'[h].job = handler[h].job
  /\ handler'[h].step = "next"
  /\ \A k \in Handlers \ {h} : handler'[k] = handler[k] /\ InHand(k)' = InHand(k)
Claims(h) ==
  /\ handler'[h].job = handler[h].job /\ handler'[h].step = "next"
  /\ retried' = retried
  /\ \A k \in Handlers \ {h} : handler'[k] = handler[k] /\ InHand(k)' = InHand(k)
  /\ \A m \in Messages :
       \/ outbox'[m] = outbox[m] /\ m \notin InHand(h)'
       \/ outbox[m].status \in {"PENDING", "FAILED"} /\ Taken(m, h)'
Reopens(m) ==
  /\ handler' = handler
  /\ \A n \in Messages \ {m} : outbox'[n] = outbox[n] /\ retried'[n] = retried[n]
  /\ outbox'[m].status \in {"PENDING", "FAILED"}
  /\ \/ outbox[m].status \in {"NONE", "FAILED"} /\ retried'[m] = retried[m]
     \/ outbox[m].status # "DELIVERED" /\ retried'[m] > 0
Effect == Keeps \/ (\E h \in Handlers : Settles(h) \/ Claims(h)) \/ (\E m \in Messages : Reopens(m))
Post == TypeOK' /\ HandlersOK' /\ Effect

\* The steps of a job between messages.
LEMMA FirstSteps ==
  ASSUME TypeOK, HandlersOK, NEW h \in Handlers,
         \/ Claim(h) \/ (\E m \in Messages : TakeUp(h, m)) \/ NextTopic(h)
         \/ \E job \in JobIds : StartJob(h, job)
  PROVE  Post
<1>1. CASE Claim(h)
  <2>1. TypeOK'
    BY <1>1, ClaimDoes DEF TypeOK, Claim, provider
  <2>2. Claims(h)
    BY <1>1, ClaimDoes DEF Claims, Claim
  <2> QED BY <1>1, <2>1, <2>2, ClaimDoes DEF Post, Effect
<1>2. ASSUME NEW m \in Messages, TakeUp(h, m) PROVE Post
  <2>1. TypeOK'
    BY <1>2, TakeUpDoes DEF TypeOK, TakeUp, provider
  <2>2. Keeps
    BY <1>2, TakeUpDoes DEF Keeps, TakeUp
  <2> QED BY <1>2, <2>1, <2>2, TakeUpDoes DEF Post, Effect
<1>3. CASE NextTopic(h)
  <2>1. TypeOK'
    BY <1>3, NextTopicDoes DEF TypeOK, NextTopic, provider
  <2>2. Keeps
    BY <1>3, NextTopicDoes DEF Keeps, NextTopic
  <2> QED BY <1>3, <2>1, <2>2, NextTopicDoes DEF Post, Effect
<1>4. ASSUME NEW job \in JobIds, StartJob(h, job) PROVE Post
  <2>1. TypeOK'
    BY <1>4, StartJobDoes DEF TypeOK, StartJob, provider
  <2>2. Keeps
    BY <1>4, StartJobDoes DEF Keeps, StartJob
  <2> QED BY <1>4, <2>1, <2>2, StartJobDoes DEF Post, Effect
<1> QED BY <1>1, <1>2, <1>3, <1>4

\* A step of Go that leaves the outbox alone.
LEMMA GoPost ==
  ASSUME TypeOK, HandlersOK, NEW h \in Handlers, handler[h].step \in Working,
         NEW s \in Working, Go(h, s), UNCHANGED <<outbox, retried>>,
         delivery' \in [Messages -> DeliveryStatus],
         connector' \in [Channels -> ConnectorRow],
         accepted' \in [Messages -> 0..2], doubtful' \subseteq Messages,
         crashes' \in 0..MaxCrashes
  PROVE  Post
<1>1. TypeOK'
  BY GoKeeps DEF TypeOK
<1>2. Keeps
  BY GoKeeps DEF Keeps
<1> QED BY <1>1, <1>2, GoKeeps DEF Post, Effect

\* The channel of a message has a connector.
LEMMA ChannelRow ==
  ASSUME TypeOK, NEW m \in Messages, IsChannel(m)
  PROVE  /\ TopicOf[m] \in Channels
         /\ connector[TopicOf[m]] \in ConnectorRow
BY DEF TypeOK, IsChannel

\* The steps of one message that leave its row claimed.
LEMMA DeliverySteps ==
  ASSUME TypeOK, HandlersOK, NEW h \in Handlers,
         \/ CheckConnector(h) \/ InsertDelivery(h) \/ InspectDelivery(h) \/ ReopenDelivery(h)
         \/ Accept(h) \/ Refuse(h) \/ LoseAnswer(h)
         \/ RecordSent(h) \/ RecordFailed(h) \/ RecordingFails(h)
  PROVE  Post
<1> DEFINE m == handler[h].message
<1>0. handler[h].step \in Working /\ m \in Messages
  BY DEF CheckConnector, InsertDelivery, InspectDelivery, ReopenDelivery, Accept, Refuse,
         LoseAnswer, RecordSent, RecordFailed, RecordingFails, At, Working, Step, HandlersOK,
           HandlerOK
<1> USE <1>0
<1>a. {"insert", "refuse", "send", "inspect", "completeReplay", "reopen", "recordSent",
       "recordFailed", "complete", "release"} \subseteq Working
  BY DEF Working, Step
<1>b. /\ delivery \in [Messages -> DeliveryStatus] /\ doubtful \subseteq Messages
      /\ crashes \in 0..MaxCrashes /\ connector \in [Channels -> ConnectorRow]
      /\ accepted \in [Messages -> 0..2]
  BY DEF TypeOK
<1>1. CASE CheckConnector(h)
  BY <1>1, <1>a, <1>b, GoPost DEF CheckConnector, provider
<1>2. CASE InsertDelivery(h)
  BY <1>2, <1>a, <1>b, GoPost DEF InsertDelivery, provider, SetDelivery, DeliveryStatus
<1>3. CASE InspectDelivery(h)
  BY <1>3, <1>a, <1>b, GoPost DEF InspectDelivery, provider
<1>4. CASE ReopenDelivery(h)
  BY <1>4, <1>a, <1>b, GoPost DEF ReopenDelivery, provider, SetDelivery, DeliveryStatus
<1>5. CASE Accept(h)
  BY <1>5, <1>a, <1>b, GoPost DEF Accept
<1>6. CASE Refuse(h)
  BY <1>6, <1>a, <1>b, GoPost DEF Refuse, provider
<1>7. CASE LoseAnswer(h)
  BY <1>7, <1>a, <1>b, GoPost DEF LoseAnswer
<1>8. CASE RecordSent(h)
  <2>1. connector' \in [Channels -> ConnectorRow]
    <3>1. CASE IsChannel(m)
      <4> DEFINE row == [connector[TopicOf[m]] EXCEPT !.failures = 0, !.open = FALSE]
      <4>1. row \in ConnectorRow
        <5>1. 0 \in 0..FailureLimit
          BY DeliveryAssumption
        <5>2. connector[TopicOf[m]] \in ConnectorRow
          BY <3>1, ChannelRow
        <5> QED BY <5>1, <5>2
      <4>2. connector' = [connector EXCEPT ![TopicOf[m]] = row]
        BY <1>8, <3>1 DEF RecordSent
      <4> HIDE DEF row
      <4> QED BY <1>b, <4>1, <4>2
    <3>2. CASE ~IsChannel(m)
      BY <1>8, <1>b, <3>2 DEF RecordSent
    <3> QED BY <3>1, <3>2
  <2> QED BY <1>8, <2>1, <1>a, <1>b, GoPost DEF RecordSent, provider, SetDelivery, DeliveryStatus
<1>9. CASE RecordFailed(h)
  <2>1. connector' \in [Channels -> ConnectorRow]
    <3>1. CASE IsChannel(m)
      <4> DEFINE failures == connector[TopicOf[m]].failures
                 count == IF failures < FailureLimit THEN failures + 1 ELSE failures
                 open == connector[TopicOf[m]].open \/ failures + 1 >= FailureLimit
                 row == [connector[TopicOf[m]] EXCEPT !.failures = count, !.open = open]
      <4>1. connector' = [connector EXCEPT ![TopicOf[m]] = row]
        BY <1>9, <3>1 DEF RecordFailed
      <4>2. count \in 0..FailureLimit
        BY <3>1, ChannelRow, DeliveryAssumption
      <4>3. open \in BOOLEAN
        BY Zenon
      <4> HIDE DEF count, open
      <4>4. row \in ConnectorRow
        BY <3>1, <4>2, <4>3, ChannelRow
      <4> HIDE DEF row
      <4> QED BY <1>b, <4>1, <4>4
    <3>2. CASE ~IsChannel(m)
      BY <1>9, <1>b, <3>2 DEF RecordFailed
    <3> QED BY <3>1, <3>2
  <2> QED BY <1>9, <2>1, <1>a, <1>b, GoPost
          DEF RecordFailed, provider, SetDelivery, DeliveryStatus
<1>10. CASE RecordingFails(h)
  <2>1. crashes' \in 0..MaxCrashes
    BY <1>10, <1>b, DeliveryAssumption DEF RecordingFails
  <2> QED BY <1>10, <2>1, <1>a, <1>b, GoPost DEF RecordingFails
<1> QED BY <1>1, <1>2, <1>3, <1>4, <1>5, <1>6, <1>7, <1>8, <1>9, <1>10

\* The steps that end a message or the handler.
LEMMA LastSteps ==
  ASSUME TypeOK, HandlersOK, NEW h \in Handlers,
         Complete(h) \/ CompleteReplay(h) \/ Release(h) \/ Crash(h)
  PROVE  Post
<1>a. ASSUME ~Crash(h) PROVE handler[h].step \in Working /\ handler[h].message \in Messages
  BY <1>a DEF Complete, CompleteReplay, Release, At, Working, Step, HandlersOK, HandlerOK
<1>b. /\ delivery \in [Messages -> DeliveryStatus] /\ doubtful \subseteq Messages
      /\ crashes \in 0..MaxCrashes /\ connector \in [Channels -> ConnectorRow]
      /\ accepted \in [Messages -> 0..2]
  BY DEF TypeOK
<1>1. ASSUME Throw(h), UNCHANGED <<outbox, delivery, connector, provider, retried>>,
             crashes' \in 0..MaxCrashes
      PROVE  Post
  <2>1. TypeOK'
    BY <1>1, ThrowKeeps DEF TypeOK, provider
  <2>2. Keeps
    BY <1>1, ThrowKeeps DEF Keeps
  <2> QED BY <1>1, <2>1, <2>2, ThrowKeeps DEF Post, Effect
<1>2. ASSUME Owns(h), ~Crash(h), TurnOver(h), NEW s, SetOutbox(h, s, FALSE),
             s = IF handler[h].step \in {"complete", "completeReplay"}
                   THEN "DELIVERED" ELSE "FAILED",
             UNCHANGED <<delivery, connector, provider, retried, crashes>>,
             handler[h].step \in {"complete", "completeReplay", "refuse", "release"}
      PROVE  Post
  <2>0. s \in OutboxStatus
    BY <1>2 DEF OutboxStatus
  <2>1. TypeOK'
    BY <1>2, <1>a, <2>0, TurnOverKeeps, SetOutboxDoes DEF TypeOK, provider
  <2>2. Settles(h)
    BY <1>2, <1>a, <2>0, TurnOverKeeps, SetOutboxDoes DEF Settles
  <2> QED BY <1>2, <1>a, <2>1, <2>2, TurnOverKeeps DEF Post, Effect
<1>3. CASE Complete(h) /\ ~Crash(h)
  <2>1. CASE Owns(h)
    BY <1>2, <1>3, <2>1 DEF Complete, At
  <2>2. CASE ~Owns(h)
    <3>1. "recordFailed" \in Working
      BY DEF Working, Step
    <3>2. /\ Go(h, "recordFailed")
          /\ UNCHANGED <<outbox, delivery, connector, provider, retried, crashes>>
      BY <1>3, <2>2 DEF Complete
    <3> QED BY <1>3, <1>a, <1>b, <3>1, <3>2, GoPost DEF provider
  <2> QED BY <2>1, <2>2
<1>4. CASE CompleteReplay(h) /\ ~Crash(h)
  <2>1. CASE Owns(h)
    BY <1>2, <1>4, <2>1 DEF CompleteReplay, At
  <2>2. CASE ~Owns(h)
    BY <1>1, <1>4, <1>b, <2>2 DEF CompleteReplay
  <2> QED BY <2>1, <2>2
<1>5. CASE Release(h) /\ ~Crash(h)
  <2>1. CASE Owns(h)
    BY <1>2, <1>5, <2>1 DEF Release
  <2>2. CASE ~Owns(h)
    BY <1>1, <1>5, <1>b, <2>2 DEF Release
  <2> QED BY <2>1, <2>2
<1>6. CASE Crash(h)
  <2>1. crashes' \in 0..MaxCrashes
    BY <1>6, <1>b, DeliveryAssumption DEF Crash
  <2> QED BY <1>1, <1>6, <2>1 DEF Crash
<1> QED BY <1>3, <1>4, <1>5, <1>6

\* The steps on rows outside the handlers.
LEMMA RowSteps ==
  ASSUME TypeOK, HandlersOK, NEW m \in Messages,
         Enqueue(m) \/ RetryOutbox(m) \/ RetryDelayOver(m)
  PROVE  Post
<1>0. handler' = handler
  BY DEF Enqueue, RetryOutbox, RetryDelayOver
<1>1. HandlersOK'
  BY <1>0 DEF HandlersOK, HandlerOK
<1>2. outbox \in [Messages -> OutboxRow] /\ retried \in [Messages -> 0..MaxRetries]
  BY DEF TypeOK
<1>3. ASSUME NEW s \in {"PENDING", "FAILED"},
             outbox' = [outbox EXCEPT ![m] = [status |-> s, by |-> NoOne, due |-> TRUE]]
      PROVE  /\ outbox' \in [Messages -> OutboxRow] /\ outbox'[m].status = s
             /\ \A n \in Messages \ {m} : outbox'[n] = outbox[n]
  BY <1>2, <1>3 DEF OutboxStatus
<1>4. CASE Enqueue(m)
  <2>1. TypeOK'
    BY <1>3, <1>4 DEF TypeOK, Enqueue, provider
  <2>2. Reopens(m)
    BY <1>3, <1>4 DEF Reopens, Enqueue
  <2> QED BY <1>1, <2>1, <2>2 DEF Post, Effect
<1>5. CASE RetryOutbox(m)
  <2>0. retried' = [retried EXCEPT ![m] = retried[m] + 1] /\ retried[m] < MaxRetries
    BY <1>5 DEF RetryOutbox
  <2>1. /\ retried' \in [Messages -> 0..MaxRetries] /\ retried'[m] > 0
        /\ \A n \in Messages \ {m} : retried'[n] = retried[n]
    BY <1>2, <2>0, DeliveryAssumption
  <2>2. TypeOK'
    BY <1>3, <1>5, <2>1 DEF TypeOK, RetryOutbox, provider
  <2>3. Reopens(m)
    BY <1>3, <1>5, <2>1 DEF Reopens, RetryOutbox
  <2> QED BY <1>1, <2>2, <2>3 DEF Post, Effect
<1>6. CASE RetryDelayOver(m)
  <2>1. outbox' = [outbox EXCEPT ![m] = [outbox[m] EXCEPT !.due = TRUE]]
    BY <1>6 DEF RetryDelayOver
  <2>2. /\ [outbox[m] EXCEPT !.due = TRUE] \in OutboxRow
        /\ [outbox[m] EXCEPT !.due = TRUE].status = outbox[m].status
    BY <1>2
  <2>3. /\ outbox' \in [Messages -> OutboxRow] /\ outbox'[m].status = outbox[m].status
        /\ \A n \in Messages \ {m} : outbox'[n] = outbox[n]
    BY <1>2, <2>1, <2>2
  <2>4. TypeOK'
    BY <1>6, <2>3 DEF TypeOK, RetryDelayOver, provider
  <2>5. Reopens(m)
    BY <1>6, <2>3 DEF Reopens, RetryDelayOver
  <2> QED BY <1>1, <2>4, <2>5 DEF Post, Effect
<1> QED BY <1>4, <1>5, <1>6

\* The steps on connectors.
LEMMA ConnectorSteps ==
  ASSUME TypeOK, HandlersOK, NEW c \in Channels,
         CircuitDelayOver(c) \/ \E enabled \in BOOLEAN : ConfigureConnector(c, enabled)
  PROVE  Post
<1>1. connector' \in [Channels -> ConnectorRow]
  <2>1. connector[c] \in ConnectorRow
    BY DEF TypeOK
  <2>2. \A b \in BOOLEAN :
          /\ [connector[c] EXCEPT !.open = b] \in ConnectorRow
          /\ [connector[c] EXCEPT !.enabled = b] \in ConnectorRow
    BY <2>1
  <2>3. PICK b \in BOOLEAN :
          \/ connector' = [connector EXCEPT ![c] = [connector[c] EXCEPT !.open = b]]
          \/ connector' = [connector EXCEPT ![c] = [connector[c] EXCEPT !.enabled = b]]
    BY DEF CircuitDelayOver, ConfigureConnector
  <2> QED BY <2>2, <2>3 DEF TypeOK
<1>2. UNCHANGED <<outbox, delivery, handler, provider, retried, crashes>>
  BY DEF CircuitDelayOver, ConfigureConnector
<1>3. TypeOK'
  BY <1>1, <1>2 DEF TypeOK, provider
<1>4. Keeps /\ HandlersOK'
  BY <1>2 DEF Keeps, HandlersOK, HandlerOK, InHand
<1> QED BY <1>3, <1>4 DEF Post, Effect

\* Every step keeps the types and has one of the four effects.
LEMMA Effects == ASSUME TypeOK, HandlersOK, [Next]_vars PROVE Post
<1>1. CASE UNCHANGED vars
  <2>1. TypeOK' /\ HandlersOK' /\ Keeps
    BY <1>1 DEF vars, TypeOK, HandlersOK, HandlerOK, Keeps, InHand
  <2> QED BY <2>1 DEF Post, Effect
<1> QED BY <1>1, FirstSteps, DeliverySteps, LastSteps, RowSteps, ConnectorSteps
        DEF Next, HandlerStep

\* The exclusive claims, from the effects alone.
LEMMA ExclusiveKept ==
  ASSUME TypeOK, HandlersOK, ClaimsAreExclusive, [Next]_vars
  PROVE  ClaimsAreExclusive'
<1>0. TypeOK' /\ HandlersOK' /\ Effect
  BY Effects DEF Post
<1>a. /\ retried \in [Messages -> 0..MaxRetries]
      /\ \A h \in Handlers : InHand(h)' \subseteq Messages
  <2>1. handler' \in [Handlers -> Handler] /\ retried \in [Messages -> 0..MaxRetries]
    BY <1>0 DEF TypeOK
  <2>2. ASSUME NEW h \in Handlers PROVE InHand(h)' \subseteq Messages
    BY <1>0, <2>1, RowOf DEF InHand, HandlersOK, HandlerOK, Working
  <2> QED BY <2>1, <2>2
<1>b. ASSUME NEW h \in Handlers, NEW m \in InHand(h), retried[m] = 0
      PROVE  Taken(m, h) /\ \A k \in Handlers \ {h} : m \notin InHand(k)
  BY <1>b DEF ClaimsAreExclusive, Taken
<1> SUFFICES ASSUME NEW h \in Handlers, NEW m \in InHand(h)', retried'[m] = 0
             PROVE  Taken(m, h)' /\ \A k \in Handlers \ {h} : m \notin InHand(k)'
  BY DEF ClaimsAreExclusive, Taken
<1>c. m \in Messages
  BY <1>a
<1>1. CASE Keeps
  <2>1. m \in InHand(h) /\ retried[m] = 0 /\ handler'[h].job = handler[h].job /\ outbox' = outbox
    BY <1>1 DEF Keeps
  <2>2. \A k \in Handlers : InHand(k)' \subseteq InHand(k)
    BY <1>1 DEF Keeps
  <2> QED BY <1>b, <2>1, <2>2 DEF Taken
<1>2. ASSUME NEW s \in Handlers, Settles(s)
      PROVE Taken(m, h)' /\ \A k \in Handlers \ {h} : m \notin InHand(k)'
  <2>1. /\ m \in InHand(h) /\ retried[m] = 0 /\ handler'[h].job = handler[h].job
        /\ \A k \in Handlers : InHand(k)' \subseteq InHand(k)
    BY <1>2 DEF Settles
  <2>2. handler[s].message \in InHand(s)
    BY <1>2 DEF Settles, InHand, Working
  <2>3. m # handler[s].message
    BY <1>2, <1>b, <2>1, <2>2 DEF Settles
  <2>4. outbox'[m] = outbox[m]
    BY <1>2, <1>c, <2>3 DEF Settles
  <2> QED BY <1>b, <2>1, <2>4 DEF Taken
<1>3. ASSUME NEW c \in Handlers, Claims(c)
      PROVE Taken(m, h)' /\ \A k \in Handlers \ {h} : m \notin InHand(k)'
  <2>0. retried[m] = 0
    BY <1>3 DEF Claims
  <2>1. \/ outbox'[m] = outbox[m] /\ m \notin InHand(c)'
        \/ outbox[m].status \in {"PENDING", "FAILED"} /\ Taken(m, c)'
    BY <1>3, <1>c DEF Claims
  <2>2. CASE h = c
    <3>1. outbox[m].status \in {"PENDING", "FAILED"} /\ Taken(m, c)'
      BY <2>1, <2>2
    <3>2. \A k \in Handlers : m \notin InHand(k)
      BY <1>b, <2>0, <3>1 DEF Taken
    <3> QED BY <1>3, <2>2, <3>1, <3>2 DEF Claims
  <2>3. CASE h # c
    <3>1. m \in InHand(h) /\ handler'[h] = handler[h]
      BY <1>3, <2>3 DEF Claims
    <3>2. Taken(m, h) /\ \A k \in Handlers \ {h} : m \notin InHand(k)
      BY <1>b, <2>0, <3>1
    <3>3. outbox'[m] = outbox[m] /\ m \notin InHand(c)'
      BY <2>1, <3>2 DEF Taken
    <3> QED BY <1>3, <3>1, <3>2, <3>3 DEF Claims, Taken
  <2> QED BY <2>2, <2>3
<1>4. ASSUME NEW n \in Messages, Reopens(n)
      PROVE Taken(m, h)' /\ \A k \in Handlers \ {h} : m \notin InHand(k)'
  <2>1. \A k \in Handlers : InHand(k)' = InHand(k) /\ handler'[k] = handler[k]
    BY <1>4 DEF Reopens, InHand
  <2>2. CASE m = n
    <3>1. outbox[m].status \in {"NONE", "FAILED"} /\ retried[m] = 0
      BY <1>4, <2>2 DEF Reopens
    <3> QED BY <1>b, <2>1, <3>1 DEF Taken
  <2>3. CASE m # n
    <3>1. outbox'[m] = outbox[m] /\ retried[m] = 0
      BY <1>4, <1>c, <2>3 DEF Reopens
    <3> QED BY <1>b, <2>1, <3>1 DEF Taken
  <2> QED BY <2>2, <2>3
<1> QED BY <1>0, <1>1, <1>2, <1>3, <1>4 DEF Effect

\* A settled row is nobody's, so no later step finds it in its hand.
LEMMA DeliveredStays ==
  ASSUME TypeOK, HandlersOK, [Next]_vars, NEW m \in Messages, outbox[m].status = "DELIVERED"
  PROVE  outbox'[m] = outbox[m]
<1>0. Effect
  BY Effects DEF Post
<1>1. CASE Keeps
  BY <1>1 DEF Keeps
<1>2. ASSUME NEW s \in Handlers, Settles(s) PROVE outbox'[m] = outbox[m]
  <2>1. m # handler[s].message
    BY <1>2 DEF Settles, Owns
  <2> QED BY <1>2, <2>1 DEF Settles
<1>3. ASSUME NEW c \in Handlers, Claims(c) PROVE outbox'[m] = outbox[m]
  BY <1>3 DEF Claims
<1>4. ASSUME NEW n \in Messages, Reopens(n) PROVE outbox'[m] = outbox[m]
  <2>1. m # n
    BY <1>4 DEF Reopens
  <2> QED BY <1>4, <2>1 DEF Reopens
<1> QED BY <1>0, <1>1, <1>2, <1>3, <1>4 DEF Effect

-------------------------------------------------------------------------------
Recording == {"recordSent", "complete"}

\* What the ledger and the handlers' memory say was accepted, was.
LedgerOK ==
  /\ \A m \in Messages : delivery[m] = "SENT" => accepted[m] > 0
  /\ \A h \in Handlers : handler[h].step \in Recording => accepted[handler[h].message] > 0
  /\ \A h \in Handlers : handler[h].step = "completeReplay" /\ IsChannel(handler[h].message)
                           => accepted[handler[h].message] > 0

AcceptedOnce(m) ==
  retried[m] = 0 /\ m \notin doubtful /\ accepted[m] > 0 =>
    /\ accepted[m] = 1
    /\ outbox[m].status \in {"PROCESSING", "DELIVERED"}
    /\ \A h \in Handlers : m \in InHand(h) =>
         handler[h].message = m /\ handler[h].step \in Recording

AcceptanceInv ==
  /\ LedgerOK
  /\ ChannelDeliveredWasAccepted
  /\ \A m \in Messages : AcceptedOnce(m)

Inv == TypeOK /\ HandlersOK /\ ClaimsAreExclusive /\ AcceptanceInv

\* Where no handler that was recording m starts anything else with it.
Steady(m) ==
  /\ accepted'[m] = accepted[m]
  /\ doubtful \subseteq doubtful'
  /\ \A h \in Handlers :
       m \in InHand(h)' /\ handler[h].message = m /\ handler[h].step \in Recording
         => handler'[h].message = m /\ handler'[h].step \in Recording

\* Only a handler that completes its message makes it DELIVERED.
LEMMA DeliveredKept ==
  ASSUME Inv, [Next]_vars, \A m \in Messages : accepted[m] > 0 => accepted'[m] > 0
  PROVE  ChannelDeliveredWasAccepted'
<1>0. Effect /\ LedgerOK
  BY Effects DEF Post, Inv, AcceptanceInv
<1> SUFFICES ASSUME NEW m \in Messages, IsChannel(m), outbox'[m].status = "DELIVERED"
             PROVE  accepted[m] > 0
  BY DEF ChannelDeliveredWasAccepted, IsChannel
<1>1. CASE outbox[m].status = "DELIVERED"
  BY <1>1 DEF Inv, AcceptanceInv, ChannelDeliveredWasAccepted
<1>2. CASE outbox[m].status # "DELIVERED"
  <2>1. ~Keeps
    BY <1>2 DEF Keeps
  <2>2. ASSUME NEW c \in Handlers PROVE ~Claims(c)
    BY <1>2 DEF Claims, Taken
  <2>3. ASSUME NEW n \in Messages PROVE ~Reopens(n)
    BY <1>2 DEF Reopens
  <2>4. PICK h \in Handlers : Settles(h)
    BY <1>0, <2>1, <2>2, <2>3 DEF Effect
  <2>5. m = handler[h].message /\ handler[h].step \in {"complete", "completeReplay"}
    BY <1>2, <2>4 DEF Settles
  <2> QED BY <1>0, <2>5 DEF LedgerOK, Recording
<1> QED BY <1>1, <1>2

\* A message accepted once stays so where nobody accepts it again.
LEMMA OnceKept ==
  ASSUME Inv, [Next]_vars, NEW m \in Messages, Steady(m)
  PROVE  AcceptedOnce(m)'
<1>0. Effect /\ AcceptedOnce(m)
  BY Effects DEF Post, Inv, AcceptanceInv
<1> SUFFICES ASSUME retried'[m] = 0, m \notin doubtful', accepted'[m] > 0
             PROVE  /\ accepted'[m] = 1
                    /\ outbox'[m].status \in {"PROCESSING", "DELIVERED"}
                    /\ \A h \in Handlers : m \in InHand(h)' =>
                         handler'[h].message = m /\ handler'[h].step \in Recording
  BY DEF AcceptedOnce
<1>1. /\ accepted'[m] = accepted[m] /\ m \notin doubtful
      /\ \A h \in Handlers :
           m \in InHand(h)' /\ handler[h].message = m /\ handler[h].step \in Recording
             => handler'[h].message = m /\ handler'[h].step \in Recording
  BY DEF Steady
<1>2. retried[m] = 0
  <2>1. ASSUME NEW n \in Messages, Reopens(n) PROVE retried[m] = 0
    BY <2>1 DEF Reopens
  <2> QED BY <1>0, <2>1 DEF Effect, Keeps, Settles, Claims
<1>3. /\ accepted[m] = 1 /\ outbox[m].status \in {"PROCESSING", "DELIVERED"}
      /\ \A h \in Handlers : m \in InHand(h) =>
           handler[h].message = m /\ handler[h].step \in Recording
  BY <1>0, <1>1, <1>2 DEF AcceptedOnce
<1> DEFINE Goal == /\ outbox'[m].status \in {"PROCESSING", "DELIVERED"}
                   /\ \A h \in Handlers : m \in InHand(h)' => m \in InHand(h)
<1>4. ASSUME Keeps PROVE Goal
  BY <1>3, <1>4 DEF Keeps
<1>5. ASSUME NEW s \in Handlers, Settles(s) PROVE Goal
  <2>1. \A h \in Handlers : InHand(h)' \subseteq InHand(h)
    BY <1>5 DEF Settles
  <2>2. handler[s].message \in InHand(s)
    BY <1>5 DEF Settles, InHand, Working
  <2>3. CASE m = handler[s].message
    <3>1. handler[s].step \in Recording
      BY <1>3, <2>2, <2>3
    <3>2. outbox'[m].status = "DELIVERED"
      BY <1>5, <2>3, <3>1 DEF Settles, Recording
    <3> QED BY <2>1, <3>2
  <2>4. CASE m # handler[s].message
    BY <1>3, <1>5, <2>1, <2>4 DEF Settles
  <2> QED BY <2>3, <2>4
<1>6. ASSUME NEW c \in Handlers, Claims(c) PROVE Goal
  BY <1>3, <1>6 DEF Claims
<1>7. ASSUME NEW n \in Messages, Reopens(n) PROVE Goal
  <2>1. \A h \in Handlers : InHand(h)' = InHand(h)
    BY <1>7 DEF Reopens, InHand
  <2>2. m # n
    BY <1>2, <1>3, <1>7 DEF Reopens
  <2> QED BY <1>3, <1>7, <2>1, <2>2 DEF Reopens
<1>8. Goal
  BY <1>0, <1>4, <1>5, <1>6, <1>7 DEF Effect
<1> QED BY <1>1, <1>3, <1>8

\* A handler that goes on to something else than recording an acceptance.
LEMMA QuietStep ==
  ASSUME Inv, [Next]_vars, NEW h \in Handlers,
         accepted' = accepted, doubtful \subseteq doubtful',
         \A m \in Messages : delivery'[m] = "SENT" => delivery[m] = "SENT",
         \A k \in Handlers \ {h} : handler'[k] = handler[k],
         handler'[h].step \notin Recording \cup {"completeReplay"},
         handler[h].step \in Recording =>
           LET m == handler[h].message IN m \notin InHand(h)' \/ m \in doubtful' \/ retried'[m] > 0
  PROVE  LedgerOK' /\ \A m \in Messages : AcceptedOnce(m)'
<1>1. LedgerOK'
  BY DEF Inv, AcceptanceInv, LedgerOK, IsChannel
<1>2. ASSUME NEW m \in Messages PROVE AcceptedOnce(m)'
  <2>1. CASE handler[h].step \in Recording /\ m = handler[h].message /\ m \in InHand(h)'
    BY <2>1 DEF AcceptedOnce, Inv, TypeOK
  <2>2. CASE ~(handler[h].step \in Recording /\ m = handler[h].message /\ m \in InHand(h)')
    <3>1. Steady(m)
      BY <2>2 DEF Steady
    <3> QED BY <3>1, OnceKept
  <2> QED BY <2>1, <2>2
<1> QED BY <1>1, <1>2

\* A step that moves no handler.
LEMMA StillStep ==
  ASSUME Inv, [Next]_vars, UNCHANGED <<accepted, doubtful, delivery, handler>>
  PROVE  LedgerOK' /\ \A m \in Messages : AcceptedOnce(m)'
<1>1. LedgerOK'
  BY DEF Inv, AcceptanceInv, LedgerOK, IsChannel
<1>2. ASSUME NEW m \in Messages PROVE Steady(m)
  BY DEF Steady
<1> QED BY <1>1, <1>2, OnceKept

\* The provider has accepted handler h's message.
Accepts(h) ==
  LET m == handler[h].message IN
  /\ At(h, "send")
  /\ accepted' = [accepted EXCEPT ![m] = IF accepted[m] = 0 THEN 1 ELSE 2]
  /\ UNCHANGED <<outbox, delivery, retried>>

\* A first acceptance finds the message in no other hand; a second one has a cause.
LEMMA AcceptsDoes ==
  ASSUME Inv, [Next]_vars, NEW h \in Handlers, Accepts(h),
         \/ Go(h, "recordSent") /\ doubtful' = doubtful
         \/ Go(h, "recordFailed") /\ doubtful' = doubtful \cup {handler[h].message}
  PROVE  LedgerOK' /\ \A m \in Messages : AcceptedOnce(m)'
<1>p. PICK n : n = handler[h].message
  OBVIOUS
<1> USE <1>p
<1>0. /\ handler[h].step = "send" /\ n \in Messages /\ n \in InHand(h) /\ TypeOK
      /\ accepted \in [Messages -> 0..2] /\ handler[h].step \in Working
      /\ HandlersOK
  BY DEF Accepts, At, Inv, HandlersOK, HandlerOK, InHand, Working, Step, TypeOK
<1>1. /\ accepted'[n] = IF accepted[n] = 0 THEN 1 ELSE 2
      /\ \A m \in Messages \ {n} : accepted'[m] = accepted[m]
  BY <1>0 DEF Accepts
<1>2. PICK s \in {"recordSent", "recordFailed"} : Go(h, s)
  OBVIOUS
<1>3. s \in Working
  BY DEF Working, Step
<1>4. /\ handler'[h].step = s /\ handler'[h].message = n
      /\ \A k \in Handlers \ {h} : handler'[k] = handler[k]
      /\ \A k \in Handlers : InHand(k)' = InHand(k)
  BY <1>0, <1>2, <1>3, GoKeeps
<1>5. \A m \in Messages : accepted[m] > 0 => accepted'[m] > 0
  BY <1>0, <1>1
<1>6. LedgerOK'
  <2>1. \A k \in Handlers : handler[k].step \in Working => handler[k].message \in Messages
    BY <1>0 DEF HandlersOK, HandlerOK
  <2>2. accepted'[n] > 0
    BY <1>1
  <2>3. delivery' = delivery
    BY DEF Accepts
  <2> QED BY <1>2, <1>4, <1>5, <2>1, <2>2, <2>3
          DEF Inv, AcceptanceInv, LedgerOK, IsChannel, Recording, Working, Step
<1>7. ASSUME NEW m \in Messages \ {n} PROVE AcceptedOnce(m)'
  <2>1. Steady(m)
    BY <1>0, <1>1, <1>4 DEF Steady, Recording
  <2> QED BY <2>1, OnceKept
<1>8. AcceptedOnce(n)'
  <2> SUFFICES ASSUME retried'[n] = 0, n \notin doubtful'
               PROVE  /\ accepted'[n] = 1
                      /\ outbox'[n].status \in {"PROCESSING", "DELIVERED"}
                      /\ \A k \in Handlers : n \in InHand(k)' =>
                           handler'[k].message = n /\ handler'[k].step \in Recording
    BY DEF AcceptedOnce
  <2>1. retried[n] = 0 /\ n \notin doubtful /\ handler'[h].step \in Recording
    <3>1. Go(h, "recordSent") /\ doubtful' = doubtful
      OBVIOUS
    <3>2. "recordSent" \in Working
      BY DEF Working, Step
    <3>3. handler'[h].step = "recordSent"
      BY <1>0, <3>1, <3>2, GoKeeps
    <3> QED BY <3>1, <3>3 DEF Accepts, Recording
  <2>2. outbox[n].status = "PROCESSING" /\ \A k \in Handlers \ {h} : n \notin InHand(k)
    BY <1>0, <2>1 DEF Inv, ClaimsAreExclusive
  <2>3. accepted[n] = 0
    <3>1. AcceptedOnce(n)
      BY <1>0 DEF Inv, AcceptanceInv
    <3>2. ~(accepted[n] > 0)
      BY <1>0, <2>1, <3>1 DEF AcceptedOnce, Recording
    <3> QED BY <1>0, <3>2
  <2> QED BY <1>1, <1>4, <2>1, <2>2, <2>3 DEF Accepts
<1> QED BY <1>6, <1>7, <1>8

\* Each step of a handler.
LEMMA HandlerAcceptance ==
  ASSUME Inv, Next, NEW h \in Handlers,
         HandlerStep(h) \/ RecordingFails(h) \/ Crash(h) \/ \E job \in JobIds : StartJob(h, job)
  PROVE  LedgerOK' /\ \A m \in Messages : AcceptedOnce(m)'
<1> DEFINE Goal == LedgerOK' /\ \A m \in Messages : AcceptedOnce(m)'
           n == handler[h].message
<1> SUFFICES Goal
  OBVIOUS
<1>a. TypeOK /\ HandlersOK /\ LedgerOK /\ [Next]_vars
  BY DEF Inv, AcceptanceInv
<1>b. handler[h].step \in Working => n \in Messages /\ n \in InHand(h)
  BY <1>a DEF HandlersOK, HandlerOK, InHand, Working
<1>c. {"insert", "refuse", "send", "inspect", "completeReplay", "reopen", "recordSent",
       "recordFailed", "complete", "release"} \subseteq Working
  BY DEF Working, Step
<1> USE <1>a DEF At, Recording
<1>1. CASE Claim(h)
  <2>1. UNCHANGED <<accepted, doubtful, delivery>> /\ handler[h].step = "claim"
    BY <1>1 DEF Claim, provider
  <2> QED BY <1>1, <2>1, ClaimDoes, QuietStep
<1>2. ASSUME NEW m \in Messages, TakeUp(h, m) PROVE Goal
  <2>1. UNCHANGED <<accepted, doubtful, delivery>> /\ handler[h].step = "next"
    BY <1>2 DEF TakeUp, provider
  <2> QED BY <1>2, <2>1, TakeUpDoes, QuietStep
<1>3. CASE NextTopic(h)
  <2>1. UNCHANGED <<accepted, doubtful, delivery>> /\ handler[h].step = "next"
    BY <1>3 DEF NextTopic, provider
  <2> QED BY <1>3, <2>1, NextTopicDoes, QuietStep
<1>4. ASSUME NEW job \in JobIds, StartJob(h, job) PROVE Goal
  <2>1. UNCHANGED <<accepted, doubtful, delivery>> /\ handler[h].step = "idle"
    BY <1>4 DEF StartJob, provider
  <2> QED BY <1>4, <2>1, StartJobDoes, QuietStep
\* A step of Go on to a step that neither records nor replays.
<1>5. ASSUME NEW s \in Working \ {"recordSent", "complete", "completeReplay"}, Go(h, s),
             handler[h].step \in Working,
             handler[h].step \in Recording => n \in doubtful' \/ retried'[n] > 0,
             accepted' = accepted, doubtful \subseteq doubtful',
             \A m \in Messages : delivery'[m] = "SENT" => delivery[m] = "SENT"
      PROVE  Goal
  BY <1>5, GoKeeps, QuietStep
<1>6. CASE CheckConnector(h)
  BY <1>5, <1>6, <1>c DEF CheckConnector, provider, Working, Step
<1>7. CASE InsertDelivery(h)
  <2>1. \A m \in Messages : delivery'[m] = "SENT" => delivery[m] = "SENT"
    BY <1>7 DEF InsertDelivery, SetDelivery, TypeOK
  <2> QED BY <1>5, <1>7, <1>c, <2>1 DEF InsertDelivery, provider, Working, Step
<1>8. CASE ReopenDelivery(h)
  <2>1. \A m \in Messages : delivery'[m] = "SENT" => delivery[m] = "SENT"
    BY <1>8 DEF ReopenDelivery, SetDelivery, TypeOK
  <2> QED BY <1>5, <1>8, <1>c, <2>1 DEF ReopenDelivery, provider, Working, Step
<1>9. CASE Refuse(h)
  BY <1>5, <1>9, <1>c DEF Refuse, provider, Working, Step
<1>10. CASE RecordFailed(h)
  <2>1. \A m \in Messages : delivery'[m] = "SENT" => delivery[m] = "SENT"
    BY <1>10 DEF RecordFailed, SetDelivery, TypeOK
  <2> QED BY <1>5, <1>10, <1>c, <2>1 DEF RecordFailed, provider, Working, Step
<1>11. CASE RecordingFails(h)
  BY <1>5, <1>11, <1>c DEF RecordingFails, Working, Step
<1>12. CASE InspectDelivery(h)
  <2>1. CASE Settled(n)
    <3>1. Go(h, "completeReplay") /\ handler[h].step = "inspect" /\ "completeReplay" \in Working
      BY <1>12, <1>c, <2>1 DEF InspectDelivery
    <3>2. UNCHANGED <<accepted, doubtful, delivery>>
      BY <1>12 DEF InspectDelivery, provider
    <3>3. /\ handler'[h].step = "completeReplay" /\ handler'[h].message = n
          /\ \A k \in Handlers \ {h} : handler'[k] = handler[k]
      BY <1>c, <3>1, GoKeeps
    <3>4. IsChannel(n) => accepted[n] > 0
      BY <1>b, <1>c, <2>1, <3>1 DEF Settled, LedgerOK
    <3>5. LedgerOK'
      BY <3>2, <3>3, <3>4 DEF LedgerOK, IsChannel
    <3>6. \A m \in Messages : Steady(m)
      BY <3>1, <3>2, <3>3 DEF Steady
    <3> QED BY <3>5, <3>6, OnceKept
  <2>2. CASE ~Settled(n)
    BY <1>5, <1>12, <1>c, <2>2 DEF InspectDelivery, provider, Working, Step
  <2> QED BY <2>1, <2>2
<1>13. CASE Accept(h)
  BY <1>13, AcceptsDoes DEF Accept, Accepts
<1>14. CASE LoseAnswer(h)
  BY <1>14, AcceptsDoes DEF LoseAnswer, Accepts
<1>15. CASE RecordSent(h)
  <2>1. Go(h, "complete") /\ handler[h].step = "recordSent" /\ "complete" \in Working
    BY <1>15, <1>c DEF RecordSent
  <2>2. UNCHANGED <<accepted, doubtful>> /\ delivery' = [delivery EXCEPT ![n] = "SENT"]
    BY <1>15 DEF RecordSent, provider, SetDelivery
  <2>3. /\ handler'[h].step = "complete" /\ handler'[h].message = n
        /\ \A k \in Handlers \ {h} : handler'[k] = handler[k]
    BY <1>c, <2>1, GoKeeps
  <2>4. accepted[n] > 0
    BY <2>1 DEF LedgerOK
  <2>5. LedgerOK'
    BY <2>2, <2>3, <2>4 DEF LedgerOK, IsChannel, TypeOK
  <2>6. \A m \in Messages : Steady(m)
    BY <2>1, <2>2, <2>3 DEF Steady
  <2> QED BY <2>5, <2>6, OnceKept
<1>16. CASE Complete(h)
  <2>1. handler[h].step = "complete" /\ UNCHANGED <<accepted, doubtful, delivery, retried>>
    BY <1>16 DEF Complete, provider
  <2>2. CASE Owns(h)
    <3>1. TurnOver(h)
      BY <1>16, <2>2 DEF Complete
    <3> QED BY <1>c, <2>1, <3>1, TurnOverKeeps, QuietStep
  <2>3. CASE ~Owns(h)
    <3>1. retried[n] > 0
      <4>1. retried[n] # 0
        BY <1>b, <1>c, <2>1, <2>3 DEF Inv, ClaimsAreExclusive, Owns
      <4> QED BY <1>b, <1>c, <2>1, <4>1 DEF TypeOK
    <3>2. Go(h, "recordFailed")
      BY <1>16, <2>3 DEF Complete
    <3> QED BY <1>5, <1>c, <2>1, <3>1, <3>2
  <2> QED BY <2>2, <2>3
<1>17. CASE CompleteReplay(h)
  <2>1. handler[h].step = "completeReplay" /\ UNCHANGED <<accepted, doubtful, delivery, retried>>
    BY <1>17 DEF CompleteReplay, provider
  <2>2. TurnOver(h) \/ Throw(h)
    BY <1>17 DEF CompleteReplay
  <2> QED BY <1>c, <2>1, <2>2, TurnOverKeeps, ThrowKeeps, QuietStep
<1>18. CASE Release(h)
  <2>1. /\ handler[h].step \in {"refuse", "release"}
        /\ UNCHANGED <<accepted, doubtful, delivery, retried>>
    BY <1>18 DEF Release, provider
  <2>2. TurnOver(h) \/ Throw(h)
    BY <1>18 DEF Release
  <2> QED BY <1>c, <2>1, <2>2, TurnOverKeeps, ThrowKeeps, QuietStep
<1>19. CASE Crash(h)
  <2>1. UNCHANGED <<accepted, doubtful, delivery, retried>> /\ Throw(h)
    BY <1>19 DEF Crash, provider
  <2> QED BY <2>1, ThrowKeeps, QuietStep
<1> QED BY <1>1, <1>2, <1>3, <1>4, <1>6, <1>7, <1>8, <1>9, <1>10, <1>11, <1>12, <1>13,
           <1>14, <1>15, <1>16, <1>17, <1>18, <1>19 DEF HandlerStep

\* AcceptanceInv is kept, relative to the rest of Inv.
LEMMA AcceptanceKept ==
  ASSUME Inv, [Next]_vars
  PROVE  AcceptanceInv'
<1>1. LedgerOK' /\ \A m \in Messages : AcceptedOnce(m)'
  <2>1. CASE UNCHANGED vars
    BY <2>1, StillStep DEF vars
  <2>2. ASSUME NEW m \in Messages, Enqueue(m) \/ RetryOutbox(m) \/ RetryDelayOver(m)
        PROVE  UNCHANGED <<accepted, doubtful, delivery, handler>>
    BY <2>2 DEF Enqueue, RetryOutbox, RetryDelayOver, provider
  <2>3. ASSUME NEW c \in Channels,
               CircuitDelayOver(c) \/ \E enabled \in BOOLEAN : ConfigureConnector(c, enabled)
        PROVE  UNCHANGED <<accepted, doubtful, delivery, handler>>
    BY <2>3 DEF CircuitDelayOver, ConfigureConnector, provider
  <2>4. CASE Next
    BY <2>2, <2>3, <2>4, StillStep, HandlerAcceptance DEF Next
  <2> QED BY <2>1, <2>4
<1>2. \A m \in Messages : accepted[m] > 0 => accepted'[m] > 0
  <2>1. accepted \in [Messages -> 0..2]
    BY DEF Inv, TypeOK
  <2>2. \/ accepted' = accepted
        \/ \E h \in Handlers : accepted' =
             [accepted EXCEPT ![handler[h].message] =
                IF accepted[handler[h].message] = 0 THEN 1 ELSE 2]
    BY DEF Next, HandlerStep, Enqueue, RetryOutbox, RetryDelayOver, CircuitDelayOver,
           ConfigureConnector, provider, vars, Claim, TakeUp, NextTopic, StartJob, CheckConnector,
           InsertDelivery, InspectDelivery, ReopenDelivery, Accept, Refuse, LoseAnswer,
           RecordSent, Complete, CompleteReplay, RecordFailed, Release, RecordingFails, Crash
  <2> QED BY <2>1, <2>2
<1> QED BY <1>1, <1>2, DeliveredKept DEF AcceptanceInv

-------------------------------------------------------------------------------
\* The invariant holds at first
LEMMA InitInv == Init => Inv
<1> SUFFICES ASSUME Init PROVE Inv
  OBVIOUS
<1>1. TypeOK /\ HandlersOK
  BY InitTypes
<1>2. \A h \in Handlers : handler[h].step = "idle" /\ handler[h].batch = {}
  BY IdleRow DEF Init
<1>3. \A h \in Handlers : InHand(h) = {}
  BY <1>2 DEF InHand
<1>4. ClaimsAreExclusive
  BY <1>3 DEF ClaimsAreExclusive
<1>5. LedgerOK
  BY <1>2 DEF Init, LedgerOK, Recording
<1>6. ChannelDeliveredWasAccepted
  BY DEF Init, ChannelDeliveredWasAccepted
<1>7. \A m \in Messages : AcceptedOnce(m)
  BY DEF Init, AcceptedOnce
<1> QED BY <1>1, <1>4, <1>5, <1>6, <1>7 DEF Inv, AcceptanceInv

\* and is inductive.
LEMMA StepInv == Inv /\ [Next]_vars => Inv'
BY Effects, ExclusiveKept, AcceptanceKept DEF Inv, Post

\* Rows, ledger, connectors and the handlers' memory keep their shapes.
THEOREM TypeCorrect == Spec => []TypeOK
<1>1. Inv => TypeOK
  BY DEF Inv
<1> QED BY <1>1, InitInv, StepInv, PTL DEF Spec

\* A claimed message is in one hand, under the job's name, until it is retried by hand.
THEOREM ClaimsStayExclusive == Spec => []ClaimsAreExclusive
<1>1. Inv => ClaimsAreExclusive
  BY DEF Inv
<1> QED BY <1>1, InitInv, StepInv, PTL DEF Spec

\* A channel message recorded as delivered was accepted by its provider.
THEOREM DeliveredWasAcceptedByChannel == Spec => []ChannelDeliveredWasAccepted
<1>1. Inv => ChannelDeliveredWasAccepted
  BY DEF Inv, AcceptanceInv
<1> QED BY <1>1, InitInv, StepInv, PTL DEF Spec

\* A message accepted twice was accepted without a record of it, or retried by hand.
THEOREM RepeatedOnlyForCause == Spec => []RepeatedForCause
<1>1. Inv => RepeatedForCause
  BY DEF Inv, AcceptanceInv, AcceptedOnce, RepeatedForCause, TypeOK
<1> QED BY <1>1, InitInv, StepInv, PTL DEF Spec

\* No step writes the row of a delivered message again.
THEOREM DeliveredStaysDelivered == Spec => DeliveredIsFinal
<1>1. Inv /\ [Next]_vars =>
        [\A m \in Messages : outbox[m].status = "DELIVERED" => outbox'[m] = outbox[m]]_vars
  BY DeliveredStays DEF Inv
<1> QED BY <1>1, InitInv, StepInv, PTL DEF Spec, DeliveredIsFinal
===============================================================================
