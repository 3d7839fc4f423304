------------------------------- MODULE Delivery -------------------------------
(***************************************************************************)
(* From a durable outbox record to a message at a provider.  A             *)
(* notification job goes through the topics in order: the                  *)
(* NotificationDispatcher's, then each channel's of the                    *)
(* ChannelDeliveryService; for every topic it claims a batch of outbox     *)
(* rows and delivers them one at a time.  A delivery is a sequence of      *)
(* single statements on three tables (outbox_events,                       *)
(* notification_deliveries, connector_states) around one call of the       *)
(* provider, so jobs, crashes and the operator interleave between any two. *)
(*                                                                         *)
(* Several handlers run at once: pg-boss gives up a job that exceeds its   *)
(* time while its handler is still running, and runs it again under the    *)
(* same id; and another process has jobs of its own.                       *)
(*                                                                         *)
(* Abstracted: texts, recipients, attempt numbers, the daily report's copy *)
(* of the status; a delay is a flag that falls when it is over; payloads   *)
(* always parse, as those the code enqueues do.                            *)
(***************************************************************************)
EXTENDS Naturals, Sequences, FiniteSets

CONSTANTS
  Messages,      \* outbox rows, by idempotency key
  Channels,      \* connectors; a channel's topic is named like the channel
  TopicOf,       \* the topic of each message
  Topics,        \* the topics, in the order a job goes through them
  Gateways,      \* the channels whose gateway the runtime constructed
  Handlers,      \* concurrent executions of the notification handler
  JobIds,
  NoOne,         \* SQL NULL
  ClaimLimit,    \* 20
  FailureLimit,  \* 5
  MaxCrashes,    \* bound: handlers that end halfway, and failed statements
  MaxRetries     \* bound: retries of one message by the operator

ASSUME DeliveryAssumption ==
  /\ Topics \in Seq(STRING) /\ Len(Topics) > 0
  /\ TopicOf \in [Messages -> {Topics[i] : i \in DOMAIN Topics}]
  /\ Channels \subseteq {Topics[i] : i \in DOMAIN Topics}
  /\ Gateways \subseteq Channels
  /\ NoOne \notin Messages \cup JobIds
  /\ ClaimLimit \in Nat \ {0}
  /\ FailureLimit \in Nat \ {0}
  /\ MaxCrashes \in Nat
  /\ MaxRetries \in Nat

VARIABLES
  outbox,     \* outbox_events: status, locked_by, and whether available_at came
  delivery,   \* notification_deliveries: the status of each message's row
  connector,  \* connector_states, by channel
  handler,    \* what each handler has in memory
  accepted,   \* times the provider accepted a message: 0, 1, or 2 for more
  doubtful,   \* messages accepted by a call whose success was not recorded
  retried,    \* operator_actions: RETRY_OUTBOX, counted by message
  crashes

vars == <<outbox, delivery, connector, handler, accepted, doubtful, retried, crashes>>
provider == <<accepted, doubtful>>

-------------------------------------------------------------------------------
OutboxStatus == {"NONE", "PENDING", "PROCESSING", "DELIVERED", "FAILED"}
DeliveryStatus == {"NONE", "SENDING", "SENT", "FAILED"}
\* The statement a handler runs next; "next": it takes up another message.
Step == {"idle", "claim", "next", "check", "refuse", "insert", "inspect", "reopen",
         "send", "recordSent", "complete", "completeReplay", "recordFailed", "release"}

Handler == [job : JobIds \cup {NoOne}, topic : 0..Len(Topics), step : Step,
            batch : SUBSET Messages, message : Messages \cup {NoOne}]

Idle == [job |-> NoOne, topic |-> 0, step |-> "idle", batch |-> {}, message |-> NoOne]

IsChannel(m) == TopicOf[m] \in Channels

\* Rows OutboxService.claim selects, for the topic of the handler.
\* Seeded fault: a row some handler is still working on is selected as well.
ClaimableInFlight(topic) ==
  {m \in Messages : /\ outbox[m].status \in {"PENDING", "PROCESSING", "FAILED"}
                    /\ outbox[m].due
                    /\ TopicOf[m] = topic}
Claimable(topic) ==
  {m \in Messages : /\ outbox[m].status \in {"PENDING", "FAILED"}
                    /\ outbox[m].due
                    /\ TopicOf[m] = topic}

\* complete and fail refuse a row that is not PROCESSING under the job's name.
Owns(h) == LET row == outbox[handler[h].message] IN
  row.status = "PROCESSING" /\ row.by = handler[h].job

At(h, step) == handler[h].step = step
Go(h, step) == handler' = [handler EXCEPT ![h].step = step]
TurnOver(h) == handler' = [handler EXCEPT ![h] = [@ EXCEPT !.step = "next", !.message = NoOne]]
\* A statement threw outside the try: the handler ends, its batch stays claimed.
Throw(h) == handler' = [handler EXCEPT ![h] = Idle]

SetOutbox(h, status, due) ==
  outbox' = [outbox EXCEPT ![handler[h].message] =
               [status |-> status, by |-> NoOne, due |-> due]]
\* Seeded fault: the outbox's word for the ledger's.
SetDeliveryWrongWord(h, status) ==
  delivery' = [delivery EXCEPT ![handler[h].message] =
                 IF status = "SENT" THEN "DELIVERED" ELSE status]
SetDelivery(h, status) == delivery' = [delivery EXCEPT ![handler[h].message] = status]

-------------------------------------------------------------------------------
Init ==
  /\ outbox = [m \in Messages |-> [status |-> "NONE", by |-> NoOne, due |-> FALSE]]
  /\ delivery = [m \in Messages |-> "NONE"]
  /\ connector = [c \in Channels |-> [enabled |-> FALSE, failures |-> 0, open |-> FALSE]]
  /\ handler = [h \in Handlers |-> Idle]
  /\ accepted = [m \in Messages |-> 0]
  /\ doubtful = {}
  /\ retried = [m \in Messages |-> 0]
  /\ crashes = 0

\* A second enqueue under the key changes nothing.
Enqueue(m) ==
  /\ outbox[m].status = "NONE"
  /\ outbox' = [outbox EXCEPT ![m] = [status |-> "PENDING", by |-> NoOne, due |-> TRUE]]
  /\ UNCHANGED <<delivery, connector, handler, provider, retried, crashes>>

-------------------------------------------------------------------------------
(* The job: batches, topic after topic.                                    *)

StartJob(h, job) ==
  /\ At(h, "idle")
  /\ handler' = [handler EXCEPT ![h] =
       [job |-> job, topic |-> 1, step |-> "claim", batch |-> {}, message |-> NoOne]]
  /\ UNCHANGED <<outbox, delivery, connector, provider, retried, crashes>>

\* RETURNING promises no order, so the batch is a set.
Claim(h) ==
  LET rows == Claimable(Topics[handler[h].topic])
      full == IF Cardinality(rows) > ClaimLimit THEN ClaimLimit ELSE Cardinality(rows)
  IN
  /\ At(h, "claim")
  /\ \E batch \in SUBSET rows :
       /\ Cardinality(batch) = full
       /\ outbox' = [m \in Messages |->
            IF m \in batch
              THEN [status |-> "PROCESSING", by |-> handler[h].job, due |-> TRUE]
              ELSE outbox[m]]
       /\ handler' = [handler EXCEPT ![h] = [@ EXCEPT !.step = "next", !.batch = batch]]
  /\ UNCHANGED <<delivery, connector, provider, retried, crashes>>

TakeUp(h, m) ==
  /\ At(h, "next")
  /\ m \in handler[h].batch
  /\ handler' = [handler EXCEPT ![h] =
       [@ EXCEPT !.message = m, !.batch = handler[h].batch \ {m},
                 !.step = IF IsChannel(m) THEN "check" ELSE "insert"]]
  /\ UNCHANGED <<outbox, delivery, connector, provider, retried, crashes>>

NextTopic(h) ==
  /\ At(h, "next")
  /\ handler[h].batch = {}
  /\ handler' = [handler EXCEPT ![h] =
       IF handler[h].topic = Len(Topics) THEN Idle
       ELSE [@ EXCEPT !.topic = handler[h].topic + 1, !.step = "claim"]]
  /\ UNCHANGED <<outbox, delivery, connector, provider, retried, crashes>>

-------------------------------------------------------------------------------
(* One message.                                                            *)

Sendable(c) == connector[c].enabled /\ ~connector[c].open /\ c \in Gateways

\* Channels only: the connector is read once, long before the provider is called.
CheckConnector(h) ==
  /\ At(h, "check")
  /\ Go(h, IF Sendable(TopicOf[handler[h].message]) THEN "insert" ELSE "refuse")
  /\ UNCHANGED <<outbox, delivery, connector, provider, retried, crashes>>

InsertDelivery(h) ==
  /\ At(h, "insert")
  /\ IF delivery[handler[h].message] = "NONE"
       THEN SetDelivery(h, "SENDING") /\ Go(h, "send")
       ELSE Go(h, "inspect") /\ UNCHANGED delivery
  /\ UNCHANGED <<outbox, connector, provider, retried, crashes>>

\* The row was there.  To the dispatcher SENDING means that it may have been
\* sent, to a channel that it was not.
\* Seeded fault: the channel service takes the dispatcher's rule.
SettledForBoth(m) == delivery[m] \in {"SENDING", "SENT"}
Settled(m) == delivery[m] \in IF IsChannel(m) THEN {"SENT"} ELSE {"SENDING", "SENT"}

InspectDelivery(h) ==
  /\ At(h, "inspect")
  /\ Go(h, IF Settled(handler[h].message) THEN "completeReplay" ELSE "reopen")
  /\ UNCHANGED <<outbox, delivery, connector, provider, retried, crashes>>

ReopenDelivery(h) ==
  /\ At(h, "reopen")
  /\ SetDelivery(h, "SENDING")
  /\ Go(h, "send")
  /\ UNCHANGED <<outbox, connector, provider, retried, crashes>>

\* The provider takes the message and says so.
Accept(h) ==
  LET m == handler[h].message IN
  /\ At(h, "send")
  /\ accepted' = [accepted EXCEPT ![m] = IF @ = 0 THEN 1 ELSE 2]
  /\ Go(h, "recordSent")
  /\ UNCHANGED <<outbox, delivery, connector, doubtful, retried, crashes>>

\* It refuses it; or it takes it and the answer is lost.
Refuse(h) ==
  /\ At(h, "send")
  /\ Go(h, "recordFailed")
  /\ UNCHANGED <<outbox, delivery, connector, provider, retried, crashes>>

LoseAnswer(h) ==
  LET m == handler[h].message IN
  /\ At(h, "send")
  /\ accepted' = [accepted EXCEPT ![m] = IF @ = 0 THEN 1 ELSE 2]
  /\ doubtful' = doubtful \cup {m}
  /\ Go(h, "recordFailed")
  /\ UNCHANGED <<outbox, delivery, connector, retried, crashes>>

\* A success closes the channel's circuit and forgets its failures.
RecordSent(h) ==
  LET m == handler[h].message IN
  /\ At(h, "recordSent")
  /\ SetDelivery(h, "SENT")
  /\ connector' = IF IsChannel(m)
       THEN [connector EXCEPT ![TopicOf[m]] = [@ EXCEPT !.failures = 0, !.open = FALSE]]
       ELSE connector
  /\ Go(h, "complete")
  /\ UNCHANGED <<outbox, provider, retried, crashes>>

\* Inside the try: a row taken away meanwhile counts as a failed delivery.
Complete(h) ==
  /\ At(h, "complete")
  /\ IF Owns(h)
       THEN SetOutbox(h, "DELIVERED", FALSE) /\ TurnOver(h)
       ELSE Go(h, "recordFailed") /\ UNCHANGED outbox
  /\ UNCHANGED <<delivery, connector, provider, retried, crashes>>

CompleteReplay(h) ==
  /\ At(h, "completeReplay")
  /\ IF Owns(h)
       THEN SetOutbox(h, "DELIVERED", FALSE) /\ TurnOver(h)
       ELSE Throw(h) /\ UNCHANGED outbox
  /\ UNCHANGED <<delivery, connector, provider, retried, crashes>>

\* The database refuses one of the two writes: inside the try, so that the catch
\* records a failure of a message that was accepted.
RecordingFails(h) ==
  /\ handler[h].step \in {"recordSent", "complete"}
  /\ crashes < MaxCrashes
  /\ crashes' = crashes + 1
  /\ doubtful' = doubtful \cup {handler[h].message}
  /\ Go(h, "recordFailed")
  /\ UNCHANGED <<outbox, delivery, connector, accepted, retried>>

\* The circuit opens, or opens again, at FailureLimit failures in a row.
RecordFailed(h) ==
  LET m == handler[h].message
      failures == connector[TopicOf[m]].failures
  IN
  /\ At(h, "recordFailed")
  /\ SetDelivery(h, "FAILED")
  /\ connector' = IF IsChannel(m)
       THEN [connector EXCEPT ![TopicOf[m]] =
              [@ EXCEPT !.failures = IF failures < FailureLimit THEN failures + 1 ELSE failures,
                        !.open = connector[TopicOf[m]].open \/ failures + 1 >= FailureLimit]]
       ELSE connector
  /\ Go(h, "release")
  /\ UNCHANGED <<outbox, provider, retried, crashes>>

\* OutboxService.fail, after a failure or a refusal by the connector's state.
\* Seeded fault: a refused message is left to its claim.
ReleaseAfterFailureOnly(h) ==
  /\ handler[h].step \in {"refuse", "release"}
  /\ IF Owns(h)
       THEN /\ IF At(h, "release") THEN SetOutbox(h, "FAILED", FALSE) ELSE UNCHANGED outbox
            /\ TurnOver(h)
       ELSE Throw(h) /\ UNCHANGED outbox
  /\ UNCHANGED <<delivery, connector, provider, retried, crashes>>
Release(h) ==
  /\ handler[h].step \in {"refuse", "release"}
  /\ IF Owns(h)
       THEN SetOutbox(h, "FAILED", FALSE) /\ TurnOver(h)
       ELSE Throw(h) /\ UNCHANGED outbox
  /\ UNCHANGED <<delivery, connector, provider, retried, crashes>>

-------------------------------------------------------------------------------
(* Around the handlers.                                                    *)

\* The process dies, or the database refuses a statement outside the try and the
\* handler throws.
Crash(h) ==
  /\ ~At(h, "idle")
  /\ crashes < MaxCrashes
  /\ crashes' = crashes + 1
  /\ Throw(h)
  /\ UNCHANGED <<outbox, delivery, connector, provider, retried>>

\* `pnpm operator retry-outbox`.  Seeded fault: it does not look at the status.
RetryAnyOutbox(m) ==
  /\ outbox[m].status # "NONE"
  /\ retried[m] < MaxRetries
  /\ retried' = [retried EXCEPT ![m] = @ + 1]
  /\ outbox' = [outbox EXCEPT ![m] = [status |-> "FAILED", by |-> NoOne, due |-> TRUE]]
  /\ UNCHANGED <<delivery, connector, handler, provider, crashes>>
RetryOutbox(m) ==
  /\ outbox[m].status \in {"FAILED", "PROCESSING"}
  /\ retried[m] < MaxRetries
  /\ retried' = [retried EXCEPT ![m] = @ + 1]
  /\ outbox' = [outbox EXCEPT ![m] = [status |-> "FAILED", by |-> NoOne, due |-> TRUE]]
  /\ UNCHANGED <<delivery, connector, handler, provider, crashes>>

\* available_at of a failed row has come.
RetryDelayOver(m) ==
  /\ outbox[m].status = "FAILED"
  /\ ~outbox[m].due
  /\ outbox' = [outbox EXCEPT ![m].due = TRUE]
  /\ UNCHANGED <<delivery, connector, handler, provider, retried, crashes>>

\* circuit_open_until has passed; the count of failures stays.
CircuitDelayOver(c) ==
  /\ connector[c].open
  /\ connector' = [connector EXCEPT ![c].open = FALSE]
  /\ UNCHANGED <<outbox, delivery, handler, provider, retried, crashes>>

ConfigureConnector(c, enabled) ==
  /\ connector' = [connector EXCEPT ![c].enabled = enabled]
  /\ UNCHANGED <<outbox, delivery, handler, provider, retried, crashes>>

\* What a handler does by itself once it runs.
HandlerStep(h) ==
  \/ Claim(h) \/ (\E m \in Messages : TakeUp(h, m)) \/ NextTopic(h)
  \/ CheckConnector(h) \/ InsertDelivery(h) \/ InspectDelivery(h) \/ ReopenDelivery(h)
  \/ Accept(h) \/ Refuse(h) \/ LoseAnswer(h)
  \/ RecordSent(h) \/ Complete(h) \/ CompleteReplay(h) \/ RecordFailed(h) \/ Release(h)

Next ==
  \/ \E m \in Messages : Enqueue(m) \/ RetryOutbox(m) \/ RetryDelayOver(m)
  \/ \E h \in Handlers :
       HandlerStep(h) \/ RecordingFails(h) \/ Crash(h) \/ \E job \in JobIds : StartJob(h, job)
  \/ \E c \in Channels :
       CircuitDelayOver(c) \/ \E enabled \in BOOLEAN : ConfigureConnector(c, enabled)

\* The queue starts a job every 15 seconds, a running handler goes on, delays
\* end; and a provider that is asked again and again accepts at last.
Fairness ==
  /\ \A h \in Handlers :
       /\ WF_vars(HandlerStep(h))
       /\ WF_vars(\E job \in JobIds : StartJob(h, job))
  /\ \A m \in Messages :
       /\ WF_vars(RetryDelayOver(m))
       /\ SF_vars(\E h \in Handlers : handler[h].message = m /\ Accept(h))
  /\ \A c \in Channels : WF_vars(CircuitDelayOver(c))

Spec == Init /\ [][Next]_vars
FairSpec == Spec /\ Fairness

-------------------------------------------------------------------------------
(* Properties.                                                             *)

\* The tables' rows and the handlers' memory have their shapes.
TypeOK ==
  /\ outbox \in [Messages -> [status : OutboxStatus, by : JobIds \cup {NoOne}, due : BOOLEAN]]
  /\ delivery \in [Messages -> DeliveryStatus]
  /\ connector \in [Channels -> [enabled : BOOLEAN, failures : 0..FailureLimit, open : BOOLEAN]]
  /\ handler \in [Handlers -> Handler]
  /\ accepted \in [Messages -> 0..2]
  /\ doubtful \subseteq Messages
  /\ retried \in [Messages -> 0..MaxRetries]
  /\ crashes \in 0..MaxCrashes

\* The messages a handler has claimed and not settled.
InHand(h) ==
  handler[h].batch \cup
    IF handler[h].step \in {"idle", "claim", "next"} THEN {} ELSE {handler[h].message}

\* A message in a handler's hand is claimed in that job's name and in no other
\* handler's hand, whatever crashed or was given up: until the operator retries
\* it, which takes the row from a handler that may still be running.
ClaimsAreExclusive ==
  \A h \in Handlers : \A m \in InHand(h) : retried[m] = 0 =>
    /\ outbox[m].status = "PROCESSING" /\ outbox[m].by = handler[h].job
    /\ \A k \in Handlers \ {h} : m \notin InHand(k)

\* A channel message recorded as delivered reached the provider, across crashes
\* before and after the call, retries by the operator and rival handlers.
ChannelDeliveredWasAccepted ==
  \A m \in Messages : IsChannel(m) /\ outbox[m].status = "DELIVERED" => accepted[m] > 0

\* Nobody gets a message twice unless its provider took it and failed to say so,
\* the database would not record that it did, or the operator had it sent again:
\* neither a rival handler nor a process that dies repeats one.
RepeatedForCause ==
  \A m \in Messages : accepted[m] > 1 => m \in doubtful \/ retried[m] > 0

\* A delivered message is never taken up again, not by a late handler either.
DeliveredIsFinal ==
  [][\A m \in Messages : outbox[m].status = "DELIVERED" => outbox'[m] = outbox[m]]_vars

\* Without crashes and retries by hand, and with the connectors enabled for
\* good, every message for which there is a gateway is delivered: refusals,
\* rival jobs and open circuits only delay it.
Deliverable(m) == ~IsChannel(m) \/ TopicOf[m] \in Gateways
EveryMessageDelivered ==
  (/\ [](crashes = 0 /\ \A m \in Messages : retried[m] = 0)
   /\ <>[](\A c \in Channels : connector[c].enabled))
  => \A m \in Messages : Deliverable(m) =>
       (outbox[m].status = "PENDING" ~> outbox[m].status = "DELIVERED")

\* threat-model.md: "External delivery is at-least-once internally".  No handler
\* is still at work on the message.
Unattended(m, h) == \A k \in Handlers \ {h} : m \notin InHand(k)
DeliveredWasAccepted ==
  \A m \in Messages :
    outbox[m].status = "DELIVERED" /\ Unattended(m, NoOne) => accepted[m] > 0
===============================================================================
