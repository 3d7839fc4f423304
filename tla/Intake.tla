-------------------------------- MODULE Intake --------------------------------
(***************************************************************************)
(* What comes in from outside: GitHub's webhooks, messages and commands of *)
(* Telegram, and mails of one thread.  Senders repeat what was not         *)
(* answered, also while the first copy is still being handled; a handler   *)
(* may throw or die after any of its statements.                           *)
(*                                                                         *)
(* Senders are taken as authenticated and below the rate limit: a message  *)
(* turned away changes nothing these tables are read for.  No route calls  *)
(* EmailIntakeService yet; the integration test does.                      *)
(***************************************************************************)
EXTENDS Integers

CONSTANTS
  Webhooks,
  Chats,      \* messages that ask for a task
  Orders,     \* commands: pause, resume, priority, approve, reject
  Mails,      \* all of one thread
  Replies,    \* mails whose subject names OldTask
  OldTask,
  NoTask,
  Receivers,  \* handlers at work
  MaxSent     \* bound: messages sent, copies included

ASSUME IntakeAssumption ==
  /\ Replies \subseteq Mails
  /\ Webhooks \cap (Chats \cup Orders \cup Mails) = {}
  /\ Chats \cap (Orders \cup Mails) = {} /\ Orders \cap Mails = {}
  /\ {OldTask, NoTask} \cap (Chats \cup Mails) = {} /\ OldTask # NoTask
  /\ MaxSent \in Nat

\* A task is named by the message it was created from.
TaskOf == Chats \cup Mails \cup {OldTask, NoTask}
Arrivals == Webhooks \cup Chats \cup Orders \cup Mails

VARIABLES
  sent,      \* messages so far
  seen,      \* webhook_deliveries.status
  incoming,  \* incoming_messages: whether recorded, and for which task
  thread,    \* email_threads.task_id of the one thread
  receipt,   \* by handler: the message in its hands
  queued,    \* messages a job was sent for
  accepted,  \* messages answered with success
  acted      \* history: commands executed, tasks created, replies noted

intakeVars == <<sent, seen, incoming, thread, receipt, queued, accepted, acted>>

Unseen == [recorded |-> FALSE, task |-> NoTask]
IncomingRow == [recorded : BOOLEAN, task : TaskOf]
NoReceipt == [at |-> "none"]
ReceiptRow == [of : Arrivals, at : {"start", "prior", "send", "settle", "undo", "act", "bind",
                                    "join", "attach"},
               task : TaskOf, fresh : BOOLEAN]

Receiving(h) == receipt[h] # NoReceipt
Holding(h, messages, at) == Receiving(h) /\ receipt[h].of \in messages /\ receipt[h].at = at

\* A handler is done with its message, or goes on to its next statement.
EndReceipt(h) == receipt' = [receipt EXCEPT ![h] = NoReceipt]
Accept(h) == EndReceipt(h) /\ accepted' = accepted \cup {receipt[h].of}
GoOn(h, at) == receipt' = [receipt EXCEPT ![h].at = at] /\ UNCHANGED accepted
TakeUp(m) == acted' = [acted EXCEPT ![m] = @ + 1]

-------------------------------------------------------------------------------
IntakeInit ==
  /\ sent = 0
  /\ seen = [d \in Webhooks |-> "none"]
  /\ incoming = [m \in Arrivals \ Webhooks |-> Unseen]
  /\ thread = NoTask
  /\ receipt = [h \in Receivers |-> NoReceipt]
  /\ queued = {} /\ accepted = {}
  /\ acted = [m \in Arrivals \ Webhooks |-> 0]

Arrive(h, m) ==
  /\ ~Receiving(h) /\ sent < MaxSent
  /\ sent' = sent + 1
  /\ receipt' = [receipt EXCEPT ![h] =
       [of |-> m, at |-> "start", task |-> NoTask, fresh |-> TRUE]]
  /\ UNCHANGED <<seen, incoming, thread, queued, accepted, acted>>

\* The handler throws or its process dies, and the sender hears no success.
Abandon(h) ==
  /\ Receiving(h)
  /\ EndReceipt(h)
  /\ UNCHANGED <<sent, seen, incoming, thread, queued, accepted, acted>>

-------------------------------------------------------------------------------
(* GitHubWebhookService.accept.                                            *)

InsertDelivery(h, d) ==
  /\ Holding(h, {d}, "start")
  /\ seen' = [seen EXCEPT ![d] = IF @ = "none" THEN "RECEIVED" ELSE @]
  /\ GoOn(h, IF seen[d] = "none" THEN "send" ELSE "prior")
  /\ UNCHANGED <<sent, incoming, thread, queued, acted>>

\* Seeded fault: a delivery on record is taken for done.
OnRecord(d) == seen[d] # "none"
AlreadyDone(d) == seen[d] = "PROCESSED"

ReadPrior(h, d) ==
  /\ Holding(h, {d}, "prior")
  /\ IF AlreadyDone(d) THEN Accept(h) ELSE GoOn(h, "send")
  /\ UNCHANGED <<sent, seen, incoming, thread, queued, acted>>

\* The job of a webhook, or the planning job of a chat's task, under its own
\* idempotency key; or the queue refuses, and a webhook is marked as failed.
SendJob(h) ==
  /\ Holding(h, Webhooks \cup Chats, "send")
  /\ LET m == receipt[h].of IN
     \/ /\ queued' = queued \cup {m}
        /\ IF m \in Webhooks THEN GoOn(h, "settle") ELSE Accept(h)
     \/ m \in Webhooks /\ GoOn(h, "undo") /\ UNCHANGED queued
  /\ UNCHANGED <<sent, seen, incoming, thread, acted>>

MarkProcessed(h, d) ==
  /\ Holding(h, {d}, "settle")
  /\ \/ seen' = [seen EXCEPT ![d] = "PROCESSED"] /\ Accept(h)
     \/ GoOn(h, "undo") /\ UNCHANGED seen
  /\ UNCHANGED <<sent, incoming, thread, queued, acted>>

\* Whatever another copy has marked meanwhile.
MarkFailed(h, d) ==
  /\ Holding(h, {d}, "undo")
  /\ seen' = [seen EXCEPT ![d] = "FAILED"]
  /\ EndReceipt(h)
  /\ UNCHANGED <<sent, incoming, thread, queued, accepted, acted>>

-------------------------------------------------------------------------------
(* TelegramProcessor.process, and the task a chat or a mail asks for.      *)

\* TaskService.createInboxTask, one transaction: a message on record for no task
\* is a conflict, which throws (Abandon).
CreateInboxTask(h, next) ==
  LET m == receipt[h].of IN
  /\ ~incoming[m].recorded \/ incoming[m].task # NoTask
  /\ IF incoming[m].recorded THEN UNCHANGED <<incoming, acted>>
     ELSE incoming' = [incoming EXCEPT ![m] = [recorded |-> TRUE, task |-> m]] /\ TakeUp(m)
  /\ receipt' = [receipt EXCEPT ![h].at = next, ![h].task = incoming'[m].task]
  /\ UNCHANGED <<sent, seen, thread, queued, accepted>>

ProcessTask(h) == Holding(h, Chats, "start") /\ CreateInboxTask(h, "send")

\* IncomingMessageService.record: an insert, or nothing on conflict.
RecordIncoming(m) == incoming' = [incoming EXCEPT ![m].recorded = TRUE]

\* A command on record is answered as already processed, executed or not.
RecordCommand(h, m) ==
  /\ Holding(h, {m}, "start")
  /\ RecordIncoming(m)
  /\ IF incoming[m].recorded THEN Accept(h) ELSE GoOn(h, "act")
  /\ UNCHANGED <<sent, seen, thread, queued, acted>>

ExecuteCommand(h, m) ==
  /\ Holding(h, {m}, "act")
  /\ TakeUp(m) /\ Accept(h)
  /\ UNCHANGED <<sent, seen, incoming, thread, queued>>

-------------------------------------------------------------------------------
(* EmailIntakeService.ingest.                                              *)

\* The thread's task, then the task the subject names: they must not differ.
Subjects(m) == IF m \in Replies THEN OldTask ELSE NoTask

Correlate(h, m) ==
  /\ Holding(h, {m}, "start")
  /\ NoTask \in {thread, Subjects(m)} \/ thread = Subjects(m)
  /\ receipt' = [receipt EXCEPT ![h].at = "act",
                   ![h].task = IF thread # NoTask THEN thread ELSE Subjects(m)]
  /\ UNCHANGED <<sent, seen, incoming, thread, queued, accepted, acted>>

RecordReply(h, m) ==
  /\ Holding(h, {m}, "act") /\ receipt[h].task # NoTask
  /\ RecordIncoming(m)
  /\ receipt' = [receipt EXCEPT ![h].at = "bind", ![h].fresh = ~incoming[m].recorded]
  /\ UNCHANGED <<sent, seen, thread, queued, accepted, acted>>

\* One transaction: the message's task, the event of a message not recorded
\* before, the thread unless there is one.
BindReply(h, m) ==
  /\ Holding(h, {m}, "bind")
  /\ incoming' = [incoming EXCEPT ![m].task = receipt[h].task]
  /\ IF receipt[h].fresh THEN TakeUp(m) ELSE UNCHANGED acted
  /\ thread' = IF thread = NoTask THEN receipt[h].task ELSE thread
  /\ GoOn(h, "attach")
  /\ UNCHANGED <<sent, seen, queued>>

CreateFromMail(h) ==
  Holding(h, Mails, "act") /\ receipt[h].task = NoTask /\ CreateInboxTask(h, "join")

\* On conflict the thread another mail has opened stays, and the attachments of
\* this one name a thread that does not exist.
OpenThread(h, m) ==
  /\ Holding(h, {m}, "join")
  /\ thread' = IF thread = NoTask THEN receipt[h].task ELSE thread
  /\ GoOn(h, "attach")
  /\ UNCHANGED <<sent, seen, incoming, queued, acted>>

\* A mail without attachments, or whose thread exists: others end in Abandon.
Attach(h, m) ==
  /\ Holding(h, {m}, "attach")
  /\ Accept(h)
  /\ UNCHANGED <<sent, seen, incoming, thread, queued, acted>>

IntakeNext ==
  \E h \in Receivers :
    \/ \E m \in Arrivals : Arrive(h, m)
    \/ Abandon(h) \/ SendJob(h) \/ ProcessTask(h) \/ CreateFromMail(h)
    \/ \E d \in Webhooks :
         InsertDelivery(h, d) \/ ReadPrior(h, d) \/ MarkProcessed(h, d) \/ MarkFailed(h, d)
    \/ \E m \in Orders : RecordCommand(h, m) \/ ExecuteCommand(h, m)
    \/ \E m \in Mails : Correlate(h, m) \/ RecordReply(h, m) \/ BindReply(h, m)
                        \/ OpenThread(h, m) \/ Attach(h, m)

IntakeSpec == IntakeInit /\ [][IntakeNext]_intakeVars

-------------------------------------------------------------------------------
(* Properties.                                                             *)

IntakeTypeOK ==
  /\ sent \in 0 .. MaxSent
  /\ seen \in [Webhooks -> {"none", "RECEIVED", "PROCESSED", "FAILED"}]
  /\ incoming \in [Arrivals \ Webhooks -> IncomingRow]
  /\ thread \in TaskOf
  /\ receipt \in [Receivers -> ReceiptRow \cup {NoReceipt}]
  /\ queued \subseteq Webhooks \cup Chats
  /\ accepted \subseteq Arrivals
  /\ acted \in [Arrivals \ Webhooks -> 0 .. MaxSent]

\* Whoever is told that a webhook or a message was accepted will not send it
\* again, so its job has been sent, whatever the copies before were told and
\* wherever they died; and however many copies are handled at a time, a command
\* is executed, a message made a task, and a mail made a task or noted on one,
\* at most once.
AcceptedIsQueuedOnce ==
  /\ accepted \cap (Webhooks \cup Chats) \subseteq queued
  /\ \A m \in Arrivals \ Webhooks : acted[m] <= 1
===============================================================================
