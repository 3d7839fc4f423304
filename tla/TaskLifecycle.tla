---------------------------- MODULE TaskLifecycle ----------------------------
(***************************************************************************)
(* The status of a task and everyone who moves it.  TaskService.transition *)
(* refuses a caller whose task has changed since the caller read it        *)
(* (status and version), so that what matters is what lies between reading *)
(* and moving: a person deciding, the planner planning, GitHub answering.  *)
(* A claim, a pause and a new priority are written without such a reading. *)
(*                                                                         *)
(* Abstracted: the contract is whether a valid one is stored; titles,      *)
(* events, priorities' values, attempts; a claim's other conditions (see   *)
(* WorkspaceHandoff and TaskDependencies).  A second planning job for one  *)
(* task, from an update delivered twice, is left out: of two, one is       *)
(* refused as any other late caller is.  Tasks do not affect each other    *)
(* here.                                                                   *)
(***************************************************************************)
EXTENDS Integers, TaskStates

CONSTANTS
  Tasks,
  Callers,        \* requests and reconcilers at work at the same time
  NoTask,
  PlannerRetries, \* jobs.retryLimit: 3
  MaxVersion,     \* bound: changes of one task
  MaxCrashes      \* bound: planning jobs that die halfway

ASSUME LifecycleAssumption ==
  /\ NoTask \notin Tasks \cup Callers
  /\ PlannerRetries \in Nat
  /\ MaxVersion \in Nat
  /\ MaxCrashes \in Nat

VARIABLES
  task,      \* tasks
  request,   \* what each caller has read, until it has acted on it
  planner,   \* the planning job of each task
  disturbed, \* tasks somebody else changed before the planner was through
  crashes

vars == <<task, request, planner, disturbed, crashes>>

-------------------------------------------------------------------------------
TaskRow == [status : Status, version : Nat, contract : BOOLEAN, paused : BOOLEAN,
            archived : BOOLEAN]
\* touched: somebody changed the task after it was read.
Reading == [task : Tasks \cup {NoTask}, status : Status, version : Nat, touched : BOOLEAN]
PlannerJob == [stage : {"none", "unsent", "queued", "read", "refining", "done", "dead"},
               version : Nat, touched : BOOLEAN, retries : 0..PlannerRetries]

NoTaskRow == [status |-> "NONE", version |-> 0, contract |-> FALSE, paused |-> FALSE,
              archived |-> FALSE]
NoReading == [task |-> NoTask, status |-> "NONE", version |-> 0, touched |-> FALSE]
\* A planning job that has read nothing yet, or no more needs what it read.
Job(stage, retries) ==
  [stage |-> stage, version |-> 0, touched |-> FALSE, retries |-> retries]
NoJob == Job("none", PlannerRetries)

\* Nothing happened between the reading and the move.
\* Seeded fault: the statuses are compared, the versions are not.
SameStatus(t, status, version) == task[t].status = status
Unchanged(t, status, version) == task[t].status = status /\ task[t].version = version

\* The update of a transition: contract is a new one's, the stored one stays otherwise.
\* Seeded fault: the contract column takes whatever the caller passed.
SetStatusAndContract(t, to, contract) ==
  /\ task[t].version < MaxVersion
  /\ task' = [task EXCEPT ![t] =
       [@ EXCEPT !.status = to, !.version = task[t].version + 1, !.contract = contract]]
SetStatus(t, to, contract) ==
  /\ task[t].version < MaxVersion
  /\ task' = [task EXCEPT ![t] =
       [@ EXCEPT !.status = to, !.version = task[t].version + 1,
                 !.contract = task[t].contract \/ contract]]

TouchReadings(t, but) ==
  request' = [c \in Callers |->
    IF c = but THEN NoReading
    ELSE IF request[c].task = t THEN [request[c] EXCEPT !.touched = TRUE]
    ELSE request[c]]

\* A change that is not the planner's: the readings of t grow stale.
TouchAll(t, but) ==
  /\ TouchReadings(t, but)
  /\ planner' = [planner EXCEPT ![t].touched = TRUE]
  /\ disturbed' = IF task[t].status \in {"INBOX", "REFINING"}
                    THEN disturbed \cup {t} ELSE disturbed

-------------------------------------------------------------------------------
Init ==
  /\ task = [t \in Tasks |-> NoTaskRow]
  /\ request = [c \in Callers |-> NoReading]
  /\ planner = [t \in Tasks |-> NoJob]
  /\ disturbed = {}
  /\ crashes = 0

NewTask(t) ==
  /\ task[t].status = "NONE"
  /\ task' = [task EXCEPT ![t] = [NoTaskRow EXCEPT !.status = "INBOX", !.version = 1]]

\* ProductService.createTask, for the API: nobody is asked to plan the task.
CreateTask(t) ==
  /\ NewTask(t)
  /\ UNCHANGED <<request, planner, disturbed, crashes>>

\* TelegramProcessor: the task, and the planning job once the task is committed.
\* An update that was not answered comes again and finds the task.
CreateInboxTask(t) ==
  /\ NewTask(t)
  /\ planner' = [planner EXCEPT ![t].stage = "unsent"]
  /\ UNCHANGED <<request, disturbed, crashes>>

SendPlanning(t) ==
  /\ planner[t].stage = "unsent"
  /\ planner' = [planner EXCEPT ![t].stage = "queued"]
  /\ UNCHANGED <<task, request, disturbed, crashes>>

\* getTask, or the reconciler's query: the caller now decides.
Read(c, t) ==
  /\ request[c] = NoReading
  /\ task[t].status # "NONE"
  /\ request' = [request EXCEPT ![c] = [task |-> t, status |-> task[t].status,
                                        version |-> task[t].version, touched |-> FALSE]]
  /\ UNCHANGED <<task, planner, disturbed, crashes>>

\* TaskService.transition with what the caller read; nobody but the planner
\* brings a contract.
Transition(c, to, role) ==
  LET t == request[c].task IN
  /\ t # NoTask
  /\ Unchanged(t, request[c].status, request[c].version)
  /\ MayMove(task[t].status, to, role, task[t].contract)
  /\ SetStatus(t, to, FALSE)
  /\ TouchAll(t, c)
  /\ UNCHANGED crashes

\* controlTask: cancel, abandon and retry, each with its own look at the status.
ControlTarget(action, status) ==
  CASE action = "cancel" -> {"CANCELLED"}
    [] action = "abandon" -> IF status \in {"BLOCKED", "FAILED", "CANCELLED"}
                               THEN {"ABANDONED"} ELSE {}
    [] action = "retry" -> IF status = "FAILED" THEN {"READY"} ELSE {}
ControlTask(c, action, role) ==
  \E to \in ControlTarget(action, request[c].status) : Transition(c, to, role)

\* The caller is refused, or gives up.
Refused(c) ==
  /\ request[c] # NoReading
  /\ request' = [request EXCEPT ![c] = NoReading]
  /\ UNCHANGED <<task, planner, disturbed, crashes>>

\* Seeded fault: archiving does not look at the status.
ArchiveAny(c) ==
  LET t == request[c].task IN
  /\ t # NoTask
  /\ task' = [task EXCEPT ![t].archived = TRUE]
  /\ request' = [request EXCEPT ![c] = NoReading]
  /\ UNCHANGED <<planner, disturbed, crashes>>

\* archive: what it read is not compared with the row again.
Archive(c) ==
  LET t == request[c].task IN
  /\ request[c].status \in Terminal
  /\ task' = [task EXCEPT ![t].archived = TRUE]
  /\ request' = [request EXCEPT ![c] = NoReading]
  /\ UNCHANGED <<planner, disturbed, crashes>>

\* setPaused and setPriority change the version in any status.
SetPaused(t, paused) ==
  /\ task[t].status # "NONE"
  /\ task[t].version < MaxVersion
  /\ task' = [task EXCEPT ![t] = [@ EXCEPT !.paused = paused, !.version = task[t].version + 1]]
  /\ TouchAll(t, NoTask)
  /\ UNCHANGED crashes

SetPriority(t) ==
  /\ task[t].status # "NONE"
  /\ task[t].version < MaxVersion
  /\ task' = [task EXCEPT ![t].version = @ + 1]
  /\ TouchAll(t, NoTask)
  /\ UNCHANGED crashes

\* WorkerRegistryService.claim writes the row itself, under its lock.
Claim(t) ==
  /\ task[t].status = "READY"
  /\ ~task[t].paused
  /\ SetStatus(t, "BUILDING", FALSE)
  /\ TouchAll(t, NoTask)
  /\ UNCHANGED crashes

-------------------------------------------------------------------------------
(* PlannerService.refine, a job that is run again when it throws.          *)

\* Seeded fault: the limit is compared after it was passed.
ThrowOnceMore(t) ==
  planner' = [planner EXCEPT ![t] =
    Job(IF planner[t].retries + 1 = 0 THEN "dead" ELSE "queued", planner[t].retries - 1)]
Throw(t) ==
  planner' = [planner EXCEPT ![t] =
    IF planner[t].retries = 0 THEN Job("dead", 0)
    ELSE Job("queued", planner[t].retries - 1)]

ReadInbox(t) ==
  /\ planner[t].stage = "queued"
  /\ planner' = [planner EXCEPT ![t] =
       [@ EXCEPT !.stage = "read", !.version = task[t].version, !.touched = FALSE]]
  /\ UNCHANGED <<task, request, disturbed, crashes>>

\* Seeded fault: the version read first is kept for the second transition.
StartRefiningOldVersion(t) ==
  /\ planner[t].stage = "read"
  /\ IF Unchanged(t, "INBOX", planner[t].version)
       THEN /\ SetStatus(t, "REFINING", FALSE)
            /\ planner' = [planner EXCEPT ![t].stage = "refining"]
            /\ TouchReadings(t, NoTask)
       ELSE Throw(t) /\ UNCHANGED <<task, request>>
  /\ UNCHANGED <<disturbed, crashes>>
StartRefining(t) ==
  /\ planner[t].stage = "read"
  /\ IF Unchanged(t, "INBOX", planner[t].version)
       THEN /\ SetStatus(t, "REFINING", FALSE)
            /\ planner' = [planner EXCEPT ![t] =
                 [@ EXCEPT !.stage = "refining", !.version = task'[t].version]]
            /\ TouchReadings(t, NoTask)
       ELSE Throw(t) /\ UNCHANGED <<task, request>>
  /\ UNCHANGED <<disturbed, crashes>>

\* The plan is a contract, or a question that blocks the task.
FinishRefining(t, contract) ==
  /\ planner[t].stage = "refining"
  /\ IF Unchanged(t, "REFINING", planner[t].version)
       THEN /\ SetStatus(t, IF contract THEN "READY" ELSE "BLOCKED", contract)
            /\ planner' = [planner EXCEPT ![t] = Job("done", PlannerRetries)]
            /\ TouchReadings(t, NoTask)
       ELSE Throw(t) /\ UNCHANGED <<task, request>>
  /\ UNCHANGED <<disturbed, crashes>>

\* The process stops, or a statement between the transitions fails.
PlannerCrash(t) ==
  /\ planner[t].stage \in {"read", "refining"}
  /\ crashes < MaxCrashes
  /\ crashes' = crashes + 1
  /\ Throw(t)
  /\ UNCHANGED <<task, request, disturbed>>

PlannerStep(t) ==
  \/ SendPlanning(t)
  \/ ReadInbox(t)
  \/ StartRefining(t)
  \/ \E contract \in BOOLEAN : FinishRefining(t, contract)

Next ==
  \/ \E t \in Tasks :
       \/ CreateTask(t)
       \/ CreateInboxTask(t)
       \/ \E paused \in BOOLEAN : SetPaused(t, paused)
       \/ SetPriority(t)
       \/ Claim(t)
       \/ PlannerStep(t)
       \/ PlannerCrash(t)
  \/ \E c \in Callers :
       \/ \E t \in Tasks : Read(c, t)
       \/ \E to \in Transitions[request[c].status], role \in ActorRole : Transition(c, to, role)
       \/ \E action \in {"cancel", "abandon", "retry"}, role \in {"OWNER", "DEVELOPER", "OPERATOR"} :
            ControlTask(c, action, role)
       \/ Refused(c)
       \/ Archive(c)

Spec == Init /\ [][Next]_vars

\* Telegram delivers an update until it is answered, and the queue runs a job it
\* holds; nobody else has to do anything.
FairSpec == Spec /\ \A t \in Tasks : WF_vars(PlannerStep(t))

-------------------------------------------------------------------------------
(* Properties.                                                             *)

\* The rows and the readers' memory have their shapes.
TypeOK ==
  /\ task \in [Tasks -> TaskRow]
  /\ request \in [Callers -> Reading]
  /\ planner \in [Tasks -> PlannerJob]
  /\ disturbed \subseteq Tasks
  /\ crashes \in 0..MaxCrashes

\* A task never reaches a worker, a review or a release without a valid
\* contract: it enters READY with one, and no later update loses it.
WorkHasContract == \A t \in Tasks : task[t].status \in Contracted => task[t].contract

\* An archived task is over, though archiving acts on a reading that may be old.
ArchivedIsTerminal == \A t \in Tasks : task[t].archived => task[t].status \in Terminal

\* A verified, cancelled, abandoned or superseded task is never brought back, by
\* a late planner, a claim, a retry or a caller who read it earlier.
TerminalIsFinal ==
  [][\A t \in Tasks : task[t].status \in Terminal => task'[t].status = task[t].status]_vars

\* Nobody moves a task that changed since they read it, not even if it is back
\* in the status they saw: a retry decided on one failure never retries another.
NoStaleMove ==
  [][\A t \in Tasks : task'[t].status # task[t].status =>
       /\ \A c \in Callers : request[c].task = t /\ request'[c] = NoReading
            => ~request[c].touched
       /\ planner[t].stage = "read" /\ planner'[t].stage = "refining"
            => ~planner[t].touched
       /\ planner[t].stage = "refining" /\ planner'[t].stage = "done"
            => ~planner[t].touched]_vars

\* A task from Telegram whose planning nobody disturbs and no crash interrupts is
\* planned.
UndisturbedIsPlanned ==
  [](crashes = 0 /\ disturbed = {})
  => \A t \in Tasks :
       planner[t].stage = "unsent" ~> task[t].status \notin {"INBOX", "REFINING"}

\* ADR 0002: durable state "makes process restarts and provider retries ordinary
\* cases instead of special recovery paths".
PlanningSurvivesRestart ==
  [](disturbed = {})
  => \A t \in Tasks : task[t].status = "REFINING" ~> task[t].status # "REFINING"
===============================================================================
