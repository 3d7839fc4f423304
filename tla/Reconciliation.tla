---------------------------- MODULE Reconciliation ----------------------------
(***************************************************************************)
(* Bringing tasks in line with what happened to their pull requests on     *)
(* GitHub.  A round lists the open pull requests with the status and       *)
(* version of their tasks, then takes them one by one: asks GitHub,        *)
(* decides, looks whether the same decision on the same facts was audited  *)
(* before, moves the task, updates the pull request's row and writes the   *)
(* audit row, each in a statement of its own.  Webhooks and a timer start  *)
(* rounds, which do not look at what the webhook said; the rounds of       *)
(* several jobs and processes run at the same time, and neither GitHub nor *)
(* anyone else who moves tasks waits for them.                             *)
(*                                                                         *)
(* Abstracted: a head is ours or somebody else's; the checks and statuses  *)
(* of a commit are their sum; a deleted branch is only noted and is left   *)
(* out; a task's contract is valid, its other facts are in TaskLifecycle.  *)
(* Audit rows of decisions that change nothing would only keep a round     *)
(* from writing them again and are left out.                               *)
(***************************************************************************)
EXTENDS Integers, TaskStates

CONSTANTS
  PullCount,     \* pull requests, numbered in the order of updated_at
  Jobs,          \* rounds under way at the same time
  MaxMoves,      \* bound: changes others make to the tasks
  MaxEvents,     \* bound: events at GitHub
  MaxCrashes

ASSUME ReconciliationAssumption ==
  /\ PullCount \in Nat \ {0}
  /\ {MaxMoves, MaxEvents, MaxCrashes} \subseteq Nat

VARIABLES
  task,      \* tasks: status and version of the task of each pull request
  pull,      \* pull_requests.state
  github,    \* the pull request, its branch and checks at GitHub
  events,
  moves,     \* changes made by others
  audited,   \* reconciliation_actions: the idempotency keys
  done,      \* observed: the transitions the rounds have made
  touched,   \* history: tasks somebody changed since a round listed them
  job,       \* each round
  crashes

vars == <<task, pull, github, events, moves, audited, done, touched, job, crashes>>
tables == <<task, pull, audited, done, touched>>
outside == <<github, events, moves>>

-------------------------------------------------------------------------------
Pulls == 1..PullCount
PullState == {"NONE", "OPEN", "CLOSED", "MERGED"}
Facts == [state : {"OPEN", "CLOSED"}, merged : BOOLEAN, ours : BOOLEAN,
          checks : {"PENDING", "PASSED", "FAILED"}]
Decision == {"MARK_MERGED", "MARK_CHANGES_REQUESTED", "MARK_PR_READY", "MARK_CI_FAILED",
             "NOOP"}
Acting == Decision \ {"NOOP"}

ReadyForMerge == {"PR_READY", "AWAITING_APPROVAL"}

\* Seeded fault: a merge is looked at before the head.
DecideMergedFirst(status, f) ==
  CASE status \in ReadyForMerge /\ f.merged           -> "MARK_MERGED"
    [] status = "CI" /\ f.checks = "PASSED"            -> "MARK_PR_READY"
    [] OTHER                                           -> "NOOP"
\* Seeded fault: a merge by hand counts only where an approval was awaited.
DecideAfterApproval(status, f) ==
  CASE ~f.ours                                         -> "MARK_CHANGES_REQUESTED"
    [] f.ours /\ status = "AWAITING_APPROVAL" /\ f.merged -> "MARK_MERGED"
    [] f.ours /\ status = "CI" /\ f.checks = "PASSED"   -> "MARK_PR_READY"
    [] OTHER                                           -> "NOOP"
\* decideReconciliation: the first rule that applies.
Decide(status, f) ==
  CASE ~f.ours                                          -> "MARK_CHANGES_REQUESTED"
    [] f.ours /\ status \in ReadyForMerge /\ f.merged    -> "MARK_MERGED"
    [] f.ours /\ status \in ReadyForMerge /\ ~f.merged /\ f.state = "CLOSED"
                                                        -> "MARK_CHANGES_REQUESTED"
    [] f.ours /\ status = "CI" /\ f.checks = "PASSED"    -> "MARK_PR_READY"
    [] f.ours /\ status = "CI" /\ f.checks = "FAILED"    -> "MARK_CI_FAILED"
    [] OTHER                                            -> "NOOP"

TargetOf == [MARK_MERGED |-> "MERGED", MARK_CHANGES_REQUESTED |-> "CHANGES_REQUESTED",
             MARK_PR_READY |-> "PR_READY", MARK_CI_FAILED |-> "FAILED"]
RoleOf == [MARK_MERGED |-> "GITHUB_RECONCILER", MARK_CHANGES_REQUESTED |-> "GITHUB_RECONCILER",
           MARK_PR_READY |-> "CI_RECONCILER", MARK_CI_FAILED |-> "CI_RECONCILER"]
\* What becomes of the pull request's row; most decisions leave it alone.
RowAfter(decision, f, state) ==
  CASE decision = "MARK_MERGED" -> "MERGED"
    [] decision = "MARK_CHANGES_REQUESTED" /\ f.state = "CLOSED" -> "CLOSED"
    [] OTHER -> state

Created == [state |-> "OPEN", merged |-> FALSE, ours |-> TRUE, checks |-> "PENDING"]

\* A row of the round's query, until its turn is over.
Row == [status : Status \cup {"UNLISTED"}, version : Nat]
Unlisted == [status |-> "UNLISTED", version |-> 0]
Job == [step : {"off", "idle", "ask", "look", "act", "row", "audit"},
        rows : [Pulls -> Row], at : Pulls, decision : Decision, facts : Facts]
IdleJob == [step |-> "idle", rows |-> [p \in Pulls |-> Unlisted], at |-> 1,
            decision |-> "NOOP", facts |-> Created]

Key(j) == <<job[j].at, job[j].decision, job[j].facts>>

\* The task has changed; the rounds that have it in their lists do not know.
Touch(p) ==
  touched' = [j \in Jobs |->
    IF job[j].rows[p] = Unlisted THEN touched[j] ELSE touched[j] \cup {p}]

-------------------------------------------------------------------------------
\* Some pull requests have just been published, and their tasks are in CI; some
\* processes are up.  The bound on events may already be used up in part.
Init ==
  /\ pull \in [Pulls -> {"NONE", "OPEN"}]
  /\ task = [p \in Pulls |->
       IF pull[p] = "OPEN" THEN [status |-> "CI", version |-> 1]
       ELSE [status |-> "NONE", version |-> 0]]
  /\ github = [p \in Pulls |-> Created]
  /\ events \in 0..MaxEvents
  /\ moves = 0
  /\ audited = {}
  /\ done = {}
  /\ touched = [j \in Jobs |-> {}]
  /\ job \in [Jobs -> {IdleJob, [IdleJob EXCEPT !.step = "off"]}]
  /\ crashes = 0

-------------------------------------------------------------------------------
(* GitHub: people, bots and CI.                                            *)

Happens(p, facts) ==
  /\ pull[p] # "NONE"
  /\ events < MaxEvents
  /\ events' = events + 1
  /\ github' = [github EXCEPT ![p] = facts]
  /\ UNCHANGED <<tables, moves, job, crashes>>

ChecksReport(p, checks) ==
  /\ github[p].checks # checks
  /\ Happens(p, [github[p] EXCEPT !.checks = checks])

\* Somebody pushes, or puts our head back; CI starts again.
PushHead(p) ==
  /\ github[p].state = "OPEN"
  /\ Happens(p, [github[p] EXCEPT !.ours = ~github[p].ours, !.checks = "PENDING"])

Merge(p) ==
  /\ github[p].state = "OPEN"
  /\ Happens(p, [github[p] EXCEPT !.state = "CLOSED", !.merged = TRUE])

ClosePull(p) ==
  /\ github[p].state = "OPEN"
  /\ Happens(p, [github[p] EXCEPT !.state = "CLOSED"])

Reopen(p) ==
  /\ github[p].state = "CLOSED" /\ ~github[p].merged
  /\ Happens(p, [github[p] EXCEPT !.state = "OPEN"])

-------------------------------------------------------------------------------
(* Everyone else who moves tasks: see TaskLifecycle.  Nobody but the        *)
(* reconcilers says that checks passed or a pull request was merged.        *)

OtherRole == ActorRole \ {"CI_RECONCILER", "GITHUB_RECONCILER", "OPERATOR"}

MoveTask(p, to, role) ==
  /\ moves < MaxMoves
  /\ moves' = moves + 1
  /\ MayMove(task[p].status, to, role, TRUE)
  /\ task' = [task EXCEPT ![p] = [status |-> to, version |-> task[p].version + 1]]
  /\ Touch(p)
  /\ UNCHANGED <<pull, audited, done, github, events, job, crashes>>

\* A pause or a priority.
ChangeTask(p) ==
  /\ task[p].status # "NONE"
  /\ moves < MaxMoves
  /\ moves' = moves + 1
  /\ task' = [task EXCEPT ![p].version = task[p].version + 1]
  /\ Touch(p)
  /\ UNCHANGED <<pull, audited, done, github, events, job, crashes>>

-------------------------------------------------------------------------------
(* ReconciliationService                                                   *)

At(j, step) == job[j].step = step

\* The rows still to come; the job ends with the last one.
\* Seeded fault: it ends one row later.
TurnOverLate(j) ==
  LET p == job[j].at IN
  job' = [job EXCEPT ![j] =
    IF p > PullCount THEN IdleJob
    ELSE [IdleJob EXCEPT !.step = "ask", !.at = p + 1,
                         !.rows = [job[j].rows EXCEPT ![p] = Unlisted]]]
TurnOver(j) ==
  LET p == job[j].at IN
  job' = [job EXCEPT ![j] =
    IF p = PullCount THEN IdleJob
    ELSE [IdleJob EXCEPT !.step = "ask", !.at = p + 1,
                         !.rows = [job[j].rows EXCEPT ![p] = Unlisted]]]

\* The open pull requests, with what their tasks are like now.
ListOpenPullRequests(j) ==
  /\ At(j, "idle")
  /\ job' = [job EXCEPT ![j] = [IdleJob EXCEPT !.step = "ask",
       !.rows = [p \in Pulls |->
         IF pull[p] = "OPEN" THEN [status |-> task[p].status, version |-> task[p].version]
         ELSE Unlisted]]]
  /\ touched' = [touched EXCEPT ![j] = {}]
  /\ UNCHANGED <<task, pull, audited, done, outside, crashes>>

SkipUnlisted(j) ==
  /\ At(j, "ask")
  /\ job[j].rows[job[j].at] = Unlisted
  /\ TurnOver(j)
  /\ UNCHANGED <<tables, outside, crashes>>

\* GitHub's facts, and what they mean for the status the query returned.
AskGitHub(j) ==
  LET p == job[j].at IN
  /\ At(j, "ask")
  /\ job[j].rows[p] # Unlisted
  /\ job' = [job EXCEPT ![j].step = "look", ![j].facts = github[p],
                        ![j].decision = Decide(job[j].rows[p].status, github[p])]
  /\ UNCHANGED <<tables, outside, crashes>>

\* The same decision on the same facts is not acted on twice, whenever that was.
\* Seeded fault: the audit row is written before the task is moved.
LookAndAudit(j) ==
  /\ At(j, "look")
  /\ IF job[j].decision \in Acting /\ Key(j) \notin audited
       THEN /\ job' = [job EXCEPT ![j].step = "act"]
            /\ audited' = audited \cup {Key(j)}
       ELSE TurnOver(j) /\ UNCHANGED audited
  /\ UNCHANGED <<task, pull, done, touched, outside, crashes>>
LookForAudit(j) ==
  /\ At(j, "look")
  /\ IF job[j].decision \in Acting /\ Key(j) \notin audited
       THEN job' = [job EXCEPT ![j].step = "act"]
       ELSE TurnOver(j)
  /\ UNCHANGED <<tables, outside, crashes>>

\* TaskService.transition accepts the move of a row read this round.
\* Seeded fault: it looks at the status only.
AcceptedByStatus(j) ==
  LET p == job[j].at
      seen == job[j].rows[p]
  IN
  /\ task[p].status = seen.status
  /\ MayMove(task[p].status, TargetOf[job[j].decision], RoleOf[job[j].decision], TRUE)
Accepted(j) ==
  LET p == job[j].at
      seen == job[j].rows[p]
  IN
  /\ task[p].status = seen.status /\ task[p].version = seen.version
  /\ MayMove(task[p].status, TargetOf[job[j].decision], RoleOf[job[j].decision], TRUE)

\* A refused transition throws: the round ends, the rows after this one wait.
Act(j) ==
  LET p == job[j].at IN
  /\ At(j, "act")
  /\ IF Accepted(j)
       THEN /\ task' = [task EXCEPT ![p] = [status |-> TargetOf[job[j].decision],
                                           version |-> task[p].version + 1]]
            /\ done' = done \cup {Key(j)}
            /\ Touch(p)
            /\ job' = [job EXCEPT ![j].step = "row"]
       ELSE /\ job' = [job EXCEPT ![j] = IdleJob]
            /\ UNCHANGED <<task, done, touched>>
  /\ UNCHANGED <<pull, audited, outside, crashes>>

\* By task id alone, whatever the row has become meanwhile.
UpdatePullRequest(j) ==
  LET p == job[j].at IN
  /\ At(j, "row")
  /\ pull' = [pull EXCEPT ![p] = RowAfter(job[j].decision, job[j].facts, pull[p])]
  /\ job' = [job EXCEPT ![j].step = "audit"]
  /\ UNCHANGED <<task, audited, done, touched, outside, crashes>>

WriteAudit(j) ==
  /\ At(j, "audit")
  /\ audited' = audited \cup {Key(j)}
  /\ TurnOver(j)
  /\ UNCHANGED <<task, pull, done, touched, outside, crashes>>

\* The process stops, GitHub does not answer or the database refuses a statement.
Crash(j) ==
  /\ job[j].step \notin {"off", "idle"}
  /\ crashes < MaxCrashes
  /\ crashes' = crashes + 1
  /\ job' = [job EXCEPT ![j] = IdleJob]
  /\ UNCHANGED <<tables, outside>>

RoundStep(j) ==
  \/ ListOpenPullRequests(j) \/ SkipUnlisted(j) \/ AskGitHub(j) \/ LookForAudit(j)
  \/ Act(j) \/ UpdatePullRequest(j) \/ WriteAudit(j)

Next ==
  \/ \E p \in Pulls :
       \/ \E checks \in {"PENDING", "PASSED", "FAILED"} : ChecksReport(p, checks)
       \/ PushHead(p) \/ Merge(p) \/ ClosePull(p) \/ Reopen(p)
       \/ \E to \in Transitions[task[p].status], role \in OtherRole : MoveTask(p, to, role)
       \/ ChangeTask(p)
  \/ \E j \in Jobs : RoundStep(j) \/ Crash(j)

Spec == Init /\ [][Next]_vars

\* The maintenance timer starts a round every five minutes; a round goes on.
Fairness == \A j \in Jobs : WF_vars(RoundStep(j))
FairSpec == Spec /\ Fairness

-------------------------------------------------------------------------------
(* Properties.                                                             *)

\* Rows, facts and the rounds' memory have their shapes.
TypeOK ==
  /\ task \in [Pulls -> [status : Status, version : Nat]]
  /\ pull \in [Pulls -> PullState]
  /\ github \in [Pulls -> Facts]
  /\ events \in 0..MaxEvents
  /\ moves \in 0..MaxMoves
  /\ audited \subseteq Pulls \X Acting \X Facts
  /\ done \subseteq Pulls \X Acting \X Facts
  /\ touched \in [Jobs -> SUBSET Pulls]
  /\ job \in [Jobs -> Job]
  /\ crashes \in 0..MaxCrashes

\* A task is MERGED only if GitHub merged the head Praxrail published, not what
\* somebody pushed on top of it, however long the round sat on its facts.
MergedIsTrue ==
  \A p \in Pulls : task[p].status = "MERGED" \/ pull[p] = "MERGED"
    => github[p].merged /\ github[p].ours

\* The audit trail never claims what did not happen: each decision in it that
\* moves a task has moved it, whoever crashed or came first.
AuditedWasDone ==
  audited \subseteq done

\* A round never moves a task that somebody changed after the round had listed
\* it, though it asked GitHub about other pull requests in between and though the
\* task may be back in the status the round read, or only paused.
NoStaleReconciliation ==
  [][\A j \in Jobs : At(j, "act") /\ job'[j].step = "row" => job[j].at \notin touched[j]]_vars

\* A pull request whose head changed while its task is in a status that does not
\* let it go back: its row is refused in every round.
Blocking(p) == pull[p] = "OPEN" /\ ~github[p].ours
               /\ "CHANGES_REQUESTED" \notin Transitions[task[p].status]
Mergeable(p) == pull[p] = "OPEN" /\ github[p].merged /\ github[p].ours
                /\ task[p].status \in ReadyForMerge

\* What was merged by hand is recorded in the end, unless the process dies or a
\* refused row stands before it in every round: rival rounds, stale readings and
\* the audit trail only delay it.
MergeIsRecorded ==
  (/\ \E j \in Jobs : ~At(j, "off")
   /\ [](crashes = 0 /\ \A p \in Pulls : ~Blocking(p)))
  => \A p \in Pulls : Mergeable(p) ~> ~Mergeable(p)
===============================================================================
