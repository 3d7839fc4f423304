# A verification of Praxrail's control plane

Praxrail is a TypeScript control plane over PostgreSQL. It takes requests for
changes to repositories, turns each into a task with a contract, lets workers
(coding agents) and humans write the task's worktree in turn, verifies, reviews
and publishes the result as a pull request, follows it on GitHub and tells people
about it. It keeps nearly all of its state in tables. Its processes are an HTTP
server, pg-boss job handlers in the same or in other processes, remote workers
calling the API, and operators at a shell. What can go wrong lies between the
transactions, and that is what these modules are about.

Paths are relative to the repository's root (`src/src/...` in `PROJECT.json`).

## 1. Inventory

| Component | State | Operations | Interacts with |
|---|---|---|---|
| Worker registry (`src/workers/worker-registry-service.ts`) | `workers`, `worker_assignments` | register, heartbeat, setStatus, claim, recoverExpired | claims tasks, takes `repository_locks`, creates `workspace_ownerships` |
| Workspace ownership (`src/workspaces/workspace-ownership-service.ts`, `packages/core/src/workspace.ts`) | `workspace_ownerships` | bindGitRef, requestAttach, acknowledgeAgentPaused, returnToAgent, resumeAgent, recover | assignments, repository locks, Git |
| Operator recovery (`src/recovery/cleanup-service.ts`) | `operator_actions` | release-lock, retry-outbox, cleanup | locks, outbox, worktrees |
| Outbox (`src/services/outbox-service.ts`) | `outbox_events` | enqueue, claim, complete, fail | everyone who notifies |
| Dispatcher, channel delivery (`src/notifications`, `src/communications/channel-delivery-service.ts`) | `notification_deliveries`, `connector_states` | queue, deliverBatch, deliver | outbox, providers, circuit breaker |
| Queue and runtime (`src/jobs/queue.ts`, `src/runtime.ts`) | pg-boss | send, work, the 15 s timer | all handlers |
| Task service (`src/services/task-service.ts`, `src/domain`) | `tasks`, `task_dependencies`, `task_events` | createInboxTask, transition, setPaused, setPriority, add/removeDependency, saveProposal | everyone |
| Planner (`src/planner`) | `planner_runs` | refine | task service, queue |
| Product service (`src/product/product-service.ts`) | projects, repositories, goals, identities | createTask, controlTask, configureConnector, ... | task service, channels |
| Verification, review, publishing (`src/verification`, `src/agents`, `src/publishing`) | `verification_runs`, `review_runs`, `pull_requests`, `git_refs` | run, review, publish | the worktree, Git, GitHub |
| Reconciliation (`src/recovery/reconciliation-service.ts`) | `reconciliation_actions` | reconcileOpenPullRequests | task service, GitHub, queue |
| Approvals, deployment (`src/services/approval-service.ts`, `src/deployment`) | `approvals`, `deployments`, `incidents` | request, decide, deploy | adapter |
| Idempotent requests (`packages/client/src/client.ts`, `src/api/routes.ts`, `src/services/idempotency-service.ts`) | `idempotency_keys`, the rate window | request with retries, begin, complete, fail | every route that changes something |
| API tokens (`src/api/auth-service.ts`) | `api_tokens` | provisionBootstrap, authenticate, rotate, revoke | start-up, every request |
| Remote actions (`src/communications/remote-action-service.ts`) | `channel_identities`, `remote_action_grants` | issueGrant, execute | product service |
| Intake (`src/integrations`, `src/services/incoming-message-service.ts`, `src/http/app.ts`) | `webhook_deliveries`, `incoming_messages`, `email_threads` | accept, process, record, ingest | task service, queue |
| Worktrees (`src/repositories/worktree-service.ts`, `src/jobs/repository-lock.ts`, `CleanupService`) | `git_refs`, directories, branches | create, cleanup, cleanupTerminalWorktrees | repository locks, Git |
| Onboarding (`src/repositories/registry-service.ts`, product service) | `repositories`, `repository_onboarding_reports` | register, inspect, approve, disable, remove | createTask |
| Runtime process (`src/runtime/process-lock.ts`, `src/index.ts`, `packages/cli/src/lifecycle.ts`) | PID file, socket | acquire, release, start-up, shutdown, start, stop | the operating system |
| Event streams (`src/runtime/event-stream-service.ts`, client) | `task_events`, `task_output_chunks`, cursors | events, output, appendOutput, watch | whoever appends events |
| Profiles (`packages/client/src/profiles.ts`, CLI) | `profiles.json` | save, use, remove | login, logout, start |
| The rest: policies, permissions, reports, CLI text, migrations, configuration, redaction | | parsing, formatting, queries | |

What makes each component correct:

* **Hand-off.** One writer per repository; whoever controls a workspace holds the
  repository lock under the newest fencing token; tokens only grow; a human owns
  a worktree only after the agent stopped; revocation is final.
* **Delivery.** No two handlers hold a message; what is recorded as delivered was
  accepted by a provider; repeats have a cause; messages are delivered in the end.
* **Tasks.** A decision made on an old reading has no effect; a finished task
  stays finished; work happens under a contract; a task is planned; dependencies
  have no cycle.
* **Release path.** What is published is what was reviewed, and never what was
  rejected first; the internal record follows GitHub through crashes.
* **Authority.** A grant, a message, an idempotency key, an approval lets one thing
  happen once; rotating a token does not multiply it.
* **Edges.** What was answered as accepted is worked on; a reader of a task's events
  misses none of its moves; a worktree in use is not swept away; work is on inspected
  repositories; one process holds the lock, profiles stay usable.

Hard behaviour, with its line, is listed under `hazards` in `PROJECT.json`:
transactions of several actors in every order, reads acted on later, crashes
between statements, late answers under an expired lease, operator interventions
under a running handler, jobs executed twice.

## 2. The modules

| Module | What it models |
|---|---|
| `FencedLock` | Abstract: what a fenced lease promises. |
| `WorkspaceHandoff` | Workers, claims, attach, acknowledge, return, resume, recover, revoke, expiry. Implements `FencedLock`. |
| `WorkspaceHandoffProofs` | Its proofs. |
| `Delivery` | Outbox, both delivery services, circuit breaker, operator's retry. |
| `TaskLifecycle` | Task status and version: planner, callers with old readings, claims, pauses, archive. |
| `TaskLifecycleProofs` | Its proofs. |
| `TaskStates` | The state machine's tables: statuses, transitions, roles. |
| `TaskDependencies` | `addDependency` under READ COMMITTED. |
| `Publication` | One worktree from the builder's digest over checks and reviews to branch, push, pull request and record. |
| `Reconciliation` | GitHub's events and the rounds that bring tasks in line with them; uses `TaskStates`. |
| `RuntimeProcess` | Lock file, socket, start-up, shutdown, start and stop commands. |
| `EventStream` | Sequences, transactions and readers' cursors. |
| `Requests` | The client's retries, rate limit, idempotency keys. |
| `ApiTokens` | Bootstrap, rotation, revocation. |
| `RemoteActions` | Channels, grants, handlers of messages. |
| `Deployment` | Approvals and `deploy`. |
| `Intake` | Webhooks, chats, commands, mails, repeated and concurrent. |
| `Worktrees` | Creating, cleaning up and sweeping worktrees under the repository lock. |
| `Onboarding` | A repository's registration, inspections, approval, removal, tasks. |
| `Profiles` | The CLI's connection profiles. |
| `DeliveryProofs`, `PublicationProofs`, `ReconciliationProofs` | The proofs of these three. |
| `RegistryProofs` | The proofs of `Onboarding`, `Profiles` and `TaskDependencies`. |
| `OnceProofs` | The proofs of `ApiTokens`, `RemoteActions`, `Deployment`, `Intake` and `Requests`: what happens once. |
| `ServicesProofs` | The proofs of `Worktrees`, `RuntimeProcess`, `EventStream`, and of the eleven in `MCServices` together. |
| `MC*` | Instances for TLC: symmetry sets, constants that are functions, initial states, and `MCServices`, the sum of eleven modules. |

Operators named with a comment "Seeded fault" are not part of any
specification: each is the operator that follows it with one plausible mistake in
it, and exists to show that a property would notice that mistake.

### WorkspaceHandoff

Variables are tables: `worker`, `lock` (by repository), `assignment` (the latest
row of each task; an older row is never live), `ownership`, the fencing sequence
`fence`, and `ready`, the tasks with status READY. `now` is the clock. Each action
is one transaction and carries the service method's name. `returnToAgent` is the
exception: it reads the ownership without a lock, runs Git on the worktree, and
then opens its transaction, so it is `BeginReturn`, then `CommitReturn` or
`RefuseReturn`, with what it read in `inspection`.

Abstracted: the caller is the identity that owns the row (identity checks compare
constants of a request with the row); a worker's own token (a worker that was
registered again is refused under the old one: the same outcome as not calling);
profile and repository scope are the constant `Scope`; reasons, events, attempts;
RUNNING, COMPLETED and FAILED assignments, which no code writes. PostgreSQL's and
the processes' clocks are one clock. `Requeue` stands for the ways by which
TaskService brings a claimed task back to READY; its guard is weaker than the
code's, which only adds behaviours.

### Delivery

`deliver` is written as a handler with a program counter (`step`), one step for
each SQL statement or transaction and one for the provider's call. Two handlers
under one job id are pg-boss's second execution of a job whose handler still runs
after 15 minutes (`locked_by` is made of the job id). A crash ends a handler and
leaves its rows; a statement refused by the database outside the `try` does the
same, inside it leads to the catch (`RecordingFails`). The provider accepts,
refuses, or accepts and loses the answer; it has no memory of idempotency keys
(Telegram's gateway sends none). `accepted`, `doubtful`, `retried` and `crashes`
are for the properties and bounds only. Delays (`available_at`,
`circuit_open_until`) are flags that some step clears. The `locked_at` age test
in `claim` is left out because no claimable row has a `locked_at`.

### TaskLifecycle

`task` is the row; `request[c]` is what a caller read, until it acts on it;
`planner[t]` is the task's planning job. `Transition` is `TaskService.transition`
called with any target and role: it covers `controlTask` (also modelled with its
own checks, `ControlTask`), the reconcilers, and the callers later versions
will have for the middle of the table, which nothing in `src/` calls yet. `touched`
in a reading and `disturbed` are history: who changed a task in between.

### TaskDependencies

One transaction is `LockEnds`, `CheckCycle`, `CommitEdge`, with `Rollback` at any
point. The search sees committed edges only. Row locks are taken in one step;
they are taken in the order of ids, so waiting for the second never blocks the
holder of the first, and nothing observable happens in between.

### Publication

`tree` is the worktree with its index; `Write` is anybody who edits files, at any
time. `digest` is what the builder's caller was given, `checks` and `reviews` the
rows, `publisher[p]` a call of `publish` with its step and what it has read. A digest
is the content it is made of, so two digests are equal exactly when the diffs are;
`Diff` leaves out what the command of the code leaves out. A reviewer is given the
diff as `Shown`: of the diffs in `Long`, which do not fit the 500,000 characters of the
prompt, only a beginning (`Cut`), while the digest is of the whole. The branch of the
mirror, the remote and the pull request are separate, each step can throw
(`PublicationFails`), and a publisher that died is one that fails. Neither reviews nor
publishers exclude each other. The second judgement of a digest is refused by the
database, is stored as FAILED and leaves no findings; `rejected` is history: what was
rejected when nobody had passed it. A check compares `git status` with what it was after
the check before (`PriorStatus`).

### Reconciliation

`pull` is the row, `github` what GitHub has, `job[j]` a round with the rows it listed
and the one it is at. `Decide` is `decideReconciliation`; whether its decision moves
the task is `TaskStates!MayMove`. Others move the task meanwhile (`MoveTask`,
`ChangeTask`). A round whose transition is refused throws, which ends it. `done` and
`touched` are history: transitions made, and tasks somebody changed since a round listed
them. Merging is something people do on GitHub: no code here merges.

### The services

* `RuntimeProcess`: an open, a write, a read and an unlink of the lock file are a step
  each; a signal's shutdown runs beside the start-up of the same process. `overlap`
  is history: two starts or stops were under way at once.
* `EventStream`: an id is drawn before its transaction commits; whether an insert
  waits for the task's row before it draws (`SelectTask`, a move) or after
  (`CheckForeignKey`, everything else) decides what a reader can miss.
* `Requests`: `call` is the client, `request` the server's handling, `record` the row
  of the key. `effects` counts operations done, `lapses` leases that ended under one.
* `ApiTokens`, `RemoteActions`, `Deployment`: rows, and requests with what they have
  read; `performed`, `done`, `incidents` are history. A start of the runtime provisions the
  token it is configured with, the one of the last start or another: `due` counts the
  starts that made a token valid, less the revocations.
* `Intake`: `receipt[h]` is the message in a handler's hands, with the statement it is
  at. `Abandon` is a throw or a death at any of them: the sender hears no success.
* `Worktrees`: the fetch prunes, as the command of the code does, so other attempts'
  branches go (`PrepareMirror`); a row whose directory is gone ends every sweep.
* `Onboarding`: `asked[o]` is a request between its read and its write. Ids are drawn
  once: a repository added again has another.
* `Profiles`: a command reads the file in `ReadAndChange` and replaces it in `Rename`.

## 3. What the runs show

| Run | Question | Result |
|---|---|---|
| `workspace_handoff` | Is every controller backed by its lock, alone in its repository, fenced, assigned; is revocation final; do the locks implement `FencedLock`? | holds |
| `handoff_without_ack` | handoff-v1: human ownership only after the agent stopped | **violated**: `recover` from PAUSING |
| `delivery` | Claims exclusive, channel messages delivered were accepted, repeats have a cause, delivered is final | holds |
| `delivery_progress` | Every message with a gateway is delivered in the end | holds |
| `delivery_lost` | threat model: at-least-once delivery | **violated**: SENDING taken for sent |
| `dependency_cycle` | No cycles | **violated** with four tasks, two transactions |
| `task_lifecycle` | No stale move, terminal is final, contracts kept, archives terminal, undisturbed tasks planned | holds |
| `planner_restart` | ADR 0002: restarts are ordinary cases | **violated**: REFINING for ever |
| `publication` | Published is reviewed, a first rejection stands, the record, the branch and GitHub agree | holds |
| `reconciliation` | MERGED only if the published head was; the audit trail is true; no stale move; a merge is recorded in the end | holds |
| `services` | Eleven components, a property each (below) | holds |
| `runtime_lock` | runbook: a second process cannot acquire the lock | **violated**: the file is empty between its creation and its first write, and stale files are removed by name |

`findings` in `PROJECT.json` quotes the sentence each violated run tests.

Why the dispatcher has no counterpart of `ChannelDeliveredWasAccepted`: that is
the property `delivery_lost` violates. The two services read a SENDING row in
opposite ways: the dispatcher may lose a message and does not repeat one after a
crash, the channel service may repeat one at an operator's retry and does not
lose it; both halves are what the runs show.

The run `services`. The eleven modules share no variable and the repository's
code gives them no step in common that these properties depend on. `MCServices`
therefore checks their sum: an initial state chooses the component that moves
(`part`), and the others rest. The state space is the sum of theirs, and each
property is checked over all behaviours of its own module:

| Module | Property | What it excludes |
|---|---|---|
| `TaskDependencies` | `NoShortCycle` | cycles of two or three tasks |
| `RuntimeProcess` | `HolderIsRecorded` | as long as starts and stops do not overlap, a holder its lock file does not name |
| `EventStream` | `MovesReachTheirReader` | a committed move that a reader of its task has passed |
| `Requests` | `RepeatsNeedALapse` | an operation repeated although no lease ran out |
| `ApiTokens` | `TokensAreNotMultiplied` | two tokens from one rotated twice, or none |
| `RemoteActions` | `ActsOnce` | a message or grant that leads to two changes |
| `Deployment` | `DeployedOnceAsApproved` | a key deployed twice, production without its approval |
| `Intake` | `AcceptedIsQueuedOnce` | accepted without a job; a command or reply taken up twice |
| `Worktrees` | `HeldWorktreeStays` | a directory removed under the holder of the lock |
| `Onboarding` | `WorkIsOnInspected` | tasks or writes on what was never found safe |
| `Profiles` | `ProfilesAreUsable` | a current profile that is not there, a token nobody vouched for |

`NoShortCycle` is checked here with three tasks. Each of these properties is also proved,
for any number of everything (section 4).

What these modules show beside their properties, because the code does it: the event
stream may pass output, handoffs and clarifications that commit late, and any event for
one who watches all tasks; a command of Telegram or of a mail is lost when the handler
dies between recording and executing it; a deployment whose caller died stays PENDING or
RUNNING; a repeated `deploy` under another key uses the same approval; of two CLI
commands at once one change is lost; two first mails of a thread make two tasks; a
review that rejects what another has passed leaves neither its verdict nor its findings,
and stops no publication; of a diff longer than 500,000 characters the end is published
though no reviewer was given it (`PublishedIsReviewed` says what a reviewer was given
only of diffs that `Fits`; the prompt's sentence "Review the exact base-to-head diff",
`prompts.ts:50`, is not true of the others); a start under another bootstrap token
leaves the former ones valid; a row that reconciliation is refused, or a sweep throws
at, stands before all rows behind it (for reconciliation this is a premise of
`MergeIsRecorded`, `Blocking`).

### Bounds

* `workspace_handoff`: two tasks in one repository, two workers, one human who is
  operator; leases of 1 and 2 ticks, clock to 2, four tokens. Contention for one
  repository needs two tasks; take-over needs a second worker; a lease that is
  longer than the lock's needs two lengths; four tokens are a registration, a
  claim, and two of hand-off, resumption, recovery or second claim. The theorems
  have no bounds.
* `delivery`: a dispatcher's and a channel's message, two handlers, one job id, a
  crash or failed statement, one retry per message; `FailureLimit` is 2 for 5 so
  that the circuit opens. Batches hold at most one message of each topic here;
  a batch only orders messages one after the other in one handler, and crash and
  exclusion concern each of them alone.
* `delivery_progress`: the same without crashes and retries, which the property
  excludes; connectors are enabled and disabled, circuits open.
* `dependency_cycle`: four tasks, three connections: the shortest cycle the row
  locks do not exclude has four tasks.
* `task_lifecycle`: tasks do not interact in this module, so one is enough; two
  callers, so that one can act between another's reading and moving; nine
  versions, enough for planned - claimed - failed - retried - failed again and
  for a decision on the first failure to arrive then. `planner_restart`
  has the real three retries.

* `publication`: a tracked and an added file with two contents, two writes, one check,
  two reviews, two publishers, five names of commits (a name nobody refers to is used
  again). Two writes suffice to change a file and change it back; the second review
  is the one that disagrees. The diffs with a changed added file are too long
  (`AddedIsLong`), so that both kinds occur.
* `reconciliation`: two pull requests with one round at a time, or one with two rounds
  at the same time and one event less; three events at GitHub (checks, merge or push,
  a change after it), one move by others, one crash. Blocking and order need two
  rows, races need two rounds; no property needs both.
* `services`: two of whatever races (processes and a terminal, writers, calls of one
  key, requests of one token, handlers, deployers, receivers, builders, callers, shells),
  three requests for tokens, since a rotated token can be rotated. One key, one
  grant, one approval, one chat, one order: those of different names do not interact. Four
  messages sent are two copies of each of two, or four of one; two locks taken are
  a holder and its successor; two ids of a repository are one and the one it
  is added again under, and three inspections two that race and one between.

Deadlock is not checked: bounded clocks and counters stop every model.

### Fairness

`workspace_handoff`, `publication` and `services` are safety only; no code forces a
worker, a human or a caller to go on, and expiry is recovered at start-up only.

`Delivery!Fairness`: a running handler takes its next step and a job is started
again (the 15 second timer of `startRuntime`), delays end, and a provider asked
over and over accepts at some point (strong fairness of `Accept` for each message
by any handler): the code retries without limit, which is only of use under that
assumption. Commands of people have no fairness.

`TaskLifecycle!FairSpec`: the queue runs a planning job it holds, a handler that
runs goes on, and Telegram delivers an update until it is answered. Crashes
have no fairness. `planner_restart` uses the same, so its counterexample
is not a system that merely stopped: the job has been run until it was dead.

`Reconciliation!Fairness`: a round that has begun takes its next step, and a new one
begins (the five-minute bucket of the maintenance timer). People, GitHub and crashes have
none; `MergeIsRecorded` assumes no crash and no refused row, and says so.

## 4. What is proved

TLAPS proves every invariant of every run that is expected to pass, every action property
of those runs and the refinement of `FencedLock`, for every value of the constants that
satisfies the named assumptions; TLC evaluates these on the instances of section 3.

| Module | Theorems | Assumptions |
|---|---|---|
| `WorkspaceHandoffProofs` | `TypeCorrect`, `LockBacked`, `OneWriter`, `AgentAssigned`, `ControlFenced`, `RevokedPowerless`, `FencedLockImplemented` | `HandoffAssumption`: workers, people and nobody are different, scopes and repositories functions, leases positive |
| `TaskLifecycleProofs` | `TypeCorrect`, `ContractFirst`, `ArchivingIsSafe`, `FinishedStaysFinished`, `StaleIsRefused` | `LifecycleAssumption`: bounds are natural numbers, the absent task is no task |
| `DeliveryProofs` | `TypeCorrect`, `ClaimsStayExclusive`, `DeliveredWasAcceptedByChannel`, `RepeatedOnlyForCause`, `DeliveredStaysDelivered` | `DeliveryAssumption`: topics are a list, channels among them, limits positive |
| `PublicationProofs` | `TypeCorrect`, `OnlyReviewedIsPublished`, `RejectedFirstIsNeverPublished`, `OneHeadRecorded` | `PublicationAssumption`; `CutAssumption`: a cut diff is no diff; `CommitAssumption`: finitely many publishers, and two more names of commits than publishers, so that a new commit always has a name nobody uses (git's are never used up) |
| `ReconciliationProofs` | `TypeCorrect`, `MergedAtGitHub`, `AuditIsTrue`, `MovedOnlyUntouched` | `ReconciliationAssumption`: a pull request at least, bounds natural numbers |
| `RegistryProofs` | `OnboardingTypeCorrect`, `WorkOnInspectedOnly`, `ProfilesTypeCorrect`, `ProfilesStayUsable`, `DependenciesTypeCorrect`, `ShortCyclesExcluded` | `OnboardingAssumption`, `ProfilesAssumption`: bounds natural numbers, the local profile is one, no profile is no value |
| `OnceProofs` | `RotationsKeepTheCount`, `ActedOnce`, `DeployedOnce`, `TakenUpOnce`, `RepeatedForALapse` | `TokensAssumption`, `RemoteAssumption`, `DeploymentAssumption`, `IntakeAssumption`, `RequestsAssumption`: names of different kinds differ (they are columns of different tables), finitely many servers, bounds natural numbers |
| `ServicesProofs` | `HeldDirectoryStays`, `LoneHolderIsRecorded`, `ReadersMissNoMove`, `ServicesTypeCorrect`, `ServicesKeepTheirPromises` | `WorktreesAssumption`, `RuntimeAssumption`: an empty text is no pid and no file is no content, `StreamAssumption`: a page holds at least one row, to watch everything is not to watch a task |

An invariant is proved from three facts, here as lemmas: the initial states satisfy a
stronger, inductive one; every step preserves it; it implies the property. Where the
actions are many, a lemma first says in a few cases what a step can do (`Effects` of the
life cycle and of delivery, `OneBuilderMoves` of worktrees, `ProcessMoves` and
`CommandMoves` of the runtime), and the invariant is preserved by these cases. What the
inductive invariants add, and why:

**Hand-off.** The invariant is `TypeOK /\ LockBacksOwnership`.
`OneWriterPerRepository` is not inductive alone: a claim looks at the lock of the
repository, not at the other task's ownership, so excluding a second writer needs
that the first one's lock runs at least as long as its ownership. That is
`LockBacks`, with its clause on the token, by which resume and acknowledge find
the lock, and its clause on the holder, by which revocation finds the locks to
end. `AgentOwnedIsAssigned` is inductive with `TypeOK` and the fact that the
statuses revocation and expiry look for include each other's. For the refinement
every action is mapped to `Grant`, `Curtail`, `Issue`, `Tick` or a stutter; the
resume's extension of an expired lock is a `Grant` to the task that last had it.

**Task life cycle.** `IInv` relates each reading to its row
(`ReadingAge`, and `JobAge` for the planner): it is never ahead of the row's version,
behind it once somebody touched the row, and a terminal status it saw is still
there. The first two make the version test of `transition` refuse every overtaken
reading (`StaleIsRefused`); the third is why `archive`, which does not look again,
archives finished tasks only.

**Dependencies.** The locks of open transactions are
disjoint (`LocksExclusive`) and a finished check stands until its commit for
every edge with a common end (`ChecksStand`): two edges of a cycle of two or three
always share a task, whose row lock orders the later check after the earlier
commit. From four tasks on there are disjoint pairs, and `dependency_cycle` shows
what follows.

**Delivery.** A step keeps the outbox and the hands, claims rows that are claimable, settles
the row its handler owns, or reopens a row by hand (`Effect`); claims are exclusive because
only the first three touch a row nobody retried. `LedgerOK` says what the ledger's SENT and
a handler's place in its program say of the provider; `AcceptedOnce` that a message accepted
once, with nothing gone wrong, is settled or in the one hand that is recording it. Without
the second, a message accepted but not yet recorded could be taken up a second time.

**Publication.** A publisher carries the digest of a review that passed from its first step
to its last (`PublisherOK`); the commit it makes has that digest's files or it stops; the
branch, created by one publisher, is what every later one pushes and records (`RefsOK`).
The first judgement of a diff is the only one that is recorded, so a diff rejected before any
review passed it never has one that passed. Nothing more can be proved: a later rejection is
lost, and of a diff longer than the prompt the reviewer saw the beginning.

**Reconciliation.** The facts a round has from GitHub grow old while it works. That GitHub
merged our head does not (`MergedOurs`), so a decision to mark a merge is as good when it is
acted on as when it was made (`JobOK`). A round at its audit row has done what it records.
Versions only grow, so a row on a round's list is older than its task if anybody touched that
since (`ListsAreOld`), and the comparison with the version refuses it.

**Repositories and profiles.** A report is of the repository that is there
(`DELETE` is refused while one refers to it, so an id with a report never goes away), and
a request past its checks has a safe report behind it, its own reading's or that of
whoever enabled the row (`CallerIsChecked`). Without the second a late `UPDATE` or `INSERT`,
which looks at nothing but the id, could enable or use anything. For the profiles,
the contents a command is about to rename are usable themselves (`ShellIsUsable`): a
lost update brings back an older file, which was usable, and vouched-for tokens stay so.

**What happens once** (`OnceProofs`). The pattern of five components: a row is inserted or
taken in one statement, by one of those who race for it, and the effect follows later. The
invariants (`MessageOK`, `GrantOK`, `KeyOK`, `OnceOK`) say that between the two one process
is on its way to the effect, that the row is there and that nothing was done yet; after it,
that nobody is on the way. `GateKept` adds that an approval seen by a deployment's gate is
still one when its row is inserted. For idempotency keys the effect can be repeated, so
`KeyInv` counts: what was done and what is about to be done for a key are together no more
than the times it was begun, and each beginning but the first needed a lapse.

**Worktrees.** Fences are handed out once, so of all builders the one whose fence is on the
lock owns it. As long as it does, its directory is there and is in no list of the sweep
(`BuilderOK`). The sweep lists rows while no lock is live and removes them later without
looking again; by then a lock may be live, but it has a new fence, and its builder's
attempt had no row to be listed.

**Runtime.** `RuntimeInv` has two parts. Whatever overlaps, only a process that has written
its pid holds the lock (`RowOK`). As long as nothing has overlapped, one process is under way
(`Alone`), the file is the holder's (`Recorded`), and whoever removes one has seen that nobody
else holds it (`Cleared`). With an overlap the second part fails: that is `runtime_lock`.

**Event streams.** A writer of a move holds the row of its task before its id is drawn
(`LocksExclude`), so what it will commit is ahead of all rows and cursors of the task
(`MoveIsAhead`). A page ends at the greatest of its ids: that a finite set of numbers has one
is proved from the well-foundedness of `<` (`LeastNatural`, `GreatestNatural`), since the
library's induction over numbers is out of reach.

**The eleven together.** They share no variable, so a step of one leaves the others'
invariants as they are (`EachStepsOrRests`), and all hold in `ServicesSpec`.

Only model-checked: the liveness properties `EveryMessageDelivered`, `UndisturbedIsPlanned`
and `MergeIsRecorded`, since fairness and ENABLED are out of the prover's reach. Conformance
with the documents' sentences (section 3, violated) is a matter of counterexamples.

## 5. Not modelled

See `components` in `PROJECT.json` for each file.

* `retry-policy.ts`, `cost-service.ts`, `merge-policy.ts`, `auto-merge-policy.ts`: pure
  decisions, and a check before a record, which nothing in `src/` calls. What would have to
  be modelled is the order in which they are asked, and there is none yet.
* Constructed by tests only, so far, and modelled from what their own code says:
  `BuilderService`, `VerificationPipeline`, `ReviewService`, `PublisherService`
  (`Publication`), `WorktreeService`, `RepositoryLockService` (`Worktrees`),
  `DeploymentService` (`Deployment`), `RepositoryRegistryService` (`Onboarding`) and
  `EmailIntakeService` (`Intake`). What no caller exists for yet, such as one builder at a
  time for a task, is not assumed. `OperatorRecoveryService` is run by
  `scripts/operator.ts`.
* Constructed by tests only, and not modelled: `WorkerLeaseService` (it repeats the
  registry's statements), `NotificationService` (it enqueues), `EmailProviderGateway`,
  `RestrictedRunner`, `AcceptanceService`, `SecurityAssessmentService`,
  `PolicyPackService`, `DiskPressureGuard`, `WeeklyReportService`.
* `requestPipelineAction` writes outbox rows of topics that nothing claims.
* Reports, lists and metrics are queries. Parsing, role tables, policy packs, acceptance and
  path checks are functions of one value. Migrations and configuration run before everything.
* The hosted MongoDB design of ADR 0005 has no code.

## 6. Plan

1. done: the modules of section 2, their runs, and the proofs of section 4.
2. An abstract "one effect for each key" (a key is free, taken by one process, done) that
   `RemoteActions`, `Deployment`, `Intake` and, with lapses, `Requests` implement, with the
   refinements proved: their invariants are the needed mapping already.
3. An abstract at-least-once delivery that `Delivery`'s channel service implements.
