--------------------------- MODULE WorkspaceHandoff ---------------------------
(***************************************************************************)
(* Who may write the worktree of a task: workers claim ready tasks, humans *)
(* attach to and return a claimed workspace, an operator recovers it.  The *)
(* state is four PostgreSQL tables (workers, worker_assignments,           *)
(* repository_locks, workspace_ownerships) and the sequence that numbers   *)
(* fencing tokens.  Every action below is one transaction of               *)
(* WorkerRegistryService, WorkspaceOwnershipService or                     *)
(* OperatorRecoveryService, except returnToAgent, which reads outside its  *)
(* transaction and is two.                                                 *)
(*                                                                         *)
(* Abstracted: identities (a caller is taken to be the identity that owns  *)
(* the row), reasons, events, attempt numbers, and the candidate filters   *)
(* of a claim other than scope, readiness and the repository lock (pause,  *)
(* dependencies, priority); see TaskLifecycle.  Database and process       *)
(* clocks are one clock.                                                   *)
(***************************************************************************)
EXTENDS Integers, FiniteSets

CONSTANTS
  Workers,       \* rows of workers, named by their unique name
  Tasks,
  Repositories,
  Actors,        \* human actors
  Operators,     \* those of them with role OPERATOR
  NoOne,         \* SQL NULL in a column that names a task, worker or actor
  RepositoryOf,  \* the repository of each task
  Scope,         \* the repositories each worker may serve (ids and profile)
  WorkerLeases,  \* leases a worker may ask for itself
  LeaseLengths,  \* leases a caller may ask for on a workspace
  MaxTime,       \* bound: the clock stops here
  MaxFence       \* bound: tokens the sequence gives out

ASSUME HandoffAssumption ==
  /\ Operators \subseteq Actors
  /\ Workers \cap Actors = {}
  /\ NoOne \notin Workers \cup Actors \cup Tasks
  /\ RepositoryOf \in [Tasks -> Repositories]
  /\ Scope \in [Workers -> SUBSET Repositories]
  /\ WorkerLeases \subseteq Nat \ {0}
  /\ LeaseLengths \subseteq Nat \ {0}
  /\ MaxTime \in Nat
  /\ MaxFence \in Nat

VARIABLES
  now,         \* the clock
  fence,       \* fencing_token_sequence: the last value given out
  worker,      \* workers
  ready,       \* tasks with status READY
  lock,        \* repository_locks, by repository
  assignment,  \* worker_assignments: the latest of each task
  ownership,   \* workspace_ownerships, by task
  inspection   \* returns that passed their first read, not yet committed

vars == <<now, fence, worker, ready, lock, assignment, ownership, inspection>>

-------------------------------------------------------------------------------
(* Rows.                                                                   *)

WorkerStatus == {"UNREGISTERED", "ACTIVE", "DRAINING", "OFFLINE", "REVOKED"}
LiveAssignment == {"CLAIMED", "CANCELLING"}
AssignmentStatus == LiveAssignment \cup {"NONE", "CANCELLED", "LOST"}
OwnershipState ==
  {"NONE", "AGENT_OWNED", "PAUSING", "HUMAN_OWNED", "RETURNING",
   "RECOVERY_REQUIRED"}

\* The worker's own token is left out: it is compared with nothing but the
\* caller's, and a caller whose registration was superseded is refused.
WorkerRow == [status : WorkerStatus, lease : Nat]
LockRow == [task : Tasks \cup {NoOne}, holder : Workers \cup Actors \cup {NoOne},
            fence : Nat, lease : Nat]
AssignmentRow == [worker : Workers \cup {NoOne}, status : AssignmentStatus,
                  fence : Nat, lease : Nat]
OwnershipRow == [state : OwnershipState, worker : Workers \cup {NoOne},
                 owner : Actors \cup {NoOne}, requested : Actors \cup {NoOne},
                 assignment : Nat, fence : Nat, lease : Nat, bound : BOOLEAN]

NoWorker == [status |-> "UNREGISTERED", lease |-> 0]
NoLock == [task |-> NoOne, holder |-> NoOne, fence |-> 0, lease |-> 0]
NoAssignment == [worker |-> NoOne, status |-> "NONE", fence |-> 0, lease |-> 0]
NoOwnership ==
  [state |-> "NONE", worker |-> NoOne, owner |-> NoOne, requested |-> NoOne,
   assignment |-> 0, fence |-> 0, lease |-> 0, bound |-> FALSE]
NoInspection == [actor |-> NoOne, fence |-> 0]

Unexpired(row) == row.lease > now

\* packages/core: where an ownership may go from each state.
OwnershipTransitions ==
  [NONE              |-> {},
   AGENT_OWNED       |-> {"PAUSING", "RECOVERY_REQUIRED"},
   PAUSING           |-> {"HUMAN_OWNED", "AGENT_OWNED", "RECOVERY_REQUIRED"},
   HUMAN_OWNED       |-> {"RETURNING", "RECOVERY_REQUIRED"},
   RETURNING         |-> {"AGENT_OWNED", "HUMAN_OWNED", "RECOVERY_REQUIRED"},
   RECOVERY_REQUIRED |-> {"HUMAN_OWNED", "RETURNING"}]

MayBecome(t, state) == state \in OwnershipTransitions[ownership[t].state]

LiveAssigned(t) == assignment[t].status \in LiveAssignment

\* A worker that may take work: ACTIVE, its lease running, the repository its own.
\* Seeded fault: the status column is not read.
AvailableAnyStatus(w) == Unexpired(worker[w])
Available(w) == worker[w].status = "ACTIVE" /\ Unexpired(worker[w])
Serves(w, t) == RepositoryOf[t] \in Scope[w]

\* Seeded fault: currval for nextval.
SameFence ==
  /\ fence < MaxFence
  /\ fence' = fence
NextFence ==
  /\ fence < MaxFence
  /\ fence' = fence + 1

-------------------------------------------------------------------------------
Init ==
  /\ now = 0
  /\ fence = 0
  /\ worker = [w \in Workers |-> NoWorker]
  /\ ready = Tasks
  /\ lock = [r \in Repositories |-> NoLock]
  /\ assignment = [t \in Tasks |-> NoAssignment]
  /\ ownership = [t \in Tasks |-> NoOwnership]
  /\ inspection = [t \in Tasks |-> NoInspection]

-------------------------------------------------------------------------------
(* WorkerRegistryService.                                                  *)

\* Registering again takes a new token and makes any unrevoked row ACTIVE.
Register(w, length) ==
  /\ worker[w].status # "REVOKED"
  /\ NextFence
  /\ worker' = [worker EXCEPT ![w] =
       [status |-> "ACTIVE", lease |-> now + length]]
  /\ UNCHANGED <<now, ready, lock, assignment, ownership, inspection>>

Heartbeat(w, length) ==
  /\ worker[w].status \in {"ACTIVE", "DRAINING", "OFFLINE"}
  /\ worker' = [worker EXCEPT ![w] =
       [status |-> IF @.status = "OFFLINE" THEN "ACTIVE" ELSE @.status,
        lease |-> now + length]]
  /\ UNCHANGED <<now, fence, ready, lock, assignment, ownership, inspection>>

\* Seeded fault: draining ends the worker's assignments as revoking does.
DrainAndDrop(w) ==
  /\ worker[w].status \in {"ACTIVE", "DRAINING", "OFFLINE"}
  /\ worker' = [worker EXCEPT ![w].status = "DRAINING"]
  /\ assignment' = [t \in Tasks |->
       IF assignment[t].worker = w THEN [assignment[t] EXCEPT !.status = "LOST"]
       ELSE assignment[t]]
  /\ UNCHANGED <<now, fence, ready, lock, ownership, inspection>>

Drain(w) ==
  /\ worker[w].status \in {"ACTIVE", "DRAINING", "OFFLINE"}
  /\ worker' = [worker EXCEPT ![w].status = "DRAINING"]
  /\ UNCHANGED <<now, fence, ready, lock, assignment, ownership, inspection>>

Revoke(w) ==
  /\ worker[w].status \in {"ACTIVE", "DRAINING", "OFFLINE"}
  /\ worker' = [worker EXCEPT ![w].status = "REVOKED"]
  /\ assignment' = [t \in Tasks |->
       IF assignment[t].worker = w /\ LiveAssigned(t)
         THEN [assignment[t] EXCEPT !.status = "LOST"] ELSE assignment[t]]
  /\ ownership' = [t \in Tasks |->
       IF /\ ownership[t].worker = w
          /\ ownership[t].state \in {"AGENT_OWNED", "PAUSING", "RETURNING"}
         THEN [ownership[t] EXCEPT !.state = "RECOVERY_REQUIRED"]
         ELSE ownership[t]]
  /\ lock' = [r \in Repositories |->
       IF lock[r].holder = w THEN [lock[r] EXCEPT !.lease = now] ELSE lock[r]]
  /\ UNCHANGED <<now, fence, ready, inspection>>

\* One row per task: the unique index on live assignments refuses a second.
Claim(w, t, length) ==
  LET r == RepositoryOf[t] IN
  /\ Available(w)
  /\ t \in ready
  /\ Serves(w, t)
  /\ ~Unexpired(lock[r])
  /\ ~LiveAssigned(t)
  /\ NextFence
  /\ lock' = [lock EXCEPT ![r] = [task |-> t, holder |-> w, fence |-> fence',
                                  lease |-> now + length]]
  /\ ready' = ready \ {t}
  /\ assignment' = [assignment EXCEPT ![t] =
       [worker |-> w, status |-> "CLAIMED", fence |-> fence', lease |-> now + length]]
  /\ ownership' = [ownership EXCEPT ![t] =
       [state |-> "AGENT_OWNED", worker |-> w, owner |-> NoOne,
        requested |-> NoOne, assignment |-> fence', fence |-> fence',
        lease |-> now + length, bound |-> @.bound]]
  /\ UNCHANGED <<now, worker, inspection>>

\* Runs when the runtime process starts, and at no other time.
RecoverExpired ==
  /\ worker' = [w \in Workers |->
       IF worker[w].status = "ACTIVE" /\ ~Unexpired(worker[w])
         THEN [worker[w] EXCEPT !.status = "OFFLINE"] ELSE worker[w]]
  /\ assignment' = [t \in Tasks |->
       IF LiveAssigned(t) /\ ~Unexpired(assignment[t])
         THEN [assignment[t] EXCEPT !.status = "LOST"] ELSE assignment[t]]
  /\ ownership' = [t \in Tasks |->
       IF /\ ownership[t].state \notin {"NONE", "RECOVERY_REQUIRED"}
          /\ ~Unexpired(ownership[t])
         THEN [ownership[t] EXCEPT !.state = "RECOVERY_REQUIRED"]
         ELSE ownership[t]]
  /\ UNCHANGED <<now, fence, ready, lock, inspection>>

-------------------------------------------------------------------------------
(* WorkspaceOwnershipService.                                              *)

\* The worker's own token is not asked for, the ownership's is.
BindGitRef(t, w) ==
  /\ ownership[t].state = "AGENT_OWNED"
  /\ ownership[t].worker = w
  /\ Available(w)
  /\ ownership' = [ownership EXCEPT ![t].bound = TRUE]
  /\ UNCHANGED <<now, fence, worker, ready, lock, assignment, inspection>>

\* The ownership's lease becomes the attach lease; the lock keeps its own.
RequestAttach(t, a, length) ==
  /\ MayBecome(t, "PAUSING")
  /\ ownership[t].bound
  /\ assignment' = [assignment EXCEPT ![t].status =
       IF ownership[t].assignment = assignment[t].fence /\ @ = "CLAIMED"
         THEN "CANCELLING" ELSE @]
  /\ ownership' = [ownership EXCEPT ![t] =
       [@ EXCEPT !.state = "PAUSING", !.requested = a, !.lease = now + length]]
  /\ UNCHANGED <<now, fence, worker, ready, lock, inspection>>

AcknowledgeAgentPaused(t) ==
  LET r == RepositoryOf[t]
      own == ownership[t] IN
  /\ MayBecome(t, "HUMAN_OWNED")
  /\ own.worker \in Workers
  /\ own.requested # NoOne
  /\ Available(own.worker)
  /\ lock[r].task = t /\ lock[r].holder = own.worker
  /\ lock[r].fence = own.fence /\ Unexpired(lock[r])
  /\ NextFence
  /\ lock' = [lock EXCEPT ![r] = [task |-> t, holder |-> own.requested,
                                  fence |-> fence', lease |-> own.lease]]
  /\ assignment' = [assignment EXCEPT ![t].status =
       IF own.assignment = assignment[t].fence /\ @ = "CANCELLING"
         THEN "CANCELLED" ELSE @]
  /\ ownership' = [ownership EXCEPT ![t] =
       [state |-> "HUMAN_OWNED", worker |-> NoOne, owner |-> own.requested,
        requested |-> NoOne, assignment |-> 0, fence |-> fence',
        lease |-> own.lease, bound |-> own.bound]]
  /\ UNCHANGED <<now, worker, ready, inspection>>

\* returnToAgent up to its transaction: the row read without a lock, then Git.
BeginReturn(t, a) ==
  /\ ownership[t].state = "HUMAN_OWNED"
  /\ ownership[t].owner = a
  /\ Unexpired(ownership[t])
  /\ ownership[t].bound
  /\ inspection[t] = NoInspection
  /\ inspection' = [inspection EXCEPT ![t] = [actor |-> a, fence |-> ownership[t].fence]]
  /\ UNCHANGED <<now, fence, worker, ready, lock, assignment, ownership>>

\* Its transaction: state, owner and token are read again, the lease is not.
CommitReturn(t) ==
  /\ inspection[t] # NoInspection
  /\ ownership[t].state = "HUMAN_OWNED"
  /\ ownership[t].owner = inspection[t].actor
  /\ ownership[t].fence = inspection[t].fence
  /\ ownership' = [ownership EXCEPT ![t].state = "RETURNING"]
  /\ inspection' = [inspection EXCEPT ![t] = NoInspection]
  /\ UNCHANGED <<now, fence, worker, ready, lock, assignment>>

\* The worktree failed validation, or the ownership changed meanwhile.
RefuseReturn(t) ==
  /\ inspection[t] # NoInspection
  /\ inspection' = [inspection EXCEPT ![t] = NoInspection]
  /\ UNCHANGED <<now, fence, worker, ready, lock, assignment, ownership>>

\* An expired lock is extended all the same if nobody took it.
ResumeAgent(t, w, length) ==
  LET r == RepositoryOf[t] IN
  /\ MayBecome(t, "AGENT_OWNED")
  /\ Available(w)
  /\ Serves(w, t)
  /\ ~LiveAssigned(t)
  /\ lock[r].task = t /\ lock[r].fence = ownership[t].fence
  /\ NextFence
  /\ assignment' = [assignment EXCEPT ![t] =
       [worker |-> w, status |-> "CLAIMED", fence |-> fence', lease |-> now + length]]
  /\ lock' = [lock EXCEPT ![r] = [task |-> t, holder |-> w, fence |-> fence',
                                  lease |-> now + length]]
  /\ ownership' = [ownership EXCEPT ![t] =
       [state |-> "AGENT_OWNED", worker |-> w, owner |-> NoOne,
        requested |-> @.requested, assignment |-> fence', fence |-> fence',
        lease |-> now + length, bound |-> @.bound]]
  /\ UNCHANGED <<now, worker, ready, inspection>>

\* direction HUMAN gives the operator the workspace, AGENT opens it to a worker.
Recover(t, a, target, length) ==
  LET r == RepositoryOf[t] IN
  /\ MayBecome(t, target)
  /\ ~Unexpired(lock[r]) \/ lock[r].task = t
  /\ NextFence
  /\ lock' = [lock EXCEPT ![r] = [task |-> t, holder |-> a, fence |-> fence',
                                  lease |-> now + length]]
  /\ ownership' = [ownership EXCEPT ![t] =
       [state |-> target, worker |-> NoOne,
        owner |-> IF target = "HUMAN_OWNED" THEN a ELSE NoOne,
        requested |-> NoOne, assignment |-> 0, fence |-> fence',
        lease |-> now + length, bound |-> @.bound]]
  /\ UNCHANGED <<now, worker, ready, assignment, inspection>>

-------------------------------------------------------------------------------
(* Around them.                                                            *)

\* Seeded fault: the operator's release does not look at the lease.
ReleaseAnyLock(r) ==
  /\ lock[r] # NoLock
  /\ lock' = [lock EXCEPT ![r] = NoLock]
  /\ UNCHANGED <<now, fence, worker, ready, assignment, ownership, inspection>>

\* OperatorRecoveryService: `pnpm operator release-lock`.
ReleaseExpiredRepositoryLock(r) ==
  /\ lock[r] # NoLock
  /\ ~Unexpired(lock[r])
  /\ lock' = [lock EXCEPT ![r] = NoLock]
  /\ UNCHANGED <<now, fence, worker, ready, assignment, ownership, inspection>>

\* Seeded fault: the repository's id for the task's.
RequeueWrongId(t) ==
  /\ t \notin ready
  /\ ready' = ready \cup {RepositoryOf[t]}
  /\ UNCHANGED <<now, fence, worker, lock, assignment, ownership, inspection>>

\* TaskService brings a claimed task back to READY (by FAILED or BLOCKED); it
\* touches none of the tables here.
Requeue(t) ==
  /\ t \notin ready
  /\ ready' = ready \cup {t}
  /\ UNCHANGED <<now, fence, worker, lock, assignment, ownership, inspection>>

Tick ==
  /\ now < MaxTime
  /\ now' = now + 1
  /\ UNCHANGED <<fence, worker, ready, lock, assignment, ownership, inspection>>

WorkerStep(w) ==
  \/ \E length \in WorkerLeases : Register(w, length) \/ Heartbeat(w, length)
  \/ Drain(w)
  \/ Revoke(w)
  \/ \E t \in Tasks, length \in LeaseLengths : Claim(w, t, length) \/ ResumeAgent(t, w, length)
  \/ \E t \in Tasks : BindGitRef(t, w)

WorkspaceStep(t) ==
  \/ \E a \in Actors, length \in LeaseLengths : RequestAttach(t, a, length)
  \/ AcknowledgeAgentPaused(t)
  \/ \E a \in Actors : BeginReturn(t, a)
  \/ CommitReturn(t)
  \/ RefuseReturn(t)
  \/ \E a \in Operators, target \in {"HUMAN_OWNED", "RETURNING"}, length \in LeaseLengths :
       Recover(t, a, target, length)
  \/ Requeue(t)

Next ==
  \/ \E w \in Workers : WorkerStep(w)
  \/ \E t \in Tasks : WorkspaceStep(t)
  \/ \E r \in Repositories : ReleaseExpiredRepositoryLock(r)
  \/ RecoverExpired
  \/ Tick

Spec == Init /\ [][Next]_vars

-------------------------------------------------------------------------------
(* Properties.                                                             *)

\* Every row has the shape its table gives it.
TypeOK ==
  /\ now \in Nat
  /\ fence \in Nat
  /\ worker \in [Workers -> WorkerRow]
  /\ ready \subseteq Tasks
  /\ lock \in [Repositories -> LockRow]
  /\ assignment \in [Tasks -> AssignmentRow]
  /\ ownership \in [Tasks -> OwnershipRow]
  /\ inspection \in [Tasks -> [actor : Actors \cup {NoOne}, fence : Nat]]

\* A party that was told it owns the workspace and whose lease still runs: the
\* agent, the human, or the task on its way back to an agent.
Controls(t) ==
  /\ ownership[t].state \in {"AGENT_OWNED", "HUMAN_OWNED", "RETURNING"}
  /\ Unexpired(ownership[t])

\* Ownership and repository lock are written by different statements of nine
\* transactions; while a party controls a task, the lock of its repository must
\* be that task's, with that party's token, and last at least as long.
LockBacks(t) ==
  LET l == lock[RepositoryOf[t]]
      own == ownership[t] IN
  /\ l.task = t
  /\ l.fence = own.fence
  /\ l.lease >= own.lease
  /\ own.state = "AGENT_OWNED" => own.worker \in Workers /\ l.holder = own.worker
  /\ own.state = "HUMAN_OWNED" => own.owner \in Actors /\ l.holder = own.owner
  /\ own.state = "RETURNING" => l.holder \in Actors

LockBacksOwnership == \A t \in Tasks : Controls(t) => LockBacks(t)

\* Two tasks of one repository are never both under a running lease, however
\* claims, hand-offs, recoveries and revocations interleave.
OneWriterPerRepository ==
  \A t, u \in Tasks :
    RepositoryOf[t] = RepositoryOf[u] /\ Controls(t) /\ Controls(u) => t = u

\* An agent-owned workspace has the live assignment it names, with the same
\* worker, token and lease: no path leaves the agent working without a record,
\* or the record live after the workspace moved to recovery by expiry.
AgentIsAssigned(t) ==
  LET own == ownership[t] IN
  ownership[t].state = "AGENT_OWNED" =>
    /\ LiveAssigned(t)
    /\ own.assignment = assignment[t].fence
    /\ own.worker = assignment[t].worker
    /\ own.fence = assignment[t].fence
    /\ own.lease = assignment[t].lease

AgentOwnedIsAssigned == \A t \in Tasks : AgentIsAssigned(t)

\* Whoever gets control of a workspace gets it with a token above every token
\* given out before, so that all earlier holders are refused (handoff-v1).
Controller(t) == <<ownership[t].worker, ownership[t].owner>>
ControlIsFenced ==
  [][\A t \in Tasks :
       Controller(t)' # Controller(t) /\ Controller(t)' # <<NoOne, NoOne>>
         => ownership'[t].fence > fence]_vars

\* A worker that was revoked gets nothing further: no lease on a repository and
\* no workspace (the return path, a late acknowledgement, an old claim).
RevokedIsPowerless ==
  [][\A w \in Workers : worker[w].status = "REVOKED" =>
       /\ \A t \in Tasks : ownership'[t].worker = w => ownership[t].worker = w
       /\ \A r \in Repositories :
            lock'[r].holder = w => lock'[r] = lock[r]]_vars

\* The repository locks are a fenced lock: implements FencedLock.
Held == [r \in Repositories |->
  [owner |-> lock[r].task, fence |-> lock[r].fence, until |-> lock[r].lease]]
Fenced == INSTANCE FencedLock WITH
  Resources <- Repositories, Owners <- Tasks, held <- Held, issued <- fence
ImplementsFencedLock == Fenced!Spec

\* handoff-v1.md: "Human ownership is granted only after the worker
\* acknowledges that the coding process stopped."
HumanOwnsAfterAgentStopped ==
  \A t \in Tasks :
    ~ (/\ ownership[t].state = "HUMAN_OWNED" /\ Unexpired(ownership[t])
       /\ LiveAssigned(t) /\ Unexpired(assignment[t]))
===============================================================================
