------------------------------- MODULE Worktrees -------------------------------
(***************************************************************************)
(* The worktrees of one repository: WorktreeService.create and cleanup,    *)
(* the repository lock under which a builder works, and the maintenance    *)
(* job that removes the worktrees of finished tasks (CleanupService).      *)
(*                                                                         *)
(* Every attempt is of a task of its own.  A lease runs out at any time; a *)
(* heartbeat only keeps a live one live.  git is modelled by what it does: *)
(* the mirror fetches refs/* with --prune, which deletes every branch the  *)
(* remote does not have, those of other worktrees included.                *)
(***************************************************************************)
EXTENDS Integers

CONSTANTS
  Attempts,
  Builders,
  MaxFences   \* bound: locks taken

ASSUME WorktreesAssumption == MaxFences \in Nat

VARIABLES
  repoLock,   \* the repository's row of repository_locks
  fences,     \* fencing_token_sequence
  trees,      \* attempts whose directory exists
  branches,   \* attempts whose branch exists in the mirror
  gitRef,     \* git_refs by attempt
  finished,   \* attempts whose task is terminal
  builder,    \* by builder: the worktree it is creating, using or removing
  sweep       \* the cleanup job: rows it has selected, and the one it has removed

worktreeVars == <<repoLock, fences, trees, branches, gitRef, finished, builder, sweep>>

NoRepoLock == [live |-> FALSE, fence |-> 0]
RepoLockRow == [live : BOOLEAN, fence : 1 .. MaxFences]
NoRef == [status |-> "none"]
RefRow == [status : {"ACTIVE", "CLEANED"}, fence : 1 .. MaxFences]
NotBuilding == [at |-> "none"]
BuilderRow == [at : {"found none", "locked", "mirrored", "added", "working", "may remove",
                     "removed", "marked"},
               attempt : Attempts, fence : 0 .. MaxFences]
NoSweep == [rows |-> {}, removed |-> {}]

Building(b) == builder[b] # NotBuilding
Reached(b, at) == Building(b) /\ builder[b].at = at
AttemptOf(b) == builder[b].attempt
Step(b, at) == builder' = [builder EXCEPT ![b].at = at]
Leave(b) == builder' = [builder EXCEPT ![b] = NotBuilding]

\* RepositoryLockService.release deletes the row of this fencing token only.
ReleaseLock(b) ==
  repoLock' = IF repoLock.fence = builder[b].fence THEN NoRepoLock ELSE repoLock

-------------------------------------------------------------------------------
WorktreesInit ==
  /\ repoLock = NoRepoLock /\ fences = 0
  /\ trees = {} /\ branches = {} /\ finished = {}
  /\ gitRef = [a \in Attempts |-> NoRef]
  /\ builder = [b \in Builders |-> NotBuilding]
  /\ sweep = NoSweep

(* WorktreeService.create.                                                 *)

FindNoWorktree(b, a) ==
  /\ ~Building(b) /\ gitRef[a].status # "ACTIVE"
  /\ builder' = [builder EXCEPT ![b] = [at |-> "found none", attempt |-> a, fence |-> 0]]
  /\ UNCHANGED <<repoLock, fences, trees, branches, gitRef, finished, sweep>>

\* The upsert takes a free lock or one that ran out; the sequence is drawn anyway.
AcquireRepositoryLock(b) ==
  /\ Reached(b, "found none") /\ fences < MaxFences
  /\ fences' = fences + 1
  /\ IF repoLock.live THEN Leave(b) /\ UNCHANGED repoLock
     ELSE /\ repoLock' = [live |-> TRUE, fence |-> fences']
          /\ builder' = [builder EXCEPT ![b].at = "locked", ![b].fence = fences']
  /\ UNCHANGED <<trees, branches, gitRef, finished, sweep>>

\* cloneMirror, or fetchMirror, which prunes; nothing looks at the lock again.
PrepareMirror(b) ==
  /\ Reached(b, "locked")
  /\ branches' = {}
  /\ Step(b, "mirrored")
  /\ UNCHANGED <<repoLock, fences, trees, gitRef, finished, sweep>>

\* git worktree add -b: neither the branch nor the directory may exist.
AddWorktree(b) ==
  /\ Reached(b, "mirrored")
  /\ AttemptOf(b) \notin trees \cup branches
  /\ trees' = trees \cup {AttemptOf(b)} /\ branches' = branches \cup {AttemptOf(b)}
  /\ Step(b, "added")
  /\ UNCHANGED <<repoLock, fences, gitRef, finished, sweep>>

\* A branch has one row in git_refs for good.
InsertRef(b) ==
  /\ Reached(b, "added") /\ gitRef[AttemptOf(b)] = NoRef
  /\ gitRef' = [gitRef EXCEPT ![AttemptOf(b)] = [status |-> "ACTIVE", fence |-> builder[b].fence]]
  /\ Step(b, "working")
  /\ UNCHANGED <<repoLock, fences, trees, branches, finished, sweep>>

\* Any statement under the lock may throw: the lock is released and what git has
\* made stays.
CreateThrows(b) ==
  /\ \E at \in {"locked", "mirrored", "added"} : Reached(b, at)
  /\ ReleaseLock(b) /\ Leave(b)
  /\ UNCHANGED <<fences, trees, branches, gitRef, finished, sweep>>

BuilderDies(b) ==
  /\ Building(b)
  /\ Leave(b)
  /\ UNCHANGED <<repoLock, fences, trees, branches, gitRef, finished, sweep>>

-------------------------------------------------------------------------------
(* WorktreeService.cleanup.  A failing step ends in BuilderDies.           *)

CheckFence(b) ==
  LET row == gitRef[AttemptOf(b)] IN
  /\ Reached(b, "working") /\ AttemptOf(b) \in trees
  /\ row.status = "ACTIVE" /\ row.fence = builder[b].fence
  /\ Step(b, "may remove")
  /\ UNCHANGED <<repoLock, fences, trees, branches, gitRef, finished, sweep>>

\* git worktree remove fails when the directory is no worktree any more.
RemoveWorktree(b) ==
  /\ Reached(b, "may remove") /\ AttemptOf(b) \in trees
  /\ trees' = trees \ {AttemptOf(b)}
  /\ Step(b, "removed")
  /\ UNCHANGED <<repoLock, fences, branches, gitRef, finished, sweep>>

MarkCleaned(b) ==
  /\ Reached(b, "removed")
  /\ gitRef' = [gitRef EXCEPT ![AttemptOf(b)].status = "CLEANED"]
  /\ Step(b, "marked")
  /\ UNCHANGED <<repoLock, fences, trees, branches, finished, sweep>>

ReleaseAfterCleanup(b) ==
  /\ Reached(b, "marked")
  /\ ReleaseLock(b) /\ Leave(b)
  /\ UNCHANGED <<fences, trees, branches, gitRef, finished, sweep>>

-------------------------------------------------------------------------------
(* CleanupService.cleanupTerminalWorktrees.                                *)

\* Seeded fault: the lock of the repository is not looked at.
SweepsFinished(a) == gitRef[a].status = "ACTIVE" /\ a \in finished
Sweeps(a) == gitRef[a].status = "ACTIVE" /\ a \in finished /\ ~repoLock.live

SelectRows ==
  /\ sweep = NoSweep
  /\ sweep' = [rows |-> {a \in Attempts : Sweeps(a)}, removed |-> {}]
  /\ UNCHANGED <<repoLock, fences, trees, branches, gitRef, finished, builder>>

\* A row whose directory is gone, as after a crash before SweepMarks, throws:
\* the job ends here on every run, and no row after this one is reached.
SweepRemoves(a) ==
  /\ a \in sweep.rows /\ sweep.removed = {}
  /\ IF a \in trees
     THEN trees' = trees \ {a} /\ sweep' = [sweep EXCEPT !.removed = {a}]
     ELSE sweep' = NoSweep /\ UNCHANGED trees
  /\ UNCHANGED <<repoLock, fences, branches, gitRef, finished, builder>>

SweepMarks(a) ==
  /\ a \in sweep.removed
  /\ gitRef' = [gitRef EXCEPT ![a].status = "CLEANED"]
  /\ sweep' = [rows |-> sweep.rows \ {a}, removed |-> {}]
  /\ UNCHANGED <<repoLock, fences, trees, branches, finished, builder>>

SweepDies ==
  /\ sweep # NoSweep
  /\ sweep' = NoSweep
  /\ UNCHANGED <<repoLock, fences, trees, branches, gitRef, finished, builder>>

LeaseRunsOut ==
  /\ repoLock.live
  /\ repoLock' = [repoLock EXCEPT !.live = FALSE]
  /\ UNCHANGED <<fences, trees, branches, gitRef, finished, builder, sweep>>

\* The task is verified, cancelled, abandoned or superseded.
FinishTask(a) ==
  /\ a \notin finished
  /\ finished' = finished \cup {a}
  /\ UNCHANGED <<repoLock, fences, trees, branches, gitRef, builder, sweep>>

WorktreesNext ==
  \/ \E b \in Builders :
       \/ \E a \in Attempts : FindNoWorktree(b, a)
       \/ AcquireRepositoryLock(b) \/ PrepareMirror(b) \/ AddWorktree(b) \/ InsertRef(b)
       \/ CreateThrows(b) \/ BuilderDies(b)
       \/ CheckFence(b) \/ RemoveWorktree(b) \/ MarkCleaned(b) \/ ReleaseAfterCleanup(b)
  \/ SelectRows \/ SweepDies \/ LeaseRunsOut
  \/ \E a \in Attempts : SweepRemoves(a) \/ SweepMarks(a) \/ FinishTask(a)

WorktreesSpec == WorktreesInit /\ [][WorktreesNext]_worktreeVars

-------------------------------------------------------------------------------
(* Properties.                                                             *)

WorktreesTypeOK ==
  /\ repoLock \in RepoLockRow \cup {NoRepoLock}
  /\ fences \in 0 .. MaxFences
  /\ trees \subseteq Attempts /\ branches \subseteq Attempts /\ finished \subseteq Attempts
  /\ gitRef \in [Attempts -> RefRow \cup {NoRef}]
  /\ builder \in [Builders -> BuilderRow \cup {NotBuilding}]
  /\ sweep \in [rows : SUBSET Attempts, removed : SUBSET Attempts]

\* A builder whose lock is still its own has its directory: the cleanup job, which
\* selects rows at one time and removes them at another, a second attempt at the
\* same worktree, and the cleanup of an earlier one never take it away.
HeldWorktreeStays ==
  \A b \in Builders :
    Reached(b, "working") /\ repoLock.live /\ repoLock.fence = builder[b].fence
      => AttemptOf(b) \in trees
===============================================================================
