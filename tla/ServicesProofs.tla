------------------------------ MODULE ServicesProofs ------------------------------
(***************************************************************************)
(* The eleven components of MCServices, for every value of their           *)
(* constants.  The arguments about six of them and about what an operator  *)
(* sets up are in OnceProofs and RegistryProofs; those about the worktrees *)
(* (Worktrees), the runtime's lock (RuntimeProcess) and the event streams  *)
(* (EventStream) come first here.  The last part puts them together.       *)
(*                                                                         *)
(* The three have this in common: what a process has read or locked is of  *)
(* use only as long as nobody overtakes it, and the invariants say who     *)
(* cannot: a builder with its lock, a process that comes up alone, a       *)
(* transaction that holds the row of its task.                             *)
(***************************************************************************)
EXTENDS MCServices, OnceProofs, RegistryProofs, FiniteSetTheorems, WellFoundedInduction, TLAPS

-------------------------------------------------------------------------------
(* Worktrees.                                                              *)

\* What builder holds.
BuilderRows == [Builders -> BuilderRow \cup {NotBuilding}]

\* Builder b has taken a lock, and perhaps lost it.
Locked(b) == Building(b) /\ builder[b].at # "found none"
\* It has entered its worktree in git_refs.
Entered(b) == Building(b) /\ builder[b].at \in {"working", "may remove", "removed", "marked"}
\* The lock it has taken is its own still.
OwnsLock(b) == repoLock.live /\ repoLock.fence = builder[b].fence

\* A builder has the fence it was given; its ref is its own while it has entered one; and as
\* long as nobody has taken its lock over, its directory is there and outside the sweep.
BuilderOK(b) ==
  /\ Locked(b) => builder[b].fence \in 1 .. fences
  /\ Entered(b) => gitRef[AttemptOf(b)] # NoRef /\ gitRef[AttemptOf(b)].fence = builder[b].fence
  /\ Reached(b, "added") /\ gitRef[AttemptOf(b)] = NoRef => AttemptOf(b) \in trees
  /\ Reached(b, "working") /\ OwnsLock(b) =>
       AttemptOf(b) \in trees /\ AttemptOf(b) \notin sweep.rows \cup sweep.removed

\* No fence is handed out twice, and the sweep goes over directories that have a ref.
WorktreesInv ==
  /\ WorktreesTypeOK
  /\ repoLock.fence <= fences
  /\ \A b \in Builders : BuilderOK(b)
  /\ \A b, c \in Builders :
       (Locked(b) /\ Locked(c) /\ builder[b].fence = builder[c].fence) => b = c
  /\ \A a \in sweep.rows \cup sweep.removed : gitRef[a] # NoRef

\* The values that stand for no builder and no ref are not rows.
LEMMA WorktreeRows ==
  /\ NotBuilding \notin BuilderRow /\ NoRef \notin RefRow
  /\ \A r \in BuilderRow : /\ r.attempt \in Attempts /\ r.fence \in 0 .. MaxFences
                           /\ r.at \in {"found none", "locked", "mirrored", "added", "working",
                                        "may remove", "removed", "marked"}
  /\ \A r \in RefRow : r.fence \in 1 .. MaxFences
<1>1. (\A r \in BuilderRow : r.at # "none") /\ (\A r \in RefRow : r.status # "none")
  BY DEF BuilderRow, RefRow
<1> QED BY <1>1 DEF NotBuilding, NoRef, BuilderRow, RefRow

\* A live lock has a fence; a lock that is not there has none.
LEMMA LockRows ==
  ASSUME NEW l \in RepoLockRow \cup {NoRepoLock}
  PROVE  l.live \in BOOLEAN /\ l.fence \in 0 .. MaxFences /\ (l.live => l.fence > 0)
<1>1. CASE l \in RepoLockRow
  BY <1>1, WorktreesAssumption DEF RepoLockRow
<1>2. CASE l = NoRepoLock
  BY <1>2, WorktreesAssumption DEF NoRepoLock
<1> QED BY <1>1, <1>2

\* What Step does to a row: it changes where the builder is.
LEMMA BuilderSteps ==
  ASSUME WorktreesInv, NEW b \in Builders, Building(b),
         NEW at \in {"found none", "locked", "mirrored", "added", "working",
                     "may remove", "removed", "marked"},
         Step(b, at)
  PROVE  /\ builder' \in BuilderRows /\ Building(b)' /\ builder'[b].at = at
         /\ builder'[b].attempt = builder[b].attempt /\ builder'[b].fence = builder[b].fence
         /\ \A c \in Builders \ {b} : builder'[c] = builder[c]
<1> DEFINE row == [builder[b] EXCEPT !.at = at]
<1>1. builder \in BuilderRows /\ builder[b] \in BuilderRow
  BY DEF WorktreesInv, WorktreesTypeOK, BuilderRows, Building
<1>2. /\ row \in BuilderRow /\ row.at = at /\ row.attempt = builder[b].attempt
      /\ row.fence = builder[b].fence
  BY <1>1 DEF BuilderRow
<1>3. builder' = [builder EXCEPT ![b] = row]
  BY DEF Step
<1> HIDE DEF row
<1>4. row # NotBuilding
  BY <1>2, WorktreeRows
<1> QED BY <1>1, <1>2, <1>3, <1>4 DEF BuilderRows, Building

\* A builder that leaves is not building, and moves nobody else.
LEMMA BuilderLeaves ==
  ASSUME WorktreesInv, NEW b \in Builders, Leave(b)
  PROVE  /\ builder' \in BuilderRows /\ ~Building(b)'
         /\ \A c \in Builders \ {b} : builder'[c] = builder[c]
BY DEF WorktreesInv, WorktreesTypeOK, BuilderRows, Leave, Building

\* A lock that is released is gone, or another's.
LEMMA LockReleased ==
  ASSUME WorktreesInv, NEW b \in Builders, ReleaseLock(b)
  PROVE  /\ repoLock' \in RepoLockRow \cup {NoRepoLock} /\ repoLock'.fence <= fences
         /\ repoLock'.live => repoLock' = repoLock
<1>1. repoLock \in RepoLockRow \cup {NoRepoLock} /\ repoLock.fence <= fences /\ 0 <= fences
  BY DEF WorktreesInv, WorktreesTypeOK
<1>2. NoRepoLock.fence = 0 /\ ~NoRepoLock.live
  BY DEF NoRepoLock
<1> QED BY <1>1, <1>2 DEF ReleaseLock

\* What the invariant says of a builder that rests depends on these alone.
LEMMA OthersKept ==
  ASSUME NEW c \in Builders, BuilderOK(c), builder'[c] = builder[c],
         fences \in Nat, fences' \in Nat, fences <= fences',
         \A a \in Attempts : gitRef[a] # NoRef =>
           gitRef'[a] # NoRef /\ gitRef'[a].fence = gitRef[a].fence,
         Building(c) => AttemptOf(c) \in Attempts,
         Reached(c, "added") /\ gitRef'[AttemptOf(c)] = NoRef =>
           AttemptOf(c) \in trees \cap trees' \/ AttemptOf(c) \notin trees,
         Reached(c, "working") /\ OwnsLock(c)' =>
           /\ OwnsLock(c)
           /\ AttemptOf(c) \in trees => AttemptOf(c) \in trees'
           /\ AttemptOf(c) \notin sweep'.rows \cup sweep'.removed
  PROVE  BuilderOK(c)'
<1>1. /\ Building(c)' <=> Building(c)
      /\ builder'[c].attempt = builder[c].attempt /\ builder'[c].fence = builder[c].fence
      /\ builder'[c].at = builder[c].at
  BY DEF Building
<1>2. Locked(c)' => builder'[c].fence \in 1 .. fences'
  <2>1. Locked(c)' => Locked(c)
    BY <1>1 DEF Locked
  <2>2. Locked(c) => builder[c].fence \in 1 .. fences
    BY DEF BuilderOK
  <2>3. builder[c].fence \in 1 .. fences => builder'[c].fence \in 1 .. fences'
    BY <1>1
  <2> QED BY <2>1, <2>2, <2>3
<1>3. Entered(c)' =>
        gitRef'[AttemptOf(c)'] # NoRef /\ gitRef'[AttemptOf(c)'].fence = builder'[c].fence
  BY <1>1 DEF BuilderOK, Entered, AttemptOf
<1>4. Reached(c, "added")' /\ gitRef'[AttemptOf(c)'] = NoRef => AttemptOf(c)' \in trees'
  BY <1>1 DEF BuilderOK, Reached, AttemptOf
<1>5. Reached(c, "working")' /\ OwnsLock(c)' =>
        AttemptOf(c)' \in trees' /\ AttemptOf(c)' \notin sweep'.rows \cup sweep'.removed
  BY <1>1 DEF BuilderOK, Reached, AttemptOf
<1> QED BY <1>2, <1>3, <1>4, <1>5 DEF BuilderOK

\* A step of builder b.
LEMMA OneBuilderMoves ==
  ASSUME WorktreesInv, NEW b \in Builders, WorktreesTypeOK', builder' \in BuilderRows,
         \A c \in Builders \ {b} : builder'[c] = builder[c],
         fences <= fences', repoLock'.fence <= fences', UNCHANGED sweep,
         \A a \in Attempts : gitRef[a] # NoRef =>
           gitRef'[a] # NoRef /\ gitRef'[a].fence = gitRef[a].fence,
         repoLock'.live => repoLock' = repoLock \/ \A c \in Builders : Locked(c) =>
           builder[c].fence # repoLock'.fence,
         \A c \in Builders \ {b} :
           (((Reached(c, "added") /\ gitRef[AttemptOf(c)] = NoRef) \/ Reached(c, "working"))
            /\ AttemptOf(c) \in trees) => AttemptOf(c) \in trees',
         BuilderOK(b)',
         Locked(b)' => \A c \in Builders \ {b} : Locked(c) => builder[c].fence # builder'[b].fence
  PROVE  WorktreesInv'
<1>1. fences \in Nat /\ fences' \in Nat
  BY WorktreesAssumption DEF WorktreesInv, WorktreesTypeOK
<1>2. ASSUME NEW c \in Builders \ {b} PROVE BuilderOK(c)'
  <2>0. BuilderOK(c) /\ builder'[c] = builder[c]
    BY DEF WorktreesInv
  <2>1. Building(c) => AttemptOf(c) \in Attempts
    BY WorktreeRows DEF WorktreesInv, WorktreesTypeOK, Building, AttemptOf
  <2>2. Reached(c, "added") /\ gitRef'[AttemptOf(c)] = NoRef =>
          AttemptOf(c) \in trees \cap trees' \/ AttemptOf(c) \notin trees
    BY <2>1 DEF Reached
  <2>3. Reached(c, "working") /\ OwnsLock(c)' => OwnsLock(c)
    <3> SUFFICES ASSUME Reached(c, "working"), OwnsLock(c)' PROVE OwnsLock(c)
      OBVIOUS
    <3>1. Locked(c) /\ repoLock'.live /\ repoLock'.fence = builder[c].fence
      BY <2>0 DEF Locked, Reached, OwnsLock
    <3> QED BY <3>1 DEF OwnsLock
  <2>4. Reached(c, "working") /\ OwnsLock(c)' =>
          (AttemptOf(c) \in trees => AttemptOf(c) \in trees')
    OBVIOUS
  <2>5. Reached(c, "working") /\ OwnsLock(c)' =>
          AttemptOf(c) \notin sweep'.rows \cup sweep'.removed
    BY <2>0, <2>3 DEF BuilderOK
  <2> QED BY <1>1, <2>0, <2>1, <2>2, <2>3, <2>4, <2>5, OthersKept
<1>3. ASSUME NEW c \in Builders, NEW d \in Builders, Locked(c)', Locked(d)',
             builder'[c].fence = builder'[d].fence
      PROVE  c = d
  <2>1. \A e \in Builders \ {b} : Locked(e)' => Locked(e) /\ builder'[e].fence = builder[e].fence
    BY DEF Locked, Building
  <2> QED BY <1>3, <2>1 DEF WorktreesInv
<1>4. \A a \in sweep'.rows \cup sweep'.removed : gitRef'[a] # NoRef
  <2>1. sweep.rows \cup sweep.removed \subseteq Attempts
    BY DEF WorktreesInv, WorktreesTypeOK
  <2> QED BY <2>1 DEF WorktreesInv
<1> QED BY <1>2, <1>3, <1>4 DEF WorktreesInv

\* At the start nobody builds and nothing is swept.
LEMMA WorktreesInitInv == WorktreesInit => WorktreesInv
<1> SUFFICES ASSUME WorktreesInit PROVE WorktreesInv
  OBVIOUS
<1>1. \A b \in Builders : ~Building(b)
  BY DEF WorktreesInit, Building
<1>2. WorktreesTypeOK
  BY WorktreesAssumption DEF WorktreesInit, WorktreesTypeOK, NoSweep
<1>3. repoLock.fence = 0 /\ fences = 0 /\ sweep.rows \cup sweep.removed = {}
  BY DEF WorktreesInit, NoRepoLock, NoSweep
<1>4. \A b \in Builders : BuilderOK(b) /\ ~Locked(b)
  BY <1>1 DEF BuilderOK, Locked, Entered, Reached
<1>5. repoLock.fence <= fences
  BY <1>3
<1> QED BY <1>2, <1>3, <1>4, <1>5 DEF WorktreesInv

\* The steps of WorktreeService.create, with its failures and its crash.
LEMMA CreateSteps ==
  ASSUME WorktreesInv, NEW b \in Builders,
         \/ \E a \in Attempts : FindNoWorktree(b, a)
         \/ AcquireRepositoryLock(b) \/ PrepareMirror(b) \/ AddWorktree(b) \/ InsertRef(b)
         \/ CreateThrows(b) \/ BuilderDies(b)
  PROVE  WorktreesInv'
<1>a. /\ WorktreesTypeOK /\ builder \in BuilderRows /\ fences \in 0 .. MaxFences
      /\ MaxFences \in Nat
      /\ repoLock \in RepoLockRow \cup {NoRepoLock} /\ repoLock.fence <= fences
      /\ trees \subseteq Attempts /\ gitRef \in [Attempts -> RefRow \cup {NoRef}]
      /\ BuilderOK(b)
  BY WorktreesAssumption DEF WorktreesInv, WorktreesTypeOK, BuilderRows
<1>b. Building(b) => /\ builder[b].attempt \in Attempts /\ builder[b].fence \in 0 .. MaxFences
                     /\ builder[b].at # "found none" => builder[b].fence \in 1 .. fences
                     /\ builder[b].at # "found none" =>
                          \A c \in Builders \ {b} : Locked(c) =>
                            builder[c].fence # builder[b].fence
  <2>1. Building(b) => builder[b] \in BuilderRow
    BY <1>a DEF BuilderRows, Building
  <2> QED BY <1>a, <2>1, WorktreeRows DEF BuilderOK, Locked, WorktreesInv
<1>1. ASSUME NEW a \in Attempts, FindNoWorktree(b, a) PROVE WorktreesInv'
  <2> DEFINE row == [at |-> "found none", attempt |-> a, fence |-> 0]
  <2>1. row \in BuilderRow /\ row.at = "found none"
    BY <1>a DEF BuilderRow
  <2>2. /\ builder' = [builder EXCEPT ![b] = row]
        /\ UNCHANGED <<repoLock, fences, trees, branches, gitRef, finished, sweep>>
    BY <1>1 DEF FindNoWorktree
  <2> HIDE DEF row
  <2>3. /\ builder' \in BuilderRows /\ builder'[b].at = "found none"
        /\ \A c \in Builders \ {b} : builder'[c] = builder[c]
    BY <1>a, <2>1, <2>2 DEF BuilderRows
  <2>4. BuilderOK(b)' /\ ~Locked(b)'
    BY <2>3 DEF BuilderOK, Locked, Entered, Reached
  <2>5. WorktreesTypeOK'
    BY <1>a, <2>2, <2>3 DEF WorktreesTypeOK, BuilderRows
  <2>6. fences <= fences' /\ repoLock'.fence <= fences'
    BY <1>a, <2>2
  <2> QED BY <2>2, <2>3, <2>4, <2>5, <2>6, OneBuilderMoves
<1>2. CASE AcquireRepositoryLock(b)
  <2>1. /\ Building(b) /\ fences < MaxFences /\ fences' = fences + 1
        /\ UNCHANGED <<trees, branches, gitRef, finished, sweep>>
    BY <1>2 DEF AcquireRepositoryLock, Reached
  <2>2. CASE Leave(b) /\ UNCHANGED repoLock
    <3>1. /\ builder' \in BuilderRows /\ ~Building(b)'
          /\ \A c \in Builders \ {b} : builder'[c] = builder[c]
      BY <2>2, BuilderLeaves
    <3>2. BuilderOK(b)' /\ ~Locked(b)'
      BY <3>1 DEF BuilderOK, Locked, Entered, Reached
    <3>3. fences' \in 0 .. MaxFences /\ fences <= fences' /\ repoLock'.fence <= fences'
      BY <1>a, <2>1, <2>2, LockRows
    <3>4. WorktreesTypeOK'
      BY <1>a, <2>1, <2>2, <3>1, <3>3 DEF WorktreesTypeOK, BuilderRows
    <3> QED BY <2>1, <2>2, <3>1, <3>2, <3>3, <3>4, OneBuilderMoves
  <2>3. CASE /\ repoLock' = [live |-> TRUE, fence |-> fences']
             /\ builder' = [builder EXCEPT ![b].at = "locked", ![b].fence = fences']
    <3>p. PICK n : n = fences'
      OBVIOUS
    <3> DEFINE row == [builder[b] EXCEPT !.at = "locked", !.fence = n]
    <3>0. fences' \in 1 .. MaxFences /\ fences <= fences' /\ fences' \notin 0 .. fences
      BY <1>a, <2>1
    <3>1. row \in BuilderRow /\ row.at = "locked" /\ row.fence = fences'
      <4>1. builder[b] \in BuilderRow
        BY <1>a, <2>1 DEF BuilderRows, Building
      <4>2. n \in 0 .. MaxFences
        BY <1>a, <3>0, <3>p
      <4> QED BY <3>p, <4>1, <4>2 DEF BuilderRow
    <3>2. builder' = [builder EXCEPT ![b] = row]
      BY <1>a, <2>3, <3>p DEF BuilderRows
    <3> HIDE DEF row
    <3>3. /\ builder' \in BuilderRows /\ builder'[b].at = "locked" /\ builder'[b].fence = fences'
          /\ \A c \in Builders \ {b} : builder'[c] = builder[c]
      BY <1>a, <3>1, <3>2 DEF BuilderRows
    <3>4. BuilderOK(b)'
      BY <3>0, <3>3 DEF BuilderOK, Entered, Reached
    <3>5. /\ repoLock' \in RepoLockRow /\ repoLock'.fence = fences' /\ repoLock'.fence <= fences'
      BY <2>3, <3>0 DEF RepoLockRow
    <3>6. WorktreesTypeOK'
      BY <1>a, <2>1, <3>0, <3>3, <3>5 DEF WorktreesTypeOK, BuilderRows
    <3>7. \A c \in Builders : Locked(c) => builder[c].fence # fences'
      BY <1>a, <3>0 DEF WorktreesInv, BuilderOK
    <3> QED BY <2>1, <3>0, <3>3, <3>4, <3>5, <3>6, <3>7, OneBuilderMoves
  <2> QED BY <1>2, <2>2, <2>3 DEF AcquireRepositoryLock
<1>3. CASE PrepareMirror(b)
  <2>1. /\ Building(b) /\ builder[b].at = "locked" /\ Step(b, "mirrored") /\ branches' = {}
        /\ UNCHANGED <<repoLock, fences, trees, gitRef, finished, sweep>>
    BY <1>3 DEF PrepareMirror, Reached
  <2>2. /\ builder' \in BuilderRows /\ builder'[b].at = "mirrored"
        /\ builder'[b].attempt = builder[b].attempt /\ builder'[b].fence = builder[b].fence
        /\ \A c \in Builders \ {b} : builder'[c] = builder[c]
    BY <2>1, BuilderSteps
  <2>3. BuilderOK(b)'
    BY <1>b, <2>1, <2>2 DEF BuilderOK, Entered, Reached
  <2>4. WorktreesTypeOK'
    BY <1>a, <2>1, <2>2 DEF WorktreesTypeOK, BuilderRows
  <2> QED BY <1>a, <1>b, <2>1, <2>2, <2>3, <2>4, OneBuilderMoves
<1>4. CASE AddWorktree(b)
  <2>1. /\ Building(b) /\ builder[b].at = "mirrored" /\ Step(b, "added")
        /\ trees' = trees \cup {builder[b].attempt}
        /\ branches' = branches \cup {builder[b].attempt}
        /\ UNCHANGED <<repoLock, fences, gitRef, finished, sweep>>
    BY <1>4 DEF AddWorktree, Reached, AttemptOf
  <2>2. /\ builder' \in BuilderRows /\ builder'[b].at = "added"
        /\ builder'[b].attempt = builder[b].attempt /\ builder'[b].fence = builder[b].fence
        /\ \A c \in Builders \ {b} : builder'[c] = builder[c]
    BY <2>1, BuilderSteps
  <2>3. BuilderOK(b)'
    BY <1>b, <2>1, <2>2 DEF BuilderOK, Entered, Reached, AttemptOf
  <2>4. WorktreesTypeOK'
    BY <1>a, <1>b, <2>1, <2>2 DEF WorktreesTypeOK, BuilderRows
  <2> QED BY <1>a, <1>b, <2>1, <2>2, <2>3, <2>4, OneBuilderMoves
<1>5. CASE InsertRef(b)
  <2>p. PICK a, f : a = builder[b].attempt /\ f = builder[b].fence
    OBVIOUS
  <2> DEFINE row == [status |-> "ACTIVE", fence |-> f]
  <2>1. /\ Building(b) /\ builder[b].at = "added" /\ Step(b, "working") /\ gitRef[a] = NoRef
        /\ gitRef' = [gitRef EXCEPT ![a] = row]
        /\ UNCHANGED <<repoLock, fences, trees, branches, finished, sweep>>
    BY <1>5, <2>p DEF InsertRef, Reached, AttemptOf
  <2>2. a \in Attempts /\ f \in 1 .. fences /\ f \in 1 .. MaxFences
    BY <1>a, <1>b, <2>p, <2>1
  <2>3. row \in RefRow /\ row.fence = f
    BY <2>2 DEF RefRow
  <2> HIDE DEF row
  <2>4. /\ gitRef' \in [Attempts -> RefRow \cup {NoRef}] /\ gitRef'[a] = row /\ row # NoRef
        /\ \A x \in Attempts \ {a} : gitRef'[x] = gitRef[x]
    BY <1>a, <2>1, <2>2, <2>3, WorktreeRows
  <2>5. /\ builder' \in BuilderRows /\ builder'[b].at = "working"
        /\ builder'[b].attempt = a /\ builder'[b].fence = f
        /\ \A c \in Builders \ {b} : builder'[c] = builder[c]
    BY <2>p, <2>1, BuilderSteps
  <2>6. a \in trees /\ a \notin sweep.rows \cup sweep.removed
    <3>1. a \in trees
      BY <1>a, <2>p, <2>1 DEF BuilderOK, Reached, AttemptOf
    <3> QED BY <2>1, <3>1 DEF WorktreesInv
  <2>7. BuilderOK(b)'
    BY <2>1, <2>2, <2>3, <2>4, <2>5, <2>6 DEF BuilderOK, Entered, Reached, AttemptOf
  <2>8. WorktreesTypeOK'
    BY <1>a, <2>1, <2>4, <2>5 DEF WorktreesTypeOK, BuilderRows
  <2>9. \A x \in Attempts : gitRef[x] # NoRef =>
          gitRef'[x] # NoRef /\ gitRef'[x].fence = gitRef[x].fence
    BY <2>1, <2>4
  <2> QED BY <1>a, <1>b, <2>p, <2>1, <2>5, <2>7, <2>8, <2>9, OneBuilderMoves
<1>6. CASE CreateThrows(b) \/ BuilderDies(b)
  <2>1. /\ Leave(b) /\ (ReleaseLock(b) \/ UNCHANGED repoLock)
        /\ UNCHANGED <<fences, trees, branches, gitRef, finished, sweep>>
    BY <1>6 DEF CreateThrows, BuilderDies
  <2>2. /\ builder' \in BuilderRows /\ ~Building(b)'
        /\ \A c \in Builders \ {b} : builder'[c] = builder[c]
    BY <2>1, BuilderLeaves
  <2>3. /\ repoLock' \in RepoLockRow \cup {NoRepoLock} /\ repoLock'.fence <= fences
        /\ repoLock'.live => repoLock' = repoLock
    BY <1>a, <2>1, LockReleased
  <2>4. BuilderOK(b)' /\ ~Locked(b)'
    BY <2>2 DEF BuilderOK, Locked, Entered, Reached
  <2>5. WorktreesTypeOK'
    BY <1>a, <2>1, <2>2, <2>3 DEF WorktreesTypeOK, BuilderRows
  <2> QED BY <1>a, <2>1, <2>2, <2>3, <2>4, <2>5, OneBuilderMoves
<1> QED BY <1>1, <1>2, <1>3, <1>4, <1>5, <1>6

\* Marking a ref as cleaned keeps its fence and enters no other.
LEMMA RefIsCleaned ==
  ASSUME WorktreesInv, NEW a \in Attempts, gitRef[a] # NoRef,
         gitRef' = [gitRef EXCEPT ![a].status = "CLEANED"]
  PROVE  /\ gitRef' \in [Attempts -> RefRow \cup {NoRef}]
         /\ \A x \in Attempts : gitRef[x] # NoRef =>
              gitRef'[x] # NoRef /\ gitRef'[x].fence = gitRef[x].fence
         /\ \A x \in Attempts : gitRef[x] = NoRef => gitRef'[x] = NoRef
<1> DEFINE row == [gitRef[a] EXCEPT !.status = "CLEANED"]
<1>1. gitRef \in [Attempts -> RefRow \cup {NoRef}] /\ gitRef[a] \in RefRow
  BY DEF WorktreesInv, WorktreesTypeOK
<1>2. row \in RefRow /\ row.fence = gitRef[a].fence /\ gitRef' = [gitRef EXCEPT ![a] = row]
  BY <1>1 DEF RefRow
<1> HIDE DEF row
<1>3. row # NoRef
  BY <1>2, WorktreeRows
<1> QED BY <1>1, <1>2, <1>3

\* The steps of the cleanup under the fence of its own lock.
LEMMA CleanupSteps ==
  ASSUME WorktreesInv, NEW b \in Builders,
         CheckFence(b) \/ RemoveWorktree(b) \/ MarkCleaned(b) \/ ReleaseAfterCleanup(b)
  PROVE  WorktreesInv'
<1>a. /\ WorktreesTypeOK /\ builder \in BuilderRows /\ fences \in 0 .. MaxFences
      /\ MaxFences \in Nat
      /\ repoLock \in RepoLockRow \cup {NoRepoLock} /\ repoLock.fence <= fences
      /\ trees \subseteq Attempts /\ gitRef \in [Attempts -> RefRow \cup {NoRef}]
      /\ BuilderOK(b) /\ Building(b)
  BY WorktreesAssumption
     DEF WorktreesInv, WorktreesTypeOK, BuilderRows, CheckFence, RemoveWorktree,
     MarkCleaned, ReleaseAfterCleanup, Reached
<1>p. PICK a, f : a = builder[b].attempt /\ f = builder[b].fence
  OBVIOUS
<1>b. /\ a \in Attempts /\ f \in 1 .. fences /\ gitRef[a] # NoRef /\ gitRef[a].fence = f
      /\ \A c \in Builders \ {b} : Locked(c) => builder[c].fence # f
  <2>1. builder[b] \in BuilderRow
    BY <1>a DEF BuilderRows, Building
  <2>2. Entered(b) /\ Locked(b)
    BY DEF Entered, Locked, CheckFence, RemoveWorktree, MarkCleaned, ReleaseAfterCleanup, Reached
  <2> QED BY <1>a, <1>p, <2>1, <2>2, WorktreeRows DEF BuilderOK, WorktreesInv, AttemptOf
<1>c. fences <= fences /\ repoLock.fence <= fences
  BY <1>a
<1>1. CASE CheckFence(b) \/ RemoveWorktree(b)
  <2>1. PICK at \in {"may remove", "removed"} : Step(b, at)
    BY <1>1 DEF CheckFence, RemoveWorktree
  <2>2. /\ trees' \in {trees, trees \ {a}}
        /\ UNCHANGED <<repoLock, fences, branches, gitRef, finished, sweep>>
    BY <1>1, <1>p DEF CheckFence, RemoveWorktree, AttemptOf
  <2>3. /\ builder' \in BuilderRows /\ builder'[b].at = at
        /\ builder'[b].attempt = a /\ builder'[b].fence = f
        /\ \A c \in Builders \ {b} : builder'[c] = builder[c]
    BY <1>a, <1>p, <2>1, BuilderSteps
  <2>4. BuilderOK(b)'
    BY <1>b, <2>1, <2>2, <2>3 DEF BuilderOK, Entered, Reached, AttemptOf
  <2>5. WorktreesTypeOK'
    BY <1>a, <2>2, <2>3 DEF WorktreesTypeOK, BuilderRows
  <2>6. ASSUME NEW c \in Builders \ {b},
               (Reached(c, "added") /\ gitRef[AttemptOf(c)] = NoRef) \/ Reached(c, "working"),
               AttemptOf(c) \in trees
        PROVE  AttemptOf(c) \in trees'
    <3> SUFFICES ASSUME AttemptOf(c) = a PROVE FALSE
      BY <2>2, <2>6
    <3>1. Reached(c, "working")
      BY <1>b, <2>6
    <3>2. Entered(c) /\ Locked(c)
      BY <3>1 DEF Entered, Locked, Reached
    <3>3. builder[c].fence = f
      BY <1>b, <3>2 DEF WorktreesInv, BuilderOK
    <3> QED BY <1>b, <3>2, <3>3
  <2>7. fences <= fences' /\ repoLock'.fence <= fences'
    BY <1>c, <2>2
  <2>8. BuilderOK(b)'
        /\ (Locked(b)' => \A c \in Builders \ {b} :
                             Locked(c) => builder[c].fence # builder'[b].fence)
    BY <1>b, <2>3, <2>4
  <2>9. \A x \in Attempts : gitRef[x] # NoRef =>
          gitRef'[x] # NoRef /\ gitRef'[x].fence = gitRef[x].fence
    BY <2>2
  <2> QED BY <2>2, <2>3, <2>5, <2>6, <2>7, <2>8, <2>9, OneBuilderMoves
<1>2. CASE MarkCleaned(b)
  <2>1. /\ Step(b, "marked") /\ gitRef' = [gitRef EXCEPT ![a].status = "CLEANED"]
        /\ UNCHANGED <<repoLock, fences, trees, branches, finished, sweep>>
    BY <1>2, <1>p DEF MarkCleaned, AttemptOf
  <2>2. /\ gitRef' \in [Attempts -> RefRow \cup {NoRef}]
        /\ \A x \in Attempts : gitRef[x] # NoRef =>
             gitRef'[x] # NoRef /\ gitRef'[x].fence = gitRef[x].fence
    BY <1>b, <2>1, RefIsCleaned
  <2>3. /\ builder' \in BuilderRows /\ builder'[b].at = "marked"
        /\ builder'[b].attempt = a /\ builder'[b].fence = f
        /\ \A c \in Builders \ {b} : builder'[c] = builder[c]
    BY <1>a, <1>p, <2>1, BuilderSteps
  <2>4. BuilderOK(b)'
    BY <1>b, <2>1, <2>2, <2>3 DEF BuilderOK, Entered, Reached, AttemptOf
  <2>5. WorktreesTypeOK'
    BY <1>a, <2>1, <2>2, <2>3 DEF WorktreesTypeOK, BuilderRows
  <2> QED BY <1>a, <1>b, <2>1, <2>2, <2>3, <2>4, <2>5, OneBuilderMoves
<1>3. CASE ReleaseAfterCleanup(b)
  <2>1. /\ Leave(b) /\ ReleaseLock(b)
        /\ UNCHANGED <<fences, trees, branches, gitRef, finished, sweep>>
    BY <1>3 DEF ReleaseAfterCleanup
  <2>2. /\ builder' \in BuilderRows /\ ~Building(b)'
        /\ \A c \in Builders \ {b} : builder'[c] = builder[c]
    BY <2>1, BuilderLeaves
  <2>3. /\ repoLock' \in RepoLockRow \cup {NoRepoLock} /\ repoLock'.fence <= fences
        /\ repoLock'.live => repoLock' = repoLock
    BY <2>1, LockReleased
  <2>4. BuilderOK(b)' /\ ~Locked(b)'
    BY <2>2 DEF BuilderOK, Locked, Entered, Reached
  <2>5. WorktreesTypeOK'
    BY <1>a, <2>1, <2>2, <2>3 DEF WorktreesTypeOK, BuilderRows
  <2> QED BY <1>a, <2>1, <2>2, <2>3, <2>4, <2>5, OneBuilderMoves
<1> QED BY <1>1, <1>2, <1>3

\* A step of the maintenance job, the end of a lease, or of a task.
LEMMA NoBuilderMoves ==
  ASSUME WorktreesInv, WorktreesTypeOK', UNCHANGED <<fences, builder>>,
         repoLock'.fence = repoLock.fence, repoLock'.live => repoLock.live,
         \A a \in Attempts : gitRef[a] # NoRef =>
           gitRef'[a] # NoRef /\ gitRef'[a].fence = gitRef[a].fence,
         \A a \in Attempts : gitRef[a] = NoRef =>
           gitRef'[a] = NoRef /\ (a \in trees => a \in trees'),
         \A a \in sweep'.rows \cup sweep'.removed : gitRef'[a] # NoRef,
         \A c \in Builders : Reached(c, "working") /\ OwnsLock(c)' =>
           /\ AttemptOf(c) \in trees => AttemptOf(c) \in trees'
           /\ AttemptOf(c) \notin sweep'.rows \cup sweep'.removed
  PROVE  WorktreesInv'
<1>1. fences \in Nat /\ repoLock.fence <= fences
  BY WorktreesAssumption DEF WorktreesInv, WorktreesTypeOK
<1>2. ASSUME NEW c \in Builders PROVE BuilderOK(c)'
  <2>1. Building(c) => AttemptOf(c) \in Attempts
    BY WorktreeRows DEF WorktreesInv, WorktreesTypeOK, Building, AttemptOf
  <2>2. Reached(c, "added") /\ gitRef'[AttemptOf(c)] = NoRef =>
          AttemptOf(c) \in trees \cap trees' \/ AttemptOf(c) \notin trees
    BY <2>1 DEF Reached
  <2>3. OwnsLock(c)' => OwnsLock(c)
    BY DEF OwnsLock
  <2>4. BuilderOK(c)
    BY DEF WorktreesInv
  <2> QED BY <1>1, <2>1, <2>2, <2>3, <2>4, OthersKept
<1>3. \A b, c \in Builders :
        (Locked(b)' /\ Locked(c)' /\ builder'[b].fence = builder'[c].fence) => b = c
  BY DEF WorktreesInv, Locked, Building
<1> QED BY <1>1, <1>2, <1>3 DEF WorktreesInv

\* The steps of the periodic sweep, of the lease and of the task: the sweep takes no directory
\* whose builder still has its lock.
LEMMA SweepSteps ==
  ASSUME WorktreesInv,
         \/ SelectRows \/ SweepDies \/ LeaseRunsOut
         \/ \E a \in Attempts : SweepRemoves(a) \/ SweepMarks(a) \/ FinishTask(a)
  PROVE  WorktreesInv'
<1>a. /\ WorktreesTypeOK /\ repoLock \in RepoLockRow \cup {NoRepoLock}
      /\ gitRef \in [Attempts -> RefRow \cup {NoRef}]
      /\ sweep \in [rows : SUBSET Attempts, removed : SUBSET Attempts]
      /\ sweep.rows \subseteq Attempts /\ sweep.removed \subseteq Attempts
      /\ \A a \in sweep.rows \cup sweep.removed : gitRef[a] # NoRef
  BY DEF WorktreesInv, WorktreesTypeOK
<1>b. \A c \in Builders : Reached(c, "working") /\ OwnsLock(c) =>
        AttemptOf(c) \in trees /\ AttemptOf(c) \notin sweep.rows \cup sweep.removed
  BY DEF WorktreesInv, BuilderOK
<1>c. repoLock' = repoLock /\ builder' = builder => \A c \in Builders : OwnsLock(c)' <=>
        OwnsLock(c)
  BY DEF OwnsLock
<1>1. CASE SelectRows
  <2>1. /\ sweep' = [rows |-> {a \in Attempts : Sweeps(a)}, removed |-> {}]
        /\ UNCHANGED <<repoLock, fences, trees, branches, gitRef, finished, builder>>
    BY <1>1 DEF SelectRows
  <2>2. /\ sweep' \in [rows : SUBSET Attempts, removed : SUBSET Attempts]
        /\ sweep'.rows \cup sweep'.removed = {a \in Attempts : Sweeps(a)}
    BY <2>1
  <2>3. \A a \in Attempts : Sweeps(a) => gitRef[a] # NoRef /\ ~repoLock.live
    BY DEF Sweeps, NoRef
  <2>4. \A c \in Builders : OwnsLock(c) => sweep'.rows \cup sweep'.removed = {}
    BY <2>2, <2>3 DEF OwnsLock
  <2>5. WorktreesTypeOK'
    BY <1>a, <2>1, <2>2 DEF WorktreesTypeOK
  <2> QED BY <1>c, <2>1, <2>2, <2>3, <2>4, <2>5, NoBuilderMoves
<1>2. CASE SweepDies
  <2>1. sweep' = NoSweep /\ UNCHANGED <<repoLock, fences, trees, branches, gitRef, finished,
        builder>>
    BY <1>2 DEF SweepDies
  <2>2. /\ sweep' \in [rows : SUBSET Attempts, removed : SUBSET Attempts]
        /\ sweep'.rows \cup sweep'.removed = {}
    BY <2>1 DEF NoSweep
  <2>3. WorktreesTypeOK'
    BY <1>a, <2>1, <2>2 DEF WorktreesTypeOK
  <2> QED BY <2>1, <2>2, <2>3, NoBuilderMoves
<1>3. CASE LeaseRunsOut
  <2>1. /\ repoLock.live /\ repoLock' = [repoLock EXCEPT !.live = FALSE]
        /\ UNCHANGED <<fences, trees, branches, gitRef, finished, builder, sweep>>
    BY <1>3 DEF LeaseRunsOut
  <2>2. repoLock \in RepoLockRow
    BY <1>a, <2>1 DEF NoRepoLock
  <2>3. repoLock' \in RepoLockRow /\ repoLock'.fence = repoLock.fence /\ ~repoLock'.live
    BY <2>1, <2>2 DEF RepoLockRow
  <2>4. WorktreesTypeOK'
    BY <1>a, <2>1, <2>3 DEF WorktreesTypeOK
  <2>5. \A c \in Builders : ~OwnsLock(c)'
    BY <2>3 DEF OwnsLock
  <2> QED BY <1>a, <2>1, <2>3, <2>4, <2>5, NoBuilderMoves
<1>4. ASSUME NEW a \in Attempts, SweepRemoves(a) PROVE WorktreesInv'
  <2>1. a \in sweep.rows /\ UNCHANGED <<repoLock, fences, branches, gitRef, finished, builder>>
    BY <1>4 DEF SweepRemoves
  <2>2. CASE trees' = trees \ {a} /\ sweep' = [sweep EXCEPT !.removed = {a}]
    <3>1. /\ sweep' \in [rows : SUBSET Attempts, removed : SUBSET Attempts]
          /\ sweep'.rows \cup sweep'.removed = sweep.rows
      BY <1>a, <2>1, <2>2
    <3>2. WorktreesTypeOK'
      BY <1>a, <2>1, <2>2, <3>1 DEF WorktreesTypeOK
    <3>3. \A c \in Builders : Reached(c, "working") /\ OwnsLock(c)' =>
            /\ AttemptOf(c) \in trees => AttemptOf(c) \in trees'
            /\ AttemptOf(c) \notin sweep'.rows \cup sweep'.removed
      BY <1>b, <1>c, <2>1, <2>2, <3>1
    <3> QED BY <1>a, <2>1, <2>2, <3>1, <3>2, <3>3, NoBuilderMoves
  <2>3. CASE sweep' = NoSweep /\ UNCHANGED trees
    <3>1. /\ sweep' \in [rows : SUBSET Attempts, removed : SUBSET Attempts]
          /\ sweep'.rows \cup sweep'.removed = {}
      BY <2>3 DEF NoSweep
    <3>2. WorktreesTypeOK'
      BY <1>a, <2>1, <2>3, <3>1 DEF WorktreesTypeOK
    <3> QED BY <2>1, <2>3, <3>1, <3>2, NoBuilderMoves
  <2> QED BY <1>4, <2>2, <2>3 DEF SweepRemoves
<1>5. ASSUME NEW a \in Attempts, SweepMarks(a) PROVE WorktreesInv'
  <2>1. /\ a \in sweep.removed /\ gitRef' = [gitRef EXCEPT ![a].status = "CLEANED"]
        /\ sweep' = [rows |-> sweep.rows \ {a}, removed |-> {}]
        /\ UNCHANGED <<repoLock, fences, trees, branches, finished, builder>>
    BY <1>5 DEF SweepMarks
  <2>2. /\ gitRef' \in [Attempts -> RefRow \cup {NoRef}]
        /\ \A x \in Attempts : gitRef[x] # NoRef =>
             gitRef'[x] # NoRef /\ gitRef'[x].fence = gitRef[x].fence
        /\ \A x \in Attempts : gitRef[x] = NoRef => gitRef'[x] = NoRef
    BY <1>a, <2>1, RefIsCleaned
  <2>3. /\ sweep' \in [rows : SUBSET Attempts, removed : SUBSET Attempts]
        /\ sweep'.rows \cup sweep'.removed \subseteq sweep.rows
    BY <1>a, <2>1
  <2>4. WorktreesTypeOK'
    BY <1>a, <2>1, <2>2, <2>3 DEF WorktreesTypeOK
  <2>5. \A c \in Builders : Reached(c, "working") /\ OwnsLock(c)' =>
          AttemptOf(c) \notin sweep'.rows \cup sweep'.removed
    BY <1>b, <1>c, <2>1, <2>3
  <2>6. \A x \in sweep'.rows \cup sweep'.removed : gitRef'[x] # NoRef
    BY <1>a, <2>2, <2>3
  <2> QED BY <2>1, <2>2, <2>4, <2>5, <2>6, NoBuilderMoves
<1>6. ASSUME NEW a \in Attempts, FinishTask(a) PROVE WorktreesInv'
  <2>1. /\ finished' = finished \cup {a}
        /\ UNCHANGED <<repoLock, fences, trees, branches, gitRef, builder, sweep>>
    BY <1>6 DEF FinishTask
  <2>2. WorktreesTypeOK'
    BY <1>a, <2>1 DEF WorktreesTypeOK
  <2>3. \A c \in Builders : Reached(c, "working") /\ OwnsLock(c)' =>
          AttemptOf(c) \notin sweep'.rows \cup sweep'.removed
    BY <1>b, <1>c, <2>1
  <2> QED BY <1>a, <2>1, <2>2, <2>3, NoBuilderMoves
<1> QED BY <1>1, <1>2, <1>3, <1>4, <1>5, <1>6

\* Every step of Worktrees preserves the invariant.
LEMMA WorktreesStepInv == WorktreesInv /\ [WorktreesNext]_worktreeVars => WorktreesInv'
<1> SUFFICES ASSUME WorktreesInv, [WorktreesNext]_worktreeVars PROVE WorktreesInv'
  OBVIOUS
<1>1. CASE UNCHANGED worktreeVars
  BY <1>1 DEF worktreeVars, WorktreesInv, WorktreesTypeOK, BuilderOK, Locked, Entered, Reached,
     Building, AttemptOf, OwnsLock
<1> QED BY <1>1, CreateSteps, CleanupSteps, SweepSteps DEF WorktreesNext

\* For any builders, attempts and fences: Worktrees.HeldWorktreeStays.  Between insert and
\* cleanup, a builder that still has its repository lock has its directory: neither the sweep nor
\* another builder removes it (git-client.ts, cleanup-service.ts).
THEOREM HeldDirectoryStays == WorktreesSpec => [](WorktreesTypeOK /\ HeldWorktreeStays)
<1>1. WorktreesInv => WorktreesTypeOK /\ HeldWorktreeStays
  BY DEF WorktreesInv, BuilderOK, HeldWorktreeStays, OwnsLock
<1> QED BY <1>1, WorktreesInitInv, WorktreesStepInv, PTL DEF WorktreesSpec

-------------------------------------------------------------------------------
(* Runtime processes.                                                      *)

\* A file of some process, with its pid or still empty.
PidFile == [by : Pids, text : Pids \cup {Blank}]

\* Where a process that holds the lock may be; only such a process has its pid in the file.
RowOK(p) ==
  /\ process[p].holds => process[p].up \in {"start", "unsocket", "listen", "serve", "failed"}
  /\ process[p].down \in {"release", "unlink"} => process[p].holds
  /\ process[p].up # "failed" => process[p].tries < 2
  /\ Says(p) => process[p].holds

\* A command whose process may be on its way up or down.
Waits(c) == CommandAt(c, "start", "poll") \/ CommandAt(c, "stop", "wait") \/ CommandAt(c,
  "stop", "kill")

\* One command at a time, one process under way, and that of the command.
Alone ==
  /\ \A p, q \in Pids : (~Settled(p) /\ ~Settled(q)) => p = q
  /\ \A c, d \in Commands : (command[c] # NoCommand /\ command[d] # NoCommand) => c = d
  /\ \A c \in Commands, p \in Pids :
       (command[c] # NoCommand /\ ~Settled(p)) => (Waits(c) /\ command[c].pid = p)

\* Of processes that came up one at a time: the holder is in the file, and whoever is about to
\* write or remove the file is alone with it.
Recorded(p) ==
  /\ Holds(p) => Says(p)
  /\ (Alive(p) /\ process[p].up = "write") => pidFile = [by |-> p, text |-> Blank]
  /\ (Alive(p) /\ process[p].up = "remove") => \A q \in Pids : ~Holds(q)
  /\ (Alive(p) /\ process[p].down = "unlink") => \A q \in Pids \ {p} : ~Holds(q)

\* Of commands typed one at a time: nobody holds the lock whose file a command removes.
Cleared(c) ==
  /\ (CommandAt(c, "start", "remove") \/ CommandAt(c, "stop", "unlock")) =>
       \A q \in Pids : ~Holds(q)
  /\ (CommandAt(c, "stop", "wait") \/ CommandAt(c, "stop", "kill")) =>
       \A q \in Pids \ {command[c].pid} : ~Holds(q)

\* As long as nothing has started over something else (overlap is FALSE), all three hold.
RuntimeInv ==
  /\ RuntimeTypeOK
  /\ \A p \in Pids : RowOK(p)
  /\ ~overlap => /\ Alone
                 /\ \A p \in Pids : Recorded(p)
                 /\ \A c \in Commands : Cleared(c)

\* What is set of a row is what it holds.
LEMMA RowSet ==
  ASSUME RuntimeTypeOK, NEW p \in Pids, NEW row \in Process, SetProcess(p, row)
  PROVE  /\ process' \in [Pids -> Process]
         /\ process'[p].up = row.up /\ process'[p].down = row.down
         /\ process'[p].tries = row.tries
         /\ process'[p].holds = row.holds /\ process'[p].dead = Ends(row)
         /\ \A q \in Pids \ {p} : process'[q] = process[q]
<1> DEFINE new == [row EXCEPT !.dead = Ends(row)]
<1>1. Ends(row) \in BOOLEAN
  BY DEF Ends
<1>2. /\ new \in Process /\ new.up = row.up /\ new.down = row.down /\ new.tries = row.tries
      /\ new.holds = row.holds /\ new.dead = Ends(row)
  BY <1>1 DEF Process
<1>3. process' = [process EXCEPT ![p] = new]
  BY DEF SetProcess
<1> HIDE DEF new
<1> QED BY <1>2, <1>3 DEF RuntimeTypeOK

\* What Up does to a row: the process is further in its start, and nothing else.
LEMMA GoesUp ==
  ASSUME RuntimeTypeOK, NEW p \in Pids, NEW up \in Startup, Up(p, up)
  PROVE  /\ process' \in [Pids -> Process]
         /\ process'[p].up = up /\ process'[p].down = process[p].down
         /\ process'[p].tries = process[p].tries /\ process'[p].holds = process[p].holds
         /\ \A q \in Pids \ {p} : process'[q] = process[q]
<1> DEFINE row == [process[p] EXCEPT !.up = up]
<1>1. process[p] \in Process
  BY DEF RuntimeTypeOK
<1>2. /\ row \in Process /\ row.up = up /\ row.down = process[p].down
      /\ row.tries = process[p].tries /\ row.holds = process[p].holds
  BY <1>1 DEF Process
<1>3. SetProcess(p, row)
  BY DEF Up
<1> HIDE DEF row
<1> QED BY <1>2, <1>3, RowSet

\* What StartupFails does to a row: the process goes on to close, and holds what it held.
LEMMA Fails ==
  ASSUME RuntimeTypeOK, NEW p \in Pids, NEW tries \in 0 .. 2, StartupFails(p, tries)
  PROVE  /\ process' \in [Pids -> Process]
         /\ process'[p].up = "failed" /\ process'[p].tries = tries
         /\ process'[p].holds = process[p].holds
         /\ process'[p].down = (IF process[p].down = "none" THEN "close" ELSE process[p].down)
         /\ \A q \in Pids \ {p} : process'[q] = process[q]
<1> DEFINE row == [process[p] EXCEPT !.up = "failed", !.tries = tries,
                                     !.down = IF @ = "none" THEN "close" ELSE @]
<1>1. process[p] \in Process
  BY DEF RuntimeTypeOK
<1>2. /\ row \in Process /\ row.up = "failed" /\ row.tries = tries
      /\ row.holds = process[p].holds
      /\ row.down = (IF process[p].down = "none" THEN "close" ELSE process[p].down)
  BY <1>1 DEF Process, Startup, Shutdown
<1>3. SetProcess(p, row)
  BY DEF StartupFails
<1> HIDE DEF row
<1> QED BY <1>2, <1>3, RowSet

\* A process that goes on in its shutdown is where it is in its start.
LEMMA GoesDown ==
  ASSUME RuntimeTypeOK, NEW p \in Pids, NEW down \in Shutdown,
         SetProcess(p, [process[p] EXCEPT !.down = down])
  PROVE  /\ process' \in [Pids -> Process]
         /\ process'[p].up = process[p].up /\ process'[p].down = down
         /\ process'[p].tries = process[p].tries /\ process'[p].holds = process[p].holds
         /\ \A q \in Pids \ {p} : process'[q] = process[q]
<1> DEFINE row == [process[p] EXCEPT !.down = down]
<1>1. process[p] \in Process
  BY DEF RuntimeTypeOK
<1>2. /\ row \in Process /\ row.up = process[p].up /\ row.down = down
      /\ row.tries = process[p].tries /\ row.holds = process[p].holds
  BY <1>1 DEF Process
<1>3. SetProcess(p, row)
  OBVIOUS
<1> HIDE DEF row
<1> QED BY <1>2, <1>3, RowSet

\* A process that is killed keeps its row and is dead.
LEMMA Dies ==
  ASSUME RuntimeTypeOK, NEW p \in Pids, Killed(p)
  PROVE  /\ process' \in [Pids -> Process]
         /\ process'[p].up = process[p].up /\ process'[p].down = process[p].down
         /\ process'[p].tries = process[p].tries /\ process'[p].holds = process[p].holds
         /\ process'[p].dead
         /\ \A q \in Pids \ {p} : process'[q] = process[q]
<1> DEFINE row == [process[p] EXCEPT !.dead = TRUE]
<1>1. process[p] \in Process
  BY DEF RuntimeTypeOK
<1>2. /\ row \in Process /\ row.up = process[p].up /\ row.down = process[p].down
      /\ row.tries = process[p].tries /\ row.holds = process[p].holds /\ row.dead = TRUE
  BY <1>1 DEF Process
<1>3. process' = [process EXCEPT ![p] = row]
  BY DEF Killed
<1> HIDE DEF row
<1> QED BY <1>2, <1>3 DEF RuntimeTypeOK

\* At the start there is no process, no command and no file.
LEMMA RuntimeInitInv == RuntimeInit => RuntimeInv
<1> SUFFICES ASSUME RuntimeInit PROVE RuntimeInv
  OBVIOUS
<1>1. RuntimeTypeOK
  <2>1. NotSpawned \in Process
    BY DEF NotSpawned, Process, Startup, Shutdown
  <2> HIDE DEF NotSpawned
  <2> QED BY <2>1 DEF RuntimeInit, RuntimeTypeOK
<1>2. \A p \in Pids : /\ process[p].up = "none" /\ process[p].down = "none"
                      /\ process[p].holds = FALSE /\ process[p].tries = 0
  BY DEF RuntimeInit, NotSpawned
<1>3. \A p \in Pids : RowOK(p) /\ ~Alive(p)
  <2>1. \A p \in Pids : ~Says(p)
    BY DEF RuntimeInit, Says
  <2>2. 0 < 2
    OBVIOUS
  <2> QED BY <1>2, <2>1, <2>2 DEF RowOK, Alive
<1>4. \A c \in Commands : command[c] = NoCommand
  BY DEF RuntimeInit
<1>5. Alone
  BY <1>3, <1>4 DEF Alone, Settled
<1>6. \A p \in Pids : Recorded(p)
  BY <1>3 DEF Recorded, Holds
<1>7. \A c \in Commands : Cleared(c)
  BY <1>4 DEF Cleared, CommandAt
<1> QED BY <1>1, <1>3, <1>5, <1>6, <1>7 DEF RuntimeInv

\* A process that is under way moves: it is the only one.
LEMMA ProcessMoves ==
  ASSUME RuntimeInv, RuntimeTypeOK', NEW p \in Pids, ~Settled(p),
         \A q \in Pids \ {p} : process'[q] = process[q], UNCHANGED <<command, overlap>>,
         RowOK(p)', \A q \in Pids \ {p} : Says(q)' => Says(q),
         ~overlap => (Recorded(p)' /\ \A q \in Pids \ {p} : Holds(q) => Says(q)')
  PROVE  RuntimeInv'
<1>1. \A q \in Pids \ {p} : (Alive(q)' <=> Alive(q)) /\ (Settled(q)' <=> Settled(q))
      /\ (Holds(q)' <=> Holds(q))
  BY DEF Alive, Settled, Holds
<1>2. \A q \in Pids : RowOK(q)'
  BY DEF RuntimeInv, RowOK
<1>3. ASSUME ~overlap
      PROVE  Alone' /\ (\A q \in Pids : Recorded(q)') /\ (\A c \in Commands : Cleared(c)')
  <2>1. Alone /\ \A q \in Pids \ {p} : Settled(q)
    BY <1>3 DEF RuntimeInv, Alone
  <2>2. Alone'
    <3>1. \A q \in Pids : ~Settled(q)' => q = p
      BY <1>1, <2>1
    <3>2. \A c \in Commands : (Waits(c)' <=> Waits(c)) /\ command'[c] = command[c]
      BY DEF Waits, CommandAt
    <3> QED BY <2>1, <3>1, <3>2 DEF Alone
  <2>3. ASSUME NEW q \in Pids \ {p} PROVE Recorded(q)'
    <3>1. ~Alive(q) \/ (process[q].up \notin {"write", "remove"} /\ process[q].down # "unlink")
      BY <2>1 DEF Settled
    <3> QED BY <1>1, <1>3, <3>1 DEF Recorded
  <2>4. ASSUME NEW c \in Commands PROVE Cleared(c)'
    <3>1. CASE command[c] = NoCommand
      BY <3>1 DEF Cleared, CommandAt
    <3>2. CASE command[c] # NoCommand
      <4>1. Waits(c) /\ command[c].pid = p /\ Cleared(c)
        BY <1>3, <2>1, <3>2 DEF Alone, RuntimeInv
      <4>2. ~CommandAt(c, "start", "remove")' /\ ~CommandAt(c, "stop", "unlock")'
        BY <4>1 DEF Waits, CommandAt
      <4> QED BY <1>1, <4>1, <4>2 DEF Cleared, CommandAt
    <3> QED BY <3>1, <3>2
  <2> QED BY <1>3, <2>2, <2>3, <2>4
<1> QED BY <1>2, <1>3 DEF RuntimeInv

\* The command that is typed moves, and perhaps a process with it.
LEMMA CommandMoves ==
  ASSUME RuntimeInv, RuntimeTypeOK', NEW c \in Commands, command[c] # NoCommand,
         \A d \in Commands \ {c} : command'[d] = command[d], UNCHANGED overlap,
         \A p \in Pids : RowOK(p)',
         ~overlap =>
           /\ \A p, q \in Pids : (~Settled(p)' /\ ~Settled(q)') => p = q
           /\ \A p \in Pids : (command'[c] # NoCommand /\ ~Settled(p)') =>
                                (Waits(c)' /\ command'[c].pid = p)
           /\ \A p \in Pids : Recorded(p)'
           /\ Cleared(c)'
  PROVE  RuntimeInv'
<1>1. ASSUME ~overlap
      PROVE  Alone' /\ \A d \in Commands : Cleared(d)'
  <2>1. \A d \in Commands \ {c} : command'[d] = NoCommand
    BY <1>1 DEF RuntimeInv, Alone
  <2>2. Alone'
    BY <1>1, <2>1 DEF Alone
  <2>3. \A d \in Commands \ {c} : Cleared(d)'
    BY <2>1 DEF Cleared, CommandAt
  <2> QED BY <1>1, <2>2, <2>3
<1> QED BY <1>1 DEF RuntimeInv

\* No command is not a command; one that polls, waits or kills has a pid.
LEMMA CommandRows ==
  /\ NoCommand \notin Command
  /\ \A r \in Command : /\ r.kind \in {"start", "stop"}
                         /\ r.at \in {"poll", "wait", "kill"} => r.pid \in Pids
BY DEF NoCommand, Command

\* A command goes on to where its row is of its kind.
LEMMA CommandRowSet ==
  ASSUME RuntimeTypeOK, NEW c \in Commands, command[c] # NoCommand, NEW at, NEW p,
         [kind |-> command[c].kind, at |-> at, pid |-> p] \in Command, CommandGoes(c, at, p)
  PROVE  /\ command' \in [Commands -> Command \cup {NoCommand}] /\ command'[c] # NoCommand
         /\ command'[c].kind = command[c].kind /\ command'[c].at = at /\ command'[c].pid = p
         /\ \A d \in Commands \ {c} : command'[d] = command[d]
<1> DEFINE row == [command[c] EXCEPT !.at = at, !.pid = p]
<1>1. command[c] \in Command /\ command \in [Commands -> Command \cup {NoCommand}]
  BY DEF RuntimeTypeOK
<1>2. row = [kind |-> command[c].kind, at |-> at, pid |-> p]
  <2>1. PICK x : x = command[c]
    OBVIOUS
  <2>2. PICK K, A, P : x \in [kind : K, at : A, pid : P]
    BY <1>1, <2>1 DEF Command
  <2>3. [x EXCEPT !.at = at, !.pid = p] \in [kind : {x.kind}, at : {at}, pid : {p}]
    BY <2>2
  <2>4. \A y : y \in [kind : {x.kind}, at : {at}, pid : {p}] => y = [kind |-> x.kind, at |-> at,
        pid |-> p]
    OBVIOUS
  <2> QED BY <2>1, <2>3, <2>4
<1>3. command' = [command EXCEPT ![c] = row]
  BY DEF CommandGoes
<1>4. row \in Command /\ row.kind = command[c].kind /\ row.at = at /\ row.pid = p
  BY <1>2
<1> HIDE DEF row
<1> QED BY <1>1, <1>3, <1>4, CommandRows

\* A command that ends is gone, and moves no other.
LEMMA CommandGone ==
  ASSUME RuntimeTypeOK, NEW c \in Commands, CommandEnds(c)
  PROVE  /\ command' \in [Commands -> Command \cup {NoCommand}] /\ command'[c] = NoCommand
         /\ \A d \in Commands \ {c} : command'[d] = command[d]
BY DEF RuntimeTypeOK, CommandEnds

\* The file stays as it is and the process takes no lock, gives none up half.
LEMMA FileIsLeft ==
  ASSUME RuntimeInv, NEW p \in Pids, Alive(p), ~Settled(p),
         process' \in [Pids -> Process], socket' \in Pids \cup {NoFile},
         \A q \in Pids \ {p} : process'[q] = process[q], UNCHANGED <<pidFile, command, overlap>>,
         process'[p].holds = process[p].holds,
         process'[p].down # "done" => process[p].down # "done",
         process'[p].down \in {"release", "unlink"} => process[p].holds,
         process'[p].down = "unlink" => (process[p].down = "unlink" \/ Says(p)),
         process'[p].up \in {"write", "remove"} => process'[p].up = process[p].up,
         process[p].holds => process'[p].up \in {"start", "unsocket", "listen", "serve",
           "failed"},
         process'[p].up # "failed" => process'[p].tries < 2
  PROVE  RuntimeInv'
<1>1. RuntimeTypeOK'
  BY DEF RuntimeInv, RuntimeTypeOK
<1>2. \A q \in Pids : Says(q)' <=> Says(q)
  BY DEF Says
<1>3. RowOK(p)'
  BY <1>2 DEF RuntimeInv, RowOK
<1>4. \A q \in Pids : Holds(q)' => Holds(q)
  BY DEF Holds, Alive
<1>5. ASSUME ~overlap PROVE Recorded(p)' /\ \A q \in Pids \ {p} : Holds(q) => Says(q)'
  <2>1. \A q \in Pids : Recorded(q)
    BY <1>5 DEF RuntimeInv
  <2>2. Says(p) => \A q \in Pids \ {p} : ~Holds(q)
    BY <2>1 DEF Recorded, Says
  <2> QED BY <1>2, <1>4, <2>1, <2>2 DEF Recorded
<1> QED BY <1>1, <1>2, <1>3, <1>5, ProcessMoves

\* The file is removed, by whom there is no lock of another.
LEMMA FileIsRemoved ==
  ASSUME RuntimeInv, NEW p \in Pids, ~Settled(p), RuntimeTypeOK',
         \A q \in Pids \ {p} : process'[q] = process[q], UNCHANGED <<command, overlap>>,
         pidFile' = NoFile, ~overlap => \A q \in Pids \ {p} : ~Holds(q),
         ~Holds(p)', process'[p].up \notin {"write", "remove"}, process'[p].down # "unlink",
         process'[p].holds => process'[p].up \in {"start", "unsocket", "listen", "serve",
           "failed"},
         process'[p].down = "release" => process'[p].holds,
         process'[p].up # "failed" => process'[p].tries < 2
  PROVE  RuntimeInv'
<1>1. \A q \in Pids : ~Says(q)'
  BY DEF Says
<1>2. RowOK(p)'
  BY <1>1 DEF RowOK
<1>3. Recorded(p)'
  BY DEF Recorded
<1> QED BY <1>1, <1>2, <1>3, ProcessMoves

\* The steps of acquireLock and of the start after it.
LEMMA StartupSteps ==
  ASSUME RuntimeInv, NEW p \in Pids,
         \/ OpenExclusive(p) \/ WritePid(p) \/ ReadHolder(p) \/ RemoveStale(p)
         \/ StartRuntime(p) \/ RemoveSocket(p) \/ Listen(p)
  PROVE  RuntimeInv'
<1>a. /\ RuntimeTypeOK /\ process[p] \in Process /\ RowOK(p) /\ Alive(p) /\ ~Settled(p)
      /\ process[p].up \in {"open", "write", "read", "remove", "start", "unsocket", "listen"}
  BY
     DEF RuntimeInv, RuntimeTypeOK, OpenExclusive, WritePid, ReadHolder, RemoveStale,
       StartRuntime,
     RemoveSocket, Listen, Settled
<1>b. /\ process[p].up \in Startup /\ process[p].down \in Shutdown /\ process[p].tries \in 0 .. 1
      /\ process[p].holds \in BOOLEAN
      /\ process[p].holds => process[p].up \in {"start", "unsocket", "listen", "serve", "failed"}
      /\ process[p].down \in {"release", "unlink"} => process[p].holds
  BY <1>a DEF Process, RowOK
<1>c. socket \in Pids \cup {NoFile} /\ pidFile \in PidFile \cup {NoFile}
  BY <1>a DEF RuntimeTypeOK, PidFile
<1>d. ~overlap => \A q \in Pids : Recorded(q)
  BY DEF RuntimeInv
\* The process goes on, or fails, and the file is as it was.
<1>e. ASSUME NEW up \in {"read", "unsocket", "listen", "serve"}, Up(p, up),
             up = "read" => ~process[p].holds,
             UNCHANGED <<pidFile, command, overlap>>, socket' \in Pids \cup {NoFile}
      PROVE  RuntimeInv'
  <2>1. /\ process' \in [Pids -> Process]
        /\ process'[p].up = up /\ process'[p].down = process[p].down
        /\ process'[p].tries = process[p].tries /\ process'[p].holds = process[p].holds
        /\ \A q \in Pids \ {p} : process'[q] = process[q]
    BY <1>a, <1>e, GoesUp DEF Startup
  <2> QED BY <1>a, <1>b, <1>e, <2>1, FileIsLeft
<1>f. ASSUME StartupFails(p, process[p].tries),
             UNCHANGED <<pidFile, command, overlap>>, socket' \in Pids \cup {NoFile}
      PROVE  RuntimeInv'
  <2>1. /\ process' \in [Pids -> Process]
        /\ process'[p].up = "failed" /\ process'[p].holds = process[p].holds
        /\ process'[p].down = (IF process[p].down = "none" THEN "close" ELSE process[p].down)
        /\ \A q \in Pids \ {p} : process'[q] = process[q]
    BY <1>a, <1>b, <1>f, Fails
  <2> QED BY <1>a, <1>b, <1>f, <2>1, FileIsLeft
<1>1. CASE OpenExclusive(p)
  <2>1. process[p].up = "open" /\ UNCHANGED <<socket, command, overlap>>
    BY <1>1 DEF OpenExclusive
  <2>2. CASE Up(p, "read") /\ UNCHANGED pidFile
    BY <1>b, <1>c, <1>e, <2>1, <2>2
  <2>3. CASE pidFile = NoFile /\ pidFile' = [by |-> p, text |-> Blank] /\ Up(p, "write")
    <3>1. /\ process' \in [Pids -> Process]
          /\ process'[p].up = "write" /\ process'[p].down = process[p].down
          /\ process'[p].tries = process[p].tries /\ process'[p].holds = process[p].holds
          /\ \A q \in Pids \ {p} : process'[q] = process[q]
      BY <1>a, <2>3, GoesUp DEF Startup
    <3>2. \A q \in Pids : ~Says(q)' /\ ~Says(q)
      BY <2>3, RuntimeAssumption DEF Says
    <3>3. RuntimeTypeOK'
      BY <1>a, <2>1, <2>3, <3>1 DEF RuntimeTypeOK
    <3>4. RowOK(p)'
      BY <1>b, <2>1, <3>1, <3>2 DEF RowOK
    <3>5. ASSUME ~overlap PROVE Recorded(p)' /\ \A q \in Pids \ {p} : Holds(q) => Says(q)'
      <4>1. \A q \in Pids : ~Holds(q)
        BY <1>d, <3>2, <3>5 DEF Recorded
      <4>2. ~process'[p].holds /\ process'[p].down # "unlink"
        BY <1>b, <2>1, <3>1
      <4> QED BY <2>3, <3>1, <4>1, <4>2 DEF Recorded, Holds
    <3> QED BY <1>a, <2>1, <3>1, <3>2, <3>3, <3>4, <3>5, ProcessMoves
  <2> QED BY <1>1, <2>2, <2>3 DEF OpenExclusive
<1>2. CASE WritePid(p)
  <2> DEFINE row == [process[p] EXCEPT !.up = "start", !.holds = TRUE]
  <2>1. /\ process[p].up = "write" /\ UNCHANGED <<socket, command, overlap>> /\ SetProcess(p, row)
        /\ pidFile' = (IF pidFile # NoFile /\ pidFile.by = p THEN [by |-> p,
          text |-> p] ELSE pidFile)
    BY <1>2 DEF WritePid
  <2>2. /\ row \in Process /\ row.up = "start" /\ row.down = process[p].down
        /\ row.tries = process[p].tries /\ row.holds = TRUE
    BY <1>a DEF Process, Startup
  <2> HIDE DEF row
  <2>3. /\ process' \in [Pids -> Process]
        /\ process'[p].up = "start" /\ process'[p].down = process[p].down
        /\ process'[p].tries = process[p].tries /\ process'[p].holds
        /\ \A q \in Pids \ {p} : process'[q] = process[q]
    BY <1>a, <2>1, <2>2, RowSet
  <2>4. \A q \in Pids \ {p} : Says(q)' => Says(q)
    BY <2>1 DEF Says
  <2>5. RuntimeTypeOK'
    BY <1>a, <2>1, <2>3 DEF RuntimeTypeOK
  <2>6. RowOK(p)'
    BY <1>b, <2>3 DEF RowOK
  <2>7. ASSUME ~overlap PROVE Recorded(p)' /\ \A q \in Pids \ {p} : Holds(q) => Says(q)'
    <3>1. pidFile = [by |-> p, text |-> Blank] /\ \A q \in Pids : Recorded(q)
      BY <1>a, <1>d, <2>1, <2>7 DEF Recorded
    <3>2. pidFile # NoFile /\ pidFile.by = p
      BY <3>1, RuntimeAssumption
    <3>3. \A q \in Pids : ~Says(q)
      BY <3>1, RuntimeAssumption DEF Says
    <3>4. \A q \in Pids : ~Holds(q)
      BY <3>1, <3>3 DEF Recorded
    <3>5. Says(p)'
      BY <2>1, <3>2, RuntimeAssumption DEF Says
    <3>6. process[p].down # "unlink"
      BY <1>b, <2>1
    <3> QED BY <2>3, <3>4, <3>5, <3>6 DEF Recorded
  <2> QED BY <1>a, <2>1, <2>3, <2>4, <2>5, <2>6, <2>7, ProcessMoves
<1>3. CASE ReadHolder(p)
  <2>1. process[p].up = "read" /\ UNCHANGED <<pidFile, socket, command, overlap>>
    BY <1>3 DEF ReadHolder
  <2>2. CASE StartupFails(p, process[p].tries)
    BY <1>c, <1>f, <2>1, <2>2
  <2>3. CASE ~HeldByAnother(p) /\ Up(p, "remove")
    <3>1. /\ process' \in [Pids -> Process]
          /\ process'[p].up = "remove" /\ process'[p].down = process[p].down
          /\ process'[p].tries = process[p].tries /\ process'[p].holds = process[p].holds
          /\ \A q \in Pids \ {p} : process'[q] = process[q]
      BY <1>a, <2>3, GoesUp DEF Startup
    <3>2. \A q \in Pids : Says(q)' <=> Says(q)
      BY <2>1 DEF Says
    <3>3. RuntimeTypeOK'
      BY <1>a, <2>1, <3>1 DEF RuntimeTypeOK
    <3>4. RowOK(p)'
      BY <1>a, <1>b, <2>1, <3>1, <3>2 DEF RowOK
    <3>5. ASSUME ~overlap PROVE Recorded(p)' /\ \A q \in Pids \ {p} : Holds(q) => Says(q)'
      <4>1. \A q \in Pids : Recorded(q)
        BY <1>d, <3>5
      <4>2. \A q \in Pids \ {p} : ~Holds(q)
        BY <2>3, <4>1 DEF Recorded, HeldByAnother, Running, Holds
      <4>3. ~process'[p].holds /\ process'[p].down # "unlink"
        BY <1>b, <2>1, <3>1
      <4>4. \A q \in Pids : ~Holds(q)'
        BY <3>1, <4>2, <4>3 DEF Holds, Alive
      <4> QED BY <3>1, <4>2, <4>3, <4>4 DEF Recorded
    <3> QED BY <1>a, <2>1, <3>1, <3>2, <3>3, <3>4, <3>5, ProcessMoves
  <2> QED BY <1>3, <2>2, <2>3 DEF ReadHolder
<1>4. CASE RemoveStale(p)
  <2>p. PICK n : n = process[p].tries + 1
    OBVIOUS
  <2>1. /\ process[p].up = "remove" /\ pidFile' = NoFile /\ UNCHANGED <<socket, command, overlap>>
        /\ IF n < 2 THEN SetProcess(p, [process[p] EXCEPT !.up = "open", !.tries = n])
           ELSE StartupFails(p, n)
    BY <1>4, <2>p DEF RemoveStale
  <2>2. n \in 0 .. 2 /\ ~process[p].holds /\ process[p].down \notin {"release", "unlink"}
    BY <1>b, <2>p, <2>1
  <2>3. ~overlap => \A q \in Pids \ {p} : ~Holds(q)
    BY <1>a, <1>d, <2>1 DEF Recorded
  <2>4. CASE n < 2 /\ SetProcess(p, [process[p] EXCEPT !.up = "open", !.tries = n])
    <3> DEFINE row == [process[p] EXCEPT !.up = "open", !.tries = n]
    <3>1. /\ row \in Process /\ row.up = "open" /\ row.down = process[p].down
          /\ row.tries = n /\ row.holds = process[p].holds
      BY <1>a, <2>2 DEF Process, Startup
    <3>2. SetProcess(p, row)
      BY <2>4
    <3> HIDE DEF row
    <3>3. /\ process' \in [Pids -> Process]
          /\ process'[p].up = "open" /\ process'[p].down = process[p].down
          /\ process'[p].tries = n /\ process'[p].holds = process[p].holds
          /\ \A q \in Pids \ {p} : process'[q] = process[q]
      BY <1>a, <3>1, <3>2, RowSet
    <3>4. RuntimeTypeOK'
      BY <1>a, <2>1, <3>3 DEF RuntimeTypeOK
    <3>5. ~Holds(p)'
      BY <2>2, <3>3 DEF Holds
    <3> QED BY <1>a, <2>1, <2>2, <2>3, <2>4, <3>3, <3>4, <3>5, FileIsRemoved
  <2>5. CASE StartupFails(p, n)
    <3>1. /\ process' \in [Pids -> Process]
          /\ process'[p].up = "failed" /\ process'[p].holds = process[p].holds
          /\ process'[p].down = (IF process[p].down = "none" THEN "close" ELSE process[p].down)
          /\ \A q \in Pids \ {p} : process'[q] = process[q]
      BY <1>a, <2>2, <2>5, Fails
    <3>2. RuntimeTypeOK'
      BY <1>a, <2>1, <3>1 DEF RuntimeTypeOK
    <3>3. ~Holds(p)'
      BY <2>2, <3>1 DEF Holds
    <3> QED BY <1>a, <2>1, <2>2, <2>3, <3>1, <3>2, <3>3, FileIsRemoved
  <2> QED BY <2>1, <2>4, <2>5
<1>5. CASE StartRuntime(p)
  <2>1. /\ Up(p, "unsocket") \/ StartupFails(p, process[p].tries)
        /\ UNCHANGED <<pidFile, socket, command, overlap>>
    BY <1>5 DEF StartRuntime
  <2> QED BY <1>c, <1>e, <1>f, <2>1
<1>6. CASE RemoveSocket(p)
  <2>1. Up(p, "listen") /\ socket' = NoFile /\ UNCHANGED <<pidFile, command, overlap>>
    BY <1>6 DEF RemoveSocket
  <2> QED BY <1>e, <2>1
<1>7. CASE Listen(p)
  <2>1. /\ Up(p, "serve") \/ StartupFails(p, process[p].tries)
        /\ socket' \in {socket, p} /\ UNCHANGED <<pidFile, command, overlap>>
    BY <1>7 DEF Listen
  <2> QED BY <1>c, <1>e, <1>f, <2>1
<1> QED BY <1>1, <1>2, <1>3, <1>4, <1>5, <1>6, <1>7

\* The steps of the shutdown: close, read the own lock, remove its file.
LEMMA ShutdownSteps ==
  ASSUME RuntimeInv, NEW p \in Pids, CloseApp(p) \/ ReadOwnLock(p) \/ Unlink(p)
  PROVE  RuntimeInv'
<1>a. /\ RuntimeTypeOK /\ process[p] \in Process /\ RowOK(p) /\ Alive(p) /\ ~Settled(p)
      /\ process[p].down \in {"close", "release", "unlink"}
  BY DEF RuntimeInv, RuntimeTypeOK, CloseApp, ReadOwnLock, Unlink, Settled
<1>b. /\ process[p].up \in Startup /\ process[p].down \in Shutdown /\ process[p].tries \in 0 .. 2
      /\ process[p].holds \in BOOLEAN
      /\ process[p].up # "failed" => process[p].tries < 2
      /\ process[p].holds => process[p].up \in {"start", "unsocket", "listen", "serve", "failed"}
      /\ process[p].down \in {"release", "unlink"} => process[p].holds
  BY <1>a DEF Process, RowOK
<1>1. CASE CloseApp(p)
  <2> DEFINE row == [process[p] EXCEPT !.down = IF process[p].holds THEN "release" ELSE "done",
                                       !.up = IF @ = "serve" THEN "failed" ELSE @]
  <2>1. SetProcess(p, row) /\ process[p].down = "close" /\ socket' = NoFile
        /\ UNCHANGED <<pidFile, command, overlap>>
    BY <1>1 DEF CloseApp
  <2>2. /\ row \in Process /\ row.down = (IF process[p].holds THEN "release" ELSE "done")
        /\ row.up = (IF process[p].up = "serve" THEN "failed" ELSE process[p].up)
        /\ row.tries = process[p].tries /\ row.holds = process[p].holds
    BY <1>a DEF Process, Startup, Shutdown
  <2> HIDE DEF row
  <2>3. /\ process' \in [Pids -> Process]
        /\ process'[p].down = (IF process[p].holds THEN "release" ELSE "done")
        /\ process'[p].up = (IF process[p].up = "serve" THEN "failed" ELSE process[p].up)
        /\ process'[p].tries = process[p].tries /\ process'[p].holds = process[p].holds
        /\ \A q \in Pids \ {p} : process'[q] = process[q]
    BY <1>a, <2>1, <2>2, RowSet
  <2> QED BY <1>a, <1>b, <2>1, <2>3, FileIsLeft
<1>2. CASE ReadOwnLock(p)
  <2>1. /\ process[p].down = "release"
        /\ SetProcess(p, [process[p] EXCEPT !.down = IF Says(p) THEN "unlink" ELSE "done"])
        /\ UNCHANGED <<pidFile, socket, command, overlap>>
    BY <1>2 DEF ReadOwnLock
  <2>2. PICK down \in {"unlink", "done"} : down = IF Says(p) THEN "unlink" ELSE "done"
    OBVIOUS
  <2>3. SetProcess(p, [process[p] EXCEPT !.down = down])
    BY <2>1, <2>2
  <2>4. /\ process' \in [Pids -> Process]
        /\ process'[p].up = process[p].up /\ process'[p].down = down
        /\ process'[p].tries = process[p].tries /\ process'[p].holds = process[p].holds
        /\ \A q \in Pids \ {p} : process'[q] = process[q]
    BY <1>a, <2>2, <2>3, GoesDown DEF Shutdown
  <2>5. socket' \in Pids \cup {NoFile}
    BY <1>a, <2>1 DEF RuntimeTypeOK
  <2> QED BY <1>a, <1>b, <2>1, <2>2, <2>4, <2>5, FileIsLeft
<1>3. CASE Unlink(p)
  <2>1. /\ process[p].down = "unlink" /\ pidFile' = NoFile
        /\ SetProcess(p, [process[p] EXCEPT !.down = "done"])
        /\ UNCHANGED <<socket, command, overlap>>
    BY <1>3 DEF Unlink
  <2>2. /\ process' \in [Pids -> Process]
        /\ process'[p].up = process[p].up /\ process'[p].down = "done"
        /\ process'[p].tries = process[p].tries /\ process'[p].holds = process[p].holds
        /\ \A q \in Pids \ {p} : process'[q] = process[q]
    BY <1>a, <2>1, GoesDown DEF Shutdown
  <2>3. RuntimeTypeOK'
    BY <1>a, <2>1, <2>2 DEF RuntimeTypeOK
  <2>4. ~overlap => \A q \in Pids \ {p} : ~Holds(q)
    BY <1>a, <2>1 DEF RuntimeInv, Recorded
  <2>5. ~Holds(p)' /\ process'[p].up \notin {"write", "remove"}
    BY <1>b, <2>1, <2>2 DEF Holds
  <2> QED BY <1>a, <1>b, <2>1, <2>2, <2>3, <2>4, <2>5, FileIsRemoved
<1> QED BY <1>1, <1>2, <1>3

\* A process comes up when everything rests.
LEMMA ServeSteps ==
  ASSUME RuntimeInv, NEW p \in Pids, Serve(p)
  PROVE  RuntimeInv'
<1>1. /\ process[p].up = "none" /\ Up(p, "open") /\ overlap' = (overlap \/ Busy)
      /\ UNCHANGED <<pidFile, socket, command>> /\ RuntimeTypeOK /\ process[p] \in Process
  BY DEF Serve, RuntimeInv, RuntimeTypeOK
<1>2. /\ process' \in [Pids -> Process]
      /\ process'[p].up = "open" /\ process'[p].down = process[p].down
      /\ process'[p].tries = process[p].tries /\ process'[p].holds = process[p].holds
      /\ \A q \in Pids \ {p} : process'[q] = process[q]
  BY <1>1, GoesUp DEF Startup
<1>3. RuntimeTypeOK'
  BY <1>1, <1>2 DEF RuntimeTypeOK, Busy
<1>4. \A q \in Pids : (Says(q)' <=> Says(q)) /\ RowOK(q)
  BY <1>1 DEF Says, RuntimeInv
<1>5. \A q \in Pids \ {p} :
        RowOK(q)' /\ (Alive(q)' <=> Alive(q)) /\ (Settled(q)' <=> Settled(q))
        /\ (Holds(q)' <=> Holds(q))
  BY <1>2, <1>4 DEF RowOK, Alive, Settled, Holds
<1>6. /\ process[p].tries < 2 /\ ~process[p].holds /\ process[p].down # "unlink" /\ ~Says(p)
      /\ process[p].down # "release"
  BY <1>1, <1>4 DEF RowOK
<1>7. RowOK(p)'
  BY <1>2, <1>4, <1>6 DEF RowOK
<1>8. ASSUME ~overlap'
      PROVE  Alone' /\ (\A q \in Pids : Recorded(q)') /\ (\A c \in Commands : Cleared(c)')
  <2>1. /\ ~overlap /\ (\A q \in Pids : Settled(q))
        /\ (\A c \in Commands : command[c] = NoCommand)
        /\ \A q \in Pids : Recorded(q)
    BY <1>1, <1>8 DEF Busy, RuntimeInv
  <2>2. Alone'
    BY <1>1, <1>5, <2>1 DEF Alone
  <2>3. ~Holds(p)'
    BY <1>2, <1>6 DEF Holds
  <2>4. Recorded(p)'
    BY <1>2, <1>6, <2>3 DEF Recorded
  <2>5. ASSUME NEW q \in Pids \ {p} PROVE Recorded(q)'
    <3>1. ~Alive(q) \/ (process[q].up \notin {"write", "remove"} /\ process[q].down # "unlink")
      BY <2>1 DEF Settled
    <3> QED BY <1>2, <1>4, <1>5, <2>1, <3>1 DEF Recorded
  <2>6. \A c \in Commands : Cleared(c)'
    BY <1>1, <2>1 DEF Cleared, CommandAt
  <2> QED BY <2>2, <2>4, <2>5, <2>6
<1> QED BY <1>3, <1>5, <1>7, <1>8 DEF RuntimeInv

\* A process that dies leaves its file; it holds nothing, and does nothing more.
LEMMA DeathDoes ==
  ASSUME RuntimeInv, NEW p \in Pids, Killed(p), UNCHANGED <<pidFile, overlap>>
  PROVE  /\ process' \in [Pids -> Process] /\ process'[p].dead
         /\ \A q \in Pids : /\ RowOK(q)' /\ (Settled(q) => Settled(q)') /\ (Holds(q)' => Holds(q))
                            /\ ~overlap => Recorded(q)'
<1>1. RuntimeTypeOK /\ \A q \in Pids : RowOK(q)
  BY DEF RuntimeInv
<1>2. /\ process' \in [Pids -> Process]
      /\ process'[p].up = process[p].up /\ process'[p].down = process[p].down
      /\ process'[p].tries = process[p].tries /\ process'[p].holds = process[p].holds
      /\ process'[p].dead
      /\ \A q \in Pids \ {p} : process'[q] = process[q]
  BY <1>1, Dies
<1>3. \A q \in Pids : Says(q)' <=> Says(q)
  BY DEF Says
<1>4. ASSUME NEW q \in Pids
      PROVE  /\ RowOK(q)' /\ (Settled(q) => Settled(q)') /\ (Holds(q)' => Holds(q))
             /\ (Alive(q)' => Alive(q)) /\ process'[q].up = process[q].up
             /\ process'[q].down = process[q].down
  <2>1. /\ process'[q].up = process[q].up /\ process'[q].down = process[q].down
        /\ process'[q].tries = process[q].tries /\ process'[q].holds = process[q].holds
        /\ (process'[q].dead \/ process'[q].dead = process[q].dead)
    BY <1>2
  <2>2. RowOK(q)'
    BY <1>1, <1>3, <2>1 DEF RowOK
  <2>3. Alive(q)' => Alive(q)
    BY <2>1 DEF Alive
  <2>4. (Settled(q) => Settled(q)') /\ (Holds(q)' => Holds(q))
    BY <2>1, <2>3 DEF Settled, Holds
  <2> QED BY <2>1, <2>2, <2>3, <2>4
<1>5. ASSUME ~overlap, NEW q \in Pids PROVE Recorded(q)'
  <2>1. Recorded(q)
    BY <1>5 DEF RuntimeInv
  <2>2. /\ Holds(q)' => Says(q)'
        /\ \A r \in Pids : Holds(r)' => Holds(r)
        /\ (Alive(q)' => Alive(q)) /\ process'[q].up = process[q].up
        /\ process'[q].down = process[q].down
    BY <1>3, <1>4, <2>1 DEF Recorded
  <2> QED BY <2>1, <2>2 DEF Recorded
<1> QED BY <1>2, <1>4, <1>5

\* A process that is killed outside of any command.
LEMMA DieSteps ==
  ASSUME RuntimeInv, NEW p \in Pids, Die(p)
  PROVE  RuntimeInv'
<1>1. Killed(p) /\ UNCHANGED <<pidFile, socket, command, overlap>>
  BY DEF Die
<1>2. /\ process' \in [Pids -> Process]
      /\ \A q \in Pids : /\ RowOK(q)' /\ (Settled(q) => Settled(q)') /\ (Holds(q)' => Holds(q))
                         /\ ~overlap => Recorded(q)'
  BY <1>1, DeathDoes
<1>3. RuntimeTypeOK'
  BY <1>1, <1>2 DEF RuntimeInv, RuntimeTypeOK
<1>4. \A c \in Commands : (Waits(c)' <=> Waits(c)) /\ command'[c] = command[c]
  BY <1>1 DEF Waits, CommandAt
<1>5. ASSUME ~overlap PROVE Alone' /\ \A c \in Commands : Cleared(c)'
  <2>1. Alone /\ \A c \in Commands : Cleared(c)
    BY <1>5 DEF RuntimeInv
  <2>2. Alone'
    BY <1>2, <1>4, <2>1 DEF Alone
  <2>3. \A c \in Commands : Cleared(c)'
    BY <1>1, <1>2, <2>1 DEF Cleared, CommandAt
  <2> QED BY <2>2, <2>3
<1> QED BY <1>1, <1>2, <1>3, <1>5 DEF RuntimeInv

\* A command that is typed does nothing yet; over another one it is an overlap.
LEMMA TypedSteps ==
  ASSUME RuntimeInv, NEW c \in Commands, NEW kind \in {"start", "stop"}, TypeCommand(c, kind)
  PROVE  RuntimeInv'
<1> DEFINE row == [kind |-> kind, at |-> "check", pid |-> NoFile]
<1>1. /\ command[c] = NoCommand /\ command' = [command EXCEPT ![c] = row]
      /\ overlap' = (overlap \/ Busy) /\ UNCHANGED <<pidFile, socket, process>>
  BY DEF TypeCommand
<1>2. row \in Command /\ row.at = "check"
  BY DEF Command
<1> HIDE DEF row
<1>3. /\ command' \in [Commands -> Command \cup {NoCommand}] /\ command'[c].at = "check"
      /\ \A d \in Commands \ {c} : command'[d] = command[d]
  BY <1>1, <1>2 DEF RuntimeInv, RuntimeTypeOK
<1>4. RuntimeTypeOK'
  BY <1>1, <1>3 DEF RuntimeInv, RuntimeTypeOK, Busy
<1>5. \A p \in Pids : /\ RowOK(p)' /\ (Settled(p)' <=> Settled(p))
                     /\ (Recorded(p)' <=> Recorded(p))
  BY <1>1 DEF RuntimeInv, RowOK, Says, Settled, Alive, Recorded, Holds
<1>6. ASSUME ~overlap'
      PROVE  Alone' /\ (\A q \in Pids : Recorded(q)') /\ (\A d \in Commands : Cleared(d)')
  <2>1. /\ ~overlap /\ (\A q \in Pids : Settled(q))
        /\ (\A d \in Commands : command[d] = NoCommand)
        /\ \A q \in Pids : Recorded(q)
    BY <1>1, <1>6 DEF Busy, RuntimeInv
  <2>2. \A d \in Commands \ {c} : command'[d] = NoCommand
    BY <1>3, <2>1
  <2>3. Alone'
    BY <1>5, <2>1, <2>2 DEF Alone
  <2>4. Cleared(c)' /\ \A d \in Commands \ {c} : Cleared(d)'
    BY <1>3, <2>2 DEF Cleared, CommandAt
  <2> QED BY <1>5, <2>1, <2>3, <2>4
<1> QED BY <1>4, <1>5, <1>6 DEF RuntimeInv

\* A command moves and no process does, whether or not the file is removed.
LEMMA CommandAlone ==
  ASSUME RuntimeInv, NEW c \in Commands, command[c] # NoCommand,
         command' \in [Commands -> Command \cup {NoCommand}],
         \A d \in Commands \ {c} : command'[d] = command[d],
         socket' \in Pids \cup {NoFile}, UNCHANGED <<process, overlap>>,
         pidFile' \in {pidFile, NoFile},
         ~overlap => \/ command'[c] = NoCommand \/ \A p \in Pids : Settled(p),
         (~overlap /\ pidFile' # pidFile) => \A p \in Pids : Settled(p) /\ ~Holds(p),
         ~overlap => Cleared(c)'
  PROVE  RuntimeInv'
<1>1. RuntimeTypeOK'
  BY DEF RuntimeInv, RuntimeTypeOK
<1>2. \A p \in Pids : /\ (Settled(p)' <=> Settled(p)) /\ (Alive(p)' <=> Alive(p))
                     /\ (Holds(p)' <=> Holds(p)) /\ (Says(p)' => Says(p))
  BY DEF Settled, Alive, Holds, Says
<1>3. \A p \in Pids : RowOK(p)'
  BY <1>2 DEF RuntimeInv, RowOK
<1>4. ASSUME ~overlap PROVE /\ \A p, q \in Pids : (~Settled(p)' /\ ~Settled(q)') => p = q
                            /\ \A p \in Pids : Recorded(p)'
  <2>1. Alone /\ \A p \in Pids : Recorded(p)
    BY <1>4 DEF RuntimeInv
  <2>2. \A p, q \in Pids : (~Settled(p)' /\ ~Settled(q)') => p = q
    BY <1>2, <2>1 DEF Alone
  <2>3. ASSUME NEW p \in Pids PROVE Recorded(p)'
    <3>1. CASE pidFile' = pidFile
      <4>1. Says(p)' <=> Says(p)
        BY <3>1 DEF Says
      <4> QED BY <1>2, <2>1, <3>1, <4>1 DEF Recorded
    <3>2. CASE pidFile' # pidFile
      <4>1. Settled(p) /\ \A q \in Pids : ~Holds(q)'
        BY <1>2, <1>4, <3>2
      <4>2. ~Alive(p)' \/ process'[p].up \notin {"write", "remove"}
        BY <1>2, <4>1 DEF Settled
      <4> QED BY <4>1, <4>2 DEF Recorded
    <3> QED BY <3>1, <3>2
  <2> QED BY <2>2, <2>3
<1> QED BY <1>1, <1>2, <1>3, <1>4, CommandMoves

\* A signal starts the shutdown of one process and changes nothing else.
LEMMA TerminateDoes ==
  ASSUME RuntimeInv, NEW p \in Pids, Alive(p), Terminate(p), UNCHANGED <<pidFile, overlap>>
  PROVE  /\ process' \in [Pids -> Process]
         /\ \A q \in Pids : /\ RowOK(q)' /\ (q # p => (Settled(q)' <=> Settled(q)))
                            /\ (Holds(q)' => Holds(q))
         /\ ~overlap => \A q \in Pids : Recorded(q)'
<1> DEFINE row == [process[p] EXCEPT !.down = "close"]
<1>1. /\ RuntimeTypeOK /\ process[p] \in Process /\ process[p].down = "none"
      /\ SetProcess(p, row)
  BY DEF RuntimeInv, RuntimeTypeOK, Terminate
<1>2. /\ row \in Process /\ row.up = process[p].up /\ row.down = "close"
      /\ row.tries = process[p].tries /\ row.holds = process[p].holds /\ ~Ends(row)
  BY <1>1 DEF Process, Shutdown, Ends
<1> HIDE DEF row
<1>3. /\ process' \in [Pids -> Process]
      /\ process'[p].up = process[p].up /\ process'[p].down = "close"
      /\ process'[p].tries = process[p].tries /\ process'[p].holds = process[p].holds
      /\ \A q \in Pids \ {p} : process'[q] = process[q]
  BY <1>1, <1>2, RowSet
<1>4. \A q \in Pids : Says(q)' <=> Says(q)
  BY DEF Says
<1>5. RowOK(p)' /\ (Holds(p)' => Holds(p))
  BY <1>1, <1>3, <1>4 DEF RuntimeInv, RowOK, Holds
<1>6. \A q \in Pids \ {p} : RowOK(q)' /\ (Settled(q)' <=> Settled(q))
      /\ (Holds(q)' <=> Holds(q)) /\ (Alive(q)' <=> Alive(q))
  BY <1>3, <1>4 DEF RuntimeInv, RowOK, Holds, Settled, Alive
<1>7. ASSUME ~overlap, NEW q \in Pids PROVE Recorded(q)'
  <2>1. Recorded(q) /\ \A r \in Pids : Holds(r)' => Holds(r)
    BY <1>5, <1>6, <1>7 DEF RuntimeInv
  <2>2. CASE q = p
    BY <1>3, <1>4, <2>1, <2>2 DEF Recorded
  <2>3. CASE q # p
    BY <1>3, <1>4, <1>6, <2>1, <2>3 DEF Recorded
  <2> QED BY <2>2, <2>3
<1> QED BY <1>3, <1>5, <1>6, <1>7

\* The steps of the start command: it removes a file only when nobody is alive, and spawns one
\* process, on which it waits.
LEMMA StartSteps ==
  ASSUME RuntimeInv, NEW c \in Commands,
         \/ StartCheck(c) \/ StartRemove(c) \/ StartEnds(c)
         \/ \E p \in Pids : StartSpawn(c, p)
  PROVE  RuntimeInv'
<1>a. /\ RuntimeTypeOK /\ command[c] # NoCommand /\ command[c].kind = "start"
      /\ process \in [Pids -> Process] /\ socket \in Pids \cup {NoFile}
      /\ \A p \in Pids : RowOK(p)
  BY DEF RuntimeInv, RuntimeTypeOK, StartCheck, StartRemove, StartEnds, StartSpawn, CommandAt
<1>b. ~overlap => Alone /\ Cleared(c) /\ \A p \in Pids : Recorded(p)
  BY DEF RuntimeInv
<1>c. ASSUME ~overlap, command[c].at # "poll" PROVE \A p \in Pids : Settled(p)
  BY <1>a, <1>b, <1>c DEF Alone, Waits, CommandAt
<1>1. CASE StartCheck(c)
  <2>1. /\ command[c].at = "check" /\ UNCHANGED <<pidFile, socket, process, overlap>>
    BY <1>1 DEF StartCheck, CommandAt
  <2>2. CASE CommandEnds(c)
    <3>1. /\ command' \in [Commands -> Command \cup {NoCommand}] /\ command'[c] = NoCommand
          /\ \A d \in Commands \ {c} : command'[d] = command[d]
      BY <1>a, <2>2, CommandGone
    <3>2. Cleared(c)'
      BY <3>1 DEF Cleared, CommandAt
    <3> QED BY <1>a, <2>1, <3>1, <3>2, CommandAlone
  <2>3. CASE (\A p \in Pids : ~Running(p)) /\ CommandGoes(c, "remove", NoFile)
    <3>1. [kind |-> command[c].kind, at |-> "remove", pid |-> NoFile] \in Command
      BY <1>a DEF Command
    <3>2. /\ command' \in [Commands -> Command \cup {NoCommand}] /\ command'[c] # NoCommand
          /\ command'[c].kind = "start" /\ command'[c].at = "remove"
          /\ \A d \in Commands \ {c} : command'[d] = command[d]
      BY <1>a, <2>3, <3>1, CommandRowSet
    <3>3. ASSUME ~overlap PROVE Cleared(c)'
      <4>1. \A p \in Pids : ~Holds(p)
        BY <1>b, <2>3, <3>3 DEF Recorded, Running, Holds
      <4> QED BY <2>1, <3>2, <4>1 DEF Cleared, CommandAt, Holds, Alive
    <3> QED BY <1>a, <1>c, <2>1, <3>2, <3>3, CommandAlone
  <2> QED BY <1>1, <2>2, <2>3 DEF StartCheck
<1>2. CASE StartRemove(c)
  <2>1. /\ command[c].at = "remove" /\ pidFile' = NoFile /\ CommandGoes(c, "spawn", NoFile)
        /\ UNCHANGED <<socket, process, overlap>>
    BY <1>2 DEF StartRemove, CommandAt
  <2>2. [kind |-> command[c].kind, at |-> "spawn", pid |-> NoFile] \in Command
    BY <1>a DEF Command
  <2>3. /\ command' \in [Commands -> Command \cup {NoCommand}] /\ command'[c].at = "spawn"
        /\ \A d \in Commands \ {c} : command'[d] = command[d]
    BY <1>a, <2>1, <2>2, CommandRowSet
  <2>4. Cleared(c)'
    BY <2>3 DEF Cleared, CommandAt
  <2>5. ~overlap => \A p \in Pids : ~Holds(p)
    BY <1>a, <1>b, <2>1 DEF Cleared, CommandAt
  <2> QED BY <1>a, <1>c, <2>1, <2>3, <2>4, <2>5, CommandAlone
<1>3. ASSUME NEW p \in Pids, StartSpawn(c, p) PROVE RuntimeInv'
  <2>1. /\ command[c].at = "spawn" /\ process[p].up = "none" /\ Up(p, "open")
        /\ CommandGoes(c, "poll", p) /\ UNCHANGED <<pidFile, socket, overlap>>
    BY <1>3 DEF StartSpawn, CommandAt
  <2>2. [kind |-> command[c].kind, at |-> "poll", pid |-> p] \in Command
    BY <1>a DEF Command
  <2>3. /\ command' \in [Commands -> Command \cup {NoCommand}] /\ command'[c] # NoCommand
        /\ command'[c].kind = "start" /\ command'[c].at = "poll" /\ command'[c].pid = p
        /\ \A d \in Commands \ {c} : command'[d] = command[d]
    BY <1>a, <2>1, <2>2, CommandRowSet
  <2>4. /\ process' \in [Pids -> Process]
        /\ process'[p].up = "open" /\ process'[p].down = process[p].down
        /\ process'[p].tries = process[p].tries /\ process'[p].holds = process[p].holds
        /\ \A q \in Pids \ {p} : process'[q] = process[q]
    BY <1>a, <2>1, GoesUp DEF Startup
  <2>5. RuntimeTypeOK'
    BY <1>a, <2>1, <2>3, <2>4 DEF RuntimeTypeOK
  <2>6. \A q \in Pids : Says(q)' <=> Says(q)
    BY <2>1 DEF Says
  <2>7. /\ process[p].tries < 2 /\ ~process[p].holds /\ process[p].down # "unlink" /\ ~Says(p)
        /\ process[p].down # "release"
    BY <1>a, <2>1 DEF RowOK
  <2>8. \A q \in Pids : RowOK(q)'
    <3>1. RowOK(p)'
      BY <2>4, <2>6, <2>7 DEF RowOK
    <3>2. \A q \in Pids \ {p} : RowOK(q)'
      BY <1>a, <2>4, <2>6 DEF RowOK
    <3> QED BY <3>1, <3>2
  <2>9. \A q \in Pids \ {p} : (Alive(q)' <=> Alive(q)) /\ (Settled(q)' <=> Settled(q))
        /\ (Holds(q)' <=> Holds(q))
    BY <2>4 DEF Alive, Settled, Holds
  <2>10. ~Holds(p)'
    BY <2>4, <2>7 DEF Holds
  <2>11. ASSUME ~overlap
         PROVE  /\ \A q \in Pids : ~Settled(q)' => q = p
                /\ \A q \in Pids : Recorded(q)'
                /\ Cleared(c)' /\ Waits(c)'
    <3>1. \A q \in Pids : Settled(q)
      BY <1>c, <2>1, <2>11
    <3>2. Recorded(p)'
      BY <2>4, <2>7, <2>10 DEF Recorded
    <3>3. ASSUME NEW q \in Pids \ {p} PROVE Recorded(q)'
      <4>1. ~Alive(q) \/ (process[q].up \notin {"write", "remove"} /\ process[q].down # "unlink")
        BY <3>1 DEF Settled
      <4> QED BY <1>b, <2>4, <2>6, <2>9, <2>11, <4>1 DEF Recorded
    <3>4. Cleared(c)' /\ Waits(c)'
      BY <2>3 DEF Cleared, Waits, CommandAt
    <3> QED BY <2>9, <3>1, <3>2, <3>3, <3>4
  <2> QED BY <1>a, <2>1, <2>3, <2>5, <2>8, <2>11, CommandMoves
<1>4. CASE StartEnds(c)
  <2>p. PICK p : p = command[c].pid
    OBVIOUS
  <2>1. /\ command[c].at = "poll" /\ CommandEnds(c) /\ UNCHANGED <<pidFile, socket, overlap>>
        /\ UNCHANGED process \/ (Alive(p) /\ Terminate(p))
    BY <1>4, <2>p DEF StartEnds, CommandAt
  <2>2. p \in Pids
    BY <1>a, <2>p, <2>1, CommandRows DEF RuntimeTypeOK
  <2>3. /\ command' \in [Commands -> Command \cup {NoCommand}] /\ command'[c] = NoCommand
        /\ \A d \in Commands \ {c} : command'[d] = command[d]
    BY <1>a, <2>1, CommandGone
  <2>4. Cleared(c)'
    BY <2>3 DEF Cleared, CommandAt
  <2>5. CASE UNCHANGED process
    BY <1>a, <2>1, <2>3, <2>4, <2>5, CommandAlone
  <2>6. CASE Alive(p) /\ Terminate(p)
    <3>1. /\ \A q \in Pids : RowOK(q)' /\ (q # p => (Settled(q)' <=> Settled(q)))
          /\ process' \in [Pids -> Process]
          /\ ~overlap => \A q \in Pids : Recorded(q)'
      BY <2>1, <2>2, <2>6, TerminateDoes
    <3>2. RuntimeTypeOK'
      BY <1>a, <2>1, <2>3, <3>1 DEF RuntimeTypeOK
    <3>3. ASSUME ~overlap PROVE \A q, r \in Pids : (~Settled(q)' /\ ~Settled(r)') => q = r
      <4>1. \A q \in Pids \ {p} : Settled(q)
        BY <1>a, <1>b, <2>p, <3>3 DEF Alone
      <4> QED BY <3>1, <4>1
    <3> QED BY <1>a, <2>1, <2>3, <2>4, <3>1, <3>2, <3>3, CommandMoves
  <2> QED BY <2>1, <2>5, <2>6
<1> QED BY <1>1, <1>2, <1>3, <1>4

\* The steps of the stop command: it removes the file of a process it has seen end.
LEMMA StopSteps ==
  ASSUME RuntimeInv, NEW c \in Commands,
         \/ StopCheck(c) \/ StopKill(c) \/ StopEnded(c) \/ StopUnlock(c) \/ StopUnsocket(c)
  PROVE  RuntimeInv'
<1>a. /\ RuntimeTypeOK /\ command[c] # NoCommand /\ command[c].kind = "stop"
      /\ process \in [Pids -> Process] /\ socket \in Pids \cup {NoFile}
      /\ \A p \in Pids : RowOK(p)
  BY
     DEF RuntimeInv, RuntimeTypeOK, StopCheck, StopKill, StopEnded, StopUnlock, StopUnsocket,
       CommandAt
<1>b. ~overlap => Alone /\ Cleared(c) /\ \A p \in Pids : Recorded(p)
  BY DEF RuntimeInv
<1>c. ASSUME ~overlap, command[c].at \notin {"wait", "kill"} PROVE \A p \in Pids : Settled(p)
  BY <1>a, <1>b, <1>c DEF Alone, Waits, CommandAt
<1>d. ASSUME command[c].at \in {"wait", "kill"} PROVE command[c].pid \in Pids
  BY <1>a, <1>d, CommandRows DEF RuntimeTypeOK
<1>1. CASE StopCheck(c)
  <2>1. command[c].at = "check" /\ UNCHANGED <<pidFile, socket, overlap>>
    BY <1>1 DEF StopCheck, CommandAt
  <2>2. ASSUME NEW p \in Pids, Running(p), CommandGoes(c, "wait", p),
               Terminate(p) \/ UNCHANGED process
        PROVE  RuntimeInv'
    <3>1. [kind |-> command[c].kind, at |-> "wait", pid |-> p] \in Command
      BY <1>a DEF Command
    <3>2. /\ command' \in [Commands -> Command \cup {NoCommand}] /\ command'[c] # NoCommand
          /\ command'[c].kind = "stop" /\ command'[c].at = "wait" /\ command'[c].pid = p
          /\ \A d \in Commands \ {c} : command'[d] = command[d]
      BY <1>a, <2>2, <3>1, CommandRowSet
    <3>3. /\ process' \in [Pids -> Process]
          /\ \A q \in Pids : /\ RowOK(q)' /\ (q # p => (Settled(q)' <=> Settled(q)))
                             /\ (Holds(q)' => Holds(q))
          /\ ~overlap => \A q \in Pids : Recorded(q)'
      <4>1. CASE Terminate(p)
        BY <2>1, <2>2, <4>1, TerminateDoes DEF Running
      <4>2. CASE UNCHANGED process
        BY <1>a, <1>b, <2>1, <4>2 DEF RowOK, Settled, Holds, Alive, Says, Recorded
      <4> QED BY <2>2, <4>1, <4>2
    <3>4. RuntimeTypeOK'
      BY <1>a, <2>1, <3>2, <3>3 DEF RuntimeTypeOK
    <3>5. ASSUME ~overlap
          PROVE (\A q \in Pids : ~Settled(q)' => q = p) /\ Waits(c)' /\ Cleared(c)'
      <4>1. \A q \in Pids \ {p} : Settled(q) /\ ~Holds(q)
        BY <1>b, <1>c, <2>1, <2>2, <3>5 DEF Recorded, Running, Says
      <4>2. Waits(c)'
        BY <3>2 DEF Waits, CommandAt
      <4>3. Cleared(c)'
        BY <3>2, <3>3, <4>1 DEF Cleared, CommandAt
      <4> QED BY <3>3, <4>1, <4>2, <4>3
    <3> QED BY <1>a, <2>1, <3>2, <3>3, <3>4, <3>5, CommandMoves
  <2>3. CASE (\A p \in Pids : ~Running(p))
        /\ CommandGoes(c, "unlock", NoFile) /\ UNCHANGED process
    <3>1. [kind |-> command[c].kind, at |-> "unlock", pid |-> NoFile] \in Command
      BY <1>a DEF Command
    <3>2. /\ command' \in [Commands -> Command \cup {NoCommand}]
          /\ command'[c].kind = "stop" /\ command'[c].at = "unlock"
          /\ \A d \in Commands \ {c} : command'[d] = command[d]
      BY <1>a, <2>3, <3>1, CommandRowSet
    <3>3. ASSUME ~overlap PROVE Cleared(c)'
      <4>1. \A p \in Pids : ~Holds(p)
        BY <1>b, <2>3, <3>3 DEF Recorded, Running, Holds
      <4> QED BY <2>3, <3>2, <4>1 DEF Cleared, CommandAt, Holds, Alive
    <3> QED BY <1>a, <1>c, <2>1, <2>3, <3>2, <3>3, CommandAlone
  <2> QED BY <1>1, <2>2, <2>3 DEF StopCheck
<1>2. CASE StopKill(c)
  <2>p. PICK p : p = command[c].pid
    OBVIOUS
  <2>1. /\ command[c].at = "wait" /\ Killed(p) /\ CommandGoes(c, "kill", p)
        /\ UNCHANGED <<pidFile, socket, overlap>>
    BY <1>2, <2>p DEF StopKill, CommandAt
  <2>2. p \in Pids
    BY <1>d, <2>p, <2>1
  <2>3. [kind |-> command[c].kind, at |-> "kill", pid |-> p] \in Command
    BY <1>a, <2>2 DEF Command
  <2>4. /\ command' \in [Commands -> Command \cup {NoCommand}] /\ command'[c] # NoCommand
        /\ command'[c].kind = "stop" /\ command'[c].at = "kill" /\ command'[c].pid = p
        /\ \A d \in Commands \ {c} : command'[d] = command[d]
    BY <1>a, <2>1, <2>3, CommandRowSet
  <2>5. /\ process' \in [Pids -> Process]
        /\ \A q \in Pids : /\ RowOK(q)' /\ (Settled(q) => Settled(q)') /\ (Holds(q)' => Holds(q))
                           /\ ~overlap => Recorded(q)'
    BY <2>1, <2>2, DeathDoes
  <2>6. RuntimeTypeOK'
    BY <1>a, <2>1, <2>4, <2>5 DEF RuntimeTypeOK
  <2>7. ASSUME ~overlap PROVE (\A q \in Pids : ~Settled(q)' => q = p) /\ Waits(c)' /\ Cleared(c)'
    <3>1. \A q \in Pids : ~Settled(q) => q = p
      BY <1>a, <1>b, <2>p, <2>7 DEF Alone
    <3>2. \A q \in Pids \ {p} : ~Holds(q)
      BY <1>a, <1>b, <2>p, <2>1, <2>7 DEF Cleared, CommandAt
    <3>3. Waits(c)'
      BY <2>4 DEF Waits, CommandAt
    <3>4. Cleared(c)'
      BY <2>4, <2>5, <3>2 DEF Cleared, CommandAt
    <3> QED BY <2>5, <3>1, <3>3, <3>4
  <2> QED BY <1>a, <2>1, <2>4, <2>5, <2>6, <2>7, CommandMoves
<1>3. CASE StopEnded(c)
  <2>p. PICK p : p = command[c].pid
    OBVIOUS
  <2>1. /\ command[c].at \in {"wait", "kill"} /\ process[p].dead
        /\ CommandGoes(c, "unlock", NoFile)
        /\ UNCHANGED <<pidFile, socket, process, overlap>>
    BY <1>3, <2>p DEF StopEnded, CommandAt
  <2>2. [kind |-> command[c].kind, at |-> "unlock", pid |-> NoFile] \in Command
    BY <1>a DEF Command
  <2>3. /\ command' \in [Commands -> Command \cup {NoCommand}]
        /\ command'[c].kind = "stop" /\ command'[c].at = "unlock"
        /\ \A d \in Commands \ {c} : command'[d] = command[d]
    BY <1>a, <2>1, <2>2, CommandRowSet
  <2>4. ASSUME ~overlap PROVE Cleared(c)' /\ \A q \in Pids : Settled(q)
    <3>1. \A q \in Pids : ~Settled(q) => q = p
      BY <1>a, <1>b, <2>p, <2>4 DEF Alone
    <3>2. \A q \in Pids \ {p} : ~Holds(q)
      BY <1>a, <1>b, <2>p, <2>1, <2>4 DEF Cleared, CommandAt
    <3>3. p \in Pids => Settled(p) /\ ~Holds(p)
      BY <2>1 DEF Settled, Holds, Alive
    <3>4. \A q \in Pids : ~Holds(q)'
      BY <2>1, <3>2, <3>3 DEF Holds, Alive
    <3> QED BY <2>3, <3>1, <3>3, <3>4 DEF Cleared, CommandAt
  <2> QED BY <1>a, <2>1, <2>3, <2>4, CommandAlone
<1>4. CASE StopUnlock(c)
  <2>1. /\ command[c].at = "unlock" /\ pidFile' = NoFile /\ CommandGoes(c, "unsocket", NoFile)
        /\ UNCHANGED <<socket, process, overlap>>
    BY <1>4 DEF StopUnlock, CommandAt
  <2>2. [kind |-> command[c].kind, at |-> "unsocket", pid |-> NoFile] \in Command
    BY <1>a DEF Command
  <2>3. /\ command' \in [Commands -> Command \cup {NoCommand}] /\ command'[c].at = "unsocket"
        /\ \A d \in Commands \ {c} : command'[d] = command[d]
    BY <1>a, <2>1, <2>2, CommandRowSet
  <2>4. Cleared(c)'
    BY <2>3 DEF Cleared, CommandAt
  <2>5. ~overlap => \A p \in Pids : ~Holds(p)
    BY <1>a, <1>b, <2>1 DEF Cleared, CommandAt
  <2> QED BY <1>a, <1>c, <2>1, <2>3, <2>4, <2>5, CommandAlone
<1>5. CASE StopUnsocket(c)
  <2>1. /\ socket' = NoFile /\ CommandEnds(c) /\ UNCHANGED <<pidFile, process, overlap>>
    BY <1>5 DEF StopUnsocket
  <2>2. /\ command' \in [Commands -> Command \cup {NoCommand}] /\ command'[c] = NoCommand
        /\ \A d \in Commands \ {c} : command'[d] = command[d]
    BY <1>a, <2>1, CommandGone
  <2>3. Cleared(c)'
    BY <2>2 DEF Cleared, CommandAt
  <2> QED BY <1>a, <2>1, <2>2, <2>3, CommandAlone
<1> QED BY <1>1, <1>2, <1>3, <1>4, <1>5

\* Every step of RuntimeProcess preserves the invariant.
LEMMA RuntimeStepInv == RuntimeInv /\ [RuntimeNext]_runtimeVars => RuntimeInv'
<1> SUFFICES ASSUME RuntimeInv, [RuntimeNext]_runtimeVars PROVE RuntimeInv'
  OBVIOUS
<1>1. CASE UNCHANGED runtimeVars
  <2>1. RuntimeTypeOK'
    BY <1>1 DEF runtimeVars, RuntimeInv, RuntimeTypeOK
  <2>2. \A p \in Pids : (RowOK(p)' <=> RowOK(p)) /\ (Recorded(p)' <=> Recorded(p))
        /\ (Settled(p)' <=> Settled(p))
    BY <1>1 DEF runtimeVars, RowOK, Recorded, Says, Holds, Alive, Settled
  <2>3. \A c \in Commands : (Cleared(c)' <=> Cleared(c)) /\ (Waits(c)' <=> Waits(c))
    BY <1>1 DEF runtimeVars, Cleared, Waits, CommandAt, Holds, Alive
  <2>4. Alone' <=> Alone
    BY <1>1, <2>2, <2>3 DEF runtimeVars, Alone
  <2> QED BY <1>1, <2>1, <2>2, <2>3, <2>4 DEF RuntimeInv, runtimeVars
<1>2. ASSUME NEW p \in Pids,
             \/ Serve(p) \/ OpenExclusive(p) \/ WritePid(p) \/ ReadHolder(p) \/ RemoveStale(p)
             \/ StartRuntime(p) \/ RemoveSocket(p) \/ Listen(p)
             \/ CloseApp(p) \/ ReadOwnLock(p) \/ Unlink(p) \/ Die(p)
      PROVE  RuntimeInv'
  BY <1>2, StartupSteps, ShutdownSteps, ServeSteps, DieSteps
<1>3. ASSUME NEW c \in Commands,
             \/ TypeCommand(c, "start") \/ StartCheck(c) \/ StartRemove(c) \/ StartEnds(c)
             \/ (\E p \in Pids : StartSpawn(c, p))
             \/ TypeCommand(c, "stop") \/ StopCheck(c) \/ StopKill(c) \/ StopEnded(c)
             \/ StopUnlock(c) \/ StopUnsocket(c)
      PROVE  RuntimeInv'
  BY <1>3, TypedSteps, StartSteps, StopSteps
<1> QED BY <1>1, <1>2, <1>3 DEF RuntimeNext

\* For any pids and commands: RuntimeProcess.HolderIsRecorded.  As long as processes and commands
\* come one after another, whoever holds the runtime's lock is the process the file names
\* (process-lock.ts).  When they overlap it need not be: that is what RuntimeLock.cfg finds.
THEOREM LoneHolderIsRecorded == RuntimeSpec => [](RuntimeTypeOK /\ HolderIsRecorded)
<1>1. RuntimeInv => RuntimeTypeOK /\ HolderIsRecorded
  BY DEF RuntimeInv, HolderIsRecorded, Recorded
<1> QED BY <1>1, RuntimeInitInv, RuntimeStepInv, PTL DEF RuntimeSpec

-------------------------------------------------------------------------------
(* Event streams.                                                          *)

\* A set of naturals that is not empty has a least element (< is well-founded on Nat).
LEMMA LeastNatural ==
  ASSUME NEW S \in SUBSET Nat, S # {}
  PROVE  \E x \in S : \A y \in S : x <= y
<1> DEFINE R == OpToRel(<, Nat)
<1>1. IsWellFoundedOn(R, Nat)
  BY NatLessThanWellFounded, Zenon
<1>2. \A x, y \in Nat : x < y => <<x, y>> \in R
  BY DEF OpToRel
<1> HIDE DEF R
<1>3. PICK x \in S : \A y \in S : <<y, x>> \notin R
  BY <1>1, WFMin
<1>4. ASSUME NEW y \in S PROVE x <= y
  <2>1. x \in Nat /\ y \in Nat /\ ~(y < x)
    BY <1>2, <1>3
  <2> QED BY <2>1
<1> QED BY <1>4

\* A bounded set of naturals that is not empty has a greatest element, and it is Max.
LEMMA GreatestNatural ==
  ASSUME NEW n \in Nat, NEW S \in SUBSET (0 .. n), S # {}
  PROVE  Max(S) \in S /\ \A y \in S : Max(S) >= y
<1> DEFINE T == {n - x : x \in S}
<1>1. T \in SUBSET Nat /\ T # {}
  <2>1. \A x \in S : x \in Int /\ n - x \in Nat
    OBVIOUS
  <2>2. T \subseteq Nat
    BY <2>1
  <2> QED BY <2>2
<1>2. PICK t \in T : \A u \in T : t <= u
  BY <1>1, LeastNatural
<1>3. PICK x \in S : t = n - x
  BY <1>2
<1>4. ASSUME NEW y \in S PROVE x >= y
  <2>1. t <= n - y
    BY <1>2
  <2> QED BY <1>3, <2>1
<1> QED BY <1>4 DEF Max

\* Writer w has a move of task k to commit.
MovesTask(w, k) == LocksForUpdate(w, k) /\ writer[w].at = "checked"

\* What a writer has drawn and inserted.
WriterOK(w) ==
  Writing(w) =>
    /\ writer[w].id <= sequence[TableOf(writer[w].kind)]
    /\ writer[w].at # "locked" => writer[w].id > 0
    /\ writer[w].kind = "move" => writer[w].at # "inserted"
    /\ writer[w].at = "locked" => writer[w].kind = "move"

\* Nobody shares the row of a task with a writer that has locked it for update.
LocksExclude ==
  \A v, w \in Writers, k \in Streamed :
    (LocksForUpdate(w, k) /\ (LocksForUpdate(v, k) \/ LocksKeyShare(v, k))) => v = w

\* A move that is still to be committed is ahead of all there is of its task.
MoveIsAhead(w, k) ==
  MovesTask(w, k) =>
    /\ writer[w].id > cursor["task_events"][k]
    /\ \A r \in rows["task_events"] : r.of = k => r.id < writer[w].id

\* No row and no cursor is beyond what the sequence has given out.
IdsAreDrawn ==
  /\ \A r \in rows["task_events"] : r.id <= sequence["task_events"]
  /\ \A k \in Streamed : cursor["task_events"][k] <= sequence["task_events"]

\* A move is committed under the lock of its task: nothing of the task overtakes it, so no cursor
\* of the task is past it when it becomes visible.
StreamInv ==
  /\ StreamTypeOK
  /\ cursor = [t \in Tables |-> cursor[t]] /\ given = [t \in Tables |-> given[t]]
  /\ \A w \in Writers : WriterOK(w)
  /\ LocksExclude
  /\ \A w \in Writers, k \in Streamed : MoveIsAhead(w, k)
  /\ IdsAreDrawn
  /\ MovesReachTheirReader

\* The value that stands for no writer is not a row.
LEMMA WriterRows ==
  /\ NotWriting \notin Writer
  /\ \A r \in Writer : /\ r.at \in {"locked", "inserted", "checked"} /\ r.kind \in Kinds
                        /\ r.of \in Streamed /\ r.id \in 0 .. MaxRows
BY DEF NotWriting, Writer

\* The table and the scopes of every kind of row.
LEMMA KindsAndTables ==
  /\ \A kind \in Kinds : TableOf(kind) \in Tables
  /\ TableOf("move") = "task_events" /\ TableOf("other") = "task_events"
  /\ TableOf("chunk") = "task_output_chunks" /\ "task_events" # "task_output_chunks"
  /\ Tables = {"task_events", "task_output_chunks"}
  /\ ScopesOf("task_events") = Streamed \cup {Everything}
  /\ ScopesOf("task_output_chunks") = Streamed
BY DEF Kinds, TableOf, Tables, ScopesOf

\* At the start nobody writes and nobody has read.
LEMMA StreamInitInv == StreamInit => StreamInv
<1> SUFFICES ASSUME StreamInit PROVE StreamInv
  OBVIOUS
<1>1. \A w \in Writers : ~Writing(w)
  BY DEF StreamInit, Writing
<1>2. /\ sequence \in [Tables -> 0 .. MaxRows] /\ rows \in [Tables -> SUBSET StreamRow]
      /\ writer \in [Writers -> Writer \cup {NotWriting}]
      /\ \A t \in Tables : rows[t] = {} /\ sequence[t] = 0
  BY StreamAssumption DEF StreamInit
<1>3. /\ cursor = [t \in Tables |-> cursor[t]] /\ given = [t \in Tables |-> given[t]]
      /\ \A t \in Tables : /\ cursor[t] = [s \in ScopesOf(t) |-> 0]
                           /\ given[t] = [s \in ScopesOf(t) |-> {}]
  BY DEF StreamInit
<1>4. StreamTypeOK
  BY <1>2, <1>3, StreamAssumption DEF StreamTypeOK
<1>5. IdsAreDrawn /\ MovesReachTheirReader
  BY <1>2, <1>3, KindsAndTables DEF IdsAreDrawn, MovesReachTheirReader
<1> QED BY <1>1, <1>3, <1>4, <1>5
        DEF StreamInv, WriterOK, LocksExclude, LocksForUpdate, MoveIsAhead,
        MovesTask

\* A writer's step: what is asked of the writer that moves.
LEMMA WriterMoves ==
  ASSUME StreamInv, StreamTypeOK', NEW w \in Writers,
         \A v \in Writers \ {w} : writer'[v] = writer[v], UNCHANGED <<cursor, given>>,
         \A t \in Tables : sequence[t] <= sequence'[t],
         WriterOK(w)',
         \A k \in Streamed :
           /\ (LocksForUpdate(w, k)' /\ ~LocksForUpdate(w, k)) =>
                \A v \in Writers : ~LocksForUpdate(v, k) /\ ~LocksKeyShare(v, k)
           /\ (LocksKeyShare(w, k)' /\ ~LocksKeyShare(w, k)) =>
                \A v \in Writers \ {w} : ~LocksForUpdate(v, k)
           /\ MoveIsAhead(w, k)',
         \A r \in rows'["task_events"] \ rows["task_events"] :
           /\ LocksKeyShare(w, r.of) /\ r.id <= sequence["task_events"] /\ r.of \in Streamed
           /\ r.kind = "move" => r.id > cursor["task_events"][r.of]
  PROVE  StreamInv'
<1>1. \A v \in Writers \ {w} : /\ Writing(v)' <=> Writing(v)
                               /\ \A k : (LocksForUpdate(v, k)' <=> LocksForUpdate(v, k))
                               /\ \A k : (LocksKeyShare(v, k)' <=> LocksKeyShare(v, k))
                               /\ \A k : (MovesTask(v, k)' <=> MovesTask(v, k))
  BY DEF Writing, LocksForUpdate, LocksKeyShare, MovesTask
<1>2. ASSUME NEW v \in Writers \ {w} PROVE WriterOK(v)'
  <2>1. WriterOK(v) /\ writer[v] \in Writer \cup {NotWriting}
    BY DEF StreamInv, StreamTypeOK
  <2>2. CASE ~Writing(v)
    BY <1>1, <2>2 DEF WriterOK
  <2>3. CASE Writing(v)
    <3>1. writer[v].kind \in Kinds /\ writer[v].id \in Int
      BY <2>1, <2>3, WriterRows, StreamAssumption DEF Writing
    <3> DEFINE t == TableOf(writer[v].kind)
    <3>2. sequence[t] \in Int /\ sequence'[t] \in Int /\ sequence[t] <= sequence'[t]
      BY <3>1, KindsAndTables, StreamAssumption DEF StreamInv, StreamTypeOK
    <3>3. writer[v].id <= sequence[t]
      BY <2>1, <2>3 DEF WriterOK
    <3>4. writer[v].id <= sequence'[t]
      BY <3>1, <3>2, <3>3
    <3> QED BY <2>1, <2>3, <3>4 DEF WriterOK
  <2> QED BY <2>2, <2>3
<1>3. LocksExclude'
  <2>1. ASSUME NEW u \in Writers, NEW v \in Writers, NEW k \in Streamed,
               LocksForUpdate(v, k)', LocksForUpdate(u, k)' \/ LocksKeyShare(u, k)'
        PROVE  u = v
    <3>1. CASE u # w /\ v # w
      BY <1>1, <2>1, <3>1 DEF StreamInv, LocksExclude
    <3>2. CASE v = w /\ u # w
      <4>1. LocksForUpdate(u, k) \/ LocksKeyShare(u, k)
        BY <1>1, <2>1, <3>2
      <4>2. LocksForUpdate(w, k)
        BY <2>1, <3>2, <4>1
      <4> QED BY <3>2, <4>1, <4>2 DEF StreamInv, LocksExclude
    <3>3. CASE u = w /\ v # w
      <4>1. LocksForUpdate(v, k)
        BY <1>1, <2>1, <3>3
      <4>2. LocksForUpdate(w, k) \/ LocksKeyShare(w, k)
        BY <2>1, <3>3, <4>1
      <4> QED BY <3>3, <4>1, <4>2 DEF StreamInv, LocksExclude
    <3> QED BY <3>1, <3>2, <3>3
  <2> QED BY <2>1 DEF LocksExclude
<1>4. ASSUME NEW v \in Writers \ {w}, NEW k \in Streamed PROVE MoveIsAhead(v, k)'
  <2> SUFFICES ASSUME MovesTask(v, k)' PROVE MoveIsAhead(v, k)'
    BY DEF MoveIsAhead
  <2>1. MovesTask(v, k) /\ MoveIsAhead(v, k)
    BY <1>1 DEF StreamInv
  <2>2. ~LocksKeyShare(w, k)
    BY <2>1 DEF MovesTask, StreamInv, LocksExclude
  <2>3. \A r \in rows'["task_events"] : r.of = k => r \in rows["task_events"]
    BY <2>2
  <2> QED BY <2>1, <2>3 DEF MoveIsAhead
<1>5. IdsAreDrawn'
  <2>1. sequence["task_events"] \in Int /\ sequence'["task_events"] \in Int
        /\ sequence["task_events"] <= sequence'["task_events"]
    BY KindsAndTables, StreamAssumption DEF StreamInv, StreamTypeOK
  <2>2. \A r \in rows'["task_events"] : r.id \in Int
    BY KindsAndTables DEF StreamTypeOK, StreamRow
  <2>3. \A k \in Streamed : cursor["task_events"][k] \in Int
    BY KindsAndTables, StreamAssumption DEF StreamInv, StreamTypeOK
  <2>4. \A r \in rows'["task_events"] : r.id <= sequence["task_events"]
    BY DEF StreamInv, IdsAreDrawn
  <2> QED BY <2>1, <2>2, <2>3, <2>4 DEF StreamInv, IdsAreDrawn
<1>6. MovesReachTheirReader'
  <2>1. ASSUME NEW r \in rows'["task_events"], r.kind = "move",
               r.id \leq cursor["task_events"][r.of]
        PROVE  r \in rows["task_events"]
    <3>1. r.id \in Int /\ r.of \in Streamed
      BY KindsAndTables DEF StreamTypeOK, StreamRow
    <3>2. cursor["task_events"][r.of] \in Int
      BY <3>1, KindsAndTables, StreamAssumption DEF StreamInv, StreamTypeOK
    <3>3. ~(r.id > cursor["task_events"][r.of])
      BY <2>1, <3>1, <3>2
    <3> QED BY <2>1, <3>3
  <2> QED BY <2>1 DEF StreamInv, MovesReachTheirReader
<1> QED BY <1>2, <1>3, <1>4, <1>5, <1>6 DEF StreamInv

\* The id that a row is given is above all that were.
LEMMA DrawDoes ==
  ASSUME StreamInv, NEW kind \in Kinds, Draw(kind)
  PROVE  /\ sequence' \in [Tables -> 0 .. MaxRows]
         /\ \A t \in Tables : sequence[t] \in Nat /\ sequence[t] <= sequence'[t]
         /\ NextId(kind) \in 1 .. MaxRows /\ sequence'[TableOf(kind)] = NextId(kind)
         /\ NextId(kind) = sequence[TableOf(kind)] + 1
<1>1. /\ sequence \in [Tables -> 0 .. MaxRows] /\ TableOf(kind) \in Tables
      /\ NextId(kind) <= MaxRows /\ NextId(kind) = sequence[TableOf(kind)] + 1
      /\ sequence' = [sequence EXCEPT ![TableOf(kind)] = NextId(kind)]
  BY KindsAndTables DEF StreamInv, StreamTypeOK, Draw, NextId
<1>2. \A t \in Tables : sequence[t] \in Nat
  BY <1>1, StreamAssumption
<1>3. NextId(kind) \in 1 .. MaxRows
  BY <1>1, <1>2, StreamAssumption
<1>4. sequence' \in [Tables -> 0 .. MaxRows]
  BY <1>1, <1>3, StreamAssumption
<1>5. \A t \in Tables : sequence[t] <= sequence'[t]
  <2>1. ASSUME NEW t \in Tables PROVE sequence[t] <= sequence'[t]
    <3>1. CASE t = TableOf(kind)
      BY <1>1, <1>2, <3>1
    <3>2. CASE t # TableOf(kind)
      BY <1>1, <1>2, <3>2
    <3> QED BY <3>1, <3>2
  <2> QED BY <2>1
<1> QED BY <1>1, <1>2, <1>3, <1>4, <1>5

\* The steps of the transactions that append to the two tables.
LEMMA WriterSteps ==
  ASSUME StreamInv, NEW w \in Writers,
         \/ \E k \in Streamed : SelectTask(w, k) \/ AppendOther(w, k) \/ AppendOutput(w, k)
         \/ AppendMove(w) \/ CheckForeignKey(w) \/ CommitRow(w) \/ RollbackRow(w)
  PROVE  StreamInv'
<1>a. /\ StreamTypeOK /\ sequence \in [Tables -> 0 .. MaxRows] /\ MaxRows \in Nat
      /\ writer \in [Writers -> Writer \cup {NotWriting}] /\ rows \in [Tables -> SUBSET StreamRow]
      /\ WriterOK(w)
  BY StreamAssumption DEF StreamInv, StreamTypeOK
<1>b. Writing(w) =>
        /\ writer[w] \in Writer /\ writer[w].kind \in Kinds /\ writer[w].of \in Streamed
        /\ writer[w].id \in 0 .. MaxRows
  BY <1>a, WriterRows DEF Writing
<1>c. \A t \in Tables : sequence[t] <= sequence[t]
  BY <1>a
<1>1. ASSUME NEW k \in Streamed, SelectTask(w, k) PROVE StreamInv'
  <2> DEFINE row == [at |-> "locked", kind |-> "move", of |-> k, id |-> 0]
  <2>1. /\ \A v \in Writers : ~LocksForUpdate(v, k) /\ ~LocksKeyShare(v, k)
        /\ writer' = [writer EXCEPT ![w] = row] /\ UNCHANGED <<sequence, rows, cursor, given>>
    BY <1>1 DEF SelectTask, SetWriter
  <2>2. row \in Writer /\ row.at = "locked" /\ row.kind = "move" /\ row.of = k /\ row.id = 0
    BY <1>a DEF Writer, Kinds
  <2> HIDE DEF row
  <2>3. /\ writer' \in [Writers -> Writer \cup {NotWriting}] /\ writer'[w] = row
        /\ \A v \in Writers \ {w} : writer'[v] = writer[v]
    BY <1>a, <2>1, <2>2
  <2>4. StreamTypeOK'
    BY <1>a, <2>1, <2>3 DEF StreamTypeOK
  <2>5. 0 <= sequence["task_events"]
    BY <1>a, KindsAndTables
  <2>6. WriterOK(w)'
    BY <2>1, <2>2, <2>3, <2>5, KindsAndTables DEF WriterOK
  <2>7. ASSUME NEW j \in Streamed
        PROVE  (LocksForUpdate(w, j)' => j = k) /\ ~LocksKeyShare(w, j)' /\ ~MovesTask(w, j)'
    BY <2>2, <2>3 DEF LocksForUpdate, LocksKeyShare, MovesTask
  <2>8. \A j \in Streamed : MoveIsAhead(w, j)'
    BY <2>7 DEF MoveIsAhead
  <2> QED BY <1>c, <2>1, <2>3, <2>4, <2>6, <2>7, <2>8, WriterMoves
<1>2. ASSUME NEW k \in Streamed, NEW kind \in {"other", "chunk"}, AppendRow(w, k, kind)
      PROVE StreamInv'
  <2>p. PICK n : n = NextId(kind)
    OBVIOUS
  <2> DEFINE row == [at |-> "inserted", kind |-> kind, of |-> k, id |-> n]
  <2>1. /\ Draw(kind) /\ writer' = [writer EXCEPT ![w] = row] /\ UNCHANGED <<rows, cursor, given>>
    BY <1>2, <2>p DEF AppendRow, SetWriter
  <2>2. /\ sequence' \in [Tables -> 0 .. MaxRows] /\ kind \in Kinds
        /\ \A t \in Tables : sequence[t] <= sequence'[t]
        /\ n \in 1 .. MaxRows /\ sequence'[TableOf(kind)] = n
    BY <2>p, <2>1, DrawDoes DEF Kinds
  <2>3. row \in Writer /\ row.at = "inserted" /\ row.kind = kind /\ row.of = k /\ row.id = n
    BY <1>a, <2>2 DEF Writer
  <2> HIDE DEF row
  <2>4. /\ writer' \in [Writers -> Writer \cup {NotWriting}] /\ writer'[w] = row
        /\ \A v \in Writers \ {w} : writer'[v] = writer[v]
    BY <1>a, <2>1, <2>3
  <2>5. StreamTypeOK'
    BY <1>a, <2>1, <2>2, <2>4 DEF StreamTypeOK
  <2>6. n <= n /\ n > 0
    BY <2>2
  <2>7. WriterOK(w)'
    BY <2>2, <2>3, <2>4, <2>6 DEF WriterOK
  <2>8. ASSUME NEW j \in Streamed
        PROVE  ~LocksForUpdate(w, j)' /\ ~LocksKeyShare(w, j)' /\ ~MovesTask(w, j)'
    BY <2>3, <2>4 DEF LocksForUpdate, LocksKeyShare, MovesTask
  <2>9. \A j \in Streamed : MoveIsAhead(w, j)'
    BY <2>8 DEF MoveIsAhead
  <2> QED BY <2>1, <2>2, <2>4, <2>5, <2>7, <2>8, <2>9, WriterMoves
<1>3. CASE AppendMove(w)
  <2>p. PICK n, j : n = NextId("move") /\ j = writer[w].of
    OBVIOUS
  <2> DEFINE row == [writer[w] EXCEPT !.at = "checked", !.id = n]
  <2>1. /\ Writing(w) /\ writer[w].at = "locked" /\ Draw("move")
        /\ writer' = [writer EXCEPT ![w] = row] /\ UNCHANGED <<rows, cursor, given>>
    BY <1>3, <2>p DEF AppendMove, SetWriter
  <2>2. /\ sequence' \in [Tables -> 0 .. MaxRows] /\ "move" \in Kinds
        /\ \A t \in Tables : sequence[t] \in Nat /\ sequence[t] <= sequence'[t]
        /\ n \in 1 .. MaxRows /\ sequence'["task_events"] = n /\ n = sequence["task_events"] + 1
    BY <2>p, <2>1, DrawDoes, KindsAndTables DEF Kinds
  <2>3. /\ row \in Writer /\ row.at = "checked" /\ row.kind = writer[w].kind /\ row.of = j
        /\ row.id = n
    <3>1. writer[w] \in Writer /\ n \in 0 .. MaxRows
      BY <1>a, <1>b, <2>1, <2>2
    <3> QED BY <2>p, <3>1 DEF Writer
  <2> HIDE DEF row
  <2>4. /\ writer' \in [Writers -> Writer \cup {NotWriting}] /\ writer'[w] = row
        /\ \A v \in Writers \ {w} : writer'[v] = writer[v]
    BY <1>a, <2>1, <2>3
  <2>5. StreamTypeOK'
    BY <1>a, <2>1, <2>2, <2>4 DEF StreamTypeOK
  <2>k. writer[w].kind = "move"
    BY <1>a, <2>1 DEF WriterOK
  <2>6. n <= n /\ n > 0
    BY <2>2
  <2>7. WriterOK(w)'
    BY <2>2, <2>3, <2>4, <2>6, <2>k, KindsAndTables DEF WriterOK
  <2>8. /\ \A i \in Streamed :
             (LocksForUpdate(w, i)' \/ LocksKeyShare(w, i)' \/ MovesTask(w, i)') => i = j
        /\ j \in Streamed /\ LocksForUpdate(w, j)
    BY <1>b, <2>p, <2>1, <2>3, <2>4, <2>k DEF LocksForUpdate, LocksKeyShare, MovesTask
  <2>9. \A v \in Writers \ {w} : ~LocksForUpdate(v, j)
    BY <2>8 DEF StreamInv, LocksExclude
  <2>10. MoveIsAhead(w, j)'
    <3>1. cursor["task_events"][j] \in Nat /\ cursor["task_events"][j] <= sequence["task_events"]
      BY <1>a, <2>8, KindsAndTables DEF StreamTypeOK, StreamInv, IdsAreDrawn
    <3>2. \A r \in rows["task_events"] : r.id \in Nat /\ r.id <= sequence["task_events"]
      BY <1>a, KindsAndTables DEF StreamRow, StreamInv, IdsAreDrawn
    <3>3. n > cursor["task_events"][j] /\ \A r \in rows["task_events"] : r.id < n
      BY <2>2, <3>1, <3>2, KindsAndTables
    <3> QED BY <2>1, <2>3, <2>4, <3>3 DEF MoveIsAhead
  <2>11. \A i \in Streamed : MoveIsAhead(w, i)'
    BY <2>8, <2>10 DEF MoveIsAhead
  <2> QED BY <2>1, <2>2, <2>4, <2>5, <2>7, <2>8, <2>9, <2>11, WriterMoves
<1>4. CASE CheckForeignKey(w)
  <2>p. PICK j : j = writer[w].of
    OBVIOUS
  <2> DEFINE row == [writer[w] EXCEPT !.at = "checked"]
  <2>1. /\ Writing(w) /\ writer[w].at = "inserted" /\ \A v \in Writers : ~LocksForUpdate(v, j)
        /\ writer' = [writer EXCEPT ![w] = row] /\ UNCHANGED <<sequence, rows, cursor, given>>
    BY <1>4, <2>p DEF CheckForeignKey, SetWriter
  <2>2. /\ row \in Writer /\ row.at = "checked" /\ row.kind = writer[w].kind /\ row.of = j
        /\ row.id = writer[w].id
    BY <1>b, <2>p, <2>1 DEF Writer
  <2> HIDE DEF row
  <2>3. /\ writer' \in [Writers -> Writer \cup {NotWriting}] /\ writer'[w] = row
        /\ \A v \in Writers \ {w} : writer'[v] = writer[v]
    BY <1>a, <2>1, <2>2
  <2>4. StreamTypeOK'
    BY <1>a, <2>1, <2>3 DEF StreamTypeOK
  <2>5. WriterOK(w)' /\ writer[w].kind # "move"
    BY <1>a, <2>1, <2>2, <2>3 DEF WriterOK
  <2>6. \A i \in Streamed : ~LocksForUpdate(w, i)' /\ ~MovesTask(w, i)'
                          /\ (LocksKeyShare(w, i)' => i = j)
    BY <2>2, <2>3, <2>5 DEF LocksForUpdate, LocksKeyShare, MovesTask
  <2>7. \A i \in Streamed : MoveIsAhead(w, i)'
    BY <2>6 DEF MoveIsAhead
  <2> QED BY <1>c, <2>1, <2>3, <2>4, <2>5, <2>6, <2>7, WriterMoves
<1>5. CASE CommitRow(w) \/ RollbackRow(w)
  <2>1. writer' = [writer EXCEPT ![w] = NotWriting] /\ Writing(w) /\ UNCHANGED <<sequence,
        cursor, given>>
    BY <1>5 DEF CommitRow, RollbackRow, SetWriter
  <2>2. /\ writer' \in [Writers -> Writer \cup {NotWriting}] /\ ~Writing(w)'
        /\ \A v \in Writers \ {w} : writer'[v] = writer[v]
    BY <1>a, <2>1 DEF Writing
  <2>3. /\ WriterOK(w)' /\ \A i \in Streamed : ~LocksForUpdate(w, i)' /\ ~LocksKeyShare(w, i)'
                                             /\ MoveIsAhead(w, i)'
    BY <2>2 DEF WriterOK, LocksForUpdate, LocksKeyShare, MoveIsAhead, MovesTask
  <2>4. /\ rows' \in [Tables -> SUBSET StreamRow]
        /\ \A r \in rows'["task_events"] \ rows["task_events"] :
              /\ LocksKeyShare(w, r.of) /\ r.id <= sequence["task_events"] /\ r.of \in Streamed
              /\ r.kind = "move" => r.id > cursor["task_events"][r.of]
    <3>1. CASE UNCHANGED rows
      BY <1>a, <3>1
    <3>2. CASE CommitRow(w)
      <4>p. PICK n, kind, j : n = writer[w].id /\ kind = writer[w].kind /\ j = writer[w].of
        OBVIOUS
      <4> DEFINE row == [id |-> n, kind |-> kind, of |-> j]
      <4>1. writer[w].at = "checked"
            /\ rows' = [rows EXCEPT ![TableOf(kind)] = rows[TableOf(kind)] \cup {row}]
        BY <3>2, <4>p DEF CommitRow
      <4>2. /\ n \in 1 .. MaxRows /\ kind \in Kinds /\ j \in Streamed /\ TableOf(kind) \in Tables
            /\ n <= sequence[TableOf(kind)]
        BY <1>a, <1>b, <2>1, <4>p, <4>1, KindsAndTables DEF WriterOK
      <4>3. row \in StreamRow /\ row.id = n /\ row.kind = kind /\ row.of = j
        BY <4>2 DEF StreamRow
      <4> HIDE DEF row
      <4>4. rows' \in [Tables -> SUBSET StreamRow]
        BY <1>a, <4>1, <4>2, <4>3
      <4>5. ASSUME NEW r \in rows'["task_events"] \ rows["task_events"]
            PROVE  r = row /\ TableOf(kind) = "task_events"
        BY <1>a, <4>1, <4>2, <4>5, KindsAndTables
      <4>6. LocksKeyShare(w, j)
        BY <2>1, <4>p, <4>1 DEF LocksKeyShare
      <4>7. kind = "move" => n > cursor["task_events"][j]
        BY <2>1, <4>p, <4>1, <4>2 DEF StreamInv, MoveIsAhead, MovesTask, LocksForUpdate
      <4> QED BY <4>2, <4>3, <4>4, <4>5, <4>6, <4>7
    <3> QED BY <1>5, <3>1, <3>2 DEF RollbackRow
  <2>5. StreamTypeOK'
    BY <1>a, <2>1, <2>2, <2>4 DEF StreamTypeOK
  <2> QED BY <1>c, <2>1, <2>2, <2>3, <2>4, <2>5, WriterMoves
<1> QED BY <1>1, <1>2, <1>3, <1>4, <1>5 DEF AppendOther, AppendOutput

\* A reader's step: what it is given of each table, and how far it comes.
LEMMA PageDoes ==
  ASSUME StreamInv, NEW table \in Tables, NEW scope \in ScopesOf(table), Page(table, scope) # {}
  PROVE  /\ Page(table, scope) \subseteq 1 .. MaxRows
         /\ Max(Page(table, scope)) \in Page(table, scope)
         /\ \A i \in Beyond(table, scope) : i <= Max(Page(table, scope)) =>
              i \in Page(table, scope)
<1> DEFINE B == Beyond(table, scope)  P == Page(table, scope)
<1>1. B \subseteq 1 .. MaxRows
  <2>1. rows[table] \subseteq StreamRow
    BY DEF StreamInv, StreamTypeOK
  <2> QED BY <2>1 DEF Beyond, StreamRow
<1>2. P \subseteq B /\ \A i \in B : i \in P <=> Cardinality({j \in B : j < i}) < PageLimit
  BY DEF Page
<1> HIDE DEF B, P
<1>3. P # {} /\ P \in SUBSET (0 .. MaxRows) /\ P \subseteq 1 .. MaxRows
  <2>1. P # {}
    BY DEF P
  <2>2. P \subseteq 1 .. MaxRows
    BY <1>1, <1>2
  <2>3. \A i \in 1 .. MaxRows : i \in 0 .. MaxRows
    BY StreamAssumption
  <2> QED BY <2>1, <2>2, <2>3
<1>4. PICK m : m = Max(P)
  OBVIOUS
<1>5. m \in P
  BY <1>3, <1>4, GreatestNatural, StreamAssumption
<1>6. ASSUME NEW i \in B, i <= m PROVE i \in P
  <2> DEFINE S == {j \in B : j < i}  T == {j \in B : j < m}
  <2>1. S \subseteq T
    <3>1. ASSUME NEW j \in S PROVE j \in T
      <4>1. j \in Int /\ i \in Int /\ m \in Int /\ j < i
        BY <1>1, <1>2, <1>5, StreamAssumption
      <4> QED BY <1>6, <4>1
    <3> QED BY <3>1
  <2>2. IsFiniteSet(T)
    <3>1. IsFiniteSet(1 .. MaxRows)
      BY FS_Interval, StreamAssumption
    <3>2. T \in SUBSET (1 .. MaxRows)
      BY <1>1
    <3> QED BY <3>1, <3>2, FS_Subset
  <2>3. Cardinality(T) < PageLimit
    BY <1>2, <1>5
  <2> HIDE DEF S, T
  <2>4. /\ Cardinality(S) <= Cardinality(T) /\ Cardinality(T) \in Nat /\ Cardinality(S) \in Nat
    BY <2>1, <2>2, FS_Subset, FS_CardinalityType
  <2>5. Cardinality(S) < PageLimit
    BY <2>3, <2>4, StreamAssumption
  <2> QED BY <1>2, <1>6, <2>5 DEF S
<1> QED BY <1>3, <1>4, <1>5, <1>6 DEF P, B

\* A page that is read: the cursor goes to its greatest id, and what is behind it has been given.
LEMMA ReaderSteps ==
  ASSUME StreamInv, NEW table \in Tables, NEW scope \in ScopesOf(table), ReadOn(table, scope)
  PROVE  StreamInv'
<1>p. PICK page, m : page = Page(table, scope) /\ m = Max(page)
  OBVIOUS
<1>1. /\ page # {} /\ UNCHANGED <<sequence, rows, writer>>
      /\ cursor' = [cursor EXCEPT ![table] = [cursor[table] EXCEPT ![scope] = m]]
      /\ given' = [given EXCEPT ![table] =
                     [given[table] EXCEPT ![scope] = given[table][scope] \cup page]]
  BY <1>p DEF ReadOn
<1>2. /\ page \subseteq 1 .. MaxRows /\ m \in page
      /\ \A i \in Beyond(table, scope) : i <= m => i \in page
  BY <1>p, <1>1, PageDoes
<1>3. /\ StreamTypeOK /\ cursor = [t \in Tables |-> cursor[t]]
      /\ given = [t \in Tables |-> given[t]]
      /\ cursor[table] \in [ScopesOf(table) -> 0 .. MaxRows]
      /\ given[table] \in [ScopesOf(table) -> SUBSET (1 .. MaxRows)]
  BY DEF StreamInv, StreamTypeOK
<1>4. PICK c, g : /\ c = [cursor[table] EXCEPT ![scope] = m]
                  /\ g = [given[table] EXCEPT ![scope] = given[table][scope] \cup page]
  OBVIOUS
<1>5. /\ c \in [ScopesOf(table) -> 0 .. MaxRows]
      /\ g \in [ScopesOf(table) -> SUBSET (1 .. MaxRows)]
      /\ c[scope] = m /\ g[scope] = given[table][scope] \cup page
      /\ \A s \in ScopesOf(table) \ {scope} : c[s] = cursor[table][s] /\ g[s] = given[table][s]
  <2>1. m \in 0 .. MaxRows
    BY <1>2, StreamAssumption
  <2> QED BY <1>2, <1>3, <1>4, <2>1
<1>6. /\ cursor' = [cursor EXCEPT ![table] = c] /\ given' = [given EXCEPT ![table] = g]
  BY <1>1, <1>4
<1>7. /\ cursor' = [t \in Tables |-> cursor'[t]] /\ given' = [t \in Tables |-> given'[t]]
      /\ cursor'[table] = c /\ given'[table] = g
      /\ \A t \in Tables \ {table} : cursor'[t] = cursor[t] /\ given'[t] = given[t]
  BY <1>3, <1>6
<1>8. StreamTypeOK'
  <2>1. ASSUME NEW t \in Tables
        PROVE  /\ cursor'[t] \in [ScopesOf(t) -> 0 .. MaxRows]
               /\ given'[t] \in [ScopesOf(t) -> SUBSET (1 .. MaxRows)]
    <3>1. CASE t = table
      BY <1>5, <1>7, <3>1
    <3>2. CASE t # table
      BY <1>3, <1>7, <3>2 DEF StreamTypeOK
    <3> QED BY <3>1, <3>2
  <2> QED BY <1>1, <1>3, <2>1 DEF StreamTypeOK
<1>9. \A w \in Writers : WriterOK(w)'
  BY <1>1 DEF StreamInv, WriterOK, Writing
<1>10. LocksExclude'
  BY <1>1 DEF StreamInv, LocksExclude, LocksForUpdate, LocksKeyShare, Writing
\* Where the reader is that has not read of the task, and where it has.
<1>11. ASSUME NEW k \in Streamed
       PROVE  \/ /\ cursor'["task_events"][k] = cursor["task_events"][k]
                 /\ given'["task_events"][k] = given["task_events"][k]
              \/ table = "task_events" /\ scope = k
  <2>1. CASE table = "task_events"
    BY <1>5, <1>7, <2>1, KindsAndTables
  <2>2. CASE table # "task_events"
    BY <1>7, <2>2, KindsAndTables
  <2> QED BY <2>1, <2>2
<1>12. ASSUME table = "task_events", scope \in Streamed
       PROVE  /\ \E r \in rows["task_events"] : r.id = m /\ r.of = scope
              /\ \A r \in rows["task_events"] :
                    (r.of = scope /\ r.id > cursor["task_events"][scope] /\ r.id <= m) =>
                      r.id \in page
              /\ cursor'["task_events"][scope] = m
              /\ given'["task_events"][scope] = given["task_events"][scope] \cup page
  <2>1. m \in Beyond(table, scope)
    BY <1>p, <1>2 DEF Page
  <2>2. PICK r \in rows["task_events"] : r.id = m /\ scope \in {r.of, Everything}
    BY <1>12, <2>1 DEF Beyond
  <2>3. r.of = scope
    BY <1>12, <2>2, StreamAssumption
  <2>4. \A q \in rows["task_events"] :
          (q.of = scope /\ q.id > cursor["task_events"][scope]) => q.id \in Beyond(table, scope)
    BY <1>12 DEF Beyond
  <2> QED BY <1>2, <1>5, <1>7, <1>12, <2>2, <2>3, <2>4
<1>13. ASSUME NEW w \in Writers, NEW k \in Streamed PROVE MoveIsAhead(w, k)'
  <2>1. MoveIsAhead(w, k) /\ (MovesTask(w, k)' <=> MovesTask(w, k))
    BY <1>1 DEF StreamInv, MovesTask, LocksForUpdate, Writing
  <2>2. CASE cursor'["task_events"][k] = cursor["task_events"][k]
    BY <1>1, <2>1, <2>2 DEF MoveIsAhead
  <2>3. CASE table = "task_events" /\ scope = k
    <3>1. MovesTask(w, k) => m < writer[w].id
      BY <1>12, <2>1, <2>3 DEF MoveIsAhead
    <3>2. MovesTask(w, k) => writer[w].id \in Int
      BY <1>3, WriterRows, StreamAssumption DEF MovesTask, LocksForUpdate, Writing, StreamTypeOK
    <3>3. m \in Int
      BY <1>2, StreamAssumption
    <3>4. MovesTask(w, k) => writer[w].id > m
      BY <3>1, <3>2, <3>3
    <3> QED BY <1>1, <1>12, <2>1, <2>3, <3>4 DEF MoveIsAhead
  <2> QED BY <1>11, <2>2, <2>3
<1>14. IdsAreDrawn'
  <2>1. ASSUME NEW k \in Streamed PROVE cursor'["task_events"][k] <= sequence["task_events"]
    <3>1. CASE cursor'["task_events"][k] = cursor["task_events"][k]
      BY <3>1 DEF StreamInv, IdsAreDrawn
    <3>2. CASE table = "task_events" /\ scope = k
      BY <1>12, <3>2 DEF StreamInv, IdsAreDrawn
    <3> QED BY <1>11, <3>1, <3>2
  <2> QED BY <1>1, <2>1 DEF StreamInv, IdsAreDrawn
<1>15. MovesReachTheirReader'
  <2>1. ASSUME NEW r \in rows["task_events"], r.kind = "move",
               r.id <= cursor'["task_events"][r.of]
        PROVE  r.id \in given'["task_events"][r.of]
    <3>1. r.of \in Streamed /\ r.id \in Int
      BY <1>3, KindsAndTables DEF StreamTypeOK, StreamRow
    <3>2. cursor["task_events"][r.of] \in Int
      BY <1>3, <3>1, KindsAndTables, StreamAssumption DEF StreamTypeOK
    <3>3. CASE r.id <= cursor["task_events"][r.of]
      <4>1. r.id \in given["task_events"][r.of]
        BY <2>1, <3>3 DEF StreamInv, MovesReachTheirReader
      <4>2. given["task_events"][r.of] \subseteq given'["task_events"][r.of]
        BY <1>11, <1>12, <3>1
      <4> QED BY <4>1, <4>2
    <3>4. CASE r.id > cursor["task_events"][r.of]
      <4>1. table = "task_events" /\ scope = r.of
        BY <1>11, <2>1, <3>1, <3>2, <3>4
      <4> QED BY <1>12, <2>1, <3>1, <3>4, <4>1
    <3> QED BY <3>1, <3>2, <3>3, <3>4
  <2> QED BY <1>1, <2>1 DEF MovesReachTheirReader
<1> QED BY <1>7, <1>8, <1>9, <1>10, <1>13, <1>14, <1>15 DEF StreamInv

\* Every step of EventStream preserves the invariant.
LEMMA StreamStepInv == StreamInv /\ [StreamNext]_streamVars => StreamInv'
<1> SUFFICES ASSUME StreamInv, [StreamNext]_streamVars PROVE StreamInv'
  OBVIOUS
<1>1. CASE UNCHANGED streamVars
  BY <1>1
     DEF streamVars, StreamInv, StreamTypeOK, WriterOK, Writing, LocksExclude, LocksForUpdate,
     LocksKeyShare, MoveIsAhead, MovesTask, IdsAreDrawn, MovesReachTheirReader
<1>2. ASSUME NEW s \in ScopesOf("task_events"), Watch(s) PROVE StreamInv'
  BY <1>2, ReaderSteps, KindsAndTables DEF Watch
<1>3. ASSUME NEW k \in Streamed, WatchOutput(k) PROVE StreamInv'
  BY <1>3, ReaderSteps, KindsAndTables DEF WatchOutput
<1> QED BY <1>1, <1>2, <1>3, WriterSteps DEF StreamNext

\* For any writers, tasks, rows and page size: EventStream.MovesReachTheirReader.  Whoever follows
\* a task misses none of its status changes, whatever else is committed out of order.
THEOREM ReadersMissNoMove == StreamSpec => [](StreamTypeOK /\ MovesReachTheirReader)
<1>1. StreamInv => StreamTypeOK /\ MovesReachTheirReader
  BY DEF StreamInv
<1> QED BY <1>1, StreamInitInv, StreamStepInv, PTL DEF StreamSpec

-------------------------------------------------------------------------------
(* The eleven together.                                                    *)

\* The invariants of the eleven, side by side: they share no variable.
ServicesInv ==
  /\ part \in Parts
  /\ RuntimeInv /\ StreamInv /\ RequestsInv /\ TokensInv /\ RemoteInv /\ DeploymentInv
  /\ IntakeInv /\ WorktreesInv /\ OnboardingInv /\ ProfilesInv /\ DependenciesInv

\* Every component starts in its invariant.
LEMMA ServicesStart == ServicesInit => ServicesInv
BY RuntimeInitInv, StreamInitInv, RequestsInitInv, TokensInitInv, RemoteInitInv,
   DeploymentInitInv,
   IntakeInitInv, WorktreesInitInv, OnboardingStarts, ProfilesStart, DependenciesStart
   DEF ServicesInit, ServicesInv

\* A step of the services is a step of each component, or none.
LEMMA EachStepsOrRests ==
  ASSUME [ServicesNext]_servicesVars
  PROVE  /\ UNCHANGED part
         /\ [RuntimeNext]_runtimeVars /\ [StreamNext]_streamVars /\ [RequestsNext]_requestVars
         /\ [TokensNext]_tokenVars /\ [RemoteNext]_remoteVars /\ [DeploymentNext]_deploymentVars
         /\ [IntakeNext]_intakeVars /\ [WorktreesNext]_worktreeVars
         /\ [OnboardingNext]_onboardingVars /\ [ProfilesNext]_profileVars /\ [Next]_vars
<1>1. CASE ServicesNext
  BY <1>1 DEF ServicesNext
<1>2. CASE UNCHANGED servicesVars
  BY <1>2 DEF servicesVars
<1> QED BY <1>1, <1>2

\* Every step of the services preserves the eleven invariants.
LEMMA ServicesInvKept == ServicesInv /\ [ServicesNext]_servicesVars => ServicesInv'
<1> SUFFICES ASSUME ServicesInv, [ServicesNext]_servicesVars PROVE ServicesInv'
  OBVIOUS
<1>1. (part \in Parts)'
  BY EachStepsOrRests DEF ServicesInv, Parts
<1>2. RuntimeInv' /\ StreamInv' /\ RequestsInv' /\ TokensInv' /\ RemoteInv' /\ DeploymentInv'
  BY EachStepsOrRests, RuntimeStepInv, StreamStepInv, RequestsStepInv, TokensStepInv,
     RemoteStepInv, DeploymentStepInv DEF ServicesInv
<1>3. IntakeInv' /\ WorktreesInv' /\ OnboardingInv' /\ ProfilesInv' /\ DependenciesInv'
  BY EachStepsOrRests, IntakeStepInv, WorktreesStepInv, OnboardingInvKept, ProfilesInvKept,
     DependenciesInvKept DEF ServicesInv
<1> QED BY <1>1, <1>2, <1>3 DEF ServicesInv

\* The eleven invariants hold in every behaviour of the services.
LEMMA ServicesAlways == ServicesSpec => []ServicesInv
BY ServicesStart, ServicesInvKept, PTL DEF ServicesSpec

\* Whichever component moves, with any number of processes, requests, messages and rows, its
\* variables hold values of their kind.
THEOREM ServicesTypeCorrect == ServicesSpec => []ServicesTypeOK
<1>1. ServicesInv => ServicesTypeOK
  <2> SUFFICES ASSUME ServicesInv PROVE ServicesTypeOK
    OBVIOUS
  <2>1. RuntimeTypeOK /\ StreamTypeOK /\ WorktreesTypeOK
    BY DEF ServicesInv, RuntimeInv, StreamInv, WorktreesInv
  <2>2. RequestsTypeOK /\ TokensTypeOK /\ RemoteTypeOK
    BY RequestsImply DEF ServicesInv, TokensInv, RemoteInv
  <2>3. DeploymentTypeOK /\ IntakeTypeOK
    BY DEF ServicesInv, DeploymentInv, IntakeInv
  <2>4. OnboardingTypeOK /\ ProfilesTypeOK /\ TypeOK
    BY DEF ServicesInv, OnboardingInv, ProfilesInv, DependenciesInv
  <2> QED BY <2>1, <2>2, <2>3, <2>4 DEF ServicesInv, ServicesTypeOK, Parts
<1> QED BY <1>1, ServicesAlways, PTL

\* In every behaviour of the services each component keeps its promise, whatever the number of
\* processes, readers, calls, messages, receivers, builders, shells and sessions: the eleven
\* safety properties that Services.cfg checks of three of each at most.
THEOREM ServicesKeepTheirPromises ==
  ServicesSpec => [](HolderIsRecorded /\ MovesReachTheirReader /\ RepeatsNeedALapse
                     /\ TokensAreNotMultiplied /\ ActsOnce /\ DeployedOnceAsApproved
                     /\ AcceptedIsQueuedOnce /\ HeldWorktreeStays /\ WorkIsOnInspected
                     /\ ProfilesAreUsable /\ NoShortCycle)
<1>1. ServicesInv => HolderIsRecorded /\ MovesReachTheirReader /\ HeldWorktreeStays
  BY DEF ServicesInv, RuntimeInv, HolderIsRecorded, Recorded, StreamInv, WorktreesInv, BuilderOK,
         HeldWorktreeStays, OwnsLock
<1>2. ServicesInv => RepeatsNeedALapse /\ TokensAreNotMultiplied
  BY RequestsImply DEF ServicesInv, TokensInv
<1>3. ServicesInv => ActsOnce /\ DeployedOnceAsApproved
  BY DeploymentImplies DEF ServicesInv, RemoteInv, MessageOK, GrantOK, ActsOnce
<1>4. ServicesInv => AcceptedIsQueuedOnce
  BY DEF ServicesInv, IntakeInv, QueueInv, OnceOK, AcceptedIsQueuedOnce
<1>5. ServicesInv => WorkIsOnInspected /\ ProfilesAreUsable /\ NoShortCycle
  BY DEF ServicesInv, OnboardingInv, ProfilesInv, Usable, ProfilesAreUsable, DependenciesInv
<1> QED BY <1>1, <1>2, <1>3, <1>4, <1>5, ServicesAlways, PTL
===============================================================================
