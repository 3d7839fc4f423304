----------------------------- MODULE Publication -----------------------------
(***************************************************************************)
(* From the worktree of one task to its pull request: builder,             *)
(* verification commands, reviewer and publishers all read the worktree,   *)
(* each at its own time, while an agent or a human writes it.  What ties   *)
(* them together are digests of diffs.                                     *)
(*                                                                         *)
(* Abstracted: a worktree is the content of its tracked files and of the   *)
(* files somebody added.  A digest is the content it is the digest of.     *)
(* Of a diff too long for the reviewer's prompt the end is missing there.  *)
(* Secret and path scans, the prompts' other parts, usage and the pull     *)
(* request's text are left out.  Nothing in the code makes two reviews or  *)
(* two publications exclude each other.                                    *)
(***************************************************************************)
EXTENDS Integers, FiniteSets

CONSTANTS
  Contents,     \* contents of the tracked files, and of the added ones
  Base,         \* what the base commit has in the tracked files
  NoFile,       \* nothing was added
  Long,         \* the diffs of more than 500,000 characters
  Cut,          \* the beginning of such a diff
  Publishers,   \* calls of publish at the same time
  NoCommit,
  MaxEdits,     \* bound: writes to the worktree
  MaxChecks,    \* bound: verification commands run
  MaxReviews,   \* bound: review runs
  CommitIds     \* names of commit objects; one nobody refers to is used again

ASSUME PublicationAssumption ==
  /\ Base \in Contents
  /\ NoFile \notin Contents
  /\ {MaxEdits, MaxChecks, MaxReviews} \subseteq Nat

VARIABLES
  tree,       \* the worktree and its index
  edits,
  digest,     \* diff_digest: what the last builder or human said the diff was
  checks,     \* verification_runs
  reviews,    \* review_runs
  rejected,   \* history: the diffs a reviewer rejected that none had passed yet
  publisher,  \* each call of publish
  branch,     \* the task's branch in the worktree's repository
  remote,     \* the same branch on GitHub
  pulls,      \* pull requests on GitHub for that branch
  record      \* pull_requests: the head of the task's row

vars == <<tree, edits, digest, checks, reviews, rejected, publisher, branch, remote,
          pulls, record>>
reviewing == <<reviews, rejected>>
gitHub == <<remote, pulls>>
publication == <<publisher, branch, remote, pulls, record>>

-------------------------------------------------------------------------------
File == Contents \cup {NoFile}
\* All files: the tracked ones, and the added ones.
Snapshot == Contents \X File
ASSUME CutAssumption == Long \subseteq Snapshot /\ Cut \notin Snapshot
\* index: what git add took from the tree last; known: the added file is in it.
Tree == [files : Snapshot, known : BOOLEAN, index : Snapshot]

\* Seeded fault: git diff is asked for names only.
ChangedNames(t) == <<t.files[1] # Base, t.files[2] # NoFile>>
\* git diff against the base shows added files only once they are in the index.
Diff(t) == IF t.known THEN t.files ELSE <<t.files[1], NoFile>>
\* git diff between the base and a commit shows all of it.
DiffBetween(commit) == commit.files
\* reviewerPrompt: the first 500,000 characters.
Fits(diff) == diff \notin Long
Shown(diff) == IF Fits(diff) THEN diff ELSE Cut
\* git status: which files differ, not how.
StatusPorcelain(t) == <<t.files[1] # Base, t.files[2] # NoFile, t.known>>

Commit == [files : Snapshot, id : CommitIds]
MaybeCommit == Commit \cup {NoCommit}

\* There is always a name for a new commit: one that neither a publisher nor the
\* branch holds.
ASSUME CommitAssumption ==
  /\ NoCommit \notin Commit
  /\ IsFiniteSet(Publishers) /\ IsFiniteSet(CommitIds)
  /\ Cardinality(CommitIds) > Cardinality(Publishers) + 1

CheckIds == 1..MaxChecks
ReviewIds == 1..MaxReviews
\* prior: priorStatus, git status before the command and, once it has ended, after it.
CheckRow == [status : {"NONE", "RUNNING", "PASSED", "FAILED"}, required : BOOLEAN,
             prior : BOOLEAN \X BOOLEAN \X BOOLEAN]
\* seen: what the reviewer was given of the diff.
ReviewRow == [status : {"NONE", "RUNNING", "PASSED", "CHANGES_REQUESTED", "FAILED"},
              reviewedSha : Snapshot, seen : Snapshot \cup {Cut}]
\* digest: reviewedDiffDigest; commit: commitSha, once there is one.
Publisher == [step : {"idle", "verification", "inspect", "stage", "commit", "branch", "push",
                      "pull", "record"},
              digest : Snapshot, commit : MaybeCommit]

Nothing == <<Base, NoFile>>
NoCheck == [status |-> "NONE", required |-> FALSE, prior |-> <<FALSE, FALSE, FALSE>>]
NoReview == [status |-> "NONE", reviewedSha |-> Nothing, seen |-> Nothing]
NotPublishing == [step |-> "idle", digest |-> Nothing, commit |-> NoCommit]

-------------------------------------------------------------------------------
Init ==
  /\ tree = [files |-> Nothing, known |-> FALSE, index |-> Nothing]
  /\ edits = 0
  /\ digest = Nothing
  /\ checks = [i \in CheckIds |-> NoCheck]
  /\ reviews = [i \in ReviewIds |-> NoReview]
  /\ rejected = {}
  /\ publisher = [p \in Publishers |-> NotPublishing]
  /\ branch = NoCommit
  /\ remote = NoCommit
  /\ pulls = 0
  /\ record = NoCommit

\* An agent, a human who took the worktree over, or a command writes files.
Write(files) ==
  /\ edits < MaxEdits
  /\ edits' = edits + 1
  /\ files # tree.files
  /\ tree' = [tree EXCEPT !.files = files]
  /\ UNCHANGED <<digest, checks, reviewing, publication>>

-------------------------------------------------------------------------------
(* BuilderService.run and returnToAgent                                    *)

\* A builder's run ends well, or a human returns the worktree: the caller gets the
\* digest of the diff.  What the builder says it changed is what Git says changed.
ReportDigest ==
  /\ digest' = Diff(tree)
  /\ UNCHANGED <<tree, edits, checks, reviewing, publication>>

-------------------------------------------------------------------------------
(* VerificationPipeline.run, command by command                            *)

\* The first command of a run reads git status; a later one is compared with what
\* was read after the one before it.
PriorStatus(i) == {StatusPorcelain(tree)} \cup
  {checks[j].prior : j \in {k \in CheckIds : k < i /\ checks[k].status \in {"PASSED", "FAILED"}}}
CheckStarts(i, required) ==
  /\ checks[i].status = "NONE"
  /\ \A j \in CheckIds : j < i => checks[j].status # "NONE"
  /\ \E prior \in PriorStatus(i) :
       checks' = [checks EXCEPT ![i] =
         [status |-> "RUNNING", required |-> required, prior |-> prior]]
  /\ UNCHANGED <<tree, edits, digest, reviewing, publication>>

\* A command during which git status changed has failed.
CheckEnds(i, exitedWell) ==
  /\ checks[i].status = "RUNNING"
  /\ checks' = [checks EXCEPT
       ![i].status = IF exitedWell /\ StatusPorcelain(tree) = checks[i].prior
                     THEN "PASSED" ELSE "FAILED",
       ![i].prior = StatusPorcelain(tree)]
  /\ UNCHANGED <<tree, edits, digest, reviewing, publication>>

-------------------------------------------------------------------------------
(* ReviewService.review                                                    *)

\* The digest is of the whole diff.
ReviewStarts(i) ==
  /\ reviews[i].status = "NONE"
  /\ \A j \in ReviewIds : j < i => reviews[j].status # "NONE"
  /\ Diff(tree) = digest
  /\ reviews' = [reviews EXCEPT ![i] =
       [status |-> "RUNNING", reviewedSha |-> digest, seen |-> Shown(Diff(tree))]]
  /\ UNCHANGED <<tree, edits, digest, checks, rejected, publication>>

\* review_runs_sha_idx: one judgement for a task and digest.
Judged(sha) == \E i \in ReviewIds :
  reviews[i].status \in {"PASSED", "CHANGES_REQUESTED"} /\ reviews[i].reviewedSha = sha
Passed(sha) == \E i \in ReviewIds : reviews[i].status = "PASSED" /\ reviews[i].reviewedSha = sha

\* Read again after the reviewer's answer, the diff has the digest reviewed.
Intact(i) == Diff(tree) = reviews[i].reviewedSha
NoteRejection(i, blocking) ==
  rejected' = IF blocking /\ Intact(i) /\ ~Passed(reviews[i].reviewedSha)
              THEN rejected \cup {reviews[i].reviewedSha} ELSE rejected

\* Seeded fault: there is no such index.
ReviewCompletesAgain(i, blocking) ==
  /\ reviews[i].status = "RUNNING"
  /\ reviews' = [reviews EXCEPT ![i].status =
       IF ~Intact(i) THEN "FAILED"
       ELSE IF blocking THEN "CHANGES_REQUESTED" ELSE "PASSED"]
  /\ NoteRejection(i, blocking)
  /\ UNCHANGED <<tree, edits, digest, checks, publication>>
\* The worktree is as it was; the second judgement of a digest, whichever it is, is
\* refused by the index with its findings, and the review has failed.
ReviewCompletes(i, blocking) ==
  /\ reviews[i].status = "RUNNING"
  /\ reviews' = [reviews EXCEPT ![i].status =
       IF ~Intact(i) \/ Judged(reviews[i].reviewedSha) THEN "FAILED"
       ELSE IF blocking THEN "CHANGES_REQUESTED" ELSE "PASSED"]
  /\ NoteRejection(i, blocking)
  /\ UNCHANGED <<tree, edits, digest, checks, publication>>

\* The provider fails, its answer is no review, or cites what did not change; or
\* the answer is not recorded.
ReviewFails(i) ==
  /\ reviews[i].status = "RUNNING"
  /\ reviews' = [reviews EXCEPT ![i].status = "FAILED"]
  /\ UNCHANGED <<tree, edits, digest, checks, rejected, publication>>

-------------------------------------------------------------------------------
(* PublisherService.publish                                                *)

Advance(p, from, to) ==
  /\ publisher[p].step = from
  /\ publisher' = [publisher EXCEPT ![p].step = to]

BeginPublication(p, i, asked) ==
  /\ publisher[p].step = "idle"
  /\ record = NoCommit
  /\ reviews[i].status = "PASSED" /\ reviews[i].reviewedSha = asked
  /\ publisher' = [publisher EXCEPT ![p] =
       [step |-> "verification", digest |-> asked, commit |-> NoCommit]]
  /\ UNCHANGED <<tree, edits, digest, checks, reviewing, branch, gitHub, record>>

\* Every required command that was ever run for the task, of any attempt.
AllRequiredPassed ==
  /\ \E i \in CheckIds : checks[i].required
  /\ \A i \in CheckIds : checks[i].required => checks[i].status = "PASSED"
CheckVerification(p) ==
  /\ AllRequiredPassed
  /\ Advance(p, "verification", "inspect")
  /\ UNCHANGED <<tree, edits, digest, checks, reviewing, branch, gitHub, record>>

InspectWorktree(p) ==
  /\ Diff(tree) = publisher[p].digest
  /\ Advance(p, "inspect", "stage")
  /\ UNCHANGED <<tree, edits, digest, checks, reviewing, branch, gitHub, record>>

\* git add --all: the index has everything, and stays when publishing fails.
StageAll(p) ==
  /\ Advance(p, "stage", "commit")
  /\ tree' = [tree EXCEPT !.known = TRUE, !.index = tree.files]
  /\ UNCHANGED <<edits, digest, checks, reviewing, branch, gitHub, record>>

\* write-tree and commit-tree.
Referenced == {branch, remote, record} \cup {publisher[p].commit : p \in Publishers}
NewCommit ==
  [files |-> tree.index,
   id |-> CHOOSE id \in CommitIds : \A c \in Referenced : c # NoCommit => c.id # id]

\* Seeded fault: the candidate is not compared with what was reviewed.
CommitAnything(p) ==
  /\ publisher[p].step = "commit"
  /\ publisher' = [publisher EXCEPT ![p].step = "branch", ![p].commit = NewCommit]
  /\ UNCHANGED <<tree, edits, digest, checks, reviewing, branch, gitHub, record>>
\* A candidate that is not exactly what was reviewed is left where it is.
CommitCandidate(p) ==
  /\ publisher[p].step = "commit"
  /\ publisher' = [publisher EXCEPT ![p] =
       IF DiffBetween(NewCommit) = publisher[p].digest
         THEN [step |-> "branch", digest |-> publisher[p].digest, commit |-> NewCommit]
         ELSE NotPublishing]
  /\ UNCHANGED <<tree, edits, digest, checks, reviewing, branch, gitHub, record>>

\* Seeded fault: update-ref without the value it expects.
ForceBranch(p) ==
  /\ Advance(p, "branch", "push")
  /\ branch' = publisher[p].commit
  /\ UNCHANGED <<tree, edits, digest, checks, reviewing, gitHub, record>>
\* update-ref, if the branch is still at the base commit.
UpdateBranch(p) ==
  /\ branch = NoCommit
  /\ Advance(p, "branch", "push")
  /\ branch' = publisher[p].commit
  /\ UNCHANGED <<tree, edits, digest, checks, reviewing, gitHub, record>>

\* git push sends what the branch is at now; GitHub takes fast-forwards only, and
\* all commits have the base as their parent.
PushBranch(p) ==
  /\ remote \in {NoCommit, branch}
  /\ Advance(p, "push", "pull")
  /\ remote' = branch
  /\ UNCHANGED <<tree, edits, digest, checks, reviewing, branch, pulls, record>>

\* createOrUpdate: an open pull request of the branch is updated.
CreateOrUpdate(p) ==
  /\ Advance(p, "pull", "record")
  /\ pulls' = IF pulls = 0 THEN 1 ELSE pulls
  /\ UNCHANGED <<tree, edits, digest, checks, reviewing, branch, remote, record>>

\* git_refs and pull_requests; the task's row is unique.
RecordPublication(p) ==
  /\ publisher[p].step = "record"
  /\ publisher' = [publisher EXCEPT ![p] = NotPublishing]
  /\ record' = IF record = NoCommit THEN publisher[p].commit ELSE record
  /\ UNCHANGED <<tree, edits, digest, checks, reviewing, branch, gitHub>>

\* A step throws: a gate refuses, Git or GitHub fails or its answer is lost; or the
\* process stops.  What was done before remains.
PublicationFails(p) ==
  /\ publisher[p].step # "idle"
  /\ publisher' = [publisher EXCEPT ![p] = NotPublishing]
  /\ UNCHANGED <<tree, edits, digest, checks, reviewing, branch, gitHub, record>>

Next ==
  \/ \E files \in Snapshot : Write(files)
  \/ ReportDigest
  \/ \E i \in CheckIds, b \in BOOLEAN : CheckStarts(i, b) \/ CheckEnds(i, b)
  \/ \E i \in ReviewIds :
       \/ ReviewStarts(i)
       \/ \E blocking \in BOOLEAN : ReviewCompletes(i, blocking)
       \/ ReviewFails(i)
  \/ \E p \in Publishers :
       \/ \E i \in ReviewIds, asked \in Snapshot : BeginPublication(p, i, asked)
       \/ CheckVerification(p) \/ InspectWorktree(p) \/ StageAll(p) \/ CommitCandidate(p)
       \/ UpdateBranch(p) \/ PushBranch(p) \/ CreateOrUpdate(p) \/ RecordPublication(p)
       \/ PublicationFails(p)

Spec == Init /\ [][Next]_vars

-------------------------------------------------------------------------------
(* Properties.                                                             *)

TypeOK ==
  /\ tree \in Tree
  /\ edits \in 0..MaxEdits
  /\ digest \in Snapshot
  /\ checks \in [CheckIds -> CheckRow]
  /\ reviews \in [ReviewIds -> ReviewRow]
  /\ rejected \subseteq Snapshot
  /\ publisher \in [Publishers -> Publisher]
  /\ branch \in MaybeCommit /\ remote \in MaybeCommit /\ record \in MaybeCommit
  /\ pulls \in {0, 1}

\* What is on GitHub is the diff, to the last file, whose digest a review was begun
\* with and passed, and the reviewer was given all of it if it fits the prompt:
\* edits between any two steps, files the diff did not show, a second publisher
\* and what an earlier failure left in the index make no difference.
PublishedIsReviewed ==
  remote # NoCommit => \E i \in ReviewIds :
    /\ reviews[i].status = "PASSED" /\ reviews[i].reviewedSha = remote.files
    /\ Fits(remote.files) => reviews[i].seen = remote.files

\* What a reviewer rejected before any had passed it is never published, however
\* many reviews of the same diff ran beside it or after it.  (A rejection after
\* another review passed the diff is not recorded, and stops nothing.)
FirstRejectionStands ==
  remote # NoCommit => remote.files \notin rejected

\* The recorded head, the branch and GitHub agree, whoever else published.
RecordIsPublished == record # NoCommit => record = remote /\ record = branch
===============================================================================
