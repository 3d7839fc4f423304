-------------------------- MODULE PublicationProofs --------------------------
(***************************************************************************)
(* What holds of Publication for all contents, any number of publishers,   *)
(* reviews, commands and edits. A publisher carries a digest some reviewer *)
(* passed from its first step to its last; the commit it makes has that    *)
(* digest's files or is dropped; the branch leaves the base once only, so  *)
(* that whoever pushes or records afterwards pushes and records that       *)
(* commit.                                                                 *)
(***************************************************************************)
EXTENDS Publication, FiniteSetTheorems, TLAPS

USE PublicationAssumption, CutAssumption, CommitAssumption

\* What is read from a worktree is a snapshot.
LEMMA Snapshots ==
  ASSUME TypeOK
  PROVE  /\ tree.files \in Snapshot /\ tree.index \in Snapshot /\ tree.known \in BOOLEAN
         /\ Diff(tree) \in Snapshot /\ Nothing \in Snapshot
         /\ StatusPorcelain(tree) \in BOOLEAN \X BOOLEAN \X BOOLEAN
<1>1. tree.files \in Snapshot /\ tree.index \in Snapshot /\ tree.known \in BOOLEAN
  BY DEF TypeOK, Tree
<1>2. Diff(tree) \in Snapshot /\ Nothing \in Snapshot
  BY <1>1 DEF Diff, Snapshot, File, Nothing
<1>3. StatusPorcelain(tree) \in BOOLEAN \X BOOLEAN \X BOOLEAN
  BY <1>1 DEF StatusPorcelain
<1> QED BY <1>1, <1>2, <1>3

\* The fields of a publisher's memory,
LEMMA PublisherRow ==
  ASSUME NEW r \in Publisher
  PROVE  /\ r.step \in {"idle", "verification", "inspect", "stage", "commit", "branch", "push",
                        "pull", "record"}
         /\ r.digest \in Snapshot /\ r.commit \in MaybeCommit
BY DEF Publisher

\* put together again.
LEMMA MakePublisher ==
  ASSUME NEW s \in {"idle", "verification", "inspect", "stage", "commit", "branch", "push",
                    "pull", "record"}, NEW d \in Snapshot, NEW c \in MaybeCommit
  PROVE  /\ [step |-> s, digest |-> d, commit |-> c] \in Publisher
         /\ [step |-> s, digest |-> d, commit |-> c].step = s
         /\ [step |-> s, digest |-> d, commit |-> c].digest = d
         /\ [step |-> s, digest |-> d, commit |-> c].commit = c
BY DEF Publisher

\* A call of publish that has not begun.
LEMMA NotPublishingRow ==
  NotPublishing \in Publisher /\ NotPublishing.step = "idle" /\ NotPublishing.commit = NoCommit
BY DEF NotPublishing, Publisher, Nothing, Snapshot, File, MaybeCommit

\* Advance changes the step of one publisher.
LEMMA AdvanceDoes ==
  ASSUME TypeOK, NEW p \in Publishers, NEW from,
         NEW to \in {"inspect", "stage", "commit", "push", "pull", "record"}, Advance(p, from, to)
  PROVE  /\ publisher' \in [Publishers -> Publisher]
         /\ publisher[p].step = from
         /\ publisher'[p].step = to
         /\ publisher'[p].digest = publisher[p].digest
         /\ publisher'[p].commit = publisher[p].commit
         /\ \A q \in Publishers \ {p} : publisher'[q] = publisher[q]
<1> DEFINE row == [publisher[p] EXCEPT !.step = to]
<1>1. publisher \in [Publishers -> Publisher] /\ publisher[p] \in Publisher
  BY DEF TypeOK
<1>2. /\ row \in Publisher
      /\ row.step = to /\ row.digest = publisher[p].digest /\ row.commit = publisher[p].commit
  BY <1>1 DEF Publisher
<1>3. publisher' = [publisher EXCEPT ![p] = row] /\ publisher[p].step = from
  BY DEF Advance
<1> HIDE DEF row
<1> QED BY <1>1, <1>2, <1>3

-------------------------------------------------------------------------------
\* A reviewer was given what the prompt shows of the diff whose digest is reviewed, one
\* review judges a diff, and of a diff rejected first that was the judgement.
ReviewsOK ==
  /\ \A i \in ReviewIds :
       reviews[i].status # "NONE" => reviews[i].seen = Shown(reviews[i].reviewedSha)
  /\ \A sha \in rejected : \E i \in ReviewIds :
       reviews[i].status = "CHANGES_REQUESTED" /\ reviews[i].reviewedSha = sha
  /\ \A i, j \in ReviewIds :
       /\ reviews[i].status \in {"PASSED", "CHANGES_REQUESTED"}
       /\ reviews[j].status \in {"PASSED", "CHANGES_REQUESTED"}
       /\ reviews[i].reviewedSha = reviews[j].reviewedSha
       => i = j

\* What a publisher at each of its steps can rely on.
PublisherOK(p) ==
  LET pub == publisher[p] IN
  /\ pub.step # "idle" => Passed(pub.digest)
  /\ pub.step \in {"branch", "push", "pull", "record"} =>
       pub.commit \in Commit /\ pub.commit.files = pub.digest
  /\ pub.step \notin {"branch", "push", "pull", "record"} => pub.commit = NoCommit
  /\ pub.step \in {"push", "pull", "record"} => branch = pub.commit
  /\ pub.step \in {"pull", "record"} => remote = branch

\* The branch is at a reviewed commit, and GitHub and the record follow it.
RefsOK ==
  /\ branch # NoCommit => Passed(branch.files)
  /\ remote \in {NoCommit, branch}
  /\ RecordIsPublished

Inv ==
  /\ TypeOK
  /\ ReviewsOK
  /\ \A p \in Publishers : PublisherOK(p)
  /\ RefsOK

\* There is a name for a new commit: the publishers and the branch hold fewer than
\* there are.
LEMMA NewCommitType ==
  ASSUME Inv, NEW p \in Publishers, publisher[p].step = "commit"
  PROVE  NewCommit \in Commit
<1>0. PICK other : other \notin Publishers
  BY NoSetContainsEverything
<1> DEFINE Free(id) == \A c \in Referenced : c # NoCommit => c.id # id
           Holders == Publishers \cup {other}
           Holds(id, q) == publisher[q].commit # NoCommit /\ publisher[q].commit.id = id
           holder == [id \in CommitIds |->
                        IF branch # NoCommit /\ branch.id = id THEN other
                        ELSE CHOOSE q \in Publishers : Holds(id, q)]
<1>1. \E id \in CommitIds : Free(id)
  <2> SUFFICES ASSUME \A id \in CommitIds : ~Free(id) PROVE FALSE
    OBVIOUS
  <2>1. remote \in {NoCommit, branch} /\ record \in {NoCommit, branch}
    BY DEF Inv, RefsOK, RecordIsPublished
  <2>2. \A id \in CommitIds :
          (branch # NoCommit /\ branch.id = id) \/ \E q \in Publishers : Holds(id, q)
    <3> SUFFICES ASSUME NEW id \in CommitIds
                 PROVE  (branch # NoCommit /\ branch.id = id) \/ \E q \in Publishers : Holds(id, q)
      OBVIOUS
    <3>1. PICK c \in Referenced : c # NoCommit /\ c.id = id
      OBVIOUS
    <3> QED BY <2>1, <3>1 DEF Referenced
  <2>3. holder \in [CommitIds -> Holders]
    BY <2>2
  <2>4. IsFiniteSet(Holders) /\ Cardinality(Holders) <= Cardinality(Publishers) + 1
    <3>1. /\ IsFiniteSet(Publishers \cup {other})
          /\ Cardinality(Publishers \cup {other}) =
               IF other \in Publishers THEN Cardinality(Publishers) ELSE Cardinality(Publishers) + 1
      BY FS_AddElement
    <3>2. Cardinality(Publishers) \in Nat
      BY FS_CardinalityType
    <3> QED BY <1>0, <3>1, <3>2
  <2>5. Cardinality(Holders) < Cardinality(CommitIds)
    BY <2>4, FS_CardinalityType
  <2>6. PICK x, y \in CommitIds : x # y /\ holder[x] = holder[y]
    <3> HIDE DEF holder, Holders
    <3> QED BY <2>3, <2>4, <2>5, FS_PigeonHole
  <2> QED BY <1>0, <2>2, <2>6
<1>2. tree.index \in Snapshot
  BY Snapshots DEF Inv
<1> QED BY <1>1, <1>2 DEF NewCommit, Commit

-------------------------------------------------------------------------------
\* The steps of reviews.
ReviewMoves ==
  \E i \in ReviewIds :
       \/ ReviewStarts(i)
       \/ \E blocking \in BOOLEAN : ReviewCompletes(i, blocking)
       \/ ReviewFails(i)

\* A new status of one review.
LEMMA JudgeDoes ==
  ASSUME TypeOK, NEW i \in ReviewIds, NEW s \in {"PASSED", "CHANGES_REQUESTED", "FAILED"},
         reviews' = [reviews EXCEPT ![i].status = s]
  PROVE  /\ reviews' \in [ReviewIds -> ReviewRow]
         /\ reviews'[i].status = s /\ reviews'[i].seen = reviews[i].seen
         /\ reviews'[i].reviewedSha = reviews[i].reviewedSha
         /\ \A j \in ReviewIds \ {i} : reviews'[j] = reviews[j]
<1> DEFINE row == [reviews[i] EXCEPT !.status = s]
<1>1. reviews \in [ReviewIds -> ReviewRow] /\ reviews[i] \in ReviewRow
  BY DEF TypeOK
<1>2. /\ row \in ReviewRow /\ row.status = s
      /\ row.seen = reviews[i].seen /\ row.reviewedSha = reviews[i].reviewedSha
  BY <1>1 DEF ReviewRow
<1>3. reviews' = [reviews EXCEPT ![i] = row]
  OBVIOUS
<1> HIDE DEF row
<1> QED BY <1>1, <1>2, <1>3

\* Reviews keep ReviewsOK, and what was passed stays passed.
LEMMA ReviewSteps ==
  ASSUME TypeOK, ReviewsOK, ReviewMoves
  PROVE  /\ reviews' \in [ReviewIds -> ReviewRow]
         /\ rejected' \subseteq Snapshot
         /\ ReviewsOK'
         /\ \A sha : Passed(sha) => Passed(sha)'
         /\ UNCHANGED <<tree, edits, digest, checks, publication>>
<1>1. PICK i \in ReviewIds :
       \/ ReviewStarts(i)
       \/ \E blocking \in BOOLEAN : ReviewCompletes(i, blocking)
       \/ ReviewFails(i)
  BY DEF ReviewMoves
<1>2. UNCHANGED <<tree, edits, digest, checks, publication>>
  BY <1>1 DEF ReviewStarts, ReviewCompletes, ReviewFails
<1>3. /\ reviews[i] \in ReviewRow /\ digest \in Snapshot /\ rejected \subseteq Snapshot
      /\ reviews[i].reviewedSha \in Snapshot
  BY DEF TypeOK, ReviewRow
<1>4. CASE ReviewStarts(i)
  <2> DEFINE row == [status |-> "RUNNING", reviewedSha |-> digest, seen |-> Shown(Diff(tree))]
  <2>1. /\ row \in ReviewRow /\ row.status = "RUNNING" /\ row.seen = Shown(row.reviewedSha)
    BY <1>3, <1>4 DEF ReviewStarts, ReviewRow, Shown
  <2>2. /\ reviews' = [reviews EXCEPT ![i] = row] /\ reviews[i].status = "NONE"
        /\ rejected' = rejected
    BY <1>4 DEF ReviewStarts
  <2> HIDE DEF row
  <2>3. /\ reviews' \in [ReviewIds -> ReviewRow] /\ reviews'[i] = row
        /\ \A j \in ReviewIds \ {i} : reviews'[j] = reviews[j]
    BY <2>1, <2>2 DEF TypeOK
  <2>4. ReviewsOK'
    BY <2>1, <2>2, <2>3 DEF ReviewsOK, Shown, Fits
  <2>5. \A sha : Passed(sha) => Passed(sha)'
    BY <2>2, <2>3 DEF Passed
  <2> QED BY <1>2, <1>3, <2>2, <2>3, <2>4, <2>5
<1>5. ASSUME NEW s \in {"PASSED", "CHANGES_REQUESTED", "FAILED"}, reviews[i].status = "RUNNING",
             reviews' = [reviews EXCEPT ![i].status = s],
             s # "FAILED" => ~Judged(reviews[i].reviewedSha),
             rejected' \subseteq rejected \cup {reviews[i].reviewedSha},
             rejected' # rejected => \/ s = "CHANGES_REQUESTED"
                                     \/ /\ s = "FAILED" /\ Judged(reviews[i].reviewedSha)
                                        /\ ~Passed(reviews[i].reviewedSha)
      PROVE  /\ reviews' \in [ReviewIds -> ReviewRow] /\ ReviewsOK'
             /\ rejected' \subseteq Snapshot
             /\ \A sha : Passed(sha) => Passed(sha)'
  <2>1. /\ reviews' \in [ReviewIds -> ReviewRow]
        /\ reviews'[i].status = s /\ reviews'[i].seen = reviews[i].seen
        /\ reviews'[i].reviewedSha = reviews[i].reviewedSha
        /\ \A j \in ReviewIds \ {i} : reviews'[j] = reviews[j]
    BY <1>5, JudgeDoes
  <2>2. ReviewsOK'
    <3>1. \A j \in ReviewIds :
            reviews'[j].status # "NONE" => reviews'[j].seen = Shown(reviews'[j].reviewedSha)
      BY <1>5, <2>1 DEF ReviewsOK
    <3>2. ASSUME NEW j \in ReviewIds, NEW k \in ReviewIds,
                 reviews'[j].status \in {"PASSED", "CHANGES_REQUESTED"},
                 reviews'[k].status \in {"PASSED", "CHANGES_REQUESTED"},
                 reviews'[j].reviewedSha = reviews'[k].reviewedSha
          PROVE  j = k
      <4>1. CASE j # i /\ k # i
        BY <2>1, <3>2, <4>1 DEF ReviewsOK
      <4>2. CASE j = i /\ k # i
        BY <1>5, <2>1, <3>2, <4>2 DEF Judged
      <4>3. CASE j # i /\ k = i
        BY <1>5, <2>1, <3>2, <4>3 DEF Judged
      <4> QED BY <4>1, <4>2, <4>3
    \* A rejection is recorded, or another one of the same diff was.
    <3>3. ASSUME NEW sha \in rejected'
          PROVE  \E j \in ReviewIds :
                   reviews'[j].status = "CHANGES_REQUESTED" /\ reviews'[j].reviewedSha = sha
      <4>1. CASE sha \in rejected
        <5>1. PICK j \in ReviewIds :
                reviews[j].status = "CHANGES_REQUESTED" /\ reviews[j].reviewedSha = sha
          BY <4>1 DEF ReviewsOK
        <5> QED BY <1>5, <2>1, <5>1
      <4>2. CASE sha \notin rejected /\ s = "CHANGES_REQUESTED"
        BY <1>5, <2>1, <3>3, <4>2
      <4>3. CASE sha \notin rejected /\ s # "CHANGES_REQUESTED"
        <5>1. /\ sha = reviews[i].reviewedSha
              /\ Judged(reviews[i].reviewedSha) /\ ~Passed(reviews[i].reviewedSha)
          BY <1>5, <3>3, <4>3
        <5>2. PICK j \in ReviewIds :
                reviews[j].status = "CHANGES_REQUESTED" /\ reviews[j].reviewedSha = sha
          BY <5>1 DEF Judged, Passed
        <5> QED BY <1>5, <2>1, <5>2
      <4> QED BY <4>1, <4>2, <4>3
    <3> QED BY <3>1, <3>2, <3>3 DEF ReviewsOK
  <2>3. \A sha : Passed(sha) => Passed(sha)'
    BY <1>5, <2>1 DEF Passed
  <2> QED BY <1>3, <1>5, <2>1, <2>2, <2>3
<1>6. ASSUME NEW blocking \in BOOLEAN, ReviewCompletes(i, blocking)
      PROVE  /\ reviews' \in [ReviewIds -> ReviewRow] /\ ReviewsOK'
             /\ rejected' \subseteq Snapshot
             /\ \A sha : Passed(sha) => Passed(sha)'
  <2> DEFINE s == IF ~Intact(i) \/ Judged(reviews[i].reviewedSha) THEN "FAILED"
                  ELSE IF blocking THEN "CHANGES_REQUESTED" ELSE "PASSED"
  <2>1. reviews[i].status = "RUNNING" /\ reviews' = [reviews EXCEPT ![i].status = s]
    BY <1>6 DEF ReviewCompletes
  <2>2. /\ s \in {"PASSED", "CHANGES_REQUESTED", "FAILED"}
        /\ s # "FAILED" => ~Judged(reviews[i].reviewedSha)
    OBVIOUS
  <2>3. /\ rejected' \subseteq rejected \cup {reviews[i].reviewedSha}
        /\ rejected' # rejected =>
             blocking /\ Intact(i) /\ ~Passed(reviews[i].reviewedSha)
    BY <1>6 DEF ReviewCompletes, NoteRejection
  <2>4. rejected' # rejected =>
          \/ s = "CHANGES_REQUESTED"
          \/ s = "FAILED" /\ Judged(reviews[i].reviewedSha) /\ ~Passed(reviews[i].reviewedSha)
    BY <2>3
  <2> HIDE DEF s
  <2> QED BY <1>5, <2>1, <2>2, <2>3, <2>4
<1>7. CASE ReviewFails(i)
  BY <1>5, <1>7 DEF ReviewFails
<1> QED BY <1>1, <1>2, <1>3, <1>4, <1>6, <1>7

\* The steps of the worktree, the digest and the verification commands.
FileMoves ==
  \/ \E files \in Snapshot : Write(files)
  \/ ReportDigest
  \/ \E i \in CheckIds, b \in BOOLEAN : CheckStarts(i, b) \/ CheckEnds(i, b)

\* They touch neither reviews nor publications.
LEMMA FileSteps ==
  ASSUME TypeOK, FileMoves
  PROVE  /\ tree' \in Tree /\ edits' \in 0..MaxEdits /\ digest' \in Snapshot
         /\ checks' \in [CheckIds -> CheckRow]
         /\ UNCHANGED <<reviewing, publication>>
<1>1. /\ tree \in Tree /\ edits \in 0..MaxEdits /\ digest \in Snapshot
      /\ checks \in [CheckIds -> CheckRow]
  BY DEF TypeOK
<1>2. ASSUME NEW files \in Snapshot, Write(files)
      PROVE  /\ tree' \in Tree /\ edits' \in 0..MaxEdits /\ digest' \in Snapshot
             /\ checks' \in [CheckIds -> CheckRow]
             /\ UNCHANGED <<reviewing, publication>>
  <2>1. edits' \in 0..MaxEdits
    BY <1>1, <1>2 DEF Write
  <2>2. tree' \in Tree
    BY <1>1, <1>2 DEF Write, Tree
  <2> QED BY <1>1, <1>2, <2>1, <2>2 DEF Write
<1>3. CASE ReportDigest
  BY <1>1, <1>3, Snapshots DEF ReportDigest
<1>4. ASSUME NEW i \in CheckIds, NEW b \in BOOLEAN, CheckStarts(i, b)
      PROVE  /\ checks' \in [CheckIds -> CheckRow]
             /\ UNCHANGED <<tree, edits, digest, reviewing, publication>>
  <2>1. PICK prior \in PriorStatus(i) : checks' = [checks EXCEPT ![i] =
          [status |-> "RUNNING", required |-> b, prior |-> prior]]
    BY <1>4 DEF CheckStarts
  <2>2. prior \in BOOLEAN \X BOOLEAN \X BOOLEAN
    BY <1>1, Snapshots DEF PriorStatus, CheckRow
  <2>3. [status |-> "RUNNING", required |-> b, prior |-> prior] \in CheckRow
    BY <2>2 DEF CheckRow
  <2> QED BY <1>1, <1>4, <2>1, <2>3 DEF CheckStarts
<1>5. ASSUME NEW i \in CheckIds, NEW b \in BOOLEAN, CheckEnds(i, b)
      PROVE  /\ checks' \in [CheckIds -> CheckRow]
             /\ UNCHANGED <<tree, edits, digest, reviewing, publication>>
  <2>1. PICK s \in {"PASSED", "FAILED"} : checks' = [checks EXCEPT
          ![i].status = s, ![i].prior = StatusPorcelain(tree)]
    BY <1>5 DEF CheckEnds
  <2> DEFINE row == [checks[i] EXCEPT !.status = s, !.prior = StatusPorcelain(tree)]
  <2>2. row \in CheckRow
    BY <1>1, Snapshots DEF CheckRow
  <2>3. checks' = [checks EXCEPT ![i] = row]
    BY <1>1, <2>1
  <2> HIDE DEF row
  <2> QED BY <1>1, <1>5, <2>2, <2>3 DEF CheckEnds
<1> QED BY <1>1, <1>2, <1>3, <1>4, <1>5 DEF FileMoves

\* While nobody publishes, what is published stays reviewed.
LEMMA StillPublished ==
  ASSUME Inv, UNCHANGED publication, \A sha : Passed(sha) => Passed(sha)'
  PROVE  (\A p \in Publishers : PublisherOK(p)') /\ RefsOK'
BY DEF Inv, PublisherOK, RefsOK, RecordIsPublished, publication, gitHub

-------------------------------------------------------------------------------
\* The steps of one publisher.
PublisherMoves(p) ==
  \/ \E i \in ReviewIds, asked \in Snapshot : BeginPublication(p, i, asked)
  \/ CheckVerification(p) \/ InspectWorktree(p) \/ StageAll(p) \/ CommitCandidate(p)
  \/ UpdateBranch(p) \/ PushBranch(p) \/ CreateOrUpdate(p) \/ RecordPublication(p)
  \/ PublicationFails(p)

\* The types of what they write.
PubType ==
  /\ tree \in Tree
  /\ publisher \in [Publishers -> Publisher]
  /\ branch \in MaybeCommit /\ remote \in MaybeCommit /\ record \in MaybeCommit
  /\ pulls \in {0, 1}

\* Each step of a publisher keeps what every publisher and the refs rely on.
LEMMA PublisherSteps ==
  ASSUME Inv, NEW p \in Publishers, PublisherMoves(p)
  PROVE  PubType' /\ (\A q \in Publishers : PublisherOK(q)') /\ RefsOK'
<1> DEFINE Goal == PubType' /\ (\A q \in Publishers : PublisherOK(q)') /\ RefsOK'
<1> SUFFICES Goal
  OBVIOUS
<1>a. /\ TypeOK /\ PubType /\ RefsOK /\ \A q \in Publishers : PublisherOK(q)
      /\ publisher[p] \in Publisher
  BY DEF Inv, TypeOK, PubType
<1>b. reviews' = reviews
  BY DEF reviewing, PublisherMoves, BeginPublication, CheckVerification, InspectWorktree, StageAll,
         CommitCandidate, UpdateBranch, PushBranch, CreateOrUpdate, RecordPublication,
         PublicationFails
<1>c. \A sha : Passed(sha)' <=> Passed(sha)
  BY <1>b DEF Passed
<1>d. \A q \in Publishers : publisher[q].step \in {"branch", "push", "pull", "record"} =>
                              publisher[q].commit # NoCommit
  BY <1>a DEF PublisherOK
\* A step that leaves the refs alone.
<1>1. ASSUME UNCHANGED <<branch, remote, record>>, publisher' \in [Publishers -> Publisher],
             \A q \in Publishers \ {p} : publisher'[q] = publisher[q],
             PublisherOK(p)', tree' \in Tree, pulls' \in {0, 1}
      PROVE  Goal
  <2>1. PubType'
    BY <1>a, <1>1 DEF PubType
  <2>2. RefsOK'
    BY <1>a, <1>c, <1>1 DEF RefsOK, RecordIsPublished
  <2>3. ASSUME NEW q \in Publishers \ {p} PROVE PublisherOK(q)'
    BY <1>a, <1>c, <1>1 DEF PublisherOK
  <2> QED BY <1>1, <2>1, <2>2, <2>3
<1>2. ASSUME NEW i \in ReviewIds, NEW asked \in Snapshot, BeginPublication(p, i, asked) PROVE Goal
  <2> DEFINE row == [step |-> "verification", digest |-> asked, commit |-> NoCommit]
  <2>1. /\ row \in Publisher /\ row.step = "verification"
        /\ row.digest = asked /\ row.commit = NoCommit
    BY MakePublisher DEF MaybeCommit
  <2>2. publisher' = [publisher EXCEPT ![p] = row]
    BY <1>2 DEF BeginPublication
  <2> HIDE DEF row
  <2>3. /\ publisher' \in [Publishers -> Publisher] /\ publisher'[p] = row
        /\ \A q \in Publishers \ {p} : publisher'[q] = publisher[q]
    BY <1>a, <2>1, <2>2 DEF PubType
  <2>4. Passed(asked)
    BY <1>2 DEF BeginPublication, Passed
  <2>5. PublisherOK(p)'
    BY <1>c, <2>1, <2>3, <2>4 DEF PublisherOK
  <2>6. UNCHANGED <<branch, remote, record, tree, pulls>>
    BY <1>2 DEF BeginPublication, gitHub
  <2> QED BY <1>a, <1>1, <2>3, <2>5, <2>6 DEF PubType
<1>3. CASE CheckVerification(p) \/ InspectWorktree(p) \/ StageAll(p)
  <2>1. PICK from \in {"verification", "inspect", "stage"}, to \in {"inspect", "stage",
        "commit"} :
          Advance(p, from, to)
    BY <1>3 DEF CheckVerification, InspectWorktree, StageAll
  <2>2. UNCHANGED <<branch, remote, record, pulls>>
    BY <1>3 DEF CheckVerification, InspectWorktree, StageAll, gitHub
  <2>3. tree' \in Tree
    BY <1>3, <1>a DEF CheckVerification, InspectWorktree, StageAll, PubType, Tree
  <2>4. PublisherOK(p)'
    BY <1>a, <1>c, <2>1, <2>2, AdvanceDoes DEF PublisherOK
  <2> QED BY <1>a, <1>1, <2>1, <2>2, <2>3, <2>4, AdvanceDoes DEF PubType
<1>4. CASE CommitCandidate(p)
  <2> DEFINE row == IF DiffBetween(NewCommit) = publisher[p].digest
                      THEN [step |-> "branch", digest |-> publisher[p].digest,
                        commit |-> NewCommit]
                      ELSE NotPublishing
  <2>1. publisher[p].step = "commit" /\ publisher' = [publisher EXCEPT ![p] = row]
    BY <1>4 DEF CommitCandidate
  <2>2. NewCommit \in Commit
    BY <2>1, NewCommitType
  <2>3. /\ row \in Publisher
        /\ \/ row.step = "idle" /\ row.commit = NoCommit
           \/ /\ row.step = "branch" /\ row.commit = NewCommit /\ row.digest = publisher[p].digest
              /\ NewCommit.files = row.digest
    <3>1. CASE DiffBetween(NewCommit) = publisher[p].digest
      <4>1. publisher[p].digest \in Snapshot /\ NewCommit \in MaybeCommit
        BY <1>a, <2>2, PublisherRow DEF MaybeCommit
      <4>2. NewCommit.files = publisher[p].digest
        BY <3>1 DEF DiffBetween
      <4> HIDE DEF NewCommit
      <4>3. row = [step |-> "branch", digest |-> publisher[p].digest, commit |-> NewCommit]
        BY <3>1
      <4> QED BY <4>1, <4>2, <4>3, MakePublisher
    <3>2. CASE DiffBetween(NewCommit) # publisher[p].digest
      BY <3>2, NotPublishingRow
    <3> QED BY <3>1, <3>2
  <2> HIDE DEF row
  <2>4. /\ publisher' \in [Publishers -> Publisher] /\ publisher'[p] = row
        /\ \A q \in Publishers \ {p} : publisher'[q] = publisher[q]
    BY <1>a, <2>1, <2>3 DEF PubType
  <2>5. PublisherOK(p)'
    BY <1>a, <1>c, <2>1, <2>2, <2>3, <2>4 DEF PublisherOK
  <2>6. UNCHANGED <<branch, remote, record, tree, pulls>>
    BY <1>4 DEF CommitCandidate, gitHub
  <2> QED BY <1>a, <1>1, <2>4, <2>5, <2>6 DEF PubType
<1>5. CASE UpdateBranch(p)
  <2>1. /\ Advance(p, "branch", "push") /\ branch = NoCommit /\ branch' = publisher[p].commit
        /\ UNCHANGED <<tree, remote, pulls, record>>
    BY <1>5 DEF UpdateBranch, gitHub
  <2>2. /\ publisher' \in [Publishers -> Publisher] /\ publisher[p].step = "branch"
        /\ publisher'[p].step = "push" /\ publisher'[p].digest = publisher[p].digest
        /\ publisher'[p].commit = publisher[p].commit
        /\ \A q \in Publishers \ {p} : publisher'[q] = publisher[q]
    BY <1>a, <2>1, AdvanceDoes
  <2>3. /\ Passed(publisher[p].digest) /\ publisher[p].commit \in Commit
        /\ publisher[p].commit.files = publisher[p].digest
    BY <1>a, <2>2 DEF PublisherOK
  <2>4. remote = NoCommit /\ record = NoCommit
    BY <1>a, <2>1 DEF RefsOK, RecordIsPublished
  <2>5. RefsOK'
    BY <1>c, <2>1, <2>3, <2>4 DEF RefsOK, RecordIsPublished
  <2>6. ASSUME NEW q \in Publishers PROVE PublisherOK(q)'
    <3>1. q # p => publisher[q].step \notin {"push", "pull", "record"}
      BY <1>a, <1>d, <2>1 DEF PublisherOK
    <3> QED BY <1>a, <1>c, <2>1, <2>2, <2>3, <3>1 DEF PublisherOK
  <2>7. PubType'
    BY <1>a, <2>1, <2>2, <2>3 DEF PubType, MaybeCommit
  <2> QED BY <2>5, <2>6, <2>7
<1>6. CASE PushBranch(p)
  <2>1. /\ Advance(p, "push", "pull") /\ remote' = branch
        /\ UNCHANGED <<tree, branch, pulls, record>>
    BY <1>6 DEF PushBranch
  <2>2. /\ publisher' \in [Publishers -> Publisher] /\ publisher[p].step = "push"
        /\ publisher'[p].step = "pull" /\ publisher'[p].digest = publisher[p].digest
        /\ publisher'[p].commit = publisher[p].commit
        /\ \A q \in Publishers \ {p} : publisher'[q] = publisher[q]
    BY <1>a, <2>1, AdvanceDoes
  <2>3. RefsOK'
    BY <1>a, <1>c, <2>1 DEF RefsOK, RecordIsPublished
  <2>4. ASSUME NEW q \in Publishers PROVE PublisherOK(q)'
    BY <1>a, <1>c, <2>1, <2>2 DEF PublisherOK
  <2>5. PubType'
    BY <1>a, <2>1, <2>2 DEF PubType
  <2> QED BY <2>3, <2>4, <2>5
<1>7. CASE CreateOrUpdate(p)
  <2>1. Advance(p, "pull", "record") /\ UNCHANGED <<branch, remote, record,
        tree>> /\ pulls' \in {0, 1}
    BY <1>7, <1>a DEF CreateOrUpdate, PubType
  <2>2. PublisherOK(p)'
    BY <1>a, <1>c, <2>1, AdvanceDoes DEF PublisherOK
  <2> QED BY <1>a, <1>1, <2>1, <2>2, AdvanceDoes DEF PubType
<1>8. CASE RecordPublication(p) \/ PublicationFails(p)
  <2>1. publisher' = [publisher EXCEPT ![p] = NotPublishing] /\ UNCHANGED <<tree, branch,
        remote, pulls>>
    BY <1>8 DEF RecordPublication, PublicationFails, gitHub
  <2>2. /\ publisher' \in [Publishers -> Publisher] /\ publisher'[p] = NotPublishing
        /\ \A q \in Publishers \ {p} : publisher'[q] = publisher[q]
    BY <1>a, <2>1, NotPublishingRow DEF PubType
  <2>3. record' = record \/ (record' = publisher[p].commit /\ publisher[p].step = "record")
    BY <1>8 DEF RecordPublication, PublicationFails
  <2>4. record' = record \/ (record' = branch /\ record' = remote)
    BY <1>a, <2>3 DEF PublisherOK
  <2>5. RefsOK'
    BY <1>a, <1>c, <2>1, <2>4 DEF RefsOK, RecordIsPublished
  <2>6. ASSUME NEW q \in Publishers PROVE PublisherOK(q)'
    BY <1>a, <1>c, <2>1, <2>2, NotPublishingRow DEF PublisherOK
  <2>7. PubType'
    BY <1>a, <2>1, <2>2, <2>4 DEF PubType
  <2> QED BY <2>5, <2>6, <2>7
<1> QED BY <1>2, <1>3, <1>4, <1>5, <1>6, <1>7, <1>8 DEF PublisherMoves

-------------------------------------------------------------------------------
\* Nothing is reviewed or published at first.
LEMMA InitInv == Init => Inv
<1> SUFFICES ASSUME Init PROVE Inv
  OBVIOUS
<1>1. Nothing \in Snapshot
  BY DEF Nothing, Snapshot, File
<1>2. checks \in [CheckIds -> CheckRow]
  <2>1. NoCheck \in CheckRow
    BY <1>1 DEF NoCheck, CheckRow
  <2> QED BY <2>1 DEF Init
<1>3. NoReview \in ReviewRow /\ NoReview.status = "NONE"
  BY <1>1 DEF NoReview, ReviewRow
<1>4. reviews \in [ReviewIds -> ReviewRow] /\ \A i \in ReviewIds : reviews[i].status = "NONE"
  BY <1>3 DEF Init
<1>5. /\ publisher \in [Publishers -> Publisher]
      /\ \A p \in Publishers : publisher[p].step = "idle" /\ publisher[p].commit = NoCommit
  BY NotPublishingRow DEF Init
<1>6. tree \in Tree /\ edits \in 0..MaxEdits /\ digest \in Snapshot
  BY <1>1 DEF Init, Tree
<1>7. TypeOK
  BY <1>2, <1>4, <1>5, <1>6 DEF TypeOK, Init, MaybeCommit
<1>8. ReviewsOK
  BY <1>4 DEF ReviewsOK, Init
<1>9. \A p \in Publishers : PublisherOK(p)
  BY <1>5 DEF PublisherOK
<1>10. RefsOK
  BY DEF Init, RefsOK, RecordIsPublished
<1> QED BY <1>7, <1>8, <1>9, <1>10 DEF Inv

\* The invariant is inductive.
LEMMA StepInv == Inv /\ [Next]_vars => Inv'
<1> SUFFICES ASSUME Inv, [Next]_vars PROVE Inv'
  OBVIOUS
<1>1. CASE UNCHANGED vars
  BY <1>1 DEF vars, Inv, TypeOK, ReviewsOK, PublisherOK, Passed, RefsOK, RecordIsPublished
<1>2. CASE FileMoves
  <2>1. /\ tree' \in Tree /\ edits' \in 0..MaxEdits /\ digest' \in Snapshot
        /\ checks' \in [CheckIds -> CheckRow] /\ UNCHANGED <<reviewing, publication>>
    BY <1>2, FileSteps DEF Inv
  <2>2. TypeOK'
    BY <2>1 DEF Inv, TypeOK, publication, gitHub, reviewing
  <2>3. ReviewsOK' /\ \A sha : Passed(sha) => Passed(sha)'
    BY <2>1 DEF Inv, ReviewsOK, Passed, reviewing
  <2> QED BY <2>1, <2>2, <2>3, StillPublished DEF Inv
<1>3. CASE ReviewMoves
  <2>1. /\ reviews' \in [ReviewIds -> ReviewRow] /\ ReviewsOK' /\ rejected' \subseteq Snapshot
        /\ \A sha : Passed(sha) => Passed(sha)'
        /\ UNCHANGED <<tree, edits, digest, checks, publication>>
    BY <1>3, ReviewSteps DEF Inv
  <2>2. TypeOK'
    BY <2>1 DEF Inv, TypeOK, publication, gitHub
  <2> QED BY <2>1, <2>2, StillPublished DEF Inv
<1>4. ASSUME NEW p \in Publishers, PublisherMoves(p) PROVE Inv'
  <2>1. PubType' /\ (\A q \in Publishers : PublisherOK(q)') /\ RefsOK'
    BY <1>4, PublisherSteps
  <2>2. UNCHANGED <<edits, digest, checks, reviews, rejected>>
    BY <1>4 DEF PublisherMoves, BeginPublication, CheckVerification, InspectWorktree, StageAll,
         CommitCandidate, UpdateBranch, PushBranch, CreateOrUpdate, RecordPublication,
         PublicationFails, reviewing
  <2>3. ReviewsOK'
    BY <2>2 DEF Inv, ReviewsOK
  <2>4. TypeOK'
    BY <2>1, <2>2 DEF Inv, TypeOK, PubType
  <2> QED BY <2>1, <2>3, <2>4 DEF Inv
<1> QED BY <1>1, <1>2, <1>3, <1>4 DEF Next, FileMoves, ReviewMoves, PublisherMoves

\* Worktree, checks, reviews, publishers and refs keep their shapes.
THEOREM TypeCorrect == Spec => []TypeOK
<1>1. Inv => TypeOK
  BY DEF Inv
<1> QED BY <1>1, InitInv, StepInv, PTL DEF Spec

\* What is on GitHub has the digest of a review that passed, to the last file, and if it
\* fits the prompt the reviewer was given all of it.
THEOREM OnlyReviewedIsPublished == Spec => []PublishedIsReviewed
<1>1. Inv => PublishedIsReviewed
  <2> SUFFICES ASSUME Inv, remote # NoCommit PROVE PublishedIsReviewed
    BY DEF PublishedIsReviewed
  <2>1. PICK i \in ReviewIds : reviews[i].status = "PASSED" /\ reviews[i].reviewedSha = remote.files
    BY DEF Inv, RefsOK, Passed
  <2>2. reviews[i].seen = Shown(remote.files)
    BY <2>1 DEF Inv, ReviewsOK
  <2> QED BY <2>1, <2>2 DEF PublishedIsReviewed, Shown
<1> QED BY <1>1, InitInv, StepInv, PTL DEF Spec

\* A diff that a reviewer rejected before any had passed it is never on GitHub: the first
\* recorded judgement of a diff is the only one.
THEOREM RejectedFirstIsNeverPublished == Spec => []FirstRejectionStands
<1>1. Inv => FirstRejectionStands
  <2> SUFFICES ASSUME Inv, remote # NoCommit, remote.files \in rejected
               PROVE  FALSE
    BY DEF FirstRejectionStands
  <2>1. PICK i \in ReviewIds : reviews[i].status = "PASSED" /\ reviews[i].reviewedSha = remote.files
    BY DEF Inv, RefsOK, Passed
  <2>2. PICK j \in ReviewIds :
          reviews[j].status = "CHANGES_REQUESTED" /\ reviews[j].reviewedSha = remote.files
    BY DEF Inv, ReviewsOK
  <2>3. i = j
    BY <2>1, <2>2 DEF Inv, ReviewsOK
  <2> QED BY <2>1, <2>2, <2>3
<1> QED BY <1>1, InitInv, StepInv, PTL DEF Spec

\* The recorded head is what the branch and GitHub are at.
THEOREM OneHeadRecorded == Spec => []RecordIsPublished
<1>1. Inv => RecordIsPublished
  BY DEF Inv, RefsOK
<1> QED BY <1>1, InitInv, StepInv, PTL DEF Spec
===============================================================================
