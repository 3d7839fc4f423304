----------------------------- MODULE RegistryProofs -----------------------------
(***************************************************************************)
(* What an operator sets up, under any number of requests and commands:    *)
(* the repository (Onboarding), the connection profiles (Profiles) and     *)
(* which task waits for which (TaskDependencies).                          *)
(*                                                                         *)
(* All are read in one step and written in another.  The arguments are of  *)
(* one kind: what is on its way to the row or to the file is already as    *)
(* good as what is there, by a foreign key, a check or a lock.             *)
(***************************************************************************)
EXTENDS Onboarding, Profiles, TaskDependencies, TLAPS

-------------------------------------------------------------------------------
(* Onboarding.                                                             *)

\* A report of the repository let it be used once.
FoundSafe(id) == \E r \in reports : r.of = id /\ r.safe
\* A request past its checks.
CallerIsChecked(o) == asked[o].at \in {"may approve", "may create"} => FoundSafe(asked[o].of)

\* The inductive invariant: reports are of the repository that is there, since their foreign
\* key keeps it from being deleted, and a request past its checks has a safe report behind it.
OnboardingInv ==
  /\ OnboardingTypeOK
  /\ \A r \in reports : Exists(r.of)
  /\ \A o \in Callers : CallerIsChecked(o)
  /\ WorkIsOnInspected

\* How far a request can be.
AskedStates == {"approve", "may approve", "disable", "remove", "may remove", "may create"}

\* The fields of rows, and that no row is one of those that stand for none.
LEMMA OnboardingRows ==
  /\ NotAsked.at = "none"
  /\ \A r \in AskedRow : r.at \in AskedStates
                         /\ r.of \in Ids /\ r # NotAsked
  /\ \A a \in AskedStates, id \in Ids :
       [at |-> a, of |-> id] \in AskedRow
  /\ \A r \in Reports : r.of \in Ids /\ r.at \in 1 .. MaxInspections /\ r.safe \in BOOLEAN /\ r # NotInspecting
  /\ \A id \in Ids, n \in 1 .. MaxInspections, safe \in BOOLEAN :
       /\ [of |-> id, at |-> n, safe |-> safe] \in Reports
  /\ NoRepository.id = 0 /\ NoRepository.enabled = FALSE
  /\ \A r \in RepositoryRow : r.id \in Ids /\ r # NoRepository /\ r.enabled \in BOOLEAN
  /\ \A id \in Ids : id \in Int /\ id > 0 /\ id # 0
<1>1. NoRepository.id = 0 /\ NoRepository.enabled = FALSE
  BY DEF NoRepository
<1>2. \A id \in Ids : id \in Int /\ id > 0 /\ id # 0
  BY OnboardingAssumption DEF Ids
<1>3. /\ NotAsked.at = "none"
      /\ \A r \in AskedRow : r.at \in AskedStates
                         /\ r.of \in Ids /\ r # NotAsked
  <2>1. NotAsked.at = "none"
    BY DEF NotAsked
  <2>3. "none" \notin AskedStates
    BY DEF AskedStates
  <2>2. \A r \in AskedRow :
          r.at \in AskedStates /\ r.of \in Ids
    BY DEF AskedRow, AskedStates
  <2> QED BY <2>1, <2>2, <2>3
<1>4. \A r \in Reports : r.of \in Ids /\ r.at \in 1 .. MaxInspections /\ r.safe \in BOOLEAN
  BY DEF Reports
<1>5. \A r \in Reports : r # NotInspecting
  <2>1. NotInspecting.at = 0
    BY DEF NotInspecting
  <2>2. 0 \notin 1 .. MaxInspections
    BY OnboardingAssumption
  <2> QED BY <2>1, <2>2, <1>4
<1>6. \A r \in RepositoryRow : r.id \in Ids /\ r.enabled \in BOOLEAN
  BY DEF RepositoryRow
<1>7. \A r \in RepositoryRow : r # NoRepository
  BY <1>1, <1>2, <1>6
<1>8. \A a \in AskedStates, id \in Ids :
       [at |-> a, of |-> id] \in AskedRow
  BY DEF AskedRow, AskedStates
<1>9. \A id \in Ids, n \in 1 .. MaxInspections, safe \in BOOLEAN : [of |-> id, at |-> n, safe |-> safe] \in Reports
  BY DEF Reports
<1> QED BY <1>1, <1>2, <1>3, <1>4, <1>5, <1>6, <1>7, <1>8, <1>9

\* What registration, inspection, approval and disabling do to the row.
LEMMA SetRowDoes ==
  ASSUME repository \in RepositoryRow \cup {NoRepository}, repository # NoRepository,
         NEW st \in {"PENDING", "BLOCKED", "APPROVED", "DISABLED"}, NEW en \in BOOLEAN, SetRow(st, en)
  PROVE  /\ repository' \in RepositoryRow
         /\ repository'.id = repository.id
         /\ repository'.status = st /\ repository'.enabled = en
<1>1. repository' = [repository EXCEPT !.status = st, !.enabled = en]
  BY DEF SetRow
<1>2. repository = [id |-> repository.id, status |-> repository.status, enabled |-> repository.enabled] /\ repository.id \in Ids
  BY DEF RepositoryRow
<1>3. repository' = [id |-> repository.id, status |-> st, enabled |-> en]
  BY <1>1, <1>2
<1> QED BY <1>2, <1>3 DEF RepositoryRow

\* No repository, no report, no request.
LEMMA OnboardingStarts == OnboardingInit => OnboardingInv
<1> SUFFICES ASSUME OnboardingInit PROVE OnboardingInv
  OBVIOUS
<1> USE OnboardingAssumption DEF OnboardingInit
<1>1. OnboardingTypeOK
  <2>1. NoRepository.enabled = FALSE
    BY OnboardingRows
  <2>2. repository \in RepositoryRow \cup {NoRepository} /\ (repository.enabled => repository.status = "APPROVED")
    BY <2>1
  <2>3. lastId \in 0 .. MaxRepositories /\ begun \in 0 .. MaxInspections /\ reports \subseteq Reports /\ tasksOf \subseteq Ids
    OBVIOUS
  <2>4. inspection \in [Inspectors -> Reports \cup {NotInspecting}] /\ asked \in [Callers -> AskedRow \cup {NotAsked}]
    OBVIOUS
  <2> QED BY <2>2, <2>3, <2>4 DEF OnboardingTypeOK
<1>2. \A r \in reports : Exists(r.of)
  OBVIOUS
<1>3. \A o \in Callers : CallerIsChecked(o)
  BY OnboardingRows DEF CallerIsChecked
<1>4. WorkIsOnInspected
  BY OnboardingRows DEF WorkIsOnInspected
<1> QED BY <1>1, <1>2, <1>3, <1>4 DEF OnboardingInv

\* Every step keeps the types, and enabled to approved repositories.
LEMMA OnboardingTypeKept ==
  ASSUME OnboardingInv, [OnboardingNext]_onboardingVars
  PROVE  OnboardingTypeOK'
<1>0. OnboardingTypeOK
  BY DEF OnboardingInv
<1> USE <1>0, OnboardingAssumption DEF OnboardingTypeOK
<1>1. CASE UNCHANGED onboardingVars
  BY <1>1 DEF onboardingVars
<1>2. CASE AddRepository
  <2>1. lastId' \in Ids
    BY <1>2 DEF AddRepository, Ids
  <2>2. repository' \in RepositoryRow /\ repository'.enabled = FALSE
    BY <1>2, <2>1 DEF AddRepository, RepositoryRow
  <2> QED BY <1>2, <2>1, <2>2 DEF AddRepository, Ids
<1>3. CASE Reregister
  BY <1>3, SetRowDoes DEF Reregister
<1>4. CASE ApproveReport
  <2>1. repository # NoRepository
    BY <1>4, OnboardingRows DEF ApproveReport, ReportsOf
  <2> QED BY <1>4, <2>1, SetRowDoes DEF ApproveReport
<1>5. ASSUME NEW i \in Inspectors, NEW safe \in BOOLEAN, BeginInspection(i, safe)
      PROVE OnboardingTypeOK'
  <2>1. begun' \in 1 .. MaxInspections
    BY <1>5 DEF BeginInspection
  <2>2. repository.id \in Ids
    BY <1>5, OnboardingRows DEF BeginInspection
  <2>3. [of |-> repository.id, at |-> begun', safe |-> safe] \in Reports
    BY <2>1, <2>2, OnboardingRows
  <2>4. inspection' \in [Inspectors -> Reports \cup {NotInspecting}]
    BY <1>5, <2>3 DEF BeginInspection
  <2> QED BY <1>5, <2>1, <2>4 DEF BeginInspection
<1>6. ASSUME NEW i \in Inspectors, CommitInspection(i) PROVE OnboardingTypeOK'
  <2>1. inspection[i] \in Reports
    BY <1>6 DEF CommitInspection
  <2>2. Exists(inspection[i].of) => repository # NoRepository
    BY OnboardingRows DEF Exists
  <2>3. repository' \in RepositoryRow \cup {NoRepository} /\ (repository'.enabled => repository'.status = "APPROVED")
    <3>1. CASE Exists(inspection[i].of) /\ inspection[i].safe
      <4>1. SetRow("PENDING", FALSE) /\ repository # NoRepository
        BY <1>6, <2>2, <3>1 DEF CommitInspection
      <4> QED BY <4>1, SetRowDoes
    <3>2. CASE Exists(inspection[i].of) /\ ~inspection[i].safe
      <4>1. SetRow("BLOCKED", FALSE) /\ repository # NoRepository
        BY <1>6, <2>2, <3>2 DEF CommitInspection
      <4> QED BY <4>1, SetRowDoes
    <3>3. CASE ~Exists(inspection[i].of)
      BY <1>6, <3>3 DEF CommitInspection
    <3> QED BY <3>1, <3>2, <3>3
  <2> QED BY <1>6, <2>1, <2>3 DEF CommitInspection
<1>7. ASSUME NEW i \in Inspectors, InspectionFails(i) PROVE OnboardingTypeOK'
  BY <1>7 DEF InspectionFails
<1>8. ASSUME NEW o \in Callers, NEW what \in {"approve", "disable", "remove", "may create"}, ReadRepository(o, what)
      PROVE OnboardingTypeOK'
  <2>1. [at |-> what, of |-> repository.id] \in AskedRow
    BY <1>8, OnboardingRows DEF ReadRepository, AskedStates
  <2> QED BY <1>8, <2>1 DEF ReadRepository
<1>9. ASSUME NEW o \in Callers, NEW what \in {"approve", "remove"}, NEW passes \in BOOLEAN, NEW then \in {"may approve", "may remove"},
             Check(o, what, passes, then) PROVE OnboardingTypeOK'
  <2>1. asked[o] \in AskedRow
    BY <1>9, OnboardingRows DEF Check
  <2>2. [asked[o] EXCEPT !.at = then] \in AskedRow
    BY <2>1 DEF AskedRow
  <2> QED BY <1>9, <2>1, <2>2 DEF Check
<1>10. ASSUME NEW o \in Callers, CheckInspection(o) \/ CountTasks(o) PROVE OnboardingTypeOK'
  BY <1>9, <1>10 DEF CheckInspection, CountTasks, SafeForWrites
<1>11. ASSUME NEW o \in Callers, WriteStatus(o) PROVE OnboardingTypeOK'
  <2>2. Exists(asked[o].of) => repository # NoRepository
    BY OnboardingRows DEF Exists
  <2>3. repository' \in RepositoryRow \cup {NoRepository} /\ (repository'.enabled => repository'.status = "APPROVED")
    <3>1. CASE Exists(asked[o].of) /\ asked[o].at = "disable"
      <4>1. SetRow("DISABLED", FALSE) /\ repository # NoRepository
        BY <1>11, <2>2, <3>1 DEF WriteStatus
      <4> QED BY <4>1, SetRowDoes
    <3>2. CASE Exists(asked[o].of) /\ asked[o].at # "disable"
      <4>1. SetRow("APPROVED", TRUE) /\ repository # NoRepository
        BY <1>11, <2>2, <3>2 DEF WriteStatus
      <4> QED BY <4>1, SetRowDoes
    <3>3. CASE ~Exists(asked[o].of)
      BY <1>11, <3>3 DEF WriteStatus
    <3> QED BY <3>1, <3>2, <3>3
  <2> QED BY <1>11, <2>3 DEF WriteStatus, EndAsked
<1>12. ASSUME NEW o \in Callers, DeleteRepository(o) PROVE OnboardingTypeOK'
  BY <1>12, OnboardingRows DEF DeleteRepository, EndAsked
<1>13. ASSUME NEW o \in Callers, InsertTask(o) PROVE OnboardingTypeOK'
  BY <1>13, OnboardingRows DEF InsertTask, EndAsked
<1>14. ASSUME NEW o \in Callers, RequestEnds(o) PROVE OnboardingTypeOK'
  BY <1>14 DEF RequestEnds, EndAsked
<1> QED BY <1>1, <1>2, <1>3, <1>4, <1>5, <1>6, <1>7, <1>8, <1>10, <1>11, <1>12, <1>13,
   <1>14 DEF OnboardingNext

\* Reports are only added, and only of the repository that is there and stays.
LEMMA ReportsAreAdded ==
  ASSUME OnboardingInv, [OnboardingNext]_onboardingVars
  PROVE  /\ reports \subseteq reports'
         /\ \A r \in reports' : r \in reports \/ (Exists(r.of) /\ repository'.id = repository.id)
<1>a. /\ OnboardingTypeOK /\ WorkIsOnInspected
      /\ \A r \in reports : Exists(r.of)
      /\ \A o \in Callers : CallerIsChecked(o)
  BY DEF OnboardingInv
<1>1. ASSUME UNCHANGED reports PROVE reports \subseteq reports' /\ \A r \in reports' : r \in reports
  BY <1>1
<1>2. ASSUME NEW i \in Inspectors, CommitInspection(i)
      PROVE reports \subseteq reports' /\ \A r \in reports' : r \in reports \/ (Exists(r.of) /\ repository'.id = repository.id)
  <2>1. CASE Exists(inspection[i].of)
    <3>1. repository # NoRepository /\ repository \in RepositoryRow \cup {NoRepository}
      BY <2>1, <1>a, OnboardingRows DEF Exists, OnboardingTypeOK
    <3>2. PICK st \in {"PENDING", "BLOCKED"} : SetRow(st, FALSE)
      BY <1>2, <2>1 DEF CommitInspection
    <3>3. repository'.id = repository.id
      BY <3>1, <3>2, SetRowDoes
    <3>4. reports' = reports \cup {inspection[i]}
      BY <1>2, <2>1 DEF CommitInspection
    <3> QED BY <2>1, <3>3, <3>4
  <2>2. CASE ~Exists(inspection[i].of)
    BY <1>2, <2>2 DEF CommitInspection
  <2> QED BY <2>1, <2>2
<1>3. CASE UNCHANGED onboardingVars
  BY <1>1, <1>3 DEF onboardingVars
<1>4. ASSUME OnboardingNext, \A i \in Inspectors : ~CommitInspection(i) PROVE UNCHANGED reports
  BY <1>4 DEF OnboardingNext, AddRepository, Reregister, ApproveReport, BeginInspection,
     InspectionFails,
     ReadRepository, CheckInspection, CountTasks, Check, WriteStatus, DeleteRepository, InsertTask, RequestEnds
<1> QED BY <1>1, <1>2, <1>3, <1>4

\* A step keeps the repository, and enables it only on a safe report; or it adds or deletes
\* one, and then nothing refers to the one that was there.
LEMMA IdsAndEnabled ==
  ASSUME OnboardingInv, [OnboardingNext]_onboardingVars
  PROVE  \/ /\ repository'.id = repository.id
            /\ repository'.enabled => repository.enabled \/ FoundSafe(repository.id)
         \/ /\ repository'.enabled = FALSE /\ UNCHANGED tasksOf /\ UNCHANGED reports
            /\ repository.id \notin tasksOf /\ \A r \in reports : r.of # repository.id
<1>a. /\ OnboardingTypeOK /\ WorkIsOnInspected
      /\ \A r \in reports : Exists(r.of)
      /\ \A o \in Callers : CallerIsChecked(o)
  BY DEF OnboardingInv
<1> DEFINE Kept == repository'.id = repository.id /\ (repository'.enabled => repository.enabled \/ FoundSafe(repository.id))
           Gone == /\ repository'.enabled = FALSE /\ UNCHANGED tasksOf /\ UNCHANGED reports
                   /\ repository.id \notin tasksOf /\ \A r \in reports : r.of # repository.id
<1>b. repository \in RepositoryRow \cup {NoRepository} /\ tasksOf \subseteq Ids /\ reports \subseteq Reports
  BY <1>a DEF OnboardingTypeOK
<1>1. ASSUME UNCHANGED repository PROVE Kept
  BY <1>1
<1>2. ASSUME NEW st \in {"PENDING", "BLOCKED", "APPROVED", "DISABLED"}, NEW en \in BOOLEAN,
             SetRow(st, en), repository # NoRepository, en => FoundSafe(repository.id)
      PROVE  Kept
  <2>1. repository'.id = repository.id /\ repository'.enabled = en
    BY <1>2, <1>b, SetRowDoes
  <2> QED BY <1>2, <2>1
<1>3. CASE AddRepository
  <2>1. repository.id = 0 /\ 0 \notin Ids
    BY <1>3, OnboardingRows DEF AddRepository
  <2>2. repository'.enabled = FALSE
    BY <1>3 DEF AddRepository
  <2>3. \A r \in reports : r.of # 0
    BY <1>b, OnboardingRows
  <2> QED BY <1>3, <1>b, <2>1, <2>2, <2>3 DEF AddRepository
<1>4. CASE Reregister
  BY <1>2, <1>4 DEF Reregister
<1>5. CASE ApproveReport
  <2>1. FoundSafe(repository.id)
    BY <1>5 DEF ApproveReport, ReportsOf, FoundSafe
  <2>2. repository # NoRepository
    BY <2>1, <1>b, OnboardingRows DEF FoundSafe
  <2> QED BY <1>2, <1>5, <2>1, <2>2 DEF ApproveReport
<1>6. ASSUME NEW i \in Inspectors, CommitInspection(i) PROVE Kept
  <2>1. Exists(inspection[i].of) => repository # NoRepository
    BY OnboardingRows DEF Exists
  <2>2. CASE Exists(inspection[i].of)
    <3>1. PICK st \in {"PENDING", "BLOCKED"} : SetRow(st, FALSE)
      BY <1>6, <2>2 DEF CommitInspection
    <3> QED BY <1>2, <2>1, <2>2, <3>1
  <2>3. CASE ~Exists(inspection[i].of)
    BY <1>6, <2>3 DEF CommitInspection
  <2> QED BY <2>2, <2>3
<1>7. ASSUME NEW o \in Callers, WriteStatus(o) PROVE Kept
  <2>1. Exists(asked[o].of) => repository # NoRepository
    BY OnboardingRows DEF Exists
  <2>2. CASE Exists(asked[o].of) /\ asked[o].at = "disable"
    BY <1>2, <1>7, <2>1, <2>2 DEF WriteStatus
  <2>3. CASE Exists(asked[o].of) /\ asked[o].at # "disable"
    <3>1. asked[o].at = "may approve" /\ SetRow("APPROVED", TRUE)
      BY <1>7, <2>3 DEF WriteStatus
    <3>2. FoundSafe(repository.id)
      BY <1>a, <2>3, <3>1 DEF CallerIsChecked, Exists
    <3> QED BY <1>2, <2>1, <2>3, <3>1, <3>2
  <2>4. CASE ~Exists(asked[o].of)
    BY <1>7, <2>4 DEF WriteStatus
  <2> QED BY <2>2, <2>3, <2>4
<1>8. ASSUME NEW o \in Callers, DeleteRepository(o) PROVE Kept \/ Gone
  <2>1. CASE Exists(asked[o].of) /\ ~Referenced(asked[o].of)
    <3>1. repository' = NoRepository /\ repository.id = asked[o].of
      BY <1>8, <2>1 DEF DeleteRepository, Exists
    <3>2. repository'.enabled = FALSE
      BY <3>1, OnboardingRows
    <3>3. repository.id \notin tasksOf /\ \A r \in reports : r.of # repository.id
      BY <2>1, <3>1 DEF Referenced, ReportsOf
    <3> QED BY <1>8, <3>2, <3>3 DEF DeleteRepository
  <2>2. CASE ~(Exists(asked[o].of) /\ ~Referenced(asked[o].of))
    BY <1>8, <2>2 DEF DeleteRepository
  <2> QED BY <2>1, <2>2
<1>9. CASE UNCHANGED onboardingVars
  BY <1>9 DEF onboardingVars
<1>10. ASSUME NEW i \in Inspectors, NEW safe \in BOOLEAN, BeginInspection(i, safe) \/ InspectionFails(i)
      PROVE Kept
  BY <1>10 DEF BeginInspection, InspectionFails
<1>11. ASSUME NEW o \in Callers, NEW what \in {"approve", "disable", "remove", "may create"},
              \/ ReadRepository(o, what) \/ CheckInspection(o) \/ CountTasks(o) \/ InsertTask(o) \/ RequestEnds(o)
       PROVE Kept
  BY <1>11 DEF ReadRepository, CheckInspection, CountTasks, Check, InsertTask, RequestEnds
<1> QED BY <1>3, <1>4, <1>5, <1>6, <1>7, <1>8, <1>9, <1>10, <1>11 DEF OnboardingNext

\* A new task is of the repository that is there, which has a safe report: the request saw
\* it enabled, and reports stay.
LEMMA TasksAreOfInspected ==
  ASSUME OnboardingInv, [OnboardingNext]_onboardingVars
  PROVE  \A id \in tasksOf' : id \in tasksOf \/ (Exists(id) /\ FoundSafe(id))
<1>a. /\ OnboardingTypeOK /\ WorkIsOnInspected
      /\ \A r \in reports : Exists(r.of)
      /\ \A o \in Callers : CallerIsChecked(o)
  BY DEF OnboardingInv
<1>1. ASSUME NEW o \in Callers, InsertTask(o)
      PROVE \A id \in tasksOf' : id \in tasksOf \/ (Exists(id) /\ FoundSafe(id))
  <2>1. FoundSafe(asked[o].of)
    BY <1>1, <1>a DEF InsertTask, CallerIsChecked
  <2> QED BY <1>1, <2>1 DEF InsertTask
<1>2. CASE UNCHANGED onboardingVars
  BY <1>2 DEF onboardingVars
<1>3. ASSUME OnboardingNext, \A o \in Callers : ~InsertTask(o) PROVE UNCHANGED tasksOf
  BY <1>3 DEF OnboardingNext, AddRepository, Reregister, ApproveReport, BeginInspection,
     InspectionFails, CommitInspection,
     ReadRepository, CheckInspection, CountTasks, Check, WriteStatus, DeleteRepository, RequestEnds
<1> QED BY <1>1, <1>2, <1>3

\* Who is about to approve, or to create a task, has seen a safe report, or that somebody
\* else had.
LEMMA RequestsAreChecked ==
  ASSUME OnboardingInv, [OnboardingNext]_onboardingVars
  PROVE  \A o \in Callers : asked'[o].at \in {"may approve", "may create"} => FoundSafe(asked'[o].of)
<1>a. /\ OnboardingTypeOK /\ WorkIsOnInspected
      /\ \A r \in reports : Exists(r.of)
      /\ \A o \in Callers : CallerIsChecked(o)
  BY DEF OnboardingInv
<1> SUFFICES ASSUME NEW p \in Callers, asked'[p].at \in {"may approve", "may create"} PROVE FoundSafe(asked'[p].of)
  OBVIOUS
<1>b. asked \in [Callers -> AskedRow \cup {NotAsked}] /\ NotAsked.at = "none"
  BY <1>a, OnboardingRows DEF OnboardingTypeOK
<1>1. CASE asked'[p] = asked[p]
  BY <1>1, <1>a DEF CallerIsChecked
<1>2. ASSUME NEW o \in Callers, NEW what \in {"approve", "disable", "remove", "may create"}, ReadRepository(o, what)
      PROVE FoundSafe(asked'[p].of)
  <2>1. asked'[p] # asked[p] => o = p /\ asked'[p] = [at |-> what, of |-> repository.id] /\ repository.enabled /\ repository \in RepositoryRow
    BY <1>2, <1>b, <1>a DEF ReadRepository, OnboardingTypeOK
  <2>2. repository \in RepositoryRow /\ repository.enabled => FoundSafe(repository.id)
    BY <1>a, OnboardingRows DEF WorkIsOnInspected, FoundSafe, ReportsOf
  <2>3. [at |-> what, of |-> repository.id].of = repository.id
    OBVIOUS
  <2>4. CASE asked'[p] # asked[p]
    BY <2>1, <2>2, <2>3, <2>4
  <2> QED BY <1>1, <2>4
<1>3. ASSUME NEW o \in Callers, EndAsked(o) PROVE asked'[p] = asked[p]
  BY <1>3, <1>b DEF EndAsked
<1>4. ASSUME NEW o \in Callers, CheckInspection(o) PROVE FoundSafe(asked'[p].of)
  <2>1. CASE o # p
    BY <1>4, <2>1, <1>b, <1>1 DEF CheckInspection, Check
  <2>2. CASE o = p
    <3>1. SafeForWrites(asked[p].of) /\ asked'[p] = [asked[p] EXCEPT !.at = "may approve"]
      BY <1>4, <2>2, <1>b DEF CheckInspection, Check
    <3>2. asked[p] \in AskedRow
      BY <1>4, <2>2, <1>b DEF CheckInspection, Check
    <3>3. asked'[p].of = asked[p].of
      BY <3>1, <3>2 DEF AskedRow
    <3> QED BY <3>1, <3>3 DEF SafeForWrites, ReportsOf, FoundSafe
  <2> QED BY <2>1, <2>2
<1>5. ASSUME NEW o \in Callers, CountTasks(o) PROVE asked'[p] = asked[p]
  <2>1. CASE o # p
    BY <1>5, <2>1, <1>b DEF CountTasks, Check
  <2>2. CASE o = p
    <3>1. asked'[p] = NotAsked \/ asked'[p] = [asked[p] EXCEPT !.at = "may remove"]
      BY <1>5, <2>2, <1>b DEF CountTasks, Check
    <3>2. asked[p] \in AskedRow
      BY <1>5, <2>2, <1>b DEF CountTasks, Check
    <3>3. [asked[p] EXCEPT !.at = "may remove"].at = "may remove"
      BY <3>2 DEF AskedRow
    <3> QED BY <3>1, <3>3, <1>b
  <2> QED BY <2>1, <2>2
<1>6. ASSUME NEW o \in Callers, WriteStatus(o) \/ DeleteRepository(o) \/ InsertTask(o) \/ RequestEnds(o)
      PROVE asked'[p] = asked[p]
  BY <1>3, <1>6 DEF WriteStatus, DeleteRepository, InsertTask, RequestEnds
<1>7. ASSUME \/ UNCHANGED onboardingVars \/ AddRepository \/ Reregister \/ ApproveReport
             \/ \E i \in Inspectors : (\E safe \in BOOLEAN : BeginInspection(i, safe)) \/ CommitInspection(i) \/ InspectionFails(i)
      PROVE asked'[p] = asked[p]
  BY <1>7 DEF onboardingVars, AddRepository, Reregister, ApproveReport, BeginInspection,
     CommitInspection, InspectionFails
<1> QED BY <1>1, <1>2, <1>4, <1>5, <1>6, <1>7 DEF OnboardingNext

\* The three facts together keep the invariant.
LEMMA OnboardingInvKept == OnboardingInv /\ [OnboardingNext]_onboardingVars => OnboardingInv'
<1> SUFFICES ASSUME OnboardingInv, [OnboardingNext]_onboardingVars PROVE OnboardingInv'
  OBVIOUS
<1>a. /\ OnboardingTypeOK /\ WorkIsOnInspected
      /\ \A r \in reports : Exists(r.of)
      /\ \A o \in Callers : CallerIsChecked(o)
  BY DEF OnboardingInv
<1>1. OnboardingTypeOK'
  BY OnboardingTypeKept
<1>2. \A id : FoundSafe(id) => FoundSafe(id)'
  BY ReportsAreAdded DEF FoundSafe
<1>3. \A r \in reports' : Exists(r.of)'
  BY <1>a, ReportsAreAdded, IdsAndEnabled DEF Exists
<1>4. \A o \in Callers : CallerIsChecked(o)'
  BY <1>2, RequestsAreChecked DEF CallerIsChecked
<1>5. WorkIsOnInspected'
  <2> SUFFICES ASSUME NEW id \in Ids, id \in tasksOf' \/ (repository'.enabled /\ repository'.id = id)
               PROVE Exists(id)' /\ FoundSafe(id)'
    BY DEF WorkIsOnInspected, FoundSafe, ReportsOf
  <2>0. \A n \in Ids : n \in tasksOf \/ (repository.enabled /\ repository.id = n) => Exists(n) /\ FoundSafe(n)
    BY <1>a DEF WorkIsOnInspected, FoundSafe, ReportsOf
  <2>1. CASE id \in tasksOf'
    <3>1. Exists(id) /\ FoundSafe(id)
      BY <2>0, <2>1, TasksAreOfInspected
    <3>2. repository'.id = repository.id
      BY <3>1, IdsAndEnabled DEF Exists, FoundSafe
    <3> QED BY <1>2, <3>1, <3>2 DEF Exists
  <2>2. CASE repository'.enabled /\ repository'.id = id
    <3>1. repository'.id = repository.id /\ FoundSafe(repository.id)
      BY <2>0, <2>2, IdsAndEnabled
    <3> QED BY <1>2, <2>2, <3>1, OnboardingRows DEF Exists
  <2> QED BY <2>1, <2>2
<1> QED BY <1>1, <1>3, <1>4, <1>5 DEF OnboardingInv

\* Whatever requests and inspections run at once, the invariant holds.
LEMMA OnboardingAlways == OnboardingSpec => []OnboardingInv
BY OnboardingStarts, OnboardingInvKept, PTL DEF OnboardingSpec

\* The rows keep their shapes, and an enabled repository is an approved one.
THEOREM OnboardingTypeCorrect == OnboardingSpec => []OnboardingTypeOK
<1>1. OnboardingInv => OnboardingTypeOK
  BY DEF OnboardingInv
<1> QED BY <1>1, OnboardingAlways, PTL

\* With any number of requests and inspections in any order, what is enabled and what
\* has tasks is there and has been found safe (registry-service.ts, product-service.ts).
THEOREM WorkOnInspectedOnly == OnboardingSpec => []WorkIsOnInspected
<1>1. OnboardingInv => WorkIsOnInspected
  BY DEF OnboardingInv
<1> QED BY <1>1, OnboardingAlways, PTL

-------------------------------------------------------------------------------
(* Profiles.                                                              *)

\* A file whose current profile is there and whose tokens are all vouched for.
Usable(file) ==
  /\ file.current # Nothing => file.token[file.current] # Nothing
  /\ \A n \in Names : file.token[n] \in vouched \cup {Nothing}

\* What a command may still bring into the file.
ShellIsUsable(s) ==
  /\ Runs(s, "starting") => shell[s].secret \in Secrets
  /\ Runs(s, "save") => shell[s].secret \in vouched
  /\ Runs(s, "rename") => Usable(shell[s].file)

\* The inductive invariant: also the contents a command is about to rename are usable.
ProfilesInv == ProfilesTypeOK /\ Usable(profiles) /\ \A s \in Shells : ShellIsUsable(s)

\* What a command under way has in its hands, by the place it has come to.
LEMMA ShellRowKinds ==
  ASSUME NEW r \in ShellRow
  PROVE  /\ r # Idle
         /\ r.at \in {"starting", "save", "use", "logout", "rename"}
         /\ r.at # "rename" => r.name \in Names /\ r.secret \in Secrets \cup {Nothing}
         /\ r.at = "rename" => r.file \in ProfileFile
BY DEF ShellRow, Idle

\* No file and no command: the invariant holds at first.
LEMMA ProfilesStart == ProfilesInit => ProfilesInv
BY ProfilesAssumption DEF ProfilesInit, ProfilesInv, ProfilesTypeOK, Usable, ShellIsUsable,
   Runs, NoProfiles, ProfileFile, Idle

\* Every step of every command keeps it.
LEMMA ProfilesInvKept == ProfilesInv /\ [ProfilesNext]_profileVars => ProfilesInv'
<1> SUFFICES ASSUME ProfilesInv, [ProfilesNext]_profileVars PROVE ProfilesInv'
  OBVIOUS
<1> USE DEF ProfilesInv
<1>1. CASE UNCHANGED profileVars
  BY <1>1 DEF profileVars, ProfilesTypeOK, Usable, ShellIsUsable, Runs
<1>2. ASSUME NEW s \in Shells, NEW k \in Secrets, Start(s, k) PROVE ProfilesInv'
  BY <1>2, ProfilesAssumption DEF Start, ProfilesTypeOK, Usable, ShellIsUsable, Runs, Go,
     ShellRow, Idle
<1>3. ASSUME NEW s \in Shells, NEW k \in Secrets, NEW n \in Names, Login(s, n, k)
      PROVE ProfilesInv'
  BY <1>3, ProfilesAssumption DEF Login, ProfilesTypeOK, Usable, ShellIsUsable, Runs, Go,
     ShellRow, Idle
<1>4. ASSUME NEW s \in Shells, NEW n \in Names, NEW at \in {"use", "logout"}, Invoke(s, at, n)
      PROVE ProfilesInv'
  BY <1>4, ProfilesAssumption DEF Invoke, ProfilesTypeOK, Usable, ShellIsUsable, Runs, Go,
     ShellRow, Idle
<1>5. ASSUME NEW s \in Shells, Started(s) PROVE ProfilesInv'
  BY <1>5, ProfilesAssumption DEF Started, ProfilesTypeOK, Usable, ShellIsUsable, Runs, Go,
     ShellRow, Idle
<1>6. ASSUME NEW s \in Shells, ReadAndChange(s) PROVE ProfilesInv'
  BY <1>6, ProfilesAssumption, ShellRowKinds DEF ReadAndChange, ProfilesTypeOK, Usable,
     ShellIsUsable, Runs, Go, ShellRow, Idle, Saved, Used, Removed, ProfileFile
<1>7. ASSUME NEW s \in Shells, Rename(s) PROVE ProfilesInv'
  BY <1>7, ProfilesAssumption, ShellRowKinds DEF Rename, ProfilesTypeOK, Usable, ShellIsUsable,
     Runs, Go, Idle
<1>8. ASSUME NEW s \in Shells, ShellEnds(s) PROVE ProfilesInv'
  BY <1>8 DEF ShellEnds, ProfilesTypeOK, Usable, ShellIsUsable, Runs, Go, Idle
<1> QED BY <1>1, <1>2, <1>3, <1>4, <1>5, <1>6, <1>7, <1>8 DEF ProfilesNext

-------------------------------------------------------------------------------
\* Whatever the commands do, the invariant holds.
LEMMA ProfilesAlways == ProfilesSpec => []ProfilesInv
BY ProfilesStart, ProfilesInvKept, PTL DEF ProfilesSpec

\* profiles.json, the commands and the history keep their shapes.
THEOREM ProfilesTypeCorrect == ProfilesSpec => []ProfilesTypeOK
<1>1. ProfilesInv => ProfilesTypeOK
  BY DEF ProfilesInv
<1> QED BY <1>1, ProfilesAlways, PTL

\* Of any commands at once (profiles.ts: read, change, rename, with no lock) none
\* leaves a current profile that is not in the file, or a token of a start that
\* did not end well.
THEOREM ProfilesStayUsable == ProfilesSpec => []ProfilesAreUsable
<1>1. ProfilesInv => ProfilesAreUsable
  BY DEF ProfilesInv, Usable, ProfilesAreUsable
<1> QED BY <1>1, ProfilesAlways, PTL

-------------------------------------------------------------------------------
(* Task dependencies: no two and no three tasks ever wait for each other.  *)
(* What a transaction found in its check stays true until it commits: an   *)
(* edge that could spoil it shares an end with its own, and that row is    *)
(* locked.                                                                 *)

\* Open transactions hold different rows.
LocksExclusive ==
  \A s, r \in Sessions :
    s # r /\ Open(s) /\ Open(r) => Rows(tx[s].edge) \cap Rows(tx[r].edge) = {}

\* No way back of one or two edges.
NoWayBack(e) ==
  /\ <<e[2], e[1]>> \notin edges
  /\ \A v \in Tasks : ~(<<e[2], v>> \in edges /\ <<v, e[1]>> \in edges)

ChecksStand ==
  \A s \in Sessions : Open(s) /\ tx[s].stage = "checked" => NoWayBack(tx[s].edge)

DependenciesInv == TypeOK /\ LocksExclusive /\ ChecksStand /\ NoShortCycle

\* What the recursive query finds includes every way of one or two edges.
LEMMA QueryFindsShortWays ==
  ASSUME NEW e \in Edges, TypeOK, ~LeadsTo(e[2], e[1])
  PROVE  NoWayBack(e)
<1>1. PICK S \in SUBSET Tasks :
        /\ \A d \in edges : d[1] = e[2] \/ d[1] \in S => d[2] \in S
        /\ e[1] \notin S
  BY DEF LeadsTo
<1>2. <<e[2], e[1]>> \notin edges
  BY <1>1
<1>3. ASSUME NEW v \in Tasks, <<e[2], v>> \in edges, <<v, e[1]>> \in edges PROVE FALSE
  <2>1. v \in S
    BY <1>1, <1>3
  <2>2. QED
    BY <1>1, <1>3, <2>1
<1>4. QED
  BY <1>2, <1>3 DEF NoWayBack

\* Adding a checked edge closes no short cycle.
LEMMA CommitKeepsShortCyclesOut ==
  ASSUME NEW e \in Edges, NoShortCycle, NoWayBack(e), edges \subseteq Edges,
         edges' = edges \cup {e}
  PROVE  NoShortCycle'
<1>1. e = <<e[1], e[2]>> /\ e[1] # e[2] /\ e[1] \in Tasks /\ e[2] \in Tasks
  BY DEF Edges
<1>2. \A a, b \in Tasks : <<a, b>> \in edges => a # b
  BY DEF Edges
<1>3. ASSUME NEW a \in Tasks, NEW b \in Tasks, <<a, b>> \in edges', <<b, a>> \in edges'
      PROVE  FALSE
  BY <1>1, <1>2, <1>3 DEF NoShortCycle, NoWayBack
<1>4. ASSUME NEW a \in Tasks, NEW b \in Tasks, NEW c \in Tasks,
             <<a, b>> \in edges', <<b, c>> \in edges', <<c, a>> \in edges'
      PROVE  FALSE
  <2>1. CASE <<a, b>> \in edges /\ <<b, c>> \in edges /\ <<c, a>> \in edges
    BY <2>1 DEF NoShortCycle
  <2>2. CASE <<a, b>> = e
    BY <2>2, <1>1, <1>4 DEF NoWayBack
  <2>3. CASE <<b, c>> = e
    BY <2>3, <1>1, <1>4 DEF NoWayBack
  <2>4. CASE <<c, a>> = e
    BY <2>4, <1>1, <1>4 DEF NoWayBack
  <2>5. QED
    BY <1>4, <2>1, <2>2, <2>3, <2>4
<1>5. QED
  BY <1>3, <1>4 DEF NoShortCycle

\* An edge that another transaction adds leaves a checked edge's way back closed:
\* the rows at the ends of the two edges differ.
LEMMA OthersLeaveTheWayClosed ==
  ASSUME NEW d \in Edges, NEW e \in Edges, NoWayBack(e),
         Rows(d) \cap Rows(e) = {}, edges' = edges \cup {d}
  PROVE  NoWayBack(e)'
<1>1. d[1] # e[1] /\ d[1] # e[2] /\ d[2] # e[1] /\ d[2] # e[2]
  BY DEF Rows
<1>2. \A v : d = <<e[2], v>> => d[1] = e[2]
  OBVIOUS
<1>3. \A v : d = <<v, e[1]>> => d[2] = e[1]
  OBVIOUS
<1>4. QED
  BY <1>1, <1>2, <1>3 DEF NoWayBack

\* At the start no transaction holds a row.
LEMMA DependenciesStart == Init => DependenciesInv
BY DEF Init, DependenciesInv, TypeOK, LocksExclusive, ChecksStand, NoShortCycle, Open

\* Every step of TaskDependencies preserves the invariant.
LEMMA DependenciesInvKept == DependenciesInv /\ [Next]_vars => DependenciesInv'
<1> SUFFICES ASSUME DependenciesInv, [Next]_vars PROVE DependenciesInv'
  OBVIOUS
<1> USE DEF DependenciesInv
<1>1. ASSUME NEW s \in Sessions, NEW e \in Edges, LockEnds(s, e) PROVE DependenciesInv'
  <2>0. NoTx.stage = "none"
    BY DEF NoTx
  <2>1. TypeOK'
    BY <1>1 DEF LockEnds, TypeOK, TxRow
  <2>2. LocksExclusive'
    BY <1>1 DEF LockEnds, LocksExclusive, Free, Open, TypeOK
  <2>3. ChecksStand'
    <3>1. ASSUME NEW r \in Sessions, Open(r)', tx'[r].stage = "checked"
          PROVE  Open(r) /\ tx[r].stage = "checked" /\ tx'[r] = tx[r]
      BY <1>1, <3>1 DEF LockEnds, Open, TypeOK
    <3>2. QED
      BY <1>1, <3>1 DEF LockEnds, ChecksStand, NoWayBack
  <2>4. NoShortCycle'
    BY <1>1 DEF LockEnds, NoShortCycle
  <2>5. QED
    BY <2>1, <2>2, <2>3, <2>4
<1>2. ASSUME NEW s \in Sessions, CheckCycle(s) PROVE DependenciesInv'
  <2>1. TypeOK' /\ tx[s].edge \in Edges
    BY <1>2 DEF CheckCycle, TypeOK, TxRow, Open
  <2>2. LocksExclusive'
    BY <1>2 DEF CheckCycle, LocksExclusive, Open, TypeOK
  <2>3. ChecksStand'
    <3>1. ASSUME NEW r \in Sessions, Open(r)', tx'[r].stage = "checked"
          PROVE  NoWayBack(tx[r].edge)'
      <4>1. CASE r = s
        <5>1. tx'[s] = [stage |-> "checked", edge |-> tx[s].edge]
              /\ ~LeadsTo(tx[s].edge[2], tx[s].edge[1])
          BY <1>2, <3>1, <4>1 DEF CheckCycle, Open, TypeOK
        <5>2. NoWayBack(tx[s].edge)
          BY <2>1, <5>1, QueryFindsShortWays
        <5>3. QED
          BY <1>2, <4>1, <5>1, <5>2 DEF CheckCycle, NoWayBack
      <4>2. CASE r # s
        BY <1>2, <3>1, <4>2 DEF CheckCycle, ChecksStand, NoWayBack, Open, TypeOK
      <4>3. QED
        BY <4>1, <4>2
    <3>2. QED
      BY <3>1 DEF ChecksStand, NoWayBack
  <2>4. NoShortCycle'
    BY <1>2 DEF CheckCycle, NoShortCycle
  <2>5. QED
    BY <2>1, <2>2, <2>3, <2>4
<1>3. ASSUME NEW s \in Sessions, CommitEdge(s) PROVE DependenciesInv'
  <2>1. TypeOK' /\ tx[s].edge \in Edges
    BY <1>3 DEF CommitEdge, TypeOK, TxRow, Open
  <2>2. LocksExclusive'
    BY <1>3 DEF CommitEdge, LocksExclusive, Open, TypeOK
  <2>3. ASSUME NEW r \in Sessions, Open(r)', tx'[r].stage = "checked"
        PROVE  NoWayBack(tx[r].edge)'
    <3>1. r # s /\ tx'[r] = tx[r] /\ Open(r) /\ tx[r].edge \in Edges
      BY <1>3, <2>3 DEF CommitEdge, Open, TypeOK, TxRow
    <3>2. NoWayBack(tx[r].edge) /\ Rows(tx[s].edge) \cap Rows(tx[r].edge) = {}
      BY <1>3, <2>3, <3>1 DEF CommitEdge, ChecksStand, LocksExclusive
    <3>3. edges' = edges \cup {tx[s].edge}
      BY <1>3 DEF CommitEdge
    <3>4. NoWayBack(tx[r].edge) /\ tx'[r].edge = tx[r].edge
      BY <3>1, <3>2
    <3>5. QED
      BY <2>1, <3>1, <3>2, <3>3, <3>4, OthersLeaveTheWayClosed DEF NoWayBack
  <2>4. ChecksStand'
    BY <2>3 DEF ChecksStand, NoWayBack
  <2>5. NoShortCycle'
    <3>1. NoWayBack(tx[s].edge) /\ edges' = edges \cup {tx[s].edge}
      BY <1>3 DEF CommitEdge, ChecksStand
    <3>2. QED
      BY <2>1, <3>1, CommitKeepsShortCyclesOut DEF TypeOK
  <2>6. QED
    BY <2>1, <2>2, <2>4, <2>5
<1>4. ASSUME NEW s \in Sessions, Rollback(s) PROVE DependenciesInv'
  BY <1>4 DEF Rollback, TypeOK, LocksExclusive, ChecksStand, NoShortCycle, NoWayBack, Open
<1>5. ASSUME NEW e \in Edges, RemoveDependency(e) PROVE DependenciesInv'
  BY <1>5 DEF RemoveDependency, TypeOK, LocksExclusive, ChecksStand, NoShortCycle,
              NoWayBack, Open
<1>6. CASE UNCHANGED vars
  BY <1>6 DEF vars, TypeOK, LocksExclusive, ChecksStand, NoShortCycle, NoWayBack, Open
<1>7. QED
  BY <1>1, <1>2, <1>3, <1>4, <1>5, <1>6 DEF Next

\* The invariant holds in every behaviour.
LEMMA DependenciesAlways == Spec => []DependenciesInv
BY DependenciesStart, DependenciesInvKept, PTL DEF Spec

\* The rows keep their shape, and no task depends on itself (addDependency).
THEOREM DependenciesTypeCorrect == Spec => []TypeOK
BY DependenciesAlways, PTL DEF DependenciesInv

\* However many tasks and sessions there are, the row locks and the search of
\* addDependency keep two and three tasks from waiting for each other.
THEOREM ShortCyclesExcluded == Spec => []NoShortCycle
BY DependenciesAlways, PTL DEF DependenciesInv
===============================================================================
