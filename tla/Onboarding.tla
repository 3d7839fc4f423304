------------------------------ MODULE Onboarding ------------------------------
(***************************************************************************)
(* Putting one repository to use: it is registered, inspected in a         *)
(* checkout (registry-service.ts), approved, disabled or removed by its    *)
(* owner, and tasks are created on it (product-service.ts).  The product's *)
(* commands read a row in one statement and write it in another.  A        *)
(* repository that is removed and added again has another id.              *)
(***************************************************************************)
EXTENDS Integers

CONSTANTS
  Callers,          \* requests under way
  Inspectors,       \* inspections under way
  MaxRepositories,  \* bound: ids drawn
  MaxInspections    \* bound: inspections whose transaction begins

ASSUME OnboardingAssumption == MaxRepositories \in Nat /\ MaxInspections \in Nat

VARIABLES
  repository,   \* the row of repositories, if there is one
  lastId,       \* ids drawn
  reports,      \* repository_onboarding_reports
  begun,        \* inspection transactions begun: inspected_at counts them
  inspection,   \* by inspector: the report it is about to commit
  asked,      \* by request: the id it has read, and what it will do
  tasksOf       \* ids of repositories that have tasks

onboardingVars == <<repository, lastId, reports, begun, inspection, asked, tasksOf>>

Ids == 1 .. MaxRepositories
NoRepository == [id |-> 0, status |-> "none", enabled |-> FALSE]
RepositoryRow ==
  [id : Ids, status : {"PENDING", "BLOCKED", "APPROVED", "DISABLED"}, enabled : BOOLEAN]
Reports == [of : Ids, at : 1 .. MaxInspections, safe : BOOLEAN]
NotInspecting == [at |-> 0]
NotAsked == [at |-> "none"]
AskedRow == [at : {"approve", "may approve", "disable", "remove", "may remove", "may create"},
               of : Ids]

Exists(id) == id # 0 /\ repository.id = id
ReportsOf(id) == {r \in reports : r.of = id}

\* The row inspectRepository reads: the one inspected last.  No report is a finding.
\* Seeded fault: only an unsafe report stands in the way.
NotUnsafe(id) ==
  \A r \in ReportsOf(id) : (\A s \in ReportsOf(id) : s.at \leq r.at) => r.safe
SafeForWrites(id) ==
  \E r \in ReportsOf(id) : r.safe /\ \A s \in ReportsOf(id) : s.at \leq r.at

\* Rows of other tables that refer to a repository and keep it from being deleted.
Referenced(id) == ReportsOf(id) # {} \/ id \in tasksOf

SetRow(status, enabled) ==
  repository' = [repository EXCEPT !.status = status, !.enabled = enabled]
EndAsked(o) == asked' = [asked EXCEPT ![o] = NotAsked]

-------------------------------------------------------------------------------
OnboardingInit ==
  /\ repository = NoRepository /\ lastId = 0
  /\ reports = {} /\ begun = 0 /\ tasksOf = {}
  /\ inspection = [i \in Inspectors |-> NotInspecting]
  /\ asked = [o \in Callers |-> NotAsked]

\* addRepository: a repository's name is unique.
AddRepository ==
  /\ repository = NoRepository /\ lastId < MaxRepositories
  /\ lastId' = lastId + 1
  /\ repository' = [id |-> lastId', status |-> "PENDING", enabled |-> FALSE]
  /\ UNCHANGED <<reports, begun, inspection, asked, tasksOf>>

\* registerCandidate of a repository that is there: its policy is replaced.
Reregister ==
  /\ repository # NoRepository
  /\ SetRow("PENDING", FALSE)
  /\ UNCHANGED <<lastId, reports, begun, inspection, asked, tasksOf>>

\* RepositoryRegistryService.inspect has looked at the checkout; inspected_at is
\* the time its transaction begins.
BeginInspection(i, safe) ==
  /\ inspection[i] = NotInspecting /\ repository # NoRepository
  /\ begun < MaxInspections
  /\ begun' = begun + 1
  /\ inspection' = [inspection EXCEPT ![i] = [of |-> repository.id, at |-> begun', safe |-> safe]]
  /\ UNCHANGED <<repository, lastId, reports, asked, tasksOf>>

CommitInspection(i) ==
  /\ inspection[i] # NotInspecting
  /\ IF Exists(inspection[i].of)
     THEN /\ reports' = reports \cup {inspection[i]}
          /\ SetRow(IF inspection[i].safe THEN "PENDING" ELSE "BLOCKED", FALSE)
     ELSE UNCHANGED <<reports, repository>>
  /\ inspection' = [inspection EXCEPT ![i] = NotInspecting]
  /\ UNCHANGED <<lastId, begun, asked, tasksOf>>

InspectionFails(i) ==
  /\ inspection[i] # NotInspecting
  /\ inspection' = [inspection EXCEPT ![i] = NotInspecting]
  /\ UNCHANGED <<repository, lastId, reports, begun, asked, tasksOf>>

\* RepositoryRegistryService.approve: a safe report of the repository, however old.
ApproveReport ==
  /\ \E r \in ReportsOf(repository.id) : r.safe
  /\ SetRow("APPROVED", TRUE)
  /\ UNCHANGED <<lastId, reports, begun, inspection, asked, tasksOf>>

-------------------------------------------------------------------------------
(* setRepositoryStatus and createTask.                                     *)

ReadRepository(o, what) ==
  /\ asked[o] = NotAsked /\ repository # NoRepository
  /\ what = "may create" => repository.enabled /\ repository.status = "APPROVED"
  /\ asked' = [asked EXCEPT ![o] = [at |-> what, of |-> repository.id]]
  /\ UNCHANGED <<repository, lastId, reports, begun, inspection, tasksOf>>

\* inspectRepository, or the count of the repository's tasks: the request goes on,
\* or ends in a ConflictError.
Check(o, what, passes, then) ==
  /\ asked[o].at = what
  /\ asked' = [asked EXCEPT ![o] = IF passes THEN [@ EXCEPT !.at = then] ELSE NotAsked]
  /\ UNCHANGED <<repository, lastId, reports, begun, inspection, tasksOf>>
CheckInspection(o) ==
  Check(o, "approve", SafeForWrites(asked[o].of), "may approve")
CountTasks(o) ==
  Check(o, "remove", asked[o].of \notin tasksOf, "may remove")

\* The UPDATE looks at nothing but the id.
WriteStatus(o) ==
  /\ asked[o].at \in {"may approve", "disable"}
  /\ IF Exists(asked[o].of)
     THEN IF asked[o].at = "disable" THEN SetRow("DISABLED", FALSE)
                                       ELSE SetRow("APPROVED", TRUE)
     ELSE UNCHANGED repository
  /\ EndAsked(o)
  /\ UNCHANGED <<lastId, reports, begun, inspection, tasksOf>>

\* Other tables' foreign keys refuse the DELETE of a repository in use.
DeleteRepository(o) ==
  /\ asked[o].at = "may remove"
  /\ repository' =
       IF Exists(asked[o].of) /\ ~Referenced(asked[o].of) THEN NoRepository ELSE repository
  /\ EndAsked(o)
  /\ UNCHANGED <<lastId, reports, begun, inspection, tasksOf>>

\* The INSERT of a task: its foreign key looks for the repository, not at it.
InsertTask(o) ==
  /\ asked[o].at = "may create"
  /\ tasksOf' = IF Exists(asked[o].of) THEN tasksOf \cup {asked[o].of} ELSE tasksOf
  /\ EndAsked(o)
  /\ UNCHANGED <<repository, lastId, reports, begun, inspection>>

\* A dry run, or a request that fails.
RequestEnds(o) ==
  /\ asked[o] # NotAsked
  /\ EndAsked(o)
  /\ UNCHANGED <<repository, lastId, reports, begun, inspection, tasksOf>>

OnboardingNext ==
  \/ AddRepository \/ Reregister \/ ApproveReport
  \/ \E i \in Inspectors :
       \/ \E safe \in BOOLEAN : BeginInspection(i, safe)
       \/ CommitInspection(i) \/ InspectionFails(i)
  \/ \E o \in Callers :
       \/ \E what \in {"approve", "disable", "remove", "may create"} : ReadRepository(o, what)
       \/ CheckInspection(o) \/ CountTasks(o) \/ WriteStatus(o) \/ DeleteRepository(o)
       \/ InsertTask(o) \/ RequestEnds(o)

OnboardingSpec == OnboardingInit /\ [][OnboardingNext]_onboardingVars

-------------------------------------------------------------------------------
(* Properties.                                                             *)

OnboardingTypeOK ==
  /\ repository \in RepositoryRow \cup {NoRepository}
  /\ repository.enabled => repository.status = "APPROVED"
  /\ lastId \in 0 .. MaxRepositories
  /\ reports \subseteq Reports
  /\ begun \in 0 .. MaxInspections
  /\ inspection \in [Inspectors -> Reports \cup {NotInspecting}]
  /\ asked \in [Callers -> AskedRow \cup {NotAsked}]
  /\ tasksOf \subseteq Ids

\* A repository that is enabled, or was when a task was created on it, is there and
\* has once been found safe for writes, whatever the order of the reads and writes
\* of approvals, inspections, removals and new tasks.
WorkIsOnInspected ==
  \A id \in Ids :
    id \in tasksOf \/ (repository.enabled /\ repository.id = id)
      => Exists(id) /\ \E r \in ReportsOf(id) : r.safe
===============================================================================
