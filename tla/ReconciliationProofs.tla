------------------------- MODULE ReconciliationProofs -------------------------
(***************************************************************************)
(* What holds of Reconciliation for any number of pull requests, rounds,   *)
(* events and moves by others. The facts a round carries grow old while it *)
(* works; the one that matters, that GitHub merged our head, does not      *)
(* (MergedOurs is stable), so a decision to mark a merge is as good when   *)
(* it is acted on as when it was made (JobOK). A round at its audit row    *)
(* has made the transition it is about to claim. And  what a round has in  *)
(* its list is older than the task where somebody touched that since, so   *)
(* the version it compares tells (ListsAreOld).                            *)
(***************************************************************************)
EXTENDS Reconciliation, TLAPS

USE ReconciliationAssumption

\* The table of transitions stays within the statuses.
LEMMA TransitionTypes ==
  ASSUME NEW from \in Status, NEW to \in Transitions[from]
  PROVE  to \in Status
BY DEF Status, Contracted, Terminal, Transitions, Withdrawn

\* MERGED is a target for the reconciler of GitHub alone.
LEMMA OthersDoNotMerge ==
  ASSUME NEW from, NEW to, NEW role \in OtherRole, MayMove(from, to, role, TRUE)
  PROVE  to # "MERGED"
<1> SUFFICES ASSUME to = "MERGED" PROVE FALSE
  OBVIOUS
<1>1. "MERGED" \in DOMAIN ActorsByTarget /\ ActorsByTarget["MERGED"] = {"GITHUB_RECONCILER"}
  BY DEF ActorsByTarget
<1>2. role \in {"GITHUB_RECONCILER", "OPERATOR"}
  BY <1>1 DEF MayMove
<1> QED BY <1>2 DEF OtherRole

\* A merge is decided on facts of a merged head of ours only.
LEMMA Decisions ==
  ASSUME NEW s \in Status \cup {"UNLISTED"}, NEW f \in Facts
  PROVE  /\ Decide(s, f) \in Decision
         /\ Decide(s, f) = "MARK_MERGED" => f.merged /\ f.ours
BY DEF Decide, Decision, Facts

\* Only that decision moves a task to MERGED,
LEMMA Targets ==
  ASSUME NEW d \in Acting
  PROVE  /\ TargetOf[d] \in Status
         /\ TargetOf[d] = "MERGED" => d = "MARK_MERGED"
BY DEF Acting, Decision, TargetOf, Status, Contracted

\* and only it writes MERGED into a pull request's row.
LEMMA RowTypes ==
  ASSUME NEW d \in Acting, NEW f \in Facts, NEW s \in PullState
  PROVE  /\ RowAfter(d, f, s) \in PullState
         /\ RowAfter(d, f, s) = "MERGED" => d = "MARK_MERGED" \/ s = "MERGED"
BY DEF RowAfter, PullState, Acting, Decision

\* The fields of a round's memory.
LEMMA JobRow ==
  ASSUME NEW r \in Job
  PROVE  /\ r.step \in {"off", "idle", "ask", "look", "act", "row", "audit"}
         /\ r.rows \in [Pulls -> Row] /\ r.at \in Pulls /\ r.decision \in Decision
         /\ r.facts \in Facts
BY DEF Job

\* A round that has not begun.
LEMMA IdleJobRow ==
  IdleJob \in Job /\ IdleJob.step = "idle" /\ IdleJob.at = 1
<1>1. Unlisted \in Row /\ Created \in Facts /\ 1 \in Pulls
  BY DEF Unlisted, Row, Created, Facts, Pulls
<1>2. "NOOP" \in Decision
  BY DEF Decision
<1> QED BY <1>1, <1>2 DEF IdleJob, Job

-------------------------------------------------------------------------------
\* The head Praxrail published was merged: for good, because a merged pull request is
\* neither pushed to nor reopened.
MergedOurs(p) == github[p].merged /\ github[p].ours

\* What a round that has asked GitHub relies on until it has written its audit row.
JobOK(j) ==
  /\ job[j].step \in {"look", "act", "row", "audit"} /\ job[j].decision = "MARK_MERGED"
       => MergedOurs(job[j].at)
  /\ job[j].step \in {"act", "row", "audit"} => job[j].decision \in Acting
  /\ job[j].step \in {"row", "audit"} => Key(j) \in done

Inv ==
  /\ TypeOK
  /\ \A p \in Pulls : github[p].merged => github[p].state = "CLOSED"
  /\ \A j \in Jobs : JobOK(j)
  /\ MergedIsTrue
  /\ AuditedWasDone

\* A round goes on with the row it is at,
Goes(j, step) ==
  /\ job' \in [Jobs -> Job]
  /\ job'[j].step = step /\ job'[j].at = job[j].at /\ job'[j].rows = job[j].rows
  /\ job'[j].decision = job[j].decision /\ job'[j].facts = job[j].facts
  /\ \A k \in Jobs \ {j} : job'[k] = job[k]
\* or leaves it.
Leaves(j) ==
  /\ job' \in [Jobs -> Job]
  /\ job'[j].step \in {"idle", "ask"}
  /\ \A k \in Jobs \ {j} : job'[k] = job[k]

\* Rows only ever leave the lists of the rounds.
RowsKeptOrDropped ==
  \A k \in Jobs, p \in Pulls : job'[k].rows[p] = job[k].rows[p] \/ job'[k].rows[p] = Unlisted

\* A new step of one round.
LEMMA GoDoes ==
  ASSUME TypeOK, NEW j \in Jobs, NEW s \in {"act", "row", "audit"},
         job' = [job EXCEPT ![j].step = s]
  PROVE  Goes(j, s)
<1> DEFINE row == [job[j] EXCEPT !.step = s]
<1>1. job \in [Jobs -> Job] /\ job[j] \in Job
  BY DEF TypeOK
<1>2. /\ row \in Job /\ row.step = s /\ row.at = job[j].at /\ row.rows = job[j].rows
      /\ row.decision = job[j].decision /\ row.facts = job[j].facts
  BY <1>1 DEF Job
<1>3. job' = [job EXCEPT ![j] = row]
  OBVIOUS
<1> HIDE DEF row
<1> QED BY <1>1, <1>2, <1>3 DEF Goes

\* The end of a round.
LEMMA IdleDoes ==
  ASSUME TypeOK, NEW j \in Jobs, job' = [job EXCEPT ![j] = IdleJob]
  PROVE  Leaves(j) /\ RowsKeptOrDropped
<1>1. job \in [Jobs -> Job] /\ \A p \in Pulls : IdleJob.rows[p] = Unlisted
  BY DEF TypeOK, IdleJob
<1>2. /\ job' \in [Jobs -> Job] /\ job'[j] = IdleJob
      /\ \A k \in Jobs \ {j} : job'[k] = job[k]
  BY <1>1, IdleJobRow
<1>3. Leaves(j)
  BY <1>2, IdleJobRow DEF Leaves
<1>4. RowsKeptOrDropped
  BY <1>1, <1>2 DEF RowsKeptOrDropped
<1> QED BY <1>3, <1>4

\* The next row, or the end.
LEMMA TurnOverDoes ==
  ASSUME TypeOK, NEW j \in Jobs, TurnOver(j)
  PROVE  Leaves(j) /\ RowsKeptOrDropped
<1> DEFINE p == job[j].at
           rows == [job[j].rows EXCEPT ![p] = Unlisted]
           row == [IdleJob EXCEPT !.step = "ask", !.at = p + 1, !.rows = rows]
<1>1. job[j] \in Job /\ p \in Pulls /\ job[j].rows \in [Pulls -> Row]
  BY JobRow DEF TypeOK
<1>2. CASE p = PullCount
  BY <1>2, IdleDoes DEF TurnOver
<1>3. CASE p # PullCount
  <2>1. job' = [job EXCEPT ![j] = row]
    BY <1>3 DEF TurnOver
  <2>2. p + 1 \in Pulls
    BY <1>1, <1>3 DEF Pulls
  <2>3. /\ rows \in [Pulls -> Row]
        /\ \A q \in Pulls : rows[q] = job[j].rows[q] \/ rows[q] = Unlisted
    BY <1>1 DEF Unlisted, Row
  <2> HIDE DEF p, rows
  <2>4. row \in Job /\ row.step = "ask" /\ row.rows = rows
    BY <2>2, <2>3, IdleJobRow DEF Job
  <2> HIDE DEF row
  <2>5. /\ job' \in [Jobs -> Job] /\ job'[j] = row
        /\ \A k \in Jobs \ {j} : job'[k] = job[k]
    BY <2>1, <2>4 DEF TypeOK
  <2>6. Leaves(j)
    BY <2>4, <2>5 DEF Leaves
  <2>7. RowsKeptOrDropped
    BY <2>3, <2>4, <2>5 DEF RowsKeptOrDropped
  <2> QED BY <2>6, <2>7
<1> QED BY <1>2, <1>3

\* Who is told of a touch, and what of.
LEMMA TouchTypes ==
  ASSUME TypeOK, NEW p \in Pulls, Touch(p)
  PROVE  touched' \in [Jobs -> SUBSET Pulls]
BY DEF TypeOK, Touch

-------------------------------------------------------------------------------
\* Whatever happens at GitHub, a merged head of ours stays one.
LEMMA OutsideSteps ==
  ASSUME Inv, NEW p \in Pulls,
         \/ \E checks \in {"PENDING", "PASSED", "FAILED"} : ChecksReport(p, checks)
         \/ PushHead(p) \/ Merge(p) \/ ClosePull(p) \/ Reopen(p)
  PROVE  Inv'
<1>1. TypeOK /\ github[p] \in Facts /\ github \in [Pulls -> Facts] /\ events \in 0..MaxEvents
  BY DEF Inv, TypeOK
<1>2. github[p].merged => github[p].state = "CLOSED"
  BY DEF Inv
<1>3. PICK f \in Facts :
        /\ Happens(p, f)
        /\ f.merged => f.state = "CLOSED"
        /\ MergedOurs(p) => f.merged /\ f.ours
  <2>1. ASSUME NEW checks \in {"PENDING", "PASSED", "FAILED"}, ChecksReport(p, checks)
        PROVE  \E f \in Facts : /\ Happens(p, f)
                                /\ f.merged => f.state = "CLOSED"
                                /\ MergedOurs(p) => f.merged /\ f.ours
    <3> DEFINE f == [github[p] EXCEPT !.checks = checks]
    <3>1. /\ f \in Facts /\ f.merged = github[p].merged
          /\ f.state = github[p].state /\ f.ours = github[p].ours
      BY <1>1 DEF Facts
    <3>2. Happens(p, f)
      BY <2>1 DEF ChecksReport
    <3> HIDE DEF f
    <3> QED BY <1>2, <3>1, <3>2 DEF MergedOurs
  <2>2. CASE PushHead(p)
    <3> DEFINE f == [github[p] EXCEPT !.ours = ~github[p].ours, !.checks = "PENDING"]
    <3>1. f \in Facts /\ f.merged = github[p].merged /\ f.state = github[p].state
      BY <1>1 DEF Facts
    <3>2. Happens(p, f) /\ github[p].state = "OPEN"
      BY <2>2 DEF PushHead
    <3> HIDE DEF f
    <3> QED BY <1>2, <3>1, <3>2 DEF MergedOurs
  <2>3. CASE Merge(p)
    <3> DEFINE f == [github[p] EXCEPT !.state = "CLOSED", !.merged = TRUE]
    <3>1. f \in Facts /\ f.merged /\ f.state = "CLOSED" /\ f.ours = github[p].ours
      BY <1>1 DEF Facts
    <3>2. Happens(p, f)
      BY <2>3 DEF Merge
    <3> HIDE DEF f
    <3> QED BY <3>1, <3>2 DEF MergedOurs
  <2>4. CASE ClosePull(p)
    <3> DEFINE f == [github[p] EXCEPT !.state = "CLOSED"]
    <3>1. /\ f \in Facts /\ f.merged = github[p].merged
          /\ f.state = "CLOSED" /\ f.ours = github[p].ours
      BY <1>1 DEF Facts
    <3>2. Happens(p, f)
      BY <2>4 DEF ClosePull
    <3> HIDE DEF f
    <3> QED BY <3>1, <3>2 DEF MergedOurs
  <2>5. CASE Reopen(p)
    <3> DEFINE f == [github[p] EXCEPT !.state = "OPEN"]
    <3>1. f \in Facts /\ f.merged = github[p].merged
      BY <1>1 DEF Facts
    <3>2. Happens(p, f) /\ ~github[p].merged
      BY <2>5 DEF Reopen
    <3> HIDE DEF f
    <3> QED BY <3>1, <3>2 DEF MergedOurs
  <2> QED BY <2>1, <2>2, <2>3, <2>4, <2>5
<1>4. /\ github' = [github EXCEPT ![p] = f] /\ events' = events + 1 /\ events < MaxEvents
      /\ UNCHANGED <<task, pull, audited, done, touched, moves, job, crashes>>
  BY <1>3 DEF Happens, tables
<1>5. /\ github' \in [Pulls -> Facts] /\ github'[p] = f
      /\ \A q \in Pulls \ {p} : github'[q] = github[q]
  BY <1>1, <1>4
<1>6. TypeOK'
  BY <1>1, <1>4, <1>5 DEF TypeOK
<1>7. \A q \in Pulls : MergedOurs(q) => MergedOurs(q)'
  BY <1>3, <1>5 DEF MergedOurs
<1>8. ASSUME NEW j \in Jobs PROVE JobOK(j)'
  <2>1. job[j].at \in Pulls
    BY JobRow DEF Inv, TypeOK
  <2> QED BY <1>4, <1>7, <2>1 DEF Inv, JobOK, Key, MergedOurs
<1>9. MergedIsTrue'
  BY <1>4, <1>7 DEF Inv, MergedIsTrue, MergedOurs
<1>10. \A q \in Pulls : github'[q].merged => github'[q].state = "CLOSED"
  BY <1>3, <1>5 DEF Inv
<1> QED BY <1>4, <1>6, <1>8, <1>9, <1>10 DEF Inv, AuditedWasDone

\* Whoever else moves or changes a task, it is not to MERGED.
LEMMA TaskSteps ==
  ASSUME Inv, NEW p \in Pulls,
         \/ \E to \in Transitions[task[p].status], role \in OtherRole : MoveTask(p, to, role)
         \/ ChangeTask(p)
  PROVE  Inv'
<1>1. /\ TypeOK /\ task \in [Pulls -> [status : Status, version : Nat]]
      /\ task[p].status \in Status /\ task[p].version \in Nat
  BY DEF Inv, TypeOK
<1>2. PICK s \in Status :
        /\ task' = [task EXCEPT ![p] = [status |-> s, version |-> task[p].version + 1]]
        /\ s = "MERGED" => task[p].status = "MERGED"
        /\ moves' = moves + 1 /\ moves < MaxMoves
        /\ UNCHANGED <<pull, audited, done, github, events, job, crashes>>
  <2>1. ASSUME NEW to \in Transitions[task[p].status], NEW role \in OtherRole, MoveTask(p, to,
               role)
        PROVE  to \in Status /\ to # "MERGED"
    BY <1>1, <2>1, TransitionTypes, OthersDoNotMerge DEF MoveTask
  <2>2. CASE ChangeTask(p)
    <3>1. [task[p] EXCEPT !.version = task[p].version + 1] =
            [status |-> task[p].status, version |-> task[p].version + 1]
      BY <1>1
    <3> QED BY <1>1, <2>2, <3>1 DEF ChangeTask
  <2> QED BY <2>1, <2>2 DEF MoveTask
<1>3. /\ task' \in [Pulls -> [status : Status, version : Nat]]
      /\ \A q \in Pulls : task'[q].status = "MERGED" => task[q].status = "MERGED"
  BY <1>1, <1>2
<1>6. touched' \in [Jobs -> SUBSET Pulls]
  BY <1>1, TouchTypes DEF MoveTask, ChangeTask
<1>4. TypeOK'
  BY <1>1, <1>2, <1>3, <1>6 DEF TypeOK
<1>5. MergedIsTrue'
  BY <1>2, <1>3 DEF Inv, MergedIsTrue
<1> QED BY <1>2, <1>4, <1>5 DEF Inv, JobOK, Key, MergedOurs, AuditedWasDone

-------------------------------------------------------------------------------
\* The steps of a round and its crash.
LEMMA RoundSteps ==
  ASSUME Inv, NEW j \in Jobs, RoundStep(j) \/ Crash(j)
  PROVE  Inv'
<1>a. /\ TypeOK /\ MergedIsTrue /\ AuditedWasDone /\ \A k \in Jobs : JobOK(k)
      /\ job \in [Jobs -> Job] /\ job[j].at \in Pulls /\ job[j].facts \in Facts
  BY JobRow DEF Inv, TypeOK
<1>b. github' = github /\ events' = events /\ moves' = moves
  BY DEF RoundStep, ListOpenPullRequests, SkipUnlisted, AskGitHub, LookForAudit, Act,
         UpdatePullRequest, WriteAudit, Crash, outside
<1>c. \A p \in Pulls : MergedOurs(p)' <=> MergedOurs(p)
  BY <1>b DEF MergedOurs
\* What is left to show when the tables are not touched, or grow.
<1>1. ASSUME \A k \in Jobs \ {j} : job'[k] = job[k], JobOK(j)', job' \in [Jobs -> Job],
             task' = task, pull' = pull, done' = done, audited' = audited,
             touched' \in [Jobs -> SUBSET Pulls], crashes' \in 0..MaxCrashes
      PROVE  Inv'
  <2>1. TypeOK'
    BY <1>a, <1>b, <1>1 DEF TypeOK
  <2>2. ASSUME NEW k \in Jobs PROVE JobOK(k)'
    BY <1>a, <1>b, <1>1 DEF JobOK, Key, MergedOurs
  <2> QED BY <1>b, <1>1, <2>1, <2>2 DEF Inv, MergedIsTrue, AuditedWasDone
<1>2. ASSUME Leaves(j), task' = task, pull' = pull, done' = done, audited' = audited,
             touched' \in [Jobs -> SUBSET Pulls], crashes' \in 0..MaxCrashes
      PROVE  Inv'
  <2>1. JobOK(j)'
    BY <1>2 DEF Leaves, JobOK
  <2> QED BY <1>1, <1>2, <2>1 DEF Leaves
<1>d. crashes \in 0..MaxCrashes /\ touched \in [Jobs -> SUBSET Pulls]
  BY <1>a DEF TypeOK
<1>3. CASE ListOpenPullRequests(j)
  <2> DEFINE rows == [p \in Pulls |->
         IF pull[p] = "OPEN" THEN [status |-> task[p].status, version |-> task[p].version]
         ELSE Unlisted]
             row == [IdleJob EXCEPT !.step = "ask", !.rows = rows]
  <2>1. job' = [job EXCEPT ![j] = row]
    BY <1>3 DEF ListOpenPullRequests
  <2>2. rows \in [Pulls -> Row]
    BY <1>a DEF Unlisted, Row, TypeOK
  <2> HIDE DEF rows
  <2>3. row \in Job /\ row.step = "ask"
    BY <2>2, IdleJobRow DEF Job
  <2> HIDE DEF row
  <2>4. Leaves(j)
    BY <1>a, <2>1, <2>3 DEF Leaves
  <2>5. touched' \in [Jobs -> SUBSET Pulls]
    BY <1>3, <1>d DEF ListOpenPullRequests
  <2> QED BY <1>2, <1>3, <1>d, <2>4, <2>5 DEF ListOpenPullRequests
<1>4. CASE SkipUnlisted(j)
  BY <1>2, <1>4, <1>a, <1>d, TurnOverDoes DEF SkipUnlisted, tables
<1>5. CASE AskGitHub(j)
  <2> DEFINE p == job[j].at
             d == Decide(job[j].rows[p].status, github[p])
             row == [job[j] EXCEPT !.step = "look", !.facts = github[p], !.decision = d]
  <2>1. github[p] \in Facts /\ job[j].rows[p].status \in Status \cup {"UNLISTED"} /\ job[j] \in Job
    <3>1. job[j].rows[p] \in Row
      BY <1>a, JobRow
    <3> QED BY <1>a, <3>1 DEF TypeOK, Row
  <2>2. d \in Decision /\ (d = "MARK_MERGED" => MergedOurs(p))
    BY <2>1, Decisions DEF MergedOurs
  <2>3. job' = [job EXCEPT ![j] = row]
    BY <1>5 DEF AskGitHub
  <2> HIDE DEF d
  <2>4. row \in Job /\ row.step = "look" /\ row.at = p /\ row.decision = d
    BY <2>1, <2>2 DEF Job
  <2> HIDE DEF row
  <2>5. job' \in [Jobs -> Job] /\ job'[j] = row /\ \A k \in Jobs \ {j} : job'[k] = job[k]
    BY <1>a, <2>3, <2>4
  <2>6. JobOK(j)'
    BY <1>b, <2>2, <2>4, <2>5 DEF JobOK, MergedOurs
  <2> QED BY <1>1, <1>5, <1>d, <2>5, <2>6 DEF AskGitHub, tables
<1>6. CASE LookForAudit(j)
  <2>1. UNCHANGED <<task, pull, done, audited, touched, crashes>>
    BY <1>6 DEF LookForAudit, tables
  <2>2. CASE job[j].decision \in Acting /\ Key(j) \notin audited
    <3>1. Goes(j, "act") /\ job[j].step = "look"
      BY <1>a, <1>6, <2>2, GoDoes DEF LookForAudit, At
    <3>2. JobOK(j)'
      BY <1>a, <1>b, <2>2, <3>1 DEF JobOK, Goes, MergedOurs
    <3> QED BY <1>1, <1>d, <2>1, <3>1, <3>2 DEF Goes
  <2>3. CASE ~(job[j].decision \in Acting /\ Key(j) \notin audited)
    BY <1>2, <1>6, <1>a, <1>d, <2>1, <2>3, TurnOverDoes DEF LookForAudit
  <2> QED BY <2>2, <2>3
<1>7. CASE Act(j)
  <2>0. job[j].step = "act" /\ UNCHANGED <<pull, audited, crashes>>
    BY <1>7 DEF Act, At
  <2>1. CASE Accepted(j)
    <3> DEFINE p == job[j].at
               s == TargetOf[job[j].decision]
    <3>1. /\ task' = [task EXCEPT ![p] = [status |-> s, version |-> task[p].version + 1]]
          /\ done' = done \cup {Key(j)}
          /\ Goes(j, "row")
      BY <1>7, <1>a, <2>1, GoDoes DEF Act
    <3>2. job[j].decision \in Acting /\ s \in Status /\ (s = "MERGED" => MergedOurs(p))
      BY <1>a, <2>0, Targets DEF JobOK
    <3>3. Key(j) \in Pulls \X Acting \X Facts
      BY <1>a, <3>2 DEF Key
    <3>4. Key(j)' = Key(j)
      BY <3>1 DEF Goes, Key
    <3> HIDE DEF s
    <3>5. task[p].version + 1 \in Nat
      BY <1>a DEF TypeOK
    <3>6. /\ task' \in [Pulls -> [status : Status, version : Nat]]
          /\ \A q \in Pulls : task'[q].status = "MERGED" =>
                                task[q].status = "MERGED" \/ MergedOurs(q)
      BY <1>a, <3>1, <3>2, <3>5 DEF TypeOK
    <3>10. touched' \in [Jobs -> SUBSET Pulls]
      BY <1>7, <1>a, <2>1, TouchTypes DEF Act
    <3>7. TypeOK'
      BY <1>a, <1>b, <2>0, <3>1, <3>3, <3>6, <3>10 DEF TypeOK, Goes
    <3>8. MergedIsTrue'
      BY <1>a, <1>b, <2>0, <3>6 DEF MergedIsTrue, MergedOurs
    <3>9. ASSUME NEW k \in Jobs PROVE JobOK(k)'
      <4>1. CASE k = j
        BY <1>a, <1>b, <2>0, <3>1, <3>2, <3>4, <4>1 DEF JobOK, Goes, MergedOurs
      <4>2. CASE k # j
        BY <1>a, <1>b, <3>1, <4>2 DEF JobOK, Goes, MergedOurs, Key
      <4> QED BY <4>1, <4>2
    <3> QED BY <1>a, <1>b, <2>0, <3>1, <3>7, <3>8, <3>9 DEF Inv, AuditedWasDone
  <2>2. CASE ~Accepted(j)
    BY <1>2, <1>7, <1>a, <1>d, <2>0, <2>2, IdleDoes DEF Act
  <2> QED BY <2>1, <2>2
<1>8. CASE UpdatePullRequest(j)
  <2> DEFINE p == job[j].at
             s == RowAfter(job[j].decision, job[j].facts, pull[p])
  <2>1. /\ job[j].step = "row" /\ pull' = [pull EXCEPT ![p] = s] /\ Goes(j, "audit")
        /\ UNCHANGED <<task, audited, done, touched, crashes>>
    BY <1>8, <1>a, GoDoes DEF UpdatePullRequest, At
  <2>2. /\ job[j].decision \in Acting /\ Key(j) \in done
        /\ job[j].decision = "MARK_MERGED" => MergedOurs(p)
    BY <1>a, <2>1 DEF JobOK
  <2>3. s \in PullState /\ (s = "MERGED" => MergedOurs(p) \/ pull[p] = "MERGED")
    BY <1>a, <2>2, RowTypes DEF TypeOK
  <2> HIDE DEF s
  <2>4. /\ pull' \in [Pulls -> PullState]
        /\ \A q \in Pulls : pull'[q] = "MERGED" => MergedOurs(q) \/ pull[q] = "MERGED"
    BY <1>a, <2>1, <2>3 DEF TypeOK
  <2>5. TypeOK'
    BY <1>a, <1>b, <2>1, <2>4 DEF TypeOK, Goes
  <2>6. MergedIsTrue'
    BY <1>a, <1>b, <2>1, <2>4 DEF MergedIsTrue, MergedOurs
  <2>7. ASSUME NEW k \in Jobs PROVE JobOK(k)'
    BY <1>a, <1>b, <2>1, <2>2 DEF JobOK, Goes, Key, MergedOurs
  <2> QED BY <1>a, <1>b, <2>1, <2>5, <2>6, <2>7 DEF Inv, AuditedWasDone
<1>9. CASE WriteAudit(j)
  <2>1. /\ job[j].step = "audit" /\ audited' = audited \cup {Key(j)} /\ Leaves(j)
        /\ UNCHANGED <<task, pull, done, touched, crashes>>
    BY <1>9, <1>a, TurnOverDoes DEF WriteAudit, At
  <2>2. Key(j) \in done
    BY <1>a, <2>1 DEF JobOK
  <2>3. audited' \subseteq done
    BY <1>a, <2>1, <2>2 DEF AuditedWasDone
  <2>4. TypeOK'
    BY <1>a, <1>b, <2>1, <2>3 DEF TypeOK, Leaves
  <2>5. ASSUME NEW k \in Jobs PROVE JobOK(k)'
    BY <1>a, <1>b, <2>1 DEF JobOK, Leaves, Key, MergedOurs
  <2> QED BY <1>a, <1>b, <2>1, <2>3, <2>4, <2>5 DEF Inv, AuditedWasDone, MergedIsTrue
<1>10. CASE Crash(j)
  <2>1. crashes' \in 0..MaxCrashes
    BY <1>10, <1>d DEF Crash
  <2> QED BY <1>2, <1>10, <1>a, <1>d, <2>1, IdleDoes DEF Crash, tables
<1> QED BY <1>3, <1>4, <1>5, <1>6, <1>7, <1>8, <1>9, <1>10 DEF RoundStep

\* Nothing is merged or audited at first.
LEMMA InitInv == Init => Inv
<1> SUFFICES ASSUME Init PROVE Inv
  OBVIOUS
<1>1. Created \in Facts /\ ~Created.merged
  BY DEF Created, Facts
<1>2. github \in [Pulls -> Facts] /\ \A p \in Pulls : ~github[p].merged
  BY <1>1 DEF Init
<1>3. pull \in [Pulls -> PullState] /\ \A p \in Pulls : pull[p] # "MERGED"
  BY DEF Init, PullState
<1>4. /\ task \in [Pulls -> [status : Status, version : Nat]]
      /\ \A p \in Pulls : task[p].status # "MERGED"
  BY DEF Init, Status, Contracted
<1>5. job \in [Jobs -> Job] /\ \A j \in Jobs : job[j].step \in {"idle", "off"}
  <2>1. [IdleJob EXCEPT !.step = "off"] \in Job /\ [IdleJob EXCEPT !.step = "off"].step = "off"
    BY IdleJobRow DEF Job
  <2> HIDE DEF IdleJob
  <2>2. \A j \in Jobs : job[j] \in {IdleJob, [IdleJob EXCEPT !.step = "off"]}
    BY DEF Init
  <2> QED BY <2>1, <2>2, IdleJobRow DEF Init
<1>6. TypeOK
  BY <1>2, <1>3, <1>4, <1>5 DEF Init, TypeOK
<1>7. \A j \in Jobs : JobOK(j)
  BY <1>5 DEF JobOK
<1> QED BY <1>2, <1>3, <1>4, <1>6, <1>7 DEF Inv, Init, MergedIsTrue, AuditedWasDone

\* The invariant is inductive.
LEMMA StepInv == Inv /\ [Next]_vars => Inv'
<1> SUFFICES ASSUME Inv, [Next]_vars PROVE Inv'
  OBVIOUS
<1>1. CASE UNCHANGED vars
  BY <1>1 DEF vars, Inv, TypeOK, JobOK, Key, MergedOurs, MergedIsTrue, AuditedWasDone
<1> QED BY <1>1, OutsideSteps, TaskSteps, RoundSteps DEF Next

\* Only Act moves a round from act to row.
LEMMA ActedOnReading ==
  ASSUME Inv, [Next]_vars, NEW j \in Jobs, At(j, "act"), job'[j].step = "row"
  PROVE  task[job[j].at].version = job[j].rows[job[j].at].version
<1>1. TypeOK /\ job[j].step = "act" /\ job' # job
  BY DEF At, Inv
<1>2. PICK k \in Jobs : RoundStep(k) \/ Crash(k)
  BY <1>1 DEF Next, vars, ChecksReport, PushHead, Merge, ClosePull, Reopen, Happens, MoveTask,
         ChangeTask
<1>4. k = j
  <2> SUFFICES ASSUME k # j PROVE FALSE
    OBVIOUS
  <2>1. job \in [Jobs -> Job]
    BY <1>1 DEF TypeOK
  <2>2. TurnOver(k) => job'[j] = job[j]
    BY <1>1, TurnOverDoes DEF Leaves
  <2>3. ASSUME SkipUnlisted(k) \/ LookForAudit(k) \/ WriteAudit(k) PROVE job'[j] = job[j]
    BY <2>1, <2>2, <2>3 DEF SkipUnlisted, LookForAudit, WriteAudit
  <2>4. ASSUME ListOpenPullRequests(k) \/ Crash(k) PROVE job'[j] = job[j]
    BY <2>1, <2>4 DEF ListOpenPullRequests, Crash
  <2>5. ASSUME AskGitHub(k) PROVE job'[j] = job[j]
    BY <2>1, <2>5 DEF AskGitHub
  <2>6. ASSUME Act(k) \/ UpdatePullRequest(k) PROVE job'[j] = job[j]
    BY <2>1, <2>6 DEF Act, UpdatePullRequest
  <2>7. job'[j] = job[j]
    BY <1>2, <2>3, <2>4, <2>5, <2>6 DEF RoundStep
  <2> QED BY <1>1, <2>7
<1>5. Act(j)
  <2>1. ~Crash(j)
    BY <1>1, IdleDoes DEF Crash, Leaves
  <2> QED BY <1>1, <1>2, <1>4, <2>1 DEF RoundStep, ListOpenPullRequests, SkipUnlisted, AskGitHub,
         LookForAudit, UpdatePullRequest, WriteAudit, At
<1>6. Accepted(j)
  BY <1>1, <1>5, IdleDoes DEF Act, Leaves
<1> QED BY <1>6 DEF Accepted

-------------------------------------------------------------------------------
\* What a round has in its list is no newer than the task, and older where the
\* task was touched since: versions only grow. A row off the list has version 0.
ListsAreOld ==
  \A j \in Jobs, p \in Pulls :
    /\ job[j].rows[p].version \leq task[p].version
    /\ p \in touched[j] => job[j].rows[p].version < task[p].version

\* The versions are numbers.
LEMMA Versions ==
  ASSUME TypeOK, NEW j \in Jobs, NEW p \in Pulls
  PROVE  /\ job[j].rows[p].version \in Nat /\ task[p].version \in Nat
         /\ Unlisted.version = 0
<1>1. job[j].rows \in [Pulls -> Row] /\ task[p] \in [status : Status, version : Nat]
  BY JobRow DEF TypeOK
<1> QED BY <1>1 DEF Row, Unlisted

\* No list, nothing touched.
LEMMA InitLists == Init => ListsAreOld
<1> SUFFICES ASSUME Init, NEW j \in Jobs, NEW p \in Pulls
             PROVE  /\ job[j].rows[p].version \leq task[p].version
                    /\ p \notin touched[j]
  BY DEF ListsAreOld
<1>1. IdleJob.rows[p] = Unlisted /\ [IdleJob EXCEPT !.step = "off"].rows[p] = Unlisted
  BY DEF IdleJob
<1>2. job[j].rows[p] = Unlisted
  BY <1>1 DEF Init
<1>3. Inv /\ touched[j] = {}
  BY InitInv DEF Init
<1> QED BY <1>2, <1>3, Versions DEF Inv

\* The list of a round that asks GitHub stays.
LEMMA AskingKeepsRows ==
  ASSUME TypeOK, NEW j \in Jobs, AskGitHub(j)
  PROVE  RowsKeptOrDropped
<1> DEFINE p == job[j].at
           d == Decide(job[j].rows[p].status, github[p])
           row == [job[j] EXCEPT !.step = "look", !.facts = github[p], !.decision = d]
<1>1. job' = [job EXCEPT ![j] = row]
  BY DEF AskGitHub
<1>2. job[j] \in Job /\ job \in [Jobs -> Job]
  BY DEF TypeOK
<1>3. row.rows = job[j].rows
  BY <1>2 DEF Job
<1> HIDE DEF row
<1> QED BY <1>1, <1>2, <1>3 DEF RowsKeptOrDropped

\* Rows that stay or go, of tasks nobody touches, are as old as before.
LEMMA DroppedRows ==
  ASSUME Inv, Inv', ListsAreOld, RowsKeptOrDropped, task' = task, touched' = touched
  PROVE  ListsAreOld'
<1> SUFFICES ASSUME NEW j \in Jobs, NEW p \in Pulls
             PROVE  /\ job'[j].rows[p].version \leq task'[p].version
                    /\ p \in touched'[j] => job'[j].rows[p].version < task'[p].version
  BY DEF ListsAreOld
<1>1. job'[j].rows[p] = job[j].rows[p] \/ job'[j].rows[p] = Unlisted
  BY DEF RowsKeptOrDropped
<1> QED BY <1>1, Versions DEF Inv, ListsAreOld

\* A touch makes the task newer than every list it is in.
LEMMA TouchedRows ==
  ASSUME Inv, ListsAreOld, NEW p \in Pulls, Touch(p),
         \A j \in Jobs, q \in Pulls : job'[j].rows[q] = job[j].rows[q],
         task' \in [Pulls -> [status : Status, version : Nat]],
         task'[p].version = task[p].version + 1,
         \A q \in Pulls \ {p} : task'[q] = task[q]
  PROVE  ListsAreOld'
<1> SUFFICES ASSUME NEW j \in Jobs, NEW q \in Pulls
             PROVE  /\ job[j].rows[q].version \leq task'[q].version
                    /\ q \in touched'[j] => job[j].rows[q].version < task'[q].version
  BY DEF ListsAreOld
<1>1. /\ job[j].rows[q].version \in Nat /\ task[q].version \in Nat
      /\ job[j].rows[q].version \leq task[q].version
      /\ q \in touched[j] => job[j].rows[q].version < task[q].version
  BY Versions DEF Inv, ListsAreOld
<1>2. touched'[j] \subseteq touched[j] \cup {p}
  BY DEF Touch
<1>3. CASE q = p
  BY <1>1, <1>3
<1>4. CASE q # p
  BY <1>1, <1>2, <1>4
<1> QED BY <1>3, <1>4

\* The lists stay old.
LEMMA StepLists == Inv /\ ListsAreOld /\ [Next]_vars => ListsAreOld'
<1> SUFFICES ASSUME Inv, ListsAreOld, [Next]_vars PROVE ListsAreOld'
  OBVIOUS
<1>a. /\ Inv' /\ TypeOK /\ job \in [Jobs -> Job]
      /\ task \in [Pulls -> [status : Status, version : Nat]]
  BY StepInv DEF Inv, TypeOK
<1>1. ASSUME UNCHANGED <<job, task, touched>> PROVE ListsAreOld'
  BY <1>1 DEF ListsAreOld
<1>2. CASE UNCHANGED vars
  BY <1>1, <1>2 DEF vars
<1>3. ASSUME NEW p \in Pulls,
             \/ \E checks \in {"PENDING", "PASSED", "FAILED"} : ChecksReport(p, checks)
             \/ PushHead(p) \/ Merge(p) \/ ClosePull(p) \/ Reopen(p)
      PROVE  ListsAreOld'
  BY <1>1, <1>3 DEF ChecksReport, PushHead, Merge, ClosePull, Reopen, Happens, tables
<1>4. ASSUME NEW p \in Pulls, NEW to \in Transitions[task[p].status], NEW role \in OtherRole,
             MoveTask(p, to, role)
      PROVE  ListsAreOld'
  <2>1. /\ task' = [task EXCEPT ![p] = [status |-> to, version |-> task[p].version + 1]]
        /\ Touch(p) /\ job' = job /\ to \in Status
    BY <1>a, <1>4, TransitionTypes DEF MoveTask
  <2> QED BY <1>a, <2>1, TouchedRows
<1>5. ASSUME NEW p \in Pulls, ChangeTask(p) PROVE ListsAreOld'
  <2>1. /\ task' = [task EXCEPT ![p].version = task[p].version + 1]
        /\ Touch(p) /\ job' = job
    BY <1>5 DEF ChangeTask
  <2>2. /\ task' \in [Pulls -> [status : Status, version : Nat]]
        /\ task'[p].version = task[p].version + 1
        /\ \A q \in Pulls \ {p} : task'[q] = task[q]
    BY <1>a, <2>1 DEF Inv, TypeOK
  <2> QED BY <2>1, <2>2, TouchedRows
<1>6. ASSUME NEW j \in Jobs, RoundStep(j) \/ Crash(j) PROVE ListsAreOld'
  <2>1. ASSUME RowsKeptOrDropped, task' = task, touched' = touched PROVE ListsAreOld'
    BY <1>a, <2>1, DroppedRows
  <2>2. ASSUME NEW s \in {"act", "row", "audit"}, Goes(j, s) PROVE RowsKeptOrDropped
    BY <2>2 DEF Goes, RowsKeptOrDropped
  <2>3. CASE ListOpenPullRequests(j)
    <3> DEFINE rows == [p \in Pulls |->
           IF pull[p] = "OPEN" THEN [status |-> task[p].status, version |-> task[p].version]
           ELSE Unlisted]
               row == [IdleJob EXCEPT !.step = "ask", !.rows = rows]
    <3>1. job' = [job EXCEPT ![j] = row] /\ touched' = [touched EXCEPT ![j] = {}] /\ task' = task
      BY <2>3 DEF ListOpenPullRequests
    <3>2. row.rows = rows
      BY DEF IdleJob
    <3> HIDE DEF row
    <3>3. /\ job'[j].rows = rows /\ touched'[j] = {}
          /\ \A k \in Jobs \ {j} : job'[k] = job[k] /\ touched'[k] = touched[k]
      BY <1>a, <3>1, <3>2 DEF TypeOK
    <3>4. ASSUME NEW p \in Pulls PROVE rows[p].version \leq task[p].version
      <4>1. rows[p].version \in {task[p].version, 0} /\ task[p].version \in Nat
        BY <1>a, Versions DEF TypeOK, Unlisted
      <4> QED BY <4>1
    <3> HIDE DEF rows
    <3>5. ASSUME NEW k \in Jobs, NEW p \in Pulls
          PROVE  /\ job'[k].rows[p].version \leq task'[p].version
                 /\ p \in touched'[k] => job'[k].rows[p].version < task'[p].version
      BY <3>1, <3>3, <3>4, <3>5 DEF ListsAreOld
    <3> QED BY <3>5 DEF ListsAreOld
  <2>4. CASE SkipUnlisted(j)
    BY <1>a, <2>1, <2>4, TurnOverDoes DEF SkipUnlisted, tables
  <2>5. CASE AskGitHub(j)
    <3>1. RowsKeptOrDropped
      BY <1>a, <2>5, AskingKeepsRows
    <3> QED BY <2>1, <2>5, <3>1 DEF AskGitHub, tables
  <2>6. CASE LookForAudit(j)
    <3>1. task' = task /\ touched' = touched
      BY <2>6 DEF LookForAudit, tables
    <3>2. Goes(j, "act") \/ RowsKeptOrDropped
      BY <1>a, <2>6, GoDoes, TurnOverDoes DEF LookForAudit
    <3> QED BY <2>1, <2>2, <3>1, <3>2
  <2>7. CASE Act(j)
    <3>1. CASE Accepted(j)
      <4> DEFINE p == job[j].at
                 s == TargetOf[job[j].decision]
      <4>1. /\ task' = [task EXCEPT ![p] = [status |-> s, version |-> task[p].version + 1]]
            /\ Touch(p) /\ Goes(j, "row")
        BY <1>a, <2>7, <3>1, GoDoes DEF Act
      <4>2. p \in Pulls /\ task' \in [Pulls -> [status : Status, version : Nat]]
        BY <1>a, JobRow DEF Inv, TypeOK
      <4> HIDE DEF p, s
      <4>3. /\ task'[p].version = task[p].version + 1
            /\ \A q \in Pulls \ {p} : task'[q] = task[q]
        BY <1>a, <4>1, <4>2
      <4>4. \A k \in Jobs, q \in Pulls : job'[k].rows[q] = job[k].rows[q]
        BY <4>1 DEF Goes
      <4> QED BY <4>1, <4>2, <4>3, <4>4, TouchedRows
    <3>2. CASE ~Accepted(j)
      BY <1>a, <2>1, <2>7, <3>2, IdleDoes DEF Act
    <3> QED BY <3>1, <3>2
  <2>8. CASE UpdatePullRequest(j)
    BY <1>a, <2>1, <2>2, <2>8, GoDoes DEF UpdatePullRequest
  <2>9. CASE WriteAudit(j)
    BY <1>a, <2>1, <2>9, TurnOverDoes DEF WriteAudit
  <2>10. CASE Crash(j)
    BY <1>a, <2>1, <2>10, IdleDoes DEF Crash, tables
  <2> QED BY <1>6, <2>3, <2>4, <2>5, <2>6, <2>7, <2>8, <2>9, <2>10 DEF RoundStep
<1> QED BY <1>2, <1>3, <1>4, <1>5, <1>6 DEF Next

\* The task a round moves has the version of its row, so nobody touched it.
LEMMA ActedOnUntouched ==
  ASSUME Inv, ListsAreOld, [Next]_vars, NEW j \in Jobs, At(j, "act"), job'[j].step = "row"
  PROVE  job[j].at \notin touched[j]
<1>1. job[j].at \in Pulls
  BY JobRow DEF Inv, TypeOK
<1> QED BY <1>1, ActedOnReading, Versions DEF Inv, ListsAreOld

-------------------------------------------------------------------------------
\* Rows, facts and the rounds' memory keep their shapes.
THEOREM TypeCorrect == Spec => []TypeOK
<1>1. Inv => TypeOK
  BY DEF Inv
<1> QED BY <1>1, InitInv, StepInv, PTL DEF Spec

\* A task or pull request recorded as MERGED is one whose head GitHub merged.
THEOREM MergedAtGitHub == Spec => []MergedIsTrue
<1>1. Inv => MergedIsTrue
  BY DEF Inv
<1> QED BY <1>1, InitInv, StepInv, PTL DEF Spec

\* Every decision in the audit trail moved its task.
THEOREM AuditIsTrue == Spec => []AuditedWasDone
<1>1. Inv => AuditedWasDone
  BY DEF Inv
<1> QED BY <1>1, InitInv, StepInv, PTL DEF Spec

\* A round moves a task only if nobody, whatever it did to it, has changed it since
\* the round listed it.
THEOREM MovedOnlyUntouched == Spec => NoStaleReconciliation
<1>1. Inv /\ ListsAreOld /\ [Next]_vars =>
        [\A j \in Jobs : At(j, "act") /\ job'[j].step = "row" =>
           job[j].at \notin touched[j]]_vars
  BY ActedOnUntouched
<1> QED BY <1>1, InitInv, StepInv, InitLists, StepLists, PTL DEF Spec, NoStaleReconciliation
===============================================================================
