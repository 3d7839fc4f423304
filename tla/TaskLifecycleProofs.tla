------------------------- MODULE TaskLifecycleProofs -------------------------
(***************************************************************************)
(* Proofs of the safety properties of TaskLifecycle, for any tasks,        *)
(* callers and bounds.                                                     *)
(***************************************************************************)
EXTENDS TaskLifecycle, TLAPS

-------------------------------------------------------------------------------
(* The table.                                                              *)

\* The table of transitions stays among the statuses, leads nowhere from a
\* terminal status, and reaches contracted work from elsewhere by READY only.
LEMMA TableFacts ==
  ASSUME NEW from \in Status, NEW to \in Transitions[from]
  PROVE  /\ to \in Status \ {"NONE"}
         /\ from \notin Terminal
         /\ from # "NONE"
         /\ to \in Contracted \ {"READY"} => from \in Contracted
BY DEF Status, Contracted, Terminal, Transitions, Withdrawn

\* A status of a row: what SetStatus writes, field by field.
LEMMA SetStatusRow ==
  ASSUME TypeOK, NEW t \in Tasks, NEW to \in Status, NEW contract \in BOOLEAN,
         SetStatus(t, to, contract)
  PROVE  /\ task' \in [Tasks -> TaskRow]
         /\ \A u \in Tasks \ {t} : task'[u] = task[u]
         /\ task'[t].status = to
         /\ task'[t].version = task[t].version + 1
         /\ task'[t].contract = (task[t].contract \/ contract)
         /\ task'[t].archived = task[t].archived
<1> DEFINE kept == task[t].contract \/ contract
<1> DEFINE row == [task[t] EXCEPT !.status = to, !.version = task[t].version + 1,
                             !.contract = kept]
<1>1. task' = [task EXCEPT ![t] = row]
  BY DEF SetStatus
<1>2. task[t] \in TaskRow /\ task \in [Tasks -> TaskRow]
  BY DEF TypeOK
<1>3. kept \in BOOLEAN
  BY Zenon
<1>4. task[t].version + 1 \in Nat
  BY <1>2 DEF TaskRow
<1> HIDE DEF kept
<1>5. /\ row \in TaskRow
      /\ row.status = to
      /\ row.version = task[t].version + 1
      /\ row.contract = kept
      /\ row.archived = task[t].archived
  BY <1>2, <1>3, <1>4 DEF TaskRow
<1> HIDE DEF row
<1>6. QED
  BY <1>1, <1>2, <1>5 DEF kept

-------------------------------------------------------------------------------
(* Types.                                                                  *)

\* Marking the readings of a task keeps them readings of the same row.
LEMMA TouchReadingsType ==
  ASSUME TypeOK, NEW t, NEW but, TouchReadings(t, but)
  PROVE  /\ request' \in [Callers -> Reading]
         /\ \A c \in Callers :
              \/ request'[c] = NoReading /\ c = but
              \/ request'[c] = request[c]
              \/ /\ request[c].task = t
                 /\ request'[c].task = t
                 /\ request'[c].status = request[c].status
                 /\ request'[c].version = request[c].version
<1>1. NoReading \in Reading
  BY DEF NoReading, Reading, Status
<1>2. ASSUME NEW c \in Callers
      PROVE  /\ [request[c] EXCEPT !.touched = TRUE] \in Reading
             /\ [request[c] EXCEPT !.touched = TRUE].task = request[c].task
             /\ [request[c] EXCEPT !.touched = TRUE].status = request[c].status
             /\ [request[c] EXCEPT !.touched = TRUE].version = request[c].version
  BY DEF TypeOK, Reading
<1>3. QED
  BY <1>1, <1>2 DEF TouchReadings, TypeOK

\* Marking everything that was read about a task.
LEMMA TouchAllType ==
  ASSUME TypeOK, NEW t \in Tasks, NEW but, TouchAll(t, but)
  PROVE  /\ planner' \in [Tasks -> PlannerJob]
         /\ disturbed' \subseteq Tasks
         /\ \A u \in Tasks \ {t} : planner'[u] = planner[u]
         /\ planner'[t].stage = planner[t].stage
         /\ planner'[t].version = planner[t].version
<1>1. /\ [planner[t] EXCEPT !.touched = TRUE] \in PlannerJob
      /\ [planner[t] EXCEPT !.touched = TRUE].stage = planner[t].stage
      /\ [planner[t] EXCEPT !.touched = TRUE].version = planner[t].version
  BY DEF TypeOK, PlannerJob
<1>2. QED
  BY <1>1 DEF TouchAll, TypeOK

\* A job that throws is queued again or given up.
LEMMA ThrowType ==
  ASSUME TypeOK, NEW t \in Tasks, Throw(t)
  PROVE  /\ planner' \in [Tasks -> PlannerJob]
         /\ \A u \in Tasks \ {t} : planner'[u] = planner[u]
         /\ planner'[t].stage \in {"queued", "dead"}
<1>1. planner[t].retries \in 0..PlannerRetries
  BY DEF TypeOK, PlannerJob
<1>2. Job("dead", 0) \in PlannerJob /\ Job("dead", 0).stage = "dead"
  BY LifecycleAssumption DEF PlannerJob, Job
<1>3. ASSUME planner[t].retries # 0
      PROVE  /\ Job("queued", planner[t].retries - 1) \in PlannerJob
             /\ Job("queued", planner[t].retries - 1).stage = "queued"
  BY <1>1, <1>3, LifecycleAssumption DEF PlannerJob, Job
<1>4. QED
  BY <1>2, <1>3 DEF Throw, TypeOK

-------------------------------------------------------------------------------
(* What a step does to one row, one reading and one job.                   *)

\* A row that is not written keeps its version; a reading is never ahead of its
\* row, and behind it once somebody touched the row.
ReadingAge(c) ==
  LET r == request[c] IN
  IF r.task = NoTask THEN r.status = "NONE"
  ELSE /\ task[r.task].status # "NONE"
       /\ r.version <= task[r.task].version
       /\ r.touched => r.version < task[r.task].version
       /\ r.status \in Terminal => task[r.task].status \in Terminal
JobAge(t) ==
  /\ planner[t].stage # "none" => task[t].status # "NONE"
  /\ planner[t].stage \in {"read", "refining"} =>
       /\ planner[t].version <= task[t].version
       /\ planner[t].touched => planner[t].version < task[t].version
RowSound(t) ==
  /\ task[t].status = "NONE" => task[t].version = 0
  /\ task[t].status \in Contracted => task[t].contract
  /\ task[t].archived => task[t].status \in Terminal
IInv ==
  /\ TypeOK
  /\ \A t \in Tasks : RowSound(t) /\ JobAge(t)
  /\ \A c \in Callers : ReadingAge(c)

RowEffect(t) ==
  \/ task'[t] = task[t]
  \/ /\ task[t].status = "NONE"
     /\ task'[t].status = "INBOX" /\ task'[t].version = 1 /\ ~task'[t].archived
  \/ /\ task[t].status # "NONE"
     /\ task'[t].status = task[t].status
     /\ task'[t].version = task[t].version + 1
     /\ task'[t].contract = task[t].contract
     /\ task'[t].archived = task[t].archived
  \/ /\ task'[t].status \in Transitions[task[t].status]
     /\ task'[t].version = task[t].version + 1
     /\ task[t].contract => task'[t].contract
     /\ task'[t].status = "READY" => task'[t].contract
     /\ task'[t].archived = task[t].archived
  \/ /\ task'[t].status = task[t].status
     /\ task'[t].version = task[t].version
     /\ task'[t].contract = task[t].contract
     /\ \E c \in Callers : request[c].task = t /\ request[c].status \in Terminal

ReadingEffect(c) ==
  \/ request'[c] = NoReading
  \/ request'[c] = request[c]
  \/ /\ request[c].task \in Tasks
     /\ request'[c].task = request[c].task
     /\ request'[c].status = request[c].status
     /\ request'[c].version = request[c].version
     /\ task'[request[c].task].version = task[request[c].task].version + 1
  \/ \E t \in Tasks :
       /\ task[t].status # "NONE"
       /\ request'[c] = [task |-> t, status |-> task[t].status,
                         version |-> task[t].version, touched |-> FALSE]
       /\ task' = task

JobEffect(t) ==
  \/ planner'[t] = planner[t]
  \/ /\ planner'[t].stage \notin {"read", "refining"}
     /\ planner[t].stage # "none" \/ task'[t].status # "NONE"
  \/ /\ planner[t].stage # "none"
     /\ planner'[t].version = task'[t].version
     /\ ~planner'[t].touched
  \/ /\ planner'[t].stage = planner[t].stage
     /\ planner'[t].version = planner[t].version
     /\ task'[t].version = task[t].version + 1

Effects ==
  /\ TypeOK'
  /\ \A t \in Tasks : RowEffect(t) /\ JobEffect(t)
  /\ \A c \in Callers : ReadingEffect(c)

-------------------------------------------------------------------------------
(* The effects preserve the invariant.                                     *)

\* No effect brings a row back from a terminal status or turns its version back.
LEMMA RowProgress ==
  ASSUME IInv, Effects, NEW t \in Tasks
  PROVE  /\ task'[t].version >= task[t].version
         /\ task[t].status \in Terminal => task'[t].status = task[t].status
         /\ task[t].status # "NONE" => task'[t].status # "NONE"
<1>1. /\ task[t].status \in Status
      /\ task[t].version \in Nat
      /\ task'[t].version \in Nat
  BY DEF IInv, Effects, TypeOK, TaskRow
<1>2. task'[t].status \in Transitions[task[t].status] =>
        /\ task[t].status \notin Terminal
        /\ task'[t].status # "NONE"
  BY <1>1, TableFacts
<1>3. RowEffect(t) /\ RowSound(t)
  BY DEF Effects, IInv
<1>4. "NONE" \notin Terminal
  BY DEF Terminal
<1>5. CASE task'[t].status \in Transitions[task[t].status]
  BY <1>1, <1>2, <1>3, <1>5 DEF RowEffect, RowSound
<1>6. CASE task'[t].status \notin Transitions[task[t].status]
  BY <1>1, <1>3, <1>4, <1>6 DEF RowEffect, RowSound
<1>7. QED
  BY <1>5, <1>6

\* The effects preserve what IInv says of a row.
LEMMA RowsStaySound ==
  ASSUME IInv, Effects, NEW t \in Tasks
  PROVE  RowSound(t)'
<1>1. /\ task[t].status \in Status
      /\ task[t].version \in Nat
      /\ RowSound(t)
  BY DEF IInv, TypeOK, TaskRow
<1>2. RowEffect(t)
  BY DEF Effects
<1>3. CASE task'[t] = task[t]
  BY <1>1, <1>3 DEF RowSound
<1>4. CASE /\ task[t].status = "NONE"
           /\ task'[t].status = "INBOX" /\ task'[t].version = 1 /\ ~task'[t].archived
  BY <1>4 DEF RowSound, Contracted
<1>5. CASE /\ task[t].status # "NONE"
           /\ task'[t].status = task[t].status
           /\ task'[t].version = task[t].version + 1
           /\ task'[t].contract = task[t].contract
           /\ task'[t].archived = task[t].archived
  BY <1>1, <1>5 DEF RowSound
<1>6. CASE /\ task'[t].status \in Transitions[task[t].status]
           /\ task'[t].version = task[t].version + 1
           /\ task[t].contract => task'[t].contract
           /\ task'[t].status = "READY" => task'[t].contract
           /\ task'[t].archived = task[t].archived
  <2>1. /\ task'[t].status # "NONE"
        /\ task[t].status \notin Terminal
        /\ task'[t].status \in Contracted \ {"READY"} => task[t].status \in Contracted
    BY <1>1, <1>6, TableFacts
  <2>2. QED
    BY <1>1, <1>6, <2>1 DEF RowSound
<1>7. CASE /\ task'[t].status = task[t].status
           /\ task'[t].version = task[t].version
           /\ task'[t].contract = task[t].contract
           /\ \E c \in Callers : request[c].task = t /\ request[c].status \in Terminal
  <2>1. task[t].status \in Terminal
    BY <1>7, LifecycleAssumption DEF IInv, ReadingAge
  <2>2. QED
    BY <1>1, <1>7, <2>1 DEF RowSound
<1>8. QED
  BY <1>2, <1>3, <1>4, <1>5, <1>6, <1>7 DEF RowEffect

\* The effects preserve what IInv says of a planning job.
LEMMA JobsStayAged ==
  ASSUME IInv, Effects, NEW t \in Tasks
  PROVE  JobAge(t)'
<1>1. /\ planner[t] \in PlannerJob /\ planner'[t] \in PlannerJob
      /\ task[t].version \in Nat /\ task'[t].version \in Nat
  BY DEF IInv, Effects, TypeOK, TaskRow
<1>2. /\ task'[t].version >= task[t].version
      /\ task[t].status # "NONE" => task'[t].status # "NONE"
  BY RowProgress
<1>3. planner[t].version \in Nat /\ planner'[t].version \in Nat
  BY <1>1 DEF PlannerJob
<1>4. JobAge(t) /\ JobEffect(t)
  BY DEF IInv, Effects
<1>5. QED
  BY <1>1, <1>2, <1>3, <1>4 DEF JobAge, JobEffect

\* The effects preserve what IInv says of a reading.
LEMMA ReadingsStayAged ==
  ASSUME IInv, Effects, NEW c \in Callers
  PROVE  ReadingAge(c)'
<1>1. /\ request[c].task \in Tasks \cup {NoTask}
      /\ request[c].version \in Nat
      /\ \A t \in Tasks : task[t].version \in Nat /\ task'[t].version \in Nat
  BY DEF IInv, Effects, TypeOK, TaskRow, Reading
<1>2. \A t \in Tasks :
        /\ task'[t].version >= task[t].version
        /\ task[t].status \in Terminal => task'[t].status \in Terminal
        /\ task[t].status # "NONE" => task'[t].status # "NONE"
  BY RowProgress
<1>3. ReadingAge(c) /\ ReadingEffect(c)
  BY DEF IInv, Effects
<1>4. NoTask \notin Tasks
  BY LifecycleAssumption
<1>5. CASE request'[c] = NoReading
  BY <1>5 DEF ReadingAge, NoReading
<1>6. CASE request'[c] = request[c]
  BY <1>1, <1>2, <1>3, <1>4, <1>6 DEF ReadingAge
<1>7. CASE /\ request[c].task \in Tasks
           /\ request'[c].task = request[c].task
           /\ request'[c].status = request[c].status
           /\ request'[c].version = request[c].version
           /\ task'[request[c].task].version = task[request[c].task].version + 1
  BY <1>1, <1>2, <1>3, <1>4, <1>7 DEF ReadingAge
<1>8. CASE \E t \in Tasks :
             /\ task[t].status # "NONE"
             /\ request'[c] = [task |-> t, status |-> task[t].status,
                               version |-> task[t].version, touched |-> FALSE]
             /\ task' = task
  BY <1>1, <1>4, <1>8 DEF ReadingAge
<1>9. QED
  BY <1>3, <1>5, <1>6, <1>7, <1>8 DEF ReadingEffect

\* The invariant is inductive once every action is known by its effects.
LEMMA EffectsPreserve ==
  ASSUME IInv, Effects
  PROVE  IInv'
<1>1. TypeOK'
  BY DEF Effects
<1>2. QED
  BY <1>1, RowsStaySound, JobsStayAged, ReadingsStayAged DEF IInv

-------------------------------------------------------------------------------
(* Every action is known by its effects.                                   *)

\* A version counted up, and the readings of the row marked.
LEMMA MarkedReadings ==
  ASSUME IInv, NEW t \in Tasks, NEW but, TouchReadings(t, but),
         task'[t].version = task[t].version + 1, NEW c \in Callers
  PROVE  ReadingEffect(c)
BY TouchReadingsType DEF IInv, ReadingEffect

\* A transition that marks what was read about the task.
LEMMA MoveEffects ==
  ASSUME IInv, NEW t \in Tasks, NEW to \in Transitions[task[t].status], NEW but,
         to = "READY" => task[t].contract,
         SetStatus(t, to, FALSE), TouchAll(t, but), UNCHANGED crashes
  PROVE  Effects
<1>1. TypeOK /\ task[t].status \in Status
  BY DEF IInv, TypeOK, TaskRow
<1>2. to \in Status
  BY <1>1, TableFacts
<1>3. /\ task' \in [Tasks -> TaskRow]
      /\ \A u \in Tasks \ {t} : task'[u] = task[u]
      /\ task'[t].status = to
      /\ task'[t].version = task[t].version + 1
      /\ task'[t].contract = task[t].contract
      /\ task'[t].archived = task[t].archived
  <2>1. /\ task' \in [Tasks -> TaskRow]
        /\ \A u \in Tasks \ {t} : task'[u] = task[u]
        /\ task'[t].status = to
        /\ task'[t].version = task[t].version + 1
        /\ task'[t].contract = (task[t].contract \/ FALSE)
        /\ task'[t].archived = task[t].archived
    BY <1>1, <1>2, SetStatusRow, Zenon
  <2>2. task[t].contract \in BOOLEAN
    BY <1>1 DEF TypeOK, TaskRow
  <2>3. (task[t].contract \/ FALSE) = task[t].contract
    BY <2>2, Zenon
  <2>4. QED
    BY <2>1, <2>3, Zenon
<1>4. /\ planner' \in [Tasks -> PlannerJob]
      /\ disturbed' \subseteq Tasks
      /\ \A u \in Tasks \ {t} : planner'[u] = planner[u]
      /\ planner'[t].stage = planner[t].stage
      /\ planner'[t].version = planner[t].version
  BY <1>1, TouchAllType
<1>5. request' \in [Callers -> Reading]
  BY <1>1, TouchReadingsType DEF TouchAll
<1>6. TypeOK'
  BY <1>1, <1>3, <1>4, <1>5 DEF TypeOK
<1>7. ASSUME NEW c \in Callers
      PROVE  ReadingEffect(c)
  BY <1>3, MarkedReadings DEF TouchAll
<1>8. ASSUME NEW u \in Tasks
      PROVE  RowEffect(u) /\ JobEffect(u)
  BY <1>3, <1>4 DEF RowEffect, JobEffect
<1>9. QED
  BY <1>6, <1>7, <1>8 DEF Effects

\* A pause or a new priority.
LEMMA TweakEffects ==
  ASSUME IInv, NEW t \in Tasks, NEW row \in TaskRow,
         task' = [task EXCEPT ![t] = row],
         task[t].status # "NONE",
         row.status = task[t].status, row.version = task[t].version + 1,
         row.contract = task[t].contract, row.archived = task[t].archived,
         TouchAll(t, NoTask), UNCHANGED crashes
  PROVE  Effects
<1>1. TypeOK
  BY DEF IInv
<1>2. /\ task' \in [Tasks -> TaskRow]
      /\ task'[t] = row
      /\ \A u \in Tasks \ {t} : task'[u] = task[u]
  BY <1>1 DEF TypeOK
<1>3. /\ planner' \in [Tasks -> PlannerJob]
      /\ disturbed' \subseteq Tasks
      /\ \A u \in Tasks \ {t} : planner'[u] = planner[u]
      /\ planner'[t].stage = planner[t].stage
      /\ planner'[t].version = planner[t].version
  BY <1>1, TouchAllType
<1>4. request' \in [Callers -> Reading]
  BY <1>1, TouchReadingsType DEF TouchAll
<1>5. TypeOK'
  BY <1>1, <1>2, <1>3, <1>4 DEF TypeOK
<1>6. ASSUME NEW c \in Callers
      PROVE  ReadingEffect(c)
  BY <1>2, MarkedReadings DEF TouchAll
<1>7. ASSUME NEW u \in Tasks
      PROVE  RowEffect(u) /\ JobEffect(u)
  BY <1>2, <1>3 DEF RowEffect, JobEffect
<1>8. QED
  BY <1>5, <1>6, <1>7 DEF Effects

\* A pause has one of the effects.
LEMMA SetPausedEffects ==
  ASSUME IInv, NEW t \in Tasks, NEW paused \in BOOLEAN, SetPaused(t, paused)
  PROVE  Effects
<1> DEFINE next == task[t].version + 1
           row == [task[t] EXCEPT !.paused = paused, !.version = next]
<1>1. task[t] \in TaskRow /\ next \in Nat
  BY DEF IInv, TypeOK, TaskRow
<1> HIDE DEF next
<1>2. /\ row \in TaskRow
      /\ row.status = task[t].status /\ row.version = next
      /\ row.contract = task[t].contract /\ row.archived = task[t].archived
  BY <1>1 DEF TaskRow
<1>3. task' = [task EXCEPT ![t] = row]
  BY DEF SetPaused, next
<1>4. task[t].status # "NONE" /\ TouchAll(t, NoTask) /\ UNCHANGED crashes
  BY DEF SetPaused
<1>5. next = task[t].version + 1
  BY DEF next
<1> HIDE DEF row
<1>6. QED
  BY <1>5, <1>2, <1>3, <1>4, TweakEffects

\* A new priority has one of the effects.
LEMMA SetPriorityEffects ==
  ASSUME IInv, NEW t \in Tasks, SetPriority(t)
  PROVE  Effects
<1> DEFINE row == [task[t] EXCEPT !.version = task[t].version + 1]
<1>1. task[t] \in TaskRow
  BY DEF IInv, TypeOK
<1>2. /\ row \in TaskRow
      /\ row.status = task[t].status /\ row.version = task[t].version + 1
      /\ row.contract = task[t].contract /\ row.archived = task[t].archived
  BY <1>1 DEF TaskRow
<1>3. task' = [task EXCEPT ![t] = row]
  BY DEF SetPriority
<1>4. task[t].status # "NONE" /\ TouchAll(t, NoTask) /\ UNCHANGED crashes
  BY DEF SetPriority
<1> HIDE DEF row
<1>5. QED
  BY <1>2, <1>3, <1>4, TweakEffects

\* A worker's claim has one of the effects.
LEMMA ClaimEffects ==
  ASSUME IInv, NEW t \in Tasks, Claim(t)
  PROVE  Effects
<1>1. "BUILDING" \in Transitions[task[t].status]
  BY DEF Claim, Transitions
<1>2. QED
  BY <1>1, MoveEffects DEF Claim

\* TaskService.transition has one of the effects.
LEMMA TransitionEffects ==
  ASSUME IInv, NEW c \in Callers, NEW to, NEW role, Transition(c, to, role)
  PROVE  Effects
<1>1. request[c].task \in Tasks
  BY DEF Transition, IInv, TypeOK, Reading
<1>2. PICK t \in Tasks : t = request[c].task
  BY <1>1
<1>3. /\ to \in Transitions[task[t].status]
      /\ to = "READY" => task[t].contract
  BY <1>2 DEF Transition, MayMove
<1>4. SetStatus(t, to, FALSE) /\ TouchAll(t, c) /\ UNCHANGED crashes
  BY <1>2 DEF Transition
<1>5. QED
  BY <1>3, <1>4, MoveEffects

\* What leaves every row as it is.
LEMMA RowsKept ==
  ASSUME task' = task, NEW t \in Tasks
  PROVE  RowEffect(t)
BY DEF RowEffect

\* A task that is created has a row.
LEMMA NewTaskType ==
  ASSUME TypeOK, NEW t \in Tasks, NewTask(t)
  PROVE  /\ task' \in [Tasks -> TaskRow]
         /\ \A u \in Tasks : RowEffect(u)
         /\ task'[t].status = "INBOX"
<1> DEFINE row == [NoTaskRow EXCEPT !.status = "INBOX", !.version = 1]
<1>1. /\ row \in TaskRow
      /\ row.status = "INBOX" /\ row.version = 1 /\ ~row.archived
  BY DEF NoTaskRow, TaskRow, Status
<1>2. task' = [task EXCEPT ![t] = row] /\ task[t].status = "NONE"
  BY DEF NewTask
<1> HIDE DEF row
<1>3. QED
  BY <1>1, <1>2 DEF TypeOK, RowEffect

\* A task created by the product service has one of the effects.
LEMMA CreateTaskEffects ==
  ASSUME IInv, NEW t \in Tasks, CreateTask(t)
  PROVE  Effects
<1>1. TypeOK /\ NewTask(t) /\ UNCHANGED <<request, planner, disturbed, crashes>>
  BY DEF CreateTask, IInv
<1>2. TypeOK'
  BY <1>1, NewTaskType DEF TypeOK
<1>3. QED
  BY <1>1, <1>2, NewTaskType DEF Effects, ReadingEffect, JobEffect

\* A task created in the inbox has one of the effects.
LEMMA CreateInboxTaskEffects ==
  ASSUME IInv, NEW t \in Tasks, CreateInboxTask(t)
  PROVE  Effects
<1>1. /\ TypeOK /\ NewTask(t) /\ UNCHANGED <<request, disturbed, crashes>>
      /\ planner' = [planner EXCEPT ![t].stage = "unsent"]
  BY DEF CreateInboxTask, IInv
<1>2. /\ planner' \in [Tasks -> PlannerJob]
      /\ \A u \in Tasks \ {t} : planner'[u] = planner[u]
      /\ planner'[t].stage = "unsent"
  BY <1>1 DEF TypeOK, PlannerJob
<1>3. TypeOK'
  BY <1>1, <1>2, NewTaskType DEF TypeOK
<1>4. ASSUME NEW u \in Tasks
      PROVE  JobEffect(u)
  BY <1>1, <1>2, NewTaskType DEF JobEffect
<1>5. QED
  BY <1>1, <1>3, <1>4, NewTaskType DEF Effects, ReadingEffect

\* Sending the planning job has one of the effects.
LEMMA SendPlanningEffects ==
  ASSUME IInv, NEW t \in Tasks, SendPlanning(t)
  PROVE  Effects
<1>1. /\ TypeOK /\ UNCHANGED <<task, request, disturbed, crashes>>
      /\ planner[t].stage = "unsent"
      /\ planner' = [planner EXCEPT ![t].stage = "queued"]
  BY DEF SendPlanning, IInv
<1>2. /\ planner' \in [Tasks -> PlannerJob]
      /\ \A u \in Tasks \ {t} : planner'[u] = planner[u]
      /\ planner'[t].stage = "queued"
  BY <1>1 DEF TypeOK, PlannerJob
<1>3. TypeOK'
  BY <1>1, <1>2 DEF TypeOK
<1>4. QED
  BY <1>1, <1>2, <1>3, RowsKept DEF Effects, ReadingEffect, JobEffect

\* The planner's first reading has one of the effects.
LEMMA ReadInboxEffects ==
  ASSUME IInv, NEW t \in Tasks, ReadInbox(t)
  PROVE  Effects
<1> DEFINE seen == task[t].version
           job == [planner[t] EXCEPT !.stage = "read", !.version = seen, !.touched = FALSE]
<1>1. /\ TypeOK /\ UNCHANGED <<task, request, disturbed, crashes>>
      /\ planner[t].stage = "queued"
      /\ planner' = [planner EXCEPT ![t] = job]
  BY DEF ReadInbox, IInv
<1>2. seen \in Nat /\ planner[t] \in PlannerJob
  BY <1>1 DEF TypeOK, TaskRow
<1> HIDE DEF seen
<1>3. job \in PlannerJob /\ job.version = seen /\ ~job.touched
  BY <1>2 DEF PlannerJob
<1> HIDE DEF job
<1>4. /\ planner' \in [Tasks -> PlannerJob]
      /\ \A u \in Tasks \ {t} : planner'[u] = planner[u]
      /\ planner'[t] = job
  BY <1>1, <1>3 DEF TypeOK
<1>5. TypeOK'
  BY <1>1, <1>4 DEF TypeOK
<1>6. ASSUME NEW u \in Tasks
      PROVE  JobEffect(u)
  BY <1>1, <1>3, <1>4 DEF JobEffect, seen
<1>7. QED
  BY <1>1, <1>5, <1>6, RowsKept DEF Effects, ReadingEffect

\* A planning job that throws, or whose process stops, changes nothing else.
LEMMA ThrowEffects ==
  ASSUME IInv, NEW t \in Tasks, Throw(t), UNCHANGED <<task, request, disturbed>>,
         planner[t].stage # "none", crashes' \in 0..MaxCrashes
  PROVE  Effects
<1>1. TypeOK
  BY DEF IInv
<1>2. TypeOK'
  BY <1>1, ThrowType DEF TypeOK
<1>3. ASSUME NEW u \in Tasks
      PROVE  JobEffect(u)
  BY <1>1, ThrowType DEF JobEffect
<1>4. QED
  BY <1>2, <1>3, RowsKept DEF Effects, ReadingEffect

\* The planner's crash has one of the effects.
LEMMA PlannerCrashEffects ==
  ASSUME IInv, NEW t \in Tasks, PlannerCrash(t)
  PROVE  Effects
<1>1. crashes' \in 0..MaxCrashes
  BY LifecycleAssumption DEF PlannerCrash, IInv, TypeOK
<1>2. QED
  BY <1>1, ThrowEffects DEF PlannerCrash

\* The planner's own transition, whatever becomes of its job.
LEMMA PlannerMoveEffects ==
  ASSUME IInv, NEW t \in Tasks, NEW to \in Transitions[task[t].status],
         NEW contract \in BOOLEAN, to = "READY" => contract,
         SetStatus(t, to, contract), TouchReadings(t, NoTask),
         UNCHANGED <<disturbed, crashes>>,
         NEW job \in PlannerJob, planner' = [planner EXCEPT ![t] = job],
         planner[t].stage # "none",
         job.stage \in {"read", "refining"} =>
           job.version = task[t].version + 1 /\ ~job.touched
  PROVE  Effects
<1>1. TypeOK /\ task[t].status \in Status
  BY DEF IInv, TypeOK, TaskRow
<1>2. to \in Status
  BY <1>1, TableFacts
<1>3. /\ task' \in [Tasks -> TaskRow]
      /\ \A u \in Tasks \ {t} : task'[u] = task[u]
      /\ task'[t].status = to
      /\ task'[t].version = task[t].version + 1
      /\ task'[t].contract = (task[t].contract \/ contract)
      /\ task'[t].archived = task[t].archived
  BY <1>1, <1>2, SetStatusRow, Zenon
<1>4. request' \in [Callers -> Reading]
  BY <1>1, TouchReadingsType
<1>5. /\ planner' \in [Tasks -> PlannerJob]
      /\ \A u \in Tasks \ {t} : planner'[u] = planner[u]
      /\ planner'[t] = job
  BY <1>1 DEF TypeOK
<1>6. TypeOK'
  BY <1>1, <1>3, <1>4, <1>5 DEF TypeOK
<1>7. ASSUME NEW c \in Callers
      PROVE  ReadingEffect(c)
  BY <1>3, MarkedReadings
<1>8. RowEffect(t)
  <2>1. /\ task[t].contract => task'[t].contract
        /\ to = "READY" => task'[t].contract
    BY <1>3, Zenon
  <2>2. QED
    BY <1>3, <2>1 DEF RowEffect
<1>9. \A u \in Tasks : RowEffect(u)
  BY <1>3, <1>8 DEF RowEffect
<1>10. \A u \in Tasks : JobEffect(u)
  BY <1>3, <1>5 DEF JobEffect
<1>11. QED
  BY <1>6, <1>7, <1>9, <1>10 DEF Effects

\* The planner's first transition has one of the effects.
LEMMA StartRefiningEffects ==
  ASSUME IInv, NEW t \in Tasks, StartRefining(t)
  PROVE  Effects
<1>1. planner[t].stage = "read" /\ UNCHANGED <<disturbed, crashes>>
  BY DEF StartRefining
<1>2. CASE ~Unchanged(t, "INBOX", planner[t].version)
  BY <1>1, <1>2, ThrowEffects DEF StartRefining, IInv, TypeOK
<1>3. CASE Unchanged(t, "INBOX", planner[t].version)
  <2> DEFINE next == task[t].version + 1
             job == [planner[t] EXCEPT !.stage = "refining", !.version = next]
  <2>1. /\ SetStatus(t, "REFINING", FALSE)
        /\ TouchReadings(t, NoTask)
        /\ planner' = [planner EXCEPT ![t] =
             [planner[t] EXCEPT !.stage = "refining", !.version = task'[t].version]]
    BY <1>3 DEF StartRefining
  <2>2. TypeOK /\ planner[t] \in PlannerJob /\ next \in Nat
    BY DEF IInv, TypeOK, TaskRow
  <2>3. task'[t].version = next
    BY <2>1, <2>2, SetStatusRow DEF Status
  <2>4. ~planner[t].touched
    BY <1>1, <1>3, <2>2 DEF IInv, JobAge, Unchanged, TypeOK, TaskRow
  <2>5. "REFINING" \in Transitions[task[t].status]
    BY <1>3 DEF Unchanged, Transitions
  <2>6. next = task[t].version + 1
    OBVIOUS
  <2> HIDE DEF next
  <2>7. job \in PlannerJob /\ job.version = next /\ ~job.touched
    BY <2>2, <2>4 DEF PlannerJob
  <2>8. planner' = [planner EXCEPT ![t] = job]
    BY <2>1, <2>3
  <2> HIDE DEF job
  <2>9. QED
    BY <1>1, <2>1, <2>5, <2>6, <2>7, <2>8, PlannerMoveEffects
<1>4. QED
  BY <1>2, <1>3

\* The planner's second transition has one of the effects.
LEMMA FinishRefiningEffects ==
  ASSUME IInv, NEW t \in Tasks, NEW contract \in BOOLEAN, FinishRefining(t, contract)
  PROVE  Effects
<1>1. planner[t].stage = "refining" /\ UNCHANGED <<disturbed, crashes>>
  BY DEF FinishRefining
<1>2. CASE ~Unchanged(t, "REFINING", planner[t].version)
  BY <1>1, <1>2, ThrowEffects DEF FinishRefining, IInv, TypeOK
<1>3. CASE Unchanged(t, "REFINING", planner[t].version)
  <2> DEFINE to == IF contract THEN "READY" ELSE "BLOCKED"
             job == Job("done", PlannerRetries)
  <2>1. /\ SetStatus(t, to, contract)
        /\ TouchReadings(t, NoTask)
        /\ planner' = [planner EXCEPT ![t] = job]
    BY <1>3 DEF FinishRefining
  <2>2. to \in Transitions[task[t].status]
    BY <1>3 DEF Unchanged, Transitions
  <2>3. to = "READY" => contract
    BY Zenon
  <2>4. job \in PlannerJob /\ job.stage = "done"
    BY LifecycleAssumption DEF Job, PlannerJob
  <2> HIDE DEF to, job
  <2>5. QED
    BY <1>1, <2>1, <2>2, <2>3, <2>4, PlannerMoveEffects
<1>4. QED
  BY <1>2, <1>3

\* A caller that reads a task has one of the effects.
LEMMA ReadEffects ==
  ASSUME IInv, NEW c \in Callers, NEW t \in Tasks, Read(c, t)
  PROVE  Effects
<1> DEFINE seen == [task |-> t, status |-> task[t].status,
                    version |-> task[t].version, touched |-> FALSE]
<1>1. /\ TypeOK /\ UNCHANGED <<task, planner, disturbed, crashes>>
      /\ request' = [request EXCEPT ![c] = seen]
      /\ task[t].status # "NONE"
  BY DEF Read, IInv
<1>2. seen \in Reading
  BY <1>1 DEF TypeOK, TaskRow, Reading
<1>3. /\ request' \in [Callers -> Reading]
      /\ \A d \in Callers \ {c} : request'[d] = request[d]
      /\ request'[c] = seen
  BY <1>1, <1>2 DEF TypeOK
<1>4. TypeOK'
  BY <1>1, <1>3 DEF TypeOK
<1>5. ASSUME NEW d \in Callers
      PROVE  ReadingEffect(d)
  BY <1>1, <1>3 DEF ReadingEffect
<1>6. QED
  BY <1>1, <1>4, <1>5, RowsKept DEF Effects, JobEffect

\* A caller who is through: refused, or done.
LEMMA ForgetType ==
  ASSUME TypeOK, NEW c \in Callers, request' = [request EXCEPT ![c] = NoReading]
  PROVE  /\ request' \in [Callers -> Reading]
         /\ \A d \in Callers : ReadingEffect(d)
<1>1. NoReading \in Reading
  BY DEF NoReading, Reading, Status
<1>2. QED
  BY <1>1 DEF TypeOK, ReadingEffect

\* A caller that is refused has one of the effects.
LEMMA RefusedEffects ==
  ASSUME IInv, NEW c \in Callers, Refused(c)
  PROVE  Effects
<1>1. /\ TypeOK /\ UNCHANGED <<task, planner, disturbed, crashes>>
      /\ request' = [request EXCEPT ![c] = NoReading]
  BY DEF Refused, IInv
<1>2. TypeOK'
  BY <1>1, ForgetType DEF TypeOK
<1>3. QED
  BY <1>1, <1>2, ForgetType, RowsKept DEF Effects, JobEffect

\* Archiving, which does not read again, has one of the effects.
LEMMA ArchiveEffects ==
  ASSUME IInv, NEW c \in Callers, Archive(c)
  PROVE  Effects
<1>1. /\ TypeOK /\ UNCHANGED <<planner, disturbed, crashes>>
      /\ request' = [request EXCEPT ![c] = NoReading]
      /\ request[c].status \in Terminal
  BY DEF Archive, IInv
<1>2. request[c].task \in Tasks
  BY <1>1 DEF IInv, ReadingAge, TypeOK, Reading, Terminal
<1>3. PICK t \in Tasks : t = request[c].task
  BY <1>2
<1> DEFINE row == [task[t] EXCEPT !.archived = TRUE]
<1>4. task' = [task EXCEPT ![t] = row]
  BY <1>3 DEF Archive
<1>5. /\ row \in TaskRow
      /\ row.status = task[t].status /\ row.version = task[t].version
      /\ row.contract = task[t].contract
  BY <1>1 DEF TypeOK, TaskRow
<1> HIDE DEF row
<1>6. /\ task' \in [Tasks -> TaskRow]
      /\ \A u \in Tasks : RowEffect(u)
  BY <1>1, <1>3, <1>4, <1>5 DEF TypeOK, RowEffect
<1>7. TypeOK'
  BY <1>1, <1>6, ForgetType DEF TypeOK
<1>8. QED
  BY <1>1, <1>6, <1>7, ForgetType DEF Effects, JobEffect

\* Nothing is one of the effects.
LEMMA NothingEffects ==
  ASSUME IInv, UNCHANGED vars
  PROVE  Effects
<1>1. TypeOK'
  BY DEF IInv, vars, TypeOK
<1>2. QED
  BY <1>1 DEF vars, Effects, RowEffect, JobEffect, ReadingEffect

\* Every step has one of the effects.
LEMMA StepEffects ==
  ASSUME IInv, [Next]_vars
  PROVE  Effects
<1>1. CASE UNCHANGED vars
  BY <1>1, NothingEffects
<1>2. ASSUME NEW t \in Tasks,
             \/ CreateTask(t)
             \/ CreateInboxTask(t)
             \/ \E paused \in BOOLEAN : SetPaused(t, paused)
             \/ SetPriority(t)
             \/ Claim(t)
             \/ PlannerCrash(t)
      PROVE  Effects
  BY <1>2, CreateTaskEffects, CreateInboxTaskEffects, SetPausedEffects,
     SetPriorityEffects, ClaimEffects, PlannerCrashEffects
<1>3. ASSUME NEW t \in Tasks, PlannerStep(t)
      PROVE  Effects
  BY <1>3, SendPlanningEffects, ReadInboxEffects, StartRefiningEffects,
     FinishRefiningEffects DEF PlannerStep
<1>4. ASSUME NEW c \in Callers,
             \/ \E t \in Tasks : Read(c, t)
             \/ Refused(c)
             \/ Archive(c)
      PROVE  Effects
  BY <1>4, ReadEffects, RefusedEffects, ArchiveEffects
<1>5. ASSUME NEW c \in Callers,
             \/ \E to \in Transitions[request[c].status], role \in ActorRole :
                  Transition(c, to, role)
             \/ \E action \in {"cancel", "abandon", "retry"},
                   role \in {"OWNER", "DEVELOPER", "OPERATOR"} :
                  ControlTask(c, action, role)
      PROVE  Effects
  BY <1>5, TransitionEffects DEF ControlTask
<1>6. QED
  BY <1>1, <1>2, <1>3, <1>4, <1>5 DEF Next

-------------------------------------------------------------------------------
(* The theorems.                                                           *)

\* At the start nobody has read and nothing is planned.
LEMMA InitSound == Init => IInv
<1> SUFFICES ASSUME Init
             PROVE  IInv
  OBVIOUS
<1>1. NoTaskRow \in TaskRow /\ NoReading \in Reading
  BY DEF NoTaskRow, TaskRow, NoReading, Reading, Status
<1>2. NoJob \in PlannerJob
  BY LifecycleAssumption DEF NoJob, Job, PlannerJob
<1>3. TypeOK
  BY <1>1, <1>2, LifecycleAssumption DEF Init, TypeOK
<1>4. ASSUME NEW t \in Tasks
      PROVE  RowSound(t) /\ JobAge(t)
  BY DEF Init, NoTaskRow, NoJob, Job, RowSound, JobAge, Contracted
<1>5. ASSUME NEW c \in Callers
      PROVE  ReadingAge(c)
  BY DEF Init, NoReading, ReadingAge
<1>6. QED
  BY <1>3, <1>4, <1>5 DEF IInv

\* The invariant holds in every behaviour.
LEMMA IInvHolds == Spec => []IInv
<1>1. IInv /\ [Next]_vars => IInv'
  BY StepEffects, EffectsPreserve
<1>2. QED
  BY InitSound, <1>1, PTL DEF Spec

\* The rows, the readers' memory and the planning jobs keep their shapes.
THEOREM TypeCorrect == Spec => []TypeOK
<1>1. IInv => TypeOK
  BY DEF IInv
<1>2. QED
  BY IInvHolds, <1>1, PTL

\* No task is worked on, reviewed or released without a valid contract: READY is
\* the only way into contracted work, and the stored contract is never lost.
THEOREM ContractFirst == Spec => []WorkHasContract
<1>1. IInv => WorkHasContract
  BY DEF IInv, RowSound, WorkHasContract
<1>2. QED
  BY IInvHolds, <1>1, PTL

\* Archiving is decided on an old reading and is right all the same: a reading
\* with a terminal status stays true.
THEOREM ArchivingIsSafe == Spec => []ArchivedIsTerminal
<1>1. IInv => ArchivedIsTerminal
  BY DEF IInv, RowSound, ArchivedIsTerminal
<1>2. QED
  BY IInvHolds, <1>1, PTL

\* No step of anyone brings a finished task back.
THEOREM FinishedStaysFinished == Spec => TerminalIsFinal
<1>1. IInv /\ [Next]_vars =>
        [\A t \in Tasks : task[t].status \in Terminal => task'[t].status = task[t].status]_vars
  BY StepEffects, RowProgress
<1>2. QED
  BY IInvHolds, <1>1, PTL DEF Spec, TerminalIsFinal

-------------------------------------------------------------------------------
(* Stale readings.                                                         *)

\* Whoever read the task keeps the reading when somebody else moves the task.
LEMMA OthersKeepReading ==
  ASSUME IInv, NEW t, NEW but, TouchReadings(t, but),
         NEW c \in Callers, c # but, request[c].task \in Tasks
  PROVE  request'[c] # NoReading
BY TouchReadingsType, LifecycleAssumption DEF IInv, NoReading

\* What NoStaleMove says of one task.
FreshMove(t) ==
  /\ \A c \in Callers : request[c].task = t /\ request'[c] = NoReading
       => ~request[c].touched
  /\ planner[t].stage = "read" /\ planner'[t].stage = "refining"
       => ~planner[t].touched
  /\ planner[t].stage = "refining" /\ planner'[t].stage = "done"
       => ~planner[t].touched

\* A person, a claim or a new task: no reading is given up, no plan is made.
LEMMA FreshTaskStep ==
  ASSUME IInv, NEW u \in Tasks, NEW t \in Tasks,
         task'[t].status # task[t].status,
         \/ CreateTask(u)
         \/ CreateInboxTask(u)
         \/ \E paused \in BOOLEAN : SetPaused(u, paused)
         \/ SetPriority(u)
         \/ Claim(u)
         \/ PlannerCrash(u)
  PROVE  FreshMove(t)
<1>1. TypeOK /\ NoTask \notin Tasks /\ NoTask \notin Callers
  BY LifecycleAssumption DEF IInv
<1>2. CASE CreateTask(u) \/ CreateInboxTask(u)
  BY <1>1, <1>2 DEF CreateTask, CreateInboxTask, FreshMove, NoReading, TypeOK, PlannerJob
<1>3. CASE TouchAll(u, NoTask)
  <2>1. \A c \in Callers : request[c].task \in Tasks => request'[c] # NoReading
    BY <1>1, <1>3, OthersKeepReading DEF TouchAll
  <2>2. planner'[t].stage = planner[t].stage
    BY <1>1, <1>3, TouchAllType
  <2>3. QED
    BY <2>1, <2>2 DEF FreshMove
<1>4. CASE PlannerCrash(u)
  BY <1>4 DEF PlannerCrash
<1>5. QED
  BY <1>2, <1>3, <1>4 DEF SetPaused, SetPriority, Claim

\* The planner changes a status only on a reading nobody has overtaken.
LEMMA FreshPlannerStep ==
  ASSUME IInv, NEW u \in Tasks, NEW t \in Tasks,
         task'[t].status # task[t].status, PlannerStep(u)
  PROVE  FreshMove(t)
<1>1. TypeOK /\ NoTask \notin Tasks /\ NoTask \notin Callers
  BY LifecycleAssumption DEF IInv
<1>2. CASE SendPlanning(u) \/ ReadInbox(u)
  BY <1>2 DEF SendPlanning, ReadInbox
<1>3. CASE StartRefining(u)
  <2>1. /\ planner[u].stage = "read"
        /\ Unchanged(u, "INBOX", planner[u].version)
        /\ TouchReadings(u, NoTask)
        /\ planner' = [planner EXCEPT ![u] =
             [planner[u] EXCEPT !.stage = "refining", !.version = task'[u].version]]
    BY <1>3 DEF StartRefining
  <2>2. \A c \in Callers : request[c].task \in Tasks => request'[c] # NoReading
    BY <1>1, <2>1, OthersKeepReading
  <2>3. ~planner[u].touched
    BY <2>1 DEF IInv, JobAge, Unchanged, TypeOK, TaskRow
  <2>4. t # u => planner'[t] = planner[t]
    BY <1>1, <2>1 DEF TypeOK
  <2>5. QED
    BY <2>2, <2>3, <2>4 DEF FreshMove
<1>4. CASE \E contract \in BOOLEAN : FinishRefining(u, contract)
  <2>1. /\ planner[u].stage = "refining"
        /\ Unchanged(u, "REFINING", planner[u].version)
        /\ TouchReadings(u, NoTask)
        /\ planner' = [planner EXCEPT ![u] = Job("done", PlannerRetries)]
    BY <1>4 DEF FinishRefining
  <2>2. \A c \in Callers : request[c].task \in Tasks => request'[c] # NoReading
    BY <1>1, <2>1, OthersKeepReading
  <2>3. ~planner[u].touched
    BY <2>1 DEF IInv, JobAge, Unchanged, TypeOK, TaskRow
  <2>4. t # u => planner'[t] = planner[t]
    BY <1>1, <2>1 DEF TypeOK
  <2>5. QED
    BY <2>2, <2>3, <2>4 DEF FreshMove
<1>5. QED
  BY <1>2, <1>3, <1>4 DEF PlannerStep

\* A transition changes a status only on a reading nobody has overtaken.
LEMMA FreshTransition ==
  ASSUME IInv, NEW d \in Callers, NEW to, NEW role, Transition(d, to, role),
         NEW t \in Tasks
  PROVE  FreshMove(t)
<1>1. TypeOK /\ NoTask \notin Tasks /\ request[d].task \in Tasks
  BY LifecycleAssumption DEF IInv, Transition, TypeOK, Reading
<1>2. PICK u \in Tasks : u = request[d].task
  BY <1>1
<1>3. TouchAll(u, d) /\ Unchanged(u, request[d].status, request[d].version)
  BY <1>2 DEF Transition
<1>4. ~request[d].touched
  BY <1>1, <1>2, <1>3 DEF IInv, ReadingAge, Unchanged, TypeOK, TaskRow
<1>5. \A c \in Callers \ {d} : request[c].task \in Tasks => request'[c] # NoReading
  BY <1>3, OthersKeepReading DEF TouchAll
<1>6. planner'[t].stage = planner[t].stage
  BY <1>1, <1>3, TouchAllType
<1>7. QED
  BY <1>4, <1>5, <1>6 DEF FreshMove

\* A caller changes a status only on a reading nobody has overtaken.
LEMMA FreshCallerStep ==
  ASSUME IInv, NEW d \in Callers, NEW t \in Tasks,
         task'[t].status # task[t].status,
         \/ \E u \in Tasks : Read(d, u)
         \/ Refused(d)
         \/ Archive(d)
  PROVE  FreshMove(t)
<1>1. CASE (\E u \in Tasks : Read(d, u)) \/ Refused(d)
  BY <1>1 DEF Read, Refused
<1>2. CASE Archive(d)
  BY <1>2 DEF Archive, IInv, TypeOK, TaskRow
<1>3. QED
  BY <1>1, <1>2

\* No caller and no planner moves a task on a reading somebody has overtaken,
\* though the task be back in the status they saw.
THEOREM StaleIsRefused == Spec => NoStaleMove
<1> DEFINE Fresh == \A t \in Tasks : task'[t].status # task[t].status => FreshMove(t)
<1>1. ASSUME IInv, Next
      PROVE  Fresh
  <2> SUFFICES ASSUME NEW t \in Tasks, task'[t].status # task[t].status
               PROVE  FreshMove(t)
    OBVIOUS
  <2>1. ASSUME NEW c \in Callers,
               \/ \E to \in Transitions[request[c].status], role \in ActorRole :
                    Transition(c, to, role)
               \/ \E action \in {"cancel", "abandon", "retry"},
                     role \in {"OWNER", "DEVELOPER", "OPERATOR"} :
                    ControlTask(c, action, role)
        PROVE  FreshMove(t)
    BY <2>1, <1>1, FreshTransition DEF ControlTask
  <2>2. QED
    BY <1>1, <2>1, FreshTaskStep, FreshPlannerStep, FreshCallerStep DEF Next
<1>2. Fresh <=> \A t \in Tasks : task'[t].status # task[t].status =>
       /\ \A c \in Callers : request[c].task = t /\ request'[c] = NoReading
            => ~request[c].touched
       /\ planner[t].stage = "read" /\ planner'[t].stage = "refining"
            => ~planner[t].touched
       /\ planner[t].stage = "refining" /\ planner'[t].stage = "done"
            => ~planner[t].touched
  BY DEF FreshMove
<1> HIDE DEF Fresh
<1>3. IInv /\ [Next]_vars => [Fresh]_vars
  BY <1>1
<1>4. QED
  BY IInvHolds, <1>2, <1>3, PTL DEF Spec, NoStaleMove
===============================================================================
