------------------------ MODULE WorkspaceHandoffProofs ------------------------
(***************************************************************************)
(* What holds of WorkspaceHandoff for every set of workers, tasks and      *)
(* repositories and for all leases.  LockBacksOwnership and                *)
(* AgentOwnedIsAssigned are inductive relative to TypeOK; one writer per   *)
(* repository follows from the first, because a lock row names one task.   *)
(***************************************************************************)
EXTENDS WorkspaceHandoff, TLAPS

USE HandoffAssumption

-------------------------------------------------------------------------------
(* Writing one column of a row gives a row again.                          *)

LEMMA SetWorkerStatus ==
  ASSUME NEW row \in WorkerRow, NEW s \in WorkerStatus
  PROVE  [row EXCEPT !.status = s] \in WorkerRow
  BY DEF WorkerRow

LEMMA SetLockLease ==
  ASSUME NEW row \in LockRow, NEW until \in Nat
  PROVE  [row EXCEPT !.lease = until] \in LockRow
  BY DEF LockRow

LEMMA SetAssignmentStatus ==
  ASSUME NEW row \in AssignmentRow, NEW s \in AssignmentStatus
  PROVE  [row EXCEPT !.status = s] \in AssignmentRow
  BY DEF AssignmentRow

LEMMA SetState ==
  ASSUME NEW row \in OwnershipRow, NEW s \in OwnershipState
  PROVE  [row EXCEPT !.state = s] \in OwnershipRow
  BY DEF OwnershipRow

LEMMA SetRequested ==
  ASSUME NEW row \in OwnershipRow, NEW a \in Actors, NEW until \in Nat
  PROVE  [row EXCEPT !.state = "PAUSING", !.requested = a, !.lease = until] \in OwnershipRow
  BY DEF OwnershipRow, OwnershipState

LEMMA StatusType ==
  ASSUME TypeOK, NEW t \in Tasks
  PROVE  assignment[t].status \in AssignmentStatus
  BY DEF TypeOK, AssignmentRow

LEMMA SetBound ==
  ASSUME NEW row \in OwnershipRow
  PROVE  [row EXCEPT !.bound = TRUE] \in OwnershipRow
  BY DEF OwnershipRow

-------------------------------------------------------------------------------
\* Every row of the four tables keeps the shape its columns give it.
THEOREM TypeCorrect == Spec => []TypeOK
<1>1. Init => TypeOK
  BY DEF Init, TypeOK, WorkerRow, LockRow, AssignmentRow, OwnershipRow,
       WorkerStatus, AssignmentStatus, LiveAssignment, OwnershipState,
     NoWorker, NoLock, NoAssignment, NoOwnership, NoInspection
<1>2. TypeOK /\ [Next]_vars => TypeOK'
  <2> SUFFICES ASSUME TypeOK, [Next]_vars PROVE TypeOK'
    OBVIOUS
  <2>1. ASSUME NEW w \in Workers, NEW length \in WorkerLeases, Register(w, length)
       PROVE  TypeOK'
    BY <2>1 DEF Register, NextFence, TypeOK, WorkerRow, WorkerStatus
  <2>2. ASSUME NEW w \in Workers, NEW length \in WorkerLeases, Heartbeat(w, length)
       PROVE  TypeOK'
    BY <2>2 DEF Heartbeat, TypeOK, WorkerRow, WorkerStatus
  <2>3. ASSUME NEW w \in Workers, Drain(w)
       PROVE  TypeOK'
    BY <2>3, SetWorkerStatus DEF Drain, TypeOK, WorkerStatus
  <2>4. ASSUME NEW w \in Workers, Revoke(w)
       PROVE  TypeOK'
    <3>1. worker' \in [Workers -> WorkerRow]
      BY <2>4, SetWorkerStatus DEF Revoke, TypeOK, WorkerStatus
    <3>2. lock' \in [Repositories -> LockRow]
      BY <2>4, SetLockLease DEF Revoke, TypeOK
    <3>3. assignment' \in [Tasks -> AssignmentRow]
      BY <2>4, SetAssignmentStatus DEF Revoke, TypeOK, AssignmentStatus
    <3>4. ownership' \in [Tasks -> OwnershipRow]
      BY <2>4, SetState DEF Revoke, TypeOK, OwnershipState
    <3> QED
      BY <2>4, <3>1, <3>2, <3>3, <3>4 DEF Revoke, TypeOK
  <2>5. ASSUME NEW w \in Workers, NEW t \in Tasks, NEW length \in LeaseLengths, Claim(w,
             t, length)
       PROVE  TypeOK'
    <3>1. lock' \in [Repositories -> LockRow]
      BY <2>5 DEF Claim, NextFence, TypeOK, LockRow
    <3>2. assignment' \in [Tasks -> AssignmentRow]
      BY <2>5 DEF Claim, NextFence, TypeOK, AssignmentRow, AssignmentStatus,
         LiveAssignment
    <3>3. ownership' \in [Tasks -> OwnershipRow]
      BY <2>5 DEF Claim, NextFence, TypeOK, OwnershipRow, OwnershipState
    <3> QED
      BY <2>5, <3>1, <3>2, <3>3 DEF Claim, NextFence, TypeOK
  <2>6. ASSUME NEW w \in Workers, NEW t \in Tasks, NEW length \in LeaseLengths,
             ResumeAgent(t, w, length)
       PROVE  TypeOK'
    <3>1. lock' \in [Repositories -> LockRow]
      BY <2>6 DEF ResumeAgent, NextFence, TypeOK, LockRow
    <3>2. assignment' \in [Tasks -> AssignmentRow]
      BY <2>6 DEF ResumeAgent, NextFence, TypeOK, AssignmentRow, AssignmentStatus,
         LiveAssignment
    <3>3. ownership' \in [Tasks -> OwnershipRow]
      BY <2>6 DEF ResumeAgent, NextFence, TypeOK, OwnershipRow, OwnershipState
    <3> QED
      BY <2>6, <3>1, <3>2, <3>3 DEF ResumeAgent, NextFence, TypeOK
  <2>7. ASSUME NEW w \in Workers, NEW t \in Tasks, BindGitRef(t, w)
       PROVE  TypeOK'
    BY <2>7, SetBound DEF BindGitRef, TypeOK
  <2>8. ASSUME NEW t \in Tasks, NEW a \in Actors, NEW length \in LeaseLengths,
             RequestAttach(t, a, length)
       PROVE  TypeOK'
    <3>1. assignment' \in [Tasks -> AssignmentRow]
      BY <2>8, SetAssignmentStatus, StatusType DEF RequestAttach, TypeOK,
         AssignmentStatus, LiveAssignment
    <3>2. ownership' \in [Tasks -> OwnershipRow]
      <4>1. ownership' = [ownership EXCEPT ![t] =
              [@ EXCEPT !.state = "PAUSING", !.requested = a, !.lease = now + length]]
        BY <2>8 DEF RequestAttach
      <4>2. now + length \in Nat /\ ownership \in [Tasks -> OwnershipRow]
        BY DEF TypeOK
      <4>3. [ownership[t] EXCEPT !.state = "PAUSING", !.requested = a,
                                 !.lease = now + length] \in OwnershipRow
        BY <4>2, SetRequested
      <4> QED
        BY <4>1, <4>2, <4>3
    <3> QED
      BY <2>8, <3>1, <3>2 DEF RequestAttach, TypeOK
  <2>9. ASSUME NEW t \in Tasks, AcknowledgeAgentPaused(t)
       PROVE  TypeOK'
    <3>1. lock' \in [Repositories -> LockRow]
      BY <2>9 DEF AcknowledgeAgentPaused, NextFence, TypeOK, LockRow, OwnershipRow
    <3>2. assignment' \in [Tasks -> AssignmentRow]
      BY <2>9, SetAssignmentStatus, StatusType DEF AcknowledgeAgentPaused, NextFence,
         TypeOK, AssignmentStatus
    <3>3. ownership' \in [Tasks -> OwnershipRow]
      BY <2>9 DEF AcknowledgeAgentPaused, NextFence, TypeOK, OwnershipRow, OwnershipState
    <3> QED
      BY <2>9, <3>1, <3>2, <3>3 DEF AcknowledgeAgentPaused, NextFence, TypeOK
  <2>10. ASSUME NEW t \in Tasks, NEW a \in Actors, BeginReturn(t, a)
       PROVE  TypeOK'
    BY <2>10 DEF BeginReturn, TypeOK, OwnershipRow
  <2>11. ASSUME NEW t \in Tasks, CommitReturn(t)
       PROVE  TypeOK'
    BY <2>11, SetState DEF CommitReturn, NoInspection, TypeOK, OwnershipState
  <2>12. ASSUME NEW t \in Tasks, RefuseReturn(t)
       PROVE  TypeOK'
    BY <2>12 DEF RefuseReturn, NoInspection, TypeOK
  <2>13. ASSUME NEW t \in Tasks, NEW a \in Operators, NEW target \in {"HUMAN_OWNED",
             "RETURNING"}, NEW length \in LeaseLengths, Recover(t, a, target, length)
       PROVE  TypeOK'
    <3>1. lock' \in [Repositories -> LockRow]
      BY <2>13 DEF Recover, NextFence, TypeOK, LockRow
    <3>2. ownership' \in [Tasks -> OwnershipRow]
      BY <2>13 DEF Recover, NextFence, TypeOK, OwnershipRow, OwnershipState
    <3> QED
      BY <2>13, <3>1, <3>2 DEF Recover, NextFence, TypeOK
  <2>14. ASSUME NEW t \in Tasks, Requeue(t)
       PROVE  TypeOK'
    BY <2>14 DEF Requeue, TypeOK
  <2>15. ASSUME NEW r \in Repositories, ReleaseExpiredRepositoryLock(r)
       PROVE  TypeOK'
    BY <2>15 DEF ReleaseExpiredRepositoryLock, NoLock, TypeOK, LockRow
  <2>16. CASE RecoverExpired
    <3>1. worker' \in [Workers -> WorkerRow]
      BY <2>16, SetWorkerStatus DEF RecoverExpired, TypeOK, WorkerStatus
    <3>2. assignment' \in [Tasks -> AssignmentRow]
      BY <2>16, SetAssignmentStatus DEF RecoverExpired, TypeOK, AssignmentStatus
    <3>3. ownership' \in [Tasks -> OwnershipRow]
      BY <2>16, SetState DEF RecoverExpired, TypeOK, OwnershipState
    <3> QED
      BY <2>16, <3>1, <3>2, <3>3 DEF RecoverExpired, TypeOK
  <2>17. CASE Tick
    BY <2>17 DEF Tick, TypeOK
  <2>18. CASE UNCHANGED vars
    BY <2>18 DEF vars, TypeOK
  <2> QED
    BY <2>1, <2>2, <2>3, <2>4, <2>5, <2>6, <2>7, <2>8, <2>9, <2>10, <2>11, <2>12, <2>13,
       <2>14, <2>15, <2>16, <2>17, <2>18
    DEF Next, WorkerStep, WorkspaceStep
<1> QED
  BY <1>1, <1>2, PTL DEF Spec

-------------------------------------------------------------------------------
\* The lock of a repository is always the controlling party's: no statement
\* order of claim, hand-off, return, recovery, revocation or expiry parts them.
THEOREM LockBacked == Spec => []LockBacksOwnership
<1>1. Init => LockBacksOwnership
  BY DEF Init, LockBacksOwnership, Controls, NoOwnership
<1>2. TypeOK /\ LockBacksOwnership /\ [Next]_vars => LockBacksOwnership'
  <2> SUFFICES ASSUME TypeOK, LockBacksOwnership, [Next]_vars,
                      NEW u \in Tasks, Controls(u)'
               PROVE  LockBacks(u)'
    BY DEF LockBacksOwnership
  <2> USE DEF TypeOK
  <2>1. ASSUME NEW w \in Workers, NEW length \in WorkerLeases, Register(w, length)
       PROVE  LockBacks(u)'
    BY <2>1 DEF Register, NextFence, LockBacksOwnership, LockBacks, Controls, Unexpired,
       LockRow, OwnershipRow
  <2>2. ASSUME NEW w \in Workers, NEW length \in WorkerLeases, Heartbeat(w, length)
       PROVE  LockBacks(u)'
    BY <2>2 DEF Heartbeat, LockBacksOwnership, LockBacks, Controls, Unexpired,
       LockRow, OwnershipRow
  <2>3. ASSUME NEW w \in Workers, Drain(w)
       PROVE  LockBacks(u)'
    BY <2>3 DEF Drain, LockBacksOwnership, LockBacks, Controls, Unexpired,
       LockRow, OwnershipRow
  <2>4. ASSUME NEW w \in Workers, Revoke(w)
       PROVE  LockBacks(u)'
    BY <2>4 DEF Revoke, LockBacksOwnership, LockBacks, Controls, Unexpired,
       LockRow, OwnershipRow
  <2>5. ASSUME NEW w \in Workers, NEW t \in Tasks, NEW length \in LeaseLengths, Claim(w,
             t, length)
       PROVE  LockBacks(u)'
    BY <2>5 DEF Claim, NextFence, LockBacksOwnership, LockBacks, Controls, Unexpired,
       LockRow, OwnershipRow
  <2>6. ASSUME NEW w \in Workers, NEW t \in Tasks, NEW length \in LeaseLengths,
             ResumeAgent(t, w, length)
       PROVE  LockBacks(u)'
    BY <2>6 DEF ResumeAgent, NextFence, LockBacksOwnership, LockBacks, Controls,
       Unexpired,
       LockRow, OwnershipRow
  <2>7. ASSUME NEW w \in Workers, NEW t \in Tasks, BindGitRef(t, w)
       PROVE  LockBacks(u)'
    BY <2>7 DEF BindGitRef, LockBacksOwnership, LockBacks, Controls, Unexpired,
       LockRow, OwnershipRow
  <2>8. ASSUME NEW t \in Tasks, NEW a \in Actors, NEW length \in LeaseLengths,
             RequestAttach(t, a, length)
       PROVE  LockBacks(u)'
    BY <2>8 DEF RequestAttach, LockBacksOwnership, LockBacks, Controls, Unexpired,
       LockRow, OwnershipRow
  <2>9. ASSUME NEW t \in Tasks, AcknowledgeAgentPaused(t)
       PROVE  LockBacks(u)'
    BY <2>9 DEF AcknowledgeAgentPaused, NextFence, LockBacksOwnership, LockBacks,
       Controls, Unexpired,
       LockRow, OwnershipRow
  <2>10. ASSUME NEW t \in Tasks, NEW a \in Actors, BeginReturn(t, a)
       PROVE  LockBacks(u)'
    BY <2>10 DEF BeginReturn, LockBacksOwnership, LockBacks, Controls, Unexpired,
       LockRow, OwnershipRow
  <2>11. ASSUME NEW t \in Tasks, CommitReturn(t)
       PROVE  LockBacks(u)'
    BY <2>11 DEF CommitReturn, LockBacksOwnership, LockBacks, Controls, Unexpired,
       LockRow, OwnershipRow
  <2>12. ASSUME NEW t \in Tasks, RefuseReturn(t)
       PROVE  LockBacks(u)'
    BY <2>12 DEF RefuseReturn, LockBacksOwnership, LockBacks, Controls, Unexpired,
       LockRow, OwnershipRow
  <2>13. ASSUME NEW t \in Tasks, NEW a \in Operators, NEW target \in {"HUMAN_OWNED",
             "RETURNING"}, NEW length \in LeaseLengths, Recover(t, a, target, length)
       PROVE  LockBacks(u)'
    BY <2>13 DEF Recover, NextFence, LockBacksOwnership, LockBacks, Controls, Unexpired,
       LockRow, OwnershipRow
  <2>14. ASSUME NEW t \in Tasks, Requeue(t)
       PROVE  LockBacks(u)'
    BY <2>14 DEF Requeue, LockBacksOwnership, LockBacks, Controls, Unexpired,
       LockRow, OwnershipRow
  <2>15. ASSUME NEW r \in Repositories, ReleaseExpiredRepositoryLock(r)
       PROVE  LockBacks(u)'
    BY <2>15 DEF ReleaseExpiredRepositoryLock, NoLock, LockBacksOwnership, LockBacks,
       Controls, Unexpired,
       LockRow, OwnershipRow
  <2>16. CASE RecoverExpired
    BY <2>16 DEF RecoverExpired, LockBacksOwnership, LockBacks, Controls, Unexpired,
       LockRow, OwnershipRow
  <2>17. CASE Tick
    BY <2>17 DEF Tick, LockBacksOwnership, LockBacks, Controls, Unexpired,
       LockRow, OwnershipRow
  <2>18. CASE UNCHANGED vars
    BY <2>18 DEF vars, LockBacksOwnership, LockBacks, Controls, Unexpired,
       LockRow, OwnershipRow
  <2> QED
    BY <2>1, <2>2, <2>3, <2>4, <2>5, <2>6, <2>7, <2>8, <2>9, <2>10, <2>11, <2>12, <2>13,
       <2>14, <2>15, <2>16, <2>17, <2>18
    DEF Next, WorkerStep, WorkspaceStep
<1> QED
  BY <1>1, <1>2, TypeCorrect, PTL DEF Spec

\* Two tasks of a repository are never under a running lease at once.
THEOREM OneWriter == Spec => []OneWriterPerRepository
<1>1. LockBacksOwnership => OneWriterPerRepository
  BY DEF LockBacksOwnership, LockBacks, OneWriterPerRepository
<1> QED
  BY <1>1, LockBacked, PTL

-------------------------------------------------------------------------------
\* An agent-owned workspace always has the live assignment it names.
THEOREM AgentAssigned == Spec => []AgentOwnedIsAssigned
<1>1. Init => AgentOwnedIsAssigned
  BY DEF Init, AgentOwnedIsAssigned, AgentIsAssigned, NoOwnership
<1>2. TypeOK /\ AgentOwnedIsAssigned /\ [Next]_vars => AgentOwnedIsAssigned'
  <2> SUFFICES ASSUME TypeOK, AgentOwnedIsAssigned, [Next]_vars, NEW u \in Tasks
               PROVE  AgentIsAssigned(u)'
    BY DEF AgentOwnedIsAssigned
  <2> USE DEF TypeOK
  <2>1. ASSUME NEW w \in Workers, NEW length \in WorkerLeases, Register(w, length)
       PROVE  AgentIsAssigned(u)'
    BY <2>1 DEF Register, NextFence, AgentOwnedIsAssigned, AgentIsAssigned, LiveAssigned,
       LiveAssignment, Unexpired, AssignmentRow, OwnershipRow
  <2>2. ASSUME NEW w \in Workers, NEW length \in WorkerLeases, Heartbeat(w, length)
       PROVE  AgentIsAssigned(u)'
    BY <2>2 DEF Heartbeat, AgentOwnedIsAssigned, AgentIsAssigned, LiveAssigned,
       LiveAssignment, Unexpired, AssignmentRow, OwnershipRow
  <2>3. ASSUME NEW w \in Workers, Drain(w)
       PROVE  AgentIsAssigned(u)'
    BY <2>3 DEF Drain, AgentOwnedIsAssigned, AgentIsAssigned, LiveAssigned,
       LiveAssignment, Unexpired, AssignmentRow, OwnershipRow
  <2>4. ASSUME NEW w \in Workers, Revoke(w)
       PROVE  AgentIsAssigned(u)'
    BY <2>4 DEF Revoke, AgentOwnedIsAssigned, AgentIsAssigned, LiveAssigned,
       LiveAssignment, Unexpired, AssignmentRow, OwnershipRow
  <2>5. ASSUME NEW w \in Workers, NEW t \in Tasks, NEW length \in LeaseLengths, Claim(w,
             t, length)
       PROVE  AgentIsAssigned(u)'
    BY <2>5 DEF Claim, NextFence, AgentOwnedIsAssigned, AgentIsAssigned, LiveAssigned,
       LiveAssignment, Unexpired, AssignmentRow, OwnershipRow
  <2>6. ASSUME NEW w \in Workers, NEW t \in Tasks, NEW length \in LeaseLengths,
             ResumeAgent(t, w, length)
       PROVE  AgentIsAssigned(u)'
    BY <2>6 DEF ResumeAgent, NextFence, AgentOwnedIsAssigned, AgentIsAssigned,
       LiveAssigned,
       LiveAssignment, Unexpired, AssignmentRow, OwnershipRow
  <2>7. ASSUME NEW w \in Workers, NEW t \in Tasks, BindGitRef(t, w)
       PROVE  AgentIsAssigned(u)'
    BY <2>7 DEF BindGitRef, AgentOwnedIsAssigned, AgentIsAssigned, LiveAssigned,
       LiveAssignment, Unexpired, AssignmentRow, OwnershipRow
  <2>8. ASSUME NEW t \in Tasks, NEW a \in Actors, NEW length \in LeaseLengths,
             RequestAttach(t, a, length)
       PROVE  AgentIsAssigned(u)'
    BY <2>8 DEF RequestAttach, AgentOwnedIsAssigned, AgentIsAssigned, LiveAssigned,
       LiveAssignment, Unexpired, AssignmentRow, OwnershipRow
  <2>9. ASSUME NEW t \in Tasks, AcknowledgeAgentPaused(t)
       PROVE  AgentIsAssigned(u)'
    BY <2>9 DEF AcknowledgeAgentPaused, NextFence, AgentOwnedIsAssigned,
       AgentIsAssigned, LiveAssigned,
       LiveAssignment, Unexpired, AssignmentRow, OwnershipRow
  <2>10. ASSUME NEW t \in Tasks, NEW a \in Actors, BeginReturn(t, a)
       PROVE  AgentIsAssigned(u)'
    BY <2>10 DEF BeginReturn, AgentOwnedIsAssigned, AgentIsAssigned, LiveAssigned,
       LiveAssignment, Unexpired, AssignmentRow, OwnershipRow
  <2>11. ASSUME NEW t \in Tasks, CommitReturn(t)
       PROVE  AgentIsAssigned(u)'
    BY <2>11 DEF CommitReturn, AgentOwnedIsAssigned, AgentIsAssigned, LiveAssigned,
       LiveAssignment, Unexpired, AssignmentRow, OwnershipRow
  <2>12. ASSUME NEW t \in Tasks, RefuseReturn(t)
       PROVE  AgentIsAssigned(u)'
    BY <2>12 DEF RefuseReturn, AgentOwnedIsAssigned, AgentIsAssigned, LiveAssigned,
       LiveAssignment, Unexpired, AssignmentRow, OwnershipRow
  <2>13. ASSUME NEW t \in Tasks, NEW a \in Operators, NEW target \in {"HUMAN_OWNED",
             "RETURNING"}, NEW length \in LeaseLengths, Recover(t, a, target, length)
       PROVE  AgentIsAssigned(u)'
    BY <2>13 DEF Recover, NextFence, AgentOwnedIsAssigned, AgentIsAssigned, LiveAssigned,
       LiveAssignment, Unexpired, AssignmentRow, OwnershipRow
  <2>14. ASSUME NEW t \in Tasks, Requeue(t)
       PROVE  AgentIsAssigned(u)'
    BY <2>14 DEF Requeue, AgentOwnedIsAssigned, AgentIsAssigned, LiveAssigned,
       LiveAssignment, Unexpired, AssignmentRow, OwnershipRow
  <2>15. ASSUME NEW r \in Repositories, ReleaseExpiredRepositoryLock(r)
       PROVE  AgentIsAssigned(u)'
    BY <2>15 DEF ReleaseExpiredRepositoryLock, NoLock, AgentOwnedIsAssigned,
       AgentIsAssigned, LiveAssigned,
       LiveAssignment, Unexpired, AssignmentRow, OwnershipRow
  <2>16. CASE RecoverExpired
    BY <2>16 DEF RecoverExpired, AgentOwnedIsAssigned, AgentIsAssigned, LiveAssigned,
       LiveAssignment, Unexpired, AssignmentRow, OwnershipRow
  <2>17. CASE Tick
    BY <2>17 DEF Tick, AgentOwnedIsAssigned, AgentIsAssigned, LiveAssigned,
       LiveAssignment, Unexpired, AssignmentRow, OwnershipRow
  <2>18. CASE UNCHANGED vars
    BY <2>18 DEF vars, AgentOwnedIsAssigned, AgentIsAssigned, LiveAssigned,
       LiveAssignment, Unexpired, AssignmentRow, OwnershipRow
  <2> QED
    BY <2>1, <2>2, <2>3, <2>4, <2>5, <2>6, <2>7, <2>8, <2>9, <2>10, <2>11, <2>12, <2>13,
       <2>14, <2>15, <2>16, <2>17, <2>18
    DEF Next, WorkerStep, WorkspaceStep
<1> QED
  BY <1>1, <1>2, TypeCorrect, PTL DEF Spec

-------------------------------------------------------------------------------
\* Control of a workspace changes hands only with a token above all earlier ones.
THEOREM ControlFenced == Spec => ControlIsFenced
<1>1. TypeOK /\ [Next]_vars =>
        [\A t \in Tasks :
           Controller(t)' # Controller(t) /\ Controller(t)' # <<NoOne, NoOne>>
             => ownership'[t].fence > fence]_vars
  <2> SUFFICES ASSUME TypeOK, [Next]_vars, NEW u \in Tasks,
                      Controller(u)' # Controller(u), Controller(u)' # <<NoOne, NoOne>>
               PROVE  ownership'[u].fence > fence
    OBVIOUS
  <2> USE DEF TypeOK
  <2>1. ASSUME NEW w \in Workers, NEW length \in WorkerLeases, Register(w, length)
       PROVE  ownership'[u].fence > fence
    BY <2>1 DEF Register, NextFence, Controller, OwnershipRow, Unexpired
  <2>2. ASSUME NEW w \in Workers, NEW length \in WorkerLeases, Heartbeat(w, length)
       PROVE  ownership'[u].fence > fence
    BY <2>2 DEF Heartbeat, Controller, OwnershipRow, Unexpired
  <2>3. ASSUME NEW w \in Workers, Drain(w)
       PROVE  ownership'[u].fence > fence
    BY <2>3 DEF Drain, Controller, OwnershipRow, Unexpired
  <2>4. ASSUME NEW w \in Workers, Revoke(w)
       PROVE  ownership'[u].fence > fence
    BY <2>4 DEF Revoke, Controller, OwnershipRow, Unexpired
  <2>5. ASSUME NEW w \in Workers, NEW t \in Tasks, NEW length \in LeaseLengths, Claim(w,
             t, length)
       PROVE  ownership'[u].fence > fence
    BY <2>5 DEF Claim, NextFence, Controller, OwnershipRow, Unexpired
  <2>6. ASSUME NEW w \in Workers, NEW t \in Tasks, NEW length \in LeaseLengths,
             ResumeAgent(t, w, length)
       PROVE  ownership'[u].fence > fence
    BY <2>6 DEF ResumeAgent, NextFence, Controller, OwnershipRow, Unexpired
  <2>7. ASSUME NEW w \in Workers, NEW t \in Tasks, BindGitRef(t, w)
       PROVE  ownership'[u].fence > fence
    BY <2>7 DEF BindGitRef, Controller, OwnershipRow, Unexpired
  <2>8. ASSUME NEW t \in Tasks, NEW a \in Actors, NEW length \in LeaseLengths,
             RequestAttach(t, a, length)
       PROVE  ownership'[u].fence > fence
    BY <2>8 DEF RequestAttach, Controller, OwnershipRow, Unexpired
  <2>9. ASSUME NEW t \in Tasks, AcknowledgeAgentPaused(t)
       PROVE  ownership'[u].fence > fence
    BY <2>9 DEF AcknowledgeAgentPaused, NextFence, Controller, OwnershipRow, Unexpired
  <2>10. ASSUME NEW t \in Tasks, NEW a \in Actors, BeginReturn(t, a)
       PROVE  ownership'[u].fence > fence
    BY <2>10 DEF BeginReturn, Controller, OwnershipRow, Unexpired
  <2>11. ASSUME NEW t \in Tasks, CommitReturn(t)
       PROVE  ownership'[u].fence > fence
    BY <2>11 DEF CommitReturn, Controller, OwnershipRow, Unexpired
  <2>12. ASSUME NEW t \in Tasks, RefuseReturn(t)
       PROVE  ownership'[u].fence > fence
    BY <2>12 DEF RefuseReturn, Controller, OwnershipRow, Unexpired
  <2>13. ASSUME NEW t \in Tasks, NEW a \in Operators, NEW target \in {"HUMAN_OWNED",
             "RETURNING"}, NEW length \in LeaseLengths, Recover(t, a, target, length)
       PROVE  ownership'[u].fence > fence
    BY <2>13 DEF Recover, NextFence, Controller, OwnershipRow, Unexpired
  <2>14. ASSUME NEW t \in Tasks, Requeue(t)
       PROVE  ownership'[u].fence > fence
    BY <2>14 DEF Requeue, Controller, OwnershipRow, Unexpired
  <2>15. ASSUME NEW r \in Repositories, ReleaseExpiredRepositoryLock(r)
       PROVE  ownership'[u].fence > fence
    BY <2>15 DEF ReleaseExpiredRepositoryLock, NoLock, Controller, OwnershipRow, Unexpired
  <2>16. CASE RecoverExpired
    BY <2>16 DEF RecoverExpired, Controller, OwnershipRow, Unexpired
  <2>17. CASE Tick
    BY <2>17 DEF Tick, Controller, OwnershipRow, Unexpired
  <2>18. CASE UNCHANGED vars
    BY <2>18 DEF vars, Controller, OwnershipRow, Unexpired
  <2> QED
    BY <2>1, <2>2, <2>3, <2>4, <2>5, <2>6, <2>7, <2>8, <2>9, <2>10, <2>11, <2>12, <2>13,
       <2>14, <2>15, <2>16, <2>17, <2>18
    DEF Next, WorkerStep, WorkspaceStep
<1> QED
  BY <1>1, TypeCorrect, PTL DEF Spec, ControlIsFenced

\* After its revocation a worker is given nothing.
THEOREM RevokedPowerless == Spec => RevokedIsPowerless
<1> DEFINE Powerless(w) ==
      /\ \A t \in Tasks : ownership'[t].worker = w => ownership[t].worker = w
      /\ \A r \in Repositories : lock'[r].holder = w => lock'[r] = lock[r]
<1>1. TypeOK /\ [Next]_vars =>
        [\A w \in Workers : worker[w].status = "REVOKED" => Powerless(w)]_vars
  <2> SUFFICES ASSUME TypeOK, [Next]_vars, NEW v \in Workers, worker[v].status = "REVOKED"
               PROVE  Powerless(v)
    OBVIOUS
  <2> USE DEF TypeOK
  <2>1. ASSUME NEW w \in Workers, NEW length \in WorkerLeases, Register(w, length)
       PROVE  Powerless(v)
    BY <2>1 DEF Register, NextFence, Available, LockRow, OwnershipRow, WorkerRow
  <2>2. ASSUME NEW w \in Workers, NEW length \in WorkerLeases, Heartbeat(w, length)
       PROVE  Powerless(v)
    BY <2>2 DEF Heartbeat, Available, LockRow, OwnershipRow, WorkerRow
  <2>3. ASSUME NEW w \in Workers, Drain(w)
       PROVE  Powerless(v)
    BY <2>3 DEF Drain, Available, LockRow, OwnershipRow, WorkerRow
  <2>4. ASSUME NEW w \in Workers, Revoke(w)
       PROVE  Powerless(v)
    BY <2>4 DEF Revoke, Available, LockRow, OwnershipRow, WorkerRow
  <2>5. ASSUME NEW w \in Workers, NEW t \in Tasks, NEW length \in LeaseLengths, Claim(w,
             t, length)
       PROVE  Powerless(v)
    BY <2>5 DEF Claim, NextFence, Available, LockRow, OwnershipRow, WorkerRow
  <2>6. ASSUME NEW w \in Workers, NEW t \in Tasks, NEW length \in LeaseLengths,
             ResumeAgent(t, w, length)
       PROVE  Powerless(v)
    BY <2>6 DEF ResumeAgent, NextFence, Available, LockRow, OwnershipRow, WorkerRow
  <2>7. ASSUME NEW w \in Workers, NEW t \in Tasks, BindGitRef(t, w)
       PROVE  Powerless(v)
    BY <2>7 DEF BindGitRef, Available, LockRow, OwnershipRow, WorkerRow
  <2>8. ASSUME NEW t \in Tasks, NEW a \in Actors, NEW length \in LeaseLengths,
             RequestAttach(t, a, length)
       PROVE  Powerless(v)
    BY <2>8 DEF RequestAttach, Available, LockRow, OwnershipRow, WorkerRow
  <2>9. ASSUME NEW t \in Tasks, AcknowledgeAgentPaused(t)
       PROVE  Powerless(v)
    BY <2>9 DEF AcknowledgeAgentPaused, NextFence, Available, LockRow, OwnershipRow,
       WorkerRow
  <2>10. ASSUME NEW t \in Tasks, NEW a \in Actors, BeginReturn(t, a)
       PROVE  Powerless(v)
    BY <2>10 DEF BeginReturn, Available, LockRow, OwnershipRow, WorkerRow
  <2>11. ASSUME NEW t \in Tasks, CommitReturn(t)
       PROVE  Powerless(v)
    BY <2>11 DEF CommitReturn, Available, LockRow, OwnershipRow, WorkerRow
  <2>12. ASSUME NEW t \in Tasks, RefuseReturn(t)
       PROVE  Powerless(v)
    BY <2>12 DEF RefuseReturn, Available, LockRow, OwnershipRow, WorkerRow
  <2>13. ASSUME NEW t \in Tasks, NEW a \in Operators, NEW target \in {"HUMAN_OWNED",
             "RETURNING"}, NEW length \in LeaseLengths, Recover(t, a, target, length)
       PROVE  Powerless(v)
    BY <2>13 DEF Recover, NextFence, Available, LockRow, OwnershipRow, WorkerRow
  <2>14. ASSUME NEW t \in Tasks, Requeue(t)
       PROVE  Powerless(v)
    BY <2>14 DEF Requeue, Available, LockRow, OwnershipRow, WorkerRow
  <2>15. ASSUME NEW r \in Repositories, ReleaseExpiredRepositoryLock(r)
       PROVE  Powerless(v)
    BY <2>15 DEF ReleaseExpiredRepositoryLock, NoLock, Available, LockRow, OwnershipRow,
       WorkerRow
  <2>16. CASE RecoverExpired
    BY <2>16 DEF RecoverExpired, Available, LockRow, OwnershipRow, WorkerRow
  <2>17. CASE Tick
    BY <2>17 DEF Tick, Available, LockRow, OwnershipRow, WorkerRow
  <2>18. CASE UNCHANGED vars
    BY <2>18 DEF vars, Available, LockRow, OwnershipRow, WorkerRow
  <2> QED
    BY <2>1, <2>2, <2>3, <2>4, <2>5, <2>6, <2>7, <2>8, <2>9, <2>10, <2>11, <2>12, <2>13,
       <2>14, <2>15, <2>16, <2>17, <2>18
    DEF Next, WorkerStep, WorkspaceStep
<1> QED
  BY <1>1, TypeCorrect, PTL DEF Spec, RevokedIsPowerless

-------------------------------------------------------------------------------
\* The repository locks implement FencedLock: every step of the services is a
\* grant, a curtailment, a use of the sequence or a tick of the abstract lock.
THEOREM FencedLockImplemented == Spec => ImplementsFencedLock
<1>1. Init => Fenced!Init
  BY DEF Init, Fenced!Init, Held, NoLock
<1>2. TypeOK /\ [Next]_vars => [Fenced!Next]_(Fenced!vars)
  <2> SUFFICES ASSUME TypeOK, [Next]_vars PROVE Fenced!Next \/ UNCHANGED Fenced!vars
    OBVIOUS
  <2>1. ASSUME NEW w \in Workers, NEW length \in WorkerLeases, Register(w, length)
       PROVE  Fenced!Issue
    BY <2>1 DEF Register, NextFence, TypeOK, Held, Fenced!Issue
  <2>2. ASSUME NEW w \in Workers, NEW length \in WorkerLeases, Heartbeat(w, length)
       PROVE  UNCHANGED Fenced!vars
    BY <2>2 DEF Heartbeat, TypeOK, Held, Fenced!vars
  <2>3. ASSUME NEW w \in Workers, Drain(w)
       PROVE  UNCHANGED Fenced!vars
    BY <2>3 DEF Drain, TypeOK, Held, Fenced!vars
  <2>4. ASSUME NEW w \in Workers, Revoke(w)
       PROVE  Fenced!Curtail
    BY <2>4 DEF Revoke, TypeOK, Held, Fenced!Curtail, LockRow
  <2>5. ASSUME NEW w \in Workers, NEW t \in Tasks, NEW length \in LeaseLengths, Claim(w,
             t, length)
       PROVE  Fenced!Grant(RepositoryOf[t], t)
    BY <2>5 DEF Claim, NextFence, TypeOK, Held, Fenced!Grant, Unexpired, LockRow
  <2>6. ASSUME NEW w \in Workers, NEW t \in Tasks, NEW length \in LeaseLengths,
             ResumeAgent(t, w, length)
       PROVE  Fenced!Grant(RepositoryOf[t], t)
    BY <2>6 DEF ResumeAgent, NextFence, TypeOK, Held, Fenced!Grant, Unexpired, LockRow
  <2>7. ASSUME NEW w \in Workers, NEW t \in Tasks, BindGitRef(t, w)
       PROVE  UNCHANGED Fenced!vars
    BY <2>7 DEF BindGitRef, TypeOK, Held, Fenced!vars
  <2>8. ASSUME NEW t \in Tasks, NEW a \in Actors, NEW length \in LeaseLengths,
             RequestAttach(t, a, length)
       PROVE  UNCHANGED Fenced!vars
    BY <2>8 DEF RequestAttach, TypeOK, Held, Fenced!vars
  <2>9. ASSUME NEW t \in Tasks, AcknowledgeAgentPaused(t)
       PROVE  Fenced!Grant(RepositoryOf[t], t)
    BY <2>9 DEF AcknowledgeAgentPaused, NextFence, TypeOK, Held, Fenced!Grant,
       Unexpired, LockRow
  <2>10. ASSUME NEW t \in Tasks, NEW a \in Actors, BeginReturn(t, a)
       PROVE  UNCHANGED Fenced!vars
    BY <2>10 DEF BeginReturn, TypeOK, Held, Fenced!vars
  <2>11. ASSUME NEW t \in Tasks, CommitReturn(t)
       PROVE  UNCHANGED Fenced!vars
    BY <2>11 DEF CommitReturn, TypeOK, Held, Fenced!vars
  <2>12. ASSUME NEW t \in Tasks, RefuseReturn(t)
       PROVE  UNCHANGED Fenced!vars
    BY <2>12 DEF RefuseReturn, TypeOK, Held, Fenced!vars
  <2>13. ASSUME NEW t \in Tasks, NEW a \in Operators, NEW target \in {"HUMAN_OWNED",
             "RETURNING"}, NEW length \in LeaseLengths, Recover(t, a, target, length)
       PROVE  Fenced!Grant(RepositoryOf[t], t)
    BY <2>13 DEF Recover, NextFence, TypeOK, Held, Fenced!Grant, Unexpired, LockRow
  <2>14. ASSUME NEW t \in Tasks, Requeue(t)
       PROVE  UNCHANGED Fenced!vars
    BY <2>14 DEF Requeue, TypeOK, Held, Fenced!vars
  <2>15. ASSUME NEW r \in Repositories, ReleaseExpiredRepositoryLock(r)
       PROVE  Fenced!Curtail
    BY <2>15 DEF ReleaseExpiredRepositoryLock, NoLock, TypeOK, Held, Fenced!Curtail,
       LockRow
  <2>16. ASSUME RecoverExpired
       PROVE  UNCHANGED Fenced!vars
    BY <2>16 DEF RecoverExpired, TypeOK, Held, Fenced!vars
  <2>17. ASSUME Tick
       PROVE  Fenced!Tick
    BY <2>17 DEF Tick, TypeOK, Held, Fenced!Tick
  <2>18. CASE UNCHANGED vars
    <3> UNCHANGED Fenced!vars
      BY <2>18 DEF vars, Held, Fenced!vars
    <3> QED
      OBVIOUS
  <2> QED
    BY <2>1, <2>2, <2>3, <2>4, <2>5, <2>6, <2>7, <2>8, <2>9, <2>10, <2>11, <2>12, <2>13,
       <2>14, <2>15, <2>16, <2>17, <2>18
    DEF Next, WorkerStep, WorkspaceStep, Fenced!Next
<1> QED
  BY <1>1, <1>2, TypeCorrect, PTL DEF Spec, ImplementsFencedLock, Fenced!Spec
===============================================================================
