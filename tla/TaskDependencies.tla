--------------------------- MODULE TaskDependencies ---------------------------
(***************************************************************************)
(* task_dependencies and the check that keeps it free of cycles.           *)
(* TaskService.addDependency locks the rows of the two tasks, searches the *)
(* committed edges for a way back, inserts and commits; transactions are   *)
(* READ COMMITTED, so an edge another transaction has inserted and not yet *)
(* committed is not found.  A claim passes over a task whose dependencies  *)
(* are not done, so the tasks of a cycle are never built.                  *)
(*                                                                         *)
(* Row locks are taken in the order of the ids and taken here in one step: *)
(* a transaction that waits for its second row does nothing meanwhile.     *)
(***************************************************************************)
CONSTANTS
  Tasks,
  Sessions   \* connections with a transaction open on behalf of a request

VARIABLES
  edges,  \* task_dependencies, committed: <<task, dependency>>
  tx      \* by session: what its addDependency has done so far

vars == <<edges, tx>>

Edges == {e \in Tasks \X Tasks : e[1] # e[2]}
NoTx == [stage |-> "none"]
TxRow == [stage : {"locked", "checked"}, edge : Edges]

Open(s) == tx[s] # NoTx

\* The rows of tasks a transaction holds: FOR UPDATE on both ends.
\* Seeded fault: the row of the task alone, as removeDependency does.
RowsOfTask(e) == {e[1]}
Rows(e) == {e[1], e[2]}

Free(rows) == \A s \in Sessions : Open(s) => rows \cap Rows(tx[s].edge) = {}

\* The recursive query: what a task leads to along committed edges.
LeadsTo(from, to) ==
  \A S \in SUBSET Tasks :
    (\A e \in edges : e[1] = from \/ e[1] \in S => e[2] \in S)
    => to \in S

-------------------------------------------------------------------------------
Init ==
  /\ edges = {}
  /\ tx = [s \in Sessions |-> NoTx]

\* addDependency as far as the locks; a task never depends on itself.
LockEnds(s, e) ==
  /\ ~Open(s)
  /\ Free(Rows(e))
  /\ tx' = [tx EXCEPT ![s] = [stage |-> "locked", edge |-> e]]
  /\ UNCHANGED edges

CheckCycle(s) ==
  /\ Open(s) /\ tx[s].stage = "locked"
  /\ tx' = [tx EXCEPT ![s] =
       IF LeadsTo(tx[s].edge[2], tx[s].edge[1]) THEN NoTx
       ELSE [stage |-> "checked", edge |-> tx[s].edge]]
  /\ UNCHANGED edges

\* The insert becomes visible, the locks go.
\* Seeded fault: the task's id in both columns.
CommitSelfEdge(s) ==
  /\ Open(s) /\ tx[s].stage = "checked"
  /\ edges' = edges \cup {<<tx[s].edge[1], tx[s].edge[1]>>}
  /\ tx' = [tx EXCEPT ![s] = NoTx]
CommitEdge(s) ==
  /\ Open(s) /\ tx[s].stage = "checked"
  /\ edges' = edges \cup {tx[s].edge}
  /\ tx' = [tx EXCEPT ![s] = NoTx]

\* The connection is lost, or a statement fails.
Rollback(s) ==
  /\ Open(s)
  /\ tx' = [tx EXCEPT ![s] = NoTx]
  /\ UNCHANGED edges

RemoveDependency(e) ==
  /\ e \in edges
  /\ Free({e[1]})
  /\ edges' = edges \ {e}
  /\ UNCHANGED tx

Next ==
  \/ \E s \in Sessions :
       (\E e \in Edges : LockEnds(s, e)) \/ CheckCycle(s) \/ CommitEdge(s) \/ Rollback(s)
  \/ \E e \in Edges : RemoveDependency(e)

Spec == Init /\ [][Next]_vars

-------------------------------------------------------------------------------
(* Properties.                                                             *)

\* Edges join two tasks; a transaction has locked, or locked and checked, one.
TypeOK ==
  /\ edges \subseteq Edges
  /\ tx \in [Sessions -> TxRow \cup {NoTx}]

\* No two and no three tasks wait for each other, however their dependencies
\* are added and removed at the same time: any two of the edges of such a cycle
\* have an end in common, whose row lock puts the two checks in order.
NoShortCycle ==
  /\ \A a, b \in Tasks : ~(<<a, b>> \in edges /\ <<b, a>> \in edges)
  /\ \A a, b, c \in Tasks :
       ~(<<a, b>> \in edges /\ <<b, c>> \in edges /\ <<c, a>> \in edges)

\* database.integration.test.ts: "manages task dependencies without permitting
\* cycles".
NoCycle == \A t \in Tasks : ~LeadsTo(t, t)
===============================================================================
