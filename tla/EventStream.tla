----------------------------- MODULE EventStream -----------------------------
(***************************************************************************)
(* task_events and task_output_chunks as streams: transactions append rows *)
(* whose ids come from a sequence, clients poll for the rows beyond their  *)
(* cursor (EventStreamService, PraxrailClient.watch and watchOutput).      *)
(*                                                                         *)
(* An id is drawn when the row is inserted, the row is seen when its       *)
(* transaction commits, so a reader may pass an id that is not there yet.  *)
(* What may commit out of order is decided by the row of the task: a move  *)
(* of TaskService locks it FOR UPDATE before it inserts; any other insert  *)
(* locks it FOR KEY SHARE, through the foreign key, after drawing its id.  *)
(***************************************************************************)
EXTENDS Naturals, FiniteSetsExt

CONSTANTS
  Streamed,  \* tasks
  Writers,   \* connections with a transaction
  PageLimit,
  MaxRows    \* bound: ids drawn from a sequence

VARIABLES
  sequence,  \* by table: the last id drawn
  rows,      \* by table: the committed rows
  writer,
  cursor,    \* by table and scope: where its reader has come to
  given      \* history: by table and scope, the ids the reader was given

streamVars == <<sequence, rows, writer, cursor, given>>

Tables == {"task_events", "task_output_chunks"}
\* move: a transaction of TaskService; other: of a handoff or a clarification.
Kinds == {"move", "other", "chunk"}
TableOf(kind) == IF kind = "chunk" THEN "task_output_chunks" ELSE "task_events"

Everything == "every task"
ASSUME StreamAssumption ==
  PageLimit \in Nat \ {0} /\ MaxRows \in Nat /\ Everything \notin Streamed
ScopesOf(table) == Streamed \cup (IF table = "task_events" THEN {Everything} ELSE {})

StreamRow == [id : 1 .. MaxRows, kind : Kinds, of : Streamed]
NotWriting == [at |-> "none"]
Writer == [at : {"locked", "inserted", "checked"}, kind : Kinds, of : Streamed, id : 0 .. MaxRows]

Writing(w) == writer[w] # NotWriting
LocksForUpdate(w, k) == Writing(w) /\ writer[w].kind = "move" /\ writer[w].of = k
LocksKeyShare(w, k) == Writing(w) /\ writer[w].at = "checked" /\ writer[w].of = k

-------------------------------------------------------------------------------
StreamInit ==
  /\ sequence = [t \in Tables |-> 0]
  /\ rows = [t \in Tables |-> {}]
  /\ writer = [w \in Writers |-> NotWriting]
  /\ cursor = [t \in Tables |-> [s \in ScopesOf(t) |-> 0]]
  /\ given = [t \in Tables |-> [s \in ScopesOf(t) |-> {}]]

SetWriter(w, row) == writer' = [writer EXCEPT ![w] = row]
NextId(kind) == sequence[TableOf(kind)] + 1
Draw(kind) ==
  /\ NextId(kind) \leq MaxRows
  /\ sequence' = [sequence EXCEPT ![TableOf(kind)] = @ + 1]

\* A transaction of TaskService selects its task FOR UPDATE before anything else.
SelectTask(w, k) ==
  /\ ~Writing(w)
  /\ \A v \in Writers : ~LocksForUpdate(v, k) /\ ~LocksKeyShare(v, k)
  /\ SetWriter(w, [at |-> "locked", kind |-> "move", of |-> k, id |-> 0])
  /\ UNCHANGED <<sequence, rows, cursor, given>>

\* appendEvent of TaskService: the foreign key finds the lock it needs.
AppendMove(w) ==
  /\ Writing(w) /\ writer[w].at = "locked"
  /\ Draw("move")
  /\ SetWriter(w, [writer[w] EXCEPT !.at = "checked", !.id = NextId("move")])
  /\ UNCHANGED <<rows, cursor, given>>

\* A handoff's event, whose transaction has locked rows of other tables, a
\* clarification's, which locks nothing; output is appended the same way.
AppendRow(w, k, kind) ==
  /\ ~Writing(w)
  /\ Draw(kind)
  /\ SetWriter(w, [at |-> "inserted", kind |-> kind, of |-> k, id |-> NextId(kind)])
  /\ UNCHANGED <<rows, cursor, given>>
AppendOther(w, k) == AppendRow(w, k, "other")
AppendOutput(w, k) == AppendRow(w, k, "chunk")

\* The foreign key's check, which waits for a FOR UPDATE lock.
\* Seeded fault: it does not wait, as it would not for FOR NO KEY UPDATE.
CheckForeignKeyAtOnce(w) ==
  /\ Writing(w) /\ writer[w].at = "inserted"
  /\ SetWriter(w, [writer[w] EXCEPT !.at = "checked"])
  /\ UNCHANGED <<sequence, rows, cursor, given>>
CheckForeignKey(w) ==
  /\ Writing(w) /\ writer[w].at = "inserted"
  /\ \A v \in Writers : ~LocksForUpdate(v, writer[w].of)
  /\ SetWriter(w, [writer[w] EXCEPT !.at = "checked"])
  /\ UNCHANGED <<sequence, rows, cursor, given>>

CommitRow(w) ==
  /\ Writing(w) /\ writer[w].at = "checked"
  /\ rows' = [rows EXCEPT ![TableOf(writer[w].kind)] = @ \cup
       {[id |-> writer[w].id, kind |-> writer[w].kind, of |-> writer[w].of]}]
  /\ SetWriter(w, NotWriting)
  /\ UNCHANGED <<sequence, cursor, given>>

\* The id is not given back.
RollbackRow(w) ==
  /\ Writing(w)
  /\ SetWriter(w, NotWriting)
  /\ UNCHANGED <<sequence, rows, cursor, given>>

-------------------------------------------------------------------------------
\* The first rows of the scope beyond the cursor.
Beyond(table, scope) ==
  {r.id : r \in {q \in rows[table] : q.id > cursor[table][scope] /\ scope \in {q.of, Everything}}}
Page(table, scope) ==
  {i \in Beyond(table, scope) : Cardinality({j \in Beyond(table, scope) : j < i}) < PageLimit}

\* One round of watch or watchOutput: a page is asked for, handed on, and its
\* last id is the next cursor.
ReadOn(table, scope) ==
  /\ Page(table, scope) # {}
  /\ cursor' = [cursor EXCEPT ![table][scope] = Max(Page(table, scope))]
  /\ given' = [given EXCEPT ![table][scope] = @ \cup Page(table, scope)]
  /\ UNCHANGED <<sequence, rows, writer>>
Watch(scope) == ReadOn("task_events", scope)
WatchOutput(task) == ReadOn("task_output_chunks", task)

StreamNext ==
  \/ \E w \in Writers :
       \/ \E k \in Streamed : SelectTask(w, k) \/ AppendOther(w, k) \/ AppendOutput(w, k)
       \/ AppendMove(w) \/ CheckForeignKey(w) \/ CommitRow(w) \/ RollbackRow(w)
  \/ \E s \in ScopesOf("task_events") : Watch(s)
  \/ \E k \in Streamed : WatchOutput(k)

StreamSpec == StreamInit /\ [][StreamNext]_streamVars

-------------------------------------------------------------------------------
(* Properties.                                                             *)

StreamTypeOK ==
  /\ sequence \in [Tables -> 0 .. MaxRows]
  /\ rows \in [Tables -> SUBSET StreamRow]
  /\ writer \in [Writers -> Writer \cup {NotWriting}]
  /\ \A t \in Tables :
       /\ cursor[t] \in [ScopesOf(t) -> 0 .. MaxRows]
       /\ given[t] \in [ScopesOf(t) -> SUBSET (1 .. MaxRows)]

\* Who watches one task is given every move of that task that was committed:
\* no reader's cursor passes one that commits later.  This is so of moves, which
\* hold the task's row from before their id is drawn; it is not so of handoffs,
\* clarifications and output, nor of who watches every task.
MovesReachTheirReader ==
  \A r \in rows["task_events"] :
    r.kind = "move" /\ r.id \leq cursor["task_events"][r.of] => r.id \in given["task_events"][r.of]
===============================================================================
