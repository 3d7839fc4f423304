---------------------------- MODULE RuntimeProcess ----------------------------
(***************************************************************************)
(* The runtime as processes of one machine: the PID file that is its lock  *)
(* (runtime/process-lock.ts), its start and shutdown (index.ts) and the    *)
(* commands `praxrail runtime start` and `stop` (packages/cli/lifecycle).  *)
(*                                                                         *)
(* The lock is a file made with the exclusive flag and then written, read  *)
(* and removed by its path: each is a step of its own, between which other *)
(* processes act.  A text written through a handle goes to the file that   *)
(* was opened, which may have been removed.  A signal starts the shutdown  *)
(* whatever the startup does: a process has two threads of control.        *)
(* A PID is used once; a process whose PID is reused is not modelled.      *)
(***************************************************************************)
EXTENDS Naturals

CONSTANTS
  Pids,
  Commands,  \* terminals in which start and stop are typed
  NoFile,
  Blank      \* the text of a file that was opened and not yet written

\* A file is not the absence of one, and its text a PID or not.
ASSUME RuntimeAssumption ==
  /\ Blank \notin Pids
  /\ NoFile \notin [by : Pids, text : Pids \cup {Blank}]

VARIABLES
  pidFile,   \* the file at the path: who made it, what it says
  socket,    \* the process whose socket is at the path
  process,
  command,
  overlap    \* history: a start or stop began before another had ended

runtimeVars == <<pidFile, socket, process, command, overlap>>

Startup == {"none", "open", "write", "read", "remove", "start", "unsocket", "listen", "serve", "failed"}
Shutdown == {"none", "close", "release", "unlink", "done"}
Process == [up : Startup, down : Shutdown, tries : 0 .. 2, holds : BOOLEAN, dead : BOOLEAN]
NotSpawned == [up |-> "none", down |-> "none", tries |-> 0, holds |-> FALSE, dead |-> FALSE]

Command == [kind : {"start"}, at : {"check", "remove", "spawn"}, pid : {NoFile}]
      \cup [kind : {"start"}, at : {"poll"}, pid : Pids]
      \cup [kind : {"stop"}, at : {"check", "unlock", "unsocket"}, pid : {NoFile}]
      \cup [kind : {"stop"}, at : {"wait", "kill"}, pid : Pids]
NoCommand == [kind |-> "none"]

Alive(p) == process[p].up # "none" /\ ~process[p].dead
Says(p) == pidFile # NoFile /\ pidFile.text = p
\* runtimePid: the process the file names, if it exists.
Running(p) == Says(p) /\ Alive(p)
\* Does the file name another process that exists?  Seeded fault: does it name
\* this one.
HeldByOneself(p) == Running(p)
HeldByAnother(p) == \E q \in Pids : q # p /\ Running(q)

\* The process has started up or given up, and does not shut down.
Settled(p) ==
  ~Alive(p) \/ (process[p].up \in {"serve", "failed"} /\ process[p].down \in {"none", "done"})
Busy ==
  \/ \E p \in Pids : ~Settled(p)
  \/ \E c \in Commands : command[c] # NoCommand

\* Neither thread has anything left to do.
Ends(row) == row.up = "failed" /\ row.down = "done"

SetProcess(p, row) == process' = [process EXCEPT ![p] = [row EXCEPT !.dead = Ends(row)]]
Up(p, up) == SetProcess(p, [process[p] EXCEPT !.up = up])
\* The catch of index.ts: a shutdown of its own unless one has begun.
StartupFails(p, tries) ==
  SetProcess(p, [process[p] EXCEPT
                   !.up = "failed", !.tries = tries,
                   !.down = IF @ = "none" THEN "close" ELSE @])

-------------------------------------------------------------------------------
RuntimeInit ==
  /\ pidFile = NoFile
  /\ socket = NoFile
  /\ process = [p \in Pids |-> NotSpawned]
  /\ command = [c \in Commands |-> NoCommand]
  /\ overlap = FALSE

(* The process: acquireProcessLock, then startRuntime and listen.          *)

\* `runtime serve` in the foreground, as a service manager runs it.
Serve(p) ==
  /\ process[p].up = "none"
  /\ Up(p, "open")
  /\ overlap' = (overlap \/ Busy)
  /\ UNCHANGED <<pidFile, socket, command>>

OpenExclusive(p) ==
  /\ Alive(p) /\ process[p].up = "open"
  /\ IF pidFile = NoFile
     THEN pidFile' = [by |-> p, text |-> Blank] /\ Up(p, "write")
     ELSE Up(p, "read") /\ UNCHANGED pidFile
  /\ UNCHANGED <<socket, command, overlap>>

WritePid(p) ==
  /\ Alive(p) /\ process[p].up = "write"
  /\ pidFile' = IF pidFile # NoFile /\ pidFile.by = p
                THEN [by |-> p, text |-> p] ELSE pidFile
  /\ SetProcess(p, [process[p] EXCEPT !.up = "start", !.holds = TRUE])
  /\ UNCHANGED <<socket, command, overlap>>

\* The file exists: whose is it?  A file that went meanwhile is an error.
ReadHolder(p) ==
  /\ Alive(p) /\ process[p].up = "read"
  /\ IF pidFile = NoFile \/ HeldByAnother(p)
     THEN StartupFails(p, process[p].tries)
     ELSE Up(p, "remove")
  /\ UNCHANGED <<pidFile, socket, command, overlap>>

RemoveStale(p) ==
  /\ Alive(p) /\ process[p].up = "remove"
  /\ pidFile' = NoFile
  /\ LET tries == process[p].tries + 1 IN
     IF tries < 2 THEN SetProcess(p, [process[p] EXCEPT !.up = "open", !.tries = tries])
     ELSE StartupFails(p, tries)
  /\ UNCHANGED <<socket, command, overlap>>

StartRuntime(p) ==
  /\ Alive(p) /\ process[p].up = "start"
  /\ \/ Up(p, "unsocket")
     \/ StartupFails(p, process[p].tries)
  /\ UNCHANGED <<pidFile, socket, command, overlap>>

RemoveSocket(p) ==
  /\ Alive(p) /\ process[p].up = "unsocket"
  /\ socket' = NoFile
  /\ Up(p, "listen")
  /\ UNCHANGED <<pidFile, command, overlap>>

\* A server that was closed does not listen again.
Listen(p) ==
  /\ Alive(p) /\ process[p].up = "listen"
  /\ IF socket = NoFile /\ process[p].down \in {"none", "close"}
     THEN socket' = p /\ Up(p, "serve")
     ELSE StartupFails(p, process[p].tries) /\ UNCHANGED socket
  /\ UNCHANGED <<pidFile, command, overlap>>

(* shutdown: close what is open, remove the socket, release the lock.      *)
Terminate(p) ==
  process[p].down = "none" /\ SetProcess(p, [process[p] EXCEPT !.down = "close"])

CloseApp(p) ==
  /\ Alive(p) /\ process[p].down = "close"
  /\ socket' = NoFile
  /\ SetProcess(p, [process[p] EXCEPT
                      !.down = IF process[p].holds THEN "release" ELSE "done",
                      !.up = IF @ = "serve" THEN "failed" ELSE @])
  /\ UNCHANGED <<pidFile, command, overlap>>

\* release reads the file again; without one, reading throws.
ReadOwnLock(p) ==
  /\ Alive(p) /\ process[p].down = "release"
  /\ SetProcess(p, [process[p] EXCEPT !.down = IF Says(p) THEN "unlink" ELSE "done"])
  /\ UNCHANGED <<pidFile, socket, command, overlap>>

Unlink(p) ==
  /\ Alive(p) /\ process[p].down = "unlink"
  /\ pidFile' = NoFile
  /\ SetProcess(p, [process[p] EXCEPT !.down = "done"])
  /\ UNCHANGED <<socket, command, overlap>>

Killed(p) == process' = [process EXCEPT ![p].dead = TRUE]

\* The process dies on its own: what it held stays.
Die(p) ==
  /\ Alive(p)
  /\ Killed(p)
  /\ UNCHANGED <<pidFile, socket, command, overlap>>

-------------------------------------------------------------------------------
(* The commands.                                                           *)

CommandAt(c, kind, at) == command[c] # NoCommand /\ command[c].kind = kind /\ command[c].at = at
CommandGoes(c, at, p) == command' = [command EXCEPT ![c] = [@ EXCEPT !.at = at, !.pid = p]]
CommandEnds(c) == command' = [command EXCEPT ![c] = NoCommand]

TypeCommand(c, kind) ==
  /\ command[c] = NoCommand
  /\ command' = [command EXCEPT ![c] = [kind |-> kind, at |-> "check", pid |-> NoFile]]
  /\ overlap' = (overlap \/ Busy)
  /\ UNCHANGED <<pidFile, socket, process>>

StartCheck(c) ==
  /\ CommandAt(c, "start", "check")
  /\ IF \E p \in Pids : Running(p) THEN CommandEnds(c) ELSE CommandGoes(c, "remove", NoFile)
  /\ UNCHANGED <<pidFile, socket, process, overlap>>

StartRemove(c) ==
  /\ CommandAt(c, "start", "remove")
  /\ pidFile' = NoFile
  /\ CommandGoes(c, "spawn", NoFile)
  /\ UNCHANGED <<socket, process, overlap>>

StartSpawn(c, p) ==
  /\ CommandAt(c, "start", "spawn")
  /\ process[p].up = "none"
  /\ Up(p, "open")
  /\ CommandGoes(c, "poll", p)
  /\ UNCHANGED <<pidFile, socket, overlap>>

\* Someone is ready, the child exited, or the deadline is over.
StartEnds(c) ==
  /\ CommandAt(c, "start", "poll")
  /\ CommandEnds(c)
  /\ LET child == command[c].pid IN
     \/ UNCHANGED process /\ (socket # NoFile \/ process[child].dead)
     \/ Alive(child) /\ Terminate(child)
  /\ UNCHANGED <<pidFile, socket, overlap>>

\* stop signals the process the file names; without one it removes the files.
StopCheck(c) ==
  /\ CommandAt(c, "stop", "check")
  /\ \/ \E p \in Pids :
          /\ Running(p)
          /\ CommandGoes(c, "wait", p)
          /\ Terminate(p) \/ (process[p].down # "none" /\ UNCHANGED process)
     \/ (\A p \in Pids : ~Running(p)) /\ CommandGoes(c, "unlock", NoFile) /\ UNCHANGED process
  /\ UNCHANGED <<pidFile, socket, overlap>>

\* The deadline is over; SIGKILL leaves the process no choice.
StopKill(c) ==
  /\ CommandAt(c, "stop", "wait")
  /\ Alive(command[c].pid)
  /\ Killed(command[c].pid)
  /\ CommandGoes(c, "kill", command[c].pid)
  /\ UNCHANGED <<pidFile, socket, overlap>>

StopEnded(c) ==
  /\ CommandAt(c, "stop", "wait") \/ CommandAt(c, "stop", "kill")
  /\ process[command[c].pid].dead
  /\ CommandGoes(c, "unlock", NoFile)
  /\ UNCHANGED <<pidFile, socket, process, overlap>>

StopUnlock(c) ==
  /\ CommandAt(c, "stop", "unlock")
  /\ pidFile' = NoFile
  /\ CommandGoes(c, "unsocket", NoFile)
  /\ UNCHANGED <<socket, process, overlap>>

StopUnsocket(c) ==
  /\ CommandAt(c, "stop", "unsocket")
  /\ socket' = NoFile
  /\ CommandEnds(c)
  /\ UNCHANGED <<pidFile, process, overlap>>

RuntimeNext ==
  \/ \E p \in Pids :
       \/ Serve(p) \/ OpenExclusive(p) \/ WritePid(p) \/ ReadHolder(p) \/ RemoveStale(p)
       \/ StartRuntime(p) \/ RemoveSocket(p) \/ Listen(p)
       \/ CloseApp(p) \/ ReadOwnLock(p) \/ Unlink(p) \/ Die(p)
  \/ \E c \in Commands :
       \/ TypeCommand(c, "start") \/ StartCheck(c) \/ StartRemove(c) \/ StartEnds(c)
       \/ (\E p \in Pids : StartSpawn(c, p))
       \/ TypeCommand(c, "stop") \/ StopCheck(c) \/ StopKill(c) \/ StopEnded(c)
       \/ StopUnlock(c) \/ StopUnsocket(c)

RuntimeSpec == RuntimeInit /\ [][RuntimeNext]_runtimeVars

-------------------------------------------------------------------------------
(* Properties.                                                             *)

RuntimeTypeOK ==
  /\ pidFile \in [by : Pids, text : Pids \cup {Blank}] \cup {NoFile}
  /\ socket \in Pids \cup {NoFile}
  /\ process \in [Pids -> Process]
  /\ command \in [Commands -> Command \cup {NoCommand}]
  /\ overlap \in BOOLEAN

Holds(p) == Alive(p) /\ process[p].holds /\ process[p].down # "done"

\* As long as no start or stop begins before the last has ended, the process
\* that holds the lock is the one the file names, whatever died at whatever
\* step before: stale and half-written files are cleared away and no living
\* holder's file is.
HolderIsRecorded == ~overlap => \A p \in Pids : Holds(p) => Says(p)

\* docs/runbooks/runtime-lifecycle.md:35, of acquireProcessLock: "A second
\* process cannot acquire the active PID lock."
OneHolder == \A p, q \in Pids : Holds(p) /\ Holds(q) => p = q
===============================================================================
