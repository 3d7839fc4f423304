------------------------------ MODULE TaskStates ------------------------------
(***************************************************************************)
(* The statuses of a task and who may move it from which to which: the     *)
(* table of domain/task-state.ts, for every module in which tasks move.    *)
(***************************************************************************)

Terminal == {"VERIFIED", "CANCELLED", "ABANDONED", "SUPERSEDED"}
\* Work on a task from here on follows its contract.
Contracted == {"READY", "BUILDING", "FAILED", "REVIEWING", "CHANGES_REQUESTED", "CI",
               "PR_READY", "AWAITING_APPROVAL", "MERGED", "DEPLOYED", "VERIFIED"}
Status == {"NONE", "INBOX", "REFINING", "BLOCKED"} \cup Contracted \cup Terminal

ActorRole == {"OWNER", "DEVELOPER", "PLANNER", "SCHEDULER", "BUILDER_WORKER", "REVIEWER",
              "CI_RECONCILER", "GITHUB_RECONCILER", "RELEASE_MANAGER", "OPERATOR"}

Withdrawn == {"CANCELLED", "SUPERSEDED"}
Transitions ==
  [NONE |-> {},
   INBOX |-> {"REFINING"} \cup Withdrawn,
   REFINING |-> {"BLOCKED", "READY"} \cup Withdrawn,
   BLOCKED |-> {"REFINING", "READY", "ABANDONED"} \cup Withdrawn,
   READY |-> {"BUILDING", "BLOCKED"} \cup Withdrawn,
   BUILDING |-> {"REVIEWING", "FAILED", "BLOCKED"} \cup Withdrawn,
   FAILED |-> {"READY", "ABANDONED"} \cup Withdrawn,
   REVIEWING |-> {"CHANGES_REQUESTED", "CI", "FAILED"} \cup Withdrawn,
   CHANGES_REQUESTED |-> {"BUILDING", "FAILED"} \cup Withdrawn,
   CI |-> {"PR_READY", "CHANGES_REQUESTED", "FAILED"} \cup Withdrawn,
   PR_READY |-> {"AWAITING_APPROVAL", "MERGED", "CHANGES_REQUESTED"} \cup Withdrawn,
   AWAITING_APPROVAL |-> {"MERGED", "CHANGES_REQUESTED"} \cup Withdrawn,
   MERGED |-> {"DEPLOYED", "VERIFIED"},
   DEPLOYED |-> {"VERIFIED", "FAILED"},
   VERIFIED |-> {}, CANCELLED |-> {}, ABANDONED |-> {}, SUPERSEDED |-> {}]

\* Targets that not everyone may choose; the operator may choose all.
ActorsByTarget ==
  [READY |-> {"PLANNER"}, BUILDING |-> {"SCHEDULER"}, REVIEWING |-> {"BUILDER_WORKER"},
   CI |-> {"REVIEWER"}, PR_READY |-> {"CI_RECONCILER"},
   AWAITING_APPROVAL |-> {"RELEASE_MANAGER"}, MERGED |-> {"GITHUB_RECONCILER"},
   DEPLOYED |-> {"RELEASE_MANAGER"},
   VERIFIED |-> {"RELEASE_MANAGER", "GITHUB_RECONCILER"}, SUPERSEDED |-> {}]

\* assertTaskTransition.  Seeded fault: what controlTask accepts is possible too.
MayMoveOrAbandon(from, to, role, contract) ==
  /\ to \in Transitions[from] \/ (from = "CANCELLED" /\ to = "ABANDONED")
  /\ to \in DOMAIN ActorsByTarget => role \in ActorsByTarget[to] \cup {"OPERATOR"}
  /\ to = "READY" => contract
MayMove(from, to, role, contract) ==
  /\ to \in Transitions[from]
  /\ to \in DOMAIN ActorsByTarget => role \in ActorsByTarget[to] \cup {"OPERATOR"}
  /\ to = "READY" => contract
===============================================================================
