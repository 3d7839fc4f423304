CONSTANTS
  Tasks = {t1}
  Callers = {c1, c2}
  NoTask = NoTask
  PlannerRetries = 1
  MaxVersion = 9
  MaxCrashes = 1
SPECIFICATION FairSpec
CHECK_DEADLOCK FALSE
INVARIANTS
  TypeOK
  WorkHasContract
  ArchivedIsTerminal
PROPERTIES
  TerminalIsFinal
  NoStaleMove
  UndisturbedIsPlanned
