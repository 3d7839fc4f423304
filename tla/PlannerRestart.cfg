CONSTANTS
  Tasks = {t1}
  Callers = {c1}
  NoTask = NoTask
  PlannerRetries = 3
  MaxVersion = 5
  MaxCrashes = 1
SPECIFICATION FairSpec
CHECK_DEADLOCK FALSE
PROPERTY PlanningSurvivesRestart
