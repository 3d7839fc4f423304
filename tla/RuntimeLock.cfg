CONSTANTS
  Pids = {p1, p2}
  Commands = {c1}
  NoFile = NoFile
  Blank = Blank
SPECIFICATION RuntimeSpec
CHECK_DEADLOCK FALSE
INVARIANT OneHolder
