CONSTANTS
  Tasks = {t1, t2, t3, t4}
  Sessions = {s1, s2, s3}
SPECIFICATION Spec
SYMMETRY Symmetric
CHECK_DEADLOCK FALSE
INVARIANT NoCycle
