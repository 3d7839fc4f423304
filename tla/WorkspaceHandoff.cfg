CONSTANTS
  Workers = {w1, w2}
  Tasks = {t1, t2}
  Repositories = {r1}
  Actors = {h1}
  Operators = {h1}
  NoOne = NoOne
  RepositoryOf <- MCRepositoryOf
  Scope <- MCScope
  WorkerLeases = {1}
  LeaseLengths = {1, 2}
  MaxTime = 2
  MaxFence = 4
SPECIFICATION Spec
SYMMETRY Symmetric
CHECK_DEADLOCK FALSE
INVARIANTS
  TypeOK
  LockBacksOwnership
  OneWriterPerRepository
  AgentOwnedIsAssigned
PROPERTIES
  ControlIsFenced
  RevokedIsPowerless
  ImplementsFencedLock
