--------------------------- MODULE MCTaskLifecycle ---------------------------
EXTENDS TaskLifecycle, TLC

Symmetric == Permutations(Callers)
===============================================================================
