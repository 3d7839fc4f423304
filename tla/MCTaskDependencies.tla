-------------------------- MODULE MCTaskDependencies --------------------------
EXTENDS TaskDependencies, TLC

Symmetric == Permutations(Tasks) \cup Permutations(Sessions)
===============================================================================
