-------------------------- MODULE MCWorkspaceHandoff --------------------------
(* One repository under contention: two tasks, two workers, one human who is *)
(* also the operator.                                                       *)
EXTENDS WorkspaceHandoff, TLC

MCRepositoryOf == [t \in Tasks |-> CHOOSE r \in Repositories : TRUE]
MCScope == [w \in Workers |-> Repositories]
Symmetric == Permutations(Workers) \cup Permutations(Tasks)
===============================================================================
