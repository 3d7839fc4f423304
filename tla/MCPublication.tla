---------------------------- MODULE MCPublication ----------------------------
\* Publication for TLC: publishers are alike.
EXTENDS Publication, TLC

Symmetry == Permutations(Publishers)

\* It is a changed added file that makes a diff too long.
AddedIsLong == {diff \in Snapshot : diff[2] \notin {Base, NoFile}}
===============================================================================
