--------------------------- MODULE MCTaskAffinity ---------------------------
(* TaskAffinity for a process of a few threads.                             *)
EXTENDS TaskAffinity, TLC

\* Every thread but the main one is like the others.
TidSymmetry == Permutations(Tids \ {Main})
=============================================================================
