------------------------------ MODULE MCDirLock ------------------------------
(* Finite instances of DirLock. *)
EXTENDS DirLock, TLC

\* Processes, tokens and v0.0.2 owners are interchangeable in every safety
\* property.
Symmetry ==
  Permutations(Procs) \cup Permutations(Tokens) \cup Permutations(Legacies)
==============================================================================
