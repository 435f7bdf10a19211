--------------------------- MODULE MCItemLifecycle ---------------------------
(***************************************************************************)
(* A finite instance of ItemLifecycle: an item that is assigned Loops and  *)
(* one that is burned directly, and a Run that may supersede another.      *)
(***************************************************************************)
EXTENDS ItemLifecycle, TLC

\* Processes, Runs and states of the workspace are interchangeable.
Symmetry == Permutations(Procs) \cup Permutations(Runs) \cup Permutations(Cands)
==============================================================================
