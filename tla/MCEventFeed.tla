---------------------------- MODULE MCEventFeed ----------------------------
(***************************************************************************)
(* A finite instance of EventFeed: more events than the stream retains,    *)
(* batches and selections that are full, and one client of each kind.      *)
(***************************************************************************)
EXTENDS EventFeed, TLC

\* Events are interchangeable.
Symmetry == Permutations(Events)
==============================================================================
