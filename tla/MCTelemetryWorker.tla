--------------------------- MODULE MCTelemetryWorker ---------------------------
(* A worker for TLC: each request and the scenario it is for. *)
EXTENDS TelemetryWorker, TLC

CONSTANTS a, b,           \* scenarios
          e1, e2, p1,     \* requests for the one; p1 only projects
          f1              \* a request for the other

MCScenarioOf == [e \in Events |-> IF e = f1 THEN b ELSE a]
Symmetry == Permutations({e1, e2})
================================================================================
