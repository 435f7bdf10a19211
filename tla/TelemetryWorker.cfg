SPECIFICATION Spec
CONSTANTS
  a = a
  b = b
  e1 = e1
  e2 = e2
  f1 = f1
  p1 = p1
  Scenarios = {a, b}
  Events = {e1, e2, f1, p1}
  ScenarioOf <- MCScenarioOf
  Telemetry = {e1, e2, f1}
  None = None
  MaxScenarios = 2
  MaxAccepted = 2
  MaxRejected = 1
  MaxAttempts = 2
  MaxProjections = 1
  MaxDeliveries = 2
  MaxFaults = 1
SYMMETRY Symmetry
INVARIANTS
  TypeOK
  Reopens
PROPERTIES
  DeletedWhenDurable
  AcceptedOnce
  PublishedCurrent
