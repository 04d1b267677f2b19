\* VIOLATION: two executions of one policy in flight together exceed its daily cap.
SPECIFICATION Spec
CONSTANTS
  t1 = t1
  t2 = t2
  p1 = p1
  k1 = k1
  k2 = k2
  Tasks = {t1, t2}
  Policies = {p1}
  Keys = {k1, k2}
  Values = {2}
  PolicyTerms <- TightTerms
  SimulationTTL = 1
  DemoMode = TRUE
  AdapterOutcomes = {"success", "raise"}
  FaultKinds = {"store", "ledger", "crash"}
  NoTask = NoTask
  NoPolicy = NoPolicy
  MaxTime = 0
  MaxDay = 0
  MaxVersion = 6
  MaxFaults = 0
SYMMETRY TaskKeySymmetry
INVARIANTS
  SpendWithinDailyCap
CHECK_DEADLOCK FALSE
