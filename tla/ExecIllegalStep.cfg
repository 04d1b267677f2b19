\* VIOLATION: a failing add_spend turns SUCCEEDED into FAILED.
SPECIFICATION Spec
CONSTANTS
  t1 = t1
  t2 = t2
  p1 = p1
  k1 = k1
  k2 = k2
  Tasks = {t1}
  Policies = {p1}
  Keys = {k1}
  Values = {2}
  PolicyTerms <- TightTerms
  SimulationTTL = 1
  DemoMode = TRUE
  AdapterOutcomes = {"success", "raise"}
  FaultKinds = {"store"}
  NoTask = NoTask
  NoPolicy = NoPolicy
  MaxTime = 2
  MaxDay = 0
  MaxVersion = 6
  MaxFaults = 1
PROPERTIES
  OnlyAllowedTransitions
CHECK_DEADLOCK FALSE
