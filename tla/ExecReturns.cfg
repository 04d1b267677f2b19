\* Policies of both kinds, every answer of the adapter, ledger appends that fail.
\* The process lives.
SPECIFICATION FairSpec
CONSTANTS
  t1 = t1
  t2 = t2
  p1 = p1
  k1 = k1
  k2 = k2
  Tasks = {t1}
  Policies = {p1}
  Keys = {k1, k2}
  Values = {0, 2}
  PolicyTerms <- MixedTerms
  SimulationTTL = 1
  DemoMode = TRUE
  AdapterOutcomes = {"success", "failure", "raise"}
  FaultKinds = {"ledger"}
  NoTask = NoTask
  NoPolicy = NoPolicy
  MaxTime = 1
  MaxDay = 0
  MaxVersion = 6
  MaxFaults = 1
INVARIANTS
  EffectsAreRecorded
PROPERTIES
  NeverStuckExecuting
  
CHECK_DEADLOCK FALSE
