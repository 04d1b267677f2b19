\* Two tasks of one policy that expires, a midnight, one failure of any kind.
\* The bounds end every behaviour, so deadlock is not checked.
SPECIFICATION Spec
CONSTANTS
  t1 = t1
  t2 = t2
  p1 = p1
  k1 = k1
  k2 = k2
  Tasks = {t1, t2}
  Policies = {p1}
  Keys = {k1, k2}
  Values = {2, 3}
  PolicyTerms <- TightTerms
  SimulationTTL = 1
  DemoMode = TRUE
  AdapterOutcomes = {"success", "raise"}
  FaultKinds = {"store", "ledger", "crash"}
  NoTask = NoTask
  NoPolicy = NoPolicy
  MaxTime = 1
  MaxDay = 1
  MaxVersion = 6
  MaxFaults = 1
SYMMETRY TaskKeySymmetry
INVARIANTS
  TypeOK
  
  OneDispatchPerApproval
  BookedOnce
  ExecutionIsDecided
  LedgerFollowsStore
  OvershootIsBounded
PROPERTIES
  ImplementsLifecycle
  WhatIsOverStays
CHECK_DEADLOCK FALSE
