\* A buyer's plan whose order may be created twice, with pages left and opened at any
\* time; and two funded jobs, one with the seller's quote, with failures of any kind, a
\* restart, and buyers that keep notifying.
SPECIFICATION ServedSpec
CONSTANTS
  MaxPlans = 1
  MaxOrders = 1
  MaxPool = 1
  j1 = j1
  j2 = j2
  k1 = k1
  k2 = k2
  q1 = q1
  s1 = s1
  NoJob = NoJob
  Jobs = {j1, j2}
  Genuine = {j1}
  Runs = {k1, k2}
  Requests = {q1}
  Sweeps = {s1}
  Unsupported = FALSE
  MaxFaults = 2
  MaxRestarts = 1
INVARIANTS
  OnlyGenuineWork
PROPERTIES
  FundedIsServed
  
