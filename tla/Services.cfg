\* The components whose processes or pages run on, each on its own, and the page together
\* with the agent it hires.
\* Several of them come to rest, so deadlock is not checked.
SPECIFICATION ServicesSpec
CONSTANTS
  Parts = {"hire", "seller", "watch", "push", "hired"}
  k1 = k1
  k2 = k2
  q1 = q1
  q2 = q2
  s1 = s1
  s2 = s2
  w1 = w1
  b1 = b1
  a1 = a1
  a2 = a2
  NoAlert = NoAlert
  NoJob = NoJob
  NoWatch = NoWatch
  NoWatchedJob = NoWatchedJob
  \* LiveHire
  MaxPlans = 1
  MaxOrders = 2
  MaxPool = 2
  \* SellerDelivery
  Jobs = {1, 2, 3}
  Genuine = {1, 3}
  Runs = {k1, k2}
  Requests = {q1, q2}
  Sweeps = {s1, s2}
  Unsupported = TRUE
  MaxFaults = 2
  MaxRestarts = 1
  \* WatchJournal
  JobOf <- MCJobOf
  Watches = {w1}
  WatchedJobs = {b1}
  Notifies = {w1}
  Workers = {a1, a2}
  NotifyTimeout = 1
  Lease = 2
  Interval = 2
  Spacing = 1
  MaxCalls = 2
  MaxLate = 1
  MaxWatchFaults = 1
  \* PushOutbox
  Alerts = {1, 2}
  Pushers = {q1, q2}
  MaxBinds = 2
  MaxCrashes = 1
INVARIANTS
  TypesOK
  EscrowIsSafe
  
  WorkIsPaidFor
  ChecksAreBounded
PROPERTIES
  
  RecordsOnlyAdvance
  AlertsAreHonoured
CHECK_DEADLOCK FALSE
