\* Two plans, the second prepared while a transaction of the first is under way.
SPECIFICATION Spec
CONSTANTS
  MaxPlans = 2
  MaxOrders = 2
  MaxPool = 1
INVARIANTS
  FundedMeansFunded
