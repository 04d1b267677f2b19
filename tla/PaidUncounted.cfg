\* An order as the site creates it.
SPECIFICATION ReplaySpec
CONSTANTS
  Blocks = {"b1", "b2"}
  NoBlock = NoBlock
  Schemas = {"safehire-external-hire-v2"}
  Reorgs = 1
  DeepEnough = 2
INVARIANT TrueClaimIsCounted
CHECK_DEADLOCK FALSE
