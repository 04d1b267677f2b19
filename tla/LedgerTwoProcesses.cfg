\* VIOLATION: two processes append to the file at once and break the chain.
\* A file that is full or cannot be read stops every append, so deadlock is not checked.
SPECIFICATION LedgerSpec
CONSTANTS
  p1 = p1
  p2 = p2
  x1 = x1
  x2 = x2
  Processes = {p1, p2}
  Payloads = {x1, x2}
  Genesis = Genesis
  NoPayload = NoPayload
  Cuts = {"nothing"}
  Edits = FALSE
  MaxLines = 3
SYMMETRY PayloadSymmetry
INVARIANTS
  ChainIntact
CHECK_DEADLOCK FALSE
