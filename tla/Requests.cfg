\* The components that answer requests, each on its own.
\* Several of them come to rest, so deadlock is not checked.
SPECIFICATION RequestsSpec
CONSTANTS
  Parts = {"ledger", "arena", "gateway", "harness", "auth", "contracts", "quotes", "council", "market", "replay", "gates", "claims", "plans", "observed"}
  p1 = p1
  p2 = p2
  x1 = x1
  x2 = x2
  NoPayload = NoPayload
  Genesis = Genesis
  \* EvidenceLedger
  Processes = {p1, p2}
  Payloads = {x1, x2}
  Cuts = {"nothing", "inside", "newline"}
  Edits = TRUE
  MaxLines = 6
  \* ArenaJournal
  Writers = {"w1", "w2"}
  ArenaTasks = {"t1"}
  Texts = {"a", "b"}
  Meaning <- MCMeaning
  ArenaKeys = {"k1", "k2"}
  MaxArenaTasks = 1
  MaxProposals = 2
  MaxEdits = 3
  \* ArenaGateway
  Routes = {"r1"}
  Quotes = {1, 2}
  QuoteSlots = 1
  MaxAsked = 4
  \* PluginHarness
  Plugins = {1, 2, 3}
  Caps = {1, 2}
  MaxPluginRestarts = 2
  \* WalletAuth
  AuthProcesses = {1, 2}
  MaxChallenges = 2
  \* Contracts
  Accounts = {"a1", "a2"}
  Intents = {1, 2, 3}
  Calls = {"c1", "c2"}
  AllowedCalls = {"c1"}
  AgentIds = {"x"}
  UintMax = 7
  MaxPerCall = 4
  MaxTotal = 6
  MaxSequence = 3
  \* SignedQuote
  QuoteRequests = {1, 2}
  Signers = {"p", "q"}
  Reviewed = "p"
  MaxQuotes = 2
  MaxOrdered = 1
  LastSecond = 2
  \* DesignCouncil
  MaxAltered = 1
  \* MarketView
  Listings = {"l1", "l2"}
  SignedOnly = {"l2"}
  Known = {"l1", "l2"}
  EndpointOf <- MCEndpointOf
  Readers = {"r1", "r2"}
  Ttl = 1
  LoadTimeout = 1
  FreshFor = 3
  \* PaidReplay
  Blocks = {"b1", "b2"}
  NoBlock = NoBlock
  Schemas = {"safehire-live-hire-v1", "safehire-external-hire-v2"}
  Reorgs = 3
  DeepEnough = 2
  \* EvidenceGates
  Categories = {"c1"}
  MaxUnsound = 1
  \* DeliveryClaims
  Outputs = {"o1", "o2"}
  NoOutput = NoOutput
  Proposals = {"o1"}
  Undos = 2
  MaxAge = 0
  Patience = 1
  \* PolicyPlans
  TickBound = 4
  TickLimit = 3
  MaxSpacing = 3
  MaxWidth = 3
  MaxMoney = 3
  CostCap = 1
  SnapshotSkew = 0
  MaxPlanAge = 0
  \* ObservedPlans
  Observers = {1}
  SourceSlots = 1
  MaxKept = 1
  MaxBlockAge = 1
  TaskAge = 0
  SwapTimes = 2
INVARIANTS
  TypesOK
  FileIsSound EditIsDetected
  FailuresAreRecent
  
  
  
  
  PlansFitTheirTask
  PlansActAsAsked
PROPERTIES
  SubmissionsAreSerial
  
  CarryingOutHelps
  OffersWereHeard
  VerifiedAtOneBlock
  ClaimsHold
CHECK_DEADLOCK FALSE
