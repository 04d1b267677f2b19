------------------------------ MODULE MCRequests ------------------------------
(***************************************************************************)
(* The components that answer requests, for TLC: one run checks all of     *)
(* them, which share no state.  `part' names the component whose steps are *)
(* taken; the others stay as they start.                                   *)
(***************************************************************************)
EXTENDS EvidenceLedger, ArenaJournal, ArenaGateway, PluginHarness, WalletAuth, Contracts, SignedQuote, DesignCouncil,
        MarketView, PaidReplay, EvidenceGates, DeliveryClaims, PolicyPlans, ObservedPlans

CONSTANTS p1, p2, x1, x2
CONSTANT Parts \* the components a run checks

VARIABLE part

MCMeaning == [x \in Texts |-> x]
MCEndpointOf == [l \in Listings |-> "e1"]

FirstTask == CHOOSE t \in GridInput : TRUE

\* A component that only waits starts in one of its states.
OnlyIf(p, start) == IF part = p THEN TRUE ELSE start

RequestsInit ==
  /\ part \in Parts
  /\ OnlyIf("replay", facts = [b \in Blocks |-> Facts] /\ schema = ReviewedSchema /\ canonical = "b1")
  /\ OnlyIf("plans", plannedTask = FirstTask)
  /\ OnlyIf("observed", errand = [source |-> "grid", use |-> "report", n |-> 0])
  /\ ObservedInit /\ OnlyIf("observed", worldAt[1].faults = {} /\ worldAt[1].price = 1)
  /\ ClaimsInit /\ OnlyIf("claims", hint /\ snapBlock.bound)
  /\ LedgerInit /\ ArenaInit /\ GatewayInit /\ HarnessInit /\ AuthInit /\ ContractsInit /\ QuotesInit
  /\ CouncilInit /\ MarketInit /\ ReplayInit /\ GatesInit /\ PlansInit

Waits(p, u) == IF part = p THEN TRUE ELSE u
OthersWait ==
  /\ part' = part
  /\ Waits("ledger", UNCHANGED ledgerVars) /\ Waits("arena", UNCHANGED arenaVars)
  /\ Waits("gateway", UNCHANGED gatewayVars) /\ Waits("harness", UNCHANGED harnessVars)
  /\ Waits("auth", UNCHANGED authVars) /\ Waits("contracts", UNCHANGED contractVars)
  /\ Waits("quotes", UNCHANGED quoteVars) /\ Waits("council", UNCHANGED councilVars)
  /\ Waits("market", UNCHANGED marketVars) /\ Waits("replay", UNCHANGED replayVars)
  /\ Waits("gates", UNCHANGED gatesVars) /\ Waits("claims", UNCHANGED claimVars)
  /\ Waits("plans", UNCHANGED planVars) /\ Waits("observed", UNCHANGED observedVars)

RequestsNext ==
  \/ part = "ledger" /\ LedgerNext /\ SoleWriter' /\ OthersWait
  \/ part = "arena" /\ ArenaNext /\ OthersWait
  \/ part = "gateway" /\ GatewayNext /\ OthersWait
  \/ part = "harness" /\ HarnessNext /\ OthersWait
  \/ part = "auth" /\ AuthNext /\ OthersWait
  \/ part = "contracts" /\ ContractsNext /\ OthersWait
  \/ part = "quotes" /\ QuotesNext /\ OthersWait
  \/ part = "council" /\ CouncilNext /\ OthersWait
  \/ part = "market" /\ MarketNext /\ OthersWait
  \/ part = "replay" /\ ReplayNext /\ OthersWait
  \/ part = "gates" /\ GatesNext /\ OthersWait
  \/ part = "claims" /\ ClaimsNext /\ OthersWait
  \/ part = "plans" /\ PlansNext /\ OthersWait
  \/ part = "observed" /\ ObservedNext /\ OthersWait

RequestsSpec == RequestsInit /\ [][RequestsNext]_<<part, ledgerVars, arenaVars, gatewayVars, harnessVars, authVars, contractVars,
  quoteVars, councilVars, marketVars, replayVars, gatesVars, claimVars, planVars, observedVars>>

\* Every component keeps to its types.
TypesOK ==
  CASE part = "ledger" -> LedgerTypeOK
    [] part = "arena" -> ArenaTypeOK
    [] part = "harness" -> HarnessTypeOK
    [] part = "council" -> CouncilTypeOK
    [] part = "market" -> MarketTypeOK
    [] part = "replay" -> ReplayTypeOK
    [] part = "gates" -> GatesTypeOK
    [] part = "claims" -> ClaimsTypeOK
    [] part = "plans" -> PlansTypeOK
    [] part = "observed" -> ObservedTypeOK
    [] OTHER -> part \in Parts
===============================================================================
