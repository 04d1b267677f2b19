----------------------------- MODULE ObservedPlans -----------------------------
(***************************************************************************)
(* Observations of positions and markets (arena/*_sources.py,              *)
(* workspace/market.py) and the action plans made from them                *)
(* (workspace/actions.py, workspace/routes.py, workspace/store.py).        *)
(*                                                                         *)
(* Every source reads contracts at the hash of a block, and at the end     *)
(* asks whether that block is still on the chain.  A plan goes on reading  *)
(* at the hash of its observation, computes drafts and blockers, asks once *)
(* more, and is stored before it is handed out.  Between any two reads the *)
(* chain may drop the block or mine it again, time passes, a read fails or *)
(* the deadline of the request strikes.                                    *)
(*                                                                         *)
(* Amounts are small numbers.  What is the same of all behaviours, the     *)
(* form of answers, the wording of plans and the blockers every plan has,   *)
(* is left out; a simulation is taken to succeed where the call would.     *)
(***************************************************************************)
EXTENDS Integers, Sequences, FiniteSets

CONSTANTS
  Observers,   \* requests
  SourceSlots, \* the semaphore of a router
  MaxKept,     \* plans kept of one watch, 20
  MaxBlockAge, \* 120 seconds
  TaskAge,     \* max_snapshot_age_seconds of a task
  SwapTimes    \* bound: how often the chain changes between its two branches

ASSUME ObservedConstantsOK == {SourceSlots, MaxKept, MaxBlockAge, TaskAge, SwapTimes} \subseteq Nat

VARIABLES
  errand,  \* what is asked for: a source, a use, options
  worldAt, \* what the contracts hold at the block of either branch
  branch,  \* the branch that is the chain now
  swaps,
  keptPlans,
  looks    \* the requests

observedVars == <<errand, worldAt, branch, swaps, keptPlans, looks>>

-----------------------------------------------------------------------------
(* What may be read *)

Coins == {"BNB", "USDT"}
\* What makes a source refuse what it reads: contracts that are not the reviewed ones or
\* do not name each other, values out of their range, sums that disagree.
VenusFaults == {"controller", "underlying", "decimals", "accrual", "rate", "block time"}
HealthFaults == {"assets", "oracle", "pool", "minted", "market", "sums"}
PositionFaults == {"factory", "pair", "owner", "liquidity", "pool", "range", "tick", "decimals"}
PoolFaults == {"factory", "tokens", "fee", "decimals", "locked", "price"}
Faults(source) ==
  CASE source = "venus" -> VenusFaults [] source = "health" -> HealthFaults
    [] source = "lp" -> PositionFaults [] source = "grid" -> PoolFaults [] OTHER -> {}

GoodWorlds(source) ==
  CASE source = "wallet" -> [faults : {{}}, held : [Coins -> 0 .. 1], priced : SUBSET Coins]
    [] source = "health" ->
         [faults : {{}}, debt : 1 .. 2, balance : 1 .. 2, allowance : 0 .. 2, paused : BOOLEAN]
    [] source = "lp" -> [faults : {{}}, out : {0, 1, 3} \X {0, 3}]
    [] source = "venus" -> [faults : {{}}, pays : BOOLEAN, cash : 0 .. 2, takes : BOOLEAN,
                            supplied : 0 .. 1, cap : {0, 2}, better : BOOLEAN]
    [] OTHER -> [faults : {{}}, price : 1 .. 2]
Worlds(source) ==
  GoodWorlds(source) \union
  {[w EXCEPT !.faults = {f}] : w \in {CHOOSE g \in GoodWorlds(source) : TRUE}, f \in Faults(source)}

\* The uses the routers offer.  A plan for an LP position may withdraw it.
Errands ==
  [source : {"wallet", "grid"}, use : {"report"}, n : {0}] \union
  [source : {"lp", "venus"}, use : {"task"}, n : {0}] \union
  [source : {"health", "venus"}, use : {"plan"}, n : 1 .. 2] \union
  [source : {"lp"}, use : {"plan"}, n : {0, 50}]

-----------------------------------------------------------------------------
(* Plans *)

NoPlan == [drafts |-> <<>>, blockers |-> {}, minima |-> <<>>, simulated |-> FALSE]
Draft(do, n) == [do |-> do, n |-> n]

\* Mutant: an allowance that is already larger is left as it is.
AllowanceShort(w, n) == w.allowance < n
AllowanceDiffers(w, n) == w.allowance # n

Repayment(w, n) ==
  LET cannot == {b \in {"debt", "balance", "paused"} :
                   \/ b = "debt" /\ n > w.debt
                   \/ b = "balance" /\ n > w.balance
                   \/ b = "paused" /\ w.paused}
      clear == IF w.allowance > 0 THEN <<Draft("approve", 0)>> ELSE <<>>
  IN IF AllowanceDiffers(w, n)
     THEN [drafts |-> clear \o <<Draft("approve", n), Draft("repay", n)>>,
           blockers |-> cannot \union {"allowance"}, minima |-> <<>>, simulated |-> FALSE]
     ELSE [drafts |-> <<Draft("repay", n)>>, blockers |-> cannot, minima |-> <<>>, simulated |-> cannot = {}]

Minima(w, slippage) == [i \in 1 .. 2 |-> (w.out[i] * (100 - slippage)) \div 100]
\* A withdrawal whose minimum would be nothing is not drafted.
Protected(w, slippage) == \A i \in 1 .. 2 : w.out[i] > 0 => Minima(w, slippage)[i] > 0
Exit(w, slippage) ==
  [drafts |-> <<Draft("exit", 0)>>, blockers |-> {"quote"}, minima |-> Minima(w, slippage), simulated |-> TRUE]

\* venus_capacity and the blockers of a move: room below the cap, cash and pauses.
SupplyRoom(w) == IF w.cap > w.supplied THEN w.cap - w.supplied ELSE 0
MovePlan(w, n) ==
  [NoPlan EXCEPT !.blockers =
     {b \in {"source", "destination"} :
        \/ b = "source" /\ (~w.pays \/ w.cash < n)
        \/ b = "destination" /\ w.better /\ (~w.takes \/ SupplyRoom(w) < n)}]

PlanOf(e, w) ==
  CASE e.source = "health" -> Repayment(w, e.n)
    [] e.source = "lp" -> Exit(w, e.n)
    [] OTHER -> MovePlan(w, e.n)
Drafted(e, w) == e.source = "lp" => Protected(w, e.n)

-----------------------------------------------------------------------------
(* Reads *)

NoLook == [stage |-> "idle", block |-> 0, age |-> 0, seen |-> {}, unread |-> {}, plan |-> NoPlan]

InFlight == {r \in Observers : looks[r].stage \notin {"idle", "given", "refused"}}

ObservedInit ==
  /\ errand \in Errands
  /\ \E w \in Worlds(errand.source) :
       worldAt = <<w, CHOOSE o \in Worlds(errand.source) : o # w>>
  /\ branch = 1 /\ swaps = 0 /\ keptPlans = 0
  /\ looks = [r \in Observers |-> NoLook]

OnlyLooks == UNCHANGED <<errand, worldAt, branch, swaps, keptPlans>>
LookTo(r, stage) == looks' = [looks EXCEPT ![r].stage = stage] /\ OnlyLooks

\* A router takes no request while its slots are taken, nor a plan beyond the quota.
AskSource(r) ==
  /\ looks[r].stage = "idle"
  /\ Cardinality(InFlight) < SourceSlots
  /\ errand.use = "plan" => keptPlans < MaxKept
  /\ LookTo(r, "block")

ReadBlock(r) ==
  /\ looks[r].stage = "block"
  /\ looks' = [looks EXCEPT ![r].stage = "read", ![r].block = branch]
  /\ OnlyLooks

\* A call at the hash of a block, requireCanonical: what it says, or nothing.
SaidNow(r) == {worldAt[branch]}
SaidAt(r) == IF looks[r].block = branch THEN {worldAt[branch]} ELSE {}

ReadContracts(r) ==
  /\ looks[r].stage = "read" /\ errand.source # "wallet"
  /\ IF \E w \in SaidAt(r) : w.faults = {}
     THEN looks' = [looks EXCEPT ![r].stage = "check", ![r].seen = SaidAt(r)]
     ELSE looks' = [looks EXCEPT ![r].stage = "refused"]
  /\ OnlyLooks

\* A wallet is read coin by coin; what cannot be read is left out of its value.
ReadCoins(r) ==
  /\ looks[r].stage = "read" /\ errand.source = "wallet"
  /\ \E failed \in IF SaidAt(r) = {} THEN {Coins \X {"balance", "price"}} ELSE SUBSET (Coins \X {"balance", "price"}) :
       looks' = [looks EXCEPT ![r].stage = "check", ![r].seen = SaidAt(r), ![r].unread = failed]
  /\ OnlyLooks

\* The block is on the chain still; a wallet is also timed again.
CheckBlock(r) ==
  /\ looks[r].stage = "check"
  /\ LookTo(r, IF looks[r].block # branch \/ (errand.source = "wallet" /\ looks[r].age > MaxBlockAge) THEN "refused"
               ELSE IF errand.use = "report" THEN "given" ELSE errand.use)

\* source_lp_task, source_yield_task: the snapshot of the task is the block.
MakeTask(r) ==
  /\ looks[r].stage = "task"
  /\ LookTo(r, IF looks[r].age <= TaskAge THEN "given" ELSE "refused")

PreparePlan(r) ==
  /\ looks[r].stage = "plan"
  /\ IF \E w \in SaidAt(r) : Drafted(errand, w)
     THEN \E w \in SaidAt(r) :
            looks' = [looks EXCEPT ![r].stage = "finish", ![r].seen = @ \union {w}, ![r].plan = PlanOf(errand, w)]
     ELSE looks' = [looks EXCEPT ![r].stage = "refused"]
  /\ OnlyLooks

FinishPlan(r) ==
  /\ looks[r].stage = "finish"
  /\ LookTo(r, IF looks[r].block = branch /\ looks[r].age <= MaxBlockAge THEN "save" ELSE "refused")

SavePlan(r) ==
  /\ looks[r].stage = "save"
  /\ looks' = [looks EXCEPT ![r].stage = IF keptPlans < MaxKept THEN "given" ELSE "refused"]
  /\ keptPlans' = IF keptPlans < MaxKept THEN keptPlans + 1 ELSE keptPlans
  /\ UNCHANGED <<errand, worldAt, branch, swaps>>

\* Another process of the site stores a plan of the same watch.
OtherSaves ==
  /\ errand.use = "plan" /\ keptPlans < MaxKept
  /\ keptPlans' = keptPlans + 1
  /\ UNCHANGED <<errand, worldAt, branch, swaps, looks>>

\* A stale block, an error of the node, an answer out of form, the deadline.
LookFails(r) == r \in InFlight /\ LookTo(r, "refused")

Swap ==
  /\ swaps < SwapTimes
  /\ swaps' = swaps + 1 /\ branch' = 3 - branch
  /\ UNCHANGED <<errand, worldAt, keptPlans, looks>>

SourceTick ==
  /\ \E r \in InFlight : looks[r].block # 0 /\ looks[r].age <= MaxBlockAge
  /\ looks' = [r \in Observers |->
                 IF r \in InFlight /\ looks[r].block # 0 /\ looks[r].age <= MaxBlockAge
                 THEN [looks[r] EXCEPT !.age = @ + 1] ELSE looks[r]]
  /\ OnlyLooks

ObservedNext ==
  \/ Swap \/ SourceTick \/ OtherSaves
  \/ \E r \in Observers :
       \/ AskSource(r) \/ ReadBlock(r) \/ ReadContracts(r) \/ ReadCoins(r) \/ CheckBlock(r)
       \/ MakeTask(r) \/ PreparePlan(r) \/ FinishPlan(r) \/ SavePlan(r) \/ LookFails(r)

ObservedSpec == ObservedInit /\ [][ObservedNext]_observedVars

-----------------------------------------------------------------------------
(* Properties *)

ObservedTypeOK ==
  /\ branch \in 1 .. 2 /\ keptPlans \in 0 .. MaxKept
  /\ \A r \in Observers :
       /\ looks[r].stage \in {"idle", "block", "read", "check", "task", "plan", "finish", "save", "given", "refused"}
       /\ looks[r].block \in 0 .. 2 /\ looks[r].age \in 0 .. MaxBlockAge + 1

Given == {r \in Observers : looks[r].stage = "given"}

\* wallet_summary: the value of what could be read, and whether that is all.
Unvalued(w, unread) ==
  {c \in Coins : <<c, "balance">> \in unread \/ (w.held[c] > 0 /\ (<<c, "price">> \in unread \/ c \notin w.priced))}
Valued(w, unread) ==
  LET Worth(c) == IF c \in w.priced /\ <<c, "balance">> \notin unread /\ <<c, "price">> \notin unread
                  THEN w.held[c] ELSE 0
  IN Worth("BNB") + Worth("USDT")

\* The wallet signs the drafts in order; a token takes a new allowance only over none,
\* and the market what is owed, held, allowed and not paused.
SignNext(w, a, d) ==
  IF ~a.ok THEN a
  ELSE IF d.do = "approve"
  THEN [ok |-> d.n = 0 \/ a.allowance = 0, debt |-> a.debt, balance |-> a.balance, allowance |-> d.n]
  ELSE [ok |-> ~w.paused /\ d.n <= a.debt /\ d.n <= a.balance /\ d.n <= a.allowance,
        debt |-> a.debt - d.n, balance |-> a.balance - d.n, allowance |-> a.allowance - d.n]
Signed(w, drafts) ==
  LET after[k \in 0 .. Len(drafts)] ==
        IF k = 0 THEN [ok |-> TRUE, debt |-> w.debt, balance |-> w.balance, allowance |-> w.allowance]
        ELSE SignNext(w, after[k - 1], drafts[k])
  IN after[Len(drafts)]

\* A plan without a reason against it does what was asked, and one with such a reason
\* would have failed: a repayment repays the amount and leaves nothing approved, a
\* move finds cash and room, a withdrawal pays no less than the slippage allows.
ActsAsAsked(e, w, p) ==
  CASE e.source = "health" ->
         LET a == Signed(w, p.drafts) IN
         /\ a.ok = (p.blockers \subseteq {"allowance"})
         /\ a.ok => a.debt = w.debt - e.n /\ a.allowance = 0
         /\ p.blockers = {} => p.simulated
    [] e.source = "lp" ->
         \A i \in 1 .. 2 : /\ p.minima[i] <= w.out[i]
                           /\ p.minima[i] = 0 => w.out[i] = 0
                           /\ (w.out[i] - p.minima[i] - 1) * 100 < w.out[i] * e.n
    [] OTHER -> p.blockers = {} <=>
                  w.pays /\ e.n <= w.cash /\ (w.better => w.takes /\ w.supplied + e.n <= w.cap)

\* What is handed out was true of the contracts at one block; a plan does there what was
\* asked, and a wallet called completely valued has the value it had there.
PlansActAsAsked ==
  \A r \in Given :
    LET w == worldAt[looks[r].block] IN
    /\ looks[r].seen \subseteq {w}
    /\ errand.use = "plan" => ActsAsAsked(errand, w, looks[r].plan)
    /\ errand.source = "wallet" /\ Unvalued(w, looks[r].unread) = {} =>
         Valued(w, looks[r].unread) = w.held["BNB"] + w.held["USDT"]

================================================================================
