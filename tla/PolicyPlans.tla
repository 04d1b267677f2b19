------------------------------ MODULE PolicyPlans ------------------------------
(***************************************************************************)
(* The deterministic planners of the arena (arena/planners.py, with the    *)
(* bounds of arena/models.py): the reference proposal of a task, the       *)
(* evaluation of a proposal of any agent, and the comparison of two.       *)
(*                                                                         *)
(* Ticks and levels are the code's.  Money is counted in half cents, a     *)
(* share is a number of WHOLEs, a grid is given by the ratio of its        *)
(* adjacent prices and a venue by what it yields over the horizon: powers  *)
(* with a fractional exponent and the last digit of a float are left out,  *)
(* and so are inventories, which decide nothing.                           *)
(***************************************************************************)
EXTENDS Integers, Sequences, FiniteSets

CONSTANTS
  TickBound,   \* 887272: the ticks of the protocol
  TickLimit,   \* 887000: the ticks an input may name
  MaxSpacing,  \* 1000
  MaxWidth,    \* bound: the half width asked for
  MaxMoney,    \* bound: values and costs
  CostCap,     \* max_cost_usd, and max_slippage_bps
  SnapshotSkew,        \* 5 seconds a snapshot may lie ahead
  MaxPlanAge   \* max_snapshot_age_seconds

ASSUME PolicyConstantsOK ==
  /\ {TickBound, TickLimit, MaxSpacing, MaxWidth, MaxMoney, CostCap, SnapshotSkew, MaxPlanAge} \subseteq Nat
  /\ MaxSpacing <= TickLimit /\ TickLimit <= TickBound

VARIABLES
  plannedTask, \* the task
  planAge,     \* age of its snapshot
  judged,      \* the proposals of the last preview or comparison
  eligible     \* those that were accepted

planVars == <<plannedTask, planAge, judged, eligible>>

WHOLE == 2
Cent == 2
Up(a, b) == -((-a) \div b)
Least(a, b) == IF a < b THEN a ELSE b
Most(a, b) == IF a < b THEN b ELSE a

-----------------------------------------------------------------------------
(* Tasks *)

Costs == {CostCap, CostCap + 1}
LPInput ==
  {i \in [category : {"rebalancing"}, tick : -TickLimit .. TickLimit, low : -TickBound .. TickBound,
          high : -TickBound .. TickBound, spacing : 1 .. MaxSpacing, half : 1 .. MaxWidth,
          cost : Costs, slippage : Costs] :
     /\ i.low < i.high /\ i.low % i.spacing = 0 /\ i.high % i.spacing = 0
     /\ i.half >= i.spacing
     /\ i.high = i.low + i.spacing} \* bound: narrow old ranges
GridInput == [category : {"grid_trading"}, low : {1}, ratio : 2 .. 3, levels : 2 .. 3, capital : {6, 12},
              fee : 0 .. 2, gas : 0 .. 1, slippage : Costs, stop : {0}]
YieldInput ==
  [category : {"yield_optimisation"}, capital : {1}, staying : {1}, minimum : 0 .. 1, horizon : {1},
   venues : [{"v1", "v2"} -> [gross : {3, 4}, cost : Costs, capacity : {0, 1}, delay : {1, 2}]]]
HealthInput ==
  [category : {"health_factor_monitoring"},
   collateral : [{"c1", "c2"} -> [value : {0, MaxMoney}, threshold : {1, WHOLE}, drop : 0 .. 1]],
   debts : [{"d1"} -> [value : 0 .. MaxMoney, rise : 0 .. 1]],
   target : {3, 4}, \* of WHOLE
   available : {2, 2 * MaxMoney}, cost : Costs]
Tasks == LPInput \union GridInput \union YieldInput \union HealthInput

Fresh(age) == -SnapshotSkew <= age /\ age <= MaxPlanAge

-----------------------------------------------------------------------------
(* The models of the four categories *)

InRange(i) == i.low <= i.tick /\ i.tick < i.high
\* lp_range: outwards to the spacing, inwards to the bounds of the protocol.
Target(i) ==
  [lower |-> Most(Up(-TickBound, i.spacing) * i.spacing, ((i.tick - i.half) \div i.spacing) * i.spacing),
   upper |-> Least((TickBound \div i.spacing) * i.spacing, Up(i.tick + i.half, i.spacing) * i.spacing)]
Around(i, r) == r.lower <= i.tick /\ i.tick < r.upper

Fee(i) == i.fee + i.slippage
\* grid_metrics: net and cost of one cycle, in shares of 1/(10 + fee).
Allocation(i) == i.capital \div i.levels
CycleNet(i) == Allocation(i) * i.ratio * (10 - Fee(i)) - (Allocation(i) + 2 * i.gas) * (10 + Fee(i))
CycleCost(i) == Allocation(i) * (i.ratio - 1) * (10 + Fee(i)) - CycleNet(i)
CostWithin(i) == CycleCost(i) <= CostCap * (10 + Fee(i))
Prices(i) == [n \in 1 .. i.levels |-> i.low * i.ratio ^ (n - 1)]

\* yield_metrics
Edge(i, v) == i.venues[v].gross - i.staying - i.venues[v].cost
GoodVenue(i, v) ==
  /\ Edge(i, v) > i.minimum
  /\ i.venues[v].capacity >= i.capital /\ i.venues[v].delay <= i.horizon
  /\ i.venues[v].cost <= CostCap
GoodVenues(i) == {v \in DOMAIN i.venues : GoodVenue(i, v)}
\* Sorted by what is gained, then by name.
BestVenue(i) ==
  CHOOSE v \in GoodVenues(i) :
    \A w \in GoodVenues(i) : Edge(i, v) > Edge(i, w) \/ (Edge(i, v) = Edge(i, w) /\ (v = "v1" \/ w = "v2"))

\* health_metrics: collateral in 1/WHOLE^2, debt in 1/WHOLE of a cent.
WeighedStress(i) ==
  LET Stressed(a) == i.collateral[a].value * i.collateral[a].threshold * (WHOLE - i.collateral[a].drop)
  IN Stressed("c1") + Stressed("c2")
StressedDebt(i) == i.debts["d1"].value * (WHOLE + i.debts["d1"].rise)
\* Mutant: what is to be repaid is cut off at cents.
RepayCut(i) == Most(0, ((StressedDebt(i) * i.target - WeighedStress(i)) \div (Cent * i.target)) * Cent)
Required(i) ==
  Least(StressedDebt(i), Most(0, Up(StressedDebt(i) * i.target - WeighedStress(i), Cent * i.target) * Cent))

-----------------------------------------------------------------------------
(* reference_proposal and evaluate *)

HoldPlan == [action |-> "hold", bound |-> TRUE]
Reset(r) == [action |-> "reset_lp_range", bound |-> TRUE, range |-> r]
Grid(prices, stop) == [action |-> "plan_grid", bound |-> TRUE, prices |-> prices, stop |-> stop]
Route(v) == [action |-> "route_yield", bound |-> TRUE, venue |-> v]
Repay(n) == [action |-> "repay", bound |-> TRUE, repay |-> n]

\* lp_range raises where the range cannot contain the tick.
InReach(i) == i.category = "rebalancing" /\ ~InRange(i) => Around(i, Target(i))

Affordable(i) == i.cost <= CostCap /\ i.slippage <= CostCap
ReferenceProposal(i) ==
  CASE i.category = "rebalancing" -> IF ~InRange(i) /\ Affordable(i) THEN Reset(Target(i)) ELSE HoldPlan
    [] i.category = "grid_trading" ->
         IF CycleNet(i) > 0 /\ CostWithin(i) /\ i.slippage <= CostCap THEN Grid(Prices(i), i.stop) ELSE HoldPlan
    [] i.category = "yield_optimisation" -> IF GoodVenues(i) # {} THEN Route(BestVenue(i)) ELSE HoldPlan
    [] OTHER -> IF Required(i) > 0 /\ Required(i) <= i.available /\ i.cost <= CostCap
                THEN Repay(Required(i)) ELSE HoldPlan

HoldPasses(i) ==
  /\ ReferenceProposal(i).action = "hold"
  /\ i.category = "health_factor_monitoring" => Required(i) = 0
  /\ i.category = "rebalancing" => InRange(i)
ResetPasses(i, r) ==
  /\ -TickBound <= r.lower /\ r.lower < r.upper /\ r.upper <= TickBound
  /\ r.lower % i.spacing = 0 /\ r.upper % i.spacing = 0
  /\ Around(i, r) /\ r = Target(i) /\ ~InRange(i) /\ Affordable(i)
GridPasses(i, p) ==
  /\ Len(p.prices) = i.levels /\ p.prices = Prices(i) /\ p.stop = i.stop
  /\ CycleNet(i) > 0 /\ CostWithin(i) /\ i.slippage <= CostCap
RoutePasses(i, v) == v \in DOMAIN i.venues /\ GoodVenue(i, v)
RepayPasses(i, n) ==
  /\ 0 <= n /\ n <= StressedDebt(i) /\ n <= i.available
  /\ n >= Required(i) /\ Required(i) > 0 /\ i.cost <= CostCap

PolicyAccepted(i, p, age) ==
  /\ p.bound /\ Fresh(age)
  /\ \/ p.action = "hold" /\ HoldPasses(i)
     \/ i.category = "rebalancing" /\ p.action = "reset_lp_range" /\ ResetPasses(i, p.range)
     \/ i.category = "grid_trading" /\ p.action = "plan_grid" /\ GridPasses(i, p)
     \/ i.category = "yield_optimisation" /\ p.action = "route_yield" /\ RoutePasses(i, p.venue)
     \/ i.category = "health_factor_monitoring" /\ p.action = "repay" /\ RepayPasses(i, p.repay)

-----------------------------------------------------------------------------
(* Previews and comparisons *)

\* What other agents propose: near the reference or far from it, or for another task.
Others(i) ==
  {HoldPlan, [ReferenceProposal(i) EXCEPT !.bound = FALSE]} \union
  (CASE i.category = "rebalancing" ->
         {Reset([lower |-> Target(i).lower + a, upper |-> Target(i).upper + b]) :
            a \in {-i.spacing, 0, 1}, b \in {-1, 0, i.spacing}}
    [] i.category = "grid_trading" ->
         {Grid(Prices(i), i.stop), Grid(Tail(Prices(i)), i.stop), Grid(Prices(i), i.stop + 1)}
    [] i.category = "yield_optimisation" -> {Route(v) : v \in {"v1", "v2", "v3"}}
    [] OTHER -> {Repay(n) : n \in 0 .. 3 * MaxMoney})

Judge(ps) ==
  /\ InReach(plannedTask)
  /\ judged' = ps
  /\ eligible' = {p \in ps : PolicyAccepted(plannedTask, p, planAge)}
  /\ UNCHANGED <<plannedTask, planAge>>

PlansInit ==
  /\ plannedTask \in Tasks /\ planAge = -SnapshotSkew - 1
  /\ judged = {} /\ eligible = {}

Preview == judged = {} /\ Judge({ReferenceProposal(plannedTask)})
Compare(p) == judged = {} /\ Judge({ReferenceProposal(plannedTask), p})
PlanTick ==
  /\ judged = {} /\ planAge <= MaxPlanAge
  /\ planAge' = planAge + 1
  /\ UNCHANGED <<plannedTask, judged, eligible>>

PlansNext == Preview \/ PlanTick \/ \E p \in Others(plannedTask) : Compare(p)

PlansSpec == PlansInit /\ [][PlansNext]_planVars

-----------------------------------------------------------------------------
(* Properties *)

PlansTypeOK == plannedTask \in Tasks /\ planAge \in -SnapshotSkew - 1 .. MaxPlanAge + 1 /\ eligible \subseteq judged

\* The health of the rest, at the shock, is at least the target; a cent less would not do.
Restores(i, n) == (StressedDebt(i) - n) * i.target <= WeighedStress(i)
\* The range reaches as far as asked to both sides, but for the ends of the protocol,
\* and no spacing further.
Reaches(i, r) ==
  /\ r.upper >= i.tick + i.half \/ r.upper + i.spacing > TickBound
  /\ r.lower <= i.tick - i.half \/ r.lower - i.spacing < -TickBound
  /\ r.upper - i.spacing < i.tick + i.half /\ r.lower + i.spacing > i.tick - i.half

\* What a task asks for holds once an accepted proposal is carried out, within limits.
SettlesTask(i, p) ==
  /\ p.action = "hold" =>
       CASE i.category = "rebalancing" -> InRange(i)
         [] i.category = "health_factor_monitoring" -> Restores(i, 0)
         [] OTHER -> \A q \in Others(i) : q # HoldPlan => ~PolicyAccepted(i, q, 0)
  /\ p.action = "reset_lp_range" => Reaches(i, p.range) /\ Around(i, p.range) /\ ~InRange(i)
  /\ p.action = "plan_grid" =>
       /\ \A n \in 1 .. Len(p.prices) - 1 : p.prices[n + 1] > p.prices[n]
       /\ p.prices[1] = i.low /\ p.stop < i.low
  /\ p.action = "route_yield" => i.venues[p.venue].gross - i.venues[p.venue].cost > i.staying
  /\ p.action = "repay" => Restores(i, p.repay) /\ ~Restores(i, 0) /\ p.repay <= i.available

\* Acceptance is sound and the reference complete: an accepted proposal settles its own
\* task while its snapshot is fresh, the reference repays no cent too much, and where any
\* proposal is accepted the reference is.
PlansFitTheirTask ==
  LET ref == ReferenceProposal(plannedTask) IN
  /\ \A p \in eligible : p.bound /\ Fresh(planAge) /\ SettlesTask(plannedTask, p)
  /\ ref \in eligible /\ ref.action = "repay" => ~Restores(plannedTask, ref.repay - Cent)
  /\ eligible # {} => ref \in eligible

================================================================================
