---------------------------- MODULE Requests_types ----------------------------
(***************************************************************************)
(* The components that answer requests, proved together: each keeps to its *)
(* types, what the run MCRequests explores are behaviours of the           *)
(* components' own specifications, and so all that TLC checks of that run  *)
(* holds for every value of the constants.                                 *)
(***************************************************************************)
EXTENDS MCRequests, Requests_proofs, Arena_proofs, EvidenceLedger_proofs

-----------------------------------------------------------------------------
(* The types *)

\* A proposal is never worse than the worst, and only what there is a kind of is to be
\* changed.
FlawsBounded ==
  /\ \A k \in Kinds : flaws[k] \in 0 .. Worst[k]
  /\ decision.changes \subseteq Kinds \union {"altana"}

LEMMA WorstIsCounted == \A k \in Kinds : Worst[k] \in Nat \ {0}
  BY DEF Kinds, Worst

LEMMA CouncilTyped ==
  /\ CouncilInit => FlawsBounded
  /\ CouncilInv /\ FlawsBounded /\ [CouncilNext]_councilVars => FlawsBounded'
  <1>1. ASSUME CouncilInit  PROVE FlawsBounded
    <2>1. \A k \in Kinds : flaws[k] \in {0, 1}
      BY <1>1 DEF CouncilInit, DefaultProposal
    <2> QED  BY <1>1, <2>1, WorstIsCounted DEF FlawsBounded, CouncilInit, NoDecision
  <1>2. ASSUME CouncilInv, FlawsBounded, [CouncilNext]_councilVars  PROVE FlawsBounded'
    <2>0. flaws \in [Kinds -> Nat]  BY <1>2 DEF CouncilInv, Flaws
    <2>1. CASE Review
      <3>1. decision'.changes \subseteq Kinds \union {"altana"}
        BY <2>1 DEF Review, Decided
      <3> QED  BY <1>2, <2>1, <3>1 DEF Review, FlawsBounded
    <2>2. ASSUME NEW k \in Kinds, Rewrite(k)  PROVE FlawsBounded'
      <3>1. PICK n \in 0 .. Worst[k] : flaws' = [flaws EXCEPT ![k] = n]
        BY <2>2 DEF Rewrite
      <3>2. decision' = decision  BY <2>2 DEF Rewrite
      <3> QED  BY <1>2, <2>0, <3>1, <3>2 DEF FlawsBounded
    <2>3. ASSUME NEW k \in Kinds \union {"altana"}, CarryOut(k)  PROVE FlawsBounded'
      <3>1. \A i \in Kinds : flaws'[i] \in Nat /\ flaws'[i] <= flaws[i]
        BY <1>2, <2>3, CarriedOut DEF Flaws, NoWorse
      <3>2. decision' = decision  BY <2>3 DEF CarryOut
      <3> QED  BY <1>2, <2>0, <3>1, <3>2, WorstIsCounted DEF FlawsBounded
    <2>4. CASE UNCHANGED councilVars
      BY <1>2, <2>4 DEF councilVars, FlawsBounded
    <2> QED  BY <1>2, <2>1, <2>2, <2>3, <2>4 DEF CouncilNext
  <1> QED  BY <1>1, <1>2

LEMMA CouncilTypes == CouncilSpec => []CouncilTypeOK
  <1>1. CouncilInv /\ FlawsBounded => CouncilTypeOK
    BY DEF CouncilInv, FlawsBounded, CouncilTypeOK, Statements
  <1> QED  BY <1>1, CouncilStarts, CouncilGoesOn, CouncilTyped, PTL DEF CouncilSpec

\* An age is not told apart beyond the longest that matters.
SnapshotAges == snapshot.age \in 0 .. Longest

LEMMA SnapshotAgesOn ==
  /\ MarketInit => SnapshotAges
  /\ MarketInv /\ SnapshotAges /\ [MarketNext]_marketVars => SnapshotAges'
  <1>1. ASSUME MarketInit  PROVE SnapshotAges
    BY <1>1, MarketNumbers DEF MarketInit, EmptySnapshot, SnapshotAges
  <1>2. ASSUME MarketInv, SnapshotAges, [MarketNext]_marketVars  PROVE SnapshotAges'
    <2>0. snapshot \in SnapshotShape /\ load \in LoadShape  BY <1>2 DEF MarketInv
    <2>1. CASE snapshot' = snapshot
      BY <1>2, <2>1 DEF SnapshotAges
    <2>2. CASE EndLoad
      <3>1. snapshot'.age = load.age  BY <2>2 DEF EndLoad
      <3>2. load.age \in 0 .. LoadTimeout  BY <2>0 DEF LoadShape
      <3> QED  BY <3>1, <3>2, MarketNumbers, MarketConstantsOK DEF MarketConstantsOK, Longest, SnapshotAges
    <2>3. CASE FailLoad
      <3>1. snapshot'.age = snapshot.age  BY <2>0, <2>3 DEF FailLoad, Kept, SnapshotShape
      <3> QED  BY <1>2, <3>1 DEF SnapshotAges
    <2>4. CASE MarketTick
      <3>1. snapshot'.age = IF snapshot.age = Longest THEN snapshot.age ELSE snapshot.age + 1
        BY <2>0, <2>4 DEF MarketTick, SnapshotShape
      <3> QED  BY <1>2, <3>1, MarketNumbers DEF SnapshotAges
    <2> QED
      BY <1>2, <2>1, <2>2, <2>3, <2>4, Zenon DEF MarketNext, Probe, Lookup, AskIndex, Turn, Hold, marketVars
  <1> QED  BY <1>1, <1>2

LEMMA MarketTypes == MarketSpec => []MarketTypeOK
  <1>1. MarketInit => MarketInv
    BY MarketNumbers DEF MarketInit, MarketInv, NoLoad, EmptySnapshot, LoadShape, SnapshotShape, HeardWithin
  <1>2. MarketInv /\ SnapshotAges => MarketTypeOK
    BY DEF MarketInv, SnapshotAges, MarketTypeOK, LoadShape, SnapshotShape
  <1> QED  BY <1>1, <1>2, MarketGoesOn, SnapshotAgesOn, PTL DEF MarketSpec

\* Confirmations are not told apart beyond those that are enough.
DepthBounded == depth \in 1 .. DeepEnough

LEMMA ReplayTypes == ReplaySpec => []ReplayTypeOK
  <1>1. ReplayInit => DepthBounded
    BY ReplayConstantsOK DEF ReplayConstantsOK, ReplayInit, DepthBounded
  <1>2. DepthBounded /\ [ReplayNext]_replayVars => DepthBounded'
    BY ReplayConstantsOK DEF ReplayConstantsOK, ReplayNext, Confirm, Reorganize, replayVars, DepthBounded
  <1>3. ReplayInv /\ DepthBounded => ReplayTypeOK
    BY DEF ReplayInv, DepthBounded, ReplayTypeOK
  <1> QED  BY <1>1, <1>2, <1>3, DepthCounts, ReplayStarts, ReplayGoesOn, PTL DEF ReplaySpec

PiecesKnown == sound \subseteq Pieces

LEMMA GatesTypes == GatesSpec => []GatesTypeOK
  <1>1. GatesInit => PiecesKnown
    BY DEF GatesInit, PiecesKnown
  <1>2. PiecesKnown /\ [GatesNext]_gatesVars => PiecesKnown'
    <2>1. ASSUME PiecesKnown, NEW p \in Pieces, Write(p)  PROVE PiecesKnown'
      BY <2>1 DEF Write, PiecesKnown
    <2>2. ASSUME sound' = sound, PiecesKnown  PROVE PiecesKnown'
      BY <2>2 DEF PiecesKnown
    <2> QED
      BY <2>1, <2>2, Zenon
         DEF GatesNext, ReplayDelivery, RunGate, Build, StartRefresh, EndRefresh, Day, AddSupplier, gatesVars
  <1>3. GatesInv /\ PiecesKnown => GatesTypeOK
    BY DEF GatesInv, PiecesKnown, GatesTypeOK
  <1> QED  BY <1>1, <1>2, <1>3, GatesStart, GatesGoOn, PTL DEF GatesSpec

\* No route waits longer than its patience.
WaitsInTime == claim.waited \in 0 .. Patience

LEMMA ClaimsTypes == ClaimsSpec => []ClaimsTypeOK
  <1>1. ClaimsInit => WaitsInTime
    BY ClaimBounds DEF ClaimsInit, NoClaim, WaitsInTime
  <1>2. ASSUME ClaimInv, WaitsInTime, [ClaimsNext]_claimVars  PROVE WaitsInTime'
    <2>0. claim \in [of : {"none", "review", "dossier", "acceptance"}, stage : ClaimStages,
                     hash : OutputsOrNone, shown : OutputsOrNone, waited : Nat]
      BY <1>2 DEF ClaimInv, ClaimTypes
    <2>1. ASSUME claim'.waited \in {0, claim.waited}  PROVE WaitsInTime'
      BY <1>2, <2>1, ClaimBounds DEF WaitsInTime
    <2>2. CASE ClaimTick
      <3>1. CASE claim.of = "acceptance" /\ claim.stage \notin Over
        <4>1. claim'.waited = claim.waited + 1 /\ claim.waited < Patience
          BY <2>0, <2>2, <3>1 DEF ClaimTick
        <4> QED  BY <1>2, <4>1, ClaimBounds DEF WaitsInTime
      <3>2. CASE ~(claim.of = "acceptance" /\ claim.stage \notin Over)
        <4>1. claim' = claim  BY <2>2, <3>2 DEF ClaimTick
        <4> QED  BY <2>1, <4>1
      <3> QED  BY <3>1, <3>2
    <2>3. ASSUME claim' = claim  PROVE WaitsInTime'
      BY <2>1, <2>3
    <2>4. CASE Claims
      <3>1. ASSUME NEW of, Begin(of)  PROVE claim'.waited = 0
        BY <3>1 DEF Begin, NoClaim
      <3>2. ASSUME NEW stage, GoesOn(stage)  PROVE claim'.waited = claim.waited
        BY <2>0, <3>2 DEF GoesOn
      <3>3. CASE ReadDelivered
        <4>1. claim'.waited = claim.waited
          BY <2>0, <3>2, <3>3 DEF ReadDelivered
        <4> QED  BY <2>1, <4>1
      <3>4. CASE FetchManifest
        <4>1. claim'.waited = claim.waited
          BY <2>0, <3>4 DEF FetchManifest
        <4> QED  BY <2>1, <4>1
      <3> QED
        BY <2>1, <2>4, <3>1, <3>2, <3>3, <3>4, Zenon
           DEF Claims, SearchSubmission, ReadHint, ReadHintBlock, ReadCompleted, SearchCompletion, ReadPayment,
               CheckFresh, CheckTask, ReadSnapshotBlock, ReadIdentity, ReadUnmoved, BreakOff, GoesOnIf
    <2> QED
      BY <1>2, <2>2, <2>3, <2>4, Zenon
         DEF ClaimsNext, Commit, Store, Conclude, Undo, Settles, GetsOld, SnapshotMoves, claimVars
  <1>3. ClaimInv /\ WaitsInTime => ClaimsTypeOK
    BY DEF ClaimInv, ClaimTypes, WaitsInTime, ClaimsTypeOK, OutputsOrNone
  <1> QED  BY <1>1, <1>2, <1>3, ClaimStarts, ClaimGoesOn, PTL DEF ClaimsSpec

\* A snapshot is followed until it is too old.
PlanAges == planAge \in -SnapshotSkew - 1 .. MaxPlanAge + 1

LEMMA PlansTypes == PlansSpec => []PlansTypeOK
  <1>0. SnapshotSkew \in Nat /\ MaxPlanAge \in Nat
    BY PolicyConstantsOK DEF PolicyConstantsOK
  <1>1. PlansInit => PlanAges
    BY <1>0 DEF PlansInit, PlanAges
  <1>2. ASSUME PlanAges, [PlansNext]_planVars  PROVE PlanAges'
    <2>1. CASE PlanTick
      BY <1>0, <1>2, <2>1 DEF PlanTick, PlanAges
    <2>2. CASE planAge' = planAge
      BY <1>2, <2>2 DEF PlanAges
    <2> QED  BY <1>2, <2>1, <2>2, Zenon DEF PlansNext, Preview, Compare, Judge, planVars
  <1>3. PlansInv => eligible \subseteq judged
    BY DEF PlansInv
  <1>4. PlansInv /\ PlanAges => PlansTypeOK
    BY <1>3 DEF PlansInv, PlanAges, PlansTypeOK
  <1> QED  BY <1>1, <1>2, <1>4, PlansGoOn, PTL DEF PlansSpec

\* What can be resolved is a capability, and the application does one of seven things.
HarnessRanges ==
  /\ services \subseteq Caps /\ pluginRestarts \in 0 .. MaxPluginRestarts
  /\ harnessPhase \in {"configured", "ordering", "starting", "running", "restarting", "stopping", "stopped"}

LEMMA HarnessTypesOn == ASSUME HarnessInv, HarnessRanges, [HarnessNext]_harnessVars  PROVE HarnessRanges'
  <1>0. provides \in [Plugins -> SUBSET Caps] /\ todo \in Seq(Plugins) /\ (harnessPhase = "restarting" => todo # <<>>)
    BY DEF HarnessInv, HarnessTypes, StopInv
  <1>1. ASSUME NEW p \in Plugins, Provided(p) \/ services' = services \/ services' = services \ provides[p]
        PROVE  services' \subseteq Caps
    BY <1>0, <1>1 DEF Provided, HarnessRanges
  <1>2. ASSUME services' \subseteq Caps, pluginRestarts' = pluginRestarts,
               harnessPhase' \in {"configured", "ordering", "starting", "running", "restarting", "stopping", "stopped"}
        PROVE  HarnessRanges'
    BY <1>2 DEF HarnessRanges
  <1>3. harnessPhase \in {"configured", "ordering", "starting", "running", "restarting", "stopping", "stopped"}
    BY DEF HarnessRanges
  <1>4. services \subseteq Caps  BY DEF HarnessRanges
  <1>5. ASSUME StartNext  PROVE HarnessRanges'
    <2>1. Head(todo) \in Plugins  BY <1>0, <1>5 DEF StartNext
    <2>2. Provided(Head(todo)) \/ services' = services  BY <1>5 DEF StartNext, StartOne, FailOne
    <2> QED  BY <1>1, <1>2, <1>3, <1>5, <2>1, <2>2 DEF StartNext
  <1>6. ASSUME StopNext  PROVE HarnessRanges'
    <2>1. Head(todo) \in Plugins  BY <1>0, <1>6 DEF StopNext
    <2>2. services' = services \/ services' = services \ provides[Head(todo)]  BY <1>6 DEF StopNext, StopOne
    <2> QED  BY <1>1, <1>2, <1>3, <1>6, <2>1, <2>2 DEF StopNext
  <1>7. ASSUME NEW p \in Plugins, RestartPlugin(p)  PROVE HarnessRanges'
    <2>1. services' = services \/ services' = services \ provides[p]  BY <1>7 DEF RestartPlugin, StopOne
    <2>2. pluginRestarts' = pluginRestarts + 1 /\ pluginRestarts < MaxPluginRestarts
      BY <1>7 DEF RestartPlugin
    <2>3. harnessPhase' \in {"restarting", harnessPhase}  BY <1>7 DEF RestartPlugin
    <2>4. services' \subseteq Caps  BY <1>1, <2>1
    <2>5. pluginRestarts' \in 0 .. MaxPluginRestarts
      BY <2>2, HarnessConstantsOK DEF HarnessConstantsOK, HarnessRanges
    <2> QED  BY <1>3, <2>3, <2>4, <2>5 DEF HarnessRanges
  <1>8. ASSUME RestartDone  PROVE HarnessRanges'
    <2>1. Head(todo) \in Plugins  BY <1>0, <1>8 DEF RestartDone
    <2>2. Provided(Head(todo)) \/ services' = services  BY <1>8 DEF RestartDone, StartOne, FailOne
    <2> QED  BY <1>1, <1>2, <1>8, <2>1, <2>2 DEF RestartDone
  <1>9. ASSUME Configure \/ StartAll \/ StartDone \/ StopAll \/ StopDone \/ UNCHANGED harnessVars
        PROVE  HarnessRanges'
    <2>1. services' = services /\ pluginRestarts' = pluginRestarts
      BY <1>9, Zenon DEF Configure, StartAll, StartDone, StopAll, StopDone, harnessVars
    <2>2. harnessPhase' \in {"ordering", "starting", "running", "stopping", "stopped", harnessPhase}
      BY <1>9 DEF Configure, StartAll, StartDone, StopAll, StopDone, harnessVars
    <2> QED  BY <1>2, <1>3, <1>4, <2>1, <2>2
  <1> QED  BY <1>5, <1>6, <1>7, <1>8, <1>9 DEF HarnessNext

LEMMA HarnessTyped == HarnessSpec => []HarnessTypeOK
  <1>1. HarnessInit => HarnessRanges
    BY HarnessConstantsOK DEF HarnessConstantsOK, HarnessInit, HarnessRanges
  <1>2. ASSUME HarnessInv, HarnessRanges  PROVE HarnessTypeOK
    <2>1. started \in Seq(Plugins) /\ todo \in Seq(Plugins)  BY <1>2 DEF HarnessInv, HarnessTypes
    <2>2. ListedIn(started) = {started[i] : i \in 1 .. Len(started)} /\ ListedIn(todo) = {todo[i] : i \in 1 .. Len(todo)}
      BY <2>1, Listed
    <2>3. ListedIn(started) \union ListedIn(todo) \subseteq Plugins  BY <2>1, <2>2
    <2>4. \A p \in Plugins : handle[p] = "started" => p \in ListedIn(started)
      BY <1>2, <2>2 DEF HarnessInv, StartInv, AllListed, On
    <2> QED  BY <1>2, <2>3, <2>4 DEF HarnessInv, HarnessTypes, HarnessRanges, HarnessTypeOK, Phase
  <1> QED  BY <1>1, <1>2, HarnessGoesOn, HarnessTypesOn, PTL DEF HarnessSpec

\* A request is in one of its stages, and is timed until its block is too old.
LookTyped(x) ==
  /\ x.stage \in {"idle", "block", "read", "check", "task", "plan", "finish", "save", "given", "refused"}
  /\ x.age \in 0 .. MaxBlockAge + 1
LooksTyped == keptPlans \in 0 .. MaxKept /\ \A r \in Observers : LookTyped(looks[r])

LEMMA LooksTypedOn == ASSUME ObservedInv, LooksTyped, [ObservedNext]_observedVars  PROVE LooksTyped'
  <1>0. MaxKept \in Nat /\ MaxBlockAge \in Nat
    BY ObservedConstantsOK DEF ObservedConstantsOK
  <1>1. \A r \in Observers : DOMAIN looks[r] = LookParts /\ LookTyped(looks[r])
    BY DEF ObservedInv, LookOK, LooksTyped
  <1>2. DOMAIN looks = Observers /\ keptPlans \in 0 .. MaxKept
    BY DEF ObservedInv, LooksTyped
  <1>3. ASSUME NEW r \in Observers, NEW y, looks' = [looks EXCEPT ![r] = y], LookTyped(y),
               keptPlans' \in 0 .. MaxKept
        PROVE  LooksTyped'
    BY <1>1, <1>2, <1>3 DEF LooksTyped
  <1>4. ASSUME NEW r \in Observers, NEW stage, looks' = [looks EXCEPT ![r].stage = stage],
               stage \in {"idle", "block", "read", "check", "task", "plan", "finish", "save", "given", "refused"},
               keptPlans' \in 0 .. MaxKept
        PROVE  LooksTyped'
    <2> DEFINE x == looks[r]
               y == [x EXCEPT !.stage = stage]
    <2>1. y.stage = stage /\ y.age = x.age  BY <1>1 DEF LookParts
    <2>2. LookTyped(y)  BY <1>1, <1>4, <2>1 DEF LookTyped
    <2>3. looks' = [looks EXCEPT ![r] = y]  BY <1>4
    <2> HIDE DEF y
    <2> QED  BY <1>3, <1>4, <2>2, <2>3
  <1>5. ASSUME NEW r \in Observers, AskSource(r) \/ CheckBlock(r) \/ MakeTask(r) \/ FinishPlan(r) \/ LookFails(r)
        PROVE  LooksTyped'
    <2>1. errand.use \in {"report", "task", "plan"}  BY ErrandSources DEF ObservedInv
    <2>2. ASSUME NEW stage, LookTo(r, stage),
                 stage \in {"idle", "block", "read", "check", "task", "plan", "finish", "save", "given", "refused"}
          PROVE  LooksTyped'
      BY <1>2, <1>4, <2>2 DEF LookTo, OnlyLooks
    <2>3. CASE AskSource(r)  BY <2>2, <2>3 DEF AskSource
    <2>4. CASE CheckBlock(r)
      <3>1. PICK stage \in {"refused", "given", errand.use} : LookTo(r, stage) /\ (stage = "report" => stage = "given")
        BY <2>4 DEF CheckBlock
      <3> QED  BY <2>1, <2>2, <3>1
    <2>5. CASE MakeTask(r)
      <3>1. PICK stage \in {"given", "refused"} : LookTo(r, stage)  BY <2>5 DEF MakeTask
      <3> QED  BY <2>2, <3>1
    <2>6. CASE FinishPlan(r)
      <3>1. PICK stage \in {"save", "refused"} : LookTo(r, stage)  BY <2>6 DEF FinishPlan
      <3> QED  BY <2>2, <3>1
    <2>7. CASE LookFails(r)  BY <2>2, <2>7 DEF LookFails
    <2> QED  BY <1>5, <2>3, <2>4, <2>5, <2>6, <2>7
  <1>6. ASSUME NEW r \in Observers, ReadBlock(r) \/ ReadContracts(r) \/ ReadCoins(r) \/ PreparePlan(r)
        PROVE  LooksTyped'
    <2> DEFINE x == looks[r]
    <2>1. keptPlans' \in 0 .. MaxKept
      BY <1>2, <1>6 DEF ReadBlock, ReadContracts, ReadCoins, PreparePlan, OnlyLooks
    <2>2. ASSUME NEW y, looks' = [looks EXCEPT ![r] = y], y.age = x.age, y.stage \in {"read", "check", "finish"}
          PROVE  LooksTyped'
      <3>1. LookTyped(y)  BY <1>1, <2>2 DEF LookTyped
      <3> HIDE DEF x
      <3> QED  BY <1>3, <2>1, <2>2, <3>1
    <2>3. ASSUME looks' = [looks EXCEPT ![r].stage = "refused"]  PROVE LooksTyped'
      BY <1>4, <2>1, <2>3
    <2>4. CASE ReadBlock(r)
      <3> DEFINE y == [x EXCEPT !.stage = "read", !.block = branch]
      <3>1. looks' = [looks EXCEPT ![r] = y]  BY <2>4 DEF ReadBlock
      <3>2. y.stage = "read" /\ y.age = x.age  BY <1>1 DEF LookParts
      <3> HIDE DEF x, y
      <3> QED  BY <2>2, <3>1, <3>2
    <2>5. CASE ReadContracts(r)
      <3> DEFINE y == [x EXCEPT !.stage = "check", !.seen = SaidAt(r)]
      <3>1. looks' = [looks EXCEPT ![r] = y] \/ looks' = [looks EXCEPT ![r].stage = "refused"]
        BY <2>5 DEF ReadContracts
      <3>2. y.stage = "check" /\ y.age = x.age  BY <1>1 DEF LookParts
      <3> HIDE DEF x, y
      <3> QED  BY <2>2, <2>3, <3>1, <3>2
    <2>6. CASE ReadCoins(r)
      <3>1. PICK missed : looks' = [looks EXCEPT ![r].stage = "check", ![r].seen = SaidAt(r), ![r].unread = missed]
        BY <2>6 DEF ReadCoins
      <3> DEFINE y == [x EXCEPT !.stage = "check", !.seen = SaidAt(r), !.unread = missed]
      <3>2. looks' = [looks EXCEPT ![r] = y]  BY <3>1
      <3>3. y.stage = "check" /\ y.age = x.age  BY <1>1 DEF LookParts
      <3> HIDE DEF x, y
      <3> QED  BY <2>2, <3>2, <3>3
    <2>7. CASE PreparePlan(r)
      <3>1. ASSUME NEW w, looks' = [looks EXCEPT ![r].stage = "finish", ![r].seen = @ \union {w},
                                                 ![r].plan = PlanOf(errand, w)]
            PROVE  LooksTyped'
        <4> DEFINE y == [x EXCEPT !.stage = "finish", !.seen = x.seen \union {w}, !.plan = PlanOf(errand, w)]
        <4>1. looks' = [looks EXCEPT ![r] = y]  BY <3>1
        <4>2. y.stage = "finish" /\ y.age = x.age  BY <1>1 DEF LookParts
        <4> HIDE DEF x, y
        <4> QED  BY <2>2, <4>1, <4>2
      <3> QED  BY <2>3, <2>7, <3>1 DEF PreparePlan
    <2> QED  BY <1>6, <2>4, <2>5, <2>6, <2>7
  <1>7. ASSUME NEW r \in Observers, SavePlan(r)  PROVE LooksTyped'
    <2>1. keptPlans' \in 0 .. MaxKept  BY <1>0, <1>2, <1>7 DEF SavePlan
    <2>2. PICK stage \in {"given", "refused"} : looks' = [looks EXCEPT ![r].stage = stage]
      BY <1>7 DEF SavePlan
    <2> QED  BY <1>4, <2>1, <2>2
  <1>8. CASE SourceTick
    <2>1. keptPlans' = keptPlans  BY <1>8 DEF SourceTick, OnlyLooks
    <2>2. ASSUME NEW r \in Observers  PROVE LookTyped(looks'[r])
      <3> DEFINE x == looks[r]
                 y == [x EXCEPT !.age = @ + 1]
      <3>1. looks'[r] = x \/ (looks'[r] = y /\ x.age <= MaxBlockAge)  BY <1>8 DEF SourceTick
      <3>2. y.stage = x.stage /\ y.age = x.age + 1  BY <1>1 DEF LookParts
      <3>3. LookTyped(x)  BY <1>1
      <3> HIDE DEF x, y
      <3> QED  BY <1>0, <3>1, <3>2, <3>3 DEF LookTyped
    <2> QED  BY <1>2, <2>1, <2>2 DEF LooksTyped
  <1>9. CASE Swap \/ OtherSaves \/ UNCHANGED observedVars
    <2>1. looks' = looks /\ keptPlans' \in 0 .. MaxKept
      BY <1>0, <1>2, <1>9 DEF Swap, OtherSaves, observedVars
    <2> QED  BY <2>1 DEF LooksTyped
  <1> QED  BY <1>5, <1>6, <1>7, <1>8, <1>9 DEF ObservedNext

LEMMA ObservedTypes == ObservedSpec => []ObservedTypeOK
  <1>1. ASSUME ObservedInit  PROVE LooksTyped
    <2>1. MaxKept \in Nat /\ MaxBlockAge \in Nat
      BY ObservedConstantsOK DEF ObservedConstantsOK
    <2>2. LookTyped(NoLook)  BY <2>1 DEF NoLook, LookTyped
    <2>3. looks = [r \in Observers |-> NoLook] /\ keptPlans = 0  BY <1>1 DEF ObservedInit
    <2> QED  BY <2>1, <2>2, <2>3 DEF LooksTyped
  <1>2. ObservedInv /\ LooksTyped => ObservedTypeOK
    BY DEF ObservedInv, LookOK, LooksTyped, LookTyped, ObservedTypeOK
  <1> QED  BY <1>1, <1>2, ObservedGoesOn, LooksTypedOn, PTL DEF ObservedSpec

\* Any request a client may send again names a key, and every answer one that was asked.
ArenaRanges ==
  /\ aged \subseteq ArenaTasks /\ edits \in 0 .. MaxEdits
  /\ \A w \in Writers : writer[w].answer \in {"sent", "lost"} => writer[w].key \in ArenaKeys
  /\ \A a \in answers : a.raw \in Texts /\ a.key \in ArenaKeys

LEMMA RepliesTyped ==
  ASSUME ArenaStoreInv, ArenaRanges, NEW w \in Writers, writer[w].answer = "sent",
         NEW answer, answer \notin {"sent", "lost"}, NEW p, Reply(w, answer, p), UNCHANGED <<aged, edits>>
  PROVE  ArenaRanges'
  <1>1. writer \in [Writers -> Requests] /\ AskedOf(writer[w])
    BY DEF ArenaStoreInv, ClientsInv
  <1>2. writer[w].key \in ArenaKeys /\ writer[w].text \in Texts
    BY <1>1 DEF ArenaRanges, AskedOf
  <1>3. PICK said \in {"lost", answer} : writer' = [writer EXCEPT ![w].answer = said]
    BY DEF Reply
  <1>4. \A v \in Writers : v # w => writer'[v] = writer[v]
    BY <1>1, <1>3
  <1>5. writer'[w].key = writer[w].key
    BY <1>1, <1>3 DEF Requests
  <1>6. ASSUME NEW a \in answers'  PROVE a.raw \in Texts /\ a.key \in ArenaKeys
    <2>1. CASE a \in answers  BY <2>1 DEF ArenaRanges
    <2>2. CASE a \notin answers
      <3>1. a = [task |-> writer[w].task, key |-> writer[w].key,
                 raw |-> writer[w].text, version |-> p.version, report |-> p.report]
        BY <2>2 DEF Reply
      <3> QED  BY <1>2, <3>1
    <2> QED  BY <2>1, <2>2
  <1> QED  BY <1>2, <1>4, <1>5, <1>6 DEF ArenaRanges

LEMMA ArenaTypesOn == ASSUME ArenaStoreInv, ArenaRanges, [ArenaNext]_arenaVars  PROVE ArenaRanges'
  <1>0. writer \in [Writers -> Requests]  BY DEF ArenaStoreInv, ClientsInv
  <1>1. ASSUME aged' \subseteq ArenaTasks, edits' \in 0 .. MaxEdits, UNCHANGED <<writer, answers>>
        PROVE  ArenaRanges'
    BY <1>1 DEF ArenaRanges
  <1>2. ASSUME NEW t \in ArenaTasks, CreateTask(t) \/ Age(t)  PROVE ArenaRanges'
    <2>1. aged' \subseteq ArenaTasks /\ edits' \in 0 .. MaxEdits /\ UNCHANGED <<writer, answers>>
      BY <1>2 DEF CreateTask, Age, ArenaRanges
    <2> QED  BY <1>1, <2>1
  <1>3. ASSUME NEW w \in Writers, Ask(w)  PROVE ArenaRanges'
    <2>1. PICK t \in CreatedTask, k \in ArenaKeys, x \in Texts : \E v \in 1 .. taskRow[t].version :
            writer' = [writer EXCEPT ![w] = [task |-> t, key |-> k, text |-> x, expected |-> v, answer |-> "sent"]]
      BY <1>3, Zenon DEF Ask
    <2>2. PICK v \in 1 .. taskRow[t].version :
            writer' = [writer EXCEPT ![w] = [task |-> t, key |-> k, text |-> x, expected |-> v, answer |-> "sent"]]
      BY <2>1
    <2>3. writer'[w].key = k /\ \A u \in Writers : u # w => writer'[u] = writer[u]
      BY <1>0, <2>2
    <2>4. UNCHANGED <<aged, answers, edits>>  BY <1>3 DEF Ask
    <2> QED  BY <2>1, <2>3, <2>4 DEF ArenaRanges
  <1>4. ASSUME NEW w \in Writers, Resend(w)  PROVE ArenaRanges'
    <2>1. writer[w].key \in ArenaKeys /\ writer' = [writer EXCEPT ![w].answer = "sent"]
      BY <1>4 DEF Resend, ArenaRanges
    <2>2. writer'[w].key = writer[w].key  BY <1>0, <2>1 DEF Requests
    <2>3. \A v \in Writers : v # w => writer'[v] = writer[v]  BY <1>0, <2>1
    <2> QED  BY <1>4, <2>1, <2>2, <2>3 DEF Resend, ArenaRanges
  <1>5. ASSUME NEW w \in Writers, Replay(w) \/ Refuse(w) \/ SubmitProposal(w)  PROVE ArenaRanges'
    <2>1. \E answer \in {"new", "replayed", "conflict", "full"} : \E p : Reply(w, answer, p)
      <3>1. CASE Replay(w)
        <4>1. PICK i : Reply(w, IF taskRow[writer[w].task].proposals[i].listed.raw = writer[w].text
                                THEN "replayed" ELSE "conflict", taskRow[writer[w].task].proposals[i].listed)
          BY <3>1 DEF Replay
        <4> QED  BY <4>1
      <3>2. CASE Refuse(w)
        <4>1. Reply(w, IF writer[w].expected # taskRow[writer[w].task].version THEN "conflict" ELSE "full",
                    NoSubmission)
          BY <3>2 DEF Refuse
        <4> QED  BY <4>1
      <3>3. CASE SubmitProposal(w)
        BY <3>3 DEF SubmitProposal
      <3> QED  BY <1>5, <3>1, <3>2, <3>3
    <2>2. writer[w].answer = "sent" /\ UNCHANGED <<aged, edits>>
      BY <1>5 DEF Replay, Refuse, SubmitProposal
    <2> QED  BY <2>1, <2>2, RepliesTyped
  <1>6. CASE Import
    <2>1. UNCHANGED <<aged, writer, answers, edits>>  BY <1>6 DEF Import
    <2> QED  BY <2>1 DEF ArenaRanges
  <1>7. CASE EditBundle
    <2>1. UNCHANGED <<aged, writer, answers>> /\ edits < MaxEdits /\ edits' = edits + 1
      BY <1>7 DEF EditBundle
    <2>2. edits' \in 0 .. MaxEdits
      BY <2>1, ArenaConstantsOK DEF ArenaConstantsOK, ArenaRanges
    <2> QED  BY <2>1, <2>2 DEF ArenaRanges
  <1>8. CASE UNCHANGED arenaVars
    <2>1. UNCHANGED <<aged, writer, answers, edits>>  BY <1>8 DEF arenaVars
    <2> QED  BY <2>1 DEF ArenaRanges
  <1> QED  BY <1>2, <1>3, <1>4, <1>5, <1>6, <1>7, <1>8 DEF ArenaNext

LEMMA ArenaTypes == ArenaSpec => []ArenaTypeOK
  <1>1. ASSUME ArenaInit  PROVE ArenaRanges
    <2>1. MaxEdits \in Nat  BY ArenaConstantsOK DEF ArenaConstantsOK
    <2>2. NoSubmission.answer = "none"  BY DEF NoSubmission
    <2>3. \A w \in Writers : writer[w].answer = "none"  BY <1>1, <2>2 DEF ArenaInit
    <2> QED  BY <1>1, <2>1, <2>3 DEF ArenaInit, ArenaRanges
  <1>2. ASSUME ArenaStoreInv, ArenaRanges  PROVE ArenaTypeOK
    <2>1. \A t \in ArenaTasks : Len(taskRow[t].events) = taskRow[t].version
      BY <1>2 DEF ArenaStoreInv, StoreInv, RowOK
    <2>2. \A w \in Writers : writer[w].answer \in {"none", "sent", "lost", "new", "replayed", "conflict", "full"}
      BY <1>2 DEF ArenaStoreInv, ClientsInv, Requests
    <2> QED  BY <1>2, <2>1, <2>2 DEF ArenaRanges, ArenaTypeOK
  <1> QED  BY <1>1, <1>2, StoreStarts, StoreGoesOn, ArenaTypesOn, PTL DEF ArenaSpec

\* A line of the ledger, also one that somebody edited, has an index and a payload.
RecordTyped(r) == RecordOK(r) /\ {"index", "payload"} \subseteq DOMAIN r
LineTyped(l) == l.whole \in BOOLEAN /\ l.ended \in BOOLEAN /\ RecordTyped(l.record)
LedgerRanges ==
  /\ \A i \in 1 .. Len(file) : LineTyped(file[i])
  /\ \A p \in Processes : RecordOK(held[p])
  /\ \A r \in acked : RecordOK(r)
  /\ edited \in BOOLEAN

LEMMA LinesTyped ==
  /\ \A ended \in BOOLEAN : LineTyped(Torn(ended))
  /\ \A ended \in BOOLEAN : \A p : RecordOK(held[p]) => LineTyped(Whole(NewRecord(p), ended)) /\ RecordOK(NewRecord(p))
  <1>1. ASSUME NEW ended \in BOOLEAN  PROVE LineTyped(Torn(ended))
    <2>1. RecordTyped(NoRecord)  BY DEF NoRecord, RecordTyped, RecordOK
    <2>2. Torn(ended).whole = FALSE /\ Torn(ended).ended = ended /\ Torn(ended).record = NoRecord
      BY Zenon DEF Torn
    <2> QED  BY <2>1, <2>2 DEF LineTyped
  <1>2. ASSUME NEW ended \in BOOLEAN, NEW p, RecordOK(held[p])
        PROVE  LineTyped(Whole(NewRecord(p), ended)) /\ RecordOK(NewRecord(p))
    <2> DEFINE r == NewRecord(p)
               l == Whole(r, ended)
    <2>1. r.index = held[p].index /\ r.payload = held[p].payload /\ {"index", "payload"} \subseteq DOMAIN r
      BY DEF NewRecord, Record
    <2> HIDE DEF r
    <2>2. RecordTyped(r)  BY <1>2, <2>1 DEF RecordTyped, RecordOK
    <2>3. l.whole = TRUE /\ l.ended = ended /\ l.record = r  BY Zenon DEF Whole
    <2> HIDE DEF l
    <2>4. LineTyped(l)  BY <2>2, <2>3 DEF LineTyped
    <2> QED  BY <2>2, <2>4 DEF RecordTyped, r, l
  <1> QED  BY <1>1, <1>2

\* What is put behind a file of such lines leaves one.
LEMMA PutTyped ==
  ASSUME IsLines, \A i \in 1 .. Len(file) : LineTyped(file[i]), NEW line, LineTyped(line), file' = Put(file, line)
  PROVE  \A i \in 1 .. Len(file') : LineTyped(file'[i])
  <1>1. PICK S : file \in Seq(S)  BY DEF IsLines
  <1>2. CASE file # <<>> /\ ~file[Len(file)].ended
    <2> DEFINE torn == Torn(line.ended)
    <2>1. LineTyped(torn)  BY LinesTyped DEF LineTyped
    <2>2. file' = [file EXCEPT ![Len(file)] = torn]  BY <1>2 DEF Put
    <2> HIDE DEF torn
    <2>3. Len(file') = Len(file) /\ \A i \in 1 .. Len(file) : file'[i] \in {file[i], torn}
      BY <1>1, <2>2
    <2> QED  BY <2>1, <2>3
  <1>3. CASE file = <<>> \/ file[Len(file)].ended
    <2>1. /\ Len(file') = Len(file) + 1 /\ \A i \in 1 .. Len(file) : file'[i] = file[i]
          /\ file'[Len(file) + 1] = line
      <3>1. file' = Append(file, line)  BY <1>3 DEF Put
      <3> QED  BY <1>1, <3>1
    <2>2. \A i \in 1 .. Len(file') : i \in 1 .. Len(file) \/ i = Len(file) + 1
      BY <1>1, <2>1
    <2> QED  BY <2>1, <2>2
  <1> QED  BY <1>2, <1>3

LEMMA EditTyped ==
  ASSUME IsLines, \A i \in 1 .. Len(file) : LineTyped(file[i]), EditFile
  PROVE  \A i \in 1 .. Len(file') : LineTyped(file'[i])
  <1>1. PICK S : file \in Seq(S)  BY DEF IsLines
  <1>2. PICK i \in 1 .. Len(file) : RemoveLine(i) \/ \E x \in Payloads : EditPayload(i, x)
    BY DEF EditFile
  <1>3. CASE RemoveLine(i)
    <2> DEFINE a == SubSeq(file, 1, i - 1)
               b == SubSeq(file, i + 1, Len(file))
    <2>1. a \in Seq(S) /\ b \in Seq(S) /\ Len(a) = i - 1 /\ Len(b) = Len(file) - i
      BY <1>1, <1>3 DEF RemoveLine
    <2>2. \A k \in 1 .. Len(a) : k \in 1 .. Len(file) /\ a[k] = file[k]
      BY <1>1, <1>3 DEF RemoveLine
    <2>3. \A k \in 1 .. Len(b) : k + i \in 1 .. Len(file) /\ b[k] = file[k + i]
      BY <1>1, <1>3 DEF RemoveLine
    <2>4. file' = a \o b  BY <1>3 DEF RemoveLine
    <2> HIDE DEF a, b
    <2>5. /\ Len(file') = Len(a) + Len(b)
          /\ \A k \in 1 .. Len(a) + Len(b) : file'[k] = IF k <= Len(a) THEN a[k] ELSE b[k - Len(a)]
      <3>1. a \in Seq(S) /\ b \in Seq(S)  BY <2>1
      <3> QED  BY <2>4, <3>1, ConcatProperties
    <2>6. ASSUME NEW k \in 1 .. Len(file')  PROVE LineTyped(file'[k])
      <3>0. Len(a) \in Nat /\ Len(b) \in Nat  BY <2>1
      <3>1. CASE k \in 1 .. Len(a)
        <4>1. file'[k] = a[k]  BY <2>5, <3>0, <3>1
        <4> QED  BY <2>2, <3>1, <4>1
      <3>2. CASE k \notin 1 .. Len(a)
        <4>1. k - Len(a) \in 1 .. Len(b) /\ file'[k] = b[k - Len(a)]  BY <2>5, <3>0, <3>2
        <4> QED  BY <2>3, <4>1
      <3> QED  BY <3>1, <3>2
    <2> QED  BY <2>6
  <1>4. ASSUME NEW x \in Payloads, EditPayload(i, x)
        PROVE  \A k \in 1 .. Len(file') : LineTyped(file'[k])
    <2> DEFINE r == [file[i].record EXCEPT !.payload = x]
               line == Whole(r, file[i].ended)
    <2>1. LineTyped(file[i])  BY <1>2
    <2>2. r.payload = x /\ r.index = file[i].record.index /\ DOMAIN r = DOMAIN file[i].record
      BY <2>1 DEF LineTyped, RecordTyped
    <2>3. file' = [file EXCEPT ![i] = line]  BY <1>4 DEF EditPayload
    <2> HIDE DEF r
    <2>4. line.whole = TRUE /\ line.ended = file[i].ended /\ line.record = r  BY Zenon DEF Whole
    <2> HIDE DEF line
    <2>5. RecordTyped(r)  BY <2>1, <2>2 DEF LineTyped, RecordTyped, RecordOK
    <2>6. LineTyped(line)  BY <2>1, <2>4, <2>5 DEF LineTyped
    <2>7. Len(file') = Len(file) /\ \A k \in 1 .. Len(file) : file'[k] \in {file[k], line}
      BY <1>1, <2>3
    <2> QED  BY <2>6, <2>7
  <1> QED  BY <1>2, <1>3, <1>4

LEMMA LedgerTypesOn == ASSUME ChainInv, LedgerRanges, [LedgerNext]_ledgerVars  PROVE LedgerRanges'
  <1>0. IsLines /\ held = [p \in Processes |-> held[p]]
    BY DEF ChainInv, ProcessesOK
  <1>1. RecordOK(NoHold)  BY DEF NoHold, Holding, RecordOK
  <1>2. ASSUME NEW p \in Processes, NEW h, RecordOK(h), held' = [held EXCEPT ![p] = h]
        PROVE  \A q \in Processes : RecordOK(held'[q])
    BY <1>0, <1>2 DEF LedgerRanges
  <1>3. ASSUME NEW p \in Processes, StartProcess(p) \/ Stop(p) \/ UNCHANGED ledgerVars  PROVE LedgerRanges'
    <2>1. UNCHANGED <<file, held, acked, edited>>  BY <1>3 DEF StartProcess, Stop, ledgerVars
    <2> QED  BY <2>1 DEF LedgerRanges
  <1>4. ASSUME NEW p \in Processes, NEW x \in Payloads, BeginAppend(p, x)  PROVE LedgerRanges'
    <2>1. NextIndex(file) \in Nat
      <3>1. CASE file = <<>>  BY <3>1 DEF NextIndex
      <3>2. CASE file # <<>>
        <4>1. Len(file) \in 1 .. Len(file)  BY <1>0, <3>2 DEF IsLines
        <4>2. file[Len(file)].record.index \in Nat
          BY <4>1 DEF LedgerRanges, LineTyped, RecordTyped, RecordOK
        <4> QED  BY <3>2, <4>2 DEF NextIndex
      <3> QED  BY <3>1, <3>2
    <2> DEFINE h == Holding(x, NextIndex(file), LastHash(file))
    <2>2. h.index = NextIndex(file) /\ h.payload = x  BY DEF Holding
    <2>3. held' = [held EXCEPT ![p] = h] /\ UNCHANGED <<file, acked, edited>>  BY <1>4 DEF BeginAppend
    <2> HIDE DEF h
    <2>4. RecordOK(h)  BY <2>1, <2>2 DEF RecordOK
    <2> QED  BY <1>2, <2>3, <2>4 DEF LedgerRanges
  <1>5. ASSUME NEW p \in Processes, FinishAppend(p)  PROVE LedgerRanges'
    <2>1. LineTyped(Whole(NewRecord(p), TRUE)) /\ RecordOK(NewRecord(p))
      BY LinesTyped DEF LedgerRanges
    <2>2. \A i \in 1 .. Len(file') : LineTyped(file'[i])
      BY <1>0, <1>5, <2>1, PutTyped DEF FinishAppend, LedgerRanges
    <2>3. \A q \in Processes : RecordOK(held'[q])  BY <1>1, <1>2, <1>5 DEF FinishAppend
    <2> QED  BY <1>5, <2>1, <2>2, <2>3 DEF FinishAppend, LedgerRanges
  <1>6. ASSUME NEW p \in Processes, BreakAppend(p)  PROVE LedgerRanges'
    <2>1. LineTyped(Whole(NewRecord(p), FALSE)) /\ LineTyped(Torn(FALSE))
      BY LinesTyped DEF LedgerRanges
    <2>2. \/ file' = file \/ file' = Put(file, Torn(FALSE)) \/ file' = Put(file, Whole(NewRecord(p), FALSE))
      BY <1>6 DEF BreakAppend
    <2>3. \A i \in 1 .. Len(file') : LineTyped(file'[i])
      BY <1>0, <2>1, <2>2, PutTyped DEF LedgerRanges
    <2>4. \A q \in Processes : RecordOK(held'[q])  BY <1>1, <1>2, <1>6 DEF BreakAppend
    <2> QED  BY <1>6, <2>3, <2>4 DEF BreakAppend, LedgerRanges
  <1>7. CASE EditFile
    <2>1. \A i \in 1 .. Len(file') : LineTyped(file'[i])
      BY <1>0, <1>7, EditTyped DEF LedgerRanges
    <2> QED  BY <1>7, <2>1 DEF EditFile, LedgerRanges
  <1>8. CASE UNCHANGED ledgerVars
    <2>1. UNCHANGED <<file, held, acked, edited>>  BY <1>8 DEF ledgerVars
    <2> QED  BY <2>1 DEF LedgerRanges
  <1> QED  BY <1>3, <1>4, <1>5, <1>6, <1>7, <1>8 DEF LedgerNext, ProcessStep

LEMMA LedgerTypes == SoleLedgerSpec => []LedgerTypeOK
  <1>1. ASSUME LedgerInit  PROVE ChainInv /\ LedgerRanges
    <2>1. RecordOK(NoHold)  BY DEF NoHold, Holding, RecordOK
    <2>2. file = <<>> /\ held = [p \in Processes |-> NoHold] /\ acked = {} /\ edited = FALSE
      BY <1>1, Zenon DEF LedgerInit
    <2>3. \A i \in 1 .. Len(file) : LineTyped(file[i])  BY <2>2
    <2>4. \A p \in Processes : RecordOK(held[p])  BY <2>1, <2>2
    <2> QED  BY <1>1, <2>2, <2>3, <2>4, ChainInitially DEF LedgerRanges
  <1>2. ChainInv /\ LedgerRanges /\ [LedgerNext /\ SoleWriter']_ledgerVars => ChainInv' /\ LedgerRanges'
    <2> SUFFICES ASSUME ChainInv, LedgerRanges, [LedgerNext /\ SoleWriter']_ledgerVars
                 PROVE  ChainInv' /\ LedgerRanges'
      OBVIOUS
    <2>1. LedgerRanges'  BY LedgerTypesOn
    <2>2. CASE LedgerNext /\ SoleWriter'  BY <2>1, <2>2, ChainStep
    <2>3. CASE UNCHANGED ledgerVars
      <3>1. ChainInv'
        BY <2>3, Zenon DEF ledgerVars, ChainInv, IsLines, ProcessesOK, SoleWriter, ChainIntact, HoldsLast
      <3> QED  BY <2>1, <3>1
    <2> QED  BY <2>2, <2>3
  <1>3. ASSUME ChainInv, LedgerRanges  PROVE LedgerTypeOK
    <2>1. DOMAIN held = Processes  BY <1>3, Zenon DEF ChainInv, ProcessesOK
    <2> QED
      BY <1>3, <2>1 DEF ChainInv, ProcessesOK, LedgerRanges, LineTyped, RecordTyped, LedgerTypeOK
  <1> QED  BY <1>1, <1>2, <1>3, PTL DEF SoleLedgerSpec

-----------------------------------------------------------------------------
(* MCRequests: one component moves, the others wait *)

requestsVars == <<part, ledgerVars, arenaVars, gatewayVars, harnessVars, authVars, contractVars,
  quoteVars, councilVars, marketVars, replayVars, gatesVars, claimVars, planVars, observedVars>>

LEMMA RequestsStart ==
  RequestsInit => /\ part \in Parts
                  /\ LedgerInit /\ ArenaInit /\ GatewayInit /\ HarnessInit /\ AuthInit /\ ContractsInit
                  /\ QuotesInit /\ CouncilInit /\ MarketInit /\ ReplayInit /\ GatesInit /\ ClaimsInit
                  /\ PlansInit /\ ObservedInit
  BY DEF RequestsInit

LEMMA OneMoves ==
  ASSUME [RequestsNext]_requestsVars
  PROVE  /\ part' = part
         /\ [LedgerNext /\ SoleWriter']_ledgerVars /\ [ArenaNext]_arenaVars /\ [GatewayNext]_gatewayVars
         /\ [HarnessNext]_harnessVars /\ [AuthNext]_authVars /\ [ContractsNext]_contractVars
         /\ [QuotesNext]_quoteVars /\ [CouncilNext]_councilVars /\ [MarketNext]_marketVars
         /\ [ReplayNext]_replayVars /\ [GatesNext]_gatesVars /\ [ClaimsNext]_claimVars
         /\ [PlansNext]_planVars /\ [ObservedNext]_observedVars
  <1>1. CASE RequestsNext
    BY <1>1, Zenon DEF RequestsNext, OthersWait, Waits
  <1>2. CASE UNCHANGED requestsVars
    BY <1>2, Zenon DEF requestsVars
  <1> QED  BY <1>1, <1>2

\* What TLC explores of a component are behaviours of its own specification, so that
\* what is proved of that holds of every state of the run.
THEOREM RequestsAreTheirParts ==
  RequestsSpec => /\ SoleLedgerSpec /\ ArenaSpec /\ GatewaySpec /\ HarnessSpec /\ AuthSpec /\ ContractsSpec
                  /\ QuotesSpec /\ CouncilSpec /\ MarketSpec /\ ReplaySpec /\ GatesSpec /\ ClaimsSpec
                  /\ PlansSpec /\ ObservedSpec
  BY RequestsStart, OneMoves, PTL
     DEF RequestsSpec, requestsVars, SoleLedgerSpec, ArenaSpec, GatewaySpec, HarnessSpec, AuthSpec,
         ContractsSpec, QuotesSpec, CouncilSpec, MarketSpec, ReplaySpec, GatesSpec, ClaimsSpec, PlansSpec,
         ObservedSpec

\* Every component of the run keeps to its types, for every value of the constants.
THEOREM RequestsTypeCorrect == RequestsSpec => []TypesOK
  <1>1. RequestsSpec => [](part \in Parts)
    <2>1. RequestsInit => part \in Parts  BY RequestsStart
    <2>2. part \in Parts /\ [RequestsNext]_requestsVars => (part \in Parts)'
      BY OneMoves
    <2> QED  BY <2>1, <2>2, PTL DEF RequestsSpec, requestsVars
  <1>2. (/\ part \in Parts /\ LedgerTypeOK /\ ArenaTypeOK /\ HarnessTypeOK /\ CouncilTypeOK /\ MarketTypeOK
         /\ ReplayTypeOK /\ GatesTypeOK /\ ClaimsTypeOK /\ PlansTypeOK /\ ObservedTypeOK) => TypesOK
    BY DEF TypesOK
  <1> QED
    BY <1>1, <1>2, RequestsAreTheirParts, LedgerTypes, ArenaTypes, HarnessTyped, CouncilTypes, MarketTypes,
       ReplayTypes, GatesTypes, ClaimsTypes, PlansTypes, ObservedTypes, PTL

\* All that TLC checks of the run holds for every value of the constants, the model's
\* bounds among them.
THEOREM RequestsKeepTheirPromises ==
  RequestsSpec => /\ [](/\ FileIsSound /\ EditIsDetected /\ FailuresAreRecent /\ CapabilitiesHeld
                        /\ SessionsWereAskedFor /\ OrderIsAsSigned /\ StandingIsEarned
                        /\ PlansFitTheirTask /\ PlansActAsAsked)
                  /\ SubmissionsAreSerial /\ ContractsHold /\ CarryingOutHelps
                  /\ OffersWereHeard /\ VerifiedAtOneBlock /\ ClaimsHold
  BY RequestsAreTheirParts, FilesStaySound, EditsAreDetected, CircuitsCountRecentFailures, CapabilitiesAlwaysHeld,
     SessionsAreAskedFor, OrdersAreAsSigned, StandingsAreEarned, PlansAlwaysFit, PlansAlwaysAct,
     SubmissionsAlwaysSerial, ContractsAlwaysHold, RequirementsHelp, OffersAreHeard, VerifiedOfOneBlock,
     IssuedClaimsHold, PTL

===============================================================================
